SPECIFICATION Spec
CONSTANTS
  Configurations = {{"brightness"}, {"palette", "distance", "float32", "stretch"}}
  Resolutions = {0, 2, 9}
  IntLimit = 8
  MaxInits = 2
INVARIANTS
  TypeOK
  DataOutlivesHandle
  OrderlyIsSafe
  BufferFits
  SettingsApplied
  ReportIsRight
