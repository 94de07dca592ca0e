SPECIFICATION MCSpec
CONSTANTS
  SizeMod = 64
  Files <- MCFiles
  Paths <- MCPaths
  Texts <- MCTexts
  keepDays = 1
  Day = 1
  IntLimit = 4
  WordMod = 8
  MaxTime = 2
INVARIANTS
  TypeOK
  FileNameIsBase
  CreatePathMakesAll
  Base64RoundTrip
  AddressesMatch
PROPERTIES
  OnlyOldOrTouched
  OthersKept
  OldLogsGo
  DestructorEnds
CHECK_DEADLOCK FALSE
