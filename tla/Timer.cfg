SPECIFICATION Spec
CONSTANTS
  Starters = {a}
  Stoppers = {b}
  MaxStarts = 3
INVARIANTS
  TypeOK
  NotStartedAgain
  WaitsForThread
PROPERTIES
  StopEnds
CHECK_DEADLOCK FALSE
