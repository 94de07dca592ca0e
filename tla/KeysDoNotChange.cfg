SPECIFICATION Spec
CONSTANTS
  MaxKeys = 3
PROPERTIES
  KeysDoNotChange
CHECK_DEADLOCK FALSE
