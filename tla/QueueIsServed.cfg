SPECIFICATION Spec
CONSTANTS
  MaxFiles = 2
  MaxInits = 2
PROPERTIES
  QueueIsServed
CHECK_DEADLOCK FALSE
