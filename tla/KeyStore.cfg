SPECIFICATION Spec
CONSTANTS
  MaxKeys = 3
INVARIANTS
  TypeOK
  MatchedUnlessDamaged
PROPERTIES
  IntactPairStays
  KeptUnlessDamaged
CHECK_DEADLOCK FALSE
