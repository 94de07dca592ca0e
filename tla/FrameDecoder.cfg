SPECIFICATION Spec
CONSTANTS
  MaxSessions = 3
  MaxPieces = 8
  IntLimit = 3
INVARIANTS
  TypeOK
  SoundUnlessFailed
  ParserClosedOnce
  FedOnce
CHECK_DEADLOCK FALSE
