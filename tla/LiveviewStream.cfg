SPECIFICATION Spec
CONSTANTS
  MaxSessions = 1
  MaxChunks = 3
  UintMod = 65536
  ChunkLen <- MCChunkLen
  Gaps = {0, 8}
  Status = {0, 1}
INVARIANTS
  StreamIntact
  RateCountsEveryChunk
PROPERTIES
  ChannelSpec
  StartRetried
  StopEnds
  DestructorEnds
CHECK_DEADLOCK FALSE
