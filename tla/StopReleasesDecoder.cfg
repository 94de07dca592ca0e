SPECIFICATION Spec
CONSTANTS
  MaxSessions = 1
  MaxChunks = 1
  UintMod = 65536
  ChunkLen <- MCChunkLen
  Gaps = {0, 8}
  Status = {0, 1}
PROPERTIES
  StopReleasesDecoder
CHECK_DEADLOCK FALSE
