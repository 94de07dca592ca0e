SPECIFICATION Spec
CONSTANTS
  MaxSessions = 2
  MaxChunks = 2
  UintMod = 65536
  ChunkLen <- MCChunkLen
  Gaps = {8}
  Status = {0, 1}
INVARIANTS
  TypeOK
  CacheGuarded
  NoLostWakeup
  DecoderLifetime
  ChunksKept
CHECK_DEADLOCK FALSE
