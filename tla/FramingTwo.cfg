\* Two responses whose chunks interleave, in both VST versions.
CONSTANTS
  Parts <- TwoMessages
  defaultMaxChunkSize = 26
SPECIFICATION FairSpec
CHECK_DEADLOCK FALSE
INVARIANTS
  ResponseIntact
  StartsWithHeader
  StopsClean
  ChunksFit
PROPERTIES
  ResponseDelivered
