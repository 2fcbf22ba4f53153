\* The worker commits after a chunk has read the cut-line.
SPECIFICATION Spec
CONSTANTS
  k1 = k1
  k2 = k2
  v1 = v1
  v2 = v2
  Keys <- TwoKeys
  TierKeys <- TwoTierKeys
  Vals <- OneVal
  MaxRows = 1
  ChunkRows = 1
  FreeKeys = FALSE
  WorkerRaces = TRUE
INVARIANTS RemovedIsGone
