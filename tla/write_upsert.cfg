\* An INSERT names a key that a row on the other side of the seam has.
SPECIFICATION Spec
CONSTANTS
  k1 = k1
  k2 = k2
  v1 = v1
  v2 = v2
  Keys <- TwoKeys
  TierKeys <- TwoTierKeys
  Vals <- OneVal
  MaxRows = 1
  ChunkRows = 1
  FreeKeys = TRUE
  WorkerRaces = FALSE
INVARIANTS OneRowPerKey
