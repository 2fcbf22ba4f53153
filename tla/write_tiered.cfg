\* Every statement, beside a worker that moves between statements and between
\* a statement's scan and its first chunk.
SPECIFICATION Spec
CONSTANTS
  k1 = k1
  k2 = k2
  v1 = v1
  v2 = v2
  Keys <- TwoKeys
  TierKeys <- TwoTierKeys
  Vals <- OneVal
  MaxRows = 2
  ChunkRows = 2
  FreeKeys = FALSE
  WorkerRaces = FALSE
SYMMETRY KeySymmetry
INVARIANTS TypeOK OneRowPerKey WrittenIsThere RemovedIsGone
PROPERTIES ImplementsLogicalTable
