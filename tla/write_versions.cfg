\* Every version that one row can have, in place and across the cut-line and
\* the retention line.
SPECIFICATION Spec
CONSTANTS
  k1 = k1
  k2 = k2
  v1 = v1
  v2 = v2
  Keys <- OneKey
  TierKeys <- ThreeTierKeys
  Vals <- TwoVals
  MaxRows = 1
  ChunkRows = 1
  FreeKeys = FALSE
  WorkerRaces = FALSE
INVARIANTS OverlayIsCold
PROPERTIES ExpiredStaysAway ImplementsLogicalTable
