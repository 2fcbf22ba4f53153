\* Two processes write direct tables under every fault: order, exclusion and ends of their lake commits.
SPECIFICATION Spec
CONSTANTS
  t1 = t1
  t2 = t2
  ice = ice
  snow = snow
  Txns <- TwoTxns
  Tables <- TwoTables
  Chunks <- SomeChunks
  MaxChunks = 2
  MaxMisread = 1
  Faults <- AllFaults
INVARIANTS TypeOK LakeRunsInOrder CommittedIsWhole LakeCommitsAreSerial OneLakeRowPerKey
PROPERTIES LakeWriteEnds
