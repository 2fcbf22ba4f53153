\* Readers beside one writer at a time; any call may fail, but COMMIT is not refused.
SPECIFICATION Spec
CONSTANTS
  t1 = t1
  t2 = t2
  t3 = t3
  events = events
  mirror = mirror
  Txns <- ThreeTxns
  Writers <- TwoTxns
  Tables <- TwoTables
  HotOnly <- OnlyMirror
  MaxChunks = 2
  Discipline = "one_writer"
  Faults <- OrderedFaults
INVARIANTS WriteInv LossIsReported
PROPERTIES ImplementsAtomicTxns BoundaryCompletes
