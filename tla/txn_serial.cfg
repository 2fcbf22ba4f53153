\* One transaction at a time, as in test/sql: statements may fail and the connection may break, but COMMIT is not refused.
SPECIFICATION Spec
CONSTANTS
  t1 = t1
  t2 = t2
  t3 = t3
  events = events
  mirror = mirror
  Txns <- TwoTxns
  Writers <- TwoTxns
  Tables <- TwoTables
  HotOnly <- OnlyMirror
  MaxChunks = 2
  Discipline = "serial"
  Faults <- SerialFaults
INVARIANTS TypeOK CommitIsDurable RollbackLeavesNothing WritesRunInsideTxn FlagHasOwner PinHeldIsKept PinsReleased
PROPERTIES ImplementsAtomicTxns
