\* Two writers overlap and nothing fails: one commits what the other then rolls back.
SPECIFICATION Spec
CONSTANTS
  t1 = t1
  t2 = t2
  t3 = t3
  events = events
  mirror = mirror
  Txns <- TwoTxns
  Writers <- TwoTxns
  Tables <- OneTable
  HotOnly <- None
  MaxChunks = 1
  Discipline = "free"
  Faults <- None
INVARIANTS RollbackLeavesNothing
