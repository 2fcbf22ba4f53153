\* A scan while the worker reclaims: the cut-line that it has read is gone before its pin is committed.
SPECIFICATION PinsSpec
CONSTANTS
  t1 = t1
  t2 = t2
  events = events
  Txns <- TwoTxns
  Writers <- OneTxn
  Tables <- OneTable
  HotOnly <- None
  MaxChunks = 1
  Discipline = "serial"
  Faults <- None
  MaxGeneration = 1
INVARIANTS VisiblyPinnedIsReadable
