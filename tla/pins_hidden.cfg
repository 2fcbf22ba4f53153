\* A scan after a write: its pin hides in the write block, and the worker reclaims what the scan reads.
SPECIFICATION PinsSpec
CONSTANTS
  t1 = t1
  t2 = t2
  events = events
  Txns <- TwoTxns
  Writers <- OneTxn
  Tables <- OneTable
  HotOnly <- None
  MaxChunks = 1
  Discipline = "serial"
  Faults <- None
  MaxGeneration = 1
INVARIANTS TimelyPinnedIsReadable
