\* Two transactions overlap on the session, every call may fail, and the worker reclaims what no pin holds.
SPECIFICATION PinsSpec
CONSTANTS
  t1 = t1
  t2 = t2
  events = events
  Txns <- TwoTxns
  Writers <- TwoTxns
  Tables <- OneTable
  HotOnly <- None
  MaxChunks = 1
  Discipline = "free"
  Faults <- AllFaults
  MaxGeneration = 1
INVARIANTS PinsTypeOK GuardedIsReadable ServerTxnIsTracked LossIsReported
PROPERTIES ReclaimCatchesUp VisiblePinStays
