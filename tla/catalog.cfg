\* Two threads look tables up and list them while the registry changes and calls fail.
SPECIFICATION Spec
CONSTANTS
  th1 = th1
  th2 = th2
  public = public
  aux = aux
  NoTable = NoTable
  Threads <- TwoThreads
  Schemas <- TwoSchemas
  Names <- TwoNames
  Fold <- LowerCase
  Tables <- SomeTables
  Kept <- OneTable
INVARIANTS TypeOK HandedOutAreLive ListIsComplete LookupFinds LocksAreOwned
PROPERTIES LocksAreFreed
