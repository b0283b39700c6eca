SPECIFICATION FairSpec
CONSTANTS
  t1 = t1
  t2 = t2
  k1 = k1
  d1 = d1
  d2 = d2
  d3 = d3
  None = None
  Runtime = Runtime
  Thread <- TwoThreads
  Task <- OneTask
  Dispatch <- TwoDispatches
  Closers <- ThreadAndTask
  CallsFrom <- AppHandlers
  MayTimeOut = TRUE
  Workers = 2
INVARIANTS
  TypeOK
  LoopServesCallers
  CheckedCallsAdmitted
  ClosersTold
PROPERTIES
  KeepsDrainContract
  CallReturns
  CloserReturns
