SPECIFICATION FairSpec
CONSTANTS
  t1 = t1
  t2 = t2
  k1 = k1
  d1 = d1
  d2 = d2
  d3 = d3
  None = None
  Runtime = Runtime
  Thread <- OneThread
  Task <- OneTask
  Dispatch <- TwoDispatches
  Closers <- TaskOnly
  CallsFrom <- BridgeHandlers
  MayTimeOut = FALSE
  Workers = 2
PROPERTY CallReturns
CHECK_DEADLOCK FALSE
