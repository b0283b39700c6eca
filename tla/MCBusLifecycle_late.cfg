SPECIFICATION Spec
CONSTANTS
  c1 = c1
  c2 = c2
  w1 = w1
  w2 = w2
  d1 = d1
  d2 = d2
  d3 = d3
  d4 = d4
  None = None
  MaxDepth = 4
  Task <- OneCallerTasks
  Caller <- OneCaller
  Dispatch <- TwoDispatches
  Structured = FALSE
INVARIANT ClosedOnlyWhenDrained
CHECK_DEADLOCK FALSE
