SPECIFICATION FairSpec
CONSTANTS
  c1 = c1
  c2 = c2
  w1 = w1
  w2 = w2
  d1 = d1
  d2 = d2
  d3 = d3
  d4 = d4
  None = None
  MaxDepth = 4
  Task <- FourTasks
  Caller <- TwoCallers
  Dispatch <- ThreeDispatches
  Structured = FALSE
INVARIANT DepthIsNesting
PROPERTIES
  DrainAdmitsOnlyNestedWork
  CloseCompletes
CHECK_DEADLOCK FALSE
