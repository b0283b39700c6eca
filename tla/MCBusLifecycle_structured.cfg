SPECIFICATION Spec
CONSTANTS
  c1 = c1
  c2 = c2
  w1 = w1
  w2 = w2
  d1 = d1
  d2 = d2
  d3 = d3
  d4 = d4
  None = None
  MaxDepth = 4
  Task <- FourTasks
  Caller <- TwoCallers
  Dispatch <- FourDispatches
  Structured = TRUE
SYMMETRY Symmetry
INVARIANTS
  TypeOK
  CleanupFindsBusQuiet
  InsideMayPublish
PROPERTY KeepsDrainContract
CHECK_DEADLOCK FALSE
