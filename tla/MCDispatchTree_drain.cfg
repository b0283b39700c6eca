SPECIFICATION Spec
CONSTANTS
  Mode = "concurrent"
  MaxMsg = 3
  MaxHandlers = 1
  HandlerEnds = {"ok"}
  Before = {"pass"}
  After = {"pass", "drain"}
  MayCancel = FALSE
INVARIANT ClosedAfterTree
CHECK_DEADLOCK FALSE
