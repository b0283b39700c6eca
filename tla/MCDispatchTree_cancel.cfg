SPECIFICATION Spec
CONSTANTS
  Mode = "concurrent"
  MaxMsg = 2
  MaxHandlers = 1
  HandlerEnds = {"ok"}
  Before = {"pass"}
  After = {"pass"}
  MayCancel = TRUE
INVARIANT ClosedAfterTree
CHECK_DEADLOCK FALSE
