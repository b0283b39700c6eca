SPECIFICATION Spec
CONSTANTS
  Mode = "concurrent"
  MaxMsg = 2
  MaxHandlers = 2
  HandlerEnds = {"ok", "raised", "drain"}
  Before = {"pass"}
  After = {"pass"}
  MayCancel = FALSE
INVARIANT HandlerFailuresExposed
CHECK_DEADLOCK FALSE
