SPECIFICATION FairSpec
CONSTANTS
  Mode = "concurrent"
  MaxMsg = 3
  MaxHandlers = 1
  HandlerEnds = {"ok", "swallowed", "raised", "drain"}
  Before = {"pass", "skip", "raise", "drain"}
  After = {"pass", "swallow", "raise", "drain"}
  MayCancel = TRUE
INVARIANT FailuresReportedOnce
PROPERTIES
  CallReturns
  CloseReturns
CHECK_DEADLOCK FALSE
