SPECIFICATION Spec
CONSTANTS
  Mode = "sequential"
  MaxMsg = 4
  MaxHandlers = 2
  HandlerEnds = {"ok", "drain"}
  Before = {"pass"}
  After = {"pass", "raise", "drain"}
  MayCancel = TRUE
INVARIANTS
  FailuresReportedOnce
  NothingOutlivesTheCall
  FollowUpsDispatched
  BreadthFirst
CHECK_DEADLOCK FALSE
