SPECIFICATION Spec
CONSTANTS
  Mode = "concurrent"
  MaxMsg = 3
  MaxHandlers = 2
  HandlerEnds = {"ok", "raised", "drain"}
  Before = {"pass"}
  After = {"pass", "swallow", "raise"}
  MayCancel = FALSE
INVARIANTS
  TypeOK
  FailuresReportedOnce
  FollowUpsDispatched
  NothingOutlivesTheCall
PROPERTIES KeepsDrainContract
CHECK_DEADLOCK FALSE
