SPECIFICATION Spec
CONSTANTS
  Modes = {"concurrent","sequential"}
  MaxMsg = 3
  MaxHandlers = 2
  FirstSubs = 1
  MaxSubs = 2
  MaxWork = 2
  Ends = {"swallowed","ok","raised"}
  Before = {"pass","skip"}
  After = {"pass","swallow","raise"}
  Stamps = {"none","again"}
  Touched = {1}
  MayCancel = TRUE
INVARIANTS
  TypeOK
  FactsBracketed
  OutcomeShown
PROPERTY CauseSeenFirst
CHECK_DEADLOCK FALSE
