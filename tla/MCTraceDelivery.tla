-------------------------- MODULE MCTraceDelivery --------------------------
(***************************************************************************)
(* Instance of TraceDelivery for TLC: a command or an event, its handlers  *)
(* and follow-up events, in both modes, with a subscriber from the start   *)
(* and one that is added at any time.                                      *)
(***************************************************************************)
EXTENDS TraceDelivery

=============================================================================
