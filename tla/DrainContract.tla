--------------------------- MODULE DrainContract ---------------------------
(***************************************************************************)
(* What the message bus promises about shutting down, as its README states *)
(* it under "Closing behavior": once closing begins no new root work is    *)
(* accepted, what was accepted is allowed to finish, and the bus is closed *)
(* only after every accepted dispatch tree has completed.  The module says *)
(* nothing of counters, locks, events or tasks; BusLifecycle implements it.*)
(***************************************************************************)
CONSTANT Tree                 \* the root dispatches, each one a dispatch tree

VARIABLES phase,              \* what a caller of the bus can tell of it
          accepted            \* trees accepted and not completed

contractVars == <<phase, accepted>>

Init ==
  /\ phase = "OPEN"
  /\ accepted = {}

Accept(r) ==
  /\ phase = "OPEN"
  /\ r \notin accepted
  /\ accepted' = accepted \cup {r}
  /\ UNCHANGED phase

Complete(r) ==
  /\ r \in accepted
  /\ accepted' = accepted \ {r}
  /\ UNCHANGED phase

BeginClose ==
  /\ phase = "OPEN"
  /\ phase' = "DRAINING"
  /\ UNCHANGED accepted

Close ==
  /\ phase = "DRAINING"
  /\ accepted = {}
  /\ phase' = "CLOSED"
  /\ UNCHANGED accepted

Next ==
  \/ \E r \in Tree : Accept(r) \/ Complete(r)
  \/ BeginClose
  \/ Close

Spec == Init /\ [][Next]_contractVars

=============================================================================
