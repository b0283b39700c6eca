-------------------------- MODULE DeliveryContract --------------------------
(***************************************************************************)
(* What the outbox promises about one message, as its README states it:    *)
(* it is delivered at least once, is marked as published only then, stays  *)
(* published, and may only be evicted after that.  The module says nothing *)
(* of workers, claims or time; Outbox implements it.                       *)
(***************************************************************************)
CONSTANT Row

VARIABLE status

Init == status = [r \in Row |-> "absent"]

\* Rows of a set go from one status to another, the other rows stay.
Move(S, from, to) ==
  /\ \A r \in S : status[r] = from
  /\ status' = [r \in Row |-> IF r \in S THEN to ELSE status[r]]

Enqueue(r) == Move({r}, "absent", "pending")
Deliver(r) == Move({r}, "pending", "delivered")
Confirm(S) == Move(S, "delivered", "published")
Evict(S) == Move(S, "published", "gone")

Next ==
  \/ \E r \in Row : Enqueue(r) \/ Deliver(r)
  \/ \E S \in SUBSET Row : Confirm(S) \/ Evict(S)

Spec == Init /\ [][Next]_status

=============================================================================
