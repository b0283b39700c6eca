------------------------ MODULE MCOutboxTransactions ------------------------
(***************************************************************************)
(* Instance of OutboxTransactions for TLC: connections for every worker    *)
(* and request, or one connection for all of them.                         *)
(***************************************************************************)
EXTENDS OutboxTransactions, TLC

CONSTANTS u1, u2, c1, c2, c3, c4

OneWorker == {u1}
TwoWorkers == {u1, u2}
TwoRows == 1..2
OwnConnections == {c1, c2, c3, c4}
OneConnection == {c1}
Own == (u1 :> c1) @@ (u2 :> c2) @@ (1 :> c3) @@ (2 :> c4)
Shared == (u1 :> c1) @@ (1 :> c1) @@ (2 :> c1)

=============================================================================
