------------------------------ MODULE MCOutbox ------------------------------
(***************************************************************************)
(* Instance of Outbox for TLC.                                             *)
(***************************************************************************)
EXTENDS Outbox, TLC

CONSTANTS u1, u2, u3

OneWorker == {u1}
TwoWorkers == {u1, u2}
ThreeWorkers == {u1, u2, u3}
OneRow == 1..1
TwoRows == 1..2
ThreeRows == 1..3

\* Workers are interchangeable; rows are ordered.
Symmetry == Permutations({u1, u2, u3})

=============================================================================
