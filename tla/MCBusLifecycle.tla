--------------------------- MODULE MCBusLifecycle ---------------------------
(***************************************************************************)
(* Instance of BusLifecycle for TLC: model values for the application      *)
(* tasks, the tasks that handlers start and the dispatches.                *)
(***************************************************************************)
EXTENDS BusLifecycle, TLC

CONSTANTS c1, c2, w1, w2, d1, d2, d3, d4

OneCaller == {c1}
TwoCallers == {c1, c2}
OneCallerTasks == {c1, w1, w2}
TwoCallerTasks == {c1, c2, w1}
FourTasks == {c1, c2, w1, w2}
TwoDispatches == {d1, d2}
ThreeDispatches == {d1, d2, d3}
FourDispatches == {d1, d2, d3, d4}

\* Interchangeable identities; used in the runs without liveness.
Symmetry ==
  Permutations({c1, c2}) \cup Permutations({w1, w2})
    \cup Permutations({d1, d2, d3, d4})

=============================================================================
