---------------------------- MODULE MCBusFacade ----------------------------
(***************************************************************************)
(* Instance of BusFacade for TLC: threads that make blocking calls and     *)
(* close the bus, a task that closes it, and dispatches on either loop.    *)
(***************************************************************************)
EXTENDS BusFacade, TLC

CONSTANTS t1, t2, k1, d1, d2, d3

OneThread == {t1}
TwoThreads == {t1, t2}
OneTask == {k1}
TwoDispatches == {d1, d2}
ThreeDispatches == {d1, d2, d3}
ThreadAndTask == {t1, k1}
TaskOnly == {k1}
AppHandlers == {"app"}
BridgeHandlers == {"bridge"}
NoHandlers == {}

Symmetry == Permutations({d1, d2, d3})

=============================================================================
