------------------------- MODULE BusLifecycleProofs -------------------------
(***************************************************************************)
(* Proofs about BusLifecycle, for every set of tasks and of dispatches and *)
(* every depth.                                                            *)
(*                                                                         *)
(* Three inductive invariants, each resting on the ones before it:         *)
(*   - Accounting: the counter and the event count the live dispatches;    *)
(*   - Nesting: the depth a task carries is the nesting of its code.  Both *)
(*     hold whatever tasks handlers leave behind;                          *)
(*   - Tree: when every dispatch outlives its tasks, the live dispatches   *)
(*     and the tasks form trees rooted in callers, so an empty bus has no  *)
(*     task left that carries a depth, and nothing can enter it any more.  *)
(***************************************************************************)
EXTENDS BusLifecycle, FiniteSetTheorems, TLAPS

\* The state follows the progress of the close operation.
Closing ==
  /\ state = "OPEN" <=> closer = "idle"
  /\ state = "CLOSED" => closer \in {"cleaned", "raised"}

\* DepthIsNesting, with what keeps it: the token of a live dispatch restores
\* zero exactly when the dispatch is a root, and its task still exists.
Nesting ==
  /\ DepthIsNesting
  /\ \A d \in live : token[d] = 0 <=> parent[d] = None
  /\ \A d \in live : home[d] \in alive

\* A live dispatch waits for every task but the callers, and a caller executes
\* the code of a dispatch it called and that has not returned.
TasksHang ==
  /\ Caller \subseteq alive
  /\ \A t \in alive \ Caller : origin[t] \in live
  /\ \A t \in Caller : origin[t] = None
  /\ \A t \in Caller : cur[t] # None => cur[t] \in live /\ home[cur[t]] = t

\* The live dispatches of one task are a stack, its depth above all of them; in
\* a caller the stack is rooted, parents below their children.
DispatchesHang ==
  /\ \A d \in live : parent[d] # None /\ home[d] \in Caller =>
       parent[d] \in live /\ home[parent[d]] = home[d]
  /\ \A d \in live : token[d] < depth[home[d]]
  /\ \A d, e \in live : home[d] = home[e] /\ token[d] = token[e] => d = e

Tree == TasksHang /\ DispatchesHang /\ CleanupFindsBusQuiet

-----------------------------------------------------------------------------
(* Types.                                                                  *)

\* Every variable keeps its type.  The counter is the one at risk, since it is
\* decremented: that it stays a natural number rests on the accounting of
\* _claim_admission and _exit_admission (lifecycle.py:49-67).
IType == TypeOK /\ DrainedIffEmpty

LEMMA TypeInit == Init => IType
  <1> SUFFICES ASSUME Init PROVE IType
    OBVIOUS
  <1>1. TypeOK
    BY LifecycleAssumption DEF Init, TypeOK, BusState, CloserState
  <1>2. DrainedIffEmpty
    BY FS_EmptySet DEF Init, DrainedIffEmpty
  <1> QED
    BY <1>1, <1>2 DEF IType

\* The live dispatches are finitely many, so they can be counted.
LEMMA LiveFinite == TypeOK => IsFiniteSet(live) /\ Cardinality(live) \in Nat
  BY LifecycleAssumption, FS_Subset, FS_CardinalityType DEF TypeOK

LEMMA TypeClaim ==
  ASSUME IType,
         NEW t \in Task, NEW d \in Dispatch, NEW op \in {"send", "publish"},
         Claim(op, t, d)
  PROVE  IType'
  <1> USE DEF IType
  <1>1. TypeOK'
    <2>1. depth[t] \in Nat /\ cur[t] \in Dispatch \cup {None}
      BY DEF TypeOK
    <2>2. depth' \in [Task -> Nat] /\ token' \in [Dispatch -> Nat]
      BY <2>1 DEF TypeOK, Claim
    <2>3. /\ cur' \in [Task -> Dispatch \cup {None}]
          /\ home' \in [Dispatch -> Task \cup {None}]
          /\ parent' \in [Dispatch -> Dispatch \cup {None}]
      BY <2>1 DEF TypeOK, Claim
    <2>4. /\ state' \in BusState /\ closer' \in CloserState
          /\ inFlight' \in Nat /\ live' \in SUBSET Dispatch
      BY DEF TypeOK, Claim, Entered
    <2>5. drained' \in BOOLEAN
      BY DEF Claim
    <2>6. alive' \in SUBSET Task /\ origin' \in [Task -> Dispatch \cup {None}]
      BY DEF TypeOK, Claim
    <2> QED
      BY <2>2, <2>3, <2>4, <2>5, <2>6 DEF TypeOK
  <1>2. d \notin live /\ live' = live \cup {d}
    BY DEF Claim, Free
  <1>3. Cardinality(live') = Cardinality(live) + 1
    BY <1>2, LiveFinite, FS_AddElement
  <1>4. DrainedIffEmpty'
    BY <1>2, <1>3 DEF DrainedIffEmpty, Claim, Entered
  <1> QED
    BY <1>1, <1>4

LEMMA TypeExit ==
  ASSUME IType, NEW d \in Dispatch, Exit(d)
  PROVE  IType'
  <1> USE DEF IType
  <1>1. d \in live /\ live' = live \ {d} /\ inFlight' = inFlight - 1
    BY DEF Exit
  <1>2. /\ Cardinality(live') = Cardinality(live) - 1
        /\ IsFiniteSet(live') /\ Cardinality(live') \in Nat
    BY <1>1, LiveFinite, FS_RemoveElement, FS_CardinalityType
  <1>3. inFlight' = Cardinality(live')
    BY <1>1, <1>2 DEF DrainedIffEmpty
  <1>4. TypeOK'
    <2>1. closer' \in CloserState
      BY DEF TypeOK, Exit, CloserState
    <2> QED
      BY <1>1, <1>2, <1>3, <2>1 DEF TypeOK, Exit, Restored
  <1>5. drained' = (live' = {})
    <2>1. Cardinality(live') = 0 <=> live' = {}
      BY <1>2, FS_EmptySet
    <2>2. LastOut <=> live' = {}
      BY <1>1, <1>3, <2>1 DEF LastOut, TypeOK
    <2>3. drained = FALSE
      BY <1>1 DEF DrainedIffEmpty, TypeOK
    <2> QED
      BY <2>2, <2>3 DEF Exit
  <1> QED
    BY <1>3, <1>4, <1>5 DEF DrainedIffEmpty

LEMMA TypeNext == IType /\ [Next]_vars => IType'
  <1> SUFFICES ASSUME IType, [Next]_vars PROVE IType'
    OBVIOUS
  <1> USE DEF IType, TypeOK, DrainedIffEmpty
  <1>1. ASSUME NEW t \in Task, NEW d \in Dispatch, NEW op \in {"send", "publish"},
               Claim(op, t, d)
        PROVE  IType'
    BY <1>1, TypeClaim
  <1>2. ASSUME NEW d \in Dispatch, Exit(d) PROVE IType'
    BY <1>2, TypeExit
  <1>3. ASSUME NEW t \in Task, NEW w \in Task, NEW o \in Dispatch, Spawn(t, w, o) PROVE IType'
    BY <1>3 DEF Spawn
  <1>4. ASSUME NEW w \in Task, TaskEnd(w) PROVE IType'
    BY <1>4 DEF TaskEnd
  <1>5. CASE BeginClose
    BY <1>5 DEF BeginClose, BusState, CloserState
  <1>6. CASE WaitDrained
    BY <1>6 DEF WaitDrained, CloserState
  <1>7. CASE RunCleanup
    BY <1>7 DEF RunCleanup, CloserState
  <1>8. CASE FinishClose
    BY <1>8 DEF FinishClose, BusState
  <1>9. CASE UNCHANGED vars
    BY <1>9 DEF vars
  <1> QED
    BY <1>1, <1>2, <1>3, <1>4, <1>5, <1>6, <1>7, <1>8, <1>9 DEF Next

THEOREM Typing == Spec => []IType
  BY TypeInit, TypeNext, PTL DEF Spec

\* Type correctness of the lifecycle, the counter of calls never negative.
THEOREM TypeCorrect == Spec => []TypeOK
  <1>1. IType => TypeOK
    BY DEF IType
  <1> QED
    BY <1>1, Typing, PTL

\* The drained event is set exactly when no dispatch is inside the bus, whatever
\* tasks the handlers leave behind (lifecycle.py:58-67).
THEOREM DrainedExact == Spec => []DrainedIffEmpty
  <1>1. IType => DrainedIffEmpty
    BY DEF IType
  <1> QED
    BY <1>1, Typing, PTL

-----------------------------------------------------------------------------
(* Depths.                                                                 *)

INest == TypeOK /\ Nesting

LEMMA NestInit == Init => Nesting
  BY LifecycleAssumption DEF Init, Nesting, DepthIsNesting

\* A new dispatch: its identity is referred to by nobody else.
LEMMA NestClaim ==
  ASSUME INest,
         NEW t \in Task, NEW d \in Dispatch, NEW op \in {"send", "publish"},
         Claim(op, t, d)
  PROVE  Nesting'
  <1> USE DEF INest
  <1>1. /\ d \notin live /\ live' = live \cup {d} /\ alive' = alive /\ t \in alive
        /\ \A u \in alive : cur[u] # d
        /\ \A e \in live : parent[e] # d
    BY DEF Claim, Free
  <1>2. /\ depth' = [depth EXCEPT ![t] = depth[t] + 1]
        /\ cur' = [cur EXCEPT ![t] = d]
        /\ token' = [token EXCEPT ![d] = depth[t]]
        /\ parent' = [parent EXCEPT ![d] = cur[t]]
        /\ home' = [home EXCEPT ![d] = t]
    BY DEF Claim
  <1>3. \A u \in alive' : depth'[u] = 0 <=> cur'[u] = None
    BY <1>1, <1>2, LifecycleAssumption DEF Nesting, DepthIsNesting, TypeOK
  <1>4. \A u \in alive' : cur'[u] \in live' => depth'[u] = token'[cur'[u]] + 1
    BY <1>1, <1>2 DEF Nesting, DepthIsNesting, TypeOK
  <1>5. \A e \in live' : parent'[e] \in live' => token'[e] = token'[parent'[e]] + 1
    <2> SUFFICES ASSUME NEW e \in live', parent'[e] \in live'
                 PROVE  token'[e] = token'[parent'[e]] + 1
      OBVIOUS
    <2>1. CASE e = d
      BY <1>1, <1>2, <2>1 DEF Nesting, DepthIsNesting, TypeOK
    <2>2. CASE e # d
      BY <1>1, <1>2, <2>2 DEF Nesting, DepthIsNesting, TypeOK
    <2> QED
      BY <2>1, <2>2
  <1>6. \A e \in live' : token'[e] = 0 <=> parent'[e] = None
    BY <1>1, <1>2 DEF Nesting, DepthIsNesting, TypeOK
  <1>7. \A e \in live' : home'[e] \in alive'
    BY <1>1, <1>2 DEF Nesting, TypeOK
  <1> QED
    BY <1>3, <1>4, <1>5, <1>6, <1>7 DEF Nesting, DepthIsNesting

\* A dispatch returns: the reset gives its task the depth of its parent back.
LEMMA NestExit ==
  ASSUME INest, NEW d \in Dispatch, Exit(d)
  PROVE  Nesting'
  <1> USE DEF INest
  <1> DEFINE h == home[d]
  <1>1. /\ d \in live /\ live' = live \ {d} /\ alive' = alive
        /\ h \in alive /\ h \in Task /\ cur[h] = d
    BY DEF Exit, Nesting, TypeOK
  <1>2. /\ depth' = [depth EXCEPT ![h] = token[d]]
        /\ cur' = [cur EXCEPT ![h] = parent[d]]
        /\ token' = [token EXCEPT ![d] = 0]
        /\ parent' = [parent EXCEPT ![d] = None]
        /\ home' = [home EXCEPT ![d] = None]
    BY DEF Exit, Restored
  <1> HIDE DEF h
  <1>3. \A u \in alive' : depth'[u] = 0 <=> cur'[u] = None
    BY <1>1, <1>2 DEF Nesting, DepthIsNesting, TypeOK
  <1>4. \A u \in alive' : cur'[u] \in live' => depth'[u] = token'[cur'[u]] + 1
    BY <1>1, <1>2 DEF Nesting, DepthIsNesting, TypeOK
  <1>5. \A e \in live' : parent'[e] \in live' => token'[e] = token'[parent'[e]] + 1
    BY <1>1, <1>2 DEF Nesting, DepthIsNesting, TypeOK
  <1>6. \A e \in live' : token'[e] = 0 <=> parent'[e] = None
    BY <1>1, <1>2 DEF Nesting, TypeOK
  <1>7. \A e \in live' : home'[e] \in alive'
    BY <1>1, <1>2 DEF Nesting, TypeOK
  <1> QED
    BY <1>3, <1>4, <1>5, <1>6, <1>7 DEF Nesting, DepthIsNesting

LEMMA NestNext == INest /\ [Next]_vars => Nesting'
  <1> SUFFICES ASSUME INest, [Next]_vars PROVE Nesting'
    OBVIOUS
  <1> USE DEF INest
  <1>1. ASSUME NEW t \in Task, NEW d \in Dispatch, NEW op \in {"send", "publish"},
               Claim(op, t, d)
        PROVE  Nesting'
    BY <1>1, NestClaim
  <1>2. ASSUME NEW d \in Dispatch, Exit(d) PROVE Nesting'
    BY <1>2, NestExit
  <1>3. ASSUME NEW t \in Task, NEW w \in Task, NEW o \in Dispatch, Spawn(t, w, o) PROVE Nesting'
    BY <1>3 DEF Spawn, Nesting, DepthIsNesting, TypeOK
  <1>4. ASSUME NEW w \in Task, TaskEnd(w) PROVE Nesting'
    BY <1>4 DEF TaskEnd, Nesting, DepthIsNesting, TypeOK
  <1>5. CASE UNCHANGED <<depth, alive, origin, cur, live, home, token, parent>>
    BY <1>5 DEF Nesting, DepthIsNesting
  <1> QED
    BY <1>1, <1>2, <1>3, <1>4, <1>5
       DEF Next, BeginClose, WaitDrained, RunCleanup, FinishClose, vars

THEOREM NestingHolds == Spec => []INest
  <1>1. Init => INest
    BY TypeInit, NestInit DEF INest, IType
  <1>2. TypeOK' /\ INest /\ [Next]_vars => INest'
    BY NestNext DEF INest
  <1> QED
    BY <1>1, <1>2, TypeCorrect, PTL DEF Spec

\* The depth a task carries is the nesting of the code it executes, whatever
\* the tasks do (CONTEXT.md, "Dispatch depth"; lifecycle.py:49-63).
THEOREM DepthExact == Spec => []DepthIsNesting
  <1>1. INest => DepthIsNesting
    BY DEF INest, Nesting
  <1> QED
    BY <1>1, NestingHolds, PTL

\* While the bus drains it admits only publish() calls made on behalf of a
\* dispatch it accepted before; once closed, none (lifecycle.py:52-57).
THEOREM DrainAdmission == Spec => DrainAdmitsOnlyNestedWork
  <1> DEFINE A == \A d \in live' \ live :
                    state # "OPEN" => state = "DRAINING" /\ parent'[d] # None
  <1>1. INest /\ [Next]_vars => [A]_vars
    <2> SUFFICES ASSUME INest, Next, NEW d \in live' \ live, state # "OPEN"
                 PROVE  state = "DRAINING" /\ parent'[d] # None
      OBVIOUS
    <2>1. PICK t \in Task, e \in Dispatch, op \in {"send", "publish"} : Claim(op, t, e)
      BY DEF Next, Exit, Spawn, TaskEnd, BeginClose, WaitDrained, RunCleanup, FinishClose
    <2>2. e = d /\ t \in alive /\ parent' = [parent EXCEPT ![d] = cur[t]]
      BY <2>1 DEF Claim
    <2>3. op = "publish" /\ state = "DRAINING" /\ depth[t] # 0
      BY <2>1 DEF Claim, MayEnter, INest, TypeOK, BusState
    <2> QED
      BY <2>2, <2>3 DEF INest, TypeOK, Nesting, DepthIsNesting
  <1> QED
    BY <1>1, NestingHolds, PTL DEF Spec, DrainAdmitsOnlyNestedWork

-----------------------------------------------------------------------------
(* Trees.                                                                  *)

LEMMA ClosingNext == Closing /\ [Next]_vars => Closing'
  <1> SUFFICES ASSUME Closing, [Next]_vars PROVE Closing'
    OBVIOUS
  <1> USE DEF Closing
  <1>1. CASE BeginClose
    BY <1>1 DEF BeginClose
  <1>2. CASE WaitDrained
    BY <1>2 DEF WaitDrained
  <1>3. CASE RunCleanup
    BY <1>3 DEF RunCleanup
  <1>4. CASE FinishClose
    BY <1>4 DEF FinishClose
  <1>5. ASSUME NEW d \in Dispatch, Exit(d) PROVE Closing'
    BY <1>5 DEF Exit
  <1>6. CASE UNCHANGED <<state, closer>>
    BY <1>6
  <1> QED
    BY <1>1, <1>2, <1>3, <1>4, <1>5, <1>6 DEF Next, Claim, Spawn, TaskEnd, vars

ITree == IType /\ INest /\ Closing /\ Tree

LEMMA TreeInit == Init => Closing /\ Tree
  BY LifecycleAssumption
     DEF Init, Closing, Tree, TasksHang, DispatchesHang, CleanupFindsBusQuiet

\* A new dispatch hangs below the one whose code called it, or is a root.
LEMMA TreeClaim ==
  ASSUME ITree,
         NEW t \in Task, NEW d \in Dispatch, NEW op \in {"send", "publish"},
         Claim(op, t, d)
  PROVE  Tree'
  <1> USE DEF ITree, INest, Tree
  <1>1. /\ d \notin live /\ live' = live \cup {d}
        /\ alive' = alive /\ origin' = origin /\ t \in alive
        /\ \A u \in alive : cur[u] # d /\ origin[u] # d
        /\ \A e \in live : parent[e] # d
    BY DEF Claim, Free
  <1>2. /\ depth' = [depth EXCEPT ![t] = depth[t] + 1]
        /\ cur' = [cur EXCEPT ![t] = d]
        /\ token' = [token EXCEPT ![d] = depth[t]]
        /\ parent' = [parent EXCEPT ![d] = cur[t]]
        /\ home' = [home EXCEPT ![d] = t]
    BY DEF Claim
  <1>3. TasksHang'
    BY <1>1, <1>2 DEF TasksHang, TypeOK
  <1>4. \A e \in live' : parent'[e] # None /\ home'[e] \in Caller =>
          parent'[e] \in live' /\ home'[parent'[e]] = home'[e]
    <2> SUFFICES ASSUME NEW e \in live', parent'[e] # None, home'[e] \in Caller
                 PROVE  parent'[e] \in live' /\ home'[parent'[e]] = home'[e]
      OBVIOUS
    <2>1. CASE e = d
      BY <1>1, <1>2, <2>1 DEF TasksHang, TypeOK
    <2>2. CASE e # d
      BY <1>1, <1>2, <2>2 DEF DispatchesHang, TypeOK
    <2> QED
      BY <2>1, <2>2
  <1>5. \A e \in live' : token'[e] < depth'[home'[e]]
    BY <1>1, <1>2 DEF DispatchesHang, Nesting, TypeOK
  <1>6. \A e, f \in live' : home'[e] = home'[f] /\ token'[e] = token'[f] => e = f
    BY <1>1, <1>2 DEF DispatchesHang, TypeOK
  <1>7. CleanupFindsBusQuiet'
    <2>1. cur[t] # None => live # {} \/ alive # Caller
      BY <1>1 DEF TasksHang
    <2>2. state # "OPEN" => cur[t] # None
      BY <1>1 DEF Claim, MayEnter, Nesting, DepthIsNesting, TypeOK, BusState
    <2>3. closer \notin {"woken", "cleaned", "raised"}
      BY <2>1, <2>2 DEF Closing, CleanupFindsBusQuiet
    <2> QED
      BY <2>3 DEF CleanupFindsBusQuiet, Claim
  <1> QED
    BY <1>3, <1>4, <1>5, <1>6, <1>7 DEF DispatchesHang

\* A dispatch that returns is a leaf: no task is left that it waits for, and no
\* caller executes code below it.
LEMMA ReturnsAsLeaf ==
  ASSUME ITree, Structured, NEW d \in Dispatch, Exit(d)
  PROVE  /\ d \in live /\ home[d] \in alive /\ cur[home[d]] = d
         /\ \A t \in alive : origin[t] # d
         /\ \A t \in Caller : cur[t] = d => t = home[d]
         /\ \A e \in live : home[e] \in Caller => parent[e] # d
  <1> USE DEF ITree, INest, Tree
  <1>1. /\ d \in live /\ home[d] \in alive /\ cur[home[d]] = d /\ d # None
        /\ \A t \in alive : origin[t] # d
    BY LifecycleAssumption DEF Exit, Nesting
  <1>2. \A t \in Caller : cur[t] = d => t = home[d]
    BY <1>1 DEF TasksHang
  <1>3. ASSUME NEW e \in live, home[e] \in Caller, parent[e] = d PROVE FALSE
    <2>1. home[e] \in alive /\ home[d] = home[e]
      BY <1>1, <1>3 DEF DispatchesHang, Nesting
    <2>2. token[e] = token[d] + 1 /\ depth[home[d]] = token[d] + 1
      BY <1>1, <1>3 DEF Nesting, DepthIsNesting
    <2>3. token[e] < depth[home[d]]
      BY <2>1 DEF DispatchesHang
    <2> QED
      BY <2>2, <2>3, <1>1 DEF TypeOK
  <1> QED
    BY <1>1, <1>2, <1>3

LEMMA TreeExit ==
  ASSUME ITree, IType', Structured, NEW d \in Dispatch, Exit(d)
  PROVE  Tree'
  <1> USE DEF ITree, INest, Tree
  <1> DEFINE h == home[d]
  <1>1. /\ d \in live /\ h \in alive /\ cur[h] = d /\ h \in Task
        /\ \A t \in alive : origin[t] # d
        /\ \A t \in Caller : cur[t] = d => t = h
        /\ \A e \in live : home[e] \in Caller => parent[e] # d
    BY ReturnsAsLeaf DEF TypeOK
  <1>2. /\ depth' = [depth EXCEPT ![h] = token[d]]
        /\ cur' = [cur EXCEPT ![h] = parent[d]]
        /\ token' = [token EXCEPT ![d] = 0]
        /\ parent' = [parent EXCEPT ![d] = None]
        /\ home' = [home EXCEPT ![d] = None]
        /\ live' = live \ {d} /\ alive' = alive /\ origin' = origin
    BY DEF Exit, Restored
  <1>3. TasksHang'
    <2>1. \A t \in alive' \ Caller : origin'[t] \in live'
      BY <1>1, <1>2 DEF TasksHang
    <2>2. ASSUME NEW t \in Caller, cur'[t] # None
          PROVE  cur'[t] \in live' /\ home'[cur'[t]] = t
      <3>1. CASE t = h
        BY <1>1, <1>2, <2>2, <3>1 DEF DispatchesHang, TypeOK
      <3>2. CASE t # h
        BY <1>1, <1>2, <2>2, <3>2 DEF TasksHang, TypeOK
      <3> QED
        BY <3>1, <3>2
    <2> QED
      BY <1>2, <2>1, <2>2 DEF TasksHang
  <1>4. \A e \in live' : parent'[e] # None /\ home'[e] \in Caller =>
          parent'[e] \in live' /\ home'[parent'[e]] = home'[e]
    BY <1>1, <1>2 DEF DispatchesHang, TypeOK
  <1>5. \A e \in live' : token'[e] < depth'[home'[e]]
    <2> SUFFICES ASSUME NEW e \in live' PROVE token'[e] < depth'[home'[e]]
      OBVIOUS
    <2>1. e \in live /\ e # d /\ token'[e] = token[e] /\ home'[e] = home[e]
      BY <1>2 DEF TypeOK
    <2>2. CASE home[e] = h
      <3>1. depth[h] = token[d] + 1 /\ depth'[h] = token[d]
        BY <1>1, <1>2 DEF Nesting, DepthIsNesting, TypeOK
      <3>2. token[e] < depth[h] /\ token[e] # token[d]
        BY <1>1, <2>1, <2>2 DEF DispatchesHang
      <3> QED
        BY <2>1, <2>2, <3>1, <3>2 DEF TypeOK
    <2>3. CASE home[e] # h
      BY <1>2, <2>1, <2>3 DEF DispatchesHang, Nesting, TypeOK
    <2> QED
      BY <2>2, <2>3
  <1>6. \A e, f \in live' : home'[e] = home'[f] /\ token'[e] = token'[f] => e = f
    BY <1>1, <1>2 DEF DispatchesHang, TypeOK
  <1>7. CleanupFindsBusQuiet'
    <2> SUFFICES ASSUME closer' \in {"woken", "cleaned", "raised"}
                 PROVE  live' = {} /\ alive' = Caller
      BY DEF CleanupFindsBusQuiet
    <2>1. live # {}
      BY <1>1
    <2>2. drained'
      BY <2>1 DEF Exit, CleanupFindsBusQuiet
    <2>3. live' = {}
      BY <2>2 DEF IType, DrainedIffEmpty
    <2> QED
      BY <2>3, <1>3 DEF TasksHang
  <1> QED
    BY <1>3, <1>4, <1>5, <1>6, <1>7 DEF DispatchesHang

LEMMA TreeSpawn ==
  ASSUME ITree, NEW t \in Task, NEW w \in Task, NEW o \in Dispatch, Spawn(t, w, o)
  PROVE  Tree'
  <1> USE DEF ITree, INest, Tree
  <1>1. /\ t \in alive /\ w \notin alive /\ cur[t] # None /\ w \notin Caller
        /\ alive' = alive \cup {w}
        /\ origin' = [origin EXCEPT ![w] = o]
        /\ cur' = [cur EXCEPT ![w] = cur[t]]
        /\ depth' = [depth EXCEPT ![w] = depth[t]]
        /\ UNCHANGED <<live, home, token, parent, closer>>
    BY DEF Spawn, TasksHang
  <1>0. o \in live
    BY <1>1 DEF Spawn, Enclosing, TasksHang
  <1>2. TasksHang'
    BY <1>1, <1>0 DEF TasksHang, TypeOK
  <1>3. DispatchesHang'
    <2>1. \A e \in live : home[e] # w /\ home[e] \in alive
      BY <1>1 DEF Nesting
    <2> QED
      BY <1>1, <2>1 DEF DispatchesHang, TypeOK
  <1>4. CleanupFindsBusQuiet'
    BY <1>1 DEF CleanupFindsBusQuiet, TasksHang
  <1> QED
    BY <1>2, <1>3, <1>4

LEMMA TreeTaskEnd ==
  ASSUME ITree, NEW w \in Task, TaskEnd(w)
  PROVE  Tree'
  <1> USE DEF ITree, INest, Tree
  <1>1. /\ w \in alive \ Caller
        /\ \A d \in live : home[d] # w
        /\ alive' = alive \ {w}
        /\ origin' = [origin EXCEPT ![w] = None]
        /\ cur' = [cur EXCEPT ![w] = None]
        /\ depth' = [depth EXCEPT ![w] = 0]
        /\ UNCHANGED <<live, home, token, parent, closer>>
    BY DEF TaskEnd
  <1>2. TasksHang'
    BY <1>1 DEF TasksHang, TypeOK
  <1>3. DispatchesHang'
    BY <1>1 DEF DispatchesHang, Nesting, TypeOK
  <1>4. CleanupFindsBusQuiet'
    BY <1>1 DEF CleanupFindsBusQuiet
  <1> QED
    BY <1>2, <1>3, <1>4

LEMMA TreeNext == IType' /\ Structured /\ ITree /\ [Next]_vars => Tree'
  <1> SUFFICES ASSUME IType', Structured, ITree, [Next]_vars PROVE Tree'
    OBVIOUS
  <1>1. ASSUME NEW t \in Task, NEW d \in Dispatch, NEW op \in {"send", "publish"},
               Claim(op, t, d)
        PROVE  Tree'
    BY <1>1, TreeClaim
  <1>2. ASSUME NEW d \in Dispatch, Exit(d) PROVE Tree'
    BY <1>2, TreeExit
  <1>3. ASSUME NEW t \in Task, NEW w \in Task, NEW o \in Dispatch, Spawn(t, w, o) PROVE Tree'
    BY <1>3, TreeSpawn
  <1>4. ASSUME NEW w \in Task, TaskEnd(w) PROVE Tree'
    BY <1>4, TreeTaskEnd
  <1>5. CASE WaitDrained
    <2>1. drained => live = {} /\ alive = Caller
      BY DEF ITree, IType, DrainedIffEmpty, Tree, TasksHang
    <2> QED
      BY <1>5, <2>1
         DEF WaitDrained, ITree, Tree, TasksHang, DispatchesHang, CleanupFindsBusQuiet
  <1>6. CASE BeginClose \/ RunCleanup \/ FinishClose \/ UNCHANGED vars
    BY <1>6 DEF BeginClose, RunCleanup, FinishClose, vars,
                ITree, Tree, TasksHang, DispatchesHang, CleanupFindsBusQuiet
  <1> QED
    BY <1>1, <1>2, <1>3, <1>4, <1>5, <1>6 DEF Next

LEMMA TreeHolds == ASSUME Structured PROVE Spec => []ITree
  <1>1. Init => ITree
    BY TypeInit, NestInit, TreeInit DEF ITree, INest, IType
  <1>2. ITree /\ [Next]_vars => ITree'
    BY TypeNext, NestNext, ClosingNext, TreeNext DEF ITree, INest, IType
  <1> QED
    BY <1>1, <1>2, PTL DEF Spec

\* When cleanup() starts no dispatch is inside and no task of one is left, as
\* long as every dispatch outlives the tasks started on its behalf: the executor
\* is shut down under nobody (lifecycle.py:77-78).
THEOREM CleanupQuiet == ASSUME Structured PROVE Spec => []CleanupFindsBusQuiet
  <1>1. ITree => CleanupFindsBusQuiet
    BY DEF ITree, Tree
  <1> QED
    BY <1>1, TreeHolds, PTL

\* Code that runs on behalf of an accepted dispatch is never refused a publish(),
\* in any state the close operation may be in (lifecycle.py:52-57).
THEOREM FollowUpsAdmitted == ASSUME Structured PROVE Spec => []InsideMayPublish
  <1>1. ITree => InsideMayPublish
    <2> SUFFICES ASSUME ITree, NEW t \in alive, cur[t] # None
                 PROVE  MayEnter("publish", t)
      BY DEF InsideMayPublish
    <2>1. state # "CLOSED"
      BY DEF ITree, Closing, Tree, CleanupFindsBusQuiet, TasksHang
    <2>2. depth[t] # 0
      BY DEF ITree, IType, TypeOK, INest, Nesting, DepthIsNesting
    <2> QED
      BY <2>1, <2>2 DEF MayEnter
  <1> QED
    BY <1>1, TreeHolds, PTL

-----------------------------------------------------------------------------
(* Refinement.                                                             *)

\* The roots inside the bus, as DrainContract sees them.
Roots == {d \in live : parent[d] = None}

LEMMA ContractInit == Init => Contract!Init
  BY DEF Init, Contract!Init

\* Each step of the lifecycle is a step of the contract or invisible to it.
LEMMA ContractNext ==
  ITree /\ [Next]_vars => [Contract!Next]_(Contract!contractVars)
  <1> SUFFICES ASSUME ITree, [Next]_vars
               PROVE  Contract!Next \/ (state' = state /\ Roots' = Roots)
    BY DEF Contract!contractVars, Roots
  <1> USE DEF ITree, INest
  <1>1. ASSUME NEW t \in Task, NEW d \in Dispatch, NEW op \in {"send", "publish"},
               Claim(op, t, d)
        PROVE  Contract!Next \/ (state' = state /\ Roots' = Roots)
    <2>1. /\ d \notin live /\ live' = live \cup {d} /\ t \in alive /\ state' = state
          /\ parent' = [parent EXCEPT ![d] = cur[t]]
      BY <1>1 DEF Claim, Free
    <2>2. CASE cur[t] = None
      <3>1. Roots' = Roots \cup {d} /\ d \notin Roots
        BY <2>1, <2>2 DEF Roots, TypeOK
      <3>2. state = "OPEN"
        BY <1>1, <2>1, <2>2
           DEF Claim, MayEnter, TypeOK, BusState, Nesting, DepthIsNesting
      <3>3. Contract!Accept(d)
        BY <2>1, <3>1, <3>2 DEF Contract!Accept, Roots
      <3> QED
        BY <3>3 DEF Contract!Next
    <2>3. CASE cur[t] # None
      BY <2>1, <2>3 DEF Roots, TypeOK
    <2> QED
      BY <2>2, <2>3
  <1>2. ASSUME NEW d \in Dispatch, Exit(d)
        PROVE  Contract!Next \/ (state' = state /\ Roots' = Roots)
    <2>1. /\ d \in live /\ live' = live \ {d} /\ state' = state
          /\ parent' = [parent EXCEPT ![d] = None]
      BY <1>2 DEF Exit
    <2>2. Roots' = Roots \ {d}
      BY <2>1 DEF Roots, TypeOK
    <2>3. CASE parent[d] = None
      <3>1. Contract!Complete(d)
        BY <2>1, <2>2, <2>3 DEF Contract!Complete, Roots
      <3> QED
        BY <3>1 DEF Contract!Next
    <2>4. CASE parent[d] # None
      BY <2>1, <2>2, <2>4 DEF Roots
    <2> QED
      BY <2>3, <2>4
  <1>3. CASE BeginClose
    <2>1. Contract!BeginClose
      BY <1>3 DEF BeginClose, Closing, Contract!BeginClose
    <2> QED
      BY <2>1 DEF Contract!Next
  <1>4. CASE FinishClose
    <2>1. state = "DRAINING" /\ state' = "CLOSED"
      BY <1>4 DEF FinishClose, Closing, TypeOK, BusState
    <2>2. live = {} /\ Roots' = Roots
      BY <1>4 DEF FinishClose, Tree, CleanupFindsBusQuiet, Roots
    <2>3. Contract!Close
      BY <2>1, <2>2 DEF Contract!Close, Roots
    <2> QED
      BY <2>3 DEF Contract!Next
  <1>5. CASE UNCHANGED <<state, live, parent>>
    BY <1>5 DEF Roots
  <1> QED
    BY <1>1, <1>2, <1>3, <1>4, <1>5
       DEF Next, Spawn, TaskEnd, WaitDrained, RunCleanup, vars

\* The lifecycle implements DrainContract when dispatches outlive their tasks:
\* roots enter only while it is open, and it closes only when none is inside.
THEOREM Implements == ASSUME Structured PROVE Spec => KeepsDrainContract
  <1> QED
    BY ContractInit, ContractNext, TreeHolds, PTL
       DEF Spec, KeepsDrainContract, Contract!Spec

=============================================================================
