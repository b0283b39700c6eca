-------------------------- MODULE BusFacadeProofs --------------------------
(***************************************************************************)
(* Proofs about BusFacade, for every set of threads, tasks and dispatches, *)
(* any number of workers and any choice of closers, timeouts and nesting.  *)
(*                                                                         *)
(* One inductive invariant: the lock is held by exactly the caller that is *)
(* between its check and its result, so the bus is open as long as it is;  *)
(* and the close operation passes through its stages in order, each with   *)
(* the state of bus, bridge and future that belongs to it.                 *)
(***************************************************************************)
EXTENDS BusFacade, TLAPS

\* The lock belongs to the one caller inside send_sync(), who found the bus open.
LockHeld ==
  /\ \A a \in Actor : pc[a] \in {"locked", "checked", "waiting"} <=> closeLock = a
  /\ \A a \in Actor : pc[a] \in {"checked", "waiting"} => state = "OPEN"

\* Stages of the close operation after the bus is known to be empty, and after
\* it was closed.
AfterDrain == {"cleaning", "stopping", "halting", "telling", "ended"}
AfterClose == {"stopping", "halting", "telling", "ended"}

Phases ==
  /\ state = "OPEN" <=> pc[Runtime] = "idle"
  /\ state = "DRAINING" <=> pc[Runtime] \in {"draining", "cleaning"}
  /\ state = "CLOSED" <=> pc[Runtime] \in AfterClose
  /\ closeFuture = "none" <=> state = "OPEN"
  /\ closeFuture \in Result <=> pc[Runtime] = "ended"
  /\ pc[Runtime] \in AfterDrain => \A d \in Dispatch : ~Admitted(d)

\* The loop runs until the close operation stops it, once.
BridgeLife ==
  /\ closeStarted => pc[Runtime] \in {"halting", "telling", "ended"}
  /\ bridge = "stopping" => pc[Runtime] = "halting"
  /\ pc[Runtime] \in {"telling", "ended"} => bridge = "none"

\* A waiting caller has a loop and a coroutine that was not turned away.
Waiters ==
  \A a \in Actor :
    /\ pc[a] = "waiting" => /\ bridge = "running"
                            /\ waits[a] \in Dispatch
                            /\ at[waits[a]] \notin {"free", "refused"}
    /\ pc[a] # "waiting" => waits[a] = None

\* Closers pass the future only when the close operation is over, and so never
\* have a loop left to stop.
ClosersInOrder ==
  /\ \A a \in Actor : pc[a] \in {"stopping", "telling"} => pc[Runtime] = "ended"
  /\ \A a \in Actor : pc[a] \notin {"halting", "draining", "cleaning", "ended"}
  /\ \A a \in Actor : told[a] \in Result => closeFuture = told[a]

IInv == TypeOK /\ LockHeld /\ Phases /\ BridgeLife /\ Waiters /\ ClosersInOrder

-----------------------------------------------------------------------------
(* The invariant.                                                          *)

LEMMA Apart == Runtime \notin Actor /\ None \notin Actor
  BY FacadeAssumption DEF Actor

LEMMA InvInit == Init => IInv
  <1> SUFFICES ASSUME Init PROVE IInv
    OBVIOUS
  <1> USE Apart DEF Init
  <1>1. TypeOK
    BY DEF TypeOK, Place, Stage, Result
  <1>2. LockHeld /\ Waiters /\ ClosersInOrder
    BY DEF LockHeld, Waiters, ClosersInOrder, Result
  <1>3. Phases /\ BridgeLife
    BY DEF Phases, BridgeLife, AfterDrain, AfterClose, Result
  <1> QED
    BY <1>1, <1>2, <1>3 DEF IInv

\* Calls of send_sync() and publish_sync(): the lock is taken, kept while the bus
\* is known to be open, and given back with the result (bus.py:67-83).
LEMMA InvCalls ==
  ASSUME IInv, NEW a \in Actor,
         CallSync(a) \/ Acquire(a) \/ Check(a) \/ StartLoop(a) \/ Submit(a) \/ TakeResult(a) \/ TimeOut(a)
  PROVE  IInv'
  <1> USE Apart DEF IInv, TypeOK, Place, Stage, Result, LockHeld, Phases, AfterDrain,
                    AfterClose, BridgeLife, Waiters, ClosersInOrder, Admitted
  <1>1. CASE CallSync(a)
    BY <1>1 DEF CallSync, Goto, callVars, facadeVars
  <1>2. CASE Acquire(a)
    BY <1>2 DEF Acquire, Goto, callVars
  <1>3. CASE Check(a)
    BY <1>3 DEF Check, Goto, Leave, callVars
  <1>4. CASE StartLoop(a)
    BY <1>4 DEF StartLoop, Goto, Leave, callVars
  <1>5. CASE Submit(a)
    BY <1>5 DEF Submit, Goto, facadeVars
  <1>6. CASE TakeResult(a)
    BY <1>6 DEF TakeResult, Goto, Leave
  <1>7. CASE TimeOut(a)
    BY <1>7 DEF TimeOut, Goto, Leave
  <1> QED
    BY <1>1, <1>2, <1>3, <1>4, <1>5, <1>6, <1>7

\* Dispatches begin, get a worker and end; a coroutine is refused only when nobody
\* waits for it any more, since who waits holds the lock of an open bus.
LEMMA InvDispatches ==
  ASSUME IInv, NEW d \in Dispatch,
         Begin(d) \/ AsyncCall(d) \/ TakeWorker(d) \/ HandlerEnds(d)
  PROVE  IInv'
  <1> USE Apart DEF IInv, TypeOK, Place, Stage, Result, LockHeld, Phases, AfterDrain,
                    AfterClose, BridgeLife, Waiters, ClosersInOrder
  <1>1. CASE Begin(d)
    BY <1>1 DEF Begin, facadeVars, Over, Awaited, Admitted
  <1>2. CASE AsyncCall(d)
    BY <1>2 DEF AsyncCall, facadeVars, Admitted
  <1>3. CASE TakeWorker(d)
    BY <1>3 DEF TakeWorker, facadeVars, Admitted
  <1>4. CASE HandlerEnds(d)
    BY <1>4 DEF HandlerEnds, facadeVars, Over, Awaited, Admitted
  <1> QED
    BY <1>1, <1>2, <1>3, <1>4

\* Closers poll the lock, wait for the future and return (bus.py:93-118).
LEMMA InvClosers ==
  ASSUME IInv, NEW a \in Actor,
         Close(a) \/ Join(a) \/ Settled(a) \/ Return(a) \/ Cancel(a)
  PROVE  IInv'
  <1> USE Apart DEF IInv, TypeOK, Place, Stage, Result, LockHeld, Phases, AfterDrain,
                    AfterClose, BridgeLife, Waiters, ClosersInOrder, Admitted
  <1>1. CASE Close(a)
    BY <1>1 DEF Close, Goto, callVars, facadeVars
  <1>2. CASE Join(a)
    BY <1>2 DEF Join, Goto, callVars
  <1>3. CASE Settled(a)
    BY <1>3 DEF Settled, Goto, callVars, facadeVars
  <1>4. CASE Return(a)
    BY <1>4 DEF Return, Goto, callVars, facadeVars
  <1>5. CASE Cancel(a)
    BY <1>5 DEF Cancel, Goto, callVars, facadeVars
  <1> QED
    BY <1>1, <1>2, <1>3, <1>4, <1>5

\* The bridge is stopped by the close operation alone: when a closer gets that
\* far, the loop is gone already (bus.py:143-157).
LEMMA InvBridge ==
  ASSUME IInv, NEW p \in Actor \cup {Runtime}, CloseBridgeOnce(p) \/ Halt(p)
  PROVE  IInv'
  <1> USE Apart DEF IInv, TypeOK, Place, Stage, Result, LockHeld, Phases, AfterDrain,
                    AfterClose, BridgeLife, Waiters, ClosersInOrder, Admitted
  <1>1. CASE CloseBridgeOnce(p)
    <2> USE <1>1 DEF CloseBridgeOnce, Goto, callVars
    <2>1. p \in Actor => bridge = "none"
      OBVIOUS
    <2>2. TypeOK'
      <3>1. pc' \in [Actor \cup {Runtime} -> Place] /\ bridge' \in {"none", "running", "stopping"}
        OBVIOUS
      <3>2. closeStarted' \in BOOLEAN
        OBVIOUS
      <3> QED
        BY <3>1, <3>2
    <2>3. LockHeld'
      OBVIOUS
    <2>4. Phases' /\ BridgeLife'
      BY <2>1
    <2>5. Waiters' /\ ClosersInOrder'
      BY <2>1
    <2> QED
      BY <2>2, <2>3, <2>4, <2>5
  <1>2. CASE Halt(p)
    <2>1. p = Runtime
      BY <1>2 DEF Halt
    <2> QED
      BY <1>2, <2>1 DEF Halt, Goto, callVars
  <1> QED
    BY <1>1, <1>2

\* The close operation on its own thread (bus.py:123-137, lifecycle.py:75-81).
LEMMA InvRuntime ==
  ASSUME IInv, Drained \/ Cleanup \/ Complete
  PROVE  IInv'
  <1> USE Apart DEF IInv, TypeOK, Place, Stage, Result, LockHeld, Phases, AfterDrain,
                    AfterClose, BridgeLife, Waiters, ClosersInOrder, Admitted
  <1>1. CASE Drained
    BY <1>1 DEF Drained, Goto, callVars, facadeVars
  <1>2. CASE Cleanup
    BY <1>2 DEF Cleanup, Goto, callVars
  <1>3. CASE Complete
    BY <1>3 DEF Complete, Goto, callVars
  <1> QED
    BY <1>1, <1>2, <1>3

LEMMA InvNext == IInv /\ [Next]_vars => IInv'
  <1> SUFFICES ASSUME IInv, [Next]_vars PROVE IInv'
    OBVIOUS
  <1>1. CASE UNCHANGED vars
    BY <1>1 DEF vars, IInv, TypeOK, LockHeld, Phases, BridgeLife, Waiters,
                ClosersInOrder, Admitted
  <1> QED
    BY <1>1, InvCalls, InvDispatches, InvClosers, InvBridge, InvRuntime DEF Next

LEMMA InvHolds == Spec => []IInv
  BY InvInit, InvNext, PTL DEF Spec

-----------------------------------------------------------------------------
(* The theorems.                                                           *)

\* Every variable keeps its type; the one at risk is what a closer is told, which
\* must be the outcome of a completed future (bus.py:108-118).
THEOREM TypeCorrect == Spec => []TypeOK
  BY InvHolds, PTL DEF IInv

\* Whoever closes the bus, however many callers, closers and timeouts there are, a
\* caller blocked in send_sync() keeps the loop it waits for (bus.py:72-74).
THEOREM LoopKept == Spec => []LoopServesCallers
  <1>1. IInv => LoopServesCallers
    BY DEF IInv, Waiters, LoopServesCallers
  <1> QED
    BY <1>1, InvHolds, PTL

\* What check_admission() let pass is admitted by the loop, as long as its caller
\* waits: holding the lock over both checks makes them one (bus.py:72-74).
THEOREM CheckedAdmitted == Spec => []CheckedCallsAdmitted
  <1>1. IInv => CheckedCallsAdmitted
    BY DEF IInv, Waiters, CheckedCallsAdmitted
  <1> QED
    BY <1>1, InvHolds, PTL

\* Every closer that is not cancelled hears the one outcome of the one close
\* operation, and hears it after the bus and its bridge are closed (bus.py:108-137).
THEOREM ToldAfterwards == Spec => []ClosersTold
  <1>1. IInv => ClosersTold
    BY FacadeAssumption
       DEF IInv, Actor, ClosersInOrder, Phases, BridgeLife, AfterDrain, AfterClose,
           ClosersTold
  <1> QED
    BY <1>1, InvHolds, PTL

-----------------------------------------------------------------------------
(* Refinement.                                                             *)

\* The root calls inside the bus, as DrainContract sees them.
Inside == {d \in Dispatch : Admitted(d)}

LEMMA ContractInit == Init => Contract!Init
  BY DEF Init, Contract!Init, Admitted

\* Each step of the facade is a step of the contract or invisible to it.
LEMMA ContractNext ==
  IInv /\ [Next]_vars => [Contract!Next]_(Contract!contractVars)
  <1> SUFFICES ASSUME IInv, [Next]_vars
               PROVE  Contract!Next \/ (state' = state /\ Inside' = Inside)
    BY DEF Contract!contractVars, Inside
  <1> USE DEF Inside, Admitted
  <1>0. at \in [Dispatch -> Stage]
    BY DEF IInv, TypeOK
  <1>1. ASSUME NEW d \in Dispatch, Begin(d) \/ AsyncCall(d)
        PROVE  Contract!Next \/ (state' = state /\ Inside' = Inside)
    <2>1. CASE state = "OPEN"
      <3>1. Contract!Accept(d)
        BY <1>0, <1>1, <2>1 DEF Begin, AsyncCall, facadeVars, Contract!Accept
      <3> QED
        BY <3>1 DEF Contract!Next
    <2>2. CASE state # "OPEN"
      BY <1>0, <1>1, <2>2 DEF Begin, AsyncCall, facadeVars, Over
    <2> QED
      BY <2>1, <2>2
  <1>2. ASSUME NEW d \in Dispatch, HandlerEnds(d)
        PROVE  Contract!Next \/ (state' = state /\ Inside' = Inside)
    <2>1. Contract!Complete(d)
      BY <1>0, <1>2 DEF HandlerEnds, facadeVars, Over, Contract!Complete
    <2> QED
      BY <2>1 DEF Contract!Next
  <1>3. ASSUME NEW d \in Dispatch, TakeWorker(d)
        PROVE  state' = state /\ Inside' = Inside
    BY <1>0, <1>3 DEF TakeWorker, facadeVars
  <1>4. ASSUME NEW a \in Actor, Join(a)
        PROVE  Contract!Next \/ (state' = state /\ Inside' = Inside)
    <2>1. CASE closeFuture = "none"
      <3>1. Contract!BeginClose
        BY <1>4, <2>1 DEF Join, callVars, IInv, Phases, Contract!BeginClose
      <3> QED
        BY <3>1 DEF Contract!Next
    <2>2. CASE closeFuture # "none"
      BY <1>4, <2>2 DEF Join, callVars
    <2> QED
      BY <2>1, <2>2
  <1>5. CASE Cleanup
    <2>1. state = "DRAINING" /\ Inside = {}
      BY <1>5 DEF Cleanup, IInv, Phases, AfterDrain
    <2>2. Contract!Close
      BY <1>5, <2>1 DEF Cleanup, callVars, Contract!Close
    <2> QED
      BY <2>2 DEF Contract!Next
  <1>6. ASSUME NEW a \in Actor, Submit(a) \/ TakeResult(a)
        PROVE  state' = state /\ Inside' = Inside
    <2>1. at[waits[a]] \in {"done", "refused"} /\ TakeResult(a) => waits[a] \in Dispatch
      BY DEF IInv, Waiters, TakeResult
    <2> QED
      BY <1>0, <1>6, <2>1 DEF Submit, TakeResult, facadeVars
  <1>7. CASE UNCHANGED <<state, at>>
    BY <1>7
  <1> QED
    BY <1>1, <1>2, <1>3, <1>4, <1>5, <1>6, <1>7
       DEF Next, CallSync, Acquire, Check, StartLoop, TimeOut, Close, Settled,
           Return, Cancel, CloseBridgeOnce, Halt, Drained, Complete, vars,
           facadeVars, callVars

\* The facade implements DrainContract: a root call gets in only while the bus is
\* open, although it was checked earlier and on another thread, and the bus is
\* closed only when none is inside.
THEOREM Implements == Spec => KeepsDrainContract
  BY ContractInit, ContractNext, InvHolds, PTL
     DEF Spec, KeepsDrainContract, Contract!Spec

=============================================================================
