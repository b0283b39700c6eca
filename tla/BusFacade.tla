----------------------------- MODULE BusFacade -----------------------------
(***************************************************************************)
(* MessageBus and its sync bridge: src/dispatchbus/bus.py, sync_bridge.py. *)
(*                                                                         *)
(* Threads of the application and sync handlers in executor threads make   *)
(* blocking calls, which run as coroutines on the loop of the bridge's own *)
(* thread; tasks of the application's event loop make asynchronous calls.  *)
(* Anybody closes the bus: the first closer starts the close operation on  *)
(* a thread of its own, all of them wait for its future.  One lock, which  *)
(* is not reentrant, orders these calls: a blocking call keeps it from the *)
(* admission check until its result is there.                              *)
(*                                                                         *)
(* A step is what runs between two points where another thread or another  *)
(* task can observe a difference.  A dispatch is one root call with the    *)
(* handler that serves it; the tree below it is DispatchTree's subject.    *)
(***************************************************************************)
EXTENDS Naturals, FiniteSets

CONSTANTS
  Thread,      \* threads of the application, with no running event loop
  Task,        \* tasks on the event loop of the application
  Dispatch,    \* root calls and the code that handles them; reused when free
  None,        \* nobody, nothing
  Runtime,     \* the thread of the close operation
  Closers,     \* who closes the bus, each once: the bound on closing
  CallsFrom,   \* whose sync handlers make blocking calls: those served on the
               \* "app" loop, those served on the "bridge" loop
  MayTimeOut,  \* whether the blocking calls are given a timeout
  Workers      \* threads of the executor

ASSUME FacadeAssumption ==
  /\ Closers \subseteq Thread \cup Task
  /\ None \notin Thread \cup Task \cup Dispatch \cup {Runtime}
  /\ Runtime \notin Thread \cup Task \cup Dispatch
  /\ Thread \cap Dispatch = {} /\ Task \cap Dispatch = {}
  /\ CallsFrom \subseteq {"app", "bridge"}
  /\ MayTimeOut \in BOOLEAN
  /\ Workers \in Nat
  /\ IsFiniteSet(Dispatch)

VARIABLES
  state,        \* _state of the BusLifecycle
  closeLock,    \* who holds _close_lock
  closeFuture,  \* _close_future: "none", "pending", or how it was completed
  closeStarted, \* _sync_bridge_close_started
  bridge,       \* _loop of the SyncBridge and its thread
  outcome,      \* what the close operation will report
  pc,           \* actor -> where it is
  waits,        \* actor -> dispatch whose future it waits for
  at,           \* dispatch -> how far it got
  loop,         \* dispatch -> event loop that runs it
  told          \* closer -> how its close() or aclose() ended

facadeVars == <<state, closeLock, closeFuture, closeStarted, bridge, outcome>>
callVars == <<waits, at, loop>>
vars == <<state, closeLock, closeFuture, closeStarted, bridge, outcome, pc,
          waits, at, loop, told>>

\* The code of a dispatch calls the bus too, from its sync handler.
Actor == Thread \cup Task \cup Dispatch

\* Where an actor is: blocked at the lock of send_sync(), inside it, past the
\* check, waiting for its result; polling the lock in aclose(), waiting for the
\* close future, closing the bridge, stopping its loop.  The runtime goes from
\* "draining" and "cleaning" to "stopping", and "telling" completes the future.
Place == {"idle", "locking", "locked", "checked", "waiting", "closing",
          "joined", "stopping", "halting", "telling", "draining", "cleaning",
          "ended"}

\* "submitted": a coroutine handed to the loop; "queued": admitted, its sync
\* handler has no worker yet; "sync", "async": its handler runs, in a worker or
\* on the loop; "done", "refused": its future is completed.
Stage == {"free", "submitted", "queued", "sync", "async", "done", "refused"}

Result == {"ok", "failed"}

TypeOK ==
  /\ state \in {"OPEN", "DRAINING", "CLOSED"}
  /\ closeLock \in Actor \cup {None}
  /\ closeFuture \in {"none", "pending"} \cup Result
  /\ closeStarted \in BOOLEAN
  /\ bridge \in {"none", "running", "stopping"}
  /\ outcome \in Result
  /\ pc \in [Actor \cup {Runtime} -> Place]
  /\ waits \in [Actor -> Dispatch \cup {None}]
  /\ at \in [Dispatch -> Stage]
  /\ loop \in [Dispatch -> {"app", "bridge"}]
  /\ told \in [Actor -> {"nothing", "cancelled"} \cup Result]

Init ==
  /\ state = "OPEN"
  /\ closeLock = None
  /\ closeFuture = "none"
  /\ closeStarted = FALSE
  /\ bridge = "none"
  /\ outcome = "ok"
  /\ pc = [a \in Actor \cup {Runtime} |-> "idle"]
  /\ waits = [a \in Actor |-> None]
  /\ at = [d \in Dispatch |-> "free"]
  /\ loop = [d \in Dispatch |-> "app"]
  /\ told = [a \in Actor |-> "nothing"]

Goto(a, place) == pc' = [pc EXCEPT ![a] = place]

-----------------------------------------------------------------------------
(* Blocking calls: send_sync(), publish_sync().                            *)

\* _in_running_loop_thread(): a task, or a handler on a loop, is turned away.
MaySyncCall(a) ==
  \/ a \in Thread
  \/ a \in Dispatch /\ at[a] = "sync" /\ loop[a] \in CallsFrom

CallSync(a) ==
  /\ pc[a] = "idle"
  /\ MaySyncCall(a)
  /\ Goto(a, "locking")
  /\ UNCHANGED <<facadeVars, callVars, told>>

\* with self._close_lock
Acquire(a) ==
  /\ pc[a] = "locking"
  /\ closeLock = None
  /\ closeLock' = a
  /\ Goto(a, "locked")
  /\ UNCHANGED <<state, closeFuture, closeStarted, bridge, outcome, callVars,
                 told>>

\* BusDrainingError leaves the with block, as every result does.
Leave(a) ==
  /\ closeLock' = None
  /\ Goto(a, "idle")

Check_LetsPass(a) ==
  /\ pc[a] = "locked"
  /\ Goto(a, "checked")
  /\ UNCHANGED <<facadeVars, callVars, told>>

\* check_admission()
Check(a) ==
  /\ pc[a] = "locked"
  /\ \/ state = "OPEN" /\ Goto(a, "checked") /\ UNCHANGED closeLock
     \/ state # "OPEN" /\ Leave(a)
  /\ UNCHANGED <<state, closeFuture, closeStarted, bridge, outcome, callVars,
                 told>>

\* _ensure_background_loop(): the thread of the bridge comes up, or its loop
\* cannot be created and the call raises.
StartLoop(a) ==
  /\ pc[a] = "checked"
  /\ bridge = "none"
  /\ \/ bridge' = "running" /\ UNCHANGED <<closeLock, pc>>
     \/ Leave(a) /\ UNCHANGED bridge
  /\ UNCHANGED <<state, closeFuture, closeStarted, outcome, callVars, told>>

Submit_Unlocks(a) ==
  /\ pc[a] = "checked"
  /\ bridge # "none"
  /\ closeLock' = None
  /\ Goto(a, "waiting")
  /\ \E d \in Dispatch :
        /\ at[d] = "free"
        /\ at' = [at EXCEPT ![d] = "submitted"]
        /\ loop' = [loop EXCEPT ![d] = "bridge"]
        /\ waits' = [waits EXCEPT ![a] = d]
  /\ UNCHANGED <<state, closeFuture, closeStarted, bridge, outcome, told>>

\* run_coroutine_threadsafe() and future.result(), with the lock still held
Submit(a) ==
  /\ pc[a] = "checked"
  /\ bridge # "none"
  /\ Goto(a, "waiting")
  /\ \E d \in Dispatch :
        /\ at[d] = "free"
        /\ at' = [at EXCEPT ![d] = "submitted"]
        /\ loop' = [loop EXCEPT ![d] = "bridge"]
        /\ waits' = [waits EXCEPT ![a] = d]
  /\ UNCHANGED <<facadeVars, told>>

TakeResult_KeepsLock(a) ==
  /\ pc[a] = "waiting"
  /\ at[waits[a]] \in {"done", "refused"}
  /\ at' = [at EXCEPT ![waits[a]] = "free"]
  /\ waits' = [waits EXCEPT ![a] = None]
  /\ Goto(a, "idle")
  /\ UNCHANGED <<facadeVars, loop, told>>

\* The future is completed: its result, or its exception, ends the call.
TakeResult(a) ==
  /\ pc[a] = "waiting"
  /\ at[waits[a]] \in {"done", "refused"}
  /\ at' = [at EXCEPT ![waits[a]] = "free"]
  /\ waits' = [waits EXCEPT ![a] = None]
  /\ Leave(a)
  /\ UNCHANGED <<state, closeFuture, closeStarted, bridge, outcome, loop, told>>

\* TimeoutError ends the call; the coroutine stays on the loop and runs on.
TimeOut(a) ==
  /\ MayTimeOut
  /\ pc[a] = "waiting"
  /\ at[waits[a]] \notin {"done", "refused"}
  /\ waits' = [waits EXCEPT ![a] = None]
  /\ Leave(a)
  /\ UNCHANGED <<state, closeFuture, closeStarted, bridge, outcome, at, loop,
                 told>>

-----------------------------------------------------------------------------
(* Dispatches.                                                             *)

Admitted(d) == at[d] \in {"queued", "sync", "async"}

Awaited(d) == \E a \in Actor : waits[a] = d

\* Where a dispatch that ended leaves its identity.
Over(d, stage) == IF Awaited(d) THEN stage ELSE "free"

\* The loop of the bridge reaches the coroutine: it is admitted, or refused when
\* the lock was released before, at a timeout, and the bus is closing by now.
Begin(d) ==
  /\ at[d] = "submitted"
  /\ bridge # "none"
  /\ \/ state = "OPEN" /\ \E stage \in {"queued", "async"} :
           at' = [at EXCEPT ![d] = stage]
     \/ state # "OPEN" /\ at' = [at EXCEPT ![d] = Over(d, "refused")]
  /\ UNCHANGED <<facadeVars, pc, waits, loop, told>>

\* Bound of the model: the application's loop leaves an identity to the bridge.
Spared(d) == \E e \in Dispatch \ {d} : ~Admitted(e) \/ loop[e] = "bridge"

\* await bus.send() or bus.publish() by some task of the application's loop
AsyncCall(d) ==
  /\ at[d] = "free"
  /\ Spared(d)
  /\ state = "OPEN"
  /\ \E stage \in {"queued", "async"} : at' = [at EXCEPT ![d] = stage]
  /\ loop' = [loop EXCEPT ![d] = "app"]
  /\ UNCHANGED <<facadeVars, pc, waits, told>>

\* run_in_executor(): a worker picks the sync handler up
TakeWorker(d) ==
  /\ at[d] = "queued"
  /\ Cardinality({e \in Dispatch : at[e] = "sync"}) < Workers
  /\ at' = [at EXCEPT ![d] = "sync"]
  /\ UNCHANGED <<facadeVars, pc, waits, loop, told>>

HandlerEnds(d) ==
  /\ at[d] \in {"sync", "async"}
  /\ pc[d] = "idle"
  /\ at' = [at EXCEPT ![d] = Over(d, "done")]
  /\ UNCHANGED <<facadeVars, pc, waits, loop, told>>

-----------------------------------------------------------------------------
(* Closing: close(), aclose().                                             *)

Close(a) ==
  /\ a \in Closers
  /\ pc[a] = "idle"
  /\ told[a] = "nothing"
  /\ Goto(a, "closing")
  /\ UNCHANGED <<facadeVars, callVars, told>>

Join_Again(a) ==
  /\ pc[a] = "closing"
  /\ closeLock = None
  /\ state' = "DRAINING"
  /\ closeFuture' = "pending"
  /\ pc' = [pc EXCEPT ![a] = "joined", ![Runtime] = "draining"]
  /\ UNCHANGED <<closeLock, closeStarted, bridge, outcome, callVars, told>>

\* A poll of the lock that succeeds: the first closer starts the operation.
Join(a) ==
  /\ pc[a] = "closing"
  /\ closeLock = None
  /\ \/ /\ closeFuture = "none"
        /\ state' = "DRAINING"
        /\ closeFuture' = "pending"
        /\ pc' = [pc EXCEPT ![a] = "joined", ![Runtime] = "draining"]
     \/ /\ closeFuture # "none"
        /\ Goto(a, "joined")
        /\ UNCHANGED <<state, closeFuture>>
  /\ UNCHANGED <<closeLock, closeStarted, bridge, outcome, callVars, told>>

\* asyncio.shield(asyncio.wrap_future(close_future)) returns or raises.
Settled(a) ==
  /\ pc[a] = "joined"
  /\ closeFuture \in Result
  /\ Goto(a, "stopping")
  /\ UNCHANGED <<facadeVars, callVars, told>>

CloseBridgeOnce_KeepsLock(p) ==
  /\ pc[p] = "stopping"
  /\ closeLock = None
  /\ closeLock' = p
  /\ Goto(p, "telling")
  /\ UNCHANGED <<state, closeFuture, closeStarted, bridge, outcome, callVars, told>>

\* _close_sync_bridge_once(), which blocks at the lock in a helper thread: one
\* of the callers stops the loop.
CloseBridgeOnce(p) ==
  /\ pc[p] = "stopping"
  /\ closeLock = None
  /\ \/ /\ closeStarted \/ bridge = "none"
        /\ Goto(p, "telling")
        /\ UNCHANGED <<closeStarted, bridge>>
     \/ /\ ~closeStarted /\ bridge # "none"
        /\ closeStarted' = TRUE
        /\ bridge' = "stopping"
        /\ Goto(p, "halting")
  /\ UNCHANGED <<state, closeLock, closeFuture, outcome, callVars, told>>

\* SyncBridge.close(): the loop's thread is gone, with what it had not begun.
Halt(p) ==
  /\ pc[p] = "halting"
  /\ bridge' = "none"
  /\ Goto(p, "telling")
  /\ UNCHANGED <<state, closeLock, closeFuture, closeStarted, outcome, callVars,
                 told>>

\* aclose() returns, or raises what the close operation raised.
Return(a) ==
  /\ pc[a] = "telling"
  /\ Goto(a, "idle")
  /\ told' = [told EXCEPT ![a] = closeFuture]
  /\ UNCHANGED <<facadeVars, callVars>>

\* The task of a closer is cancelled: at the poll, at the shielded future, or in
\* the call that closes the bridge, whose helper thread has nothing left to stop.
Cancel(a) ==
  /\ a \in Task
  /\ pc[a] \in {"closing", "joined", "stopping"}
  /\ Goto(a, "idle")
  /\ told' = [told EXCEPT ![a] = "cancelled"]
  /\ UNCHANGED <<facadeVars, callVars>>

-----------------------------------------------------------------------------
(* The close operation, on its own thread: _close_runtime().               *)

Drained_Assumed ==
  /\ pc[Runtime] = "draining"
  /\ Goto(Runtime, "cleaning")
  /\ UNCHANGED <<facadeVars, callVars, told>>

\* the drained event of the BusLifecycle
Drained ==
  /\ pc[Runtime] = "draining"
  /\ \A d \in Dispatch : ~Admitted(d)
  /\ Goto(Runtime, "cleaning")
  /\ UNCHANGED <<facadeVars, callVars, told>>

Cleanup_Tells ==
  /\ pc[Runtime] = "cleaning"
  /\ state' = "CLOSED"
  /\ outcome' \in Result
  /\ closeFuture' = outcome'
  /\ Goto(Runtime, "stopping")
  /\ UNCHANGED <<closeLock, closeStarted, bridge, callVars, told>>

\* The cleanup returns or raises; the bus is closed either way.
Cleanup ==
  /\ pc[Runtime] = "cleaning"
  /\ state' = "CLOSED"
  /\ outcome' \in Result
  /\ Goto(Runtime, "stopping")
  /\ UNCHANGED <<closeLock, closeFuture, closeStarted, bridge, callVars, told>>

Complete_Successes ==
  /\ pc[Runtime] = "telling"
  /\ closeFuture' = IF outcome = "ok" THEN "ok" ELSE closeFuture
  /\ Goto(Runtime, "ended")
  /\ UNCHANGED <<state, closeLock, closeStarted, bridge, outcome, callVars, told>>

\* close_future.set_result() or set_exception()
Complete ==
  /\ pc[Runtime] = "telling"
  /\ closeFuture' = outcome
  /\ Goto(Runtime, "ended")
  /\ UNCHANGED <<state, closeLock, closeStarted, bridge, outcome, callVars, told>>

-----------------------------------------------------------------------------
Next ==
  \/ \E a \in Actor : CallSync(a) \/ Acquire(a) \/ Check(a) \/ StartLoop(a)
  \/ \E a \in Actor : Submit(a) \/ TakeResult(a) \/ TimeOut(a)
  \/ \E d \in Dispatch : Begin(d) \/ AsyncCall(d) \/ TakeWorker(d) \/ HandlerEnds(d)
  \/ \E a \in Actor : Close(a) \/ Join(a) \/ Settled(a) \/ Return(a) \/ Cancel(a)
  \/ \E p \in Actor \cup {Runtime} : CloseBridgeOnce(p) \/ Halt(p)
  \/ Drained \/ Cleanup \/ Complete

\* Threads and loops run on, handlers return, the executor serves its queue in
\* order.  Nobody has to call or to close the bus, and no call has to time out.
Fairness ==
  /\ \A a \in Actor : WF_vars(Acquire(a)) /\ WF_vars(Check(a))
  /\ \A a \in Actor : WF_vars(StartLoop(a)) /\ SF_vars(Submit(a))
  /\ \A a \in Actor : WF_vars(TakeResult(a)) /\ WF_vars(Join(a))
  /\ \A a \in Actor : WF_vars(Settled(a)) /\ WF_vars(Return(a))
  /\ \A d \in Dispatch : WF_vars(Begin(d)) /\ SF_vars(TakeWorker(d))
  /\ \A d \in Dispatch : WF_vars(HandlerEnds(d))
  /\ \A p \in Actor \cup {Runtime} : WF_vars(CloseBridgeOnce(p)) /\ WF_vars(Halt(p))
  /\ WF_vars(Drained) /\ WF_vars(Cleanup) /\ WF_vars(Complete)

Spec == Init /\ [][Next]_vars

FairSpec == Spec /\ Fairness

-----------------------------------------------------------------------------
(* Properties.                                                             *)

\* A caller blocked in send_sync() has a loop that will run its coroutine: the
\* bridge is not stopped under it, whoever closes the bus meanwhile
\* (bus.py:72-74, 152-157; sync_bridge.py:30-39).
LoopServesCallers ==
  \A a \in Actor : pc[a] = "waiting" => bridge = "running"

\* A blocking call that passed check_admission() is admitted by the loop later,
\* though a closer may be polling between the two checks: as long as the caller
\* waits, its coroutine is not turned away (bus.py:72-74, lifecycle.py:49-57).
CheckedCallsAdmitted ==
  \A a \in Actor : pc[a] = "waiting" => at[waits[a]] # "refused"

\* A closer hears of the end of the close operation only after it: the bus is
\* closed, nothing runs in it, the thread of the bridge is gone, and every
\* closer hears the same (bus.py:108-137).
ClosersTold ==
  \A a \in Closers : told[a] \in Result =>
    /\ state = "CLOSED"
    /\ bridge = "none"
    /\ \A d \in Dispatch : ~Admitted(d)
    /\ told[a] = closeFuture

\* The facade, whose callers are checked and admitted at different times and on
\* different threads, keeps the promise of DrainContract.
Contract == INSTANCE DrainContract WITH
  Tree <- Dispatch,
  phase <- state,
  accepted <- {d \in Dispatch : Admitted(d)}

KeepsDrainContract == Contract!Spec

\* What keeps a caller of the lock waiting for ever without anybody's fault: a
\* stream of blocking calls, each of which takes it anew.
CallsStop == <>[][\A a \in Actor : ~CallSync(a)]_vars

\* README, "Async and sync APIs": "Use the sync bridge methods from synchronous
\* code".  Such a call returns, with its result or an exception, once the calls
\* that compete with it stop coming (bus.py:67-83).
CallReturns ==
  CallsStop => \A a \in Thread \cup Dispatch : pc[a] = "locking" ~> pc[a] = "idle"

\* close() and aclose() return under the same condition, also when another
\* closer was first or was cancelled (bus.py:93-118).
CloserReturns ==
  CallsStop => \A a \in Closers : pc[a] = "closing" ~> told[a] # "nothing"

=============================================================================
