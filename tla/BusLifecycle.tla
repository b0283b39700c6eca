---------------------------- MODULE BusLifecycle ----------------------------
(***************************************************************************)
(* Lifecycle admission: src/dispatchbus/lifecycle.py.                      *)
(*                                                                         *)
(* One BusLifecycle object decides which send() and publish() calls enter  *)
(* the bus while it is open, draining or closed, counts the ones inside,   *)
(* and lets the single close operation proceed when the count returns to   *)
(* zero.  The decision about a publish() depends on a ContextVar, so the   *)
(* module also models asyncio tasks, each with its own copy of that        *)
(* variable: a task started in a dispatch inherits its depth and keeps it, *)
(* whatever happens to the dispatch it was copied from.                    *)
(*                                                                         *)
(* Every method is one step: each takes _state_lock once, and what it does *)
(* outside the lock touches only the ContextVar of its own task.  A call   *)
(* that is refused raises and leaves every variable as it was.             *)
(***************************************************************************)
EXTENDS Naturals, FiniteSets

CONSTANTS
  Task,        \* asyncio tasks, each with a contextvars.Context of its own
  Caller,      \* the tasks of the application, which call the bus from outside
  Dispatch,    \* send() and publish() calls; an identity is reused when free
  None,        \* no dispatch: the code of an application task
  MaxDepth,    \* bound of the model: deepest nesting explored
  Structured   \* TRUE: a dispatch returns only when the tasks it is to wait for
               \* have ended.  FALSE: a handler may leave a task behind, and a
               \* cancelled concurrent publication leaves its event tasks

ASSUME LifecycleAssumption ==
  /\ Caller \subseteq Task
  /\ IsFiniteSet(Dispatch)
  /\ None \notin Dispatch \cup Task
  /\ MaxDepth \in Nat
  /\ Structured \in BOOLEAN

VARIABLES
  state,       \* _state
  inFlight,    \* _in_flight_dispatches
  drained,     \* the flag of the threading.Event _drained
  closer,      \* progress of the one close operation, see CloserState
  depth,       \* task -> value of _accepted_dispatch_depth in its context
  alive,       \* tasks that exist
  origin,      \* task -> dispatch that is to wait for it, None for a caller
  cur,         \* task -> dispatch whose code the task is executing
  live,        \* dispatches inside "async with self._admit(...)"
  home,        \* dispatch -> task that made the call
  token,       \* dispatch -> what the ContextVar token restores
  parent       \* dispatch -> dispatch whose code made the call

gateVars == <<state, inFlight, drained, closer>>
taskVars == <<alive, origin>>
vars == <<state, inFlight, drained, closer, depth, alive, origin, cur,
          live, home, token, parent>>

BusState == {"OPEN", "DRAINING", "CLOSED"}

\* idle: close() not called; started: state is DRAINING, the coroutine has not
\* reached _drained.wait(); waiting: blocked there; woken: past it, cleanup()
\* running; cleaned, raised: cleanup() returned or raised.
CloserState == {"idle", "started", "waiting", "woken", "cleaned", "raised"}

TypeOK ==
  /\ state \in BusState
  /\ inFlight \in Nat
  /\ drained \in BOOLEAN
  /\ closer \in CloserState
  /\ depth \in [Task -> Nat]
  /\ alive \in SUBSET Task
  /\ origin \in [Task -> Dispatch \cup {None}]
  /\ cur \in [Task -> Dispatch \cup {None}]
  /\ live \in SUBSET Dispatch
  /\ home \in [Dispatch -> Task \cup {None}]
  /\ token \in [Dispatch -> Nat]
  /\ parent \in [Dispatch -> Dispatch \cup {None}]

Init ==
  /\ state = "OPEN"
  /\ inFlight = 0
  /\ drained = TRUE
  /\ closer = "idle"
  /\ depth = [t \in Task |-> 0]
  /\ alive = Caller
  /\ origin = [t \in Task |-> None]
  /\ cur = [t \in Task |-> None]
  /\ live = {}
  /\ home = [d \in Dispatch |-> None]
  /\ token = [d \in Dispatch |-> 0]
  /\ parent = [d \in Dispatch |-> None]

-----------------------------------------------------------------------------
(* Admission.                                                              *)

MayEnter_IgnoresDepth(op, t) ==
  state # "CLOSED" /\ (op = "send" => state = "OPEN")

MayEnter_RootsOnly(op, t) ==
  state = "OPEN"

\* The three refusals of _claim_admission, as one condition to enter.
MayEnter(op, t) ==
  /\ state # "CLOSED"
  /\ op = "send" => state = "OPEN"
  /\ op = "publish" /\ state = "DRAINING" => depth[t] # 0

\* _in_flight_dispatches, with the call of task t inside
Entered_RootsOnly(t) == IF depth[t] = 0 THEN inFlight + 1 ELSE inFlight
Entered(t) == inFlight + 1

\* _accepted_dispatch_depth.reset(token)
Restored_Leaks(d) == token[d] + 1
Restored(d) == token[d]

\* _in_flight_dispatches returns to zero: _drained.set() is due.
LastOut_Never == FALSE
LastOut == inFlight = 1

\* The identity d is not in use: no admission and no running code refers to it.
Free(d) ==
  /\ d \notin live
  /\ \A t \in alive : cur[t] # d /\ origin[t] # d
  /\ \A e \in live : parent[e] # d

\* send() or publish() called by the code that task t is executing.
Claim(op, t, d) ==
  /\ t \in alive
  /\ Free(d)
  /\ MayEnter(op, t)
  /\ depth[t] < MaxDepth
  /\ inFlight' = Entered(t)
  /\ drained' = FALSE
  /\ token' = [token EXCEPT ![d] = depth[t]]
  /\ depth' = [depth EXCEPT ![t] = depth[t] + 1]
  /\ live' = live \cup {d}
  /\ home' = [home EXCEPT ![d] = t]
  /\ parent' = [parent EXCEPT ![d] = cur[t]]
  /\ cur' = [cur EXCEPT ![t] = d]
  /\ UNCHANGED <<state, closer, alive, origin>>

\* The finally clause of _admit: the dispatch returned, failed or was cancelled.
\* _drained.set() wakes a blocked wait() even if the flag is cleared at once.
Exit(d) ==
  /\ d \in live
  /\ cur[home[d]] = d
  /\ Structured => \A t \in alive : origin[t] # d
  /\ depth' = [depth EXCEPT ![home[d]] = Restored(d)]
  /\ cur' = [cur EXCEPT ![home[d]] = parent[d]]
  /\ live' = live \ {d}
  /\ inFlight' = inFlight - 1
  /\ drained' = (drained \/ LastOut)
  /\ closer' = IF LastOut /\ closer = "waiting" THEN "woken" ELSE closer
  /\ home' = [home EXCEPT ![d] = None]
  /\ token' = [token EXCEPT ![d] = 0]
  /\ parent' = [parent EXCEPT ![d] = None]
  /\ UNCHANGED <<state, alive, origin>>

-----------------------------------------------------------------------------
(* Tasks: asyncio.create_task copies the context of the code that calls it,*)
(* or is given the copy that code made.                                    *)

\* The dispatches that return only after the code of t: those t is inside, and
\* the one that waits for t itself.
Enclosing(t) == {d \in live : home[d] = t} \cup ({origin[t]} \ {None})

\* A dispatch waits for its handlers' tasks.  The follow-up events of an event
\* carry the context of its dispatch too, but it returns before them: an
\* enclosing one, in the end the root, waits for their tasks.
Spawn(t, w, o) ==
  /\ t \in alive
  /\ w \notin alive
  /\ cur[t] # None
  /\ o \in Enclosing(t)
  /\ alive' = alive \cup {w}
  /\ origin' = [origin EXCEPT ![w] = o]
  /\ cur' = [cur EXCEPT ![w] = cur[t]]
  /\ depth' = [depth EXCEPT ![w] = depth[t]]
  /\ UNCHANGED <<state, inFlight, drained, closer, live, home, token, parent>>

TaskEnd(w) ==
  /\ w \in alive \ Caller
  /\ \A d \in live : home[d] # w
  /\ alive' = alive \ {w}
  /\ origin' = [origin EXCEPT ![w] = None]
  /\ cur' = [cur EXCEPT ![w] = None]
  /\ depth' = [depth EXCEPT ![w] = 0]
  /\ UNCHANGED <<state, inFlight, drained, closer, live, home, token, parent>>

-----------------------------------------------------------------------------
(* Closing.                                                                *)

\* close(): MessageBus.aclose calls it once, however many callers close the bus.
BeginClose ==
  /\ closer = "idle"
  /\ state' = IF state # "CLOSED" THEN "DRAINING" ELSE state
  /\ closer' = "started"
  /\ UNCHANGED <<inFlight, drained, depth, alive, origin, cur, live, home,
                 token, parent>>

WaitDrained_Skipped ==
  /\ closer = "started"
  /\ closer' = "woken"
  /\ UNCHANGED <<state, inFlight, drained, depth, alive, origin, cur, live,
                 home, token, parent>>

\* await asyncio.to_thread(self._drained.wait)
WaitDrained ==
  /\ closer = "started"
  /\ closer' = IF drained THEN "woken" ELSE "waiting"
  /\ UNCHANGED <<state, inFlight, drained, depth, alive, origin, cur, live,
                 home, token, parent>>

\* await cleanup(), which shuts the owned executor down and may raise
RunCleanup ==
  /\ closer = "woken"
  /\ closer' \in {"cleaned", "raised"}
  /\ UNCHANGED <<state, inFlight, drained, depth, alive, origin, cur, live,
                 home, token, parent>>

\* the finally clause of _run_close
FinishClose ==
  /\ closer \in {"cleaned", "raised"}
  /\ state # "CLOSED"
  /\ state' = "CLOSED"
  /\ UNCHANGED <<inFlight, drained, closer, depth, alive, origin, cur, live,
                 home, token, parent>>

-----------------------------------------------------------------------------
\* A call made on behalf of a dispatch that is inside the bus, or a task it
\* starts: the two ways in which an accepted tree grows.
Nested(t) == cur[t] # None

Grow ==
  \/ \E t \in Task, d \in Dispatch, op \in {"send", "publish"} :
        Nested(t) /\ Claim(op, t, d)
  \/ \E t, w \in Task, o \in Dispatch : Spawn(t, w, o)

Next ==
  \/ \E t \in Task, d \in Dispatch, op \in {"send", "publish"} : Claim(op, t, d)
  \/ \E d \in Dispatch : Exit(d)
  \/ \E t, w \in Task, o \in Dispatch : Spawn(t, w, o)
  \/ \E w \in Task : TaskEnd(w)
  \/ BeginClose
  \/ WaitDrained
  \/ RunCleanup
  \/ FinishClose

\* The close operation runs on a thread of its own, and a handler or a task that
\* has nothing left to wait for returns.  Nobody has to call close().
Fairness ==
  /\ \A d \in Dispatch : SF_vars(Exit(d))
  /\ \A w \in Task : SF_vars(TaskEnd(w))
  /\ WF_vars(WaitDrained)
  /\ WF_vars(RunCleanup)
  /\ WF_vars(FinishClose)

Spec == Init /\ [][Next]_vars

FairSpec == Spec /\ Fairness

-----------------------------------------------------------------------------
(* Properties.                                                             *)

\* The counter and the event agree with the dispatches that are inside: the
\* drained event is set exactly when there is none (lifecycle.py:58-67).
DrainedIffEmpty ==
  /\ inFlight = Cardinality(live)
  /\ drained = (live = {})

\* CONTEXT.md, "Dispatch depth": a root has depth one and a nested dispatch one
\* more than the dispatch whose code called it, so siblings do not add up; and
\* code that runs on behalf of no dispatch is at depth zero, which is what the
\* decision about a publish() during draining rests on (lifecycle.py:56).
DepthIsNesting ==
  /\ \A t \in alive : depth[t] = 0 <=> cur[t] = None
  /\ \A t \in alive : cur[t] \in live => depth[t] = token[cur[t]] + 1
  /\ \A d \in live : parent[d] \in live => token[d] = token[parent[d]] + 1

\* No root work enters once closing has begun: whatever is admitted then is a
\* publish() called on behalf of a dispatch accepted before, however the calls,
\* the tasks and their copied contexts interleave (lifecycle.py:52-57).
DrainAdmitsOnlyNestedWork ==
  [][\A d \in live' \ live :
        state # "OPEN" => state = "DRAINING" /\ parent'[d] # None]_vars

\* When cleanup() starts, and from then on, no dispatch is inside and no task
\* started in one still runs: nothing uses the executor after its shutdown.
CleanupFindsBusQuiet ==
  closer \in {"woken", "cleaned", "raised"} => live = {} /\ alive = Caller

\* Code that runs on behalf of a dispatch can always publish: the follow-ups of
\* an accepted tree are never refused, though the dispatch that emitted them may
\* have returned and the bus be draining or about to be closed.
InsideMayPublish ==
  \A t \in alive : cur[t] # None => MayEnter("publish", t)

\* README, "Closing behavior": "The bus closes only after the full accepted
\* dispatch tree has completed."
ClosedOnlyWhenDrained ==
  state = "CLOSED" => live = {}

\* The lifecycle keeps the promise of DrainContract, a tree being a dispatch
\* that was not called on behalf of another one.
Contract == INSTANCE DrainContract WITH
  Tree <- Dispatch,
  phase <- state,
  accepted <- {d \in live : parent[d] = None}

KeepsDrainContract == Contract!Spec

\* A close operation comes to an end if from some point on the accepted trees
\* stop growing: no wake-up is lost, and no stream of callers keeps it waiting.
CloseCompletes ==
  <>[][~Grow]_vars => ((closer # "idle") ~> (state = "CLOSED"))

=============================================================================
