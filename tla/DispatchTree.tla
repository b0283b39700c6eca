---------------------------- MODULE DispatchTree ----------------------------
(***************************************************************************)
(* One accepted dispatch tree: src/dispatchbus/dispatch_tree.py with the   *)
(* handler invocation of handler_runtime.py, from the root send() or       *)
(* publish() to what its caller is told, while the bus may be closed.      *)
(*                                                                         *)
(* A message is dispatched through a middleware to its handlers; a handler *)
(* emits follow-up events, which are published once its outcome is known.  *)
(* In sequential mode one loop, in the task of the call, takes the events  *)
(* from a queue; in concurrent mode every event has a task, which goes on  *)
(* to collect the failures of the tasks of its follow-ups.                 *)
(*                                                                         *)
(* Messages are numbered as they are emitted, the root being number one.   *)
(* Admission is BusLifecycle's, for code whose depth is not zero; nested   *)
(* calls that handlers make themselves are modelled there.                 *)
(***************************************************************************)
EXTENDS Naturals, SequencesExt, FiniteSetsExt

CONSTANTS
  Mode,          \* event_concurrency
  MaxMsg,        \* bound of the model: messages of the tree, the root included
  MaxHandlers,   \* bound of the model: handlers registered for an event
  HandlerEnds,   \* how handlers end: "ok", "raised", with BusDrainingError from a
                 \* call to the bus, "drain", and "swallowed" where an error_handler
                 \* is configured and does not raise itself
  Before, After, \* what the middleware does before and after call_next(message):
                 \* "pass"; "skip" it; "swallow" its error; "raise" an error of
                 \* its own; get BusDrainingError from a call to the bus, "drain"
  MayCancel      \* TRUE: the task that called the bus may be cancelled

ASSUME TreeAssumption ==
  /\ Mode \in {"sequential", "concurrent"}
  /\ MaxMsg \in Nat \ {0}
  /\ MaxHandlers \in Nat \ {0}
  /\ HandlerEnds \subseteq {"ok", "swallowed", "raised", "drain"}
  /\ Before \subseteq {"pass", "skip", "raise", "drain"}
  /\ After \subseteq {"pass", "swallow", "raise", "drain"}
  /\ MayCancel \in BOOLEAN

Msg == 1..MaxMsg
Handler == 1..MaxHandlers

VARIABLES
  op,        \* the root operation
  call,      \* the root call, as its caller sees it
  report,    \* what it raised: kind and failures
  stage,     \* message -> how far its dispatch is
  by,        \* event -> message and handler that emitted it
  handling,  \* message -> handler -> state of its invocation
  ended,     \* message -> handlers that ended, not collected, in that order
  follow,    \* message -> its follow-up events, in the order handed over
  failed,    \* message -> failures its dispatch, then its task, ended with
  threw,     \* message -> kind of exception its dispatch, then its task, raised
  pending,   \* the deque of the sequential loop
  mid,       \* message -> what the middleware did with it, "pass" to begin with
  state, inFlight, closer   \* of BusLifecycle

callVars == <<op, call, report>>
lifeVars == <<state, inFlight, closer>>
vars == <<callVars, stage, by, handling, ended, follow, failed, threw, pending, mid, lifeVars>>

\* unused: not emitted yet; emitted: held by an EventContext or a list of
\* follow-ups; queued: in pending, or its task created; started: admitted, in the
\* middleware; handling: in the final handler; following: the final handler of a
\* command publishes its follow-ups; collecting: a concurrent task awaits its
\* follow-ups; dropped: never to be published; cancelled: with the call.
Stage == {"unused", "emitted", "queued", "started", "handling", "following",
          "collecting", "done", "dropped", "cancelled"}
Kind == {"no", "failures", "error", "drain"}

\* Zero stands for an exception that is none of a handler's: the middleware's own,
\* or a BusDrainingError.
Failure == Msg \X (Handler \cup {0})
NoHandler(m) == <<<<m, 0>>>>

TypeOK ==
  /\ op \in {"send", "publish"}
  /\ call \in {"none", "waiting", "returned", "cancelled"}
  /\ report.kind \in Kind /\ report.failures \in Seq(Failure)
  /\ stage \in [Msg -> Stage]
  /\ by \in [Msg -> (Msg \cup {0}) \X (Handler \cup {0})]
  /\ handling \in [Msg -> [Handler -> {"none", "running", "ok", "swallowed", "raised", "drain"}]]
  /\ ended \in [Msg -> Seq(Handler)]
  /\ follow \in [Msg -> Seq(Msg)]
  /\ failed \in [Msg -> Seq(Failure)]
  /\ threw \in [Msg -> Kind]
  /\ pending \in Seq(Msg)
  /\ mid \in [Msg -> Before \cup After \cup {"pass"}]
  /\ state \in {"OPEN", "DRAINING", "CLOSED"}
  /\ inFlight \in 0..(MaxMsg + 1)
  /\ closer \in {"idle", "started", "waiting", "woken", "closed"}

Init ==
  /\ op = "send"
  /\ call = "none"
  /\ report = [kind |-> "no", failures |-> <<>>]
  /\ stage = [m \in Msg |-> "unused"]
  /\ by = [m \in Msg |-> <<0, 0>>]
  /\ handling = [m \in Msg |-> [h \in Handler |-> "none"]]
  /\ ended = [m \in Msg |-> <<>>]
  /\ follow = [m \in Msg |-> <<>>]
  /\ failed = [m \in Msg |-> <<>>]
  /\ threw = [m \in Msg |-> "no"]
  /\ pending = <<>>
  /\ mid = [m \in Msg |-> "pass"]
  /\ state = "OPEN"
  /\ inFlight = 0
  /\ closer = "idle"

-----------------------------------------------------------------------------
(* Helpers.                                                                *)

Sequential == Mode = "sequential"
IsCommand(m) == m = 1 /\ op = "send"

\* Messages in the order in which they were emitted.
InOrder(S) == CHOOSE s \in SetToSeqs(S) : \A i, j \in DOMAIN s : i < j => s[i] < s[j]

\* Events whose dispatch is under way.
Running(m) == ~IsCommand(m) /\ stage[m] \in {"started", "handling"}

\* The sequential loop has nothing left; the tasks of the events have ended.
Published_NotAwaited(events) ==
  IF Sequential THEN pending = <<>> ELSE \A m \in ToSet(events) : stage[m] = "done"
Published(events) ==
  IF Sequential
  THEN pending = <<>> /\ \A m \in Msg : ~Running(m)
  ELSE \A m \in ToSet(events) : stage[m] = "done"

\* An exception came out of invoke().
Fails(m, h) == handling[m][h] \in {"raised", "drain"}

FailuresOf(events) == FlattenSeq([i \in DOMAIN events |-> failed[events[i]]])

\* A failure that is a BusDrainingError: a handler's, the middleware's, or that of
\* an event that was refused.
Draining(f) ==
  IF f[2] = 0 THEN mid[f[1]] # "raise" ELSE handling[f[1]][f[2]] = "drain"

\* It is raised in place of all other failures, wherever in the tree it comes from;
\* but in sequential mode that of an event's handler is one of the failures.
Alone(f) == Draining(f) /\ (Sequential => f[2] = 0 \/ IsCommand(f[1]))

\* What _publish_events_sequential or _publish_events_concurrent raises for the
\* events it was given: all failures that were collected, with those of the whole
\* tree below; or the first to come of those that are raised alone, where the model
\* takes any.  In sequential mode it took all events of the tree.
Taken_Given(events) == events
Taken(events) ==
  IF Sequential
  THEN InOrder({m \in Msg : ~IsCommand(m) /\ stage[m] = "done"})
  ELSE events

Publication_Direct(events) ==
  LET failures == FailuresOf(Taken(events)) IN
  IF \E m \in ToSet(Taken(events)) : threw[m] = "drain"
  THEN [kind |-> "drain", failures |-> <<CHOOSE f \in ToSet(failures) : Alone(f)>>]
  ELSE [kind |-> IF failures = <<>> THEN "no" ELSE "failures", failures |-> failures]
Publication(events) ==
  LET failures == FailuresOf(Taken(events)) IN
  IF \E f \in ToSet(failures) : Alone(f)
  THEN [kind |-> "drain", failures |-> <<CHOOSE f \in ToSet(failures) : Alone(f)>>]
  ELSE [kind |-> IF failures = <<>> THEN "no" ELSE "failures", failures |-> failures]

\* The root event is covered by the admission of the call; others have their own.
Admitted_Always(m) == TRUE
Admitted(m) == m # 1

\* _exit_admission for n admissions
LastOut_Early(n) == inFlight <= n + 1
LastOut_Never(n) == FALSE
LastOut(n) == inFlight = n

Leave(n) ==
  /\ inFlight' = inFlight - n
  /\ closer' = IF LastOut(n) /\ closer = "waiting" THEN "woken" ELSE closer
  /\ UNCHANGED state

-----------------------------------------------------------------------------
(* The call.                                                               *)

\* send() or publish() from outside a dispatch; refused unless the bus is open.
Call(o) ==
  /\ call = "none"
  /\ state = "OPEN"
  /\ op' = o
  /\ call' = "waiting"
  /\ stage' = [stage EXCEPT ![1] = IF o = "send" THEN "started" ELSE "queued"]
  /\ pending' = IF o = "publish" /\ Sequential THEN <<1>> ELSE <<>>
  /\ inFlight' = inFlight + 1
  /\ UNCHANGED <<report, by, handling, ended, follow, failed, threw, mid, state, closer>>

\* The event loop runs the first step of a new task, which claims the admission,
\* before it resumes a task that was woken later.
Begun(events) == \A e \in events : stage[e] # "queued"

\* The call returns or raises, and gives its admission back.
Return ==
  /\ call = "waiting"
  /\ \A m \in Msg : stage[m] = "done" => Begun(ToSet(follow[m]))
  /\ IF op = "send"
     THEN /\ stage[1] = "done"
          /\ report' = [kind |-> threw[1], failures |-> failed[1]]
     ELSE /\ Published(<<1>>)
          /\ report' = Publication(<<1>>)
  /\ call' = "returned"
  /\ Leave(1)
  /\ UNCHANGED <<op, stage, by, handling, ended, follow, failed, threw, pending, mid>>

\* CancelledError reaches what the task of the call is executing or awaiting: the
\* command handler; in sequential mode the event taken from the queue, which
\* gives its own admission back.  as_completed() leaves event tasks running.
Cancel ==
  /\ MayCancel
  /\ call = "waiting"
  /\ Begun(IF op = "publish" THEN {1} ELSE IF Sequential THEN {} ELSE ToSet(follow[1]))
  /\ call' = "cancelled"
  /\ LET hit == {m \in Msg : /\ IsCommand(m) \/ (Sequential /\ Running(m))
                             /\ stage[m] # "done"}
         lost == ToSet(pending) \cup
                   (IF Sequential THEN UNION {ToSet(follow[m]) : m \in hit} ELSE {})
     IN /\ stage' = [m \in Msg |-> IF m \in hit THEN "cancelled"
                                   ELSE IF m \in lost /\ stage[m] # "done" THEN "dropped"
                                   ELSE stage[m]]
        /\ Leave(1 + Cardinality(hit \ {1}))
  /\ pending' = <<>>
  /\ UNCHANGED <<op, report, by, handling, ended, follow, failed, threw, mid>>

-----------------------------------------------------------------------------
(* The dispatch of one message.                                            *)

\* m, a command or an event, has left the pipeline with the given outcome: its
\* DispatchFinished is delivered and an event gives its own admission back.  The
\* sequential loop keeps the follow-ups unless the error is not a publication's.
Keeps_OnSuccess(kind) == kind = "no"
Keeps(kind) == kind \in {"no", "failures"}

Enqueue_InFront(queue, events) == events \o queue
Enqueue(queue, events) == queue \o events

Finish(m, kind, failures) ==
  /\ threw' = [threw EXCEPT ![m] = kind]
  /\ failed' = [failed EXCEPT ![m] = failures]
  /\ IF Admitted(m) THEN Leave(1) ELSE UNCHANGED lifeVars
  /\ IF IsCommand(m)
     THEN stage' = [stage EXCEPT ![m] = "done"] /\ UNCHANGED pending
     ELSE IF ~Sequential
     THEN /\ stage' = [stage EXCEPT ![m] = IF kind = "drain" THEN "done" ELSE "collecting"]
          /\ UNCHANGED pending
     ELSE LET all == Enqueue(pending, follow[m])
              kept == IF kind = "drain" THEN <<>> ELSE IF Keeps(kind) THEN all ELSE pending
          IN /\ pending' = kept
             /\ stage' = [e \in Msg |-> IF e = m THEN "done"
                                        ELSE IF e \in ToSet(kept) THEN "queued"
                                        ELSE IF e \in ToSet(all) THEN "dropped"
                                        ELSE stage[e]]

\* An event's turn comes: the head of the queue, or its task's first step.
Turn(m) ==
  /\ stage[m] = "queued"
  /\ Sequential => /\ call = "waiting"
                   /\ m = Head(pending)
                   /\ \A e \in Msg : ~Running(e)

Start(m) ==
  /\ Turn(m)
  /\ Admitted(m) => state # "CLOSED"
  /\ inFlight' = IF Admitted(m) THEN inFlight + 1 ELSE inFlight
  /\ stage' = [stage EXCEPT ![m] = "started"]
  /\ pending' = IF Sequential THEN Tail(pending) ELSE pending
  /\ UNCHANGED <<callVars, by, handling, ended, follow, failed, threw, mid, state, closer>>

\* The bus is closed: BusDrainingError ends the task of a concurrent event.  A
\* call that still waits keeps the bus from closing, so a queue never meets it.
Refuse(m) ==
  /\ Turn(m)
  /\ Admitted(m)
  /\ state = "CLOSED"
  /\ stage' = [stage EXCEPT ![m] = "done"]
  /\ threw' = [threw EXCEPT ![m] = "drain"]
  /\ failed' = [failed EXCEPT ![m] = NoHandler(m)]
  /\ UNCHANGED <<callVars, by, handling, ended, follow, pending, mid, lifeVars>>

\* The middleware calls the next one, in the end the final handler, with the
\* handlers that were registered for the message when its dispatch began.
Enter(m) ==
  /\ stage[m] = "started"
  /\ "pass" \in Before
  /\ stage' = [stage EXCEPT ![m] = "handling"]
  /\ \E n \in 0..MaxHandlers :
       /\ IsCommand(m) => n = 1
       /\ handling' = [handling EXCEPT ![m] =
                         [h \in Handler |-> IF h <= n THEN "running" ELSE "none"]]
  /\ UNCHANGED <<callVars, by, ended, follow, failed, threw, pending, mid, lifeVars>>

\* The middleware returns or raises without calling the next one.
Deflect(m, b) ==
  /\ stage[m] = "started"
  /\ b \in Before \ {"pass"}
  /\ b = "drain" => state # "OPEN"
  /\ IF b = "skip" THEN Finish(m, "no", <<>>)
     ELSE Finish(m, IF b = "raise" THEN "error" ELSE "drain", NoHandler(m))
  /\ mid' = [mid EXCEPT ![m] = b]
  /\ UNCHANGED <<callVars, by, handling, ended, follow>>

-----------------------------------------------------------------------------
(* Handlers.                                                               *)

\* Sequential mode collects a handler's outcome before it invokes the next one.
InHandler(m, h) ==
  /\ stage[m] = "handling"
  /\ handling[m][h] = "running"
  /\ Sequential => ended[m] = <<>> /\ \A g \in 1..(h - 1) : handling[m][g] # "running"

\* context.emit()
Emit(m, h) ==
  /\ InHandler(m, h)
  /\ \E e \in Msg :
       /\ stage[e] = "unused"
       /\ e # 1 /\ (e > 2 => stage[e - 1] # "unused")
       /\ stage' = [stage EXCEPT ![e] = "emitted"]
       /\ by' = [by EXCEPT ![e] = <<m, h>>]
  /\ UNCHANGED <<callVars, handling, ended, follow, failed, threw, pending, mid, lifeVars>>

\* invoke() comes to its end, the error handler called where there is one.  A
\* handler's own call to the bus is refused only once the bus is closing.
HandlerEnd(m, h, r) ==
  /\ InHandler(m, h)
  /\ r \in HandlerEnds
  /\ r = "drain" => state # "OPEN"
  /\ handling' = [handling EXCEPT ![m][h] = r]
  /\ ended' = [ended EXCEPT ![m] = Append(ended[m], h)]
  /\ UNCHANGED <<callVars, stage, by, follow, failed, threw, pending, mid, lifeVars>>

\* Events that come with an outcome: a swallowed error has one too.
Outcome(m, h) ==
  IF handling[m][h] \in {"ok", "swallowed"}
  THEN InOrder({e \in Msg : by[e] = <<m, h>>})
  ELSE <<>>

\* The loop over the handlers of an event takes the next result: an outcome goes
\* to on_outcome(), which creates the tasks of the follow-ups in concurrent mode;
\* an exception is a failure.
Collect(m) ==
  /\ ~IsCommand(m)
  /\ stage[m] = "handling"
  /\ ended[m] # <<>>
  /\ LET h == Head(ended[m]) IN
       /\ follow' = [follow EXCEPT ![m] = follow[m] \o Outcome(m, h)]
       /\ failed' = [failed EXCEPT ![m] =
                       IF Fails(m, h) THEN Append(failed[m], <<m, h>>) ELSE failed[m]]
       /\ stage' = [e \in Msg |-> IF ~Sequential /\ e \in ToSet(Outcome(m, h)) THEN "queued"
                                  ELSE stage[e]]
  /\ ended' = [ended EXCEPT ![m] = Tail(ended[m])]
  /\ UNCHANGED <<callVars, by, handling, threw, pending, mid, lifeVars>>

\* The command handler returned, or its error was swallowed: its follow-ups are
\* published before the dispatch of the command finishes.
CommandHandled ==
  /\ IsCommand(1)
  /\ stage[1] = "handling"
  /\ ended[1] # <<>> /\ ~Fails(1, 1)
  /\ follow' = [follow EXCEPT ![1] = Outcome(1, 1)]
  /\ stage' = [e \in Msg |-> IF e = 1 THEN "following"
                             ELSE IF e \in ToSet(Outcome(1, 1)) THEN "queued" ELSE stage[e]]
  /\ pending' = IF Sequential THEN Outcome(1, 1) ELSE <<>>
  /\ ended' = [ended EXCEPT ![1] = <<>>]
  /\ UNCHANGED <<callVars, by, handling, failed, threw, mid, lifeVars>>

\* The final handler has come to its end.
Handled(m) ==
  IF IsCommand(m)
  THEN \/ stage[m] = "handling" /\ Fails(m, 1)
       \/ stage[m] = "following" /\ Published(follow[m])
  ELSE stage[m] = "handling" /\ ended[m] = <<>> /\ \A h \in Handler : handling[m][h] # "running"

\* How it came to its end.
Raised(m) ==
  IF ~IsCommand(m)
  THEN [kind |-> IF failed[m] = <<>> THEN "no" ELSE "failures", failures |-> failed[m]]
  ELSE IF stage[m] = "handling"
  THEN [kind |-> IF handling[m][1] = "drain" THEN "drain" ELSE "error", failures |-> <<<<m, 1>>>>]
  ELSE Publication(follow[m])

\* The middleware lets the result or the exception through, swallows it, or
\* raises an error of its own.
Complete(m, a) ==
  /\ Handled(m)
  /\ a \in After
  /\ a = "swallow" => Raised(m).kind # "no"
  /\ a = "drain" => state # "OPEN"
  /\ CASE a = "pass" -> Finish(m, Raised(m).kind, Raised(m).failures)
       [] a = "swallow" -> Finish(m, "no", <<>>)
       [] a = "raise" -> Finish(m, "error", NoHandler(m))
       [] a = "drain" -> Finish(m, "drain", NoHandler(m))
  /\ mid' = [mid EXCEPT ![m] = a]
  /\ ended' = [ended EXCEPT ![m] = <<>>]
  /\ UNCHANGED <<callVars, by, handling, follow>>

\* The task of a concurrent event ends when those of its follow-ups have ended,
\* with the failures of all of them.
Gathered_Direct(m) == failed[m]
Gathered(m) == failed[m] \o FailuresOf(follow[m])

FollowUpsOver_NotAwaited(m) == TRUE
FollowUpsOver_Succeeded(m) ==
  \A e \in ToSet(follow[m]) : stage[e] = "done" /\ threw[e] = "no"
FollowUpsOver(m) == \A e \in ToSet(follow[m]) : stage[e] = "done"

CollectFollowUps(m) ==
  /\ stage[m] = "collecting"
  /\ FollowUpsOver(m)
  /\ stage' = [stage EXCEPT ![m] = "done"]
  /\ failed' = [failed EXCEPT ![m] = Gathered(m)]
  /\ threw' = [threw EXCEPT ![m] = IF Gathered(m) = <<>> THEN "no" ELSE "failures"]
  /\ UNCHANGED <<callVars, by, handling, ended, follow, pending, mid, lifeVars>>

-----------------------------------------------------------------------------
(* Closing, as in BusLifecycle.                                            *)

BeginClose ==
  /\ closer = "idle"
  /\ state' = "DRAINING"
  /\ closer' = "started"
  /\ UNCHANGED <<callVars, stage, by, handling, ended, follow, failed, threw, pending, mid,
                 inFlight>>

WaitDrained ==
  /\ closer = "started"
  /\ closer' = IF inFlight = 0 THEN "woken" ELSE "waiting"
  /\ UNCHANGED <<callVars, stage, by, handling, ended, follow, failed, threw, pending, mid,
                 state, inFlight>>

FinishClose ==
  /\ closer = "woken"
  /\ state' = "CLOSED"
  /\ closer' = "closed"
  /\ UNCHANGED <<callVars, stage, by, handling, ended, follow, failed, threw, pending, mid,
                 inFlight>>

-----------------------------------------------------------------------------
\* The bus and the handlers make progress.
Step ==
  \/ Return
  \/ CommandHandled
  \/ WaitDrained
  \/ FinishClose
  \/ \E m \in Msg :
       \/ Start(m)
       \/ Refuse(m)
       \/ Enter(m)
       \/ Collect(m)
       \/ CollectFollowUps(m)
       \/ \E b \in Before : Deflect(m, b)
       \/ \E a \in After : Complete(m, a)
       \/ \E h \in Handler, r \in HandlerEnds : HandlerEnd(m, h, r)

Next ==
  \/ Step
  \/ \E o \in {"send", "publish"} : Call(o)
  \/ \E m \in Msg, h \in Handler : Emit(m, h)
  \/ Cancel
  \/ BeginClose

Spec == Init /\ [][Next]_vars

\* Handlers and middleware come to an end; nothing makes anybody call the bus,
\* close it, cancel a call or emit an event.
FairSpec == Spec /\ WF_vars(Step)

-----------------------------------------------------------------------------
(* Properties.                                                             *)

\* A task, or the loop, still has to do with m.
Active(m) == stage[m] \in {"queued", "started", "handling", "following", "collecting"}

\* BusDrainingError came out of the dispatch of an event.
Drained(m) == ~IsCommand(m) /\ threw[m] = "drain"

\* Every handler that failed and every error of the middleware, but for the handler
\* errors that the middleware of their own dispatch swallowed or replaced.
Errors ==
  {f \in Msg \X Handler : Fails(f[1], f[2]) /\ mid[f[1]] = "pass"}
    \cup {<<m, 0>> : m \in {n \in Msg : mid[n] \in {"raise", "drain"}}}

\* The exception the caller sees accounts for everything that went wrong in the
\* tree, once; unless one of the errors, however far down, is a BusDrainingError that
\* is raised alone, which is then all that the caller is told
\* (dispatch_tree.py:134-231, 270-318).
FailuresReportedOnce ==
  call = "returned" /\ (IsCommand(1) => mid[1] = "pass") =>
    IF report.kind = "drain"
    THEN \E f \in Errors : Alone(f) /\ report.failures = <<f>>
    ELSE /\ \A f \in Errors : ~Alone(f)
         /\ IsInjective(report.failures) /\ ToSet(report.failures) = Errors

\* README, "Events": "If one or more event handlers fail, EventPublicationError is
\* raised and exposes the collected failures."
HandlerFailuresExposed ==
  call = "returned" /\ op = "publish" /\ (\A m \in Msg : mid[m] = "pass") =>
    \A m \in Msg, h \in Handler :
      handling[m][h] = "raised" =>
        report.kind = "failures" /\ <<m, h>> \in ToSet(report.failures)

\* When the call returns, every follow-up event that came with an outcome has been
\* dispatched; except that the sequential loop drops those of a dispatch whose
\* middleware raised, and gives up altogether at a BusDrainingError, while a
\* concurrent tree may then have some still to come (dispatch_tree.py:167-175).
FollowUpsDispatched ==
  call = "returned" /\ (\A m \in Msg : ~Drained(m)) =>
    \A e \in Msg : LET m == by[e][1] IN
      m # 0 => \/ stage[e] = "done"
               \/ Fails(m, by[e][2]) /\ stage[e] = "emitted"
               \/ Sequential /\ threw[m] = "error" /\ stage[e] = "dropped"

\* Nothing of the tree runs on after the call: neither a dispatch nor a task that
\* waits for one; nor, in sequential mode, after a call that was cancelled
\* (dispatch_tree.py:104-231).
NothingOutlivesTheCall ==
  call = "returned" \/ (Sequential /\ call = "cancelled") => \A m \in Msg : ~Active(m)

\* In sequential mode events are dispatched one at a time, a whole generation
\* before the next: in the order in which they were emitted.
BreadthFirst ==
  Sequential => \A m, e \in Msg :
    m < e /\ Active(m) /\ ~IsCommand(m) => stage[e] \in {"unused", "emitted", "queued", "dropped"}

\* README, "Closing behavior": "The bus closes only after the full accepted
\* dispatch tree has completed."
TreeRunning ==
  call = "waiting" \/ \E m \in Msg : stage[m] \in {"queued", "started", "handling", "following"}

ClosedAfterTree == state = "CLOSED" => ~TreeRunning

\* The bus keeps the promise of DrainContract, a tree being the call with every
\* follow-up event of it, for as long as the caller does not give it up
\* (dispatch_tree.py:100-132, lifecycle.py:69-81).
Contract == INSTANCE DrainContract WITH
  Tree <- {1},
  phase <- state,
  accepted <- IF TreeRunning /\ call # "cancelled" THEN {1} ELSE {}

KeepsDrainContract == Contract!Spec

\* A call comes to its end, and so does a close operation: no loop waits for a
\* task that is gone, no admission is kept.
CallReturns == (call = "waiting") ~> (call # "waiting")

CloseReturns == (closer # "idle") ~> (state = "CLOSED")

=============================================================================
