--------------------------- MODULE TraceDelivery ---------------------------
(***************************************************************************)
(* What subscribers are told of one dispatch tree: the trace facts of      *)
(* observability.py as dispatch_tree.py and handler_runtime.py deliver     *)
(* them, with the metadata of messages.py, the registry.py the handlers    *)
(* come from, and the lines debug.py makes of the facts.                   *)
(*                                                                         *)
(* A fact is delivered by the coroutine it is about: the dispatch of a     *)
(* message, or the invocation of one of its handlers.  It walks over the   *)
(* bus's own list of subscribers and awaits each of them, while the other  *)
(* coroutines go on, subscribers are added and handlers registered.        *)
(*                                                                         *)
(* Messages are numbered as they are emitted, which stands for the         *)
(* dispatch_id too.  The bus stays open: DispatchTree models closing, and  *)
(* the failures that climb up the tree, of which only the success of a     *)
(* dispatch is told here.                                                  *)
(***************************************************************************)
EXTENDS Naturals, SequencesExt

CONSTANTS
  Modes,         \* event_concurrency: "sequential", "concurrent"
  MaxMsg,        \* bound of the model: messages of the tree, the root included
  MaxHandlers,   \* bound of the model: handlers registered for events
  MaxWork,       \* bound of the model: invocations of event handlers in the tree
  FirstSubs,     \* subscribers the bus is constructed with
  MaxSubs,       \* bound of the model: subscribers
  Ends,          \* how handlers end: "ok", "swallowed" by the error handler, "raised"
  Before, After, \* middleware, before and after call_next: "pass", "skip", "swallow", "raise"
  Touched,       \* bound of the model: messages for which it does more than pass
  Stamps,        \* metadata of an emitted event: "none"; its "own"; "again", that of
                 \* the message handled, where the handler emits that once more
  MayCancel      \* TRUE: the task that called the bus may be cancelled

ASSUME TraceAssumption ==
  /\ Modes \subseteq {"sequential", "concurrent"}
  /\ MaxMsg \in Nat \ {0} /\ MaxHandlers \in Nat \ {0} /\ MaxWork \in Nat
  /\ FirstSubs \in Nat /\ MaxSubs \in Nat /\ FirstSubs <= MaxSubs
  /\ Ends \subseteq {"ok", "swallowed", "raised"}
  /\ Before \subseteq {"pass", "skip", "raise"}
  /\ After \subseteq {"pass", "swallow", "raise"}
  /\ Touched \subseteq 1..MaxMsg
  /\ Stamps \subseteq {"none", "own", "again"}
  /\ MayCancel \in BOOLEAN

Msg == 1..MaxMsg
Handler == 1..MaxHandlers
Sub == 1..MaxSubs
None == 0

\* Handler None is the dispatch itself.
Courier == Msg \X (Handler \cup {None})

VARIABLES
  mode,      \* event_concurrency of the bus
  op,        \* the root operation
  call,      \* the root call, as its caller sees it
  events,    \* number of handlers registered for the events
  subs,      \* length of the list of subscribers
  metadata,  \* message -> MessageMetadata
  by,        \* event -> message and handler that emitted it
  stage,     \* message -> how far its dispatch is
  count,     \* message -> handler_count
  work,      \* message -> handler -> state of its invocation
  failed,    \* message -> TRUE when a handler of it raised
  success,   \* message -> FALSE when its pipeline raised
  place,     \* courier -> place in the list of subscribers
  observer,  \* one of the subscribers, any of them
  log        \* message -> the facts it was called with about its dispatch

setup == <<mode, op, events, subs, observer>>
vars == <<setup, call, metadata, by, stage, count, work, failed, success, place, log>>

\* held: handed over, in the sequential loop, by a dispatch that is not over.
Stage == {"unused", "emitted", "held", "queued", "starting", "handling", "following",
          "finishing", "done", "dropped", "cancelled"}

Metadata == [id : Msg, correlation : Msg, causation : Msg \cup {None}]
Fact == [kind : {"DispatchStarted", "DispatchFinished", "HandlerStarted", "HandlerFinished",
                 "HandlerFailed"},
         dispatch : Msg, handler : Handler \cup {None}, metadata : Metadata, success : BOOLEAN]

TypeOK ==
  /\ mode \in Modes
  /\ op \in {"send", "publish"}
  /\ call \in {"none", "waiting", "returned", "raised", "refused", "cancelled"}
  /\ events \in 0..MaxHandlers
  /\ subs \in FirstSubs..MaxSubs
  /\ metadata \in [Msg -> Metadata]
  /\ by \in [Msg -> (Msg \cup {None}) \X (Handler \cup {None})]
  /\ stage \in [Msg -> Stage]
  /\ count \in [Msg -> 0..MaxHandlers]
  /\ work \in [Msg -> [Handler -> {"none", "starting", "running", "ok", "swallowed", "raised",
                                   "over"}]]
  /\ failed \in [Msg -> BOOLEAN]
  /\ success \in [Msg -> BOOLEAN]
  /\ place \in [Courier -> 1..(MaxSubs + 1)]
  /\ observer \in Sub
  /\ log \in [Msg -> Seq(Fact)]

\* new_root_metadata()
RootMetadata(m) == [id |-> m, correlation |-> m, causation |-> None]

\* derive_child_metadata()
ChildMetadata_Cousin(m, parent) ==
  [id |-> m, correlation |-> parent.id, causation |-> parent.id]
ChildMetadata(m, parent) ==
  [id |-> m, correlation |-> parent.correlation, causation |-> parent.id]

Init ==
  /\ mode \in Modes
  /\ op = "send"
  /\ call = "none"
  /\ events = 0
  /\ subs = FirstSubs
  /\ metadata = [m \in Msg |-> RootMetadata(m)]
  /\ by = [m \in Msg |-> <<None, None>>]
  /\ stage = [m \in Msg |-> "unused"]
  /\ count = [m \in Msg |-> 0]
  /\ work = [m \in Msg |-> [h \in Handler |-> "none"]]
  /\ failed = [m \in Msg |-> FALSE]
  /\ success = [m \in Msg |-> TRUE]
  /\ place = [c \in Courier |-> 1]
  /\ observer \in Sub
  /\ log = [m \in Msg |-> <<>>]

Sequential == mode = "sequential"
IsCommand(m) == m = 1 /\ op = "send"
Invocations == FoldFunction(+, 0, [m \in Msg |-> IF IsCommand(m) THEN 0 ELSE count[m]])
EmittedBy(m, h) == {e \in Msg : by[e] = <<m, h>>}

\* Neither a dispatch nor a queue or a task has anything left of the follow-ups.
Over(e) == stage[e] \in {"unused", "emitted", "done", "dropped"}

-----------------------------------------------------------------------------
(* The call.                                                               *)

Call(o) ==
  /\ call = "none"
  /\ op' = o
  /\ call' = "waiting"
  /\ stage' = [stage EXCEPT ![1] = IF o = "send" THEN "starting" ELSE "queued"]
  /\ count' = [count EXCEPT ![1] = IF o = "send" THEN 1 ELSE 0]
  /\ UNCHANGED <<mode, events, subs, observer, metadata, by, work, failed, success, place, log>>

\* send() without a handler raises NoCommandHandlerError, and nothing is told.
Refuse ==
  /\ call = "none"
  /\ call' = "refused"
  /\ UNCHANGED <<setup, metadata, by, stage, count, work, failed, success, place, log>>

\* Both kinds of publication end with an exception when a dispatch of theirs raised.
Return ==
  /\ call = "waiting"
  /\ IF op = "send" THEN stage[1] = "done" ELSE \A m \in Msg : Over(m)
  /\ call' = IF success[1] /\ (op = "publish" => \A m \in Msg : success[m])
             THEN "returned" ELSE "raised"
  /\ UNCHANGED <<setup, metadata, by, stage, count, work, failed, success, place, log>>

\* CancelledError takes whatever runs in the task of the call with it, and no
\* except clause delivers a fact for it.  The tasks of concurrent events run on, so
\* that a concurrent publish() has nothing to lose.
Cancel ==
  /\ MayCancel
  /\ call = "waiting"
  /\ Sequential \/ op = "send"
  /\ call' = "cancelled"
  /\ stage' = [m \in Msg |-> IF Over(m) \/ ~(Sequential \/ IsCommand(m))
                             THEN stage[m] ELSE "cancelled"]
  /\ UNCHANGED <<setup, metadata, by, count, work, failed, success, place, log>>

-----------------------------------------------------------------------------
(* _deliver_trace.                                                         *)

\* The fact a courier has to deliver.
Kind(c) ==
  IF c[2] = None
  THEN IF stage[c[1]] = "starting" THEN "DispatchStarted" ELSE "DispatchFinished"
  ELSE CASE work[c[1]][c[2]] = "starting" -> "HandlerStarted"
         [] work[c[1]][c[2]] = "ok" -> "HandlerFinished"
         [] OTHER -> "HandlerFailed"

FactOf(c) ==
  [kind |-> Kind(c), dispatch |-> c[1], handler |-> c[2], metadata |-> metadata[c[1]],
   success |-> Kind(c) = "DispatchFinished" /\ success[c[1]]]

\* Sequential mode invokes a handler when the one before it is over.
Delivering(c) ==
  IF c[2] = None THEN stage[c[1]] \in {"starting", "finishing"}
  ELSE /\ stage[c[1]] = "handling"
       /\ work[c[1]][c[2]] \in {"starting", "ok", "swallowed", "raised"}
       /\ Sequential => \A h \in 1..(c[2] - 1) : work[c[1]][h] = "over"

\* What a subscriber raises is logged, and the next one is called.
Onward_Skip(p, raises) == IF raises THEN p + 2 ELSE p + 1
Onward_Abandon(p, raises) == IF raises THEN MaxSubs + 1 ELSE p + 1
Onward(p, raises) == p + 1

Deliver(c, raises) ==
  /\ Delivering(c)
  /\ place[c] <= subs
  /\ log' = IF place[c] = observer
            THEN [log EXCEPT ![c[1]] = Append(log[c[1]], FactOf(c))] ELSE log
  /\ place' = [place EXCEPT ![c] = Onward(place[c], raises)]
  /\ UNCHANGED <<setup, call, metadata, by, stage, count, work, failed, success>>

\* The loop has come to the end of the list, as it is now.
Delivered(c) == Delivering(c) /\ place[c] > subs

-----------------------------------------------------------------------------
(* The bus is set up, also while it dispatches.  Both lists are read at one *)
(* kind of place only, and a change earlier is a change just before it.     *)

\* Subscribers behind the observer would only take time.
AddSubscriber ==
  /\ subs < observer
  /\ call = "none" \/ \E c \in Courier : Delivering(c)
  /\ subs' = subs + 1
  /\ UNCHANGED <<mode, op, events, observer, call, metadata, by, stage, count, work, failed,
                 success, place, log>>

RegisterEventHandler ==
  /\ events < MaxHandlers
  /\ call = "none" \/ \E m \in Msg : stage[m] \in {"queued", "starting"}
  /\ events' = events + 1
  /\ UNCHANGED <<mode, op, subs, observer, call, metadata, by, stage, count, work, failed,
                 success, place, log>>

-----------------------------------------------------------------------------
(* Dispatches.                                                             *)

\* _publish_one_event takes a copy of the registered handlers.  The sequential
\* loop takes the next event when nothing else is dispatched.
Start(m) ==
  /\ stage[m] = "queued"
  /\ Sequential => \A e \in Msg :
       /\ stage[e] \notin {"starting", "handling", "finishing"}
       /\ e < m => stage[e] # "queued"
  /\ Invocations + events <= MaxWork
  /\ stage' = [stage EXCEPT ![m] = "starting"]
  /\ count' = [count EXCEPT ![m] = events]
  /\ UNCHANGED <<setup, call, metadata, by, work, failed, success, place, log>>

\* The middleware reaches the final handler.
Invoked_Registered(m) == IF IsCommand(m) THEN {1} ELSE 1..events
Invoked(m) == 1..count[m]

Enter(m) ==
  /\ Delivered(<<m, None>>)
  /\ stage[m] = "starting"
  /\ "pass" \in Before
  /\ stage' = [stage EXCEPT ![m] = "handling"]
  /\ work' = [work EXCEPT ![m] = [h \in Handler |-> IF h \in Invoked(m) THEN "starting" ELSE "none"]]
  /\ place' = [place EXCEPT ![<<m, None>>] = 1]
  /\ UNCHANGED <<setup, call, metadata, by, count, failed, success, log>>

\* _notify_dispatch_finished begins; ok is FALSE when the pipeline raised.
Notify(m, ok) ==
  /\ stage' = [stage EXCEPT ![m] = "finishing"]
  /\ success' = [success EXCEPT ![m] = ok]
  /\ place' = [place EXCEPT ![<<m, None>>] = 1]

Deflect(m, b) ==
  /\ Delivered(<<m, None>>)
  /\ stage[m] = "starting"
  /\ b \in Before \ {"pass"} /\ m \in Touched
  /\ Notify(m, b = "skip")
  /\ UNCHANGED <<setup, call, metadata, by, count, work, failed, log>>

\* The final handler of an event ends with its handlers, that of a command when
\* its follow-ups are published.
Handled(m) ==
  IF IsCommand(m)
  THEN \/ stage[m] = "handling" /\ failed[m]
       \/ stage[m] = "following" /\ \A e \in Msg \ {m} : Over(e)
  ELSE stage[m] = "handling" /\ \A h \in Handler : work[m][h] \in {"none", "over"}

Raised(m) == failed[m] \/ (IsCommand(m) /\ \E e \in Msg \ {m} : ~success[e])

\* The sequential loop drops the follow-ups of an event whose middleware raised.
Complete(m, a) ==
  /\ Handled(m)
  /\ a \in After /\ (a # "pass" => m \in Touched)
  /\ a = "swallow" => Raised(m)
  /\ success' = [success EXCEPT ![m] = (a = "swallow" \/ (a = "pass" /\ ~Raised(m)))]
  /\ stage' = [e \in Msg |-> IF e = m THEN "finishing"
                             ELSE IF a = "raise" /\ stage[e] = "held" THEN "dropped"
                             ELSE stage[e]]
  /\ UNCHANGED <<setup, call, metadata, by, count, work, failed, place, log>>

\* The dispatch is over: the sequential loop queues the follow-ups.
Finish(m) ==
  /\ Delivered(<<m, None>>)
  /\ stage[m] = "finishing"
  /\ stage' = [e \in Msg |-> IF e = m THEN "done"
                             ELSE IF stage[e] = "held" THEN "queued" ELSE stage[e]]
  /\ place' = [place EXCEPT ![<<m, None>>] = 1]
  /\ UNCHANGED <<setup, call, metadata, by, count, work, failed, success, log>>

-----------------------------------------------------------------------------
(* Invocations.                                                            *)

Run(m, h) ==
  /\ Delivered(<<m, h>>)
  /\ work[m][h] = "starting"
  /\ work' = [work EXCEPT ![m][h] = "running"]
  /\ place' = [place EXCEPT ![<<m, h>>] = 1]
  /\ UNCHANGED <<setup, call, metadata, by, stage, count, failed, success, log>>

\* as_runtime_message() keeps the metadata a message has.
Stamped(e, m, stamp) ==
  CASE stamp = "none" -> ChildMetadata(e, metadata[m])
    [] stamp = "own" -> RootMetadata(e)
    [] stamp = "again" -> metadata[m]

\* context.emit()
Emit(m, h, stamp) ==
  /\ stage[m] = "handling" /\ work[m][h] = "running"
  /\ \E e \in Msg \ {1} :
       /\ stage[e] = "unused" /\ stage[e - 1] # "unused"
       /\ stage' = [stage EXCEPT ![e] = "emitted"]
       /\ by' = [by EXCEPT ![e] = <<m, h>>]
       /\ metadata' = [metadata EXCEPT ![e] = Stamped(e, m, stamp)]
  /\ UNCHANGED <<setup, call, count, work, failed, success, place, log>>

\* The handler ends, and the error handler if it was called.
End(m, h, r) ==
  /\ stage[m] = "handling" /\ work[m][h] = "running"
  /\ work' = [work EXCEPT ![m][h] = r]
  /\ UNCHANGED <<setup, call, metadata, by, stage, count, failed, success, place, log>>

\* invoke() is over.  Its outcome is collected: the follow-ups of a command and
\* of a concurrent event may begin, those of a sequential one are held.
HandOver(m, h) ==
  IF work[m][h] = "raised" THEN "dropped"
  ELSE IF Sequential /\ ~IsCommand(m) THEN "held" ELSE "queued"

Collect(m, h) ==
  /\ Delivered(<<m, h>>)
  /\ work[m][h] \in {"ok", "swallowed", "raised"}
  /\ work' = [work EXCEPT ![m][h] = "over"]
  /\ failed' = [failed EXCEPT ![m] = failed[m] \/ work[m][h] = "raised"]
  /\ stage' = [e \in Msg |-> IF e \in EmittedBy(m, h) THEN HandOver(m, h)
                             ELSE IF e = m /\ IsCommand(m) /\ work[m][h] # "raised" THEN "following"
                             ELSE stage[e]]
  /\ place' = [place EXCEPT ![<<m, h>>] = 1]
  /\ UNCHANGED <<setup, call, metadata, by, count, success, log>>

-----------------------------------------------------------------------------
Next ==
  \/ AddSubscriber
  \/ RegisterEventHandler
  \/ \E o \in {"send", "publish"} : Call(o)
  \/ Refuse
  \/ Return
  \/ Cancel
  \/ \E c \in Courier, raises \in BOOLEAN : Deliver(c, raises)
  \/ \E m \in Msg : \/ Start(m)
                    \/ Enter(m)
                    \/ \E b \in Before : Deflect(m, b)
                    \/ \E a \in After : Complete(m, a)
                    \/ Finish(m)
  \/ \E m \in Msg, h \in Handler : \/ Run(m, h)
                                   \/ \E stamp \in Stamps : Emit(m, h, stamp)
                                   \/ \E r \in Ends : End(m, h, r)
                                   \/ Collect(m, h)

Spec == Init /\ [][Next]_vars

-----------------------------------------------------------------------------
(* DebugSubscriber: the line it makes of a fact, where it shows it.        *)

Facts == UNION {ToSet(log[m]) : m \in Msg}
Shown(includeDispatch) == {f \in Facts : includeDispatch \/ f.handler # None}

Line(f) ==
  [level |-> IF f.kind = "HandlerFailed" THEN "ERROR" ELSE "DEBUG",
   word |-> CASE f.kind = "HandlerStarted" -> "START"
              [] f.kind = "HandlerFinished" -> "DONE"
              [] f.kind = "HandlerFailed" -> "FAIL"
              [] f.kind = "DispatchStarted" -> "DISPATCH START"
              [] f.kind = "DispatchFinished" -> "DISPATCH DONE",
   dispatch_id |-> f.dispatch,
   success |-> f.success]

Lines == {Line(f) : f \in Shown(TRUE)}

-----------------------------------------------------------------------------
(* Properties.                                                             *)

Ended(f) == f.kind \in {"HandlerFinished", "HandlerFailed"}
FromTheStart == observer <= FirstSubs

\* A subscriber the bus was constructed with sees a dispatch as a bracket, however
\* facts of concurrent handlers interleave, subscribers raise, are added or slow:
\* nothing before its start, nothing after its finish, each handler's start before
\* the handler's end, all of it once; and a finish that follows all or none of the
\* handlers its start announced.  A cancelled dispatch leaves the bracket open
\* (dispatch_tree.py:337-392, handler_runtime.py:60-119).
FactsBracketed ==
  FromTheStart => \A m \in Msg :
    LET facts == log[m] IN
    /\ IsInjective(facts)
    /\ \A i \in DOMAIN facts :
         /\ (facts[i].kind = "DispatchStarted") = (i = 1)
         /\ facts[i].kind = "DispatchFinished" =>
              /\ i = Len(facts)
              /\ i \in {2, 2 + 2 * count[m]}
         /\ Ended(facts[i]) =>
              /\ \E j \in 1..(i - 1) :
                   facts[j].kind = "HandlerStarted" /\ facts[j].handler = facts[i].handler
              /\ \A j \in 1..(i - 1) : Ended(facts[j]) => facts[j].handler # facts[i].handler

\* The metadata leads back to the cause: whatever such a subscriber sees of a
\* message with a causation_id, it has seen a handler of the message of that id end
\* before, with the same correlation_id; also where a message is emitted once more,
\* or one carries metadata of its own.  And the finish of a command is the last
\* fact of its tree (dispatch_tree.py:104-119, 192-218, handler_runtime.py:101-120,
\* messages.py:34-85).
CauseSeenFirst ==
  [][\A m \in Msg : FromTheStart /\ log'[m] # log[m] =>
       LET f == Last(log'[m]).metadata IN
       /\ f.causation # None =>
            \E g \in Facts : /\ Ended(g)
                            /\ g.metadata.id = f.causation
                            /\ g.metadata.correlation = f.correlation
       /\ \A g \in Facts : ~(g.kind = "DispatchFinished" /\ IsCommand(g.dispatch))]_log

\* The debug output agrees with what the caller is told.  After a call that was not
\* cancelled every dispatch shown at all is shown as done, to a subscriber that was
\* added in between too; and, to one the bus was constructed with, a dispatch is
\* shown without success exactly if the call raised, the command's own for send()
\* (dispatch_tree.py:349-357, debug.py:82-145).
OutcomeShown ==
  call \in {"returned", "raised", "refused"} =>
    LET done == {l \in Lines : l.word = "DISPATCH DONE"} IN
    /\ {l.dispatch_id : l \in Lines} = {l.dispatch_id : l \in done}
    /\ FromTheStart /\ call # "refused" =>
         ((call = "raised") = \E l \in done : ~l.success /\ (op = "send" => l.dispatch_id = 1))

=============================================================================
