------------------------ MODULE TraceDeliveryProofs ------------------------
(***************************************************************************)
(* Proofs about TraceDelivery, for any number of messages, handlers and    *)
(* subscribers.                                                            *)
(*                                                                         *)
(* What the observer has been told of a message follows from how far its   *)
(* dispatch and its invocations are and whether their couriers, in the     *)
(* middle of a delivery, have passed it.  No message but the one a step is *)
(* about moves, except between the stages in which nothing is told of it.  *)
(***************************************************************************)
EXTENDS TraceDelivery, SequenceLemmas

-----------------------------------------------------------------------------
(* What has been told.                                                     *)

\* Nothing is told of such a message.
Waiting(m) == stage[m] \in {"unused", "emitted", "held", "queued", "dropped"}

Passed(c) == place[c] > observer

StartTold(m) ==
  \/ stage[m] \in {"handling", "following", "finishing", "done"}
  \/ stage[m] = "starting" /\ Passed(<<m, None>>)
FinishTold(m) == stage[m] = "done" \/ (stage[m] = "finishing" /\ Passed(<<m, None>>))
BeginTold(m, h) ==
  \/ work[m][h] \in {"running", "ok", "swallowed", "raised", "over"}
  \/ work[m][h] = "starting" /\ Passed(<<m, h>>)
EndTold(m, h) ==
  work[m][h] = "over" \/ (work[m][h] \in {"ok", "swallowed", "raised"} /\ Passed(<<m, h>>))

\* A fact by what it tells, the ends of an invocation being alike.
Tag(f) == <<IF Ended(f) THEN "Ended" ELSE f.kind, f.handler>>

\* The tags that the observer has to have seen.
Expected(m) ==
  {t \in {"DispatchStarted", "DispatchFinished"} \X {None} :
     IF t[1] = "DispatchStarted" THEN StartTold(m) ELSE FinishTold(m)}
  \cup {t \in {"HandlerStarted", "Ended"} \X Handler :
     IF t[1] = "HandlerStarted" THEN BeginTold(m, t[2]) ELSE EndTold(m, t[2])}

\* What an observer from the start has been told is what it had to be, once.
Tagged(m) ==
  /\ {Tag(log[m][i]) : i \in DOMAIN log[m]} = Expected(m)
  /\ \A i, j \in DOMAIN log[m] : Tag(log[m][i]) = Tag(log[m][j]) => i = j

\* FactsBracketed for one message.
Bracketed(m) ==
  LET facts == log[m] IN
  /\ IsInjective(facts)
  /\ \A i \in DOMAIN facts :
       /\ (facts[i].kind = "DispatchStarted") = (i = 1)
       /\ facts[i].kind = "DispatchFinished" =>
            /\ i = Len(facts)
            /\ i \in {2, 2 + 2 * count[m]}
       /\ Ended(facts[i]) =>
            /\ \E j \in 1..(i - 1) :
                 facts[j].kind = "HandlerStarted" /\ facts[j].handler = facts[i].handler
            /\ \A j \in 1..(i - 1) : Ended(facts[j]) => facts[j].handler # facts[i].handler

Told(m) == FromTheStart => Bracketed(m) /\ (stage[m] # "cancelled" => Tagged(m))

FinishIn(m) == \E f \in ToSet(log[m]) : f.kind = "DispatchFinished"

\* What the facts say, to any observer.
Logged(m) ==
  /\ \A f \in ToSet(log[m]) :
       /\ f.dispatch = m /\ f.metadata = metadata[m]
       /\ f.kind = "DispatchFinished" => f.success = success[m] /\ f.handler = None
  /\ log[m] # <<>> => observer <= subs
  /\ FinishIn(m) => FinishTold(m) \/ stage[m] = "cancelled"
  /\ stage[m] = "finishing" /\ Passed(<<m, None>>) => FinishIn(m)
  /\ stage[m] = "done" /\ log[m] # <<>> => FinishIn(m)

\* Where a message is, and where its invocations and its couriers are.
Placed(m) ==
  /\ Waiting(m) \/ stage[m] = "starting" =>
       success[m] /\ ~failed[m] /\ \A h \in Handler : work[m][h] = "none"
  /\ Waiting(m) => log[m] = <<>>
  /\ stage[m] \notin {"starting", "finishing", "cancelled"} => place[<<m, None>>] = 1
  /\ stage[m] # "cancelled" =>
       \A h \in Handler : work[m][h] \in {"none", "running", "over"} => place[<<m, h>>] = 1
  /\ stage[m] \in {"handling", "following"} =>
       \A h \in Handler : work[m][h] = "none" <=> h > count[m]
  /\ stage[m] \in {"following", "finishing", "done"} =>
       \/ \A h \in Handler : work[m][h] = "none"
       \/ \A h \in Handler : work[m][h] = IF h <= count[m] THEN "over" ELSE "none"
  /\ stage[m] = "following" => IsCommand(m)
  /\ IsCommand(m) /\ stage[m] # "unused" => count[m] = 1
  /\ IsCommand(m) => stage[m] # "queued"
  /\ m = 1 => stage[m] \notin {"emitted", "held", "dropped"}
  /\ failed[m] => \E h \in Handler : work[m][h] = "over"
  /\ ~success[m] => stage[m] \in {"finishing", "done", "cancelled"}

-----------------------------------------------------------------------------
(* The tree.                                                               *)

\* Events, their metadata and who emitted them.
Emitted ==
  /\ call \in {"none", "refused"} => \A m \in Msg : stage[m] = "unused"
  /\ metadata[1].causation = None
  /\ \A e \in Msg : e = 1 \/ stage[e] = "unused" => by[e] = <<None, None>>
  /\ \A e \in Msg \ {1} : stage[e] # "unused" =>
       /\ by[e] \in Msg \X Handler
       /\ stage[by[e][1]] \notin {"unused", "emitted"}
       /\ metadata[e] \in {ChildMetadata(e, metadata[by[e][1]]), RootMetadata(e),
                           metadata[by[e][1]]}
       /\ work[by[e][1]][by[e][2]] # "none"
       /\ stage[e] # "emitted" => work[by[e][1]][by[e][2]] = "over"

\* What is handed over leads back to an invocation that was seen to end.
Witnessed ==
  FromTheStart => \A e \in Msg :
    stage[e] \notin {"unused", "emitted"} /\ metadata[e].causation # None =>
      \E g \in Facts : /\ Ended(g)
                       /\ g.metadata.id = metadata[e].causation
                       /\ g.metadata.correlation = metadata[e].correlation

\* A command has no follow-ups under way before its handler is over, nor after it
\* began to finish.
Quiet ==
  op = "send" =>
    /\ stage[1] \in {"starting", "handling"} =>
         \A e \in Msg \ {1} : stage[e] \in {"unused", "emitted", "dropped"}
    /\ stage[1] \in {"finishing", "done"} \/ FinishIn(1) =>
         \A e \in Msg \ {1} : Over(e)

\* A call that is over leaves nothing behind, and tells whether anything failed.
CallOver ==
  call \in {"returned", "raised"} =>
    /\ \A m \in Msg : Over(m)
    /\ (call = "raised") = (~success[1] \/ (op = "publish" /\ \E m \in Msg : ~success[m]))

Each == \A m \in Msg : Placed(m) /\ Logged(m) /\ Told(m)

IInv == TypeOK /\ Each /\ Emitted /\ Witnessed /\ Quiet /\ CallOver

-----------------------------------------------------------------------------
(* Types.                                                                  *)

LEMMA Numbers ==
  /\ Msg \subseteq Nat \ {0} /\ 1 \in Msg
  /\ Handler \subseteq Nat \ {0} /\ 1 \in Handler
  /\ Sub \subseteq Nat \ {0} /\ MaxSubs \in Nat
  /\ None \notin Handler /\ None \notin Msg
  BY TraceAssumption DEF Msg, Handler, Sub, None

LEMMA MetadataTyped ==
  ASSUME NEW e \in Msg, NEW parent \in Metadata
  PROVE  RootMetadata(e) \in Metadata /\ ChildMetadata(e, parent) \in Metadata
  BY DEF RootMetadata, ChildMetadata, Metadata

LEMMA StampedIs ==
  ASSUME TypeOK, NEW e \in Msg, NEW m \in Msg, NEW stamp \in Stamps
  PROVE  /\ Stamped(e, m, stamp) \in {ChildMetadata(e, metadata[m]), RootMetadata(e), metadata[m]}
         /\ Stamped(e, m, stamp) \in Metadata
  <1>1. stamp \in {"none", "own", "again"} /\ metadata[m] \in Metadata
    BY TraceAssumption DEF TypeOK
  <1>2. Stamped(e, m, stamp) \in {ChildMetadata(e, metadata[m]), RootMetadata(e), metadata[m]}
    BY <1>1 DEF Stamped
  <1> QED
    BY <1>1, <1>2, MetadataTyped

\* What a courier has to tell.
LEMMA FactIs ==
  ASSUME TypeOK, NEW c \in Courier, Delivering(c)
  PROVE  /\ FactOf(c) \in Fact
         /\ c = <<c[1], c[2]>> /\ c[1] \in Msg /\ c[2] \in Handler \cup {None}
         /\ FactOf(c).kind = Kind(c) /\ FactOf(c).handler = c[2] /\ FactOf(c).dispatch = c[1]
         /\ FactOf(c).metadata = metadata[c[1]]
         /\ Kind(c) = "DispatchFinished" => FactOf(c).success = success[c[1]]
         /\ c[2] = None =>
              \/ stage[c[1]] = "starting" /\ Kind(c) = "DispatchStarted"
              \/ stage[c[1]] = "finishing" /\ Kind(c) = "DispatchFinished"
         /\ c[2] # None =>
              /\ c[2] \in Handler /\ stage[c[1]] = "handling"
              /\ \/ work[c[1]][c[2]] = "starting" /\ Kind(c) = "HandlerStarted"
                 \/ /\ work[c[1]][c[2]] \in {"ok", "swallowed", "raised"}
                    /\ Kind(c) \in {"HandlerFinished", "HandlerFailed"}
  <1>1. c = <<c[1], c[2]>> /\ c[1] \in Msg /\ c[2] \in Handler \cup {None}
    BY DEF Courier
  <1>2. ASSUME c[2] = None
        PROVE  \/ stage[c[1]] = "starting" /\ Kind(c) = "DispatchStarted"
               \/ stage[c[1]] = "finishing" /\ Kind(c) = "DispatchFinished"
    BY <1>2 DEF Delivering, Kind
  <1>3. ASSUME c[2] # None
        PROVE  /\ c[2] \in Handler /\ stage[c[1]] = "handling"
               /\ \/ work[c[1]][c[2]] = "starting" /\ Kind(c) = "HandlerStarted"
                  \/ /\ work[c[1]][c[2]] \in {"ok", "swallowed", "raised"}
                     /\ Kind(c) \in {"HandlerFinished", "HandlerFailed"}
    <2>1. /\ stage[c[1]] = "handling" /\ c[2] \in Handler
          /\ work[c[1]][c[2]] \in {"starting", "ok", "swallowed", "raised"}
      BY <1>1, <1>3 DEF Delivering
    <2>2. CASE work[c[1]][c[2]] = "starting"
      BY <1>3, <2>1, <2>2 DEF Kind
    <2>3. CASE work[c[1]][c[2]] = "ok"
      BY <1>3, <2>1, <2>3 DEF Kind
    <2>4. CASE work[c[1]][c[2]] \in {"swallowed", "raised"}
      BY <1>3, <2>1, <2>4 DEF Kind
    <2> QED
      BY <2>1, <2>2, <2>3, <2>4
  <1>4. Kind(c) \in {"DispatchStarted", "DispatchFinished", "HandlerStarted", "HandlerFinished",
                     "HandlerFailed"}
    BY <1>2, <1>3
  <1>5. metadata[c[1]] \in Metadata /\ success[c[1]] \in BOOLEAN
    BY <1>1 DEF TypeOK
  <1>6. FactOf(c) \in Fact
    BY <1>1, <1>4, <1>5 DEF FactOf, Fact
  <1>7. /\ FactOf(c).kind = Kind(c) /\ FactOf(c).handler = c[2] /\ FactOf(c).dispatch = c[1]
        /\ FactOf(c).metadata = metadata[c[1]]
        /\ Kind(c) = "DispatchFinished" => FactOf(c).success = success[c[1]]
    BY <1>5 DEF FactOf
  <1> QED
    BY <1>1, <1>2, <1>3, <1>6, <1>7

LEMMA TypeInit == Init => TypeOK
  <1> SUFFICES ASSUME Init PROVE TypeOK
    OBVIOUS
  <1> USE Numbers, TraceAssumption
  <1>1. \A m \in Msg : RootMetadata(m) \in Metadata
    BY DEF RootMetadata, Metadata
  <1>2. <<>> \in Seq(Fact)
    OBVIOUS
  <1>3. 1 \in 1..(MaxSubs + 1) /\ 0 \in 0..MaxHandlers /\ FirstSubs \in FirstSubs..MaxSubs
    OBVIOUS
  <1> QED
    BY <1>1, <1>2, <1>3 DEF Init, TypeOK, Stage

LEMMA TypeNext == TypeOK /\ [Next]_vars => TypeOK'
  <1> SUFFICES ASSUME TypeOK, [Next]_vars PROVE TypeOK'
    OBVIOUS
  <1> USE Numbers, TraceAssumption
  <1>1. CASE AddSubscriber
    <2>1. subs' \in FirstSubs..MaxSubs
      BY <1>1 DEF AddSubscriber, TypeOK, Sub
    <2> QED
      BY <1>1, <2>1 DEF AddSubscriber, TypeOK
  <1>2. CASE RegisterEventHandler
    <2>1. events' \in 0..MaxHandlers
      BY <1>2 DEF RegisterEventHandler, TypeOK
    <2> QED
      BY <1>2, <2>1 DEF RegisterEventHandler, TypeOK
  <1>3. CASE \E o \in {"send", "publish"} : Call(o)
    <2>1. 0 \in 0..MaxHandlers /\ 1 \in 0..MaxHandlers
      OBVIOUS
    <2> QED
      BY <1>3, <2>1 DEF Call, TypeOK, Stage
  <1>4. CASE Refuse
    BY <1>4 DEF Refuse, TypeOK, setup
  <1>5. CASE Return
    BY <1>5 DEF Return, TypeOK, setup
  <1>6. CASE Cancel
    BY <1>6 DEF Cancel, TypeOK, setup, Stage
  <1>7. CASE \E c \in Courier, raises \in BOOLEAN : Deliver(c, raises)
    <2>1. PICK c \in Courier, raises \in BOOLEAN : Deliver(c, raises)
      BY <1>7
    <2>2. FactOf(c) \in Fact /\ c[1] \in Msg
      BY <2>1, FactIs DEF Deliver
    <2>3. log' \in [Msg -> Seq(Fact)]
      <3>1. Append(log[c[1]], FactOf(c)) \in Seq(Fact)
        <4>1. log[c[1]] \in Seq(Fact)
          BY <2>2 DEF TypeOK
        <4> QED
          BY <2>2, <4>1, ElementsOfAppend
      <3> QED
        BY <2>1, <2>2, <3>1 DEF Deliver, TypeOK
    <2>4. place' \in [Courier -> 1..(MaxSubs + 1)]
      <3>1. Onward(place[c], raises) \in 1..(MaxSubs + 1)
        BY <2>1 DEF Deliver, TypeOK, Onward
      <3> QED
        BY <2>1, <3>1 DEF Deliver, TypeOK
    <2> QED
      BY <2>1, <2>3, <2>4 DEF Deliver, TypeOK, setup
  <1>8. ASSUME NEW m \in Msg, Start(m) PROVE TypeOK'
    BY <1>8 DEF Start, TypeOK, setup, Stage
  <1>9. ASSUME NEW m \in Msg, Enter(m) PROVE TypeOK'
    <2>1. work' \in [Msg -> [Handler -> {"none", "starting", "running", "ok", "swallowed",
                                         "raised", "over"}]]
      BY <1>9 DEF Enter, TypeOK
    <2>2. <<m, None>> \in Courier /\ 1 \in 1..(MaxSubs + 1)
      BY DEF Courier
    <2> QED
      BY <1>9, <2>1, <2>2 DEF Enter, TypeOK, setup, Stage
  <1>10. ASSUME NEW m \in Msg, NEW b \in Before, Deflect(m, b) PROVE TypeOK'
    <2>1. <<m, None>> \in Courier /\ 1 \in 1..(MaxSubs + 1)
      BY DEF Courier
    <2> QED
      BY <1>10, <2>1 DEF Deflect, Notify, TypeOK, setup, Stage
  <1>11. ASSUME NEW m \in Msg, NEW a \in After, Complete(m, a) PROVE TypeOK'
    <2>1. Raised(m) \in BOOLEAN
      BY DEF Raised, TypeOK
    <2>2. success' \in [Msg -> BOOLEAN]
      BY <1>11, <2>1 DEF Complete, TypeOK
    <2>3. stage' \in [Msg -> Stage]
      BY <1>11 DEF Complete, TypeOK, Stage
    <2> QED
      BY <1>11, <2>2, <2>3 DEF Complete, TypeOK, setup
  <1>12. ASSUME NEW m \in Msg, Finish(m) PROVE TypeOK'
    <2>1. <<m, None>> \in Courier /\ 1 \in 1..(MaxSubs + 1)
      BY DEF Courier
    <2>2. stage' \in [Msg -> Stage]
      BY <1>12 DEF Finish, TypeOK, Stage
    <2> QED
      BY <1>12, <2>1, <2>2 DEF Finish, TypeOK, setup
  <1>13. ASSUME NEW m \in Msg, NEW h \in Handler, Run(m, h) PROVE TypeOK'
    <2>1. <<m, h>> \in Courier /\ 1 \in 1..(MaxSubs + 1)
      BY DEF Courier
    <2> QED
      BY <1>13, <2>1 DEF Run, TypeOK, setup
  <1>14. ASSUME NEW m \in Msg, NEW h \in Handler, NEW stamp \in Stamps, Emit(m, h, stamp)
         PROVE  TypeOK'
    <2>1. PICK e \in Msg : /\ stage' = [stage EXCEPT ![e] = "emitted"]
                           /\ by' = [by EXCEPT ![e] = <<m, h>>]
                           /\ metadata' = [metadata EXCEPT ![e] = Stamped(e, m, stamp)]
      BY <1>14 DEF Emit
    <2>2. Stamped(e, m, stamp) \in Metadata
      BY StampedIs
    <2> QED
      BY <1>14, <2>1, <2>2 DEF Emit, TypeOK, setup, Stage
  <1>15. ASSUME NEW m \in Msg, NEW h \in Handler, NEW r \in Ends, End(m, h, r) PROVE TypeOK'
    BY <1>15 DEF End, TypeOK, setup
  <1>16. ASSUME NEW m \in Msg, NEW h \in Handler, Collect(m, h) PROVE TypeOK'
    <2>1. <<m, h>> \in Courier /\ 1 \in 1..(MaxSubs + 1)
      BY DEF Courier
    <2>2. HandOver(m, h) \in Stage
      BY DEF HandOver, Stage
    <2>3. stage' \in [Msg -> Stage]
      BY <1>16, <2>2 DEF Collect, TypeOK, Stage
    <2>4. failed' \in [Msg -> BOOLEAN]
      BY <1>16 DEF Collect, TypeOK
    <2> QED
      BY <1>16, <2>1, <2>3, <2>4 DEF Collect, TypeOK, setup
  <1>17. CASE UNCHANGED vars
    BY <1>17 DEF vars, setup, TypeOK
  <1> QED
    BY <1>1, <1>2, <1>3, <1>4, <1>5, <1>6, <1>7, <1>8, <1>9, <1>10, <1>11, <1>12, <1>13, <1>14,
       <1>15, <1>16, <1>17 DEF Next

-----------------------------------------------------------------------------
(* Steps that tell nothing.                                                *)

\* A step of another message, or one that is not told.
Aside(m) ==
  /\ count'[m] = count[m] /\ work'[m] = work[m] /\ failed'[m] = failed[m]
  /\ success'[m] = success[m] /\ log'[m] = log[m]
  /\ \A h \in Handler \cup {None} : place'[<<m, h>>] = place[<<m, h>>]
  /\ observer' = observer /\ subs <= subs' /\ (m = 1 => op' = op)
  /\ \/ stage'[m] = stage[m] /\ metadata'[m] = metadata[m]
     \/ m # 1 /\ Waiting(m) /\ Waiting(m)'
     \/ stage[m] # "unused" /\ stage'[m] = "cancelled" /\ metadata'[m] = metadata[m]

LEMMA LoggedKept ==
  ASSUME NEW m \in Msg, Logged(m),
         log'[m] = log[m], metadata'[m] = metadata[m], observer' = observer,
         subs \in Nat, subs' \in Nat, observer \in Nat, subs <= subs',
         FinishIn(m) =>
           success'[m] = success[m] /\ (FinishTold(m)' \/ stage'[m] = "cancelled"),
         stage'[m] = "finishing" /\ Passed(<<m, None>>)' => FinishIn(m),
         stage'[m] = "done" /\ log[m] # <<>> => FinishIn(m)
  PROVE  Logged(m)'
  <1>1. FinishIn(m)' = FinishIn(m)
    BY DEF FinishIn
  <1>2. \A f \in ToSet(log'[m]) :
          /\ f.dispatch = m /\ f.metadata = metadata'[m]
          /\ f.kind = "DispatchFinished" => f.success = success'[m] /\ f.handler = None
    BY DEF Logged, FinishIn
  <1>3. log'[m] # <<>> => observer' <= subs'
    BY DEF Logged
  <1> QED
    BY <1>1, <1>2, <1>3 DEF Logged

LEMMA ToldKept ==
  ASSUME NEW m \in Msg, Told(m), log'[m] = log[m], observer' = observer,
         count'[m] = count[m] \/ log[m] = <<>>,
         \/ stage'[m] = "cancelled"
         \/ /\ stage[m] # "cancelled"
            /\ FromTheStart =>
                 /\ StartTold(m)' <=> StartTold(m)
                 /\ FinishTold(m)' <=> FinishTold(m)
                 /\ \A h \in Handler : BeginTold(m, h)' <=> BeginTold(m, h)
                 /\ \A h \in Handler : EndTold(m, h)' <=> EndTold(m, h)
  PROVE  Told(m)'
  <1> SUFFICES ASSUME FromTheStart PROVE Bracketed(m)' /\ (stage'[m] # "cancelled" => Tagged(m)')
    BY DEF Told, FromTheStart
  <1>1. Bracketed(m) /\ (stage[m] # "cancelled" => Tagged(m))
    BY DEF Told
  <1>2. Bracketed(m)'
    <2>1. CASE count'[m] = count[m]
      BY <1>1, <2>1 DEF Bracketed
    <2>2. CASE log[m] = <<>>
      BY <2>2 DEF Bracketed, IsInjective
    <2> QED
      BY <2>1, <2>2
  <1>3. ASSUME stage'[m] # "cancelled" PROVE Tagged(m)'
    <2>1. /\ StartTold(m)' <=> StartTold(m)
          /\ FinishTold(m)' <=> FinishTold(m)
          /\ \A h \in Handler : BeginTold(m, h)' <=> BeginTold(m, h)
          /\ \A h \in Handler : EndTold(m, h)' <=> EndTold(m, h)
          /\ Tagged(m)
      BY <1>1, <1>3
    <2>2. Expected(m)' = Expected(m)
      BY <2>1 DEF Expected
    <2> QED
      BY <2>1, <2>2 DEF Tagged
  <1> QED
    BY <1>2, <1>3

LEMMA Bounds ==
  ASSUME TypeOK
  PROVE  /\ subs \in Nat /\ FirstSubs \in Nat /\ FirstSubs <= subs
         /\ observer \in Nat /\ 1 <= observer
         /\ \A c \in Courier : place[c] \in Nat
         /\ \A m \in Msg, h \in Handler \cup {None} : <<m, h>> \in Courier
  BY Numbers, TraceAssumption DEF TypeOK, Sub, Courier

LEMMA AsideKeeps ==
  ASSUME TypeOK, TypeOK', NEW m \in Msg, Placed(m), Logged(m), Told(m), Aside(m)
  PROVE  Placed(m)' /\ Logged(m)' /\ Told(m)'
  <1>1. \A h \in Handler : <<m, h>> \in Courier /\ place'[<<m, h>>] = place[<<m, h>>]
    BY Bounds DEF Aside
  <1>2. place'[<<m, None>>] = place[<<m, None>>]
    BY DEF Aside
  <1>3. IsCommand(m)' = IsCommand(m)
    BY DEF Aside, IsCommand
  <1>4. subs \in Nat /\ subs' \in Nat /\ observer \in Nat
    <2>1. FirstSubs..MaxSubs \subseteq Nat
      BY TraceAssumption
    <2> QED
      BY <2>1, Bounds DEF TypeOK
  <1>5. CASE stage'[m] = stage[m] /\ metadata'[m] = metadata[m]
    <2>1. Placed(m)'
      BY <1>1, <1>2, <1>3, <1>5 DEF Placed, Aside, Waiting
    <2>2. /\ Passed(<<m, None>>)' = Passed(<<m, None>>)
          /\ \A h \in Handler : Passed(<<m, h>>)' = Passed(<<m, h>>)
      BY <1>1, <1>2 DEF Passed, Aside
    <2>3. /\ StartTold(m)' <=> StartTold(m)
          /\ FinishTold(m)' <=> FinishTold(m)
          /\ \A h \in Handler : BeginTold(m, h)' <=> BeginTold(m, h)
          /\ \A h \in Handler : EndTold(m, h)' <=> EndTold(m, h)
      BY <1>5, <2>2 DEF StartTold, FinishTold, BeginTold, EndTold, Aside
    <2>4. Logged(m)'
      <3>1. /\ FinishIn(m) => success'[m] = success[m]
                              /\ (FinishTold(m)' \/ stage'[m] = "cancelled")
            /\ stage'[m] = "finishing" /\ Passed(<<m, None>>)' => FinishIn(m)
            /\ stage'[m] = "done" /\ log[m] # <<>> => FinishIn(m)
        BY <1>5, <2>2, <2>3 DEF Aside, Logged
      <3>2. log'[m] = log[m] /\ observer' = observer /\ subs <= subs'
        BY DEF Aside
      <3> QED
        BY <1>4, <1>5, <3>1, <3>2, LoggedKept
    <2>5. Told(m)'
      <3>1. log'[m] = log[m] /\ observer' = observer /\ count'[m] = count[m]
        BY DEF Aside
      <3>2. CASE stage[m] = "cancelled"
        BY <1>5, <3>1, <3>2, ToldKept
      <3>3. CASE stage[m] # "cancelled"
        BY <2>3, <3>1, <3>3, ToldKept
      <3> QED
        BY <3>2, <3>3
    <2> QED
      BY <2>1, <2>4, <2>5
  <1>6. CASE m # 1 /\ Waiting(m) /\ Waiting(m)'
    <2>1. /\ log[m] = <<>> /\ success[m] /\ ~failed[m]
          /\ \A h \in Handler : work[m][h] = "none" /\ place[<<m, h>>] = 1
          /\ place[<<m, None>>] = 1
      BY <1>6 DEF Placed, Waiting
    <2>2. ~IsCommand(m)
      BY <1>6 DEF IsCommand
    <2>3. Placed(m)'
      BY <1>1, <1>2, <1>3, <1>6, <2>1, <2>2 DEF Placed, Aside, Waiting
    <2>4. log'[m] = <<>> /\ ToSet(log'[m]) = {} /\ ToSet(log[m]) = {}
      BY <2>1 DEF Aside, ToSet
    <2>5. Logged(m)'
      BY <1>6, <2>4 DEF Logged, FinishIn, Waiting
    <2>6. Told(m)'
      <3>1. /\ StartTold(m)' <=> StartTold(m)
            /\ FinishTold(m)' <=> FinishTold(m)
            /\ \A h \in Handler : BeginTold(m, h)' <=> BeginTold(m, h)
            /\ \A h \in Handler : EndTold(m, h)' <=> EndTold(m, h)
        BY <1>6, <2>1 DEF StartTold, FinishTold, BeginTold, EndTold, Aside, Waiting
      <3>2. stage[m] # "cancelled" /\ log'[m] = log[m] /\ observer' = observer
        BY <1>6 DEF Waiting, Aside
      <3> QED
        BY <2>1, <3>1, <3>2, ToldKept
    <2> QED
      BY <2>3, <2>5, <2>6
  <1>7. CASE stage[m] # "unused" /\ stage'[m] = "cancelled" /\ metadata'[m] = metadata[m]
    <2>1. Placed(m)'
      BY <1>1, <1>2, <1>3, <1>7 DEF Placed, Aside, Waiting
    <2>2. Logged(m)'
      <3>1. log'[m] = log[m] /\ observer' = observer /\ subs <= subs' /\ success'[m] = success[m]
        BY DEF Aside
      <3> QED
        BY <1>4, <1>7, <3>1, LoggedKept
    <2>3. Told(m)'
      <3>1. log'[m] = log[m] /\ observer' = observer /\ count'[m] = count[m]
        BY DEF Aside
      <3> QED
        BY <1>7, <3>1, ToldKept
    <2> QED
      BY <2>1, <2>2, <2>3
  <1> QED
    BY <1>5, <1>6, <1>7 DEF Aside

LEMMA Silent ==
  ASSUME TypeOK, NEW m \in Msg, Logged(m), Told(m), stage[m] # "cancelled",
         log' = log, metadata' = metadata, observer' = observer, subs' = subs,
         count'[m] = count[m] \/ log[m] = <<>>,
         FromTheStart =>
           /\ StartTold(m)' <=> StartTold(m)
           /\ FinishTold(m)' <=> FinishTold(m)
           /\ \A h \in Handler : BeginTold(m, h)' <=> BeginTold(m, h)
           /\ \A h \in Handler : EndTold(m, h)' <=> EndTold(m, h),
         FinishIn(m) => success'[m] = success[m] /\ FinishTold(m)',
         stage'[m] = "finishing" /\ Passed(<<m, None>>)' => FinishIn(m),
         stage'[m] = "done" /\ log[m] # <<>> => FinishIn(m)
  PROVE  Logged(m)' /\ Told(m)'
  <1>1. subs \in Nat /\ observer \in Nat /\ subs <= subs'
    BY Bounds
  <1>2. Logged(m)'
    BY <1>1, LoggedKept
  <1>3. Told(m)'
    BY ToldKept
  <1> QED
    BY <1>2, <1>3

LEMMA CallKeeps ==
  ASSUME TypeOK, Emitted, Placed(1), Logged(1), Told(1), NEW o \in {"send", "publish"}, Call(o)
  PROVE  Placed(1)' /\ Logged(1)' /\ Told(1)'
  <1> USE Numbers
  <1>1. stage[1] = "unused" /\ log[1] = <<>> /\ ~FinishIn(1)
    BY DEF Call, Emitted, Placed, Waiting, FinishIn, ToSet
  <1>2. /\ success[1] /\ ~failed[1] /\ place[<<1, None>>] = 1
        /\ \A h \in Handler : work[1][h] = "none" /\ place[<<1, h>>] = 1
    BY <1>1 DEF Placed, Waiting
  <1>3. /\ stage'[1] = (IF o = "send" THEN "starting" ELSE "queued")
        /\ count'[1] = (IF o = "send" THEN 1 ELSE 0)
        /\ work' = work /\ failed' = failed /\ success' = success /\ log' = log
        /\ place' = place /\ op' = o /\ metadata' = metadata /\ observer' = observer /\ subs' = subs
    BY DEF Call, TypeOK
  <1>4. Placed(1)'
    BY <1>1, <1>2, <1>3 DEF Placed, Waiting, IsCommand
  <1>5. ~Passed(<<1, None>>)'
    BY <1>2, <1>3, Bounds DEF Passed
  <1>6. /\ ~StartTold(1) /\ ~StartTold(1)' /\ ~FinishTold(1) /\ ~FinishTold(1)'
        /\ \A h \in Handler : ~BeginTold(1, h) /\ ~BeginTold(1, h)' /\ ~EndTold(1, h) /\ ~EndTold(1, h)'
    BY <1>1, <1>2, <1>3, <1>5 DEF StartTold, FinishTold, BeginTold, EndTold
  <1>7. Logged(1)' /\ Told(1)'
    BY <1>1, <1>3, <1>6, Silent
  <1> QED
    BY <1>4, <1>7

LEMMA StartKeeps ==
  ASSUME TypeOK, NEW m \in Msg, Placed(m), Logged(m), Told(m), Start(m)
  PROVE  Placed(m)' /\ Logged(m)' /\ Told(m)'
  <1>1. stage[m] = "queued" /\ log[m] = <<>> /\ ~FinishIn(m)
    BY DEF Start, Placed, Waiting, FinishIn, ToSet
  <1>2. /\ success[m] /\ ~failed[m] /\ place[<<m, None>>] = 1 /\ ~IsCommand(m)
        /\ \A h \in Handler : work[m][h] = "none" /\ place[<<m, h>>] = 1
    BY <1>1 DEF Placed, Waiting
  <1>3. /\ stage'[m] = "starting"
        /\ work' = work /\ failed' = failed /\ success' = success /\ log' = log
        /\ place' = place /\ op' = op /\ metadata' = metadata /\ observer' = observer /\ subs' = subs
    BY DEF Start, TypeOK, setup
  <1>4. Placed(m)'
    BY <1>1, <1>2, <1>3 DEF Placed, Waiting, IsCommand
  <1>5. ~Passed(<<m, None>>)'
    BY <1>2, <1>3, Bounds DEF Passed
  <1>6. /\ ~StartTold(m) /\ ~StartTold(m)' /\ ~FinishTold(m) /\ ~FinishTold(m)'
        /\ \A h \in Handler : ~BeginTold(m, h) /\ ~BeginTold(m, h)' /\ ~EndTold(m, h) /\ ~EndTold(m, h)'
    BY <1>1, <1>2, <1>3, <1>5 DEF StartTold, FinishTold, BeginTold, EndTold
  <1>7. Logged(m)' /\ Told(m)'
    BY <1>1, <1>3, <1>6, Silent
  <1> QED
    BY <1>4, <1>7

\* A delivery that has come to its end has reached the observer, if that is there.
LEMMA Reached ==
  ASSUME TypeOK, NEW c \in Courier, Delivered(c)
  PROVE  observer <= subs => Passed(c)
  BY Bounds DEF Delivered, Passed

LEMMA FromTheStartThere ==
  ASSUME TypeOK, FromTheStart
  PROVE  observer <= subs
  BY Bounds DEF FromTheStart

LEMMA EnterKeeps ==
  ASSUME TypeOK, NEW m \in Msg, Placed(m), Logged(m), Told(m), Enter(m)
  PROVE  Placed(m)' /\ Logged(m)' /\ Told(m)'
  <1> DEFINE c == <<m, None>>
  <1>1. stage[m] = "starting" /\ Delivered(c) /\ c \in Courier
    BY Bounds DEF Enter
  <1>2. /\ success[m] /\ ~failed[m] /\ (IsCommand(m) => count[m] = 1)
        /\ \A h \in Handler : work[m][h] = "none" /\ place[<<m, h>>] = 1
    BY <1>1 DEF Placed
  <1>3. /\ stage'[m] = "handling" /\ place'[c] = 1
        /\ \A h \in Handler : work'[m][h] = IF h <= count[m] THEN "starting" ELSE "none"
        /\ \A h \in Handler : place'[<<m, h>>] = place[<<m, h>>]
        /\ failed' = failed /\ success' = success /\ log' = log /\ count' = count
        /\ op' = op /\ metadata' = metadata /\ observer' = observer /\ subs' = subs
    <2>1. \A h \in Handler : <<m, h>> \in Courier /\ <<m, h>> # c
      BY Bounds, Numbers
    <2>2. \A h \in Handler : h \in 1..count[m] <=> h <= count[m]
      BY Numbers, TraceAssumption DEF TypeOK
    <2> QED
      BY <1>1, <2>1, <2>2 DEF Enter, TypeOK, setup, Invoked
  <1>4. Placed(m)'
    <2>1. \A h \in Handler : work'[m][h] = "none" <=> h > count[m]
      BY <1>3, Numbers, TraceAssumption DEF TypeOK
    <2>2. \A h \in Handler : place'[<<m, h>>] = 1
      BY <1>2, <1>3
    <2> QED
      BY <1>1, <1>2, <1>3, <2>1, <2>2 DEF Placed, Waiting, IsCommand
  <1>5. FromTheStart => StartTold(m)
    BY <1>1, Reached, FromTheStartThere DEF StartTold
  <1>6. StartTold(m)' /\ ~FinishTold(m) /\ ~FinishTold(m)'
    BY <1>1, <1>3 DEF StartTold, FinishTold
  <1>7. \A h \in Handler : ~BeginTold(m, h) /\ ~BeginTold(m, h)' /\ ~EndTold(m, h) /\ ~EndTold(m, h)'
    BY <1>2, <1>3, Bounds DEF BeginTold, EndTold, Passed
  <1>8. ~FinishIn(m)
    BY <1>1, <1>6 DEF Logged
  <1>9. Logged(m)' /\ Told(m)'
    BY <1>1, <1>3, <1>5, <1>6, <1>7, <1>8, Silent
  <1> QED
    BY <1>4, <1>9

LEMMA DeflectKeeps ==
  ASSUME TypeOK, NEW m \in Msg, Placed(m), Logged(m), Told(m), NEW b \in Before, Deflect(m, b)
  PROVE  Placed(m)' /\ Logged(m)' /\ Told(m)'
  <1> DEFINE c == <<m, None>>
  <1>1. stage[m] = "starting" /\ Delivered(c) /\ c \in Courier
    BY Bounds DEF Deflect
  <1>2. /\ success[m] /\ ~failed[m] /\ (IsCommand(m) => count[m] = 1)
        /\ \A h \in Handler : work[m][h] = "none" /\ place[<<m, h>>] = 1
    BY <1>1 DEF Placed
  <1>3. /\ stage'[m] = "finishing" /\ place'[c] = 1
        /\ \A h \in Handler : place'[<<m, h>>] = place[<<m, h>>]
        /\ work' = work /\ failed' = failed /\ log' = log /\ count' = count
        /\ op' = op /\ metadata' = metadata /\ observer' = observer /\ subs' = subs
    <2>1. \A h \in Handler : <<m, h>> \in Courier /\ <<m, h>> # c
      BY Bounds, Numbers
    <2> QED
      BY <1>1, <2>1 DEF Deflect, Notify, TypeOK, setup
  <1>4. Placed(m)'
    BY <1>1, <1>2, <1>3 DEF Placed, Waiting, IsCommand
  <1>5. FromTheStart => StartTold(m)
    BY <1>1, Reached, FromTheStartThere DEF StartTold
  <1>6. ~Passed(c)'
    BY <1>3, Bounds DEF Passed
  <1>7. StartTold(m)' /\ ~FinishTold(m) /\ ~FinishTold(m)'
    BY <1>1, <1>3, <1>6 DEF StartTold, FinishTold
  <1>8. \A h \in Handler : ~BeginTold(m, h) /\ ~BeginTold(m, h)' /\ ~EndTold(m, h) /\ ~EndTold(m, h)'
    BY <1>2, <1>3 DEF BeginTold, EndTold
  <1>9. ~FinishIn(m)
    BY <1>1, <1>7 DEF Logged
  <1>10. Logged(m)' /\ Told(m)'
    BY <1>1, <1>3, <1>5, <1>6, <1>7, <1>8, <1>9, Silent
  <1> QED
    BY <1>4, <1>10

LEMMA CompleteKeeps ==
  ASSUME TypeOK, NEW m \in Msg, Placed(m), Logged(m), Told(m), NEW a \in After, Complete(m, a)
  PROVE  Placed(m)' /\ Logged(m)' /\ Told(m)'
  <1>1. stage[m] \in {"handling", "following"} /\ place[<<m, None>>] = 1
    BY DEF Complete, Handled, Placed
  <1>2. \A h \in Handler : work[m][h] = IF h <= count[m] THEN "over" ELSE "none"
    <2>1. \A h \in Handler : work[m][h] = "none" <=> h > count[m]
      BY <1>1 DEF Placed
    <2>2. \A h \in Handler : h <= count[m] <=> ~(h > count[m])
      BY Numbers, TraceAssumption DEF TypeOK
    <2>3. CASE IsCommand(m)
      <3>1. count[m] = 1
        BY <1>1, <2>3 DEF Placed
      <3>2. CASE failed[m]
        <4>1. PICK h \in Handler : work[m][h] = "over"
          BY <3>2 DEF Placed
        <4>2. h = 1
          BY <2>1, <3>1, <4>1, Numbers
        <4>3. \A k \in Handler : k <= count[m] <=> k = 1
          BY <3>1, Numbers
        <4> QED
          BY <2>1, <2>2, <4>1, <4>2, <4>3
      <3>3. CASE stage[m] = "following"
        <4>1. 1 \in Handler /\ 1 <= count[m] /\ ~(1 > count[m])
          BY <3>1, Numbers
        <4> QED
          BY <2>1, <2>2, <3>3, <4>1 DEF Placed
      <3> QED
        BY <2>3, <3>2, <3>3 DEF Complete, Handled
    <2>4. CASE ~IsCommand(m)
      <3>1. \A h \in Handler : work[m][h] \in {"none", "over"}
        BY <2>4 DEF Complete, Handled
      <3> QED
        BY <2>1, <2>2, <3>1
    <2> QED
      BY <2>3, <2>4
  <1>3. /\ stage'[m] = "finishing"
        /\ place' = place /\ work' = work /\ failed' = failed /\ log' = log /\ count' = count
        /\ op' = op /\ metadata' = metadata /\ observer' = observer /\ subs' = subs
    BY DEF Complete, TypeOK, setup
  <1>4. Placed(m)'
    BY <1>1, <1>2, <1>3 DEF Placed, Waiting, IsCommand
  <1>5. ~Passed(<<m, None>>)'
    BY <1>1, <1>3, Bounds DEF Passed
  <1>6. StartTold(m) /\ StartTold(m)' /\ ~FinishTold(m) /\ ~FinishTold(m)'
    BY <1>1, <1>3, <1>5 DEF StartTold, FinishTold
  <1>7. \A h \in Handler : (BeginTold(m, h)' <=> BeginTold(m, h)) /\ (EndTold(m, h)' <=> EndTold(m, h))
    BY <1>2, <1>3 DEF BeginTold, EndTold
  <1>8. ~FinishIn(m)
    BY <1>1, <1>6 DEF Logged
  <1>9. Logged(m)' /\ Told(m)'
    BY <1>1, <1>3, <1>5, <1>6, <1>7, <1>8, Silent
  <1> QED
    BY <1>4, <1>9

LEMMA FinishKeeps ==
  ASSUME TypeOK, NEW m \in Msg, Placed(m), Logged(m), Told(m), Finish(m)
  PROVE  Placed(m)' /\ Logged(m)' /\ Told(m)'
  <1> DEFINE c == <<m, None>>
  <1>1. stage[m] = "finishing" /\ Delivered(c) /\ c \in Courier
    BY Bounds DEF Finish
  <1>2. /\ stage'[m] = "done" /\ place'[c] = 1
        /\ \A h \in Handler : place'[<<m, h>>] = place[<<m, h>>]
        /\ work' = work /\ failed' = failed /\ success' = success /\ log' = log /\ count' = count
        /\ op' = op /\ metadata' = metadata /\ observer' = observer /\ subs' = subs
    <2>1. \A h \in Handler : <<m, h>> \in Courier /\ <<m, h>> # c
      BY Bounds, Numbers
    <2> QED
      BY <1>1, <2>1 DEF Finish, TypeOK, setup
  <1>3. Placed(m)'
    BY <1>1, <1>2 DEF Placed, Waiting, IsCommand
  <1>4. FromTheStart => FinishTold(m)
    BY <1>1, Reached, FromTheStartThere DEF FinishTold
  <1>5. StartTold(m) /\ StartTold(m)' /\ FinishTold(m)'
    BY <1>1, <1>2 DEF StartTold, FinishTold
  <1>6. \A h \in Handler : work[m][h] \in {"none", "over"}
    BY <1>1 DEF Placed
  <1>7. \A h \in Handler : (BeginTold(m, h)' <=> BeginTold(m, h)) /\ (EndTold(m, h)' <=> EndTold(m, h))
    BY <1>2, <1>6 DEF BeginTold, EndTold
  <1>8. log[m] # <<>> => FinishIn(m)
    BY <1>1, Reached DEF Logged
  <1>9. Logged(m)' /\ Told(m)'
    BY <1>1, <1>2, <1>4, <1>5, <1>7, <1>8, Silent
  <1> QED
    BY <1>3, <1>9

\* Steps of an invocation: where its courier is told of, others are not concerned.
LEMMA RunKeeps ==
  ASSUME TypeOK, NEW m \in Msg, Placed(m), Logged(m), Told(m), NEW g \in Handler, Run(m, g)
  PROVE  Placed(m)' /\ Logged(m)' /\ Told(m)'
  <1> DEFINE c == <<m, g>>
  <1>1. work[m][g] = "starting" /\ Delivered(c) /\ c \in Courier /\ stage[m] = "handling"
    BY Bounds, Numbers DEF Run, Delivered, Delivering
  <1>2. /\ work'[m][g] = "running" /\ place'[c] = 1 /\ place'[<<m, None>>] = place[<<m, None>>]
        /\ \A h \in Handler \ {g} : place'[<<m, h>>] = place[<<m, h>>] /\ work'[m][h] = work[m][h]
        /\ stage' = stage /\ failed' = failed /\ success' = success /\ log' = log /\ count' = count
        /\ op' = op /\ metadata' = metadata /\ observer' = observer /\ subs' = subs
    <2>1. \A h \in (Handler \cup {None}) \ {g} : <<m, h>> \in Courier /\ <<m, h>> # c
      BY Bounds
    <2>2. None # g
      BY Numbers
    <2> QED
      BY <1>1, <2>1, <2>2 DEF Run, TypeOK, setup
  <1>3. Placed(m)'
    BY <1>1, <1>2 DEF Placed, Waiting, IsCommand
  <1>4. FromTheStart => BeginTold(m, g)
    BY <1>1, Reached, FromTheStartThere DEF BeginTold
  <1>5. BeginTold(m, g)' /\ ~EndTold(m, g) /\ ~EndTold(m, g)'
    BY <1>1, <1>2 DEF BeginTold, EndTold
  <1>6. \A h \in Handler \ {g} :
          (BeginTold(m, h)' <=> BeginTold(m, h)) /\ (EndTold(m, h)' <=> EndTold(m, h))
    BY <1>2 DEF BeginTold, EndTold, Passed
  <1>7. StartTold(m) /\ StartTold(m)' /\ ~FinishTold(m) /\ ~FinishTold(m)'
    BY <1>1, <1>2 DEF StartTold, FinishTold
  <1>8. ~FinishIn(m)
    BY <1>1, <1>7 DEF Logged
  <1>9. Logged(m)' /\ Told(m)'
    BY <1>1, <1>2, <1>4, <1>5, <1>6, <1>7, <1>8, Silent
  <1> QED
    BY <1>3, <1>9

LEMMA EndKeeps ==
  ASSUME TypeOK, NEW m \in Msg, Placed(m), Logged(m), Told(m), NEW g \in Handler,
         NEW r \in Ends, End(m, g, r)
  PROVE  Placed(m)' /\ Logged(m)' /\ Told(m)'
  <1>1. stage[m] = "handling" /\ work[m][g] = "running" /\ place[<<m, g>>] = 1
    BY DEF End, Placed
  <1>2. r \in {"ok", "swallowed", "raised"}
    BY TraceAssumption
  <1>3. /\ work'[m][g] = r
        /\ \A h \in Handler \ {g} : work'[m][h] = work[m][h]
        /\ place' = place /\ stage' = stage /\ failed' = failed /\ success' = success
        /\ log' = log /\ count' = count
        /\ op' = op /\ metadata' = metadata /\ observer' = observer /\ subs' = subs
    BY DEF End, TypeOK, setup
  <1>4. Placed(m)'
    BY <1>1, <1>2, <1>3 DEF Placed, Waiting, IsCommand
  <1>5. ~Passed(<<m, g>>)'
    BY <1>1, <1>3, Bounds DEF Passed
  <1>6. BeginTold(m, g) /\ BeginTold(m, g)' /\ ~EndTold(m, g) /\ ~EndTold(m, g)'
    BY <1>1, <1>2, <1>3, <1>5 DEF BeginTold, EndTold
  <1>7. \A h \in Handler \ {g} :
          (BeginTold(m, h)' <=> BeginTold(m, h)) /\ (EndTold(m, h)' <=> EndTold(m, h))
    BY <1>3 DEF BeginTold, EndTold, Passed
  <1>8. StartTold(m) /\ StartTold(m)' /\ ~FinishTold(m) /\ ~FinishTold(m)'
    BY <1>1, <1>3 DEF StartTold, FinishTold
  <1>9. ~FinishIn(m)
    BY <1>1, <1>8 DEF Logged
  <1>10. Logged(m)' /\ Told(m)'
    BY <1>1, <1>3, <1>6, <1>7, <1>8, <1>9, Silent
  <1> QED
    BY <1>4, <1>10

LEMMA CollectKeeps ==
  ASSUME TypeOK, Emitted, NEW m \in Msg, Placed(m), Logged(m), Told(m), NEW g \in Handler,
         Collect(m, g)
  PROVE  Placed(m)' /\ Logged(m)' /\ Told(m)'
  <1> DEFINE c == <<m, g>>
  <1>1. /\ work[m][g] \in {"ok", "swallowed", "raised"}
        /\ Delivered(c) /\ c \in Courier /\ stage[m] = "handling"
    BY Bounds, Numbers DEF Collect, Delivered, Delivering
  <1>2. m \notin EmittedBy(m, g)
    <2>1. CASE m = 1
      BY <2>1, Numbers DEF Emitted, EmittedBy
    <2>2. CASE m # 1
      BY <1>1, <2>2 DEF Emitted, EmittedBy
    <2> QED
      BY <2>1, <2>2
  <1>3. /\ work'[m][g] = "over" /\ place'[c] = 1 /\ place'[<<m, None>>] = place[<<m, None>>]
        /\ \A h \in Handler \ {g} : place'[<<m, h>>] = place[<<m, h>>] /\ work'[m][h] = work[m][h]
        /\ success' = success /\ log' = log /\ count' = count
        /\ op' = op /\ metadata' = metadata /\ observer' = observer /\ subs' = subs
    <2>1. \A h \in (Handler \cup {None}) \ {g} : <<m, h>> \in Courier /\ <<m, h>> # c
      BY Bounds
    <2>2. None # g
      BY Numbers
    <2> QED
      BY <1>1, <2>1, <2>2 DEF Collect, TypeOK, setup
  <1>4. stage'[m] = (IF IsCommand(m) /\ work[m][g] # "raised" THEN "following" ELSE "handling")
    BY <1>1, <1>2 DEF Collect, TypeOK
  <1>5. Placed(m)'
    <2>1. \A h \in Handler : work'[m][h] = "none" <=> h > count[m]
      BY <1>1, <1>3 DEF Placed
    <2>2. \A h \in Handler : work'[m][h] \in {"none", "running", "over"} => place'[<<m, h>>] = 1
      BY <1>1, <1>3 DEF Placed
    <2>3. ASSUME IsCommand(m), NEW h \in Handler
          PROVE  work'[m][h] = IF h <= count[m] THEN "over" ELSE "none"
      <3>1. count[m] = 1 /\ work[m][g] # "none"
        BY <1>1, <2>3 DEF Placed
      <3>2. g = 1
        BY <1>1, <3>1, Numbers DEF Placed
      <3>3. CASE h = 1
        BY <1>3, <3>1, <3>2, <3>3
      <3>4. CASE h # 1
        <4>1. h > count[m] /\ ~(h <= count[m])
          BY <3>1, <3>4, Numbers
        <4> QED
          BY <2>1, <4>1
      <3> QED
        BY <3>3, <3>4
    <2>4. IsCommand(m)' = IsCommand(m)
      BY <1>3 DEF IsCommand
    <2>5. /\ stage'[m] = "following" => IsCommand(m)
          /\ stage'[m] \in {"handling", "following"}
          /\ place'[<<m, None>>] = 1 /\ success'[m] /\ (IsCommand(m) => count'[m] = 1)
      BY <1>1, <1>3, <1>4 DEF Placed
    <2> QED
      BY <1>1, <1>3, <2>1, <2>2, <2>3, <2>4, <2>5 DEF Placed, Waiting
  <1>6. FromTheStart => EndTold(m, g)
    BY <1>1, Reached, FromTheStartThere DEF EndTold
  <1>7. BeginTold(m, g) /\ BeginTold(m, g)' /\ EndTold(m, g)'
    BY <1>1, <1>3 DEF BeginTold, EndTold
  <1>8. \A h \in Handler \ {g} :
          (BeginTold(m, h)' <=> BeginTold(m, h)) /\ (EndTold(m, h)' <=> EndTold(m, h))
    BY <1>3 DEF BeginTold, EndTold, Passed
  <1>9. StartTold(m) /\ StartTold(m)' /\ ~FinishTold(m) /\ ~FinishTold(m)'
    BY <1>1, <1>4 DEF StartTold, FinishTold
  <1>10. ~FinishIn(m)
    BY <1>1, <1>9 DEF Logged
  <1>11. Logged(m)' /\ Told(m)'
    BY <1>1, <1>3, <1>4, <1>6, <1>7, <1>8, <1>9, <1>10, Silent
  <1> QED
    BY <1>5, <1>11

-----------------------------------------------------------------------------
(* Deliveries.                                                             *)

\* What a delivery changes: the courier's place, and the log if it is the
\* observer's turn.
LEMMA DeliverIs ==
  ASSUME TypeOK, NEW c \in Courier, NEW raises \in BOOLEAN, Deliver(c, raises)
  PROVE  /\ place'[c] = place[c] + 1
         /\ \A d \in Courier \ {c} : place'[d] = place[d]
         /\ stage' = stage /\ count' = count /\ work' = work /\ failed' = failed
         /\ success' = success /\ metadata' = metadata /\ by' = by /\ call' = call /\ op' = op
         /\ observer' = observer /\ subs' = subs /\ mode' = mode
         /\ place[c] # observer => log' = log
         /\ place[c] = observer =>
              /\ observer <= subs
              /\ log'[c[1]] = Append(log[c[1]], FactOf(c))
              /\ \A m \in Msg \ {c[1]} : log'[m] = log[m]
         /\ Passed(c)' <=> Passed(c) \/ place[c] = observer
         /\ place[c] = observer => ~Passed(c)
  <1>1. place[c] \in Nat /\ observer \in Nat
    BY Bounds
  <1>2. place'[c] = place[c] + 1 /\ observer' = observer
    BY DEF Deliver, Onward, TypeOK, setup
  <1>3. (Passed(c)' <=> Passed(c) \/ place[c] = observer) /\ (place[c] = observer => ~Passed(c))
    BY <1>1, <1>2 DEF Passed
  <1>4. c[1] \in Msg
    BY DEF Courier
  <1>5. /\ \A d \in Courier \ {c} : place'[d] = place[d]
        /\ stage' = stage /\ count' = count /\ work' = work /\ failed' = failed
        /\ success' = success /\ metadata' = metadata /\ by' = by /\ call' = call /\ op' = op
        /\ subs' = subs /\ mode' = mode
    BY DEF Deliver, TypeOK, setup
  <1>6. /\ place[c] # observer => log' = log
        /\ place[c] = observer =>
              /\ observer <= subs
              /\ log'[c[1]] = Append(log[c[1]], FactOf(c))
              /\ \A m \in Msg \ {c[1]} : log'[m] = log[m]
    BY <1>4 DEF Deliver, TypeOK
  <1> QED
    BY <1>2, <1>3, <1>5, <1>6

LEMMA DeliverPlaced ==
  ASSUME TypeOK, NEW c \in Courier, NEW raises \in BOOLEAN, Deliver(c, raises), Placed(c[1])
  PROVE  Placed(c[1])'
  <1> DEFINE m == c[1]
  <1>1. Delivering(c) /\ c = <<m, c[2]>> /\ m \in Msg
    BY FactIs DEF Deliver
  <1>2. \/ c[2] = None /\ stage[m] \in {"starting", "finishing"}
        \/ /\ c[2] \in Handler /\ stage[m] = "handling"
           /\ work[m][c[2]] \in {"starting", "ok", "swallowed", "raised"}
    BY <1>1, FactIs
  <1>3. /\ stage' = stage /\ count' = count /\ work' = work /\ failed' = failed
        /\ success' = success /\ op' = op
        /\ \A h \in Handler \cup {None} : h # c[2] => place'[<<m, h>>] = place[<<m, h>>]
    <2>1. \A h \in Handler \cup {None} : h # c[2] => <<m, h>> \in Courier \ {c}
      BY <1>1, Bounds
    <2> QED
      BY <2>1, DeliverIs
  <1>4. Waiting(m) => log'[m] = log[m]
    BY <1>2 DEF Waiting
  <1>5. stage[m] \notin {"starting", "finishing", "cancelled"} => place'[<<m, None>>] = place[<<m, None>>]
    BY <1>2, <1>3, Numbers
  <1>6. \A h \in Handler : work[m][h] \in {"none", "running", "over"} => place'[<<m, h>>] = place[<<m, h>>]
    BY <1>2, <1>3, Numbers
  <1>7. Placed(m)
    OBVIOUS
  <1> HIDE DEF m
  <1>8. Placed(m)'
    <2>1. /\ stage'[m] = stage[m] /\ count'[m] = count[m] /\ work'[m] = work[m]
          /\ failed'[m] = failed[m] /\ success'[m] = success[m] /\ IsCommand(m)' = IsCommand(m)
      BY <1>3 DEF IsCommand
    <2>2. stage'[m] \notin {"starting", "finishing", "cancelled"} => place'[<<m, None>>] = 1
      BY <1>5, <1>7, <2>1 DEF Placed
    <2>3. stage'[m] # "cancelled" =>
            \A h \in Handler : work'[m][h] \in {"none", "running", "over"} => place'[<<m, h>>] = 1
      BY <1>6, <1>7, <2>1 DEF Placed
    <2>4. Waiting(m)' = Waiting(m)
      BY <2>1 DEF Waiting
    <2> QED
      BY <1>4, <1>7, <2>1, <2>2, <2>3, <2>4 DEF Placed
  <1> QED
    BY <1>8 DEF m

\* What an observer has to be told, by its tags.
LEMMA ExpectedHas ==
  ASSUME NEW m
  PROVE  /\ <<"DispatchStarted", None>> \in Expected(m) <=> StartTold(m)
         /\ <<"DispatchFinished", None>> \in Expected(m) <=> FinishTold(m)
         /\ \A h \in Handler : <<"HandlerStarted", h>> \in Expected(m) <=> BeginTold(m, h)
         /\ \A h \in Handler : <<"Ended", h>> \in Expected(m) <=> EndTold(m, h)
  BY DEF Expected

LEMMA TagIs ==
  ASSUME TypeOK, NEW c \in Courier, Delivering(c)
  PROVE  Tag(FactOf(c)) =
           <<IF Kind(c) \in {"HandlerFinished", "HandlerFailed"} THEN "Ended" ELSE Kind(c), c[2]>>
  BY FactIs DEF Tag, Ended

\* When it is the observer's turn, what it has to be told grows by the fact.
LEMMA ExpectedGrows ==
  ASSUME TypeOK, NEW c \in Courier, NEW raises \in BOOLEAN, Deliver(c, raises),
         place[c] = observer
  PROVE  /\ Expected(c[1])' = Expected(c[1]) \cup {Tag(FactOf(c))}
         /\ Tag(FactOf(c)) \notin Expected(c[1])
  <1> DEFINE m == c[1]
             f == FactOf(c)
  <1>1. Delivering(c) /\ c = <<m, c[2]>> /\ m \in Msg
    BY FactIs DEF Deliver
  <1>2. /\ stage' = stage /\ work' = work /\ Passed(c)' /\ ~Passed(c)
        /\ \A h \in Handler \cup {None} :
             h # c[2] => (Passed(<<m, h>>)' <=> Passed(<<m, h>>))
    <2>1. \A h \in Handler \cup {None} : h # c[2] => <<m, h>> \in Courier \ {c}
      BY <1>1, Bounds
    <2> QED
      BY <2>1, DeliverIs DEF Passed
  <1>3. Tag(f) = <<IF Kind(c) \in {"HandlerFinished", "HandlerFailed"} THEN "Ended" ELSE Kind(c),
                   c[2]>>
    BY <1>1, TagIs
  <1>4. CASE c[2] = None
    <2>1. \A h \in Handler : Passed(<<m, h>>)' <=> Passed(<<m, h>>)
      BY <1>2, <1>4, Numbers
    <2>2. \A h \in Handler : (BeginTold(m, h)' <=> BeginTold(m, h)) /\ (EndTold(m, h)' <=> EndTold(m, h))
      BY <1>2, <2>1 DEF BeginTold, EndTold
    <2>3. c = <<m, None>>
      BY <1>1, <1>4
    <2>4. CASE stage[m] = "starting" /\ Kind(c) = "DispatchStarted"
      <3>1. ~StartTold(m) /\ StartTold(m)' /\ ~FinishTold(m) /\ ~FinishTold(m)'
        BY <1>2, <2>3, <2>4 DEF StartTold, FinishTold
      <3>2. Tag(f) = <<"DispatchStarted", None>>
        BY <1>3, <1>4, <2>4
      <3> HIDE DEF m, f
      <3> QED
        BY <2>2, <3>1, <3>2 DEF Expected, m, f
    <2>5. CASE stage[m] = "finishing" /\ Kind(c) = "DispatchFinished"
      <3>1. StartTold(m) /\ StartTold(m)' /\ ~FinishTold(m) /\ FinishTold(m)'
        BY <1>2, <2>3, <2>5 DEF StartTold, FinishTold
      <3>2. Tag(f) = <<"DispatchFinished", None>>
        BY <1>3, <1>4, <2>5
      <3> HIDE DEF m, f
      <3> QED
        BY <2>2, <3>1, <3>2 DEF Expected, m, f
    <2> QED
      BY <1>1, <1>4, <2>4, <2>5, FactIs
  <1>5. CASE c[2] # None
    <2> DEFINE g == c[2]
    <2>1. g \in Handler /\ stage[m] = "handling" /\ c = <<m, g>>
      BY <1>1, <1>5, FactIs
    <2>2. \A h \in Handler \ {g} :
            (BeginTold(m, h)' <=> BeginTold(m, h)) /\ (EndTold(m, h)' <=> EndTold(m, h))
      BY <1>2, <2>1 DEF BeginTold, EndTold
    <2>3. StartTold(m) /\ StartTold(m)' /\ ~FinishTold(m) /\ ~FinishTold(m)'
      BY <1>2, <2>1 DEF StartTold, FinishTold
    <2>4. CASE work[m][g] = "starting" /\ Kind(c) = "HandlerStarted"
      <3>1. ~BeginTold(m, g) /\ BeginTold(m, g)' /\ ~EndTold(m, g) /\ ~EndTold(m, g)'
        BY <1>2, <2>1, <2>4 DEF BeginTold, EndTold
      <3>2. Tag(f) = <<"HandlerStarted", g>>
        BY <1>3, <2>4
      <3> HIDE DEF m, f, g
      <3> QED
        BY <2>1, <2>2, <2>3, <3>1, <3>2 DEF Expected, m, f
    <2>5. CASE /\ work[m][g] \in {"ok", "swallowed", "raised"}
               /\ Kind(c) \in {"HandlerFinished", "HandlerFailed"}
      <3>1. BeginTold(m, g) /\ BeginTold(m, g)' /\ ~EndTold(m, g) /\ EndTold(m, g)'
        BY <1>2, <2>1, <2>5 DEF BeginTold, EndTold
      <3>2. Tag(f) = <<"Ended", g>>
        BY <1>3, <2>5
      <3> HIDE DEF m, f, g
      <3> QED
        BY <2>1, <2>2, <2>3, <3>1, <3>2 DEF Expected, m, f
    <2> QED
      BY <1>1, <1>5, <2>4, <2>5, FactIs
  <1> QED
    BY <1>4, <1>5

\* As many facts as tags.
LEMMA FactsCounted ==
  ASSUME NEW m, log[m] \in Seq(Fact), Tagged(m)
  PROVE  Len(log[m]) = Cardinality(Expected(m))
  <1> DEFINE n == Len(log[m])
             tagAt == [i \in 1..n |-> Tag(log[m][i])]
  <1>1. n \in Nat /\ DOMAIN log[m] = 1..n
    OBVIOUS
  <1>2. tagAt \in [1..n -> Expected(m)]
    BY <1>1 DEF Tagged
  <1>3. \A i, j \in 1..n : tagAt[i] = tagAt[j] => i = j
    BY <1>1 DEF Tagged
  <1>4. \A t \in Expected(m) : \E i \in 1..n : tagAt[i] = t
    BY <1>1 DEF Tagged
  <1>5. tagAt \in Bijection(1..n, Expected(m))
    BY <1>2, <1>3, <1>4 DEF Bijection, Injection, Surjection, IsInjective
  <1>6. ExistsBijection(1..n, Expected(m))
    BY <1>5 DEF ExistsBijection
  <1> QED
    BY <1>1, <1>6, FS_CountingElements

\* A finish follows all of the handlers that were announced, or none.
LEMMA FinishFollows ==
  ASSUME TypeOK, NEW m \in Msg, Placed(m), Tagged(m), stage[m] = "finishing", ~FinishTold(m)
  PROVE  Len(log[m]) \in {1, 1 + 2 * count[m]}
  <1> DEFINE S == {<<"DispatchStarted", None>>}
             H == {"HandlerStarted", "Ended"} \X (1..count[m])
  <1>1. log[m] \in Seq(Fact) /\ count[m] \in Nat /\ 1..count[m] \subseteq Handler
    BY TraceAssumption DEF TypeOK, Handler
  <1>2. Len(log[m]) = Cardinality(Expected(m))
    BY <1>1, FactsCounted
  <1>3. StartTold(m)
    BY DEF StartTold
  <1>4. IsFiniteSet(S) /\ Cardinality(S) = 1
    BY FS_Singleton
  <1>5. CASE \A h \in Handler : work[m][h] = "none"
    <2>1. \A h \in Handler : ~BeginTold(m, h) /\ ~EndTold(m, h)
      BY <1>5 DEF BeginTold, EndTold
    <2>2. Expected(m) = S
      BY <1>3, <2>1 DEF Expected
    <2> QED
      BY <1>2, <1>4, <2>2
  <1>6. CASE \A h \in Handler : work[m][h] = IF h <= count[m] THEN "over" ELSE "none"
    <2>1. \A h \in Handler : h \in 1..count[m] <=> h <= count[m]
      BY <1>1, Numbers
    <2>2. \A h \in Handler : (BeginTold(m, h) <=> h \in 1..count[m]) /\ (EndTold(m, h) <=> h \in 1..count[m])
      BY <1>6, <2>1 DEF BeginTold, EndTold
    <2>3. Expected(m) = H \cup S
      BY <1>1, <1>3, <2>2 DEF Expected
    <2>4. IsFiniteSet(1..count[m]) /\ Cardinality(1..count[m]) = count[m]
      <3>1. 1 \in Int /\ count[m] \in Int /\ (1 > count[m] => count[m] = 0)
        BY <1>1
      <3>2. /\ IsFiniteSet(1..count[m])
            /\ Cardinality(1..count[m]) = IF 1 > count[m] THEN 0 ELSE count[m] - 1 + 1
        BY <3>1, FS_Interval
      <3> QED
        BY <3>1, <3>2
    <2>5. IsFiniteSet({"HandlerStarted", "Ended"}) /\ Cardinality({"HandlerStarted", "Ended"}) = 2
      <3>1. IsFiniteSet({"HandlerStarted"}) /\ Cardinality({"HandlerStarted"}) = 1
        BY FS_Singleton
      <3>2. {"HandlerStarted", "Ended"} = {"HandlerStarted"} \cup {"Ended"}
        OBVIOUS
      <3> QED
        BY <3>1, <3>2, FS_AddElement
    <2>6. IsFiniteSet(H) /\ Cardinality(H) = 2 * count[m]
      <3>1. /\ IsFiniteSet(H)
            /\ Cardinality(H) = Cardinality({"HandlerStarted", "Ended"}) * Cardinality(1..count[m])
        BY <2>4, <2>5, FS_Product
      <3> QED
        BY <2>4, <2>5, <3>1
    <2>7. <<"DispatchStarted", None>> \notin H
      OBVIOUS
    <2> HIDE DEF H
    <2>8. Cardinality(H \cup S) = Cardinality(H) + 1
      BY <2>6, <2>7, FS_AddElement
    <2> QED
      BY <1>1, <1>2, <2>3, <2>6, <2>8
  <1> QED
    BY <1>5, <1>6 DEF Placed

LEMMA DeliverTold ==
  ASSUME TypeOK, NEW c \in Courier, NEW raises \in BOOLEAN, Deliver(c, raises),
         place[c] = observer, Placed(c[1]), Logged(c[1]), Told(c[1]), FromTheStart
  PROVE  Bracketed(c[1])' /\ Tagged(c[1])'
  <1> DEFINE m == c[1]
             f == FactOf(c)
             s == log[m]
             n == Len(s)
             t == Append(s, f)
  <1>1. Delivering(c) /\ m \in Msg /\ f \in Fact /\ s \in Seq(Fact) /\ count[m] \in Nat
    BY FactIs DEF Deliver, TypeOK
  <1>2. log'[m] = t /\ count'[m] = count[m]
    BY DeliverIs
  <1>3. stage[m] \in {"starting", "finishing", "handling"}
    BY <1>1, FactIs
  <1>4. Bracketed(m) /\ Tagged(m)
    BY <1>3 DEF Told
  <1>5. Expected(m)' = Expected(m) \cup {Tag(f)} /\ Tag(f) \notin Expected(m)
    BY ExpectedGrows
  <1>6. /\ n \in Nat /\ DOMAIN s = 1..n /\ DOMAIN t = 1..(n + 1) /\ Len(t) = n + 1
        /\ \A i \in 1..n : t[i] = s[i] /\ i \in 1..(n + 1) /\ i # n + 1
        /\ t[n + 1] = f
        /\ \A i \in 1..(n + 1) : i \in 1..n \/ i = n + 1
    BY <1>1
  <1>7. Tag(f) = <<IF Kind(c) \in {"HandlerFinished", "HandlerFailed"} THEN "Ended" ELSE Kind(c),
                   c[2]>>
    BY <1>1, TagIs
  <1>8. \A i \in 1..n : Tag(s[i]) \in Expected(m)
    BY <1>4, <1>6 DEF Tagged
  <1>9. \A e \in Expected(m) : \E i \in 1..n : Tag(s[i]) = e
    BY <1>4, <1>6 DEF Tagged
  <1> HIDE DEF t
  <1>10. \A i, j \in 1..(n + 1) : Tag(t[i]) = Tag(t[j]) => i = j
    <2>1. \A i, j \in 1..n : Tag(s[i]) = Tag(s[j]) => i = j
      BY <1>4, <1>6 DEF Tagged
    <2> HIDE DEF m, f, s, n
    <2> TAKE i, j \in 1..(n + 1)
    <2>2. CASE i = n + 1 \/ j = n + 1
      BY <1>5, <1>6, <1>8, <2>2
    <2>3. CASE i \in 1..n /\ j \in 1..n
      BY <1>6, <2>1, <2>3
    <2> QED
      BY <1>6, <2>2, <2>3
  <1>11. Tagged(m)'
    <2>1. {Tag(t[i]) : i \in 1..(n + 1)} = {Tag(s[i]) : i \in 1..n} \cup {Tag(f)}
      <3> HIDE DEF m, f, s, n
      <3> QED
        BY <1>6
    <2>2. {Tag(s[i]) : i \in 1..n} = Expected(m)
      BY <1>4, <1>6 DEF Tagged
    <2>3. {Tag(t[i]) : i \in DOMAIN t} = Expected(m)'
      BY <1>5, <1>6, <2>1, <2>2
    <2>4. \A i, j \in DOMAIN t : Tag(t[i]) = Tag(t[j]) => i = j
      BY <1>6, <1>10
    <2> QED
      BY <1>2, <2>3, <2>4 DEF Tagged, Tag, Ended
  <1>12. IsInjective(t)
    <2>1. \A i, j \in DOMAIN t : t[i] = t[j] => i = j
      BY <1>6, <1>10
    <2> QED
      BY <2>1 DEF IsInjective
  <1>13. ASSUME NEW i \in 1..n PROVE s[i].kind # "DispatchFinished"
    <2>1. ~FinishIn(m)
      <3>1. ~FinishTold(m)
        <4>1. CASE c[2] = None
          <5>1. c = <<m, None>> /\ ~Passed(c)
            BY <1>1, <4>1, FactIs, DeliverIs
          <5> QED
            BY <1>3, <5>1 DEF FinishTold
        <4>2. CASE c[2] # None
          BY <1>1, <4>2, FactIs DEF FinishTold
        <4> QED
          BY <4>1, <4>2
      <3> QED
        BY <1>3, <3>1 DEF Logged
    <2>2. s[i] \in ToSet(log[m])
      BY <1>6 DEF ToSet
    <2> QED
      BY <2>1, <2>2 DEF FinishIn
  <1>14. (f.kind = "DispatchStarted") = (n = 0)
    <2>1. CASE StartTold(m)
      <3>1. n # 0
        BY <1>6, <1>9, <2>1, ExpectedHas
      <3>2. f.kind # "DispatchStarted"
        <4>1. <<"DispatchStarted", None>> \in Expected(m)
          BY <2>1, ExpectedHas
        <4>2. ASSUME Kind(c) = "DispatchStarted" PROVE FALSE
          <5>1. c[2] = None
            BY <1>1, <4>2, FactIs
          <5> QED
            BY <1>5, <1>7, <4>1, <4>2, <5>1
        <4> QED
          BY <1>1, <4>2, FactIs
      <3> QED
        BY <3>1, <3>2
    <2>2. CASE ~StartTold(m)
      <3>1. stage[m] = "starting" /\ Kind(c) = "DispatchStarted"
        BY <1>1, <1>3, <2>2, FactIs DEF StartTold
      <3>2. Expected(m) = {}
        <4>1. ~FinishTold(m)
          BY <3>1 DEF FinishTold
        <4>2. \A h \in Handler : ~BeginTold(m, h) /\ ~EndTold(m, h)
          BY <3>1 DEF Placed, BeginTold, EndTold
        <4> QED
          BY <2>2, <4>1, <4>2 DEF Expected
      <3>3. n = 0
        <4>1. n >= 1 => 1 \in 1..n
          BY <1>6
        <4> QED
          BY <1>6, <1>8, <3>2, <4>1
      <3> QED
        BY <1>1, <3>1, <3>3, FactIs
    <2> QED
      BY <2>1, <2>2
  <1>15. f.kind = "DispatchFinished" => n + 1 \in {2, 2 + 2 * count[m]}
    <2> SUFFICES ASSUME f.kind = "DispatchFinished" PROVE n + 1 \in {2, 2 + 2 * count[m]}
      OBVIOUS
    <2>1. stage[m] = "finishing" /\ c = <<m, None>>
      BY <1>1, FactIs
    <2>2. ~FinishTold(m)
      BY <2>1, DeliverIs DEF FinishTold
    <2>3. n \in {1, 1 + 2 * count[m]}
      BY <1>1, <1>4, <2>1, <2>2, FinishFollows
    <2>4. count[m] \in Nat /\ n \in Nat
      BY <1>1, <1>6
    <2> HIDE DEF m, n
    <2> QED
      BY <2>3, <2>4
  <1>16. Ended(f) =>
           /\ \E j \in 1..n : s[j].kind = "HandlerStarted" /\ s[j].handler = f.handler
           /\ \A j \in 1..n : Ended(s[j]) => s[j].handler # f.handler
    <2> SUFFICES ASSUME Ended(f)
                 PROVE  /\ \E j \in 1..n : s[j].kind = "HandlerStarted" /\ s[j].handler = f.handler
                        /\ \A j \in 1..n : Ended(s[j]) => s[j].handler # f.handler
      OBVIOUS
    <2>1. /\ Kind(c) \in {"HandlerFinished", "HandlerFailed"} /\ f.handler = c[2] /\ c[2] \in Handler
          /\ work[m][c[2]] \in {"ok", "swallowed", "raised"}
      BY <1>1, FactIs DEF Ended
    <2>2. <<"HandlerStarted", c[2]>> \in Expected(m)
      <3>1. BeginTold(m, c[2])
        BY <2>1 DEF BeginTold
      <3> QED
        BY <2>1, <3>1, ExpectedHas
    <2>3. PICK j \in 1..n : Tag(s[j]) = <<"HandlerStarted", c[2]>>
      BY <1>9, <2>2
    <2>4. s[j].kind = "HandlerStarted" /\ s[j].handler = f.handler
      BY <2>1, <2>3 DEF Tag
    <2>5. ASSUME NEW k \in 1..n, Ended(s[k]), s[k].handler = f.handler PROVE FALSE
      <3>1. Tag(s[k]) = Tag(f)
        BY <1>7, <2>1, <2>5 DEF Tag
      <3> QED
        BY <1>5, <1>8, <3>1
    <2> QED
      BY <2>4, <2>5
  <1>17. Bracketed(m)'
    <2>1. \A i \in 1..n :
            /\ (s[i].kind = "DispatchStarted") = (i = 1)
            /\ Ended(s[i]) =>
                 /\ \E j \in 1..(i - 1) :
                      s[j].kind = "HandlerStarted" /\ s[j].handler = s[i].handler
                 /\ \A j \in 1..(i - 1) : Ended(s[j]) => s[j].handler # s[i].handler
      BY <1>4, <1>6 DEF Bracketed
    <2> HIDE DEF m, f, s, n
    <2>2. ASSUME NEW i \in 1..n
          PROVE  /\ (t[i].kind = "DispatchStarted") = (i = 1)
                 /\ t[i].kind # "DispatchFinished"
                 /\ Ended(t[i]) =>
                      /\ \E j \in 1..(i - 1) :
                           t[j].kind = "HandlerStarted" /\ t[j].handler = t[i].handler
                      /\ \A j \in 1..(i - 1) : Ended(t[j]) => t[j].handler # t[i].handler
      <3>1. \A j \in 1..(i - 1) : t[j] = s[j]
        BY <1>6
      <3>2. t[i] = s[i]
        BY <1>6
      <3> QED
        BY <1>13, <2>1, <3>1, <3>2
    <2>3. /\ (t[n + 1].kind = "DispatchStarted") = (n + 1 = 1)
          /\ t[n + 1].kind = "DispatchFinished" =>
               n + 1 = Len(t) /\ n + 1 \in {2, 2 + 2 * count[m]}
          /\ Ended(t[n + 1]) =>
               /\ \E j \in 1..(n + 1 - 1) :
                    t[j].kind = "HandlerStarted" /\ t[j].handler = t[n + 1].handler
               /\ \A j \in 1..(n + 1 - 1) : Ended(t[j]) => t[j].handler # t[n + 1].handler
      <3>1. n + 1 - 1 = n /\ (n + 1 = 1 <=> n = 0)
        BY <1>6
      <3> QED
        BY <1>6, <1>14, <1>15, <1>16, <3>1
    <2>4. \A i \in DOMAIN t :
            /\ (t[i].kind = "DispatchStarted") = (i = 1)
            /\ t[i].kind = "DispatchFinished" => i = Len(t) /\ i \in {2, 2 + 2 * count[m]}
            /\ Ended(t[i]) =>
                 /\ \E j \in 1..(i - 1) :
                      t[j].kind = "HandlerStarted" /\ t[j].handler = t[i].handler
                 /\ \A j \in 1..(i - 1) : Ended(t[j]) => t[j].handler # t[i].handler
      BY <1>6, <2>2, <2>3
    <2> QED
      BY <1>2, <1>12, <2>4 DEF Bracketed, Ended
  <1> QED
    BY <1>11, <1>17

LEMMA DeliverLogged ==
  ASSUME TypeOK, NEW c \in Courier, NEW raises \in BOOLEAN, Deliver(c, raises),
         place[c] = observer, Logged(c[1])
  PROVE  Logged(c[1])'
  <1> DEFINE m == c[1]
             f == FactOf(c)
  <1>1. Delivering(c) /\ m \in Msg /\ f \in Fact /\ log[m] \in Seq(Fact)
    BY FactIs DEF Deliver, TypeOK
  <1>2. /\ log'[m] = Append(log[m], f) /\ metadata' = metadata /\ success' = success
        /\ stage' = stage /\ observer' = observer /\ subs' = subs /\ observer <= subs
        /\ Passed(c)' /\ ~Passed(c)
        /\ \A d \in Courier \ {c} : place'[d] = place[d]
    BY DeliverIs
  <1>3. ToSet(log'[m]) = ToSet(log[m]) \cup {f}
    BY <1>1, <1>2, ElementsOfAppend
  <1>4. f.dispatch = m /\ f.metadata = metadata[m]
    BY <1>1, FactIs
  <1>5. f.kind = "DispatchFinished" <=> c = <<m, None>> /\ stage[m] = "finishing"
    <2>1. c[2] = None <=> c = <<m, None>>
      BY <1>1, FactIs
    <2> QED
      BY <1>1, <2>1, FactIs
  <1>6. f.kind = "DispatchFinished" => f.success = success[m] /\ f.handler = None
    BY <1>1, <1>5, FactIs
  <1>7. ASSUME FinishIn(m) PROVE FinishTold(m)' \/ stage[m] = "cancelled"
    <2>1. c # <<m, None>> => (Passed(<<m, None>>)' <=> Passed(<<m, None>>))
      BY <1>1, <1>2, Bounds DEF Passed
    <2> QED
      BY <1>2, <1>7, <2>1 DEF Logged, FinishTold
  <1>8. FinishIn(m)' <=> FinishIn(m) \/ f.kind = "DispatchFinished"
    BY <1>3 DEF FinishIn
  <1>9. FinishIn(m)' => FinishTold(m)' \/ stage'[m] = "cancelled"
    <2>1. CASE FinishIn(m)
      BY <1>2, <1>7, <2>1
    <2>2. CASE f.kind = "DispatchFinished"
      BY <1>2, <1>5, <2>2 DEF FinishTold
    <2> QED
      BY <1>8, <2>1, <2>2
  <1>10. stage'[m] = "finishing" /\ Passed(<<m, None>>)' => FinishIn(m)'
    <2>1. CASE c = <<m, None>>
      BY <1>2, <1>5, <1>8, <2>1
    <2>2. CASE c # <<m, None>>
      <3>1. Passed(<<m, None>>)' <=> Passed(<<m, None>>)
        BY <1>1, <1>2, <2>2, Bounds DEF Passed
      <3> QED
        BY <1>2, <1>8, <3>1 DEF Logged
    <2> QED
      BY <2>1, <2>2
  <1>11. stage'[m] # "done"
    BY <1>1, <1>2, FactIs
  <1>12. \A g \in ToSet(log'[m]) :
           /\ g.dispatch = m /\ g.metadata = metadata'[m]
           /\ g.kind = "DispatchFinished" => g.success = success'[m] /\ g.handler = None
    BY <1>2, <1>3, <1>4, <1>6 DEF Logged
  <1> HIDE DEF m, f
  <1>13. Logged(m)'
    BY <1>2, <1>9, <1>10, <1>11, <1>12 DEF Logged
  <1> QED
    BY <1>13 DEF m

LEMMA DeliverKeeps ==
  ASSUME TypeOK, NEW c \in Courier, NEW raises \in BOOLEAN, Deliver(c, raises),
         Placed(c[1]), Logged(c[1]), Told(c[1])
  PROVE  Placed(c[1])' /\ Logged(c[1])' /\ Told(c[1])'
  <1> DEFINE m == c[1]
  <1>1. Delivering(c) /\ m \in Msg /\ stage[m] \in {"starting", "finishing", "handling"}
    BY FactIs DEF Deliver
  <1>2. Placed(m)'
    BY DeliverPlaced
  <1>3. CASE place[c] # observer
    <2>1. /\ log' = log /\ metadata' = metadata /\ observer' = observer /\ subs' = subs
          /\ count' = count /\ success' = success /\ stage' = stage /\ work' = work
      BY <1>3, DeliverIs
    <2>2. \A h \in Handler \cup {None} : Passed(<<m, h>>)' <=> Passed(<<m, h>>)
      <3> TAKE h \in Handler \cup {None}
      <3>1. CASE <<m, h>> = c
        BY <1>3, <3>1, DeliverIs
      <3>2. CASE <<m, h>> # c
        <4>1. <<m, h>> \in Courier \ {c}
          BY <1>1, <3>2, Bounds
        <4> QED
          BY <4>1, DeliverIs DEF Passed
      <3> QED
        BY <3>1, <3>2
    <2>3. Passed(<<m, None>>)' <=> Passed(<<m, None>>)
      BY <2>2
    <2>4. /\ StartTold(m)' <=> StartTold(m)
          /\ FinishTold(m)' <=> FinishTold(m)
          /\ \A h \in Handler : BeginTold(m, h)' <=> BeginTold(m, h)
          /\ \A h \in Handler : EndTold(m, h)' <=> EndTold(m, h)
      BY <2>1, <2>2, <2>3 DEF StartTold, FinishTold, BeginTold, EndTold
    <2>5. /\ FinishIn(m) => FinishTold(m)'
          /\ stage'[m] = "finishing" /\ Passed(<<m, None>>)' => FinishIn(m)
          /\ stage'[m] # "done" /\ stage[m] # "cancelled" /\ Logged(m) /\ Told(m)
      BY <1>1, <2>1, <2>3, <2>4 DEF Logged
    <2> HIDE DEF m
    <2>6. Logged(m)' /\ Told(m)'
      BY <1>1, <2>1, <2>4, <2>5, Silent
    <2> QED
      BY <1>2, <2>6 DEF m
  <1>4. CASE place[c] = observer
    <2>1. Logged(c[1])'
      BY <1>4, DeliverLogged
    <2>2. FromTheStart => Bracketed(c[1])' /\ Tagged(c[1])'
      BY <1>4, DeliverTold
    <2>3. Told(c[1])'
      BY <2>2, DeliverIs DEF Told, FromTheStart
    <2> QED
      BY <1>2, <2>1, <2>3
  <1> QED
    BY <1>3, <1>4

-----------------------------------------------------------------------------
(* Every message, at every step.                                           *)

\* A step of message m leaves the others aside.
LEMMA OthersAside ==
  ASSUME TypeOK, NEW m \in Msg, NEW e \in Msg \ {m},
         NEW d \in Courier, d[1] = m,
         \A n \in Msg \ {m} : count'[n] = count[n] /\ work'[n] = work[n] /\ failed'[n] = failed[n]
                              /\ success'[n] = success[n] /\ log'[n] = log[n],
         \A x \in Courier : x # d => place'[x] = place[x],
         observer' = observer, subs' = subs, op' = op, metadata' = metadata,
         stage'[e] = stage[e] \/ (e # 1 /\ Waiting(e) /\ Waiting(e)')
  PROVE  Aside(e)
  <1>1. \A h \in Handler \cup {None} : <<e, h>> \in Courier /\ <<e, h>> # d
    BY Bounds
  <1>2. \A h \in Handler \cup {None} : place'[<<e, h>>] = place[<<e, h>>]
    BY <1>1
  <1>3. subs <= subs'
    BY Bounds
  <1> QED
    BY <1>2, <1>3 DEF Aside

\* What a handler emitted is handed over once.
LEMMA HandsOver ==
  ASSUME TypeOK, Emitted, NEW m \in Msg, NEW h \in Handler, Collect(m, h),
         NEW e \in EmittedBy(m, h)
  PROVE  e \in Msg \ {1, m} /\ stage[e] = "emitted" /\ stage'[e] \in {"dropped", "held", "queued"}
  <1>1. work[m][h] \in {"ok", "swallowed", "raised"} /\ stage[m] = "handling"
    BY Numbers DEF Collect, Delivered, Delivering
  <1>2. e \in Msg /\ by[e] = <<m, h>>
    BY DEF EmittedBy
  <1>3. e # 1 /\ stage[e] # "unused"
    BY <1>2, Numbers DEF Emitted
  <1>4. stage[e] = "emitted"
    BY <1>1, <1>2, <1>3 DEF Emitted
  <1>5. stage'[e] = HandOver(m, h)
    BY <1>2 DEF Collect, TypeOK
  <1> QED
    BY <1>1, <1>2, <1>3, <1>4, <1>5 DEF HandOver

LEMMA EachInit == Init => Each
  <1> SUFFICES ASSUME Init, NEW m \in Msg PROVE Placed(m) /\ Logged(m) /\ Told(m)
    BY DEF Each
  <1>1. /\ stage[m] = "unused" /\ log[m] = <<>> /\ success[m] /\ ~failed[m] /\ op = "send"
        /\ \A h \in Handler : work[m][h] = "none"
        /\ \A c \in Courier : place[c] = 1
    BY DEF Init
  <1>2. \A h \in Handler \cup {None} : place[<<m, h>>] = 1
    BY <1>1 DEF Courier
  <1>3. Placed(m)
    BY <1>1, <1>2 DEF Placed, Waiting
  <1>4. ToSet(log[m]) = {} /\ DOMAIN log[m] = {}
    BY <1>1 DEF ToSet
  <1>5. Logged(m)
    BY <1>1, <1>4 DEF Logged, FinishIn
  <1>6. Expected(m) = {}
    BY <1>1 DEF Expected, StartTold, FinishTold, BeginTold, EndTold
  <1>7. Tagged(m) /\ Bracketed(m)
    BY <1>1, <1>4, <1>6 DEF Tagged, Bracketed, IsInjective
  <1> QED
    BY <1>3, <1>5, <1>7 DEF Told

LEMMA EachNext == TypeOK /\ TypeOK' /\ Each /\ Emitted /\ [Next]_vars => Each'
  <1> SUFFICES ASSUME TypeOK, TypeOK', Each, Emitted, [Next]_vars, NEW n \in Msg
               PROVE  Placed(n)' /\ Logged(n)' /\ Told(n)'
    BY DEF Each
  <1>1. \A m \in Msg : Placed(m) /\ Logged(m) /\ Told(m)
    BY DEF Each
  <1>2. Aside(n) => Placed(n)' /\ Logged(n)' /\ Told(n)'
    BY <1>1, AsideKeeps
  <1>3. subs \in Nat /\ subs <= subs /\ subs <= subs + 1
    BY Bounds
  <1>4. ASSUME UNCHANGED <<op, observer, metadata, stage, count, work, failed, success, place, log>>,
               subs <= subs'
        PROVE  Aside(n)
    BY <1>4 DEF Aside
  <1>5. CASE AddSubscriber \/ RegisterEventHandler \/ Refuse \/ Return \/ UNCHANGED vars
    BY <1>2, <1>3, <1>4, <1>5
       DEF AddSubscriber, RegisterEventHandler, Refuse, Return, vars, setup
  <1>6. ASSUME NEW o \in {"send", "publish"}, Call(o) PROVE Placed(n)' /\ Logged(n)' /\ Told(n)'
    <2>1. CASE n = 1
      BY <1>1, <1>6, <2>1, CallKeeps
    <2>2. CASE n # 1
      <3>1. Aside(n)
        BY <1>3, <1>6, <2>2 DEF Call, Aside, TypeOK
      <3> QED
        BY <1>2, <3>1
    <2> QED
      BY <2>1, <2>2
  <1>7. CASE Cancel
    <2>1. stage'[n] = stage[n] \/ (stage[n] # "unused" /\ stage'[n] = "cancelled")
      BY <1>7 DEF Cancel, Over
    <2>2. Aside(n)
      BY <1>3, <1>7, <2>1 DEF Cancel, Aside, setup
    <2> QED
      BY <1>2, <2>2
  <1>8. ASSUME NEW c \in Courier, NEW raises \in BOOLEAN, Deliver(c, raises)
        PROVE  Placed(n)' /\ Logged(n)' /\ Told(n)'
    <2>1. c[1] \in Msg
      BY DEF Courier
    <2>2. CASE n = c[1]
      BY <1>1, <1>8, <2>1, <2>2, DeliverKeeps
    <2>3. CASE n # c[1]
      <3>1. /\ stage' = stage /\ count' = count /\ work' = work /\ failed' = failed
            /\ success' = success /\ metadata' = metadata /\ op' = op
            /\ observer' = observer /\ subs' = subs
            /\ \A x \in Courier : x # c => place'[x] = place[x]
            /\ \A m \in Msg \ {c[1]} : log'[m] = log[m]
        BY <1>8, DeliverIs
      <3>2. Aside(n)
        BY <2>1, <2>3, <3>1, OthersAside
      <3> QED
        BY <1>2, <3>2
    <2> QED
      BY <2>2, <2>3
  <1>9. ASSUME NEW m \in Msg,
               \/ Start(m) \/ Enter(m) \/ \E b \in Before : Deflect(m, b)
               \/ \E a \in After : Complete(m, a)
               \/ Finish(m)
        PROVE  Placed(n)' /\ Logged(n)' /\ Told(n)'
    <2>1. CASE n = m
      BY <1>1, <1>9, <2>1, StartKeeps, EnterKeeps, DeflectKeeps, CompleteKeeps, FinishKeeps
    <2>2. CASE n # m
      <3> DEFINE d == <<m, None>>
      <3>1. d \in Courier /\ d[1] = m
        BY Bounds
      <3>2. \A x \in Courier : x # d => place'[x] = place[x]
        BY <1>9 DEF Start, Enter, Deflect, Notify, Complete, Finish, TypeOK
      <3>3. \A k \in Msg \ {m} : /\ count'[k] = count[k] /\ work'[k] = work[k]
                                 /\ failed'[k] = failed[k] /\ success'[k] = success[k]
                                 /\ log'[k] = log[k]
        BY <1>9 DEF Start, Enter, Deflect, Notify, Complete, Finish, TypeOK
      <3>4. observer' = observer /\ subs' = subs /\ op' = op /\ metadata' = metadata
        BY <1>9 DEF Start, Enter, Deflect, Notify, Complete, Finish, setup
      <3>5. \/ stage'[n] = stage[n]
            \/ stage[n] = "held" /\ stage'[n] \in {"dropped", "queued"}
        BY <1>9, <2>2 DEF Start, Enter, Deflect, Notify, Complete, Finish, TypeOK
      <3>6. stage'[n] = stage[n] \/ (n # 1 /\ Waiting(n) /\ Waiting(n)')
        BY <1>1, <3>5 DEF Waiting, Placed
      <3> HIDE DEF d
      <3>7. Aside(n)
        BY <2>2, <3>1, <3>2, <3>3, <3>4, <3>6, OthersAside
      <3> QED
        BY <1>2, <3>7
    <2> QED
      BY <2>1, <2>2
  <1>10. ASSUME NEW m \in Msg, NEW h \in Handler, NEW stamp \in Stamps, Emit(m, h, stamp)
         PROVE  Placed(n)' /\ Logged(n)' /\ Told(n)'
    <2>1. PICK e \in Msg \ {1} :
            /\ stage[e] = "unused"
            /\ stage' = [stage EXCEPT ![e] = "emitted"]
            /\ metadata' = [metadata EXCEPT ![e] = Stamped(e, m, stamp)]
      BY <1>10 DEF Emit
    <2>2. \/ stage'[n] = stage[n] /\ metadata'[n] = metadata[n]
          \/ n # 1 /\ Waiting(n) /\ Waiting(n)'
      BY <2>1 DEF Waiting, TypeOK
    <2>3. Aside(n)
      BY <1>3, <1>10, <2>2 DEF Emit, Aside, setup
    <2> QED
      BY <1>2, <2>3
  <1>11. ASSUME NEW m \in Msg, NEW h \in Handler,
                Run(m, h) \/ (\E r \in Ends : End(m, h, r)) \/ Collect(m, h)
         PROVE  Placed(n)' /\ Logged(n)' /\ Told(n)'
    <2>1. CASE n = m
      BY <1>1, <1>11, <2>1, RunKeeps, EndKeeps, CollectKeeps
    <2>2. CASE n # m
      <3> DEFINE d == <<m, h>>
      <3>1. d \in Courier /\ d[1] = m
        BY Bounds
      <3>2. \A x \in Courier : x # d => place'[x] = place[x]
        BY <1>11 DEF Run, End, Collect, TypeOK
      <3>3. \A k \in Msg \ {m} : /\ count'[k] = count[k] /\ work'[k] = work[k]
                                 /\ failed'[k] = failed[k] /\ success'[k] = success[k]
                                 /\ log'[k] = log[k]
        BY <1>11 DEF Run, End, Collect, TypeOK
      <3>4. observer' = observer /\ subs' = subs /\ op' = op /\ metadata' = metadata
        BY <1>11 DEF Run, End, Collect, setup
      <3>5. stage'[n] = stage[n] \/ (n # 1 /\ Waiting(n) /\ Waiting(n)')
        <4>1. CASE Run(m, h) \/ \E r \in Ends : End(m, h, r)
          BY <4>1 DEF Run, End
        <4>2. CASE Collect(m, h)
          <5>1. CASE n \in EmittedBy(m, h)
            <6>1. n # 1 /\ stage[n] = "emitted" /\ stage'[n] \in {"dropped", "held", "queued"}
              BY <4>2, <5>1, HandsOver
            <6> QED
              BY <6>1 DEF Waiting
          <5>2. CASE n \notin EmittedBy(m, h)
            BY <2>2, <4>2, <5>2 DEF Collect
          <5> QED
            BY <5>1, <5>2
        <4> QED
          BY <1>11, <4>1, <4>2
      <3> HIDE DEF d
      <3>6. Aside(n)
        BY <2>2, <3>1, <3>2, <3>3, <3>4, <3>5, OthersAside
      <3> QED
        BY <1>2, <3>6
    <2> QED
      BY <2>1, <2>2
  <1> QED
    BY <1>5, <1>6, <1>7, <1>8, <1>9, <1>10, <1>11 DEF Next

-----------------------------------------------------------------------------
(* Events and who emitted them.                                            *)

\* The steps of the dispatch of m and of its invocations.
Acts(m) ==
  \/ \E c \in Courier, raises \in BOOLEAN : c[1] = m /\ Deliver(c, raises)
  \/ Start(m) \/ Enter(m) \/ (\E b \in Before : Deflect(m, b))
  \/ (\E a \in After : Complete(m, a)) \/ Finish(m)
  \/ \E h \in Handler : \/ Run(m, h)
                        \/ \E stamp \in Stamps : Emit(m, h, stamp)
                        \/ \E r \in Ends : End(m, h, r)
                        \/ Collect(m, h)

LEMMA NextIs ==
  ASSUME [Next]_vars
  PROVE  \/ AddSubscriber \/ RegisterEventHandler \/ Refuse \/ Return \/ UNCHANGED vars
         \/ Cancel
         \/ \E o \in {"send", "publish"} : Call(o)
         \/ \E m \in Msg : Acts(m)
  <1>1. ASSUME NEW c \in Courier, NEW raises \in BOOLEAN, Deliver(c, raises)
        PROVE  \E m \in Msg : Acts(m)
    <2>1. c[1] \in Msg
      BY DEF Courier
    <2> QED
      BY <1>1, <2>1 DEF Acts
  <1> QED
    BY <1>1 DEF Next, Acts

LEMMA Active ==
  ASSUME TypeOK, NEW m \in Msg, Acts(m)
  PROVE  ~Over(m) /\ call' = call /\ op' = op /\ observer' = observer
  <1>1. ASSUME NEW c \in Courier, NEW raises \in BOOLEAN, c[1] = m, Deliver(c, raises)
        PROVE  ~Over(m) /\ call' = call /\ op' = op /\ observer' = observer
    <2>1. stage[m] \in {"starting", "finishing", "handling"}
      BY <1>1, FactIs DEF Deliver
    <2> QED
      BY <1>1, <2>1, DeliverIs DEF Over
  <1>2. ASSUME NEW h \in Handler,
               \/ Run(m, h) \/ Collect(m, h)
               \/ (\E stamp \in Stamps : Emit(m, h, stamp)) \/ (\E r \in Ends : End(m, h, r))
        PROVE  ~Over(m) /\ call' = call /\ op' = op /\ observer' = observer
    <2>1. stage[m] = "handling"
      BY <1>2, Numbers DEF Run, Collect, Emit, End, Delivered, Delivering
    <2> QED
      BY <1>2, <2>1 DEF Run, Collect, Emit, End, Over, setup
  <1>3. ASSUME \/ Start(m) \/ Enter(m) \/ (\E b \in Before : Deflect(m, b))
               \/ (\E a \in After : Complete(m, a)) \/ Finish(m)
        PROVE  ~Over(m) /\ call' = call /\ op' = op /\ observer' = observer
    <2>1. stage[m] \in {"queued", "starting", "handling", "following", "finishing"}
      BY <1>3 DEF Start, Enter, Deflect, Complete, Handled, Finish
    <2> QED
      BY <1>3, <2>1 DEF Start, Enter, Deflect, Notify, Complete, Finish, Over, setup
  <1> QED
    BY <1>1, <1>2, <1>3 DEF Acts

\* A step that emits nothing and hands nothing over.
Steady ==
  /\ by' = by /\ metadata' = metadata
  /\ call' \in {"none", "refused"} => call \in {"none", "refused"} /\ stage' = stage
  /\ \A e \in Msg \ {1} : /\ stage'[e] = "unused" <=> stage[e] = "unused"
                          /\ stage'[e] = "emitted" <=> stage[e] = "emitted"
  /\ stage[1] \notin {"unused", "emitted"} => stage'[1] \notin {"unused", "emitted"}
  /\ \A m \in Msg, h \in Handler : /\ work[m][h] # "none" => work'[m][h] # "none"
                                   /\ work[m][h] = "over" => work'[m][h] = "over"

LEMMA SteadyKeeps ==
  ASSUME TypeOK, Emitted, Steady
  PROVE  Emitted'
  <1>1. call' \in {"none", "refused"} => \A m \in Msg : stage'[m] = "unused"
    BY DEF Emitted, Steady
  <1>2. metadata'[1].causation = None
    BY DEF Emitted, Steady
  <1>3. \A e \in Msg : e = 1 \/ stage'[e] = "unused" => by'[e] = <<None, None>>
    BY DEF Emitted, Steady
  <1>4. ASSUME NEW e \in Msg \ {1}, stage'[e] # "unused"
        PROVE  /\ by'[e] \in Msg \X Handler
               /\ stage'[by'[e][1]] \notin {"unused", "emitted"}
               /\ metadata'[e] \in {ChildMetadata(e, metadata'[by'[e][1]]), RootMetadata(e),
                                    metadata'[by'[e][1]]}
               /\ work'[by'[e][1]][by'[e][2]] # "none"
               /\ stage'[e] # "emitted" => work'[by'[e][1]][by'[e][2]] = "over"
    <2>1. stage[e] # "unused" /\ (stage'[e] # "emitted" => stage[e] # "emitted") /\ by'[e] = by[e]
      BY <1>4 DEF Steady
    <2>2. /\ by[e] \in Msg \X Handler
          /\ stage[by[e][1]] \notin {"unused", "emitted"}
          /\ metadata[e] \in {ChildMetadata(e, metadata[by[e][1]]), RootMetadata(e),
                              metadata[by[e][1]]}
          /\ work[by[e][1]][by[e][2]] # "none"
          /\ stage[e] # "emitted" => work[by[e][1]][by[e][2]] = "over"
      BY <2>1 DEF Emitted
    <2>3. by[e][1] \in Msg /\ by[e][2] \in Handler
      BY <2>2
    <2>4. stage'[by[e][1]] \notin {"unused", "emitted"}
      BY <2>2, <2>3 DEF Steady
    <2>5. /\ work'[by[e][1]][by[e][2]] # "none"
          /\ stage'[e] # "emitted" => work'[by[e][1]][by[e][2]] = "over"
      BY <2>1, <2>2, <2>3 DEF Steady
    <2>6. metadata' = metadata
      BY DEF Steady
    <2> QED
      BY <2>1, <2>2, <2>4, <2>5, <2>6
  <1> QED
    BY <1>1, <1>2, <1>3, <1>4 DEF Emitted, ChildMetadata, RootMetadata

LEMMA EmitKeeps ==
  ASSUME TypeOK, Emitted, NEW m \in Msg, NEW h \in Handler, NEW stamp \in Stamps,
         Emit(m, h, stamp)
  PROVE  Emitted'
  <1>1. PICK e \in Msg \ {1} : /\ stage[e] = "unused"
                               /\ stage' = [stage EXCEPT ![e] = "emitted"]
                               /\ by' = [by EXCEPT ![e] = <<m, h>>]
                               /\ metadata' = [metadata EXCEPT ![e] = Stamped(e, m, stamp)]
    BY DEF Emit
  <1>2. stage[m] = "handling" /\ work[m][h] = "running" /\ work' = work /\ call' = call /\ m # e
    BY <1>1 DEF Emit
  <1>3. /\ stage'[e] = "emitted" /\ by'[e] = <<m, h>> /\ metadata'[e] = Stamped(e, m, stamp)
        /\ \A n \in Msg \ {e} : stage'[n] = stage[n] /\ by'[n] = by[n] /\ metadata'[n] = metadata[n]
    BY <1>1 DEF TypeOK
  <1>4. call \notin {"none", "refused"}
    BY <1>2 DEF Emitted
  <1>5. metadata'[1].causation = None /\ by'[1] = <<None, None>>
    BY <1>1, <1>3, Numbers DEF Emitted
  <1>6. \A n \in Msg : stage'[n] = "unused" => by'[n] = <<None, None>>
    BY <1>3 DEF Emitted
  <1>7. ASSUME NEW n \in Msg \ {1}, stage'[n] # "unused"
        PROVE  /\ by'[n] \in Msg \X Handler
               /\ stage'[by'[n][1]] \notin {"unused", "emitted"}
               /\ metadata'[n] \in {ChildMetadata(n, metadata'[by'[n][1]]), RootMetadata(n),
                                    metadata'[by'[n][1]]}
               /\ work'[by'[n][1]][by'[n][2]] # "none"
               /\ stage'[n] # "emitted" => work'[by'[n][1]][by'[n][2]] = "over"
    <2>1. CASE n = e
      <3>1. by'[n] = <<m, h>> /\ metadata'[m] = metadata[m] /\ stage'[m] = stage[m]
        BY <1>2, <1>3, <2>1
      <3>2. by'[n][1] = m /\ by'[n][2] = h
        BY <3>1
      <3>3. stage'[n] = "emitted" /\ work'[m][h] = "running" /\ stage'[m] = "handling"
        BY <1>2, <1>3, <2>1, <3>1
      <3>4. metadata'[n] \in {ChildMetadata(n, metadata[m]), RootMetadata(n), metadata[m]}
        BY <1>3, <2>1, StampedIs
      <3> QED
        BY <3>1, <3>2, <3>3, <3>4
    <2>2. CASE n # e
      <3>1. stage[n] # "unused" /\ by'[n] = by[n] /\ metadata'[n] = metadata[n] /\ stage'[n] = stage[n]
        BY <1>3, <1>7, <2>2
      <3>2. /\ by[n] \in Msg \X Handler
            /\ stage[by[n][1]] \notin {"unused", "emitted"}
            /\ metadata[n] \in {ChildMetadata(n, metadata[by[n][1]]), RootMetadata(n),
                                metadata[by[n][1]]}
            /\ work[by[n][1]][by[n][2]] # "none"
            /\ stage[n] # "emitted" => work[by[n][1]][by[n][2]] = "over"
        BY <3>1 DEF Emitted
      <3>3. by[n][1] \in Msg \ {e}
        BY <1>1, <3>2
      <3>4. metadata'[by[n][1]] = metadata[by[n][1]] /\ stage'[by[n][1]] = stage[by[n][1]]
        BY <1>3, <3>3
      <3> QED
        BY <1>2, <3>1, <3>2, <3>4
    <2> QED
      BY <2>1, <2>2
  <1>8. call' \notin {"none", "refused"}
    BY <1>2, <1>4
  <1> QED
    BY <1>5, <1>6, <1>7, <1>8 DEF Emitted, ChildMetadata, RootMetadata

LEMMA CollectEmitted ==
  ASSUME TypeOK, Emitted, NEW m \in Msg, NEW g \in Handler, Collect(m, g)
  PROVE  Emitted'
  <1>1. /\ work[m][g] \in {"ok", "swallowed", "raised"} /\ stage[m] = "handling"
        /\ by' = by /\ metadata' = metadata /\ call' = call
    BY Numbers DEF Collect, Delivered, Delivering
  <1>2. /\ work'[m][g] = "over"
        /\ \A n \in Msg, h \in Handler : <<n, h>> # <<m, g>> => work'[n][h] = work[n][h]
    BY DEF Collect, TypeOK
  <1>3. call \notin {"none", "refused"}
    BY <1>1 DEF Emitted
  <1>4. \A e \in EmittedBy(m, g) :
          e \in Msg \ {1, m} /\ stage[e] = "emitted" /\ stage'[e] \in {"dropped", "held", "queued"}
    BY HandsOver
  <1>5. \A e \in Msg \ EmittedBy(m, g) :
          stage'[e] = stage[e] \/ (e = m /\ stage'[e] = "following")
    BY DEF Collect, TypeOK
  <1>6. \A e \in Msg : stage'[e] = "unused" <=> stage[e] = "unused"
    BY <1>1, <1>4, <1>5
  <1>7. \A e \in Msg : stage[e] \notin {"unused", "emitted"} => stage'[e] \notin {"unused", "emitted"}
    BY <1>4, <1>5
  <1>8. metadata'[1].causation = None
    BY <1>1 DEF Emitted
  <1>9. \A e \in Msg : e = 1 \/ stage'[e] = "unused" => by'[e] = <<None, None>>
    BY <1>1, <1>6 DEF Emitted
  <1>10. ASSUME NEW e \in Msg \ {1}, stage'[e] # "unused"
         PROVE  /\ by[e] \in Msg \X Handler
                /\ stage'[by[e][1]] \notin {"unused", "emitted"}
                /\ metadata[e] \in {ChildMetadata(e, metadata[by[e][1]]), RootMetadata(e),
                                    metadata[by[e][1]]}
                /\ work'[by[e][1]][by[e][2]] # "none"
                /\ stage'[e] # "emitted" => work'[by[e][1]][by[e][2]] = "over"
    <2>1. stage[e] # "unused"
      BY <1>6, <1>10
    <2>2. /\ by[e] \in Msg \X Handler
          /\ stage[by[e][1]] \notin {"unused", "emitted"}
          /\ metadata[e] \in {ChildMetadata(e, metadata[by[e][1]]), RootMetadata(e),
                              metadata[by[e][1]]}
          /\ work[by[e][1]][by[e][2]] # "none"
          /\ stage[e] # "emitted" => work[by[e][1]][by[e][2]] = "over"
      BY <2>1 DEF Emitted
    <2>3. by[e][1] \in Msg /\ by[e][2] \in Handler /\ by[e] = <<by[e][1], by[e][2]>>
      BY <2>2
    <2>4. stage'[by[e][1]] \notin {"unused", "emitted"}
      BY <1>7, <2>2, <2>3
    <2>5. CASE by[e] = <<m, g>>
      <3>1. by[e][1] = m /\ by[e][2] = g
        BY <2>5
      <3> QED
        BY <1>2, <2>2, <2>4, <3>1
    <2>6. CASE by[e] # <<m, g>>
      <3>1. work'[by[e][1]][by[e][2]] = work[by[e][1]][by[e][2]]
        BY <1>2, <2>3, <2>6
      <3>2. e \notin EmittedBy(m, g)
        BY <2>6 DEF EmittedBy
      <3>3. stage'[e] # "emitted" => stage[e] # "emitted"
        BY <1>1, <1>5, <3>2
      <3> QED
        BY <2>2, <2>4, <3>1, <3>3
    <2> QED
      BY <2>5, <2>6
  <1> QED
    BY <1>1, <1>3, <1>8, <1>9, <1>10 DEF Emitted, ChildMetadata, RootMetadata

LEMMA SteadySteps ==
  ASSUME TypeOK, Each, Emitted, [Next]_vars,
         ~\E m \in Msg, h \in Handler : Collect(m, h) \/ \E stamp \in Stamps : Emit(m, h, stamp)
  PROVE  Steady
  <1>1. ASSUME AddSubscriber \/ RegisterEventHandler \/ Refuse \/ Return \/ UNCHANGED vars
        PROVE  Steady
    BY <1>1 DEF AddSubscriber, RegisterEventHandler, Refuse, Return, vars, Steady
  <1>2. CASE Cancel
    <2>1. \A e \in Msg : \/ stage'[e] = stage[e]
                         \/ stage[e] \notin {"unused", "emitted"} /\ stage'[e] = "cancelled"
      <3> TAKE e \in Msg
      <3>1. stage'[e] = IF Over(e) \/ ~(Sequential \/ IsCommand(e)) THEN stage[e] ELSE "cancelled"
        BY <1>2 DEF Cancel
      <3> QED
        BY <3>1 DEF Over
    <2>2. by' = by /\ metadata' = metadata /\ work' = work /\ call' = "cancelled"
      BY <1>2 DEF Cancel
    <2> QED
      BY <2>1, <2>2, Numbers DEF Steady
  <1>3. ASSUME NEW o \in {"send", "publish"}, Call(o) PROVE Steady
    BY <1>3 DEF Call, Steady, TypeOK
  <1>4. ASSUME NEW m \in Msg, Acts(m) PROVE Steady
    <2>1. call' = call /\ call \notin {"none", "refused"}
      BY <1>4, Active DEF Emitted, Over
    <2>2. ASSUME NEW c \in Courier, NEW raises \in BOOLEAN, Deliver(c, raises) PROVE Steady
      BY <2>1, <2>2, DeliverIs DEF Steady
    <2>3. CASE Start(m)
      BY <2>1, <2>3 DEF Start, Steady, TypeOK
    <2>4. CASE Enter(m)
      <3>1. \A h \in Handler : work[m][h] = "none"
        BY <2>4 DEF Enter, Each, Placed
      <3> QED
        BY <2>1, <2>4, <3>1 DEF Enter, Steady, TypeOK
    <2>5. ASSUME NEW b \in Before, Deflect(m, b) PROVE Steady
      BY <2>1, <2>5 DEF Deflect, Notify, Steady, TypeOK
    <2>6. ASSUME NEW a \in After, Complete(m, a) PROVE Steady
      <3>1. \A e \in Msg : \/ stage'[e] = stage[e]
                           \/ stage[e] = "held" /\ stage'[e] = "dropped"
                           \/ stage[e] \in {"handling", "following"} /\ stage'[e] = "finishing"
        <4> TAKE e \in Msg
        <4>1. stage[m] \in {"handling", "following"}
          BY <2>6 DEF Complete, Handled
        <4>2. stage'[e] = IF e = m THEN "finishing"
                          ELSE IF a = "raise" /\ stage[e] = "held" THEN "dropped" ELSE stage[e]
          BY <2>6 DEF Complete
        <4> QED
          BY <4>1, <4>2
      <3>2. by' = by /\ metadata' = metadata /\ work' = work
        BY <2>6 DEF Complete
      <3> QED
        BY <2>1, <3>1, <3>2, Numbers DEF Steady
    <2>7. CASE Finish(m)
      <3>1. \A e \in Msg : \/ stage'[e] = stage[e]
                           \/ stage[e] = "held" /\ stage'[e] = "queued"
                           \/ stage[e] = "finishing" /\ stage'[e] = "done"
        <4> TAKE e \in Msg
        <4>1. stage[m] = "finishing"
          BY <2>7 DEF Finish
        <4>2. stage'[e] = IF e = m THEN "done"
                          ELSE IF stage[e] = "held" THEN "queued" ELSE stage[e]
          BY <2>7 DEF Finish
        <4> QED
          BY <4>1, <4>2
      <3>2. by' = by /\ metadata' = metadata /\ work' = work
        BY <2>7 DEF Finish
      <3> QED
        BY <2>1, <3>1, <3>2, Numbers DEF Steady
    <2>8. ASSUME NEW h \in Handler, Run(m, h) PROVE Steady
      BY <2>1, <2>8 DEF Run, Steady, TypeOK
    <2>9. ASSUME NEW h \in Handler, NEW r \in Ends, End(m, h, r) PROVE Steady
      BY <2>1, <2>9, TraceAssumption DEF End, Steady, TypeOK
    <2> QED
      BY <1>4, <2>2, <2>3, <2>4, <2>5, <2>6, <2>7, <2>8, <2>9 DEF Acts
  <1> QED
    BY <1>1, <1>2, <1>3, <1>4, NextIs

LEMMA EmittedNext == TypeOK /\ Each /\ Emitted /\ [Next]_vars => Emitted'
  BY SteadySteps, SteadyKeeps, EmitKeeps, CollectEmitted

-----------------------------------------------------------------------------
(* Causes.                                                                 *)

LEMMA FactsGrow ==
  ASSUME TypeOK, [Next]_vars
  PROVE  Facts \subseteq Facts'
  <1>1. \A m \in Msg : ToSet(log[m]) \subseteq ToSet(log'[m])
    <2>1. ASSUME NEW c \in Courier, NEW raises \in BOOLEAN, Deliver(c, raises), NEW m \in Msg
          PROVE  ToSet(log[m]) \subseteq ToSet(log'[m])
      <3>1. FactOf(c) \in Fact /\ log[m] \in Seq(Fact)
        BY <2>1, FactIs DEF Deliver, TypeOK
      <3>2. log'[m] = log[m] \/ log'[m] = Append(log[m], FactOf(c))
        BY <2>1, DeliverIs
      <3>3. ToSet(Append(log[m], FactOf(c))) = ToSet(log[m]) \cup {FactOf(c)}
        BY <3>1, ElementsOfAppend
      <3> QED
        BY <3>2, <3>3
    <2>2. ASSUME ~\E c \in Courier, raises \in BOOLEAN : Deliver(c, raises) PROVE log' = log
      BY <2>2 DEF Next, AddSubscriber, RegisterEventHandler, Call, Refuse, Return, Cancel, Start,
                  Enter, Deflect, Complete, Finish, Run, Emit, End, Collect, vars
    <2> QED
      BY <2>1, <2>2
  <1> QED
    BY <1>1 DEF Facts

\* The end of an invocation whose outcome is collected has been seen.
LEMMA EndSeen ==
  ASSUME TypeOK, Each, FromTheStart, NEW m \in Msg, NEW h \in Handler, Collect(m, h)
  PROVE  \E g \in Facts : Ended(g) /\ g.metadata = metadata[m]
  <1>1. /\ Delivered(<<m, h>>) /\ <<m, h>> \in Courier
        /\ work[m][h] \in {"ok", "swallowed", "raised"} /\ stage[m] = "handling"
    BY Bounds, Numbers DEF Collect, Delivered, Delivering
  <1>2. EndTold(m, h)
    BY <1>1, Reached, FromTheStartThere DEF EndTold
  <1>3. Tagged(m) /\ Logged(m)
    BY <1>1 DEF Each, Told
  <1>4. PICK i \in DOMAIN log[m] : Tag(log[m][i]) = <<"Ended", h>>
    <2>1. <<"Ended", h>> \in Expected(m)
      BY <1>2, ExpectedHas
    <2> QED
      BY <1>3, <2>1 DEF Tagged
  <1>5. log[m][i] \in ToSet(log[m])
    BY DEF ToSet
  <1>6. Ended(log[m][i])
    <2>1. (IF Ended(log[m][i]) THEN "Ended" ELSE log[m][i].kind) = "Ended"
      BY <1>4 DEF Tag
    <2>2. log[m][i] \in Fact
      BY DEF TypeOK
    <2>3. log[m][i].kind # "Ended"
      BY <2>2 DEF Fact
    <2> QED
      BY <2>1, <2>3
  <1> QED
    BY <1>3, <1>5, <1>6 DEF Facts, Logged

LEMMA WitnessedNext ==
  TypeOK /\ Each /\ Emitted /\ Witnessed /\ [Next]_vars => Witnessed'
  <1> SUFFICES ASSUME TypeOK, Each, Emitted, Witnessed, [Next]_vars, FromTheStart',
                      NEW e \in Msg, stage'[e] \notin {"unused", "emitted"},
                      metadata'[e].causation # None
               PROVE  \E g \in Facts' : /\ Ended(g)
                                        /\ g.metadata.id = metadata'[e].causation
                                        /\ g.metadata.correlation = metadata'[e].correlation
    BY DEF Witnessed, Ended
  <1> DEFINE Seen(c, r) == \E g \in Facts : /\ Ended(g)
                                            /\ g.metadata.id = c
                                            /\ g.metadata.correlation = r
  <1>1. FromTheStart
    <2>1. observer' = observer
      BY NextIs, Active
         DEF AddSubscriber, RegisterEventHandler, Refuse, Return, Cancel, Call, vars, setup
    <2> QED
      BY <2>1 DEF FromTheStart
  <1>2. \A n \in Msg : stage[n] \notin {"unused", "emitted"} /\ metadata[n].causation # None =>
          Seen(metadata[n].causation, metadata[n].correlation)
    BY <1>1 DEF Witnessed
  <1>3. Seen(metadata'[e].causation, metadata'[e].correlation)
    <2>1. ASSUME NEW m \in Msg, NEW h \in Handler, NEW stamp \in Stamps, Emit(m, h, stamp)
          PROVE  Seen(metadata'[e].causation, metadata'[e].correlation)
      <3>1. stage[e] \notin {"unused", "emitted"} /\ metadata'[e] = metadata[e]
        BY <2>1 DEF Emit, TypeOK
      <3> QED
        BY <1>2, <3>1
    <2>2. ASSUME NEW m \in Msg, NEW h \in Handler, Collect(m, h)
          PROVE  Seen(metadata'[e].causation, metadata'[e].correlation)
      <3>1. metadata' = metadata /\ stage[m] = "handling"
        BY <2>2, Numbers DEF Collect, Delivered, Delivering
      <3>2. CASE e \notin EmittedBy(m, h)
        <4>1. stage[e] \notin {"unused", "emitted"}
          BY <2>2, <3>1, <3>2 DEF Collect, TypeOK
        <4> QED
          BY <1>2, <3>1, <4>1
      <3>3. CASE e \in EmittedBy(m, h)
        <4>1. e # 1 /\ stage[e] = "emitted" /\ by[e] = <<m, h>>
          BY <2>2, <3>3, HandsOver DEF EmittedBy
        <4>2. metadata[e] \in {ChildMetadata(e, metadata[m]), RootMetadata(e), metadata[m]}
          BY <4>1 DEF Emitted
        <4>3. PICK g \in Facts : Ended(g) /\ g.metadata = metadata[m]
          BY <1>1, <2>2, EndSeen
        <4>4. CASE metadata[e] = ChildMetadata(e, metadata[m])
          BY <3>1, <4>3, <4>4 DEF ChildMetadata
        <4>5. CASE metadata[e] = RootMetadata(e)
          BY <3>1, <4>5 DEF RootMetadata
        <4>6. CASE metadata[e] = metadata[m]
          BY <1>2, <3>1, <4>6
        <4> QED
          BY <4>2, <4>4, <4>5, <4>6
      <3> QED
        BY <3>2, <3>3
    <2>3. CASE ~\E m \in Msg, h \in Handler :
                   Collect(m, h) \/ \E stamp \in Stamps : Emit(m, h, stamp)
      <3>1. Steady
        BY <2>3, SteadySteps
      <3>2. CASE e = 1
        BY <3>1, <3>2 DEF Steady, Emitted
      <3>3. CASE e # 1
        <4>1. stage[e] \notin {"unused", "emitted"} /\ metadata' = metadata
          BY <3>1, <3>3 DEF Steady
        <4> QED
          BY <1>2, <4>1
      <3> QED
        BY <3>2, <3>3
    <2> QED
      BY <2>1, <2>2, <2>3
  <1> QED
    BY <1>3, FactsGrow

-----------------------------------------------------------------------------
(* The command and its follow-ups.                                         *)

LEMMA FinishedTold ==
  ASSUME Each
  PROVE  \A m \in Msg : FinishIn(m) => stage[m] \in {"finishing", "done", "cancelled"}
  BY DEF Each, Logged, FinishTold

\* No fact is told but by a delivery.
LEMMA FinishTells ==
  ASSUME TypeOK, [Next]_vars, NEW m \in Msg, FinishIn(m)', ~FinishIn(m)
  PROVE  Acts(m) /\ stage[m] = "finishing"
  <1>1. CASE \E c \in Courier, raises \in BOOLEAN : Deliver(c, raises)
    <2>1. PICK c \in Courier, raises \in BOOLEAN : Deliver(c, raises)
      BY <1>1
    <2>2. log'[m] # log[m]
      BY DEF FinishIn
    <2>3. m = c[1] /\ log'[m] = Append(log[m], FactOf(c))
      BY <2>1, <2>2, DeliverIs
    <2>4. ToSet(log'[m]) = ToSet(log[m]) \cup {FactOf(c)}
      <3>1. FactOf(c) \in Fact /\ log[m] \in Seq(Fact)
        BY <2>1, FactIs DEF Deliver, TypeOK
      <3> QED
        BY <2>3, <3>1, ElementsOfAppend
    <2>5. FactOf(c).kind = "DispatchFinished"
      BY <2>4 DEF FinishIn
    <2>6. stage[m] = "finishing"
      BY <2>1, <2>3, <2>5, FactIs DEF Deliver
    <2> QED
      BY <2>1, <2>3, <2>6 DEF Acts
  <1>2. CASE ~\E c \in Courier, raises \in BOOLEAN : Deliver(c, raises)
    <2>1. log' = log
      BY <1>2 DEF Next, AddSubscriber, RegisterEventHandler, Call, Refuse, Return, Cancel, Start,
                  Enter, Deflect, Complete, Finish, Run, Emit, End, Collect, vars
    <2> QED
      BY <2>1 DEF FinishIn
  <1> QED
    BY <1>1, <1>2

LEMMA QuietNext ==
  TypeOK /\ Each /\ Emitted /\ Quiet /\ [Next]_vars => Quiet'
  <1> SUFFICES ASSUME TypeOK, Each, Emitted, Quiet, [Next]_vars, op' = "send" PROVE Quiet'
    BY DEF Quiet
  <1> USE Numbers
  <1>1. FinishIn(1)' /\ ~FinishIn(1) => Acts(1) /\ stage[1] = "finishing"
    BY FinishTells
  <1>2. CASE AddSubscriber \/ RegisterEventHandler \/ Refuse \/ Return \/ UNCHANGED vars
    <2>1. stage' = stage /\ op' = op /\ log' = log
      BY <1>2 DEF AddSubscriber, RegisterEventHandler, Refuse, Return, vars, setup
    <2> QED
      BY <2>1 DEF Quiet, FinishIn, Over
  <1>3. ASSUME NEW o \in {"send", "publish"}, Call(o) PROVE Quiet'
    <2>1. \A m \in Msg : stage[m] = "unused"
      BY <1>3 DEF Call, Emitted
    <2>2. \A e \in Msg \ {1} : stage'[e] = "unused"
      BY <1>3, <2>1 DEF Call, TypeOK
    <2> QED
      BY <2>2 DEF Quiet, Over
  <1>4. CASE Cancel
    <2>1. op = "send" /\ FinishIn(1)' = FinishIn(1)
      BY <1>4 DEF Cancel, setup, FinishIn
    <2>2. /\ stage'[1] = stage[1] \/ stage'[1] = "cancelled"
          /\ \A e \in Msg : Over(e) => stage'[e] = stage[e]
      BY <1>4 DEF Cancel, Over
    <2>3. stage'[1] \in {"starting", "handling"} => \A e \in Msg \ {1} : stage'[e] = stage[e]
      <3> SUFFICES ASSUME stage'[1] \in {"starting", "handling"}, NEW e \in Msg \ {1}
                   PROVE  stage'[e] = stage[e]
        OBVIOUS
      <3>1. stage[e] \in {"unused", "emitted", "dropped"}
        BY <2>1, <2>2 DEF Quiet
      <3> QED
        BY <2>2, <3>1 DEF Over
    <2>4. stage'[1] \in {"finishing", "done"} \/ FinishIn(1)' =>
            \A e \in Msg \ {1} : Over(e) /\ stage'[e] = stage[e]
      BY <2>1, <2>2 DEF Quiet
    <2>5. stage'[1] \in {"starting", "handling"} => stage[1] \in {"starting", "handling"}
      BY <2>2
    <2> QED
      BY <2>1, <2>3, <2>4, <2>5 DEF Quiet, Over
  <1>5. ASSUME NEW m \in Msg \ {1}, Acts(m) PROVE Quiet'
    <2>1. ~Over(m) /\ op = "send"
      BY <1>5, Active
    <2>2. stage[1] \notin {"starting", "handling", "finishing", "done"} /\ ~FinishIn(1)
      BY <2>1 DEF Quiet, Over
    <2>3. stage[1] # "held"
      BY DEF Each, Placed
    <2>4. ~FinishIn(1)'
      BY <1>1, <2>2
    <2>5. stage'[1] \notin {"starting", "handling", "finishing", "done"}
      <3>1. ASSUME NEW h \in Handler, Collect(m, h) PROVE stage'[1] = stage[1]
        <4>1. 1 \notin EmittedBy(m, h)
          BY <3>1, HandsOver
        <4> QED
          BY <3>1, <4>1 DEF Collect
      <3>2. ASSUME NEW c \in Courier, NEW raises \in BOOLEAN, Deliver(c, raises)
            PROVE  stage'[1] = stage[1]
        BY <3>2, DeliverIs
      <3>3. ASSUME NEW h \in Handler,
                   \/ Run(m, h) \/ (\E stamp \in Stamps : Emit(m, h, stamp))
                   \/ \E r \in Ends : End(m, h, r)
            PROVE  stage'[1] = stage[1]
        BY <3>3 DEF Run, Emit, End, TypeOK
      <3>4. ASSUME \/ Start(m) \/ Enter(m) \/ (\E b \in Before : Deflect(m, b))
                   \/ (\E a \in After : Complete(m, a)) \/ Finish(m)
            PROVE  stage'[1] = stage[1]
        BY <2>3, <3>4 DEF Start, Enter, Deflect, Notify, Complete, Finish, TypeOK
      <3> QED
        BY <1>5, <2>2, <3>1, <3>2, <3>3, <3>4 DEF Acts
    <2> QED
      BY <2>4, <2>5 DEF Quiet
  <1>6. CASE Acts(1)
    <2>1. ~Over(1) /\ op = "send" /\ IsCommand(1)
      BY <1>6, Active DEF IsCommand
    <2>2. Each /\ stage[1] # "queued"
      BY <2>1 DEF Each, Placed
    <2>3. FinishIn(1)' => stage[1] \in {"finishing", "cancelled"}
      BY <1>1, <2>1, FinishedTold DEF Over
    <2>4. stage[1] \in {"starting", "handling"} =>
            \A e \in Msg \ {1} : stage[e] \in {"unused", "emitted", "dropped"}
      BY <2>1 DEF Quiet
    <2>5. stage[1] = "finishing" => \A e \in Msg \ {1} : Over(e)
      BY <2>1 DEF Quiet
    <2>6. ASSUME NEW c \in Courier, NEW raises \in BOOLEAN, c[1] = 1, Deliver(c, raises)
          PROVE  Quiet'
      <3>1. stage' = stage /\ stage[1] \in {"starting", "handling", "finishing"}
        BY <2>6, FactIs, DeliverIs DEF Deliver
      <3> QED
        BY <2>3, <2>4, <2>5, <3>1 DEF Quiet, Over
    <2>7. ASSUME \/ Enter(1) \/ (\E b \in Before : Deflect(1, b))
          PROVE  Quiet'
      <3>1. stage[1] = "starting" /\ \A e \in Msg \ {1} : stage'[e] = stage[e]
        BY <2>7 DEF Enter, Deflect, Notify, TypeOK
      <3> QED
        BY <2>4, <3>1 DEF Quiet, Over
    <2>8. ASSUME NEW a \in After, Complete(1, a) PROVE Quiet'
      <3>1. stage[1] = "handling" \/ \A e \in Msg \ {1} : Over(e)
        BY <2>1, <2>8 DEF Complete, Handled
      <3>2. \A e \in Msg \ {1} : stage[e] \in {"unused", "emitted", "done", "dropped"}
        BY <2>4, <3>1 DEF Over
      <3>3. \A e \in Msg \ {1} : stage'[e] = stage[e]
        BY <2>8, <3>2 DEF Complete
      <3>4. stage'[1] = "finishing"
        BY <2>8 DEF Complete
      <3> QED
        BY <3>2, <3>3, <3>4 DEF Quiet, Over
    <2>9. CASE Finish(1)
      <3>1. stage[1] = "finishing"
        BY <2>9 DEF Finish
      <3>2. \A e \in Msg \ {1} : stage[e] \in {"unused", "emitted", "done", "dropped"}
        BY <2>5, <3>1 DEF Over
      <3>3. \A e \in Msg \ {1} : stage'[e] = stage[e]
        BY <2>9, <3>2 DEF Finish
      <3>4. stage'[1] = "done"
        BY <2>9 DEF Finish
      <3> QED
        BY <3>2, <3>3, <3>4 DEF Quiet, Over
    <2>10. ASSUME NEW h \in Handler,
                  \/ Run(1, h) \/ (\E stamp \in Stamps : Emit(1, h, stamp))
                  \/ \E r \in Ends : End(1, h, r)
           PROVE  Quiet'
      <3>1. stage[1] = "handling"
        BY <2>10 DEF Run, Emit, End, Delivered, Delivering
      <3>2. stage'[1] = "handling" /\ \A e \in Msg : stage'[e] = stage[e] \/ stage'[e] = "emitted"
        BY <2>10, <3>1 DEF Run, Emit, End, TypeOK
      <3>3. ~FinishIn(1)'
        BY <2>3, <3>1
      <3> QED
        BY <2>4, <3>1, <3>2, <3>3 DEF Quiet
    <2>11. ASSUME NEW h \in Handler, Collect(1, h) PROVE Quiet'
      <3>1. stage[1] = "handling" /\ work[1][h] \in {"ok", "swallowed", "raised"}
        BY <2>11 DEF Collect, Delivered, Delivering
      <3>2. ~FinishIn(1)'
        BY <2>3, <3>1
      <3>3. 1 \notin EmittedBy(1, h)
        BY <2>11, HandsOver
      <3>4. CASE work[1][h] = "raised"
        <4>1. \A e \in Msg \ {1} : stage'[e] = stage[e] \/ stage'[e] = "dropped"
          BY <2>11, <3>4 DEF Collect, HandOver
        <4>2. stage'[1] = "handling"
          BY <2>11, <3>1, <3>3, <3>4 DEF Collect
        <4> QED
          BY <2>4, <3>1, <3>2, <4>1, <4>2 DEF Quiet
      <3>5. CASE work[1][h] # "raised"
        <4>1. stage'[1] = "following"
          BY <2>1, <2>11, <3>3, <3>5 DEF Collect
        <4> QED
          BY <3>2, <4>1 DEF Quiet
      <3> QED
        BY <3>4, <3>5
    <2>12. ~Start(1)
      BY <2>2 DEF Start
    <2> QED
      BY <1>6, <2>6, <2>7, <2>8, <2>9, <2>10, <2>11, <2>12 DEF Acts
  <1> QED
    BY <1>2, <1>3, <1>4, <1>5, <1>6, NextIs

LEMMA CallOverNext ==
  TypeOK /\ Each /\ Emitted /\ Quiet /\ CallOver /\ [Next]_vars => CallOver'
  <1> SUFFICES ASSUME TypeOK, Each, Emitted, Quiet, CallOver, [Next]_vars,
                      call' \in {"returned", "raised"}
               PROVE  CallOver'
    BY DEF CallOver
  <1>1. CASE Return
    <2>1. stage' = stage /\ success' = success /\ op' = op
      BY <1>1 DEF Return, setup
    <2>2. \A m \in Msg : Over(m)
      <3>1. CASE op = "send"
        <4>1. stage[1] = "done"
          BY <1>1, <3>1 DEF Return
        <4> QED
          BY <3>1, <4>1 DEF Quiet, Over
      <3>2. CASE op # "send"
        BY <1>1, <3>2 DEF Return
      <3> QED
        BY <3>1, <3>2
    <2>3. (call' = "raised") = (~success[1] \/ (op = "publish" /\ \E m \in Msg : ~success[m]))
      BY <1>1 DEF Return
    <2> QED
      BY <2>1, <2>2, <2>3 DEF CallOver, Over
  <1>2. CASE AddSubscriber \/ RegisterEventHandler \/ UNCHANGED vars
    <2>1. stage' = stage /\ success' = success /\ op' = op /\ call' = call
      BY <1>2 DEF AddSubscriber, RegisterEventHandler, vars, setup
    <2> QED
      BY <2>1 DEF CallOver, Over
  <1>3. ASSUME NEW m \in Msg, Acts(m) PROVE FALSE
    <2>1. ~Over(m) /\ call' = call
      BY <1>3, Active
    <2> QED
      BY <2>1 DEF CallOver
  <1>4. ASSUME Refuse \/ Cancel \/ \E o \in {"send", "publish"} : Call(o) PROVE FALSE
    BY <1>4 DEF Refuse, Cancel, Call
  <1> QED
    BY <1>1, <1>2, <1>3, <1>4, NextIs

-----------------------------------------------------------------------------
(* The theorems.                                                           *)

LEMMA InvInit == Init => IInv
  <1> SUFFICES ASSUME Init PROVE IInv
    OBVIOUS
  <1>1. TypeOK /\ Each
    BY TypeInit, EachInit
  <1>2. \A m \in Msg : stage[m] = "unused" /\ by[m] = <<None, None>>
    BY DEF Init
  <1>3. metadata[1].causation = None
    BY Numbers DEF Init, RootMetadata
  <1>4. Emitted
    BY <1>2, <1>3 DEF Emitted
  <1>5. Witnessed
    BY <1>2 DEF Witnessed
  <1>6. Quiet
    BY <1>2 DEF Quiet, Over
  <1>7. CallOver
    BY DEF Init, CallOver
  <1> QED
    BY <1>1, <1>4, <1>5, <1>6, <1>7 DEF IInv

LEMMA InvNext == IInv /\ [Next]_vars => IInv'
  <1> SUFFICES ASSUME IInv, [Next]_vars PROVE IInv'
    OBVIOUS
  <1>1. TypeOK /\ Each /\ Emitted /\ Witnessed /\ Quiet /\ CallOver
    BY DEF IInv
  <1>2. TypeOK'
    BY <1>1, TypeNext
  <1>3. Each'
    BY <1>1, <1>2, EachNext
  <1>4. Emitted' /\ Witnessed' /\ Quiet' /\ CallOver'
    BY <1>1, EmittedNext, WitnessedNext, QuietNext, CallOverNext
  <1> QED
    BY <1>2, <1>3, <1>4 DEF IInv

LEMMA InvHolds == Spec => []IInv
  BY InvInit, InvNext, PTL DEF Spec

\* Every variable keeps to its values, whatever is added to the bus meanwhile: no
\* courier gets beyond the end of the longest list of subscribers, and whatever is
\* delivered is a fact.
THEOREM TypeCorrect == Spec => []TypeOK
  BY TypeInit, TypeNext, PTL DEF Spec

\* To a subscriber from the start each dispatch is a bracket around the facts of its
\* handlers, all of it once, and the finish follows all or none of the handlers
\* that were announced (dispatch_tree.py:337-392, handler_runtime.py:60-119).
THEOREM Brackets == Spec => []FactsBracketed
  <1>1. IInv => FactsBracketed
    BY DEF IInv, Each, Told, Bracketed, FactsBracketed
  <1> QED
    BY <1>1, InvHolds, PTL

\* Whatever such a subscriber sees of a message with a cause, it has seen a handler
\* of the cause end before; and after the finish of a command it sees nothing
\* (dispatch_tree.py:104-119, 192-218, messages.py:34-85).
THEOREM CausesFirst == Spec => CauseSeenFirst
  <1> DEFINE A ==
        \A m \in Msg : FromTheStart /\ log'[m] # log[m] =>
          LET f == Last(log'[m]).metadata IN
          /\ f.causation # None =>
               \E g \in Facts : /\ Ended(g)
                               /\ g.metadata.id = f.causation
                               /\ g.metadata.correlation = f.correlation
          /\ \A g \in Facts : ~(g.kind = "DispatchFinished" /\ IsCommand(g.dispatch))
  <1>1. IInv /\ [Next]_vars => [A]_log
    <2> SUFFICES ASSUME IInv, [Next]_vars, NEW m \in Msg, FromTheStart, log'[m] # log[m]
                 PROVE  LET f == Last(log'[m]).metadata IN
                        /\ f.causation # None =>
                             \E g \in Facts : /\ Ended(g)
                                             /\ g.metadata.id = f.causation
                                             /\ g.metadata.correlation = f.correlation
                        /\ \A g \in Facts : ~(g.kind = "DispatchFinished" /\ IsCommand(g.dispatch))
      OBVIOUS
    <2>1. TypeOK /\ Each /\ Witnessed /\ Quiet
      BY DEF IInv
    <2>2. PICK c \in Courier, raises \in BOOLEAN : Deliver(c, raises)
      BY DEF Next, AddSubscriber, RegisterEventHandler, Call, Refuse, Return, Cancel, Start,
             Enter, Deflect, Complete, Finish, Run, Emit, End, Collect, vars
    <2>3. /\ c[1] = m /\ log'[m] = Append(log[m], FactOf(c)) /\ place[c] = observer /\ ~Passed(c)
          /\ Delivering(c)
      BY <2>1, <2>2, DeliverIs DEF Deliver
    <2>4. FactOf(c) \in Fact /\ log[m] \in Seq(Fact) /\ FactOf(c).metadata = metadata[m]
      BY <2>1, <2>3, FactIs DEF TypeOK
    <2>5. Last(log'[m]).metadata = metadata[m]
      <3>1. Last(log'[m]) = FactOf(c)
        BY <2>3, <2>4 DEF Last
      <3> QED
        BY <2>4, <3>1
    <2>6. stage[m] \in {"starting", "finishing", "handling"} /\ (stage[m] = "finishing" => c = <<m, None>>)
      BY <2>1, <2>3, FactIs
    <2>7. metadata[m].causation # None =>
            \E g \in Facts : /\ Ended(g)
                            /\ g.metadata.id = metadata[m].causation
                            /\ g.metadata.correlation = metadata[m].correlation
      BY <2>1, <2>6 DEF Witnessed
    <2>8. ASSUME NEW g \in Facts, g.kind = "DispatchFinished", IsCommand(g.dispatch) PROVE FALSE
      <3>1. g \in ToSet(log[1])
        <4>1. PICK n \in Msg : g \in ToSet(log[n])
          BY DEF Facts
        <4>2. g.dispatch = n
          BY <2>1, <4>1 DEF Each, Logged
        <4> QED
          BY <2>8, <4>1, <4>2 DEF IsCommand
      <3>2. FinishIn(1)
        BY <2>8, <3>1 DEF FinishIn
      <3>3. op = "send"
        BY <2>8 DEF IsCommand
      <3>4. m = 1
        BY <2>1, <2>6, <3>2, <3>3 DEF Quiet, Over
      <3>5. stage[1] = "finishing"
        BY <2>1, <2>6, <3>2, <3>4, FinishedTold
      <3>6. ~FinishTold(1)
        BY <2>3, <2>6, <3>4, <3>5 DEF FinishTold
      <3> QED
        BY <2>1, <3>2, <3>5, <3>6, Numbers DEF Each, Logged
    <2> QED
      BY <2>5, <2>7, <2>8
  <1> QED
    BY <1>1, InvHolds, PTL DEF Spec, CauseSeenFirst

\* The lines about the end of dispatches.
LEMMA DoneLines ==
  ASSUME TypeOK
  PROVE  /\ \A l \in Lines : \E f \in Facts :
              /\ f.dispatch = l.dispatch_id /\ f.success = l.success
              /\ l.word = "DISPATCH DONE" => f.kind = "DispatchFinished"
         /\ \A f \in Facts : f.kind = "DispatchFinished" =>
              \E l \in Lines : /\ l.word = "DISPATCH DONE" /\ l.dispatch_id = f.dispatch
                                /\ l.success = f.success
  <1>1. Facts \subseteq Fact
    <2>1. \A m \in Msg : log[m] \in Seq(Fact)
      BY DEF TypeOK
    <2>2. \A m \in Msg : ToSet(log[m]) \subseteq Fact
      BY <2>1, ElementsOf
    <2> QED
      BY <2>2 DEF Facts
  <1>2. \A l : l \in Lines <=> \E f \in Facts : l = Line(f)
    BY DEF Lines, Shown
  <1>3. ASSUME NEW f \in Facts
        PROVE  /\ Line(f).dispatch_id = f.dispatch /\ Line(f).success = f.success
               /\ Line(f).word = "DISPATCH DONE" <=> f.kind = "DispatchFinished"
    <2>1. f.kind \in {"DispatchStarted", "DispatchFinished", "HandlerStarted", "HandlerFinished",
                      "HandlerFailed"}
      BY <1>1 DEF Fact
    <2> QED
      BY <2>1 DEF Line
  <1>4. ASSUME NEW l \in Lines
        PROVE  \E f \in Facts : /\ f.dispatch = l.dispatch_id /\ f.success = l.success
                                /\ l.word = "DISPATCH DONE" => f.kind = "DispatchFinished"
    <2>1. PICK f \in Facts : l = Line(f)
      BY <1>2
    <2> QED
      BY <1>3, <2>1
  <1>5. ASSUME NEW f \in Facts, f.kind = "DispatchFinished"
        PROVE  \E l \in Lines : /\ l.word = "DISPATCH DONE" /\ l.dispatch_id = f.dispatch
                                /\ l.success = f.success
    <2>1. Line(f) \in Lines
      BY <1>2
    <2> QED
      BY <1>3, <1>5, <2>1
  <1> QED
    BY <1>4, <1>5

\* After a call that was not cancelled every dispatch that is shown is shown as done,
\* and to a subscriber from the start without success exactly if the call raised
\* (dispatch_tree.py:349-357, debug.py:82-145).
THEOREM OutcomeTold == Spec => []OutcomeShown
  <1>1. IInv => OutcomeShown
    <2> SUFFICES ASSUME IInv, call \in {"returned", "raised", "refused"} PROVE OutcomeShown
      BY DEF OutcomeShown
    <2> DEFINE done == {l \in Lines : l.word = "DISPATCH DONE"}
    <2>1. TypeOK /\ Each /\ Emitted /\ CallOver
      BY DEF IInv
    <2>2. \A m \in Msg : Over(m)
      BY <2>1 DEF Emitted, CallOver, Over
    <2>3. {l.dispatch_id : l \in Lines} = {l.dispatch_id : l \in done}
      <3>1. ASSUME NEW l \in Lines PROVE \E k \in done : k.dispatch_id = l.dispatch_id
        <4>1. PICK f \in Facts : f.dispatch = l.dispatch_id
          BY <2>1, DoneLines
        <4>2. PICK m \in Msg : f \in ToSet(log[m])
          BY DEF Facts
        <4>3. f.dispatch = m /\ log[m] # <<>>
          <5>1. f.dispatch = m
            BY <2>1, <4>2 DEF Each, Logged
          <5>2. log[m] \in Seq(Fact)
            BY <2>1 DEF TypeOK
          <5> QED
            BY <4>2, <5>1, <5>2, ElementsOf
        <4>4. FinishIn(m)
          BY <2>1, <2>2, <4>3 DEF Each, Placed, Logged, Over, Waiting
        <4>5. PICK g \in ToSet(log[m]) : g.kind = "DispatchFinished"
          BY <4>4 DEF FinishIn
        <4>6. g \in Facts /\ g.dispatch = m
          BY <2>1, <4>5 DEF Each, Logged, Facts
        <4>7. PICK k \in Lines : k.word = "DISPATCH DONE" /\ k.dispatch_id = g.dispatch
          BY <2>1, <4>5, <4>6, DoneLines
        <4> QED
          BY <4>1, <4>3, <4>6, <4>7
      <3> QED
        BY <3>1
    <2>4. ASSUME FromTheStart, call # "refused"
          PROVE  (call = "raised") = \E l \in done : ~l.success /\ (op = "send" => l.dispatch_id = 1)
      <3>1. (call = "raised") = (~success[1] \/ (op = "publish" /\ \E m \in Msg : ~success[m]))
        BY <2>1, <2>4 DEF CallOver
      <3>2. ASSUME NEW m \in Msg, ~success[m]
            PROVE  \E l \in done : ~l.success /\ l.dispatch_id = m
        <4>1. stage[m] = "done" /\ Tagged(m)
          BY <2>1, <2>2, <2>4, <3>2 DEF Each, Placed, Told, Over
        <4>2. <<"DispatchFinished", None>> \in Expected(m)
          BY <4>1, ExpectedHas DEF FinishTold
        <4>3. PICK i \in DOMAIN log[m] : Tag(log[m][i]) = <<"DispatchFinished", None>>
          BY <4>1, <4>2 DEF Tagged
        <4>4. log[m][i].kind = "DispatchFinished"
          <5>1. (IF Ended(log[m][i]) THEN "Ended" ELSE log[m][i].kind) = "DispatchFinished"
            BY <4>3 DEF Tag
          <5> QED
            BY <5>1
        <4>5. log[m][i] \in ToSet(log[m])
          BY DEF ToSet
        <4>6. log[m][i] \in Facts /\ log[m][i].dispatch = m /\ log[m][i].success = success[m]
          BY <2>1, <4>4, <4>5 DEF Each, Logged, Facts
        <4>7. PICK l \in Lines : /\ l.word = "DISPATCH DONE" /\ l.dispatch_id = m
                                 /\ l.success = success[m]
          BY <2>1, <4>4, <4>6, DoneLines
        <4> QED
          BY <3>2, <4>7
      <3>3. ASSUME NEW l \in done, ~l.success
            PROVE  l.dispatch_id \in Msg /\ ~success[l.dispatch_id]
        <4>1. PICK f \in Facts : /\ f.dispatch = l.dispatch_id /\ f.success = l.success
                                 /\ f.kind = "DispatchFinished"
          BY <2>1, DoneLines
        <4>2. PICK m \in Msg : f \in ToSet(log[m])
          BY DEF Facts
        <4>3. f.dispatch = m /\ f.success = success[m]
          BY <2>1, <4>1, <4>2 DEF Each, Logged
        <4>4. l.dispatch_id = m /\ l.success = success[m]
          BY <4>1, <4>3
        <4> QED
          BY <3>3, <4>4
      <3>4. op \in {"send", "publish"} /\ 1 \in Msg
        BY <2>1, Numbers DEF TypeOK
      <3>5. ASSUME call = "raised"
            PROVE  \E l \in done : ~l.success /\ (op = "send" => l.dispatch_id = 1)
        <4>1. CASE ~success[1]
          BY <3>2, <3>4, <4>1
        <4>2. CASE op = "publish" /\ \E m \in Msg : ~success[m]
          BY <3>2, <4>2
        <4> QED
          BY <3>1, <3>5, <4>1, <4>2
      <3>6. ASSUME NEW l \in done, ~l.success, op = "send" => l.dispatch_id = 1
            PROVE  call = "raised"
        BY <3>1, <3>3, <3>4, <3>6
      <3> QED
        BY <3>5, <3>6
    <2> HIDE DEF done
    <2> QED
      BY <2>3, <2>4 DEF OutcomeShown, done
  <1> QED
    BY <1>1, InvHolds, PTL

=============================================================================
