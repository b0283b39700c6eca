------------------------- MODULE DispatchTreeProofs -------------------------
(***************************************************************************)
(* Proofs about DispatchTree, for any number of messages and handlers.     *)
(*                                                                         *)
(* A tree grows at its leaves, messages being numbered as they are emitted *)
(* and each handed over by a message of a smaller number.  What an event   *)
(* has not begun it has not left traces of; what is handed over is queued  *)
(* at once or, in the sequential loop, when its dispatch is over.          *)
(***************************************************************************)
EXTENDS DispatchTree, SequenceLemmas

\* Messages whose final handler has not been called.
Fresh(m) == stage[m] \in {"unused", "emitted", "queued", "dropped", "started"}

\* The loop over the handlers of m has taken the result of h.
Collected(m, h) ==
  handling[m][h] \in {"ok", "swallowed", "raised", "drain"} /\ h \notin ToSet(ended[m])

\* No BusDrainingError has ended a task before those of its follow-ups.
Whole == \A m \in Msg : ~Drained(m)

\* Events that hold an admission of their own.
Inside == {m \in Msg \ {1} : stage[m] \in {"started", "handling"}}

Types ==
  /\ op \in {"send", "publish"}
  /\ call \in {"none", "waiting", "returned", "cancelled"}
  /\ report.kind \in Kind /\ report.failures \in Seq(Failure)
  /\ stage \in [Msg -> Stage]
  /\ by \in [Msg -> (Msg \cup {0}) \X (Handler \cup {0})]
  /\ handling \in [Msg -> [Handler -> {"none", "running", "ok", "swallowed", "raised", "drain"}]]
  /\ ended \in [Msg -> Seq(Handler)]
  /\ follow \in [Msg -> Seq(Msg)]
  /\ failed \in [Msg -> Seq(Failure)]
  /\ threw \in [Msg -> Kind]
  /\ pending \in Seq(Msg)
  /\ mid \in [Msg -> Before \cup After \cup {"pass"}]
  /\ state \in {"OPEN", "DRAINING", "CLOSED"}
  /\ closer \in {"idle", "started", "waiting", "woken", "closed"}

-----------------------------------------------------------------------------
(* The operators of the model.                                             *)

LEMMA Numbers ==
  /\ Msg \subseteq Nat \ {0} /\ 1 \in Msg /\ IsFiniteSet(Msg)
  /\ Handler \subseteq Nat \ {0} /\ 1 \in Handler
  BY TreeAssumption, FS_Interval DEF Msg, Handler

LEMMA InOrders ==
  ASSUME NEW S \in SUBSET Msg
  PROVE  /\ InOrder(S) \in Seq(Msg) /\ ToSet(InOrder(S)) = S /\ IsInjective(InOrder(S))
         /\ \A i, j \in DOMAIN InOrder(S) : i < j => InOrder(S)[i] < InOrder(S)[j]
  <1>1. S \in SUBSET Nat /\ IsFiniteSet(S)
    BY Numbers, FS_Subset
  <1>2. \E s \in SetToSeqs(S) : \A i, j \in DOMAIN s : i < j => s[i] < s[j]
    BY <1>1, Sorts
  <1>3. /\ InOrder(S) \in SetToSeqs(S)
        /\ \A i, j \in DOMAIN InOrder(S) : i < j => InOrder(S)[i] < InOrder(S)[j]
    BY <1>2 DEF InOrder
  <1>4. InOrder(S) \in Seq(S) /\ ToSet(InOrder(S)) = S /\ IsInjective(InOrder(S))
    BY <1>1, <1>3, Enumerates
  <1>5. InOrder(S) \in Seq(Msg)
    BY <1>4, SeqMonotonic
  <1> QED
    BY <1>3, <1>4, <1>5

LEMMA Outcomes ==
  ASSUME NEW m \in Msg, NEW h \in Handler
  PROVE  /\ Outcome(m, h) \in Seq(Msg) /\ IsInjective(Outcome(m, h))
         /\ ToSet(Outcome(m, h)) =
              {e \in Msg : by[e] = <<m, h>> /\ handling[m][h] \in {"ok", "swallowed"}}
         /\ \A i, j \in DOMAIN Outcome(m, h) : i < j => Outcome(m, h)[i] < Outcome(m, h)[j]
  <1>1. CASE handling[m][h] \in {"ok", "swallowed"}
    <2>1. Outcome(m, h) = InOrder({e \in Msg : by[e] = <<m, h>>})
      BY <1>1 DEF Outcome
    <2> QED
      BY <1>1, <2>1, InOrders
  <1>2. CASE handling[m][h] \notin {"ok", "swallowed"}
    <2>1. Outcome(m, h) = <<>>
      BY <1>2 DEF Outcome
    <2> QED
      BY <1>2, <2>1 DEF ToSet, IsInjective
  <1> QED
    BY <1>1, <1>2

LEMMA FailuresTyped ==
  ASSUME Types, NEW events \in Seq(Msg)
  PROVE  /\ FailuresOf(events) \in Seq(Failure)
         /\ ToSet(FailuresOf(events)) = UNION {ToSet(failed[m]) : m \in ToSet(events)}
         /\ IsInjective(events)
              /\ (\A m \in ToSet(events) : IsInjective(failed[m]))
              /\ (\A d, e \in ToSet(events) : d # e => ToSet(failed[d]) \cap ToSet(failed[e]) = {})
            => IsInjective(FailuresOf(events))
  <1> DEFINE seqs == [i \in DOMAIN events |-> failed[events[i]]]
  <1>1. /\ DOMAIN events = 1..Len(events) /\ Len(events) \in Nat
        /\ \A i \in 1..Len(events) : events[i] \in Msg
        /\ ToSet(events) = {events[i] : i \in 1..Len(events)}
    BY ElementsOf
  <1>2. seqs \in Seq(Seq(Failure)) /\ Len(seqs) = Len(events)
    <2>1. seqs \in [1..Len(events) -> Seq(Failure)]
      BY <1>1 DEF Types
    <2> QED
      BY <1>1, <2>1
  <1>3. \A i \in 1..Len(events) : seqs[i] = failed[events[i]]
    BY <1>1
  <1> HIDE DEF seqs
  <1>4. /\ FlattenSeq(seqs) \in Seq(Failure)
        /\ ToSet(FlattenSeq(seqs)) = UNION {ToSet(seqs[i]) : i \in 1..Len(seqs)}
        /\ (\A i \in 1..Len(seqs) : IsInjective(seqs[i]))
             /\ (\A i, j \in 1..Len(seqs) : i # j => ToSet(seqs[i]) \cap ToSet(seqs[j]) = {})
           => IsInjective(FlattenSeq(seqs))
    BY <1>2, Flattens
  <1>5. FailuresOf(events) = FlattenSeq(seqs)
    BY DEF FailuresOf, seqs
  <1>6. UNION {ToSet(seqs[i]) : i \in 1..Len(seqs)} = UNION {ToSet(failed[m]) : m \in ToSet(events)}
    <2>1. ASSUME NEW i \in 1..Len(seqs) PROVE \E m \in ToSet(events) : ToSet(seqs[i]) = ToSet(failed[m])
      BY <1>1, <1>2, <1>3
    <2>2. ASSUME NEW m \in ToSet(events) PROVE \E i \in 1..Len(seqs) : ToSet(seqs[i]) = ToSet(failed[m])
      BY <1>1, <1>2, <1>3
    <2> QED
      BY <2>1, <2>2
  <1>7. ASSUME IsInjective(events),
               \A m \in ToSet(events) : IsInjective(failed[m]),
               \A d, e \in ToSet(events) : d # e => ToSet(failed[d]) \cap ToSet(failed[e]) = {}
        PROVE  IsInjective(FlattenSeq(seqs))
    <2>1. \A i \in 1..Len(seqs) : IsInjective(seqs[i])
      BY <1>1, <1>2, <1>3, <1>7
    <2>2. ASSUME NEW i \in 1..Len(seqs), NEW j \in 1..Len(seqs), i # j
          PROVE  ToSet(seqs[i]) \cap ToSet(seqs[j]) = {}
      <3>1. events[i] # events[j] /\ events[i] \in ToSet(events) /\ events[j] \in ToSet(events)
        BY <1>1, <1>2, <1>7, <2>2 DEF IsInjective
      <3>2. seqs[i] = failed[events[i]] /\ seqs[j] = failed[events[j]]
        BY <1>2, <1>3
      <3> QED
        BY <3>1, <3>2, <1>7
    <2> QED
      BY <1>4, <2>1, <2>2
  <1> QED
    BY <1>4, <1>5, <1>6, <1>7

LEMMA PublicationTyped ==
  ASSUME Types, NEW events \in Seq(Msg)
  PROVE  /\ Taken(events) \in Seq(Msg)
         /\ Publication(events).kind \in {"no", "failures", "drain"}
         /\ Publication(events).failures \in Seq(Failure)
         /\ Publication(events).kind = "drain" =>
              \E f \in ToSet(FailuresOf(Taken(events))) :
                Alone(f) /\ Publication(events).failures = <<f>>
  <1>1. Taken(events) \in Seq(Msg)
    BY InOrders DEF Taken
  <1> DEFINE failures == FailuresOf(Taken(events))
             first == CHOOSE f \in ToSet(failures) : Alone(f)
  <1>2. failures \in Seq(Failure) /\ ToSet(failures) \subseteq Failure
    BY <1>1, FailuresTyped, ElementsOf
  <1>3. Publication(events) =
          IF \E f \in ToSet(failures) : Alone(f)
          THEN [kind |-> "drain", failures |-> <<first>>]
          ELSE [kind |-> IF failures = <<>> THEN "no" ELSE "failures", failures |-> failures]
    BY DEF Publication
  <1>4. (\E f \in ToSet(failures) : Alone(f)) => first \in ToSet(failures) /\ Alone(first)
    OBVIOUS
  <1> HIDE DEF failures, first
  <1>5. CASE \E f \in ToSet(failures) : Alone(f)
    <2>1. <<first>> \in Seq(Failure)
      BY <1>2, <1>4, <1>5
    <2> QED
      BY <1>1, <1>3, <1>4, <1>5, <2>1 DEF failures
  <1>6. CASE ~ \E f \in ToSet(failures) : Alone(f)
    BY <1>1, <1>2, <1>3, <1>6
  <1> QED
    BY <1>5, <1>6

LEMMA RaisedTyped ==
  ASSUME Types, NEW m \in Msg
  PROVE  Raised(m).kind \in Kind /\ Raised(m).failures \in Seq(Failure)
  <1>1. <<<<m, 1>>>> \in Seq(Failure)
    BY Numbers DEF Failure
  <1>2. follow[m] \in Seq(Msg) /\ failed[m] \in Seq(Failure)
    BY DEF Types
  <1> QED
    BY <1>1, <1>2, PublicationTyped DEF Raised, Kind

-----------------------------------------------------------------------------
(* The inductive invariant.                                                *)

\* Messages are numbered one after another; each event was emitted by a handler of
\* a message before it.
Numbering ==
  /\ \A m, e \in Msg : stage[m] = "unused" /\ m < e => stage[e] = "unused"
  /\ (call = "none") = (stage[1] = "unused")
  /\ stage[1] # "emitted"
  /\ IsCommand(1) => stage[1] \notin {"queued", "dropped"}
  /\ \A e \in Msg : stage[e] = "unused" \/ e = 1 => by[e] = <<0, 0>>
  /\ \A e \in Msg : stage[e] # "unused" /\ e # 1 =>
       /\ by[e] \in Msg \X Handler
       /\ by[e][1] < e
       /\ handling[by[e][1]][by[e][2]] # "none"

\* What the stage of a message tells of its handlers.
Handlers ==
  /\ \A m \in Msg : Fresh(m) =>
       /\ \A h \in Handler : handling[m][h] = "none"
       /\ ended[m] = <<>> /\ follow[m] = <<>> /\ failed[m] = <<>> /\ mid[m] = "pass"
  /\ \A m \in Msg :
       /\ IsInjective(ended[m])
       /\ \A h \in ToSet(ended[m]) : handling[m][h] \in {"ok", "swallowed", "raised", "drain"}
  /\ IsCommand(1) => \A h \in Handler \ {1} : handling[1][h] = "none"
  /\ \A m \in Msg : stage[m] \in {"following", "collecting", "done"} =>
       ended[m] = <<>> /\ \A h \in Handler : handling[m][h] # "running"
  /\ \A m \in Msg : stage[m] = "following" => IsCommand(m)
  /\ \A m \in Msg : stage[m] = "collecting" => ~Sequential /\ ~IsCommand(m)
  /\ \A m \in Msg : threw[m] # "no" => stage[m] \in {"collecting", "done"}
  /\ \A m \in Msg : Drained(m) => stage[m] = "done"

\* A message has the follow-ups of the outcomes taken; the others stay where they
\* were emitted, and so do, in the sequential loop, those of a dispatch under way.
FollowUps ==
  /\ \A m \in Msg : IsInjective(follow[m])
  /\ \A m, e \in Msg : e \in ToSet(follow[m]) <=>
       by[e][1] = m /\ Collected(m, by[e][2]) /\ ~Fails(m, by[e][2])
  /\ \A e \in Msg : stage[e] # "unused" /\ e # 1 /\ e \notin ToSet(follow[by[e][1]]) =>
       stage[e] = "emitted"
  /\ \A m \in Msg : \A e \in ToSet(follow[m]) :
       stage[e] = "emitted" <=> Sequential /\ ~IsCommand(m) /\ stage[m] = "handling"

\* The queue of the sequential loop, which dispatches one event at a time.
Queue ==
  /\ ~Sequential => pending = <<>> /\ \A m \in Msg : stage[m] # "dropped"
  /\ Sequential =>
       /\ \A m \in Msg : stage[m] = "queued" <=> m \in ToSet(pending)
       /\ IsInjective(pending)
       /\ \A m, e \in Msg : Running(m) /\ Running(e) => m = e
       /\ IsCommand(1) /\ stage[1] \in {"started", "handling"} =>
            \A m \in Msg \ {1} : stage[m] \in {"unused", "emitted"}

\* What the call tells of the tree.
Calls ==
  /\ call # "cancelled" => \A m \in Msg : stage[m] # "cancelled"
  /\ (call = "returned" /\ (Sequential \/ Whole)) \/ (Sequential /\ call = "cancelled") =>
       \A m \in Msg : ~Active(m)
  /\ call = "waiting" /\ IsCommand(1) /\ stage[1] = "done" /\ (Sequential \/ Whole) =>
       \A m \in Msg : ~Active(m)
  /\ \A m \in Msg : stage[m] = "dropped" =>
       call = "cancelled" \/ ~Whole \/ (m # 1 /\ threw[by[m][1]] = "error")

\* The counter of admissions, and how far closing is.
Closing ==
  /\ inFlight = (IF call = "waiting" THEN 1 ELSE 0) + Cardinality(Inside)
  /\ (state = "OPEN") = (closer = "idle")
  /\ (state = "CLOSED") = (closer = "closed")
  /\ closer \in {"woken", "closed"} => call # "waiting"
  /\ (\E m \in Msg : Drained(m)) => call = "cancelled" \/ "drain" \in Before \cup After

\* In concurrent mode a message is over when its follow-ups are.
Tree ==
  ~Sequential /\ Whole /\ call # "cancelled" =>
    \A m \in Msg : stage[m] = "done" => \A e \in ToSet(follow[m]) : stage[e] = "done"

IInv ==
  Types /\ Numbering /\ Handlers /\ FollowUps /\ Queue /\ Calls /\ Closing /\ Tree

\* The final handler of m is over, or was never reached, and the pipeline with it.
Finishing(m) ==
  /\ stage[m] = "started" \/ Handled(m)
  /\ \E kind \in Kind, failures \in Seq(Failure) :
       /\ Finish(m, kind, failures)
       /\ kind = "drain" => IsCommand(m) \/ "drain" \in Before \cup After
  /\ \E x \in Before \cup After : mid' = [mid EXCEPT ![m] = x]
  /\ ended' = [ended EXCEPT ![m] = <<>>]
  /\ UNCHANGED <<callVars, by, handling, follow>>

LEMMA InvInit == Init => IInv
  <1> SUFFICES ASSUME Init PROVE IInv
    OBVIOUS
  <1> USE Numbers
  <1>1. Types
    <2>1. <<>> \in Seq(Handler) /\ <<>> \in Seq(Msg) /\ <<>> \in Seq(Failure)
      OBVIOUS
    <2> QED
      BY <2>1 DEF Init, Types, Kind, Stage
  <1>2. \A m \in Msg : /\ stage[m] = "unused" /\ by[m] = <<0, 0>> /\ threw[m] = "no"
                       /\ ended[m] = <<>> /\ follow[m] = <<>> /\ failed[m] = <<>>
                       /\ mid[m] = "pass" /\ \A h \in Handler : handling[m][h] = "none"
    BY DEF Init
  <1>3. ToSet(<<>>) = {} /\ IsInjective(<<>>) /\ DOMAIN <<>> = {}
    BY DEF ToSet, IsInjective
  <1>4. Numbering
    BY <1>2 DEF Init, Numbering
  <1>5. Handlers
    BY <1>2, <1>3 DEF Init, Handlers, Drained
  <1>6. FollowUps
    BY <1>2, <1>3 DEF Init, FollowUps, Collected
  <1>7. Queue
    BY <1>2, <1>3 DEF Init, Queue, Running
  <1>8. Calls
    BY <1>2 DEF Init, Calls
  <1>9. Closing
    <2>1. Inside = {}
      BY <1>2 DEF Inside
    <2> QED
      BY <1>2, <2>1, FS_EmptySet DEF Init, Closing, Drained
  <1>10. Tree
    BY <1>2 DEF Init, Tree
  <1> QED
    BY <1>1, <1>4, <1>5, <1>6, <1>7, <1>8, <1>9, <1>10 DEF IInv

-----------------------------------------------------------------------------
(* Types.                                                                  *)

\* Deflect and Complete end a dispatch alike.
LEMMA DeflectFinishes ==
  ASSUME Types, Handlers, NEW m \in Msg, NEW b \in Before, Deflect(m, b)
  PROVE  Finishing(m)
  <1>1. <<>> \in Seq(Failure) /\ NoHandler(m) \in Seq(Failure)
    BY DEF Failure, NoHandler
  <1>2. ended' = [ended EXCEPT ![m] = <<>>]
    <2>1. ended[m] = <<>> /\ ended \in [Msg -> Seq(Handler)]
      BY DEF Deflect, Handlers, Fresh, Types
    <2> QED
      BY <2>1 DEF Deflect
  <1>3. PICK kind \in Kind, failures \in Seq(Failure) :
          Finish(m, kind, failures) /\ (kind = "drain" => b = "drain")
    <2>1. CASE b = "skip"
      BY <1>1, <2>1 DEF Deflect, Kind
    <2>2. CASE b = "raise"
      BY <1>1, <2>2 DEF Deflect, Kind
    <2>3. CASE b \notin {"skip", "raise"}
      <3>1. b = "drain"
        BY <2>3, TreeAssumption DEF Deflect
      <3> QED
        BY <1>1, <3>1 DEF Deflect, Kind
    <2> QED
      BY <2>1, <2>2, <2>3
  <1>4. kind = "drain" => "drain" \in Before \cup After
    BY <1>3
  <1> HIDE DEF Finishing
  <1> QED
    BY <1>2, <1>3, <1>4 DEF Deflect, Finishing

LEMMA CompleteFinishes ==
  ASSUME Types, NEW m \in Msg, NEW a \in After, Complete(m, a)
  PROVE  Finishing(m)
  <1>1. <<>> \in Seq(Failure) /\ NoHandler(m) \in Seq(Failure)
    BY DEF Failure, NoHandler
  <1>2. Raised(m).kind \in Kind /\ Raised(m).failures \in Seq(Failure)
    BY RaisedTyped
  <1>3. Raised(m).kind = "drain" => IsCommand(m)
    BY DEF Raised
  <1>4. PICK kind \in Kind, failures \in Seq(Failure) :
          /\ Finish(m, kind, failures)
          /\ kind = "drain" => IsCommand(m) \/ "drain" \in Before \cup After
    <2>1. CASE a = "pass"
      BY <1>2, <1>3, <2>1 DEF Complete
    <2>2. CASE a = "swallow"
      BY <1>1, <2>2 DEF Complete, Kind
    <2>3. CASE a = "raise"
      BY <1>1, <2>3 DEF Complete, Kind
    <2>4. CASE a = "drain"
      BY <1>1, <2>4 DEF Complete, Kind
    <2> QED
      BY <2>1, <2>2, <2>3, <2>4, TreeAssumption
  <1> QED
    BY <1>4 DEF Complete, Finishing

LEMMA Finishes ==
  ASSUME Types, NEW m \in Msg, Finishing(m)
  PROVE  /\ stage' \in [Msg -> Stage] /\ pending' \in Seq(Msg)
         /\ \E kind \in Kind : threw' = [threw EXCEPT ![m] = kind]
         /\ \E failures \in Seq(Failure) : failed' = [failed EXCEPT ![m] = failures]
         /\ threw'[m] = "drain" => IsCommand(m) \/ "drain" \in Before \cup After
         /\ stage'[m] = IF Sequential \/ IsCommand(m) \/ threw'[m] = "drain"
                        THEN "done" ELSE "collecting"
         /\ IsCommand(m) \/ ~Sequential =>
              pending' = pending /\ \A e \in Msg \ {m} : stage'[e] = stage[e]
         /\ Sequential /\ ~IsCommand(m) =>
              /\ pending' = IF threw'[m] = "drain" THEN <<>>
                            ELSE IF threw'[m] = "error" THEN pending ELSE pending \o follow[m]
              /\ \A e \in Msg \ {m} :
                   stage'[e] = IF e \in ToSet(pending') THEN "queued"
                               ELSE IF e \in ToSet(pending) \cup ToSet(follow[m]) THEN "dropped"
                               ELSE stage[e]
         /\ IF Admitted(m) THEN Leave(1) ELSE UNCHANGED lifeVars
  <1>1. PICK kind \in Kind, failures \in Seq(Failure) :
          /\ Finish(m, kind, failures)
          /\ kind = "drain" => IsCommand(m) \/ "drain" \in Before \cup After
    BY DEF Finishing
  <1>2. /\ threw' = [threw EXCEPT ![m] = kind] /\ threw'[m] = kind
        /\ failed' = [failed EXCEPT ![m] = failures]
        /\ IF Admitted(m) THEN Leave(1) ELSE UNCHANGED lifeVars
    BY <1>1 DEF Finish, Types
  <1>3. CASE IsCommand(m)
    <2>1. stage' = [stage EXCEPT ![m] = "done"] /\ pending' = pending
      BY <1>1, <1>3 DEF Finish
    <2>2. stage' \in [Msg -> Stage] /\ pending' \in Seq(Msg)
      BY <2>1 DEF Types, Stage
    <2>3. stage'[m] = "done" /\ \A e \in Msg \ {m} : stage'[e] = stage[e]
      BY <2>1 DEF Types
    <2> QED
      BY <1>1, <1>2, <1>3, <2>1, <2>2, <2>3
  <1>4. CASE ~IsCommand(m) /\ ~Sequential
    <2>1. /\ stage' = [stage EXCEPT ![m] = IF kind = "drain" THEN "done" ELSE "collecting"]
          /\ pending' = pending
      BY <1>1, <1>4 DEF Finish
    <2>2. stage' \in [Msg -> Stage] /\ pending' \in Seq(Msg)
      BY <2>1 DEF Types, Stage
    <2>3. /\ stage'[m] = IF kind = "drain" THEN "done" ELSE "collecting"
          /\ \A e \in Msg \ {m} : stage'[e] = stage[e]
      BY <2>1 DEF Types
    <2> QED
      BY <1>1, <1>2, <1>4, <2>1, <2>2, <2>3
  <1>5. CASE ~IsCommand(m) /\ Sequential
    <2> DEFINE all == pending \o follow[m]
               kept == IF kind = "drain" THEN <<>> ELSE IF Keeps(kind) THEN all ELSE pending
    <2>1. /\ pending' = kept
          /\ stage' = [e \in Msg |-> IF e = m THEN "done"
                                     ELSE IF e \in ToSet(kept) THEN "queued"
                                     ELSE IF e \in ToSet(all) THEN "dropped"
                                     ELSE stage[e]]
      BY <1>1, <1>5 DEF Finish, Enqueue
    <2>2. pending \in Seq(Msg) /\ follow[m] \in Seq(Msg)
      BY DEF Types
    <2>3. all \in Seq(Msg) /\ ToSet(all) = ToSet(pending) \cup ToSet(follow[m])
      BY <2>2, ElementsOfConcat, ConcatProperties
    <2>4. pending' = IF kind = "drain" THEN <<>> ELSE IF kind = "error" THEN pending ELSE all
      BY <2>1 DEF Kind, Keeps
    <2>5. kept \in Seq(Msg)
      BY <2>2, <2>3
    <2>6. \A e \in Msg : stage[e] \in Stage
      BY DEF Types
    <2> HIDE DEF all, kept
    <2>7. stage' \in [Msg -> Stage] /\ stage'[m] = "done"
      BY <2>1, <2>6 DEF Stage
    <2>8. \A e \in Msg \ {m} :
            stage'[e] = IF e \in ToSet(pending') THEN "queued"
                        ELSE IF e \in ToSet(pending) \cup ToSet(follow[m]) THEN "dropped"
                        ELSE stage[e]
      BY <2>1, <2>3
    <2> QED
      BY <1>1, <1>2, <1>5, <2>1, <2>4, <2>5, <2>7, <2>8 DEF all
  <1> QED
    BY <1>3, <1>4, <1>5

LEMMA TurnTaken ==
  ASSUME Types, Queue, NEW m \in Msg, Turn(m)
  PROVE  Sequential => /\ pending # <<>> /\ m = Head(pending)
                       /\ Tail(pending) \in Seq(Msg)
                       /\ ToSet(Tail(pending)) = ToSet(pending) \ {m}
  <1> SUFFICES ASSUME Sequential PROVE
        /\ pending # <<>> /\ m = Head(pending) /\ Tail(pending) \in Seq(Msg)
        /\ ToSet(Tail(pending)) = ToSet(pending) \ {m}
    OBVIOUS
  <1>1. m \in ToSet(pending) /\ m = Head(pending) /\ pending \in Seq(Msg)
    BY DEF Turn, Queue, Types
  <1>2. pending # <<>>
    BY <1>1, ElementsOf
  <1>3. IsInjective(pending)
    BY DEF Queue
  <1> QED
    BY <1>1, <1>2, <1>3, ElementsOfTail

LEMMA TypesNext ==
  ASSUME IInv, [Next]_vars
  PROVE  Types'
  <1> USE DEF IInv
  <1>1. ASSUME NEW o \in {"send", "publish"}, Call(o) PROVE Types'
    <2>1. <<1>> \in Seq(Msg) /\ <<>> \in Seq(Msg)
      BY Numbers
    <2> QED
      BY <1>1, <2>1 DEF Call, Types, Stage
  <1>2. CASE Return
    <2>1. <<1>> \in Seq(Msg) /\ threw[1] \in Kind /\ failed[1] \in Seq(Failure)
      BY Numbers DEF Types
    <2>2. Publication(<<1>>).kind \in Kind /\ Publication(<<1>>).failures \in Seq(Failure)
      BY <2>1, PublicationTyped DEF Kind
    <2>3. report'.kind \in Kind /\ report'.failures \in Seq(Failure)
      BY <1>2, <2>1, <2>2 DEF Return
    <2>4. closer' \in {closer, "woken"} /\ state' = state
      BY <1>2 DEF Return, Leave
    <2> QED
      BY <1>2, <2>3, <2>4 DEF Return, Types
  <1>3. CASE Cancel
    <2>1. stage' \in [Msg -> Stage]
      BY <1>3 DEF Cancel, Types, Stage
    <2>2. closer' \in {closer, "woken"} /\ state' = state /\ call' = "cancelled" /\ pending' = <<>>
      BY <1>3 DEF Cancel, Leave
    <2> QED
      BY <1>3, <2>1, <2>2 DEF Cancel, Types
  <1>4. ASSUME NEW m \in Msg, Start(m) PROVE Types'
    <2>1. Turn(m) /\ pending' \in Seq(Msg)
      BY <1>4, TurnTaken DEF Start, Types
    <2> QED
      BY <1>4, <2>1 DEF Start, callVars, Types, Stage
  <1>5. ASSUME NEW m \in Msg, Refuse(m) PROVE Types'
    <2>1. NoHandler(m) \in Seq(Failure)
      BY DEF NoHandler, Failure
    <2> QED
      BY <1>5, <2>1 DEF Refuse, callVars, lifeVars, Types, Stage, Kind
  <1>6. ASSUME NEW m \in Msg, Enter(m) PROVE Types'
    BY <1>6 DEF Enter, callVars, lifeVars, Types, Stage
  <1>7. ASSUME NEW m \in Msg, Finishing(m) PROVE Types'
    <2>1. /\ stage' \in [Msg -> Stage] /\ pending' \in Seq(Msg)
          /\ \E kind \in Kind : threw' = [threw EXCEPT ![m] = kind]
          /\ \E failures \in Seq(Failure) : failed' = [failed EXCEPT ![m] = failures]
          /\ IF Admitted(m) THEN Leave(1) ELSE UNCHANGED lifeVars
      BY <1>7, Finishes
    <2>2. closer' \in {closer, "woken"} /\ state' = state
      BY <2>1 DEF Leave, lifeVars
    <2>3. threw' \in [Msg -> Kind] /\ failed' \in [Msg -> Seq(Failure)]
      BY <2>1 DEF Types
    <2>4. ended' \in [Msg -> Seq(Handler)] /\ mid' \in [Msg -> Before \cup After \cup {"pass"}]
      BY <1>7 DEF Finishing, Types
    <2> QED
      BY <1>7, <2>1, <2>2, <2>3, <2>4 DEF Finishing, callVars, Types
  <1>8. ASSUME NEW m \in Msg, NEW h \in Handler, Emit(m, h) PROVE Types'
    BY <1>8 DEF Emit, callVars, lifeVars, Types, Stage
  <1>9. ASSUME NEW m \in Msg, NEW h \in Handler, NEW r \in HandlerEnds, HandlerEnd(m, h, r)
        PROVE  Types'
    <2>1. r \in {"ok", "swallowed", "raised", "drain"}
      BY TreeAssumption
    <2>2. ended' \in [Msg -> Seq(Handler)]
      BY <1>9, ElementsOfAppend DEF HandlerEnd, Types
    <2>3. handling' \in [Msg -> [Handler -> {"none", "running", "ok", "swallowed", "raised", "drain"}]]
      BY <1>9, <2>1 DEF HandlerEnd, Types
    <2> QED
      BY <1>9, <2>2, <2>3 DEF HandlerEnd, callVars, lifeVars, Types
  <1>10. ASSUME NEW m \in Msg, Collect(m) PROVE Types'
    <2> DEFINE h == Head(ended[m])
    <2>1. /\ ended[m] \in Seq(Handler) /\ ended[m] # <<>> /\ follow[m] \in Seq(Msg)
          /\ failed[m] \in Seq(Failure)
      BY <1>10 DEF Collect, Types
    <2>2. h \in Handler /\ Tail(ended[m]) \in Seq(Handler)
      BY <2>1
    <2> HIDE DEF h
    <2>3. Outcome(m, h) \in Seq(Msg) /\ <<m, h>> \in Failure
      BY <2>2, Outcomes DEF Failure
    <2>4. follow[m] \o Outcome(m, h) \in Seq(Msg) /\ Append(failed[m], <<m, h>>) \in Seq(Failure)
      BY <2>1, <2>3, ConcatProperties, ElementsOfAppend
    <2>5. follow' \in [Msg -> Seq(Msg)] /\ failed' \in [Msg -> Seq(Failure)]
      BY <1>10, <2>1, <2>4 DEF Collect, Types, h
    <2>6. ended' \in [Msg -> Seq(Handler)] /\ stage' \in [Msg -> Stage]
      BY <1>10, <2>2 DEF Collect, Types, Stage
    <2> QED
      BY <1>10, <2>5, <2>6 DEF Collect, callVars, lifeVars, Types
  <1>11. CASE CommandHandled
    <2>1. Outcome(1, 1) \in Seq(Msg) /\ <<>> \in Seq(Msg) /\ <<>> \in Seq(Handler)
      BY Outcomes, Numbers
    <2> QED
      BY <1>11, <2>1 DEF CommandHandled, callVars, lifeVars, Types, Stage
  <1>12. ASSUME NEW m \in Msg, CollectFollowUps(m) PROVE Types'
    <2>1. FailuresOf(follow[m]) \in Seq(Failure)
      BY FailuresTyped DEF Types
    <2>2. Gathered(m) \in Seq(Failure)
      BY <2>1, ConcatProperties DEF Gathered, Types
    <2> QED
      BY <1>12, <2>2 DEF CollectFollowUps, callVars, lifeVars, Types, Stage, Kind
  <1>13. CASE BeginClose \/ WaitDrained \/ FinishClose
    BY <1>13 DEF BeginClose, WaitDrained, FinishClose, callVars, Types
  <1>14. CASE UNCHANGED vars
    BY <1>14 DEF vars, callVars, lifeVars, Types
  <1>15. ASSUME NEW m \in Msg, NEW b \in Before, Deflect(m, b) PROVE Types'
    BY <1>7, <1>15, DeflectFinishes
  <1>16. ASSUME NEW m \in Msg, NEW a \in After, Complete(m, a) PROVE Types'
    BY <1>7, <1>16, CompleteFinishes
  <1> HIDE DEF IInv
  <1> QED
    BY <1>1, <1>2, <1>3, <1>4, <1>5, <1>6, <1>8, <1>9, <1>10, <1>11, <1>12, <1>13, <1>14,
       <1>15, <1>16 DEF Next, Step

-----------------------------------------------------------------------------
(* Stages.                                                                 *)

\* How the stage of e may change in one step.
Moved(e) ==
  \/ stage'[e] = stage[e]
  \/ /\ stage[e] = "unused" /\ e # 1 /\ stage'[e] = "emitted"
     /\ \E m \in Msg, h \in Handler : Emit(m, h)
  \/ /\ stage[e] = "unused" /\ e = 1 /\ call' = "waiting"
     /\ stage'[e] = IF op' = "send" THEN "started" ELSE "queued"
  \/ stage[e] = "emitted" /\ stage'[e] \in {"queued", "dropped"}
  \/ stage[e] = "queued" /\ stage'[e] \in {"started", "dropped", "done"}
  \/ stage[e] = "started" /\ stage'[e] \in {"handling", "done", "collecting", "cancelled"}
  \/ stage[e] = "handling" /\ stage'[e] \in {"following", "done", "collecting", "cancelled"}
  \/ stage[e] = "following" /\ stage'[e] \in {"done", "cancelled"}
  \/ stage[e] = "collecting" /\ stage'[e] = "done"

\* Follow-ups are handed over from where they were emitted.
LEMMA HandedOver ==
  ASSUME Types, Numbering, FollowUps, NEW m \in Msg, NEW e \in Msg, by[e][1] = m
  PROVE  /\ e # 1 /\ m < e /\ by[e][2] \in Handler /\ by[e] = <<m, by[e][2]>>
         /\ stage[e] # "unused"
         /\ e \notin ToSet(follow[m]) => stage[e] = "emitted"
  <1>1. by[e] # <<0, 0>>
    BY Numbers
  <1>2. e # 1 /\ stage[e] # "unused"
    BY <1>1, Numbers DEF Numbering
  <1>3. by[e] \in Msg \X Handler /\ by[e][1] < e
    BY <1>2 DEF Numbering
  <1> QED
    BY <1>2, <1>3 DEF FollowUps

LEMMA Moves ==
  ASSUME IInv, Next, NEW e \in Msg
  PROVE  Moved(e)
  <1> USE DEF IInv
  <1>1. ASSUME NEW o \in {"send", "publish"}, Call(o) PROVE Moved(e)
    <2>1. stage[1] = "unused" /\ call' = "waiting" /\ op' = o
      BY <1>1 DEF Call, Numbering
    <2> QED
      BY <1>1, <2>1, Numbers DEF Call, Types, Moved
  <1>2. CASE Return
    BY <1>2 DEF Return, Moved
  <1>3. CASE Cancel
    <2>1. ASSUME IsCommand(e), stage[e] # "done"
          PROVE  stage[e] \in {"started", "handling", "following"}
      <3>1. e = 1 /\ stage[1] \notin {"unused", "emitted", "queued", "dropped", "cancelled", "collecting"}
        BY <1>3, <2>1, Numbers DEF Cancel, IsCommand, Numbering, Calls, Handlers
      <3> QED
        BY <2>1, <3>1, Numbers DEF Types, Stage
    <2>2. ASSUME NEW m \in Msg, e \in ToSet(follow[m]), IsCommand(m) \/ Running(m), Sequential,
                 ~Running(e), stage[e] # "done"
          PROVE  stage[e] \in {"emitted", "queued", "dropped"}
      <3>1. by[e][1] = m
        BY <2>2 DEF FollowUps
      <3>2. stage[e] # "unused" /\ e # 1
        BY <3>1, HandedOver
      <3>3. ~IsCommand(e)
        BY <3>2 DEF IsCommand
      <3>4. stage[e] \notin {"started", "handling", "following", "collecting", "cancelled"}
        BY <1>3, <2>2, <3>3 DEF Running, Handlers, Calls, Cancel
      <3> QED
        BY <2>2, <3>2, <3>4 DEF Types, Stage
    <2>3. e \in ToSet(pending) => stage[e] = "queued"
      <3>1. ~Sequential => ToSet(pending) = {}
        BY DEF Queue, ToSet
      <3> QED
        BY <3>1 DEF Queue
    <2>4. Running(e) => stage[e] \in {"started", "handling"}
      BY DEF Running
    <2> HIDE DEF IInv
    <2> QED
      BY <1>3, <2>1, <2>2, <2>3, <2>4 DEF Cancel, Moved
  <1>4. ASSUME NEW m \in Msg, Start(m) PROVE Moved(e)
    BY <1>4 DEF Start, Turn, Types, Moved
  <1>5. ASSUME NEW m \in Msg, Refuse(m) PROVE Moved(e)
    BY <1>5 DEF Refuse, Turn, Types, Moved
  <1>6. ASSUME NEW m \in Msg, Enter(m) PROVE Moved(e)
    BY <1>6 DEF Enter, Types, Moved
  <1>7. ASSUME NEW m \in Msg, Finishing(m) PROVE Moved(e)
    <2>1. /\ stage'[m] = IF Sequential \/ IsCommand(m) \/ threw'[m] = "drain"
                         THEN "done" ELSE "collecting"
          /\ IsCommand(m) \/ ~Sequential => \A d \in Msg \ {m} : stage'[d] = stage[d]
          /\ Sequential /\ ~IsCommand(m) =>
              /\ pending' = IF threw'[m] = "drain" THEN <<>>
                            ELSE IF threw'[m] = "error" THEN pending ELSE pending \o follow[m]
              /\ \A d \in Msg \ {m} :
                   stage'[d] = IF d \in ToSet(pending') THEN "queued"
                               ELSE IF d \in ToSet(pending) \cup ToSet(follow[m]) THEN "dropped"
                               ELSE stage[d]
      BY <1>7, Finishes
    <2>2. stage[m] \in {"started", "handling", "following"}
          /\ (stage[m] = "following" => IsCommand(m))
      BY <1>7 DEF Finishing, Handled
    <2>3. CASE e = m
      <3>1. stage[m] = "following" => stage'[m] = "done"
        BY <2>1, <2>2
      <3> QED
        BY <2>1, <2>2, <2>3, <3>1 DEF Moved
    <2>4. CASE e # m /\ (IsCommand(m) \/ ~Sequential)
      BY <2>1, <2>4 DEF Moved
    <2>5. CASE e # m /\ Sequential /\ ~IsCommand(m)
      <3>1. pending \in Seq(Msg) /\ follow[m] \in Seq(Msg)
        BY DEF Types
      <3>2. ToSet(pending \o follow[m]) = ToSet(pending) \cup ToSet(follow[m]) /\ ToSet(<<>>) = {}
        <4>1. ToSet(<<>>) = {}
          BY DEF ToSet
        <4> QED
          BY <3>1, <4>1, ElementsOfConcat
      <3>3. ToSet(pending') \subseteq ToSet(pending) \cup ToSet(follow[m])
        BY <2>1, <2>5, <3>2
      <3>4. e \in ToSet(pending) => stage[e] = "queued"
        BY <2>5 DEF Queue
      <3>5. e \in ToSet(follow[m]) => stage[e] = "emitted"
        <4>1. CASE stage[m] = "started"
          BY <4>1 DEF Handlers, Fresh, ToSet
        <4>2. CASE stage[m] = "handling"
          BY <2>5, <4>2 DEF FollowUps
        <4> QED
          BY <2>2, <2>5, <4>1, <4>2
      <3> QED
        BY <2>1, <2>5, <3>3, <3>4, <3>5 DEF Moved
    <2> QED
      BY <2>3, <2>4, <2>5
  <1>8. ASSUME NEW m \in Msg, NEW h \in Handler, Emit(m, h) PROVE Moved(e)
    <2>1. stage'[e] = stage[e] \/ (stage[e] = "unused" /\ e # 1 /\ stage'[e] = "emitted")
      BY <1>8 DEF Emit, Types
    <2> QED
      BY <1>8, <2>1 DEF Moved
  <1>9. ASSUME NEW m \in Msg, NEW h \in Handler, NEW r \in HandlerEnds, HandlerEnd(m, h, r)
        PROVE  Moved(e)
    BY <1>9 DEF HandlerEnd, Moved
  <1>10. ASSUME NEW m \in Msg, Collect(m) PROVE Moved(e)
    <2> DEFINE h == Head(ended[m])
    <2>1. ended[m] # <<>> /\ ended[m] \in Seq(Handler)
      BY <1>10 DEF Collect, Types
    <2>2. h \in Handler /\ h \in ToSet(ended[m])
      BY <2>1, ElementsOfTail
    <2> HIDE DEF h
    <2>3. e \in ToSet(Outcome(m, h)) => stage[e] = "emitted"
      <3> SUFFICES ASSUME e \in ToSet(Outcome(m, h)) PROVE stage[e] = "emitted"
        OBVIOUS
      <3>1. by[e] = <<m, h>>
        BY <2>2, Outcomes
      <3>2. e \notin ToSet(follow[m])
        BY <2>2, <3>1 DEF FollowUps, Collected
      <3> QED
        BY <3>1, <3>2, HandedOver
    <2>4. stage'[e] = IF ~Sequential /\ e \in ToSet(Outcome(m, h)) THEN "queued" ELSE stage[e]
      BY <1>10 DEF Collect, h
    <2> HIDE DEF IInv
    <2> QED
      BY <2>3, <2>4 DEF Moved
  <1>11. CASE CommandHandled
    <2>1. 1 \in ToSet(ended[1])
      <3>1. Head(ended[1]) \in ToSet(ended[1]) /\ Head(ended[1]) \in Handler
        BY <1>11, ElementsOfTail, Numbers DEF CommandHandled, Types
      <3>2. handling[1][Head(ended[1])] # "none"
        BY <3>1, Numbers DEF Handlers
      <3> QED
        BY <1>11, <3>1, <3>2 DEF Handlers, CommandHandled
    <2>2. e \in ToSet(Outcome(1, 1)) => stage[e] = "emitted"
      <3> SUFFICES ASSUME e \in ToSet(Outcome(1, 1)) PROVE stage[e] = "emitted"
        OBVIOUS
      <3>1. by[e] = <<1, 1>>
        BY Numbers, Outcomes
      <3>2. e \notin ToSet(follow[1])
        BY <2>1, <3>1, Numbers DEF FollowUps, Collected
      <3> QED
        BY <3>1, <3>2, Numbers, HandedOver
    <2>3. e = 1 => stage[e] = "handling"
      BY <1>11 DEF CommandHandled
    <2> HIDE DEF IInv
    <2> QED
      BY <1>11, <2>2, <2>3 DEF CommandHandled, Moved
  <1>12. ASSUME NEW m \in Msg, CollectFollowUps(m) PROVE Moved(e)
    BY <1>12 DEF CollectFollowUps, Types, Moved
  <1>13. CASE BeginClose \/ WaitDrained \/ FinishClose
    BY <1>13 DEF BeginClose, WaitDrained, FinishClose, Moved
  <1>14. ASSUME NEW m \in Msg, NEW b \in Before, Deflect(m, b) PROVE Moved(e)
    BY <1>7, <1>14, DeflectFinishes
  <1>15. ASSUME NEW m \in Msg, NEW a \in After, Complete(m, a) PROVE Moved(e)
    BY <1>7, <1>15, CompleteFinishes
  <1> HIDE DEF IInv
  <1> QED
    BY <1>1, <1>2, <1>3, <1>4, <1>5, <1>6, <1>8, <1>9, <1>10, <1>11, <1>12, <1>13, <1>14,
       <1>15 DEF Next, Step

\* How the invocation of h may change.
HandlerMoved(m, h) ==
  \/ handling'[m][h] = handling[m][h]
  \/ /\ stage[m] = "started" /\ stage'[m] = "handling" /\ handling'[m][h] \in {"running", "none"}
     /\ IsCommand(m) => handling'[m][h] = IF h = 1 THEN "running" ELSE "none"
  \/ /\ stage[m] = "handling" /\ stage'[m] = "handling"
     /\ handling[m][h] = "running" /\ handling'[m][h] \in {"ok", "swallowed", "raised", "drain"}

LEMMA HandlerMoves ==
  ASSUME IInv, Next, NEW m \in Msg, NEW h \in Handler
  PROVE  HandlerMoved(m, h)
  <1> USE DEF IInv
  <1>1. ASSUME NEW d \in Msg, Enter(d) PROVE HandlerMoved(m, h)
    <2>1. CASE d # m
      BY <1>1, <2>1 DEF Enter, Types, HandlerMoved
    <2>2. CASE d = m
      <3>1. stage[m] = "started" /\ stage'[m] = "handling"
        BY <1>1, <2>2 DEF Enter, Types
      <3>2. PICK n \in 0..MaxHandlers :
              /\ IsCommand(m) => n = 1
              /\ handling' = [handling EXCEPT ![m] =
                                [g \in Handler |-> IF g <= n THEN "running" ELSE "none"]]
        BY <1>1, <2>2 DEF Enter
      <3>3. handling'[m][h] = IF h <= n THEN "running" ELSE "none"
        BY <3>2 DEF Types
      <3>4. h <= 1 <=> h = 1
        BY Numbers
      <3> QED
        BY <3>1, <3>2, <3>3, <3>4 DEF HandlerMoved
    <2> QED
      BY <2>1, <2>2
  <1>2. ASSUME NEW d \in Msg, NEW g \in Handler, NEW r \in HandlerEnds, HandlerEnd(d, g, r)
        PROVE  HandlerMoved(m, h)
    <2>1. r \in {"ok", "swallowed", "raised", "drain"}
      BY TreeAssumption
    <2> QED
      BY <1>2, <2>1 DEF HandlerEnd, InHandler, callVars, lifeVars, Types, HandlerMoved
  <1>3. ASSUME handling' = handling PROVE HandlerMoved(m, h)
    BY <1>3 DEF HandlerMoved
  <1> HIDE DEF IInv
  <1> QED
    BY <1>1, <1>2, <1>3 DEF Next, Step, Call, Return, Cancel, Start, Refuse, Deflect, Emit,
       Collect, CommandHandled, Complete, CollectFollowUps, BeginClose, WaitDrained, FinishClose

\* How the call may change.
CallMoved ==
  /\ by' = by \/ \E m \in Msg, h \in Handler : Emit(m, h)
  /\ \/ call' = call /\ op' = op
     \/ call = "none" /\ call' = "waiting" /\ \E o \in {"send", "publish"} : Call(o)
     \/ call = "waiting" /\ call' \in {"returned", "cancelled"} /\ op' = op

LEMMA CallMoves ==
  ASSUME Next
  PROVE  CallMoved
  <1>1. ASSUME NEW o \in {"send", "publish"}, Call(o) PROVE CallMoved
    <2>1. by' = by /\ call = "none" /\ call' = "waiting"
      BY <1>1 DEF Call
    <2> QED
      BY <1>1, <2>1 DEF CallMoved
  <1>2. CASE Return \/ Cancel
    BY <1>2 DEF Return, Cancel, CallMoved
  <1>3. ASSUME NEW m \in Msg, NEW h \in Handler, Emit(m, h) PROVE CallMoved
    <2>1. call' = call /\ op' = op
      BY <1>3 DEF Emit, callVars
    <2> QED
      BY <1>3, <2>1 DEF CallMoved
  <1>4. ASSUME by' = by, UNCHANGED callVars PROVE CallMoved
    BY <1>4 DEF callVars, CallMoved
  <1>5. CallMoved
    <2>1. ASSUME NEW m \in Msg,
                 Start(m) \/ Refuse(m) \/ Enter(m) \/ Collect(m) \/ CollectFollowUps(m)
          PROVE  CallMoved
      BY <1>4, <2>1 DEF Start, Refuse, Enter, Collect, CollectFollowUps
    <2>2. ASSUME NEW m \in Msg, NEW b \in Before, Deflect(m, b) PROVE CallMoved
      BY <1>4, <2>2 DEF Deflect
    <2>3. ASSUME NEW m \in Msg, NEW a \in After, Complete(m, a) PROVE CallMoved
      BY <1>4, <2>3 DEF Complete
    <2>4. ASSUME NEW m \in Msg, NEW h \in Handler, NEW r \in HandlerEnds, HandlerEnd(m, h, r)
          PROVE  CallMoved
      BY <1>4, <2>4 DEF HandlerEnd
    <2>5. CASE CommandHandled \/ BeginClose \/ WaitDrained \/ FinishClose
      BY <1>4, <2>5 DEF CommandHandled, BeginClose, WaitDrained, FinishClose
    <2> QED
      BY <1>1, <1>2, <1>3, <2>1, <2>2, <2>3, <2>4, <2>5 DEF Next, Step
  <1> QED
    BY <1>5

\* A message stays what it is.
LEMMA SameCommand ==
  ASSUME IInv, Next, NEW m \in Msg, stage[m] # "unused"
  PROVE  IsCommand(m)' <=> IsCommand(m)
  <1>1. call = "none" => m # 1
    BY DEF IInv, Numbering
  <1> QED
    BY <1>1, CallMoves DEF CallMoved, IsCommand

LEMMA NumberingNext ==
  ASSUME IInv, Next
  PROVE  Numbering'
  <1> USE DEF IInv
  <1>1. \A e \in Msg : Moved(e)
    BY Moves
  <1>2. \A m \in Msg, h \in Handler : HandlerMoved(m, h)
    BY HandlerMoves
  <1>3. ASSUME NEW m \in Msg, NEW h \in Handler, Emit(m, h) PROVE Numbering'
    <2>1. PICK e \in Msg :
            /\ stage[e] = "unused" /\ e # 1 /\ (e > 2 => stage[e - 1] # "unused")
            /\ stage' = [stage EXCEPT ![e] = "emitted"]
            /\ by' = [by EXCEPT ![e] = <<m, h>>]
      BY <1>3 DEF Emit
    <2>2. stage[m] = "handling" /\ handling[m][h] = "running"
          /\ handling' = handling /\ call' = call /\ op' = op
      BY <1>3 DEF Emit, InHandler, callVars
    <2>3. m < e
      <3>1. m \in Nat /\ e \in Nat
        BY Numbers
      <3> QED
        BY <2>1, <2>2, <3>1 DEF Numbering
    <2>4. \A d \in Msg : d < e => stage[d] # "unused"
      <3> SUFFICES ASSUME NEW d \in Msg, d < e, stage[d] = "unused" PROVE FALSE
        OBVIOUS
      <3>1. d \in Nat \ {0} /\ e \in Nat \ {0} /\ 1 \in Msg
        BY Numbers
      <3>2. CASE e = 2
        BY <2>2, <3>1, <3>2, Numbers DEF Numbering
      <3>3. CASE e > 2
        <4>1. e - 1 \in Msg
          BY <3>3, TreeAssumption DEF Msg
        <4>2. d = e - 1 \/ d < e - 1
          BY <3>1
        <4> QED
          BY <2>1, <3>3, <4>1, <4>2 DEF Numbering
      <3> QED
        BY <2>1, <3>1, <3>2, <3>3
    <2>5. \A d \in Msg : stage'[d] = IF d = e THEN "emitted" ELSE stage[d]
      BY <2>1 DEF Types
    <2>6. \A d \in Msg : by'[d] = IF d = e THEN <<m, h>> ELSE by[d]
      BY <2>1 DEF Types
    <2>7. \A d, g \in Msg : stage'[d] = "unused" /\ d < g => stage'[g] = "unused"
      BY <2>4, <2>5 DEF Numbering
    <2>8. IsCommand(1)' <=> IsCommand(1)
      BY <2>2 DEF IsCommand
    <2> QED
      BY <2>1, <2>2, <2>3, <2>5, <2>6, <2>7, <2>8, Numbers DEF Numbering
  <1>4. ASSUME ~ \E m \in Msg, h \in Handler : Emit(m, h) PROVE Numbering'
    <2>1. by' = by
      BY <1>4, CallMoves DEF CallMoved
    <2>2. \A e \in Msg \ {1} : stage'[e] = "unused" <=> stage[e] = "unused"
      BY <1>1, <1>4 DEF Moved
    <2>3. \A m \in Msg, h \in Handler : handling[m][h] # "none" => handling'[m][h] # "none"
      BY <1>2 DEF HandlerMoved, Handlers, Fresh
    <2>4. stage'[1] # "emitted"
      BY <1>1, Numbers DEF Moved, Numbering
    <2>5. IsCommand(1)' => stage'[1] \notin {"queued", "dropped"}
      <3>1. CASE op' = op
        <4>1. IsCommand(1)' = IsCommand(1)
          BY <3>1 DEF IsCommand
        <4>2. IsCommand(1)' => op' = "send"
          BY DEF IsCommand
        <4> QED
          BY <1>1, <4>1, <4>2, Numbers DEF Moved, Numbering
      <3>2. CASE op' # op
        <4>1. PICK o \in {"send", "publish"} : Call(o)
          BY <3>2, CallMoves DEF CallMoved
        <4> QED
          BY <4>1, Numbers DEF Call, Types, IsCommand
      <3> QED
        BY <3>1, <3>2
    <2>6. (call' = "none") = (stage'[1] = "unused")
      <3>1. CASE call' = call
        <4>1. Moved(1)
          BY <1>1, Numbers
        <4> QED
          BY <3>1, <4>1 DEF Moved, Numbering
      <3>2. CASE call' # call
        <4>1. CASE \E o \in {"send", "publish"} : Call(o)
          BY <4>1, Numbers DEF Call, Types
        <4>2. CASE call = "waiting" /\ call' \in {"returned", "cancelled"}
          <5>1. Moved(1) /\ stage[1] # "unused"
            BY <1>1, <4>2, Numbers DEF Numbering
          <5> QED
            BY <4>2, <5>1 DEF Moved
        <4> QED
          BY <3>2, <4>1, <4>2, CallMoves DEF CallMoved
      <3> QED
        BY <3>1, <3>2
    <2>7. \A m, e \in Msg : stage'[m] = "unused" /\ m < e => stage'[e] = "unused"
      <3> TAKE m, e \in Msg
      <3> HAVE stage'[m] = "unused" /\ m < e
      <3>1. e # 1 /\ stage[m] = "unused"
        BY <1>1, Numbers DEF Moved
      <3> QED
        BY <2>2, <3>1 DEF Numbering
    <2>8. \A e \in Msg : stage'[e] = "unused" \/ e = 1 => by'[e] = <<0, 0>>
      BY <2>1, <2>2 DEF Numbering
    <2>9. \A e \in Msg : stage'[e] # "unused" /\ e # 1 =>
             by'[e] \in Msg \X Handler /\ by'[e][1] < e /\ handling'[by'[e][1]][by'[e][2]] # "none"
      BY <2>1, <2>2, <2>3 DEF Numbering
    <2> QED
      BY <2>4, <2>5, <2>6, <2>7, <2>8, <2>9 DEF Numbering
  <1> QED
    BY <1>3, <1>4

-----------------------------------------------------------------------------
(* What a dispatch leaves behind.                                          *)

\* Only steps of its own change what is kept of m: its handlers, follow-ups,
\* failures and what its middleware did.
Kept(m) ==
  /\ handling'[m] = handling[m] /\ ended'[m] = ended[m] /\ follow'[m] = follow[m]
  /\ failed'[m] = failed[m] /\ threw'[m] = threw[m] /\ mid'[m] = mid[m]
  /\ \/ stage'[m] = stage[m]
     \/ stage'[m] \in {"emitted", "queued", "dropped", "started"}
     \/ stage'[m] = "cancelled" /\ Cancel

Ending(m) == (\E b \in Before : Deflect(m, b)) \/ (\E a \in After : Complete(m, a))

OwnStep(m) ==
  \/ Enter(m)
  \/ \E h \in Handler, r \in HandlerEnds : HandlerEnd(m, h, r)
  \/ Collect(m)
  \/ m = 1 /\ CommandHandled
  \/ Refuse(m)
  \/ Finishing(m) /\ Ending(m)
  \/ CollectFollowUps(m)

LEMMA OwnSteps ==
  ASSUME IInv, Next, NEW m \in Msg
  PROVE  Kept(m) \/ OwnStep(m)
  <1> USE DEF IInv
  <1>1. ASSUME NEW o \in {"send", "publish"}, Call(o) PROVE Kept(m)
    BY <1>1 DEF Call, Types, Kept
  <1>2. CASE Return
    BY <1>2 DEF Return, Kept
  <1>3. CASE Cancel
    <2>1. stage'[m] \in {stage[m], "dropped", "cancelled"}
      BY <1>3 DEF Cancel
    <2>2. /\ handling' = handling /\ ended' = ended /\ follow' = follow
          /\ failed' = failed /\ threw' = threw /\ mid' = mid
      BY <1>3 DEF Cancel
    <2> QED
      BY <1>3, <2>1, <2>2 DEF Kept
  <1>4. ASSUME NEW d \in Msg, Start(d) PROVE Kept(m)
    BY <1>4 DEF Start, Types, Kept
  <1>5. ASSUME NEW d \in Msg, Refuse(d), d # m PROVE Kept(m)
    BY <1>5 DEF Refuse, Types, Kept
  <1>6. ASSUME NEW d \in Msg, Enter(d), d # m PROVE Kept(m)
    BY <1>6 DEF Enter, Types, Kept
  <1>7. ASSUME NEW d \in Msg, Finishing(d), d # m PROVE Kept(m)
    <2>1. /\ \E kind \in Kind : threw' = [threw EXCEPT ![d] = kind]
          /\ \E failures \in Seq(Failure) : failed' = [failed EXCEPT ![d] = failures]
          /\ stage'[m] = stage[m] \/ stage'[m] \in {"queued", "dropped"}
      BY <1>7, Finishes
    <2>2. threw'[m] = threw[m] /\ failed'[m] = failed[m]
      BY <1>7, <2>1 DEF Types
    <2> QED
      BY <1>7, <2>1, <2>2 DEF Finishing, Types, Kept
  <1>8. ASSUME NEW d \in Msg, NEW h \in Handler, Emit(d, h) PROVE Kept(m)
    BY <1>8 DEF Emit, Types, Kept
  <1>9. ASSUME NEW d \in Msg, NEW h \in Handler, NEW r \in HandlerEnds, HandlerEnd(d, h, r), d # m
        PROVE  Kept(m)
    BY <1>9 DEF HandlerEnd, Types, Kept
  <1>10. ASSUME NEW d \in Msg, Collect(d), d # m PROVE Kept(m)
    BY <1>10 DEF Collect, Types, Kept
  <1>11. CASE CommandHandled /\ m # 1
    BY <1>11 DEF CommandHandled, Types, Kept
  <1>12. ASSUME NEW d \in Msg, CollectFollowUps(d), d # m PROVE Kept(m)
    BY <1>12 DEF CollectFollowUps, Types, Kept
  <1>13. CASE BeginClose \/ WaitDrained \/ FinishClose
    BY <1>13 DEF BeginClose, WaitDrained, FinishClose, Kept
  <1>14. ASSUME NEW d \in Msg, NEW b \in Before, Deflect(d, b)
         PROVE  Kept(m) \/ (Finishing(m) /\ Ending(m))
    BY <1>7, <1>14, DeflectFinishes DEF Ending
  <1>15. ASSUME NEW d \in Msg, NEW a \in After, Complete(d, a)
         PROVE  Kept(m) \/ (Finishing(m) /\ Ending(m))
    BY <1>7, <1>15, CompleteFinishes DEF Ending
  <1> HIDE DEF IInv
  <1> QED
    BY <1>1, <1>2, <1>3, <1>4, <1>5, <1>6, <1>8, <1>9, <1>10, <1>11, <1>12, <1>13, <1>14,
       <1>15 DEF Next, Step, OwnStep

\* Handlers, for one message.
HandlersOf(m) ==
  /\ Fresh(m) =>
       /\ \A h \in Handler : handling[m][h] = "none"
       /\ ended[m] = <<>> /\ follow[m] = <<>> /\ failed[m] = <<>> /\ mid[m] = "pass"
  /\ IsInjective(ended[m])
  /\ \A h \in ToSet(ended[m]) : handling[m][h] \in {"ok", "swallowed", "raised", "drain"}
  /\ IsCommand(m) => \A h \in Handler \ {1} : handling[m][h] = "none"
  /\ stage[m] \in {"following", "collecting", "done"} =>
       ended[m] = <<>> /\ \A h \in Handler : handling[m][h] # "running"
  /\ stage[m] = "following" => IsCommand(m)
  /\ stage[m] = "collecting" => ~Sequential /\ ~IsCommand(m)
  /\ threw[m] # "no" => stage[m] \in {"collecting", "done"}
  /\ Drained(m) => stage[m] = "done"

LEMMA HandlersNext ==
  ASSUME IInv, Next
  PROVE  Handlers'
  <1> USE DEF IInv
  <1>1. SUFFICES ASSUME NEW m \in Msg PROVE HandlersOf(m)'
    BY Numbers DEF HandlersOf, Handlers, IsCommand
  <1>2. HandlersOf(m) /\ Moved(m)
    BY Moves DEF HandlersOf, Handlers, IsCommand
  <1>3. stage[m] \in Stage /\ ended[m] \in Seq(Handler)
    BY DEF Types
  <1>4. CASE Kept(m)
    <2>1. CASE op' = op
      BY <1>2, <1>4, <2>1 DEF Kept, HandlersOf, Moved, Fresh, IsCommand, Drained
    <2>2. CASE op' # op
      <3>1. PICK o \in {"send", "publish"} : Call(o)
        BY <2>2, CallMoves DEF CallMoved
      <3>2. m = 1 => stage[m] = "unused" /\ stage'[m] \in {"started", "queued"}
        BY <3>1, Numbers DEF Call, Numbering, Types
      <3>3. m # 1 => ~IsCommand(m) /\ ~IsCommand(m)'
        BY DEF IsCommand
      <3> QED
        BY <1>2, <1>4, <3>2, <3>3 DEF Kept, HandlersOf, Moved, Fresh, IsCommand, Drained
    <2> QED
      BY <2>1, <2>2
  <1>5. CASE OwnStep(m)
    <2>1. CASE Enter(m)
      <3>1. /\ stage'[m] = "handling" /\ ended'[m] = <<>> /\ threw'[m] = threw[m] /\ op' = op
            /\ threw[m] = "no"
        BY <1>2, <2>1 DEF Enter, callVars, Types, HandlersOf, Fresh
      <3>2. IsCommand(m) => \A h \in Handler \ {1} : handling'[m][h] = "none"
        BY <2>1, HandlerMoves, <1>2 DEF HandlerMoved, HandlersOf
      <3>3. ToSet(<<>>) = {} /\ IsInjective(<<>>)
        BY DEF ToSet, IsInjective
      <3> QED
        BY <3>1, <3>2, <3>3 DEF HandlersOf, Fresh, IsCommand, Drained
    <2>2. ASSUME NEW h \in Handler, NEW r \in HandlerEnds, HandlerEnd(m, h, r)
          PROVE  HandlersOf(m)'
      <3>1. /\ stage'[m] = "handling" /\ threw'[m] = threw[m] /\ op' = op /\ threw[m] = "no"
            /\ handling[m][h] = "running" /\ ended'[m] = Append(ended[m], h)
        BY <1>2, <2>2 DEF HandlerEnd, InHandler, callVars, Types, HandlersOf
      <3>2. \A g \in Handler : handling'[m][g] = IF g = h THEN r ELSE handling[m][g]
        BY <2>2 DEF HandlerEnd, Types
      <3>3. r \in {"ok", "swallowed", "raised", "drain"} /\ h \notin ToSet(ended[m])
        BY <1>2, <3>1, TreeAssumption DEF HandlersOf
      <3>4. ToSet(ended'[m]) = ToSet(ended[m]) \cup {h} /\ IsInjective(ended'[m])
        BY <1>2, <1>3, <3>1, <3>3, ElementsOfAppend DEF HandlersOf
      <3>5. ToSet(ended[m]) \subseteq Handler
        BY <1>3, ElementsOf
      <3> QED
        BY <1>2, <3>1, <3>2, <3>3, <3>4, <3>5 DEF HandlersOf, Fresh, IsCommand, Drained
    <2>3. CASE Collect(m)
      <3>1. /\ stage[m] = "handling" /\ stage'[m] = "handling" /\ threw'[m] = threw[m]
            /\ op' = op /\ handling' = handling /\ ended[m] # <<>> /\ ended'[m] = Tail(ended[m])
        <4>1. stage[m] = "handling" /\ (stage'[m] = "queued" \/ stage'[m] = stage[m])
          BY <2>3 DEF Collect
        <4>2. stage'[m] = "handling"
          BY <1>2, <4>1 DEF Moved
        <4> QED
          BY <2>3, <4>1, <4>2 DEF Collect, callVars, Types
      <3>2. ToSet(ended'[m]) \subseteq ToSet(ended[m]) /\ IsInjective(ended'[m])
        BY <1>2, <1>3, <3>1, ElementsOfTail DEF HandlersOf
      <3> QED
        BY <1>2, <3>1, <3>2 DEF HandlersOf, Fresh, IsCommand, Drained
    <2>4. CASE m = 1 /\ CommandHandled
      <3>1. /\ stage[m] = "handling" /\ stage'[m] = "following" /\ threw'[m] = threw[m]
            /\ IsCommand(m) /\ op' = op /\ handling' = handling /\ ended'[m] = <<>>
            /\ ~Fails(m, 1) /\ ended[m] # <<>>
        BY <2>4, Numbers DEF CommandHandled, callVars, Types
      <3>2. \A h \in Handler : handling[m][h] # "running"
        <4>1. Head(ended[m]) \in ToSet(ended[m]) /\ Head(ended[m]) \in Handler
          BY <1>3, <3>1, ElementsOfTail
        <4>2. Head(ended[m]) = 1
          BY <1>2, <3>1, <4>1 DEF HandlersOf
        <4> QED
          BY <1>2, <3>1, <4>1, <4>2 DEF HandlersOf
      <3>3. ToSet(<<>>) = {} /\ IsInjective(<<>>)
        BY DEF ToSet, IsInjective
      <3> QED
        BY <1>2, <3>1, <3>2, <3>3 DEF HandlersOf, Fresh, IsCommand, Drained
    <2>5. CASE Refuse(m)
      <3>1. /\ stage[m] = "queued" /\ stage'[m] = "done" /\ op' = op
            /\ handling' = handling /\ ended' = ended
        BY <2>5 DEF Refuse, Turn, callVars, Types
      <3> QED
        BY <1>2, <3>1 DEF HandlersOf, Fresh, IsCommand, Drained
    <2>6. CASE Finishing(m)
      <3>1. /\ stage'[m] = IF Sequential \/ IsCommand(m) \/ threw'[m] = "drain"
                           THEN "done" ELSE "collecting"
            /\ op' = op /\ handling' = handling /\ ended'[m] = <<>>
        BY <2>6, Finishes DEF Finishing, callVars, Types
      <3>2. \A h \in Handler : handling[m][h] # "running"
        BY <1>2, <2>6, Numbers DEF Finishing, HandlersOf, Fresh, Handled, Fails, IsCommand
      <3>3. ToSet(<<>>) = {} /\ IsInjective(<<>>)
        BY DEF ToSet, IsInjective
      <3> QED
        BY <1>2, <3>1, <3>2, <3>3 DEF HandlersOf, Fresh, IsCommand, Drained
    <2>7. CASE CollectFollowUps(m)
      <3>1. /\ stage[m] = "collecting" /\ stage'[m] = "done" /\ op' = op
            /\ handling' = handling /\ ended' = ended
        BY <2>7 DEF CollectFollowUps, callVars, Types
      <3> QED
        BY <1>2, <3>1 DEF HandlersOf, Fresh, IsCommand, Drained
    <2> QED
      BY <1>5, <2>1, <2>2, <2>3, <2>4, <2>5, <2>6, <2>7 DEF OwnStep
  <1> QED
    BY <1>4, <1>5, OwnSteps

\* FollowUps, for one message: which events it has taken over.
FollowUpsOf(m) ==
  /\ IsInjective(follow[m])
  /\ \A e \in Msg : e \in ToSet(follow[m]) <=>
       by[e][1] = m /\ Collected(m, by[e][2]) /\ ~Fails(m, by[e][2])

\* A message keeps the follow-ups it has.
LEMMA FollowUpsGrow ==
  ASSUME IInv, Next, NEW m \in Msg
  PROVE  FollowUpsOf(m)' /\ ToSet(follow[m]) \subseteq ToSet(follow'[m])
  <1> USE DEF IInv
  <1>1. FollowUpsOf(m) /\ follow[m] \in Seq(Msg) /\ ended[m] \in Seq(Handler)
    BY DEF FollowUpsOf, FollowUps, Types
  <1>2. \A e \in Msg : by[e][1] = m => by[e][2] \in Handler /\ by[e] = <<m, by[e][2]>>
    BY HandedOver
  <1>3. CASE Kept(m)
    <2>1. \A g : Collected(m, g)' <=> Collected(m, g)
      BY <1>3 DEF Kept, Collected
    <2>2. CASE by' = by
      BY <1>1, <1>3, <2>1, <2>2 DEF Kept, FollowUpsOf, Fails
    <2>3. CASE \E d \in Msg, h \in Handler : Emit(d, h)
      <3>1. PICK d \in Msg, h \in Handler : Emit(d, h)
        BY <2>3
      <3>2. PICK e \in Msg : stage[e] = "unused" /\ by' = [by EXCEPT ![e] = <<d, h>>]
        BY <3>1 DEF Emit
      <3>3. by[e] = <<0, 0>> /\ by'[e] = <<d, h>> /\ \A x \in Msg \ {e} : by'[x] = by[x]
        BY <3>2 DEF Numbering, Types
      <3>4. handling[d][h] = "running" /\ ~Collected(d, h)
        BY <3>1 DEF Emit, InHandler, Collected
      <3>5. e \notin ToSet(follow[m])
        BY <1>1, <3>3, Numbers DEF FollowUpsOf
      <3> QED
        BY <1>1, <1>3, <2>1, <3>3, <3>4, <3>5 DEF Kept, FollowUpsOf, Fails
    <2> QED
      BY <2>2, <2>3, CallMoves DEF CallMoved
  <1>4. CASE OwnStep(m)
    <2>1. CASE Enter(m)
      <3>1. ended'[m] = <<>> /\ ended[m] = <<>> /\ follow' = follow /\ by' = by
        BY <2>1 DEF Enter, Handlers, Fresh
      <3>2. \A h \in Handler : handling[m][h] = "none" /\ handling'[m][h] \in {"running", "none"}
        BY <2>1, HandlerMoves DEF HandlerMoved, Handlers, Fresh, Enter
      <3> QED
        BY <1>1, <1>2, <3>1, <3>2 DEF FollowUpsOf, Collected
    <2>2. ASSUME NEW h \in Handler, NEW r \in HandlerEnds, HandlerEnd(m, h, r)
          PROVE  FollowUpsOf(m)' /\ ToSet(follow[m]) \subseteq ToSet(follow'[m])
      <3>1. /\ handling[m][h] = "running" /\ ended'[m] = Append(ended[m], h)
            /\ follow' = follow /\ by' = by
        BY <2>2 DEF HandlerEnd, InHandler, Types
      <3>2. \A g \in Handler : handling'[m][g] = IF g = h THEN r ELSE handling[m][g]
        BY <2>2 DEF HandlerEnd, Types
      <3>3. ToSet(ended'[m]) = ToSet(ended[m]) \cup {h}
        BY <1>1, <3>1, ElementsOfAppend
      <3>4. \A g \in Handler : Collected(m, g)' <=> Collected(m, g)
        BY <3>1, <3>2, <3>3 DEF Collected
      <3>5. \A g \in Handler : Collected(m, g) => handling'[m][g] = handling[m][g]
        BY <3>1, <3>2 DEF Collected
      <3> HIDE DEF IInv
      <3> QED
        BY <1>1, <1>2, <3>1, <3>4, <3>5 DEF FollowUpsOf, Fails
    <2>3. CASE Collect(m)
      <3> DEFINE h == Head(ended[m])
      <3>1. /\ handling' = handling /\ ended[m] # <<>> /\ ended'[m] = Tail(ended[m]) /\ by' = by
            /\ follow'[m] = follow[m] \o Outcome(m, h)
        BY <2>3 DEF Collect, Types
      <3>2. /\ h \in Handler /\ handling[m][h] \in {"ok", "swallowed", "raised", "drain"}
            /\ \A g \in Handler : g \in ToSet(ended[m]) <=> g = h \/ g \in ToSet(ended'[m])
            /\ h \in ToSet(ended[m]) /\ h \notin ToSet(ended'[m])
        <4>1. h \in Handler /\ h \in ToSet(ended[m]) /\ IsInjective(ended[m])
          BY <1>1, <3>1, ElementsOfTail DEF Handlers
        <4>2. ToSet(ended[m]) = {h} \cup ToSet(ended'[m]) /\ h \notin ToSet(ended'[m])
          BY <1>1, <3>1, <4>1, ElementsOfTail
        <4> QED
          BY <4>1, <4>2 DEF Handlers
      <3> HIDE DEF h
      <3>3. \A g \in Handler : Collected(m, g)' <=> Collected(m, g) \/ g = h
        BY <3>1, <3>2 DEF Collected
      <3>4. /\ Outcome(m, h) \in Seq(Msg) /\ IsInjective(Outcome(m, h))
            /\ ToSet(Outcome(m, h)) =
                 {e \in Msg : by[e] = <<m, h>> /\ handling[m][h] \in {"ok", "swallowed"}}
        BY <3>2, Outcomes
      <3>5. ToSet(follow[m]) \cap ToSet(Outcome(m, h)) = {}
        BY <1>1, <3>2, <3>4 DEF FollowUpsOf, Collected
      <3>6. /\ ToSet(follow'[m]) = ToSet(follow[m]) \cup ToSet(Outcome(m, h))
            /\ IsInjective(follow'[m])
        <4>1. IsInjective(follow[m]) /\ follow[m] \in Seq(Msg)
          BY <1>1 DEF FollowUpsOf
        <4> HIDE DEF IInv
        <4> QED
          BY <3>1, <3>4, <3>5, <4>1, ElementsOfConcat
      <3> HIDE DEF IInv
      <3>7. ASSUME NEW e \in Msg
            PROVE  e \in ToSet(follow'[m]) <=>
                     by[e][1] = m /\ Collected(m, by[e][2])' /\ ~Fails(m, by[e][2])
        <4>1. CASE by[e][1] # m
          BY <1>1, <3>4, <3>6, <4>1 DEF FollowUpsOf
        <4>2. CASE by[e][1] = m /\ by[e][2] = h
          <5>1. by[e] = <<m, h>> /\ by' = by
            BY <1>2, <3>1, <4>2
          <5>3. ~Collected(m, h) /\ Collected(m, by[e][2])'
            BY <3>2, <3>3, <4>2, <5>1 DEF Collected
          <5>2. e \notin ToSet(follow[m])
            BY <1>1, <4>2, <5>3 DEF FollowUpsOf
          <5> QED
            BY <3>2, <3>4, <3>6, <4>2, <5>1, <5>2, <5>3 DEF Fails
        <4>3. CASE by[e][1] = m /\ by[e][2] # h
          <5>1. by[e] # <<m, h>> /\ by[e][2] \in Handler
            BY <1>2, <4>3
          <5>2. Collected(m, by[e][2])' <=> Collected(m, by[e][2])
            BY <3>1, <3>3, <4>3, <5>1
          <5> QED
            BY <1>1, <3>4, <3>6, <4>3, <5>1, <5>2 DEF FollowUpsOf
        <4> QED
          BY <4>1, <4>2, <4>3
      <3> QED
        BY <3>1, <3>6, <3>7 DEF FollowUpsOf, Fails
    <2>4. CASE m = 1 /\ CommandHandled
      <3>1. /\ handling' = handling /\ ended[m] # <<>> /\ ended'[m] = <<>> /\ by' = by
            /\ follow'[m] = Outcome(m, 1) /\ IsCommand(m) /\ ~Fails(m, 1)
        BY <2>4, Numbers DEF CommandHandled, Types
      <3>2. /\ \A g \in Handler \ {1} : handling[m][g] = "none"
            /\ handling[m][1] \in {"ok", "swallowed", "raised", "drain"} /\ 1 \in ToSet(ended[m])
        <4>1. Head(ended[m]) \in ToSet(ended[m]) /\ Head(ended[m]) \in Handler
          BY <1>1, <3>1, ElementsOfTail
        <4>2. \A g \in Handler \ {1} : handling[m][g] = "none"
          BY <2>4, <3>1 DEF Handlers
        <4> QED
          BY <4>1, <4>2 DEF Handlers
      <3>3. /\ Outcome(m, 1) \in Seq(Msg) /\ IsInjective(Outcome(m, 1))
            /\ ToSet(Outcome(m, 1)) =
                 {e \in Msg : by[e] = <<m, 1>> /\ handling[m][1] \in {"ok", "swallowed"}}
        BY Numbers, Outcomes
      <3>4. ToSet(<<>>) = {}
        BY DEF ToSet
      <3>5. \A g \in Handler : Collected(m, g)' <=> g = 1
        BY <3>1, <3>2, <3>4 DEF Collected
      <3>6. \A e \in Msg : e \notin ToSet(follow[m])
        <4>1. \A g \in Handler : ~Collected(m, g)
          BY <3>2 DEF Collected
        <4> QED
          BY <1>1, <1>2, <4>1 DEF FollowUpsOf
      <3>7. ToSet(follow[m]) \subseteq Msg
        BY <1>1, ElementsOf
      <3> HIDE DEF IInv
      <3> QED
        <4>1. ToSet(follow[m]) = {}
          BY <3>6, <3>7
        <4>2. ASSUME NEW e \in Msg
              PROVE  e \in ToSet(Outcome(m, 1)) <=>
                       by[e][1] = m /\ Collected(m, by[e][2])' /\ ~Fails(m, by[e][2])
          <5>1. by[e][1] = m => by[e][2] \in Handler /\ by[e] = <<m, by[e][2]>>
            BY <1>2
          <5>2. by[e] = <<m, 1>> => by[e][1] = m /\ by[e][2] = 1
            OBVIOUS
          <5> QED
            BY <3>1, <3>2, <3>3, <3>5, <5>1, <5>2 DEF Fails
        <4> QED
          BY <3>1, <3>3, <4>1, <4>2 DEF FollowUpsOf, Fails
    <2>5. CASE Refuse(m) \/ CollectFollowUps(m)
      BY <1>1, <2>5 DEF Refuse, CollectFollowUps, FollowUpsOf, Collected, Fails
    <2>6. CASE Finishing(m)
      <3>1. handling' = handling /\ ended'[m] = <<>> /\ follow' = follow /\ by' = by
        BY <2>6 DEF Finishing, Types
      <3>2. \/ ended[m] = <<>>
            \/ /\ Fails(m, 1)
               /\ \A g \in Handler \ {1} : handling[m][g] = "none"
        <4>1. CASE stage[m] \in {"started", "following"}
          BY <4>1 DEF Handlers, Fresh
        <4>2. CASE stage[m] = "handling"
          <5>1. IsCommand(m) => m = 1 /\ IsCommand(1)
            BY DEF IsCommand
          <5> QED
            BY <2>6, <4>2, <5>1 DEF Finishing, Handled, Handlers
        <4> QED
          BY <2>6, <4>1, <4>2 DEF Finishing, Handled
      <3>3. ToSet(<<>>) = {}
        BY DEF ToSet
      <3>4. \A g \in Handler : Collected(m, g)' /\ ~Fails(m, g)
                                 <=> Collected(m, g) /\ ~Fails(m, g)
        BY <3>1, <3>2, <3>3 DEF Collected
      <3> HIDE DEF IInv
      <3> QED
        BY <1>1, <1>2, <3>1, <3>4 DEF FollowUpsOf, Fails
    <2> QED
      BY <1>4, <2>1, <2>2, <2>3, <2>4, <2>5, <2>6 DEF OwnStep
  <1> QED
    BY <1>3, <1>4, OwnSteps

\* How an event leaves the list it was emitted to.
TakenOver(e) ==
  \/ \E m \in Msg : Sequential /\ ~IsCommand(m) /\ Finishing(m) /\ e \in ToSet(follow[m])
  \/ \E m \in Msg : Sequential /\ Cancel /\ Running(m) /\ e \in ToSet(follow[m])
  \/ \E m \in Msg : ~Sequential /\ Collect(m) /\ e \in ToSet(follow'[m])
  \/ CommandHandled /\ e \in ToSet(follow'[1])

LEMMA TakenOverOnce ==
  ASSUME IInv, Next, NEW e \in Msg, stage[e] = "emitted", stage'[e] # "emitted"
  PROVE  TakenOver(e)
  <1> USE DEF IInv
  <1>1. e \notin ToSet(pending)
    BY DEF Queue, ToSet
  <1>2. ASSUME NEW o \in {"send", "publish"}, Call(o) PROVE FALSE
    BY <1>2, Numbers DEF Call, Types, Numbering
  <1>3. CASE Cancel
    <2>1. ~IsCommand(e) /\ ~Running(e) /\ stage'[e] # stage[e]
      BY DEF Numbering, IsCommand, Running
    <2>2. /\ Sequential
          /\ \E m \in Msg : /\ IsCommand(m) \/ (Sequential /\ Running(m))
                            /\ e \in ToSet(follow[m])
      BY <1>1, <1>3, <2>1 DEF Cancel
    <2>3. PICK m \in Msg : (IsCommand(m) \/ Running(m)) /\ e \in ToSet(follow[m])
      BY <2>2
    <2>4. ~IsCommand(m)
      BY <2>3 DEF FollowUps
    <2> QED
      BY <1>3, <2>2, <2>3, <2>4 DEF TakenOver
  <1>4. ASSUME NEW m \in Msg, Start(m) \/ Refuse(m) \/ Enter(m) \/ CollectFollowUps(m) PROVE FALSE
    BY <1>4 DEF Start, Refuse, Enter, CollectFollowUps, Turn, Types
  <1>5. ASSUME NEW m \in Msg, Finishing(m) PROVE TakenOver(e)
    <2>1. e # m
      BY <1>5 DEF Finishing, Handled
    <2>2. Sequential /\ ~IsCommand(m)
      BY <1>5, <2>1, Finishes
    <2>3. e \in ToSet(pending') \/ e \in ToSet(pending) \cup ToSet(follow[m])
      BY <1>5, <2>1, <2>2, Finishes
    <2>4. ToSet(pending') \subseteq ToSet(pending) \cup ToSet(follow[m])
      <3>1. pending \in Seq(Msg) /\ follow[m] \in Seq(Msg) /\ ToSet(<<>>) = {}
        BY DEF Types, ToSet
      <3>2. pending' \in {<<>>, pending, pending \o follow[m]}
        BY <1>5, <2>2, Finishes
      <3>3. ToSet(pending \o follow[m]) = ToSet(pending) \cup ToSet(follow[m])
        BY <3>1, ElementsOfConcat
      <3> HIDE DEF IInv
      <3> QED
        BY <3>1, <3>2, <3>3
    <2> HIDE DEF IInv
    <2> QED
      BY <1>1, <1>5, <2>2, <2>3, <2>4 DEF TakenOver
  <1>6. ASSUME NEW m \in Msg, NEW h \in Handler, Emit(m, h) PROVE FALSE
    BY <1>6 DEF Emit, Types
  <1>7. ASSUME NEW m \in Msg, NEW h \in Handler, NEW r \in HandlerEnds, HandlerEnd(m, h, r)
        PROVE  FALSE
    BY <1>7 DEF HandlerEnd
  <1>8. ASSUME NEW m \in Msg, Collect(m) PROVE TakenOver(e)
    <2> DEFINE h == Head(ended[m])
    <2>1. ~Sequential /\ e \in ToSet(Outcome(m, h))
      BY <1>8 DEF Collect
    <2>2. follow'[m] = follow[m] \o Outcome(m, h)
      BY <1>8 DEF Collect, Types
    <2>3. h \in Handler
      BY <1>8 DEF Collect, Types
    <2> HIDE DEF h
    <2>4. follow[m] \in Seq(Msg) /\ Outcome(m, h) \in Seq(Msg)
      BY <2>3, Outcomes DEF Types
    <2>5. e \in ToSet(follow'[m])
      BY <2>1, <2>2, <2>4, ElementsOfConcat
    <2> HIDE DEF IInv
    <2> QED
      BY <1>8, <2>1, <2>5 DEF TakenOver
  <1>9. CASE CommandHandled
    <2>1. e \in ToSet(Outcome(1, 1)) /\ follow'[1] = Outcome(1, 1)
      BY <1>9, Numbers DEF CommandHandled, Types
    <2> QED
      BY <1>9, <2>1 DEF TakenOver
  <1>10. CASE Return \/ BeginClose \/ WaitDrained \/ FinishClose
    BY <1>10 DEF Return, BeginClose, WaitDrained, FinishClose
  <1>11. ASSUME NEW m \in Msg, NEW b \in Before, Deflect(m, b) PROVE TakenOver(e)
    BY <1>5, <1>11, DeflectFinishes
  <1>12. ASSUME NEW m \in Msg, NEW a \in After, Complete(m, a) PROVE TakenOver(e)
    BY <1>5, <1>12, CompleteFinishes
  <1> HIDE DEF IInv
  <1> QED
    BY <1>2, <1>3, <1>4, <1>6, <1>7, <1>8, <1>9, <1>10, <1>11, <1>12 DEF Next, Step

LEMMA FollowUpsNext ==
  ASSUME IInv, Next
  PROVE  FollowUps'
  <1> USE DEF IInv
  <1>1. \A m \in Msg : FollowUpsOf(m)' /\ ToSet(follow[m]) \subseteq ToSet(follow'[m])
    BY FollowUpsGrow
  <1>2. ASSUME NEW e \in Msg, stage[e] # "unused"
        PROVE  by'[e] = by[e]
    <2>1. CASE \E d \in Msg, h \in Handler : Emit(d, h)
      BY <1>2, <2>1 DEF Emit, Types
    <2> QED
      BY <2>1, CallMoves DEF CallMoved
  <1>3. ASSUME NEW m \in Msg, stage[m] # "unused"
        PROVE  IsCommand(m)' <=> IsCommand(m)
    BY <1>3, SameCommand
  <1>4. ASSUME NEW e \in Msg, stage[e] = "emitted", stage'[e] # "emitted"
        PROVE  e \in ToSet(follow'[by'[e][1]])
    <2>1. TakenOver(e)
      BY <1>4, TakenOverOnce
    <2>2. PICK m \in Msg : e \in ToSet(follow'[m])
      BY <1>1, <2>1, Numbers DEF TakenOver
    <2>3. FollowUpsOf(m)'
      BY <1>1
    <2>4. by'[e][1] = m
      BY <2>2, <2>3 DEF FollowUpsOf
    <2> QED
      BY <2>2, <2>4
  <1>5. ASSUME NEW e \in Msg, stage'[e] # "unused", e # 1, e \notin ToSet(follow'[by'[e][1]])
        PROVE  stage'[e] = "emitted"
    <2>1. CASE stage[e] = "unused"
      BY <1>5, <2>1, Moves DEF Moved
    <2>2. CASE stage[e] # "unused"
      <3>1. by'[e] = by[e] /\ by[e][1] \in Msg
        BY <1>2, <1>5, <2>2 DEF Numbering
      <3>2. e \notin ToSet(follow[by[e][1]])
        BY <1>1, <1>5, <3>1
      <3>3. stage[e] = "emitted"
        BY <1>5, <2>2, <3>2 DEF FollowUps
      <3> QED
        BY <1>4, <1>5, <3>3
    <2> QED
      BY <2>1, <2>2
  <1>6. ASSUME NEW m \in Msg, NEW e \in ToSet(follow[m])
        PROVE  stage'[e] = "emitted" <=> Sequential /\ ~IsCommand(m)' /\ stage'[m] = "handling"
    <2>1. e \in Msg /\ by[e][1] = m /\ stage[e] # "unused"
      <3>1. e \in Msg
        BY <1>6, ElementsOf DEF Types
      <3>2. by[e][1] = m
        BY <1>6, <3>1 DEF FollowUps
      <3> QED
        BY <3>1, <3>2, HandedOver
    <2>2. ~Fresh(m) /\ stage[m] # "unused" /\ (IsCommand(m)' <=> IsCommand(m))
      <3>1. ~Fresh(m)
        BY <1>6 DEF Handlers, ToSet
      <3> QED
        BY <1>3, <3>1 DEF Fresh
    <2>3. ASSUME Sequential, ~IsCommand(m)', stage'[m] = "handling", stage'[e] # "emitted"
          PROVE  FALSE
      <3>1. stage[m] = "handling"
        BY <2>2, <2>3, Moves DEF Moved, Fresh
      <3>2. stage[e] = "emitted"
        BY <1>6, <2>2, <2>3, <3>1 DEF FollowUps
      <3>3. TakenOver(e)
        BY <2>1, <2>3, <3>2, TakenOverOnce
      <3>4. \A d \in Msg : e \in ToSet(follow[d]) => d = m
        BY <2>1 DEF FollowUps
      <3>5. CASE Finishing(m)
        BY <2>3, <3>5, Finishes
      <3>6. CASE Cancel /\ Running(m)
        BY <2>3, <3>1, <3>6 DEF Cancel
      <3>7. CommandHandled => e \notin ToSet(follow'[1])
        <4> SUFFICES ASSUME CommandHandled PROVE e \notin ToSet(follow'[1])
          OBVIOUS
        <4>1. m # 1
          BY <2>2, <2>3 DEF CommandHandled, IsCommand
        <4>2. FollowUpsOf(1)' /\ by'[e] = by[e]
          BY <1>1, <1>2, <2>1, Numbers
        <4> QED
          BY <2>1, <4>1, <4>2 DEF FollowUpsOf
      <3> HIDE DEF IInv
      <3> QED
        BY <2>3, <3>3, <3>4, <3>5, <3>6, <3>7 DEF TakenOver
    <2>4. ASSUME stage'[e] = "emitted"
          PROVE  Sequential /\ ~IsCommand(m) /\ stage'[m] = "handling"
      <3>1. stage[e] = "emitted"
        BY <2>1, <2>4, Moves DEF Moved
      <3>2. Sequential /\ ~IsCommand(m) /\ stage[m] = "handling"
        BY <1>6, <3>1 DEF FollowUps
      <3>3. CASE Kept(m)
        <4>1. Moved(m)
          BY Moves
        <4>2. ~Cancel
          <5> SUFFICES ASSUME Cancel PROVE FALSE
            OBVIOUS
          <5>1. Running(m)
            BY <3>2 DEF Running
          <5> QED
            BY <1>6, <2>1, <2>4, <3>1, <3>2, <5>1 DEF Cancel, Numbering, IsCommand, Running
        <4> QED
          BY <3>2, <3>3, <4>1, <4>2 DEF Kept, Moved
      <3>4. CASE OwnStep(m)
        <4>1. ~Finishing(m)
          <5> SUFFICES ASSUME Finishing(m) PROVE FALSE
            OBVIOUS
          <5>1. e # m
            BY <3>1, <3>2
          <5> QED
            BY <1>6, <2>1, <2>4, <3>2, <5>1, Finishes
        <4>2. ~Enter(m) /\ ~Refuse(m) /\ ~CollectFollowUps(m) /\ ~(m = 1 /\ CommandHandled)
          BY <3>2 DEF Enter, Refuse, Turn, CollectFollowUps, CommandHandled, IsCommand
        <4>3. Collect(m) => stage'[m] = stage[m]
          BY <3>2 DEF Collect
        <4>4. (\E h \in Handler, r \in HandlerEnds : HandlerEnd(m, h, r)) => stage'[m] = stage[m]
          BY DEF HandlerEnd
        <4> QED
          BY <3>2, <3>4, <4>1, <4>2, <4>3, <4>4 DEF OwnStep
      <3> QED
        BY <3>2, <3>3, <3>4, OwnSteps
    <2> QED
      BY <2>2, <2>3, <2>4
  <1>7. ASSUME NEW m \in Msg, NEW e \in ToSet(follow'[m]), e \notin ToSet(follow[m])
        PROVE  stage'[e] = "emitted" <=> Sequential /\ ~IsCommand(m)' /\ stage'[m] = "handling"
    <2>1. e \in Msg
      <3>1. follow'[m] \in Seq(Msg)
        BY TypesNext DEF Types
      <3> HIDE DEF IInv
      <3> QED
        BY <1>7, <3>1, ElementsOf
    <2>2. OwnStep(m) /\ follow'[m] # follow[m]
      BY <1>7, OwnSteps DEF Kept
    <2>3. by' = by /\ (Collect(m) \/ (m = 1 /\ CommandHandled))
      BY <2>2 DEF OwnStep, Enter, HandlerEnd, Refuse, Finishing, Collect, CommandHandled,
         CollectFollowUps
    <2>4. by[e][1] = m
      <3>1. FollowUpsOf(m)'
        BY <1>1
      <3> QED
        BY <1>7, <2>1, <2>3, <3>1 DEF FollowUpsOf
    <2>5. stage[e] = "emitted" /\ m < e
      BY <1>7, <2>1, <2>4, HandedOver
    <2>6. CASE Collect(m)
      <3> DEFINE h == Head(ended[m])
      <3>1. h \in Handler /\ stage[m] = "handling" /\ ~IsCommand(m) /\ IsCommand(m)' = IsCommand(m)
        BY <2>6 DEF Collect, Types, callVars, IsCommand
      <3>2. follow'[m] = follow[m] \o Outcome(m, h) /\ follow[m] \in Seq(Msg)
        BY <2>6 DEF Collect, Types
      <3>3. \A d \in Msg : stage'[d] = IF ~Sequential /\ d \in ToSet(Outcome(m, h)) THEN "queued"
                                       ELSE stage[d]
        BY <2>6 DEF Collect
      <3> HIDE DEF h
      <3>4. e \in ToSet(Outcome(m, h))
        <4>1. Outcome(m, h) \in Seq(Msg)
          BY <3>1, Outcomes
        <4> QED
          BY <1>7, <3>2, <4>1, ElementsOfConcat
      <3>5. stage'[m] \in {"handling", "queued"}
        BY <3>1, <3>3
      <3>6. stage'[m] = "handling"
        BY <3>1, <3>5, Moves DEF Moved
      <3> HIDE DEF IInv
      <3> QED
        BY <2>1, <2>5, <3>1, <3>3, <3>4, <3>6
    <2>7. CASE m = 1 /\ CommandHandled
      <3>1. stage'[1] = "following" /\ follow'[1] = Outcome(1, 1)
        BY <2>7, Numbers DEF CommandHandled, Types
      <3>2. e # 1
        BY <2>5, <2>7
      <3>3. stage'[e] = "queued"
        BY <1>7, <2>1, <2>7, <3>1, <3>2 DEF CommandHandled
      <3> QED
        BY <2>7, <3>1, <3>3
    <2> QED
      BY <2>3, <2>6, <2>7
  <1>8. \A m \in Msg : IsInjective(follow'[m])
    <2> TAKE m \in Msg
    <2>1. FollowUpsOf(m)'
      BY <1>1
    <2> QED
      BY <2>1 DEF FollowUpsOf
  <1>9. \A m, e \in Msg : e \in ToSet(follow'[m]) <=>
          by'[e][1] = m /\ Collected(m, by[e][2])' /\ ~Fails(m, by[e][2])'
    <2> TAKE m, e \in Msg
    <2>1. FollowUpsOf(m)'
      BY <1>1
    <2> QED
      BY <2>1 DEF FollowUpsOf
  <1> QED
    BY <1>5, <1>6, <1>7, <1>8, <1>9 DEF FollowUps

-----------------------------------------------------------------------------
(* The queue.                                                              *)

\* A BusDrainingError that ended a dispatch stays, and so does every error.
LEMMA ErrorsStay ==
  ASSUME IInv, Next, NEW m \in Msg, stage[m] = "done" \/ ~Sequential
  PROVE  /\ Drained(m) => Drained(m)'
         /\ stage[m] = "done" => Kept(m) /\ stage'[m] = "done"
  <1> USE DEF IInv
  <1>1. Drained(m) => stage[m] = "done"
    BY DEF Handlers
  <1>2. stage[m] = "done" => ~OwnStep(m)
    BY DEF OwnStep, Enter, HandlerEnd, InHandler, Collect, CommandHandled, Refuse, Turn,
       Finishing, Handled, CollectFollowUps
  <1>3. stage[m] = "done" => Kept(m) /\ stage'[m] = "done"
    BY <1>2, OwnSteps, Moves DEF Moved
  <1>4. stage[m] # "unused" => (IsCommand(m)' <=> IsCommand(m))
    BY SameCommand
  <1> QED
    BY <1>1, <1>3, <1>4 DEF Kept, Drained

LEMMA WholeBefore ==
  ASSUME IInv, Next, Whole'
  PROVE  Whole
  <1> SUFFICES ASSUME NEW m \in Msg, Drained(m) PROVE FALSE
    BY DEF Whole
  <1>1. stage[m] = "done"
    BY DEF IInv, Handlers
  <1> QED
    BY <1>1, ErrorsStay DEF Whole

\* The sequential loop drops events, and so does a call that is cancelled.
LEMMA Drops ==
  ASSUME IInv, Next, NEW e \in Msg, stage[e] # "dropped", stage'[e] = "dropped"
  PROVE  /\ Sequential
         /\ Cancel \/ \E m \in Msg \ {e} : Finishing(m) /\ ~IsCommand(m)
  <1> USE DEF IInv
  <1>1. ASSUME NEW o \in {"send", "publish"}, Call(o) PROVE FALSE
    BY <1>1 DEF Call, Types
  <1>2. Cancel => Sequential
    BY DEF Cancel, Queue, ToSet
  <1>3. ASSUME NEW m \in Msg, Start(m) \/ Refuse(m) \/ Enter(m) \/ CollectFollowUps(m) PROVE FALSE
    BY <1>3 DEF Start, Refuse, Enter, CollectFollowUps, Types
  <1>4. ASSUME NEW m \in Msg, Finishing(m)
        PROVE  m # e /\ Sequential /\ ~IsCommand(m)
    <2>1. m # e
      BY <1>4, Finishes
    <2> QED
      BY <1>4, <2>1, Finishes
  <1>5. ASSUME NEW m \in Msg, NEW h \in Handler, Emit(m, h) PROVE FALSE
    BY <1>5 DEF Emit, Types
  <1>6. ASSUME NEW m \in Msg, NEW h \in Handler, NEW r \in HandlerEnds, HandlerEnd(m, h, r)
        PROVE  FALSE
    BY <1>6 DEF HandlerEnd
  <1>7. ASSUME NEW m \in Msg, Collect(m) PROVE FALSE
    BY <1>7 DEF Collect
  <1>8. CASE CommandHandled \/ Return \/ BeginClose \/ WaitDrained \/ FinishClose
    BY <1>8 DEF CommandHandled, Return, BeginClose, WaitDrained, FinishClose
  <1>9. ASSUME NEW m \in Msg, NEW b \in Before, Deflect(m, b)
        PROVE  \E d \in Msg \ {e} : Sequential /\ Finishing(d) /\ ~IsCommand(d)
    BY <1>4, <1>9, DeflectFinishes
  <1>10. ASSUME NEW m \in Msg, NEW a \in After, Complete(m, a)
         PROVE  \E d \in Msg \ {e} : Sequential /\ Finishing(d) /\ ~IsCommand(d)
    BY <1>4, <1>10, CompleteFinishes
  <1> HIDE DEF IInv
  <1> QED
    BY <1>1, <1>2, <1>3, <1>5, <1>6, <1>7, <1>8, <1>9, <1>10 DEF Next, Step

\* A call that waits keeps the bus from closing.
LEMMA TurnsAdmitted ==
  ASSUME IInv, NEW m \in Msg, Refuse(m)
  PROVE  ~Sequential
  BY DEF IInv, Refuse, Turn, Closing

\* The queue holds what is queued, once.
QueueHolds ==
  /\ \A m \in Msg : stage[m] = "queued" <=> m \in ToSet(pending)
  /\ IsInjective(pending)

LEMMA QueueHeld ==
  ASSUME IInv, Next, Sequential
  PROVE  QueueHolds'
  <1> USE DEF IInv
  <1>1. QueueHolds /\ pending \in Seq(Msg) /\ ToSet(<<>>) = {} /\ IsInjective(<<>>)
    BY DEF Queue, QueueHolds, Types, ToSet, IsInjective
  <1>2. ASSUME NEW o \in {"send", "publish"}, Call(o) PROVE QueueHolds'
    <2>1. \A m \in Msg : stage[m] = "unused"
      <3>1. \A m \in Msg : m = 1 \/ 1 < m
        BY Numbers
      <3> QED
        BY <1>2, <3>1, Numbers DEF Call, Numbering
    <2>2. \A m \in Msg : stage'[m] = "queued" <=> m = 1 /\ o # "send"
      BY <1>2, <2>1, Numbers DEF Call, Types
    <2>3. pending' = IF o # "send" THEN <<1>> ELSE <<>>
      BY <1>2 DEF Call
    <2>4. ToSet(<<1>>) = {1} /\ IsInjective(<<1>>)
      BY DEF ToSet, IsInjective
    <2> QED
      BY <1>1, <2>2, <2>3, <2>4 DEF QueueHolds
  <1>3. CASE Cancel
    <2>1. pending' = <<>>
      BY <1>3 DEF Cancel
    <2>2. ASSUME NEW m \in Msg PROVE stage'[m] # "queued"
      BY <1>1, <1>3 DEF Cancel, QueueHolds
    <2> QED
      BY <1>1, <2>1, <2>2 DEF QueueHolds
  <1>4. ASSUME NEW d \in Msg, Start(d) PROVE QueueHolds'
    <2>1. /\ pending # <<>> /\ d = Head(pending) /\ pending' = Tail(pending)
          /\ ToSet(Tail(pending)) = ToSet(pending) \ {d}
      BY <1>4, TurnTaken DEF Start
    <2>2. IsInjective(pending')
      BY <1>1, <2>1, ElementsOfTail DEF QueueHolds
    <2>3. \A m \in Msg : stage'[m] = IF m = d THEN "started" ELSE stage[m]
      BY <1>4 DEF Start, Types
    <2> QED
      BY <1>1, <2>1, <2>2, <2>3 DEF QueueHolds
  <1>5. ASSUME NEW d \in Msg, Enter(d) PROVE QueueHolds'
    BY <1>1, <1>5 DEF Enter, Types, QueueHolds
  <1>6. ASSUME NEW d \in Msg, Finishing(d) PROVE QueueHolds'
    <2>1. stage'[d] = "done" /\ stage[d] # "queued"
      BY <1>6, Finishes DEF Finishing, Handled
    <2>2. CASE IsCommand(d)
      BY <1>1, <1>6, <2>1, <2>2, Finishes DEF QueueHolds
    <2>3. CASE ~IsCommand(d)
      <3>1. /\ pending' = IF threw'[d] = "drain" THEN <<>>
                          ELSE IF threw'[d] = "error" THEN pending ELSE pending \o follow[d]
            /\ \A e \in Msg \ {d} :
                 stage'[e] = IF e \in ToSet(pending') THEN "queued"
                             ELSE IF e \in ToSet(pending) \cup ToSet(follow[d]) THEN "dropped"
                             ELSE stage[e]
        BY <1>6, <2>3, Finishes
      <3>2. follow[d] \in Seq(Msg) /\ IsInjective(follow[d]) /\ ToSet(follow[d]) \subseteq Msg
        BY ElementsOf DEF Types, FollowUps
      <3>3. ASSUME NEW e \in ToSet(follow[d]) PROVE e # d /\ stage[e] = "emitted"
        <4>1. stage[d] = "handling"
          BY <1>6, <2>3, <3>3 DEF Finishing, Handled, Handlers, Fresh, ToSet
        <4>2. stage[e] = "emitted"
          BY <2>3, <4>1 DEF FollowUps
        <4> QED
          BY <4>1, <4>2
      <3>4. d \notin ToSet(pending) /\ ToSet(pending) \cap ToSet(follow[d]) = {}
        BY <1>1, <2>1, <3>2, <3>3 DEF QueueHolds
      <3>5. /\ ToSet(pending \o follow[d]) = ToSet(pending) \cup ToSet(follow[d])
            /\ IsInjective(pending \o follow[d])
        <4>1. IsInjective(pending)
          BY <1>1 DEF QueueHolds
        <4> HIDE DEF IInv
        <4> QED
          BY <1>1, <3>2, <3>4, <4>1, ElementsOfConcat
      <3>6. IsInjective(pending') /\ d \notin ToSet(pending')
        BY <1>1, <3>1, <3>3, <3>4, <3>5 DEF QueueHolds
      <3> HIDE DEF IInv
      <3> QED
        BY <1>1, <2>1, <3>1, <3>6 DEF QueueHolds
    <2> QED
      BY <2>2, <2>3
  <1>7. ASSUME NEW d \in Msg, NEW h \in Handler, Emit(d, h) PROVE QueueHolds'
    BY <1>1, <1>7 DEF Emit, Types, QueueHolds
  <1>8. ASSUME NEW d \in Msg, Collect(d) PROVE QueueHolds'
    BY <1>1, <1>8 DEF Collect, QueueHolds
  <1>9. CASE CommandHandled
    <2>1. pending' = Outcome(1, 1) /\ IsInjective(pending') /\ ToSet(pending') \subseteq Msg
      BY <1>9, Numbers, Outcomes DEF CommandHandled
    <2>2. \A m \in Msg \ {1} : stage[m] \in {"unused", "emitted"}
      BY <1>9 DEF CommandHandled, Queue
    <2>3. 1 \notin ToSet(pending')
      <3>1. by[1] = <<0, 0>>
        BY Numbers DEF Numbering
      <3>2. 1 \in ToSet(Outcome(1, 1)) => by[1] = <<1, 1>>
        BY Numbers, Outcomes
      <3> QED
        BY <2>1, <3>1, <3>2
    <2>4. \A m \in Msg : stage'[m] = IF m = 1 THEN "following"
                                     ELSE IF m \in ToSet(pending') THEN "queued" ELSE stage[m]
      BY <1>9, <2>1 DEF CommandHandled
    <2> HIDE DEF IInv
    <2> QED
      BY <2>1, <2>2, <2>3, <2>4 DEF QueueHolds
  <1>10. ASSUME NEW d \in Msg PROVE ~CollectFollowUps(d) /\ ~Refuse(d)
    BY TurnsAdmitted DEF CollectFollowUps, Handlers
  <1>11. ASSUME NEW d \in Msg, NEW h \in Handler, NEW r \in HandlerEnds, HandlerEnd(d, h, r)
         PROVE  QueueHolds'
    BY <1>1, <1>11 DEF HandlerEnd, QueueHolds
  <1>12. CASE Return \/ BeginClose \/ WaitDrained \/ FinishClose
    BY <1>1, <1>12 DEF Return, BeginClose, WaitDrained, FinishClose, QueueHolds
  <1>13. ASSUME NEW m \in Msg, NEW b \in Before, Deflect(m, b) PROVE QueueHolds'
    BY <1>6, <1>13, DeflectFinishes
  <1>14. ASSUME NEW m \in Msg, NEW a \in After, Complete(m, a) PROVE QueueHolds'
    BY <1>6, <1>14, CompleteFinishes
  <1> HIDE DEF IInv
  <1> QED
    BY <1>2, <1>3, <1>4, <1>5, <1>7, <1>8, <1>9, <1>10, <1>11, <1>12, <1>13, <1>14 DEF Next, Step

\* A dispatch that is started has had its turn.
LEMMA Starts ==
  ASSUME IInv, Next, NEW m \in Msg, stage[m] = "queued", stage'[m] = "started"
  PROVE  Start(m)
  <1> USE DEF IInv
  <1>1. ASSUME NEW o \in {"send", "publish"}, Call(o) PROVE FALSE
    BY <1>1 DEF Call, Numbering, Types
  <1>2. ASSUME NEW d \in Msg, Finishing(d) PROVE FALSE
    <2>1. d # m
      BY <1>2 DEF Finishing, Handled
    <2> QED
      BY <1>2, <2>1, Finishes
  <1>3. ASSUME NEW d \in Msg, Refuse(d) \/ Enter(d) \/ Collect(d) \/ CollectFollowUps(d)
        PROVE  FALSE
    BY <1>3 DEF Refuse, Enter, Collect, CollectFollowUps, Types
  <1>4. ASSUME NEW d \in Msg, NEW h \in Handler, Emit(d, h) PROVE FALSE
    BY <1>4 DEF Emit, Types
  <1>5. ASSUME NEW d \in Msg, NEW h \in Handler, NEW r \in HandlerEnds, HandlerEnd(d, h, r)
        PROVE  FALSE
    BY <1>5 DEF HandlerEnd
  <1>6. ~ (Cancel \/ CommandHandled \/ Return \/ BeginClose \/ WaitDrained \/ FinishClose)
    BY DEF Cancel, CommandHandled, Return, BeginClose, WaitDrained, FinishClose
  <1>7. ASSUME NEW d \in Msg, Start(d) PROVE d = m
    BY <1>7 DEF Start, Types
  <1>8. ASSUME NEW d \in Msg, NEW b \in Before, Deflect(d, b) PROVE FALSE
    BY <1>2, <1>8, DeflectFinishes
  <1>9. ASSUME NEW d \in Msg, NEW a \in After, Complete(d, a) PROVE FALSE
    BY <1>2, <1>9, CompleteFinishes
  <1> HIDE DEF IInv
  <1> QED
    BY <1>1, <1>3, <1>4, <1>5, <1>6, <1>7, <1>8, <1>9 DEF Next, Step

\* The sequential loop begins with an event when it has none under way.
LEMMA NextRunning ==
  ASSUME IInv, Next, Sequential, NEW m \in Msg, Running(m)'
  PROVE  Running(m) \/ (Start(m) /\ \A e \in Msg : ~Running(e))
  <1> USE DEF IInv
  <1>1. CASE stage[m] \in {"started", "handling"}
    <2>1. op' = op \/ m # 1
      BY <1>1, CallMoves DEF CallMoved, Numbering
    <2> QED
      BY <1>1, <2>1 DEF Running, IsCommand
  <1>2. CASE stage[m] \notin {"started", "handling"}
    <2>1. stage[m] = "queued" /\ stage'[m] = "started"
      BY <1>2, Moves DEF Moved, Running, IsCommand
    <2>2. Start(m)
      BY <2>1, Starts
    <2> QED
      BY <2>2 DEF Start, Turn
  <1> QED
    BY <1>1, <1>2

Unqueued == pending = <<>>

LEMMA QueueNext ==
  ASSUME IInv, Next
  PROVE  Queue'
  <1> USE DEF IInv
  <1>1. CASE ~Sequential
    <2>0. pending = <<>>
      BY <1>1 DEF Queue
    <2>1. \A m \in Msg : stage'[m] # "dropped"
      BY <1>1, Drops DEF Queue
    <2>2. ASSUME NEW m \in Msg, Finishing(m) PROVE Unqueued'
      BY <1>1, <2>0, <2>2, Finishes DEF Unqueued
    <2>3. ASSUME NEW m \in Msg,
                 Start(m) \/ Refuse(m) \/ Enter(m) \/ Collect(m) \/ CollectFollowUps(m)
          PROVE  Unqueued'
      BY <1>1, <2>0, <2>3 DEF Start, Refuse, Enter, Collect, CollectFollowUps, Unqueued
    <2>4. ASSUME NEW m \in Msg, NEW h \in Handler, Emit(m, h) PROVE Unqueued'
      BY <1>1, <2>0, <2>4 DEF Emit, Unqueued
    <2>5. ASSUME NEW m \in Msg, NEW h \in Handler, NEW r \in HandlerEnds, HandlerEnd(m, h, r)
          PROVE  Unqueued'
      BY <1>1, <2>0, <2>5 DEF HandlerEnd, Unqueued
    <2>6. ASSUME Cancel \/ CommandHandled PROVE Unqueued'
      BY <1>1, <2>6 DEF Cancel, CommandHandled, Unqueued
    <2>11. ASSUME Return \/ BeginClose \/ WaitDrained \/ FinishClose PROVE Unqueued'
      BY <2>0, <2>11 DEF Return, BeginClose, WaitDrained, FinishClose, Unqueued
    <2>7. ASSUME NEW o \in {"send", "publish"}, Call(o) PROVE Unqueued'
      BY <1>1, <2>7 DEF Call, Unqueued
    <2>8. ASSUME NEW m \in Msg, NEW b \in Before, Deflect(m, b) PROVE Unqueued'
      BY <2>2, <2>8, DeflectFinishes
    <2>9. ASSUME NEW m \in Msg, NEW a \in After, Complete(m, a) PROVE Unqueued'
      BY <2>2, <2>9, CompleteFinishes
    <2> HIDE DEF IInv
    <2>10. Unqueued'
      BY <2>3, <2>4, <2>5, <2>6, <2>7, <2>8, <2>9, <2>11 DEF Next, Step
    <2> QED
      BY <1>1, <2>1, <2>10 DEF Queue, Sequential, Unqueued
  <1>2. CASE Sequential
    <2>1. QueueHolds'
      BY <1>2, QueueHeld
    <2>2. ASSUME NEW m \in Msg, Running(m)'
          PROVE  Running(m) \/ (Start(m) /\ \A e \in Msg : ~Running(e))
      BY <1>2, <2>2, NextRunning
    <2>3. ASSUME NEW m \in Msg, NEW e \in Msg, Running(m)', Running(e)'
          PROVE  m = e
      <3>1. CASE Running(m) /\ Running(e)
        BY <1>2, <3>1 DEF Queue
      <3>2. CASE Start(m) /\ Start(e)
        BY <3>2 DEF Start, Turn, Types
      <3> QED
        BY <2>2, <2>3, <3>1, <3>2
    <2>4. ASSUME IsCommand(1)', stage'[1] \in {"started", "handling"}, NEW m \in Msg \ {1}
          PROVE  stage'[m] \in {"unused", "emitted"}
      <3>1. CASE op' # op
        <4>1. PICK o \in {"send", "publish"} : Call(o)
          BY <3>1, CallMoves DEF CallMoved
        <4>2. stage[m] = "unused"
          <5>1. 1 < m
            BY Numbers
          <5> QED
            BY <4>1, <5>1, Numbers DEF Call, Numbering
        <4> QED
          BY <4>1, <4>2, Numbers DEF Call, Types
      <3>2. CASE op' = op
        <4>1. IsCommand(1) /\ stage[1] # "queued"
          BY <2>4, <3>2 DEF IsCommand, Numbering
        <4>2. CASE stage[1] = "unused"
          <5>1. 1 < m
            BY Numbers
          <5>2. stage[m] = "unused"
            BY <4>2, <5>1, Numbers DEF Numbering
          <5> QED
            BY <5>2, Moves DEF Moved
        <4>3. CASE stage[1] # "unused"
          <5>1. stage[1] \in {"started", "handling"}
            BY <2>4, <4>1, <4>3, Moves, Numbers DEF Moved, Numbering
          <5>2. \A d \in Msg \ {1} : stage[d] \in {"unused", "emitted"}
            BY <1>2, <4>1, <5>1 DEF Queue
          <5>3. ASSUME stage[m] = "emitted", stage'[m] # "emitted" PROVE FALSE
            <6>1. TakenOver(m)
              BY <5>3, TakenOverOnce
            <6>2. ~CommandHandled
              BY <2>4, Numbers DEF CommandHandled
            <6>3. \A d \in Msg : ~IsCommand(d) => d # 1 /\ ~Finishing(d) /\ ~Running(d)
              BY <4>1, <5>2 DEF IsCommand, Finishing, Handled, Running
            <6>4. \A d \in Msg : Running(d) => ~IsCommand(d)
              BY DEF Running
            <6> HIDE DEF IInv
            <6> QED
              BY <1>2, <6>1, <6>2, <6>3, <6>4 DEF TakenOver
          <5>4. stage[m] = "unused" => stage'[m] \in {"unused", "emitted"}
            BY Moves DEF Moved
          <5> QED
            BY <5>2, <5>3, <5>4
        <4> QED
          BY <4>2, <4>3
      <3> QED
        BY <3>1, <3>2
    <2> HIDE DEF IInv
    <2> QED
      BY <1>2, <2>1, <2>3, <2>4 DEF QueueHolds, Queue, Sequential
  <1> QED
    BY <1>1, <1>2

-----------------------------------------------------------------------------
(* What the call tells of the tree.                                        *)

\* The follow-ups of a command come from its only handler.
LEMMA CommandFollowUps ==
  ASSUME IInv, Next, Finishing(1), IsCommand(1)
  PROVE  \/ follow[1] = <<>> /\ stage[1] \in {"started", "handling"}
         \/ stage[1] = "following" /\ Published(follow[1])
  <1> USE DEF IInv
  <1>1. CASE stage[1] = "started"
    BY <1>1, Numbers DEF Handlers, Fresh
  <1>2. CASE stage[1] = "handling" /\ Fails(1, 1)
    <2>1. \A e \in Msg : e \notin ToSet(follow[1])
      <3> SUFFICES ASSUME NEW e \in Msg, e \in ToSet(follow[1]) PROVE FALSE
        OBVIOUS
      <3>1. by[e][1] = 1 /\ Collected(1, by[e][2]) /\ ~Fails(1, by[e][2])
        BY Numbers DEF FollowUps
      <3>2. by[e][2] \in Handler
        BY <3>1, Numbers, HandedOver
      <3> QED
        BY <1>2, <3>1, <3>2 DEF Handlers, Collected
    <2>2. follow[1] \in Seq(Msg)
      BY Numbers DEF Types
    <2> QED
      BY <1>2, <2>1, <2>2, ElementsOf
  <1> QED
    BY <1>1, <1>2 DEF Finishing, Handled

\* A concurrent tree is over when its root is.
LEMMA TreeOver ==
  ASSUME IInv, ~Sequential, Whole, call # "cancelled", stage[1] # "unused",
         \A e \in ToSet(follow[1]) : stage[e] = "done"
  PROVE  \A m \in Msg \ {1} : ~Active(m)
  <1> USE DEF IInv
  <1> DEFINE S == {m \in Msg \ {1} : Active(m)}
  <1> SUFFICES ASSUME S # {} PROVE FALSE
    OBVIOUS
  <1>1. S \in SUBSET Nat
    BY Numbers
  <1>2. PICK m \in S : \A k \in S : m <= k
    BY <1>1, Least
  <1>3. m \in Msg \ {1} /\ Active(m)
    BY <1>2
  <1> DEFINE p == by[m][1]
  <1>4. p \in Msg /\ p < m
    BY <1>3 DEF Active, Numbering
  <1>5. m \in ToSet(follow[p])
    BY <1>3 DEF Active, FollowUps
  <1>6. p \notin S
    BY <1>1, <1>2, <1>4, Numbers
  <1>7. ~Fresh(p)
    BY <1>4, <1>5 DEF Handlers, ToSet
  <1>8. p # 1 => stage[p] = "done"
    <2>1. p # 1 => ~Active(p)
      BY <1>4, <1>6
    <2>2. stage[p] \in Stage /\ stage[p] # "cancelled"
      BY <1>4 DEF Types, Calls
    <2> QED
      BY <1>7, <2>1, <2>2 DEF Stage, Active, Fresh
  <1>9. stage[m] = "done"
    BY <1>4, <1>5, <1>8 DEF Tree
  <1> QED
    BY <1>3, <1>9 DEF Active

\* Nothing is to begin in a tree that is over.
LEMMA NothingBegins ==
  ASSUME IInv, Next, call # "none", \A m \in Msg : ~Active(m)
  PROVE  \A m \in Msg : ~Active(m)' /\ (stage'[m] # stage[m] => call' # call \/ stage'[m] = "emitted")
  <1> USE DEF IInv
  <1> SUFFICES ASSUME NEW m \in Msg
               PROVE  ~Active(m)' /\ (stage'[m] # stage[m] => call' # call \/ stage'[m] = "emitted")
    OBVIOUS
  <1>1. stage[1] # "unused"
    BY DEF Numbering
  <1>2. ASSUME stage[m] = "emitted", stage'[m] # "emitted" PROVE FALSE
    <2>1. TakenOver(m)
      BY <1>2, TakenOverOnce
    <2>2. ASSUME NEW d \in Msg PROVE ~Finishing(d) /\ ~Running(d) /\ ~Collect(d)
      BY DEF Active, Finishing, Handled, Running, Collect
    <2>3. ~CommandHandled
      BY Numbers DEF CommandHandled, Active
    <2> HIDE DEF IInv
    <2> QED
      BY <2>1, <2>2, <2>3 DEF TakenOver
  <1>3. Moved(m)
    BY Moves
  <1> QED
    BY <1>1, <1>2, <1>3 DEF Moved, Active

LEMMA CancelsOnly ==
  ASSUME IInv, Next, NEW m \in Msg, stage[m] # "cancelled", stage'[m] = "cancelled"
  PROVE  Cancel
  <1>1. ~OwnStep(m)
    <2>1. ~Finishing(m)
      BY Finishes DEF IInv
    <2> QED
      BY <2>1 DEF OwnStep, Enter, HandlerEnd, Collect, CommandHandled, Refuse, CollectFollowUps,
         IInv, Types
  <1> QED
    BY <1>1, OwnSteps DEF Kept

\* A call ends with its own step.
LEMMA CallEnds ==
  ASSUME Next, call = "waiting", call' # "waiting"
  PROVE  (Return /\ call' = "returned") \/ (Cancel /\ call' = "cancelled")
  <1>1. ASSUME NEW o \in {"send", "publish"}, Call(o) PROVE FALSE
    BY <1>1 DEF Call
  <1>2. ASSUME UNCHANGED callVars PROVE FALSE
    BY <1>2 DEF callVars
  <1>3. ASSUME NEW m \in Msg,
               Start(m) \/ Refuse(m) \/ Enter(m) \/ Collect(m) \/ CollectFollowUps(m)
        PROVE  FALSE
    BY <1>2, <1>3 DEF Start, Refuse, Enter, Collect, CollectFollowUps
  <1>4. ASSUME NEW m \in Msg, NEW b \in Before, Deflect(m, b) PROVE FALSE
    BY <1>2, <1>4 DEF Deflect
  <1>5. ASSUME NEW m \in Msg, NEW a \in After, Complete(m, a) PROVE FALSE
    BY <1>2, <1>5 DEF Complete
  <1>6. ASSUME NEW m \in Msg, NEW h \in Handler, NEW r \in HandlerEnds, HandlerEnd(m, h, r)
        PROVE  FALSE
    BY <1>2, <1>6 DEF HandlerEnd
  <1>7. ASSUME NEW m \in Msg, NEW h \in Handler, Emit(m, h) PROVE FALSE
    BY <1>2, <1>7 DEF Emit
  <1>8. ~ (CommandHandled \/ BeginClose \/ WaitDrained \/ FinishClose)
    BY <1>2 DEF CommandHandled, BeginClose, WaitDrained, FinishClose
  <1>9. (Return => call' = "returned") /\ (Cancel => call' = "cancelled")
    BY DEF Return, Cancel
  <1> QED
    BY <1>1, <1>3, <1>4, <1>5, <1>6, <1>7, <1>8, <1>9 DEF Next, Step

\* The tree is over when the call returns, or a sequential one is cancelled.
LEMMA CallOver ==
  ASSUME IInv, Next, call = "waiting",
         (call' = "returned" /\ (Sequential \/ Whole')) \/ (Sequential /\ call' = "cancelled")
  PROVE  \A m \in Msg : ~Active(m)'
  <1> USE DEF IInv
  <1>1. CASE call' = "returned"
    <2>1. Return
      BY <1>1, CallEnds
    <2>2. stage' = stage /\ threw' = threw
      BY <2>1 DEF Return
    <2>3. Sequential \/ Whole
      BY <1>1, WholeBefore
    <2>4. SUFFICES ASSUME NEW m \in Msg, Active(m) PROVE FALSE
      BY <2>2 DEF Active
    <2>5. CASE op = "send"
      <3>1. stage[1] = "done"
        BY <2>1, <2>5 DEF Return
      <3> QED
        BY <2>3, <2>4, <2>5, <3>1 DEF IsCommand, Calls
    <2>6. CASE op # "send"
      <3>1. Published(<<1>>) /\ \A d \in Msg : ~IsCommand(d)
        BY <2>1, <2>6 DEF Return, IsCommand
      <3>2. CASE Sequential
        <4>1. pending = <<>> /\ \A d \in Msg : ~Running(d)
          BY <3>1, <3>2 DEF Published
        <4>2. \A d \in Msg : stage[d] # "queued"
          BY <3>2, <4>1 DEF Queue, ToSet
        <4> QED
          BY <2>4, <3>1, <3>2, <4>1, <4>2 DEF Active, Running, Handlers
      <3>3. CASE ~Sequential
        <4>1. stage[1] = "done"
          BY <3>1, <3>3 DEF Published, ToSet
        <4>2. \A e \in ToSet(follow[1]) : stage[e] = "done"
          BY <2>3, <3>3, <4>1, Numbers DEF Tree
        <4>3. \A d \in Msg \ {1} : ~Active(d)
          BY <2>3, <3>3, <4>1, <4>2, TreeOver
        <4> QED
          BY <2>4, <4>1, <4>3 DEF Active
      <3> QED
        BY <3>2, <3>3
    <2> QED
      BY <2>5, <2>6
  <1>2. CASE Sequential /\ call' = "cancelled"
    <2>1. Cancel
      BY <1>2, CallEnds
    <2>2. SUFFICES ASSUME NEW m \in Msg, Active(m)' PROVE FALSE
      OBVIOUS
    <2>3. stage'[m] = stage[m] /\ Active(m)
      BY <2>1, <2>2 DEF Cancel, Active
    <2>4. ~IsCommand(m) /\ ~Running(m) /\ m \notin ToSet(pending)
      BY <1>2, <2>1, <2>2, <2>3 DEF Cancel, Active
    <2> QED
      BY <1>2, <2>3, <2>4 DEF Active, Running, Queue, Handlers
  <1> QED
    BY <1>1, <1>2

\* The follow-ups of a command are over before it is.
LEMMA CommandOver ==
  ASSUME IInv, Next, Finishing(1), IsCommand(1), call # "cancelled", Sequential \/ Whole
  PROVE  \A m \in Msg : ~Active(m)'
  <1> USE DEF IInv
  <1>1. stage'[1] = "done" /\ \A e \in Msg \ {1} : stage'[e] = stage[e]
    BY Finishes, Numbers
  <1>2. SUFFICES ASSUME NEW m \in Msg \ {1}, Active(m) PROVE FALSE
    BY <1>1 DEF Active
  <1>3. ~IsCommand(m) /\ stage[1] # "unused"
    BY DEF IsCommand, Finishing, Handled
  <1>4. CASE Sequential
    <2>1. CASE stage[1] \in {"started", "handling"}
      BY <1>2, <1>4, <2>1 DEF Queue, Active
    <2>2. CASE Published(follow[1])
      <3>1. pending = <<>> /\ ~Running(m)
        BY <1>4, <2>2 DEF Published
      <3>2. stage[m] # "queued"
        BY <1>4, <3>1 DEF Queue, ToSet
      <3> QED
        BY <1>2, <1>3, <1>4, <3>1, <3>2 DEF Active, Running, Handlers
    <2> QED
      BY <2>1, <2>2, CommandFollowUps
  <1>5. CASE ~Sequential
    <2>1. \A e \in ToSet(follow[1]) : stage[e] = "done"
      BY <1>5, CommandFollowUps DEF Published, ToSet
    <2> QED
      BY <1>2, <1>3, <1>5, <2>1, TreeOver
  <1> QED
    BY <1>4, <1>5

LEMMA CallsNext ==
  ASSUME IInv, Next
  PROVE  Calls'
  <1> USE DEF IInv
  <1>1. ASSUME NEW m \in Msg, stage'[m] = "cancelled"
        PROVE  call' = "cancelled"
    <2>1. CASE stage[m] = "cancelled"
      BY <2>1, CallMoves DEF CallMoved, Calls
    <2>2. CASE stage[m] # "cancelled"
      BY <1>1, <2>2, CancelsOnly DEF Cancel
    <2> QED
      BY <2>1, <2>2
  <1>2. ASSUME \/ call' = "returned" /\ (Sequential \/ Whole')
               \/ Sequential /\ call' = "cancelled"
        PROVE  \A m \in Msg : ~Active(m)'
    <2>1. CASE call' = call
      <3>1. \A m \in Msg : ~Active(m)
        BY <1>2, <2>1, WholeBefore DEF Calls
      <3> QED
        BY <1>2, <2>1, <3>1, NothingBegins
    <2>2. CASE call' # call
      <3>1. call = "waiting"
        BY <1>2, <2>2, CallMoves DEF CallMoved
      <3> QED
        BY <1>2, <3>1, CallOver
    <2> QED
      BY <2>1, <2>2
  <1>3. ASSUME call' = "waiting", IsCommand(1)', stage'[1] = "done", Sequential \/ Whole'
        PROVE  \A m \in Msg : ~Active(m)'
    <2>1. CASE call = "none"
      <3>1. stage[1] = "unused"
        BY <2>1 DEF Numbering
      <3> QED
        BY <1>3, <3>1, Moves, Numbers DEF Moved
    <2>2. CASE call # "none"
      <3>1. call = "waiting" /\ op' = op
        BY <1>3, <2>2, CallMoves DEF CallMoved
      <3>2. IsCommand(1) /\ (Sequential \/ Whole)
        BY <1>3, <3>1, WholeBefore DEF IsCommand
      <3>3. CASE stage[1] = "done"
        <4>1. \A m \in Msg : ~Active(m)
          BY <3>1, <3>2, <3>3 DEF Calls
        <4> QED
          BY <2>2, <4>1, NothingBegins
      <3>4. CASE stage[1] # "done"
        <4>1. OwnStep(1)
          BY <1>3, <3>4, Numbers, OwnSteps DEF Kept
        <4>2. Finishing(1)
          <5>1. ~Refuse(1)
            BY DEF Refuse, Admitted
          <5>2. ~CollectFollowUps(1)
            BY <3>2, Numbers DEF CollectFollowUps, Handlers
          <5>3. ~Enter(1) /\ ~Collect(1) /\ ~CommandHandled
            BY <1>3, <3>2, Numbers DEF Enter, Collect, CommandHandled, Types
          <5>4. \A h \in Handler, r \in HandlerEnds : ~HandlerEnd(1, h, r)
            BY <1>3, <3>4 DEF HandlerEnd
          <5> QED
            BY <4>1, <5>1, <5>2, <5>3, <5>4 DEF OwnStep
        <4> QED
          BY <3>1, <3>2, <4>2, CommandOver
      <3> QED
        BY <3>3, <3>4
    <2> QED
      BY <2>1, <2>2
  <1>4. ASSUME NEW m \in Msg, stage'[m] = "dropped", call' # "cancelled", Whole'
        PROVE  m # 1 /\ threw'[by'[m][1]] = "error"
    <2>1. CASE stage[m] = "dropped"
      <3>1. call # "cancelled" /\ Whole
        BY <1>4, WholeBefore, CallMoves DEF CallMoved
      <3>2. m # 1 /\ threw[by[m][1]] = "error" /\ by[m][1] \in Msg
        BY <2>1, <3>1 DEF Calls, Numbering
      <3>3. by'[m] = by[m]
        <4>1. CASE \E d \in Msg, h \in Handler : Emit(d, h)
          BY <2>1, <4>1 DEF Emit, Types
        <4> QED
          BY <4>1, CallMoves DEF CallMoved
      <3>4. Sequential
        BY <2>1 DEF Queue
      <3>5. stage[by[m][1]] = "done"
        BY <3>2, <3>4 DEF Handlers
      <3> QED
        BY <3>2, <3>3, <3>5, ErrorsStay DEF Kept
    <2>2. CASE stage[m] # "dropped"
      <3>1. ~Cancel
        BY <1>4 DEF Cancel
      <3>2. Sequential /\ \E d \in Msg \ {m} : Finishing(d) /\ ~IsCommand(d)
        BY <1>4, <2>2, <3>1, Drops
      <3>3. PICK d \in Msg \ {m} : Finishing(d) /\ ~IsCommand(d)
        BY <3>2
      <3>4. /\ pending' = IF threw'[d] = "drain" THEN <<>>
                          ELSE IF threw'[d] = "error" THEN pending ELSE pending \o follow[d]
            /\ m \notin ToSet(pending') /\ m \in ToSet(pending) \cup ToSet(follow[d])
        BY <1>4, <2>2, <3>2, <3>3, Finishes
      <3>5. threw'[d] # "drain"
        <4>1. stage[d] # "unused"
          BY <3>3 DEF Finishing, Handled
        <4>2. ~IsCommand(d)'
          BY <3>3, <4>1, SameCommand
        <4> QED
          BY <1>4, <4>2 DEF Whole, Drained
      <3>6. ToSet(pending \o follow[d]) = ToSet(pending) \cup ToSet(follow[d])
        <4>1. pending \in Seq(Msg) /\ follow[d] \in Seq(Msg)
          BY <3>3 DEF Types
        <4> QED
          BY <4>1, ElementsOfConcat
      <3>7. threw'[d] = "error" /\ m \in ToSet(follow[d])
        BY <3>4, <3>5, <3>6
      <3>8. by[m][1] = d /\ by' = by
        BY <3>3, <3>7 DEF FollowUps, Finishing
      <3>9. m # 1
        BY <3>3, <3>8, HandedOver
      <3> QED
        BY <3>7, <3>8, <3>9
    <2> QED
      BY <2>1, <2>2
  <1> QED
    BY <1>1, <1>2, <1>3, <1>4, Numbers DEF Calls, Sequential

-----------------------------------------------------------------------------
(* Admissions.                                                             *)

\* Events go in and out one by one, but for a sequential call that is cancelled.
LEMMA InsideMoves ==
  ASSUME IInv, Next
  PROVE  \/ Inside' = Inside /\ inFlight' = inFlight /\ call' = call
         \/ Inside' = Inside /\ call = "none" /\ call' = "waiting" /\ inFlight' = inFlight + 1
         \/ Inside' = Inside /\ Return
         \/ Cancel
         \/ \E m \in Msg \ Inside :
              Inside' = Inside \cup {m} /\ inFlight' = inFlight + 1 /\ call' = call
         \/ \E m \in Inside :
              Inside' = Inside \ {m} /\ inFlight' = inFlight - 1 /\ call' = call
  <1> USE DEF IInv
  <1> DEFINE Same(m) == stage'[m] \in {"started", "handling"} <=> stage[m] \in {"started", "handling"}
  <1>0. ASSUME \A m \in Msg \ {1} : Same(m) PROVE Inside' = Inside
    BY <1>0 DEF Inside
  <1>1. ASSUME NEW o \in {"send", "publish"}, Call(o)
        PROVE  Inside' = Inside /\ call = "none" /\ call' = "waiting" /\ inFlight' = inFlight + 1
    <2>1. \A m \in Msg \ {1} : Same(m)
      BY <1>1 DEF Call, Types
    <2> QED
      BY <1>0, <1>1, <2>1 DEF Call
  <1>2. ASSUME Return PROVE Inside' = Inside
    BY <1>0, <1>2 DEF Return
  <1>3. ASSUME NEW m \in Msg, Start(m), m = 1
        PROVE  Inside' = Inside /\ inFlight' = inFlight /\ call' = call
    <2>1. \A d \in Msg \ {1} : Same(d)
      BY <1>3 DEF Start, Types
    <2> QED
      BY <1>0, <1>3, <2>1 DEF Start, Admitted, callVars
  <1>4. ASSUME NEW m \in Msg, Start(m), m # 1
        PROVE  m \notin Inside /\ Inside' = Inside \cup {m}
                 /\ inFlight' = inFlight + 1 /\ call' = call
    BY <1>4 DEF Start, Turn, Types, Inside, Admitted, callVars
  <1>5. ASSUME NEW m \in Msg, Finishing(m), m = 1
        PROVE  Inside' = Inside /\ inFlight' = inFlight /\ call' = call
    <2>1. /\ inFlight' = inFlight /\ call' = call
      BY <1>5, Finishes DEF Admitted, lifeVars, Finishing, callVars
    <2>2. \A d \in Msg \ {1} : Same(d)
      <3> SUFFICES ASSUME NEW d \in Msg \ {1} PROVE Same(d)
        OBVIOUS
      <3>1. stage'[d] = stage[d] \/ stage'[d] \in {"queued", "dropped"}
        BY <1>5, Finishes
      <3> QED
        BY <3>1, Moves DEF Moved
    <2> QED
      BY <1>0, <2>1, <2>2
  <1>6. ASSUME NEW m \in Msg, Finishing(m), m # 1
        PROVE  m \in Inside /\ Inside' = Inside \ {m}
                 /\ inFlight' = inFlight - 1 /\ call' = call
    <2>1. /\ inFlight' = inFlight - 1 /\ call' = call
      BY <1>6, Finishes DEF Admitted, Leave, Finishing, callVars
    <2>2. stage[m] \in {"started", "handling"} /\ stage'[m] \in {"done", "collecting"}
      BY <1>6, Finishes DEF Finishing, Handled, IsCommand
    <2>3. ASSUME NEW d \in Msg \ {m} PROVE Same(d)
      <3>1. stage'[d] = stage[d] \/ stage'[d] \in {"queued", "dropped"}
        BY <1>6, Finishes
      <3> QED
        BY <3>1, Moves DEF Moved
    <2> QED
      BY <1>6, <2>1, <2>2, <2>3 DEF Inside
  <1>7. ASSUME NEW m \in Msg, Refuse(m) \/ Enter(m) \/ Collect(m) \/ CollectFollowUps(m)
        PROVE  Inside' = Inside /\ inFlight' = inFlight /\ call' = call
    <2>1. ASSUME NEW d \in Msg \ {1} PROVE Same(d)
      <3>1. CASE Collect(m)
        <4>1. stage'[d] = stage[d] \/ stage'[d] = "queued"
          BY <3>1 DEF Collect
        <4> QED
          BY <4>1, Moves DEF Moved
      <3>2. CASE Refuse(m) \/ Enter(m) \/ CollectFollowUps(m)
        BY <3>2 DEF Refuse, Turn, Enter, CollectFollowUps, Types
      <3> QED
        BY <1>7, <3>1, <3>2
    <2> QED
      BY <1>0, <1>7, <2>1 DEF Refuse, Enter, Collect, CollectFollowUps, lifeVars, callVars
  <1>8. ASSUME NEW m \in Msg, NEW h \in Handler, Emit(m, h)
        PROVE  Inside' = Inside /\ inFlight' = inFlight /\ call' = call
    <2>1. \A d \in Msg \ {1} : Same(d)
      BY <1>8 DEF Emit, Types
    <2> QED
      BY <1>0, <1>8, <2>1 DEF Emit, lifeVars, callVars
  <1>9. ASSUME NEW m \in Msg, NEW h \in Handler, NEW r \in HandlerEnds, HandlerEnd(m, h, r)
        PROVE  Inside' = Inside /\ inFlight' = inFlight /\ call' = call
    BY <1>0, <1>9 DEF HandlerEnd, lifeVars, callVars
  <1>10. ASSUME CommandHandled
         PROVE  Inside' = Inside /\ inFlight' = inFlight /\ call' = call
    <2>1. ASSUME NEW d \in Msg \ {1} PROVE Same(d)
      <3>1. stage'[d] = stage[d] \/ stage'[d] = "queued"
        BY <1>10 DEF CommandHandled
      <3> QED
        BY <3>1, Moves DEF Moved
    <2> QED
      BY <1>0, <1>10, <2>1 DEF CommandHandled, lifeVars, callVars
  <1>11. ASSUME BeginClose \/ WaitDrained \/ FinishClose
         PROVE  Inside' = Inside /\ inFlight' = inFlight /\ call' = call
    BY <1>0, <1>11 DEF BeginClose, WaitDrained, FinishClose, callVars
  <1> HIDE DEF Same, IInv
  <1>12. ASSUME NEW m \in Msg, NEW b \in Before, Deflect(m, b) PROVE Finishing(m)
    BY <1>12, DeflectFinishes DEF IInv
  <1>13. ASSUME NEW m \in Msg, NEW a \in After, Complete(m, a) PROVE Finishing(m)
    BY <1>13, CompleteFinishes DEF IInv
  <1>14. CASE Return \/ CommandHandled \/ BeginClose \/ WaitDrained \/ FinishClose \/ Cancel
    BY <1>2, <1>10, <1>11, <1>14
  <1>15. CASE \E o \in {"send", "publish"} : Call(o)
    BY <1>1, <1>15
  <1>16. CASE \E m \in Msg, h \in Handler : Emit(m, h)
    BY <1>8, <1>16
  <1>17. CASE \E m \in Msg : Start(m)
    BY <1>3, <1>4, <1>17
  <1>18. CASE \E m \in Msg : Finishing(m)
    <2>1. PICK m \in Msg : Finishing(m)
      BY <1>18
    <2>2. CASE m = 1
      BY <1>5, <2>1, <2>2
    <2>3. CASE m # 1
      BY <1>6, <2>1, <2>3
    <2> QED
      BY <2>2, <2>3
  <1>19. CASE \E m \in Msg : Refuse(m) \/ Enter(m) \/ Collect(m) \/ CollectFollowUps(m)
    BY <1>7, <1>19
  <1>20. CASE \E m \in Msg, h \in Handler, r \in HandlerEnds : HandlerEnd(m, h, r)
    BY <1>9, <1>20
  <1> QED
    BY <1>12, <1>13, <1>14, <1>15, <1>16, <1>17, <1>18, <1>19, <1>20 DEF Next, Step

\* The counter agrees with the admissions after every step.
Counted == inFlight = (IF call = "waiting" THEN 1 ELSE 0) + Cardinality(Inside)

LEMMA InsideFinite ==
  /\ IsFiniteSet(Inside) /\ Cardinality(Inside) \in Nat /\ Cardinality(Inside) <= MaxMsg
  <1>1. Inside \subseteq Msg
    BY DEF Inside
  <1>2. Cardinality(Msg) = MaxMsg
    BY TreeAssumption, FS_Interval DEF Msg
  <1> QED
    BY <1>1, <1>2, Numbers, FS_Subset, FS_CardinalityType

LEMMA CountedNext ==
  ASSUME IInv, Next
  PROVE  Counted'
  <1> USE DEF IInv
  <1>1. /\ inFlight = (IF call = "waiting" THEN 1 ELSE 0) + Cardinality(Inside)
        /\ IsFiniteSet(Inside) /\ Cardinality(Inside) \in Nat
    BY InsideFinite DEF Closing
  <1>2. ASSUME Return, Inside' = Inside PROVE Counted'
    BY <1>1, <1>2 DEF Return, Leave, Counted
  <1>3. CASE Cancel
    <2> DEFINE hit == {m \in Msg : /\ IsCommand(m) \/ (Sequential /\ Running(m))
                                   /\ stage[m] # "done"}
    <2>1. call = "waiting" /\ call' = "cancelled" /\ inFlight' = inFlight - (1 + Cardinality(hit \ {1}))
      BY <1>3 DEF Cancel, Leave
    <2>2. \A m \in Msg : m \in hit => stage'[m] = "cancelled"
      BY <1>3 DEF Cancel
    <2>3. CASE Sequential
      <3>1. hit \ {1} = Inside
        BY <2>3 DEF Inside, Running, IsCommand
      <3>2. Inside' = {}
        <4> SUFFICES ASSUME NEW m \in Msg \ {1}, stage'[m] \in {"started", "handling"} PROVE FALSE
          BY DEF Inside
        <4>1. m \in Inside
          <5>1. stage[m] \in {"started", "handling"}
            BY <1>3 DEF Cancel
          <5> QED
            BY <5>1 DEF Inside
        <4> QED
          BY <2>2, <3>1, <4>1
      <3>3. Cardinality({}) = 0
        BY FS_EmptySet
      <3>4. Cardinality(hit \ {1}) = Cardinality(Inside)
        BY <3>1
      <3> HIDE DEF hit, IInv
      <3> QED
        BY <1>1, <2>1, <3>2, <3>3, <3>4 DEF Counted
    <2>4. CASE ~Sequential
      <3>1. hit \ {1} = {}
        BY <2>4 DEF IsCommand
      <3>2. Inside' = Inside
        <4> SUFFICES ASSUME NEW m \in Msg \ {1}
                     PROVE  stage'[m] \in {"started", "handling"} <=> stage[m] \in {"started", "handling"}
          BY DEF Inside
        <4>1. stage'[m] = stage[m]
          BY <1>3, <2>4 DEF Cancel, IsCommand, Queue, ToSet
        <4> QED
          BY <4>1
      <3>3. Cardinality(hit \ {1}) = 0
        BY <3>1, FS_EmptySet
      <3> HIDE DEF hit, IInv
      <3> QED
        BY <1>1, <2>1, <3>2, <3>3 DEF Counted
    <2> QED
      BY <2>3, <2>4
  <1>4. ASSUME NEW m \in Msg \ Inside, Inside' = Inside \cup {m}
        PROVE  Cardinality(Inside') = Cardinality(Inside) + 1
    BY <1>1, <1>4, FS_AddElement
  <1>5. ASSUME NEW m \in Inside, Inside' = Inside \ {m}
        PROVE  Cardinality(Inside') = Cardinality(Inside) - 1
    BY <1>1, <1>5, FS_RemoveElement
  <1>6. CASE \E m \in Msg \ Inside :
               Inside' = Inside \cup {m} /\ inFlight' = inFlight + 1 /\ call' = call
    BY <1>1, <1>4, <1>6 DEF Counted
  <1>7. CASE \E m \in Inside :
               Inside' = Inside \ {m} /\ inFlight' = inFlight - 1 /\ call' = call
    <2>1. PICK m \in Inside : Inside' = Inside \ {m} /\ inFlight' = inFlight - 1 /\ call' = call
      BY <1>7
    <2>2. Cardinality(Inside') = Cardinality(Inside) - 1
      BY <1>5, <2>1
    <2> HIDE DEF IInv
    <2> QED
      BY <1>1, <2>1, <2>2 DEF Counted
  <1>8. CASE Inside' = Inside /\ inFlight' = inFlight /\ call' = call
    BY <1>1, <1>8 DEF Counted
  <1>9. CASE Inside' = Inside /\ call = "none" /\ call' = "waiting" /\ inFlight' = inFlight + 1
    BY <1>1, <1>9 DEF Counted
  <1> HIDE DEF IInv
  <1> QED
    BY <1>2, <1>3, <1>6, <1>7, <1>8, <1>9, InsideMoves

ClosingAgrees ==
  /\ (state = "OPEN") = (closer = "idle")
  /\ (state = "CLOSED") = (closer = "closed")
  /\ closer \in {"woken", "closed"} => call # "waiting"

LEMMA ClosingNext ==
  ASSUME IInv, Next
  PROVE  Closing'
  <1> USE DEF IInv
  <1>1. Counted'
    BY CountedNext
  <1>2. Cardinality(Inside) \in Nat /\ Cardinality(Inside)' \in Nat
    <2>1. Inside' \subseteq Msg
      BY DEF Inside
    <2> QED
      BY <2>1, InsideFinite, Numbers, FS_Subset, FS_CardinalityType
  <1>3. inFlight = 0 => call # "waiting"
    BY <1>2 DEF Closing
  <1>4. inFlight' = 0 => call' # "waiting"
    BY <1>1, <1>2 DEF Counted
  <1>5. ASSUME NEW n \in Nat, Leave(n), call' = call \/ call' # "waiting"
        PROVE  ClosingAgrees'
    <2>1. /\ state' = state
          /\ closer' = closer \/ (closer' = "woken" /\ closer = "waiting")
          /\ closer' # closer => inFlight' = 0
      BY <1>2, <1>5 DEF Leave, LastOut, Closing
    <2>2. ClosingAgrees
      BY DEF Closing, ClosingAgrees
    <2>3. closer' # closer => call' # "waiting"
      BY <1>4, <2>1
    <2> HIDE DEF IInv
    <2> QED
      BY <1>5, <2>1, <2>2, <2>3 DEF ClosingAgrees
  <1>6. ASSUME state' = state, closer' = closer, call' = call
        PROVE  ClosingAgrees'
    BY <1>6 DEF Closing, ClosingAgrees
  <1>7. ClosingAgrees'
    <2>1. ASSUME NEW o \in {"send", "publish"}, Call(o) PROVE ClosingAgrees'
      BY <2>1 DEF Call, Closing, ClosingAgrees
    <2>2. ASSUME Return PROVE ClosingAgrees'
      BY <1>5, <2>2 DEF Return
    <2>3. ASSUME Cancel PROVE ClosingAgrees'
      <3> DEFINE hit == {m \in Msg : /\ IsCommand(m) \/ (Sequential /\ Running(m))
                                     /\ stage[m] # "done"}
      <3>1. Leave(1 + Cardinality(hit \ {1})) /\ call' = "cancelled"
        BY <2>3 DEF Cancel
      <3>2. Cardinality(hit \ {1}) \in Nat
        <4>1. hit \ {1} \subseteq Msg
          OBVIOUS
        <4> QED
          BY <4>1, Numbers, FS_Subset, FS_CardinalityType
      <3> HIDE DEF hit
      <3> QED
        BY <1>5, <3>1, <3>2
    <2>4. ASSUME NEW m \in Msg, Finishing(m) PROVE ClosingAgrees'
      <3>1. Leave(1) \/ UNCHANGED lifeVars
        BY <2>4, Finishes
      <3>2. call' = call
        BY <2>4 DEF Finishing, callVars
      <3> QED
        BY <1>5, <1>6, <3>1, <3>2 DEF lifeVars
    <2>5. ASSUME NEW m \in Msg,
                 Start(m) \/ Refuse(m) \/ Enter(m) \/ Collect(m) \/ CollectFollowUps(m)
          PROVE  ClosingAgrees'
      BY <1>6, <2>5 DEF Start, Refuse, Enter, Collect, CollectFollowUps, callVars, lifeVars
    <2>6. ASSUME NEW m \in Msg, NEW h \in Handler, Emit(m, h) PROVE ClosingAgrees'
      BY <1>6, <2>6 DEF Emit, callVars, lifeVars
    <2>7. ASSUME NEW m \in Msg, NEW h \in Handler, NEW r \in HandlerEnds, HandlerEnd(m, h, r)
          PROVE  ClosingAgrees'
      BY <1>6, <2>7 DEF HandlerEnd, callVars, lifeVars
    <2>8. ASSUME CommandHandled PROVE ClosingAgrees'
      BY <1>6, <2>8 DEF CommandHandled, callVars, lifeVars
    <2>9. ASSUME BeginClose \/ WaitDrained \/ FinishClose PROVE ClosingAgrees'
      BY <1>3, <2>9 DEF BeginClose, WaitDrained, FinishClose, callVars, Closing, ClosingAgrees
    <2>10. ASSUME NEW m \in Msg, NEW b \in Before, Deflect(m, b) PROVE ClosingAgrees'
      BY <2>4, <2>10, DeflectFinishes
    <2>11. ASSUME NEW m \in Msg, NEW a \in After, Complete(m, a) PROVE ClosingAgrees'
      BY <2>4, <2>11, CompleteFinishes
    <2> HIDE DEF IInv
    <2> QED
      BY <2>1, <2>2, <2>3, <2>5, <2>6, <2>7, <2>8, <2>9, <2>10, <2>11 DEF Next, Step
  <1>8. ASSUME NEW m \in Msg, Drained(m)'
        PROVE  call' = "cancelled" \/ "drain" \in Before \cup After
    <2>1. stage[m] # "unused"
      <3> SUFFICES ASSUME stage[m] = "unused" PROVE FALSE
        OBVIOUS
      <3>1. ~OwnStep(m)
        BY DEF OwnStep, Enter, HandlerEnd, InHandler, Collect, CommandHandled, Refuse, Turn,
           Finishing, Handled, CollectFollowUps
      <3>2. threw'[m] = threw[m] /\ threw[m] = "no"
        BY <3>1, OwnSteps DEF Kept, Handlers
      <3> QED
        BY <1>8, <3>2 DEF Drained
    <2>2. ~IsCommand(m) /\ threw'[m] = "drain"
      BY <1>8, <2>1, SameCommand DEF Drained
    <2>3. CASE \E e \in Msg : Drained(e)
      BY <2>3, CallMoves DEF CallMoved, Closing
    <2>4. CASE ~ \E e \in Msg : Drained(e)
      <3>1. OwnStep(m)
        BY <2>4, <2>2, OwnSteps DEF Kept, Drained
      <3>2. CASE Finishing(m)
        BY <2>2, <3>2, Finishes
      <3>3. CASE Refuse(m)
        <4>1. Active(m) /\ stage[m] # "unused" /\ call # "waiting" /\ call' = call
          BY <3>3 DEF Refuse, Turn, Active, Closing, callVars
        <4>2. Whole
          BY <2>4 DEF Whole
        <4>3. call # "returned"
          BY <4>1, <4>2 DEF Calls
        <4>4. call # "none"
          <5>1. m = 1 \/ 1 < m
            BY Numbers
          <5> QED
            BY <4>1, <5>1, Numbers DEF Numbering
        <4> QED
          BY <4>1, <4>3, <4>4 DEF Types
      <3>4. ~Enter(m) /\ ~Collect(m) /\ ~ (m = 1 /\ CommandHandled)
              /\ \A h \in Handler, r \in HandlerEnds : ~HandlerEnd(m, h, r)
        BY <2>4, <2>2 DEF Enter, Collect, CommandHandled, HandlerEnd, Drained
      <3>5. ~CollectFollowUps(m)
        BY <1>8 DEF CollectFollowUps, Drained, Types
      <3> QED
        BY <3>1, <3>2, <3>3, <3>4, <3>5 DEF OwnStep
    <2> QED
      BY <2>3, <2>4
  <1> QED
    BY <1>1, <1>7, <1>8 DEF Counted, ClosingAgrees, Closing

-----------------------------------------------------------------------------
(* The inductive step.                                                     *)

LEMMA TreeNext ==
  ASSUME IInv, Next
  PROVE  Tree'
  <1> USE DEF IInv
  <1>1. SUFFICES ASSUME ~Sequential, Whole', call' # "cancelled", NEW m \in Msg,
                        stage'[m] = "done", NEW e \in ToSet(follow'[m])
                 PROVE  stage'[e] = "done"
    BY DEF Tree, Sequential
  <1>2. Whole /\ call # "cancelled"
    BY <1>1, WholeBefore, CallMoves DEF CallMoved
  <1>3. ASSUME NEW d \in Msg, stage[d] = "done" PROVE stage'[d] = "done"
    BY <1>3, ErrorsStay
  <1>4. ASSUME e \in ToSet(follow[m]), stage[e] = "done" PROVE stage'[e] = "done"
    <2>1. e \in Msg
      BY <1>4, ElementsOf DEF Types
    <2> QED
      BY <1>3, <1>4, <2>1
  <1>5. CASE stage[m] = "done"
    <2>1. follow'[m] = follow[m]
      BY <1>5, ErrorsStay DEF Kept
    <2> QED
      BY <1>1, <1>2, <1>4, <1>5, <2>1 DEF Tree
  <1>6. CASE stage[m] # "done"
    <2>1. OwnStep(m)
      BY <1>1, <1>6, OwnSteps DEF Kept
    <2>2. CASE Finishing(m)
      <3>1. m = 1 /\ IsCommand(1) /\ follow' = follow
        <4>1. IsCommand(m)
          <5>1. stage[m] # "unused" /\ stage'[m] = "done" /\ ~Sequential /\ ~Drained(m)'
            BY <1>1, <2>2 DEF Finishing, Handled, Whole
          <5>2. IsCommand(m) \/ threw'[m] = "drain"
            BY <2>2, <5>1, Finishes
          <5> QED
            BY <5>1, <5>2, SameCommand DEF Drained
        <4> QED
          BY <2>2, <4>1 DEF IsCommand, Finishing
      <3>2. follow[1] = <<>> \/ Published(follow[1])
        BY <2>2, <3>1, CommandFollowUps
      <3> QED
        BY <1>1, <1>4, <3>1, <3>2 DEF Published, ToSet
    <2>3. CASE CollectFollowUps(m)
      BY <1>1, <1>4, <2>3 DEF CollectFollowUps, FollowUpsOver
    <2>4. CASE Refuse(m)
      BY <1>1, <2>4 DEF Refuse, Turn, Handlers, Fresh, ToSet
    <2>5. ~Enter(m) /\ ~Collect(m) /\ ~ (m = 1 /\ CommandHandled)
            /\ \A h \in Handler, r \in HandlerEnds : ~HandlerEnd(m, h, r)
      BY <1>1, <1>6 DEF Enter, Collect, CommandHandled, HandlerEnd, Types
    <2> QED
      BY <2>1, <2>2, <2>3, <2>4, <2>5 DEF OwnStep
  <1> QED
    BY <1>5, <1>6

LEMMA InvNext == IInv /\ [Next]_vars => IInv'
  <1>1. ASSUME IInv, Next PROVE IInv'
    BY <1>1, TypesNext, NumberingNext, HandlersNext, FollowUpsNext, QueueNext, CallsNext,
       ClosingNext, TreeNext DEF IInv
  <1>2. ASSUME IInv, UNCHANGED vars PROVE IInv'
    <2> USE <1>2 DEF IInv, vars, callVars, lifeVars
    <2>1. Types' /\ Numbering'
      BY DEF Types, Numbering, IsCommand
    <2>2. Handlers' /\ FollowUps'
      BY DEF Handlers, FollowUps, Fresh, Collected, Fails, IsCommand, Drained, Sequential
    <2>3. Queue' /\ Calls'
      BY DEF Queue, Calls, Running, Active, Whole, IsCommand, Drained, Sequential
    <2>4. Closing' /\ Tree'
      BY DEF Closing, Tree, Inside, Whole, IsCommand, Drained, Sequential
    <2> QED
      BY <2>1, <2>2, <2>3, <2>4
  <1> QED
    BY <1>1, <1>2

LEMMA InvHolds == Spec => []IInv
  <1>1. IInv /\ [Next]_vars => IInv'
    BY InvNext
  <1> QED
    BY <1>1, InvInit, PTL DEF Spec

-----------------------------------------------------------------------------
(* Theorems.                                                               *)

\* Every variable keeps its type; the counter of admissions is never below zero nor
\* above one for the call and one for each event (lifecycle.py:69-81).
THEOREM TypeCorrect == Spec => []TypeOK
  <1>1. ASSUME IInv PROVE TypeOK
    <2>1. inFlight \in 0..(MaxMsg + 1)
      BY <1>1, InsideFinite, TreeAssumption DEF IInv, Closing
    <2> QED
      BY <1>1, <2>1 DEF IInv, Types, TypeOK
  <1> QED
    BY <1>1, InvHolds, PTL

\* The call that returns has had every follow-up dispatched that came with an
\* outcome, in both modes, whatever handlers and middleware do; but for what the
\* sequential loop drops, and for a BusDrainingError (dispatch_tree.py:167-175).
THEOREM FollowUpsDone == Spec => []FollowUpsDispatched
  <1>1. ASSUME IInv PROVE FollowUpsDispatched
    <2> SUFFICES ASSUME call = "returned", Whole, NEW e \in Msg, by[e][1] # 0
                 PROVE  \/ stage[e] = "done"
                        \/ Fails(by[e][1], by[e][2]) /\ stage[e] = "emitted"
                        \/ Sequential /\ threw[by[e][1]] = "error" /\ stage[e] = "dropped"
      BY DEF FollowUpsDispatched, Whole
    <2> DEFINE m == by[e][1]
               h == by[e][2]
    <2>1. m \in Msg /\ h \in Handler /\ handling[m][h] # "none" /\ e # 1 /\ stage[e] # "unused"
      <3>1. m \in Msg
        BY <1>1 DEF IInv, Types
      <3>2. stage[e] # "unused" /\ e # 1
        BY <1>1, <3>1, HandedOver DEF IInv
      <3> QED
        BY <1>1, <3>2 DEF IInv, Numbering
    <2>2. \A d \in Msg : ~Active(d) /\ stage[d] # "cancelled" /\ stage[d] \in Stage
      BY <1>1 DEF IInv, Calls, Types
    <2>3. stage[m] = "done"
      <3>1. ~Fresh(m)
        BY <1>1, <2>1 DEF IInv, Handlers
      <3> QED
        BY <2>1, <2>2, <3>1 DEF Stage, Active, Fresh
    <2>4. CASE e \notin ToSet(follow[m])
      <3>1. stage[e] = "emitted"
        BY <1>1, <2>1, <2>4 DEF IInv, FollowUps
      <3>2. Collected(m, h)
        <4>1. ended[m] = <<>> /\ handling[m][h] # "running"
          BY <1>1, <2>1, <2>3 DEF IInv, Handlers
        <4>2. handling[m][h] \in {"none", "running", "ok", "swallowed", "raised", "drain"}
          BY <1>1, <2>1 DEF IInv, Types
        <4> QED
          BY <2>1, <4>1, <4>2 DEF Collected, ToSet
      <3>3. Fails(m, h)
        BY <1>1, <2>1, <2>4, <3>2 DEF IInv, FollowUps
      <3> QED
        BY <3>1, <3>3
    <2>5. CASE e \in ToSet(follow[m])
      <3>1. stage[e] # "emitted"
        BY <1>1, <2>1, <2>3, <2>5 DEF IInv, FollowUps
      <3>2. stage[e] \in {"done", "dropped"}
        BY <2>1, <2>2, <3>1 DEF Stage, Active
      <3>3. stage[e] = "dropped" => Sequential /\ threw[m] = "error"
        BY <1>1 DEF IInv, Queue, Calls
      <3> QED
        BY <3>2, <3>3
    <2> QED
      BY <2>4, <2>5
  <1> QED
    BY <1>1, InvHolds, PTL

\* Without a BusDrainingError the tree is whole for as long as the call is not
\* cancelled; the sequential loop never needs it.
Orderly == Sequential \/ "drain" \notin Before \cup After

LEMMA OverWithTheCall ==
  ASSUME IInv, Orderly,
         call \in {"none", "returned"} \/ (Sequential /\ call = "cancelled")
  PROVE  ~TreeRunning /\ (call # "none" => \A m \in Msg : ~Active(m))
  <1> USE DEF IInv
  <1>1. CASE call = "none"
    <2>1. \A m \in Msg : m = 1 \/ 1 < m
      BY Numbers
    <2>2. \A m \in Msg : stage[m] = "unused"
      BY <1>1, <2>1, Numbers DEF Numbering
    <2> QED
      BY <1>1, <2>2 DEF TreeRunning
  <1>2. CASE call # "none"
    <2>1. Sequential \/ Whole \/ call = "cancelled"
      BY DEF Orderly, Whole, Closing
    <2>2. \A m \in Msg : ~Active(m)
      BY <1>2, <2>1 DEF Calls
    <2> QED
      BY <1>2, <2>2 DEF TreeRunning, Active
  <1> QED
    BY <1>1, <1>2

\* When the call returns nothing of its tree runs on, and in sequential mode when it
\* is cancelled (dispatch_tree.py:104-231); a concurrent tree where code may get a
\* BusDrainingError is another matter.
THEOREM NothingOutlives ==
  ASSUME Orderly
  PROVE  Spec => []NothingOutlivesTheCall
  <1>1. ASSUME IInv PROVE NothingOutlivesTheCall
    BY <1>1, OverWithTheCall DEF NothingOutlivesTheCall
  <1> QED
    BY <1>1, InvHolds, PTL

\* README, "Closing behavior", where it holds: the bus that is closed has no tree
\* running, in sequential mode, and in concurrent mode when no call is cancelled and
\* none gets a BusDrainingError inside the tree.
THEOREM ClosesAfterTree ==
  ASSUME Orderly, Sequential \/ ~MayCancel
  PROVE  Spec => []ClosedAfterTree
  <1> DEFINE J == IInv /\ (call = "cancelled" => MayCancel)
  <1>1. Init => J
    BY InvInit DEF Init
  <1>2. J /\ [Next]_vars => J'
    <2> SUFFICES ASSUME J, [Next]_vars PROVE J'
      OBVIOUS
    <2>1. IInv'
      BY InvNext
    <2>2. CASE UNCHANGED vars
      BY <2>1, <2>2 DEF vars, callVars
    <2>3. CASE Next
      <3>1. CASE call = "waiting" /\ call' # "waiting"
        BY <2>1, <2>3, <3>1, CallEnds DEF Cancel
      <3>2. CASE ~ (call = "waiting" /\ call' # "waiting")
        BY <2>1, <2>3, <3>2, CallMoves DEF CallMoved
      <3> QED
        BY <3>1, <3>2
    <2> QED
      BY <2>2, <2>3
  <1>3. J => ClosedAfterTree
    <2> SUFFICES ASSUME J, state = "CLOSED" PROVE ~TreeRunning
      BY DEF ClosedAfterTree
    <2>1. call # "waiting" /\ call \in {"none", "waiting", "returned", "cancelled"}
      BY DEF IInv, Closing, Types
    <2> QED
      BY <2>1, OverWithTheCall
  <1> QED
    BY <1>1, <1>2, <1>3, PTL DEF Spec

-----------------------------------------------------------------------------
(* Refinement.                                                             *)

\* The tree is accepted while its call waits.
AcceptedWhileWaiting == (TreeRunning /\ call # "cancelled") = (call = "waiting")

LEMMA Accepted_Waiting ==
  ASSUME IInv, Orderly
  PROVE  AcceptedWhileWaiting
  <1>1. call \in {"none", "waiting", "returned", "cancelled"}
    BY DEF IInv, Types
  <1>2. call = "waiting" => TreeRunning
    BY DEF TreeRunning
  <1> QED
    BY <1>1, <1>2, OverWithTheCall DEF AcceptedWhileWaiting

LEMMA StateMoves ==
  ASSUME IInv, Next
  PROVE  state' = state \/ ((BeginClose \/ FinishClose) /\ call' = call)
  <1>1. ASSUME NEW o \in {"send", "publish"}, Call(o) PROVE state' = state
    BY <1>1 DEF Call
  <1>2. ASSUME Return \/ Cancel \/ CommandHandled \/ WaitDrained PROVE state' = state
    BY <1>2 DEF Return, Cancel, Leave, CommandHandled, WaitDrained, lifeVars
  <1>3. ASSUME NEW m \in Msg, Finishing(m) PROVE state' = state
    <2>1. Leave(1) \/ UNCHANGED lifeVars
      BY <1>3, Finishes DEF IInv
    <2> QED
      BY <2>1 DEF Leave, lifeVars
  <1>4. ASSUME NEW m \in Msg,
               Start(m) \/ Refuse(m) \/ Enter(m) \/ Collect(m) \/ CollectFollowUps(m)
        PROVE  state' = state
    BY <1>4 DEF Start, Refuse, Enter, Collect, CollectFollowUps, lifeVars
  <1>5. ASSUME NEW m \in Msg, NEW h \in Handler, Emit(m, h) PROVE state' = state
    BY <1>5 DEF Emit, lifeVars
  <1>6. ASSUME NEW m \in Msg, NEW h \in Handler, NEW r \in HandlerEnds, HandlerEnd(m, h, r)
        PROVE  state' = state
    BY <1>6 DEF HandlerEnd, lifeVars
  <1>7. ASSUME BeginClose \/ FinishClose PROVE call' = call
    BY <1>7 DEF BeginClose, FinishClose, callVars
  <1>8. ASSUME NEW m \in Msg, NEW b \in Before, Deflect(m, b) PROVE state' = state
    BY <1>3, <1>8, DeflectFinishes DEF IInv
  <1>9. ASSUME NEW m \in Msg, NEW a \in After, Complete(m, a) PROVE state' = state
    BY <1>3, <1>9, CompleteFinishes DEF IInv
  <1> QED
    BY <1>1, <1>2, <1>4, <1>5, <1>6, <1>7, <1>8, <1>9 DEF Next, Step

LEMMA ContractInit == Init => Contract!Init
  <1> SUFFICES ASSUME Init PROVE Contract!Init
    OBVIOUS
  <1>1. ~TreeRunning
    BY DEF Init, TreeRunning
  <1> QED
    BY <1>1 DEF Init, Contract!Init

\* Each step of the tree is a step of the contract or invisible to it.
LEMMA ContractNext ==
  ASSUME IInv, AcceptedWhileWaiting, AcceptedWhileWaiting', [Next]_vars
  PROVE  [Contract!Next]_(Contract!contractVars)
  <1> DEFINE accepted == IF TreeRunning /\ call # "cancelled" THEN {1} ELSE {}
  <1>1. accepted = IF call = "waiting" THEN {1} ELSE {}
    BY DEF AcceptedWhileWaiting
  <1>2. accepted' = IF call' = "waiting" THEN {1} ELSE {}
    BY DEF AcceptedWhileWaiting
  <1> HIDE DEF accepted
  <1>3. CASE state' = state /\ call' = call
    BY <1>1, <1>2, <1>3 DEF Contract!contractVars, accepted
  <1>4. CASE state' = state /\ call' # call
    <2>1. CASE call = "none" /\ call' = "waiting" /\ \E o \in {"send", "publish"} : Call(o)
      <3>1. state = "OPEN"
        BY <2>1 DEF Call
      <3>2. Contract!Accept(1)
        BY <1>1, <1>2, <1>4, <2>1, <3>1 DEF Contract!Accept, accepted
      <3> QED
        BY <3>2 DEF Contract!Next
    <2>2. CASE call = "waiting" /\ call' \in {"returned", "cancelled"}
      <3>1. Contract!Complete(1)
        BY <1>1, <1>2, <1>4, <2>2 DEF Contract!Complete, accepted
      <3> QED
        BY <3>1 DEF Contract!Next
    <2>3. Next
      BY <1>4 DEF vars, callVars
    <2> QED
      BY <1>4, <2>1, <2>2, <2>3, CallMoves DEF CallMoved
  <1>5. CASE state' # state
    <2>1. Next
      BY <1>5 DEF vars, lifeVars
    <2>2. (BeginClose \/ FinishClose) /\ call' = call
      BY <1>5, <2>1, StateMoves
    <2>3. CASE BeginClose
      <3>1. Contract!BeginClose
        BY <1>1, <1>2, <2>2, <2>3 DEF BeginClose, IInv, Closing, Contract!BeginClose, accepted
      <3> QED
        BY <3>1 DEF Contract!Next
    <2>4. CASE FinishClose
      <3>1. state = "DRAINING" /\ call # "waiting"
        BY <2>4 DEF FinishClose, IInv, Closing, Types
      <3>2. Contract!Close
        BY <1>1, <1>2, <2>2, <2>4, <3>1 DEF FinishClose, Contract!Close, accepted
      <3> QED
        BY <3>2 DEF Contract!Next
    <2> QED
      BY <2>2, <2>3, <2>4
  <1> QED
    BY <1>3, <1>4, <1>5

\* The bus keeps the promise of DrainContract for a tree whose caller waits for it
\* (dispatch_tree.py:100-132, lifecycle.py:69-81): it accepts the tree only while it
\* is open, and is closed only when the tree with all its follow-ups is over.
THEOREM Implements ==
  ASSUME Orderly
  PROVE  Spec => KeepsDrainContract
  <1>1. IInv => AcceptedWhileWaiting
    BY Accepted_Waiting
  <1>2. IInv /\ AcceptedWhileWaiting /\ AcceptedWhileWaiting' /\ [Next]_vars
          => [Contract!Next]_(Contract!contractVars)
    BY ContractNext
  <1> QED
    BY <1>1, <1>2, ContractInit, InvHolds, PTL DEF Spec, KeepsDrainContract, Contract!Spec

-----------------------------------------------------------------------------
(* The order of the sequential loop.                                       *)

Increasing(s) == \A i, j \in DOMAIN s : i < j => s[i] < s[j]

LEMMA IncreasingConcat ==
  ASSUME NEW s \in Seq(Msg), NEW t \in Seq(Msg), Increasing(s), Increasing(t),
         \A x \in ToSet(s), y \in ToSet(t) : x < y
  PROVE  Increasing(s \o t)
  <1> DEFINE u == s \o t
  <1>1. u \in Seq(Msg) /\ Len(u) = Len(s) + Len(t)
    BY ConcatProperties
  <1>2. /\ DOMAIN u = 1..Len(u) /\ DOMAIN s = 1..Len(s) /\ DOMAIN t = 1..Len(t)
        /\ Len(s) \in Nat /\ Len(t) \in Nat
    BY <1>1, LenProperties
  <1>3. /\ \A i \in 1..Len(s) : u[i] = s[i]
        /\ \A i \in 1..Len(t) : u[Len(s) + i] = t[i]
    BY ConcatProperties
  <1>4. /\ \A i \in 1..Len(s) : s[i] \in ToSet(s)
        /\ \A i \in 1..Len(t) : t[i] \in ToSet(t)
    BY ElementsOf
  <1> HIDE DEF u
  <1>5. SUFFICES ASSUME NEW i \in 1..Len(u), NEW j \in 1..Len(u), i < j PROVE u[i] < u[j]
    BY <1>2 DEF Increasing, u
  <1>6. CASE j <= Len(s)
    BY <1>2, <1>3, <1>5, <1>6 DEF Increasing
  <1>7. CASE i <= Len(s) /\ j > Len(s)
    <2>1. i \in 1..Len(s) /\ j - Len(s) \in 1..Len(t)
      BY <1>1, <1>2, <1>7
    <2>2. u[i] = s[i] /\ u[j] = t[j - Len(s)]
      <3>1. j = Len(s) + (j - Len(s))
        BY <1>2
      <3> QED
        BY <1>3, <2>1, <3>1
    <2> QED
      BY <1>4, <2>1, <2>2
  <1>8. CASE i > Len(s)
    <2>1. i - Len(s) \in 1..Len(t) /\ j - Len(s) \in 1..Len(t) /\ i - Len(s) < j - Len(s)
      BY <1>1, <1>2, <1>5, <1>8
    <2>2. u[i] = t[i - Len(s)] /\ u[j] = t[j - Len(s)]
      <3>1. i = Len(s) + (i - Len(s)) /\ j = Len(s) + (j - Len(s))
        BY <1>2
      <3> QED
        BY <1>3, <2>1, <3>1
    <2> QED
      BY <1>2, <2>1, <2>2 DEF Increasing
  <1> QED
    BY <1>2, <1>6, <1>7, <1>8

LEMMA IncreasingTail ==
  ASSUME NEW s \in Seq(Msg), s # <<>>, Increasing(s)
  PROVE  Increasing(Tail(s)) /\ \A x \in ToSet(Tail(s)) : Head(s) < x
  <1>1. Len(s) \in Nat \ {0} /\ DOMAIN s = 1..Len(s)
    BY EmptySeq, LenProperties
  <1>2. /\ Tail(s) \in Seq(Msg) /\ Len(Tail(s)) = Len(s) - 1 /\ Head(s) = s[1]
        /\ \A i \in 1..Len(Tail(s)) : Tail(s)[i] = s[i + 1]
    BY HeadTailProperties
  <1>3. DOMAIN Tail(s) = 1..Len(Tail(s)) /\ ToSet(Tail(s)) = {Tail(s)[i] : i \in 1..Len(Tail(s))}
    BY <1>2, ElementsOf
  <1>4. \A i \in 1..Len(Tail(s)) : i + 1 \in 1..Len(s) /\ 1 < i + 1 /\ 1 \in 1..Len(s)
    BY <1>1, <1>2
  <1>5. \A i, j \in 1..Len(Tail(s)) : i < j => i + 1 < j + 1
    BY <1>1, <1>2
  <1>6. Increasing(Tail(s))
    BY <1>1, <1>2, <1>3, <1>4, <1>5 DEF Increasing
  <1>7. \A x \in ToSet(Tail(s)) : Head(s) < x
    BY <1>1, <1>2, <1>3, <1>4 DEF Increasing
  <1> QED
    BY <1>6, <1>7

\* The follow-ups of the event under way are emitted and taken over in the order of
\* their numbers, handler by handler, behind all that is queued.
OrderOf(m) ==
  /\ \A q \in ToSet(pending), e \in Msg : by[e][1] = m => q < e
  /\ Increasing(follow[m])
  /\ \A d \in ToSet(follow[m]), e \in Msg : by[e][1] = m /\ ~Collected(m, by[e][2]) => d < e
  /\ \A g, h \in ToSet(ended[m]) : g = h
  /\ \A e \in Msg : by[e][1] = m /\ handling[m][by[e][2]] = "running" =>
       ended[m] = <<>> /\ \A g \in 1..(by[e][2] - 1) : handling[m][g] # "running"

Order ==
  Sequential =>
    /\ BreadthFirst
    /\ Increasing(pending)
    /\ \A m \in Msg : Running(m) => OrderOf(m)

LEMMA OrderInit == Init => Order
  <1> SUFFICES ASSUME Init PROVE Order
    OBVIOUS
  <1>1. \A m \in Msg : ~Active(m) /\ ~Running(m)
    BY DEF Init, Active, Running
  <1>2. Increasing(pending)
    BY DEF Init, Increasing
  <1> QED
    BY <1>1, <1>2 DEF Order, BreadthFirst

\* The queue stays as it is while an event is under way.
LEMMA QueueWaits ==
  ASSUME IInv, Next, Sequential, NEW m \in Msg, Running(m), Running(m)'
  PROVE  pending' = pending
  <1> USE DEF IInv
  <1>1. ASSUME NEW o \in {"send", "publish"}, Call(o) PROVE FALSE
    <2>1. m = 1 \/ 1 < m
      BY Numbers
    <2> QED
      BY <1>1, <2>1, Numbers DEF Call, Numbering, Running
  <1>2. ~Cancel
    BY DEF Cancel, Running
  <1>3. ASSUME NEW d \in Msg, Start(d) PROVE FALSE
    BY <1>3 DEF Start, Turn
  <1>4. ASSUME NEW d \in Msg, Refuse(d) \/ Enter(d) \/ Collect(d) \/ CollectFollowUps(d)
        PROVE  pending' = pending
    BY <1>4 DEF Refuse, Enter, Collect, CollectFollowUps
  <1>5. ASSUME NEW d \in Msg, Finishing(d) PROVE pending' = pending
    <2>1. CASE IsCommand(d)
      BY <1>5, <2>1, Finishes
    <2>2. CASE ~IsCommand(d)
      <3>1. Running(d) /\ d = m
        BY <1>5, <2>2 DEF Finishing, Handled, Running, Queue
      <3> QED
        BY <1>5, <3>1, Finishes DEF Running
    <2> QED
      BY <2>1, <2>2
  <1>6. ASSUME NEW d \in Msg, NEW h \in Handler, Emit(d, h) PROVE pending' = pending
    BY <1>6 DEF Emit
  <1>7. ASSUME NEW d \in Msg, NEW h \in Handler, NEW r \in HandlerEnds, HandlerEnd(d, h, r)
        PROVE  pending' = pending
    BY <1>7 DEF HandlerEnd
  <1>8. ~CommandHandled
    BY DEF CommandHandled, Queue, Running, IsCommand
  <1>9. ASSUME Return \/ BeginClose \/ WaitDrained \/ FinishClose PROVE pending' = pending
    BY <1>9 DEF Return, BeginClose, WaitDrained, FinishClose
  <1>10. ASSUME NEW d \in Msg, NEW b \in Before, Deflect(d, b) PROVE pending' = pending
    BY <1>5, <1>10, DeflectFinishes
  <1>11. ASSUME NEW d \in Msg, NEW a \in After, Complete(d, a) PROVE pending' = pending
    BY <1>5, <1>11, CompleteFinishes
  <1> HIDE DEF IInv
  <1> QED
    BY <1>1, <1>2, <1>3, <1>4, <1>6, <1>7, <1>8, <1>9, <1>10, <1>11 DEF Next, Step

LEMMA PendingInOrder ==
  ASSUME IInv, Order, Next, Sequential
  PROVE  Increasing(pending')
  <1> USE DEF IInv
  <1>1. Increasing(pending) /\ pending \in Seq(Msg) /\ Increasing(<<>>)
    BY DEF Order, Types, Increasing
  <1>2. ASSUME pending' = pending PROVE Increasing(pending')
    BY <1>1, <1>2
  <1>3. ASSUME NEW o \in {"send", "publish"}, Call(o) PROVE Increasing(pending')
    <2>1. Increasing(<<1>>)
      BY DEF Increasing
    <2>2. pending' \in {<<1>>, <<>>}
      BY <1>3 DEF Call
    <2> QED
      BY <1>1, <2>1, <2>2
  <1>4. ASSUME Cancel PROVE Increasing(pending')
    BY <1>1, <1>4 DEF Cancel
  <1>5. ASSUME NEW d \in Msg, Start(d) PROVE Increasing(pending')
    <2>1. pending # <<>> /\ pending' = Tail(pending)
      BY <1>5, TurnTaken DEF Start
    <2> QED
      BY <1>1, <2>1, IncreasingTail
  <1>6. ASSUME NEW d \in Msg, Refuse(d) \/ Enter(d) \/ Collect(d) \/ CollectFollowUps(d)
        PROVE  Increasing(pending')
    BY <1>2, <1>6 DEF Refuse, Enter, Collect, CollectFollowUps
  <1>7. ASSUME NEW d \in Msg, Finishing(d) PROVE Increasing(pending')
    <2>1. CASE IsCommand(d)
      BY <1>2, <1>7, <2>1, Finishes
    <2>2. CASE ~IsCommand(d)
      <3>1. OrderOf(d)
        BY <1>7, <2>2 DEF Finishing, Handled, Running, Order
      <3>2. follow[d] \in Seq(Msg) /\ \A e \in ToSet(follow[d]) : e \in Msg /\ by[e][1] = d
        <4>1. follow[d] \in Seq(Msg)
          BY DEF Types
        <4>2. ToSet(follow[d]) \subseteq Msg
          BY <4>1, ElementsOf
        <4> QED
          BY <4>1, <4>2 DEF FollowUps
      <3>3. Increasing(pending \o follow[d])
        <4>1. \A q \in ToSet(pending), e \in ToSet(follow[d]) : q < e
          BY <3>1, <3>2 DEF OrderOf
        <4>2. Increasing(follow[d])
          BY <3>1 DEF OrderOf
        <4> QED
          BY <1>1, <3>2, <4>1, <4>2, IncreasingConcat
      <3>4. pending' \in {<<>>, pending, pending \o follow[d]}
        BY <1>7, <2>2, Finishes
      <3> QED
        BY <1>1, <3>3, <3>4
    <2> QED
      BY <2>1, <2>2
  <1>8. ASSUME NEW d \in Msg, NEW h \in Handler, Emit(d, h) PROVE Increasing(pending')
    BY <1>2, <1>8 DEF Emit
  <1>9. ASSUME NEW d \in Msg, NEW h \in Handler, NEW r \in HandlerEnds, HandlerEnd(d, h, r)
        PROVE  Increasing(pending')
    BY <1>2, <1>9 DEF HandlerEnd
  <1>10. ASSUME CommandHandled PROVE Increasing(pending')
    <2>1. pending' = Outcome(1, 1)
      BY <1>10 DEF CommandHandled
    <2> QED
      BY <2>1, Outcomes, Numbers DEF Increasing
  <1>11. ASSUME Return \/ BeginClose \/ WaitDrained \/ FinishClose PROVE Increasing(pending')
    BY <1>2, <1>11 DEF Return, BeginClose, WaitDrained, FinishClose
  <1>12. ASSUME NEW d \in Msg, NEW b \in Before, Deflect(d, b) PROVE Increasing(pending')
    BY <1>7, <1>12, DeflectFinishes
  <1>13. ASSUME NEW d \in Msg, NEW a \in After, Complete(d, a) PROVE Increasing(pending')
    BY <1>7, <1>13, CompleteFinishes
  <1> HIDE DEF IInv
  <1> QED
    BY <1>3, <1>4, <1>5, <1>6, <1>8, <1>9, <1>10, <1>11, <1>12, <1>13 DEF Next, Step

\* The next event in the queue comes after all that were dispatched.
LEMMA GenerationsInOrder ==
  ASSUME IInv, Order, Next, Sequential
  PROVE  BreadthFirst'
  <1> USE DEF IInv
  <1> DEFINE U == {"unused", "emitted", "queued", "dropped"}
  <1>1. SUFFICES ASSUME NEW m \in Msg, NEW e \in Msg, m < e, Active(m)', ~IsCommand(m)',
                        stage'[e] \notin U
                 PROVE  FALSE
    BY DEF BreadthFirst
  <1>2. /\ \A d \in Msg : Active(d) /\ ~IsCommand(d) /\ d < e => stage[e] \in U
        /\ Increasing(pending) /\ pending \in Seq(Msg)
    BY DEF Order, BreadthFirst, Types
  <1>3. e # 1 /\ m # e
    BY <1>1, Numbers
  <1>4. stage[m] # "unused" /\ op' = op
    <2>1. stage[e] # "unused"
      BY <1>1, <1>3, Moves DEF Moved
    <2>2. stage[m] # "unused" /\ stage[1] # "unused"
      <3>1. m = 1 \/ 1 < m
        BY Numbers
      <3> QED
        BY <1>1, <2>1, <3>1, Numbers DEF Numbering
    <2> QED
      BY <2>2, CallMoves DEF CallMoved, Numbering
  <1>5. ~IsCommand(m)
    BY <1>1, <1>4 DEF IsCommand
  <1>6. CASE stage[e] \in U
    <2>1. stage[e] = "queued" /\ stage'[e] \in {"started", "done"}
      BY <1>1, <1>3, <1>6, Moves DEF Moved
    <2>2. Start(e)
      <3>1. CASE stage'[e] = "started"
        BY <2>1, <3>1, Starts
      <3>2. CASE stage'[e] = "done"
        <4>1. OwnStep(e)
          BY <2>1, <3>2, OwnSteps DEF Kept
        <4>2. Refuse(e)
          BY <2>1, <4>1 DEF OwnStep, Enter, HandlerEnd, InHandler, Collect, CommandHandled,
             Finishing, Handled, CollectFollowUps
        <4> QED
          BY <4>2, TurnsAdmitted
      <3> QED
        BY <2>1, <3>1, <3>2
    <2>3. /\ pending # <<>> /\ e = Head(pending) /\ ToSet(Tail(pending)) = ToSet(pending) \ {e}
      BY <2>2, TurnTaken DEF Start
    <2>4. stage'[m] = stage[m] /\ ~Running(m)
      BY <1>3, <2>2 DEF Start, Turn, Types
    <2>5. stage[m] = "queued"
      BY <1>1, <1>5, <2>4 DEF Active, Running, Handlers
    <2>6. m \in ToSet(Tail(pending))
      BY <1>3, <2>3, <2>5 DEF Queue
    <2>7. e < m
      BY <1>2, <2>3, <2>6, IncreasingTail
    <2> QED
      BY <1>1, <2>7, Numbers
  <1>7. CASE stage[e] \notin U
    <2>1. ~Active(m)
      BY <1>1, <1>2, <1>5, <1>7
    <2>2. stage[m] = "emitted" /\ stage'[m] = "queued"
      BY <1>1, <1>4, <2>1, Moves DEF Moved, Active
    <2>3. TakenOver(m)
      BY <2>2, TakenOverOnce
    <2>4. CASE \E d \in Msg : ~IsCommand(d) /\ (Finishing(d) \/ Running(d)) /\ m \in ToSet(follow[d])
      <3>1. PICK d \in Msg : ~IsCommand(d) /\ (Finishing(d) \/ Running(d)) /\ m \in ToSet(follow[d])
        BY <2>4
      <3>2. Active(d)
        BY <3>1 DEF Finishing, Handled, Running, Active
      <3>3. d < m
        BY <3>1, HandedOver DEF FollowUps
      <3>4. d < e
        BY <1>1, <3>3, Numbers
      <3> QED
        BY <1>2, <1>7, <3>1, <3>2, <3>4
    <2>5. CASE CommandHandled
      BY <1>3, <1>7, <2>5 DEF CommandHandled, Queue
    <2>6. \A d \in Msg : Running(d) => ~IsCommand(d)
      BY DEF Running
    <2> HIDE DEF IInv, U
    <2> QED
      BY <2>3, <2>4, <2>5, <2>6 DEF TakenOver
  <1> QED
    BY <1>6, <1>7

\* An event whose handlers have not been called has no follow-ups to order.
LEMMA OrderAtFirst ==
  ASSUME IInv, NEW m \in Msg, Fresh(m)
  PROVE  /\ \A e \in Msg : by[e][1] # m
         /\ follow[m] = <<>> /\ ended[m] = <<>>
  <1> USE DEF IInv
  <1>1. ASSUME NEW e \in Msg, by[e][1] = m PROVE FALSE
    <2>1. e # 1 /\ stage[e] # "unused" /\ by[e][2] \in Handler
      BY <1>1, HandedOver
    <2>2. handling[m][by[e][2]] # "none"
      BY <1>1, <2>1 DEF Numbering
    <2> QED
      BY <2>1, <2>2 DEF Handlers
  <1> QED
    BY <1>1 DEF Handlers

\* A new event has a greater number than all others.
LEMMA EmittedLast ==
  ASSUME IInv, NEW m \in Msg, NEW h \in Handler, Emit(m, h)
  PROVE  \E e \in Msg : /\ stage[e] = "unused" /\ by' = [by EXCEPT ![e] = <<m, h>>]
                        /\ \A d \in Msg : stage[d] # "unused" => d < e
  <1>1. PICK e \in Msg : stage[e] = "unused" /\ by' = [by EXCEPT ![e] = <<m, h>>]
    BY DEF Emit
  <1>2. ASSUME NEW d \in Msg, stage[d] # "unused" PROVE d < e
    <2>1. ~ (e < d) /\ e # d
      BY <1>1, <1>2 DEF IInv, Numbering
    <2> QED
      BY <2>1, Numbers
  <1> QED
    BY <1>1, <1>2

LEMMA OrderKept ==
  ASSUME IInv, Order, Next, Sequential, NEW m \in Msg, Running(m)'
  PROVE  OrderOf(m)'
  <1> USE DEF IInv
  <1>1. ToSet(<<>>) = {} /\ Increasing(<<>>)
    BY DEF ToSet, Increasing
  <1>2. CASE Start(m)
    <2>1. /\ \A e \in Msg : by'[e][1] # m
          /\ follow'[m] = <<>> /\ ended'[m] = <<>>
      BY <1>2, OrderAtFirst DEF Start, Turn, Fresh
    <2> QED
      BY <1>1, <2>1 DEF OrderOf
  <1>3. CASE Running(m)
    <2>1. /\ OrderOf(m) /\ pending' = pending
          /\ follow[m] \in Seq(Msg) /\ ended[m] \in Seq(Handler)
      BY <1>3, QueueWaits DEF Order, Types
    <2>2. \A e \in Msg : by[e][1] = m => by[e][2] \in Handler /\ by[e] = <<m, by[e][2]>>
      BY HandedOver
    <2>3. CASE Kept(m)
      <3>1. /\ handling'[m] = handling[m] /\ ended'[m] = ended[m] /\ follow'[m] = follow[m]
            /\ \A g : Collected(m, g)' <=> Collected(m, g)
        BY <2>3 DEF Kept, Collected
      <3>2. CASE by' = by
        BY <2>1, <3>1, <3>2 DEF OrderOf
      <3>3. CASE \E d \in Msg, h \in Handler : Emit(d, h)
        <4>1. PICK d \in Msg, h \in Handler : Emit(d, h)
          BY <3>3
        <4>2. PICK x \in Msg : /\ stage[x] = "unused" /\ by' = [by EXCEPT ![x] = <<d, h>>]
                               /\ \A y \in Msg : stage[y] # "unused" => y < x
          BY <4>1, EmittedLast
        <4>3. by'[x] = <<d, h>> /\ \A y \in Msg \ {x} : by'[y] = by[y]
          BY <4>2 DEF Types
        <4>4. \A q \in ToSet(pending) : q < x
          <5>1. \A q \in ToSet(pending) : q \in Msg /\ stage[q] = "queued"
            BY ElementsOf DEF Queue, Types
          <5> QED
            BY <4>2, <5>1
        <4>5. \A y \in ToSet(follow[m]) : y < x
          <5>1. \A y \in ToSet(follow[m]) : y \in Msg /\ by[y][1] = m
            BY <2>1, ElementsOf DEF FollowUps
          <5>2. \A y \in ToSet(follow[m]) : stage[y] # "unused"
            BY <5>1, HandedOver
          <5> QED
            BY <4>2, <5>1, <5>2
        <4>6. /\ handling[d][h] = "running" /\ ended[d] = <<>>
              /\ \A g \in 1..(h - 1) : handling[d][g] # "running"
          BY <4>1 DEF Emit, InHandler
        <4> HIDE DEF IInv
        <4> QED
          BY <2>1, <3>1, <4>3, <4>4, <4>5, <4>6 DEF OrderOf
      <3> QED
        BY <3>2, <3>3, CallMoves DEF CallMoved
    <2>4. CASE Enter(m)
      <3>1. /\ \A e \in Msg : by'[e][1] # m
            /\ follow'[m] = <<>> /\ ended'[m] = <<>>
        BY <2>4, OrderAtFirst DEF Enter, Fresh
      <3> QED
        BY <1>1, <3>1 DEF OrderOf
    <2>5. ASSUME NEW h \in Handler, NEW r \in HandlerEnds, HandlerEnd(m, h, r)
          PROVE  OrderOf(m)'
      <3>1. /\ handling[m][h] = "running" /\ ended[m] = <<>>
            /\ \A g \in 1..(h - 1) : handling[m][g] # "running"
            /\ ended'[m] = Append(ended[m], h) /\ by' = by /\ follow' = follow
        BY <2>5 DEF HandlerEnd, InHandler, Types
      <3>2. \A g \in Handler : handling'[m][g] = IF g = h THEN r ELSE handling[m][g]
        BY <2>5 DEF HandlerEnd, Types
      <3>3. ToSet(ended'[m]) = {h}
        <4>1. ToSet(Append(ended[m], h)) = ToSet(ended[m]) \cup {h}
          BY <2>1, ElementsOfAppend
        <4> QED
          BY <1>1, <3>1, <4>1
      <3>4. r # "running"
        BY TreeAssumption
      <3>5. \A g \in Handler : Collected(m, g)' <=> Collected(m, g)
        BY <1>1, <3>1, <3>2, <3>3 DEF Collected
      <3>6. ASSUME NEW e \in Msg, by[e][1] = m, handling'[m][by[e][2]] = "running" PROVE FALSE
        <4> DEFINE g == by[e][2]
        <4>1. g \in Handler /\ g # h /\ handling[m][g] = "running"
          BY <2>2, <3>2, <3>4, <3>6
        <4>2. \A k \in 1..(g - 1) : handling[m][k] # "running"
          BY <2>1, <3>6, <4>1 DEF OrderOf
        <4> HIDE DEF g, IInv
        <4>3. g \in Nat \ {0} /\ h \in Nat \ {0}
          BY <4>1, Numbers
        <4>4. g \in 1..(h - 1) \/ h \in 1..(g - 1)
          BY <4>1, <4>3
        <4> QED
          BY <3>1, <4>1, <4>2, <4>4
      <3> HIDE DEF IInv
      <3> QED
        BY <2>1, <2>2, <3>1, <3>3, <3>5, <3>6 DEF OrderOf
    <2>6. CASE Collect(m)
      <3> DEFINE h == Head(ended[m])
      <3>1. /\ handling' = handling /\ ended[m] # <<>> /\ ended'[m] = Tail(ended[m]) /\ by' = by
            /\ follow'[m] = follow[m] \o Outcome(m, h)
        BY <2>6 DEF Collect, Types
      <3>2. h \in ToSet(ended[m]) /\ h \in Handler /\ ToSet(ended'[m]) \subseteq ToSet(ended[m])
        BY <2>1, <3>1, ElementsOfTail
      <3>3. \A g \in ToSet(ended[m]) : g = h
        BY <2>1, <3>2 DEF OrderOf
      <3> HIDE DEF h
      <3>4. /\ Outcome(m, h) \in Seq(Msg) /\ Increasing(Outcome(m, h))
            /\ \A e \in ToSet(Outcome(m, h)) : e \in Msg /\ by[e] = <<m, h>>
        BY <3>2, Outcomes DEF Increasing
      <3>5. ~Collected(m, h)
        BY <3>2 DEF Collected
      <3>6. \A d \in ToSet(follow[m]), e \in ToSet(Outcome(m, h)) : d < e
        BY <2>1, <3>4, <3>5 DEF OrderOf
      <3>7. Increasing(follow'[m])
        <4>1. Increasing(follow[m])
          BY <2>1 DEF OrderOf
        <4> QED
          BY <2>1, <3>1, <3>4, <3>6, <4>1, IncreasingConcat
      <3>8. ASSUME NEW e \in Msg, by[e][1] = m, handling[m][by[e][2]] = "running" PROVE FALSE
        BY <2>1, <3>1, <3>8 DEF OrderOf
      <3>9. ASSUME NEW e \in Msg, by[e][1] = m, ~Collected(m, by[e][2])' PROVE FALSE
        <4> DEFINE g == by[e][2]
        <4>1. g \in Handler /\ handling[m][g] # "none"
          BY <3>9, HandedOver DEF Numbering
        <4>2. handling[m][g] \in {"ok", "swallowed", "raised", "drain"}
          BY <3>8, <3>9, <4>1 DEF Types
        <4>3. g \in ToSet(ended'[m])
          BY <3>1, <3>9, <4>2 DEF Collected
        <4>4. g = h
          BY <3>2, <3>3, <4>3
        <4>5. h \notin ToSet(ended'[m])
          BY <2>1, <3>1, ElementsOfTail DEF Handlers, h
        <4> QED
          BY <4>3, <4>4, <4>5
      <3> HIDE DEF IInv
      <3> QED
        BY <2>1, <3>1, <3>2, <3>3, <3>7, <3>8, <3>9 DEF OrderOf
    <2>7. ~Refuse(m) /\ ~Finishing(m) /\ ~CollectFollowUps(m) /\ ~ (m = 1 /\ CommandHandled)
      <3>1. ~Finishing(m)
        BY Finishes DEF Running
      <3> QED
        BY <1>3, <3>1 DEF Running, Refuse, Turn, CollectFollowUps, CommandHandled
    <2> QED
      BY <2>3, <2>4, <2>5, <2>6, <2>7, OwnSteps DEF OwnStep
  <1> QED
    BY <1>2, <1>3, NextRunning

LEMMA OrderNext == IInv /\ Order /\ [Next]_vars => Order'
  <1>1. ASSUME IInv, Order, Next PROVE Order'
    BY <1>1, PendingInOrder, GenerationsInOrder, OrderKept DEF Order, Sequential
  <1>2. ASSUME Order, UNCHANGED vars PROVE Order'
    <2>1. UNCHANGED <<op, stage, by, handling, ended, follow, pending>>
      BY <1>2 DEF vars, callVars
    <2>2. /\ \A m \in Msg : Active(m)' <=> Active(m)
          /\ \A m \in Msg : Running(m)' <=> Running(m)
          /\ \A m \in Msg : IsCommand(m)' <=> IsCommand(m)
      BY <2>1 DEF Active, Running, IsCommand
    <2>3. BreadthFirst' <=> BreadthFirst
      BY <2>1, <2>2 DEF BreadthFirst, Sequential
    <2>4. \A m \in Msg : OrderOf(m)' <=> OrderOf(m)
      BY <2>1 DEF OrderOf, Collected
    <2>5. Increasing(pending)' <=> Increasing(pending)
      BY <2>1
    <2> QED
      BY <1>2, <2>2, <2>3, <2>4, <2>5 DEF Order, Sequential
  <1> QED
    BY <1>1, <1>2

\* In sequential mode an event is not dispatched before those with a smaller number
\* have been: generation after generation, and one at a time (dispatch_tree.py:134-175).
THEOREM GenerationByGeneration == Spec => []BreadthFirst
  <1>1. IInv /\ Order /\ [Next]_vars => Order'
    BY OrderNext
  <1>2. Order => BreadthFirst
    BY DEF Order, BreadthFirst
  <1> QED
    BY <1>1, <1>2, OrderInit, InvHolds, PTL DEF Spec

=============================================================================
