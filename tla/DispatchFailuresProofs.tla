----------------------- MODULE DispatchFailuresProofs -----------------------
(***************************************************************************)
(* The exception that the caller of a DispatchTree sees accounts for every *)
(* error of the tree, once, or is one BusDrainingError of it.              *)
(*                                                                         *)
(* In the sequential loop each event has its own failures and the loop has *)
(* taken them all.  In concurrent mode failures climb from task to task: a *)
(* failure that an event has is one of an event below it, and two events   *)
(* have one in common only if one of them is below the other.  With events *)
(* numbered from the root down, this needs no notion of "below": the event *)
(* of the smallest number that has a failure has nobody left to pass it to *)
(* but the call.                                                           *)
(*                                                                         *)
(* A BusDrainingError of the middleware ends a task before those of its    *)
(* follow-ups.  The first such error climbs all the same, and then the     *)
(* call raises a BusDrainingError and nothing else: a call that raises     *)
(* anything else has waited for the whole tree.                            *)
(***************************************************************************)
EXTENDS DispatchTreeProofs

\* The errors that the event m adds to those of its follow-ups; that it was refused is
\* one of them.
Own(m) ==
  {f \in {m} \X (Handler \cup {0}) :
     IF f[2] = 0 THEN mid[m] \in {"raise", "drain"} \/ threw[m] = "drain"
     ELSE Fails(m, f[2]) /\ mid[m] = "pass"}

\* The errors of m that the loop over its handlers has taken.
Told(m) ==
  {f \in {m} \X Handler : Fails(m, f[2]) /\ f[2] \notin ToSet(ended[m])}

Events == {m \in Msg : ~IsCommand(m)}

\* The failures of an event, up to the end of its dispatch.
AccountedOf(m) ==
  /\ stage[m] = "handling" => ToSet(failed[m]) = Told(m)
  /\ stage[m] = "collecting" \/ (Sequential /\ stage[m] = "done") => ToSet(failed[m]) = Own(m)
  /\ IsInjective(failed[m])

\* Those of a task that has ended: its own, all that its follow-ups had unless it did
\* not wait for them, nothing but errors of events that come after it.
SumOf(m) ==
  stage[m] = "done" =>
    /\ Own(m) \subseteq ToSet(failed[m])
    /\ ~Drained(m) =>
         \A e \in ToSet(follow[m]) : stage[e] = "done" /\ ToSet(failed[e]) \subseteq ToSet(failed[m])
    /\ \A f \in ToSet(failed[m]) :
         f[1] \in Events /\ m <= f[1] /\ stage[f[1]] = "done" /\ f \in Own(f[1])

\* Two tasks that have ended share a failure only if one passed it on, perhaps
\* over several generations, to the other.
SharedBy(y, z) ==
  y < z /\ stage[y] = "done" /\ stage[z] = "done" /\ ToSet(failed[y]) \cap ToSet(failed[z]) # {} =>
    y <= by[z][1] /\ stage[by[z][1]] = "done"

Accounts ==
  /\ \A m \in Events : AccountedOf(m)
  /\ ~Sequential => /\ \A m \in Events : SumOf(m)
                    /\ \A y, z \in Events : SharedBy(y, z)

-----------------------------------------------------------------------------
(* Errors of one message.                                                  *)

LEMMA OwnErrors ==
  ASSUME NEW m \in Events
  PROVE  /\ \A f \in Own(m) : f[1] = m
         /\ \A f \in Errors : f[1] = m => f \in Own(m)
         /\ (threw[m] = "drain" => mid[m] = "drain") => Own(m) \subseteq Errors
  <1>1. 0 \notin Handler /\ m \in Msg
    BY Numbers DEF Events
  <1>2. \A f \in Own(m) : f[1] = m
    BY DEF Own
  <1>3. ASSUME NEW f \in Errors, f[1] = m PROVE f \in Own(m)
    <2>1. CASE f \in Msg \X Handler /\ Fails(f[1], f[2]) /\ mid[f[1]] = "pass"
      <3>1. f = <<m, f[2]>> /\ f[2] \in Handler /\ f[2] # 0
        BY <1>1, <1>3, <2>1
      <3>2. f \in {m} \X (Handler \cup {0})
        BY <3>1
      <3> QED
        BY <1>3, <2>1, <3>1, <3>2 DEF Own
    <2>2. ASSUME NEW d \in Msg, mid[d] \in {"raise", "drain"}, f = <<d, 0>>
          PROVE  f \in Own(m)
      BY <1>3, <2>2 DEF Own
    <2> QED
      BY <1>3, <2>1, <2>2 DEF Errors
  <1>4. ASSUME threw[m] = "drain" => mid[m] = "drain", NEW f \in Own(m) PROVE f \in Errors
    <2>1. f = <<m, f[2]>> /\ f[1] = m /\ f[2] \in Handler \cup {0}
      BY DEF Own
    <2>2. CASE f[2] = 0
      <3>1. mid[m] \in {"raise", "drain"}
        BY <1>4, <2>2 DEF Own
      <3>2. f = <<m, 0>>
        BY <2>1, <2>2
      <3> QED
        BY <1>1, <3>1, <3>2 DEF Errors
    <2>3. CASE f[2] # 0
      <3>1. Fails(m, f[2]) /\ mid[m] = "pass" /\ f[2] \in Handler
        BY <2>1, <2>3 DEF Own
      <3>2. f \in Msg \X Handler
        BY <1>1, <2>1, <3>1
      <3> QED
        BY <2>1, <3>1, <3>2 DEF Errors
    <2> QED
      BY <2>2, <2>3
  <1> QED
    BY <1>2, <1>3, <1>4

\* A message whose final handler has not been called has caused no error.
LEMMA NoErrorYet ==
  ASSUME IInv, NEW m \in Msg, Fresh(m)
  PROVE  failed[m] = <<>> /\ Own(m) = {} /\ AccountedOf(m)
  <1>1. /\ failed[m] = <<>> /\ mid[m] = "pass" /\ \A h \in Handler : handling[m][h] = "none"
        /\ threw[m] = "no"
    BY DEF IInv, Handlers, Fresh
  <1>2. ASSUME NEW f \in Own(m) PROVE FALSE
    BY <1>1 DEF Own, Fails
  <1>3. IsInjective(<<>>)
    BY DEF IsInjective
  <1> QED
    BY <1>1, <1>2, <1>3 DEF AccountedOf, Fresh

\* What a message is does not change once its final handler has been called.
LEMMA SameKind ==
  ASSUME IInv, Next, NEW m \in Msg, ~Fresh(m)'
  PROVE  IsCommand(m)' = IsCommand(m)
  <1>1. stage[m] # "unused"
    BY Moves DEF Moved, Fresh
  <1> QED
    BY <1>1, SameCommand DEF IsCommand

LEMMA OwnStays ==
  ASSUME NEW m \in Msg, Kept(m)
  PROVE  Own(m)' = Own(m) /\ Told(m)' = Told(m)
  <1>1. /\ handling'[m] = handling[m] /\ mid'[m] = mid[m] /\ ended'[m] = ended[m]
        /\ threw'[m] = threw[m]
    BY DEF Kept
  <1> QED
    BY <1>1 DEF Own, Told, Fails

LEMMA OneFailure ==
  ASSUME NEW m \in Msg
  PROVE  /\ IsInjective(<<>>) /\ ToSet(<<>>) = {}
         /\ IsInjective(NoHandler(m)) /\ ToSet(NoHandler(m)) = {<<m, 0>>}
  <1>1. NoHandler(m) \in Seq({<<m, 0>>}) /\ Len(NoHandler(m)) = 1 /\ NoHandler(m)[1] = <<m, 0>>
    BY DEF NoHandler
  <1>2. ToSet(NoHandler(m)) = {NoHandler(m)[i] : i \in 1..1} /\ DOMAIN NoHandler(m) = 1..1
    BY <1>1, ElementsOf
  <1>3. ToSet(NoHandler(m)) = {<<m, 0>>}
    <2>1. 1..1 = {1}
      OBVIOUS
    <2> QED
      BY <1>1, <1>2, <2>1, ZenonT(20)
  <1>4. IsInjective(NoHandler(m))
    BY <1>2 DEF IsInjective
  <1>5. IsInjective(<<>>) /\ ToSet(<<>>) = {}
    BY DEF IsInjective, ToSet
  <1> QED
    BY <1>3, <1>4, <1>5

\* The dispatch of an event ends with its own errors.
LEMMA EndsWithOwn ==
  ASSUME IInv, NEW m \in Events, Ending(m), AccountedOf(m)
  PROVE  ToSet(failed'[m]) = Own(m)' /\ IsInjective(failed'[m])
  <1> USE DEF IInv
  <1>1. /\ m \in Msg /\ ~IsCommand(m) /\ 0 \notin Handler
        /\ failed \in [Msg -> Seq(Failure)] /\ mid \in [Msg -> Before \cup After \cup {"pass"}]
        /\ threw \in [Msg -> Kind]
    BY Numbers DEF Events, Types
  <1>2. /\ IsInjective(<<>>) /\ ToSet(<<>>) = {}
        /\ IsInjective(NoHandler(m)) /\ ToSet(NoHandler(m)) = {<<m, 0>>}
    BY <1>1, OneFailure
  \* An error of the middleware, or none.
  <1>3. ASSUME NEW x \in {"skip", "swallow"}, mid' = [mid EXCEPT ![m] = x],
               failed' = [failed EXCEPT ![m] = <<>>], threw' = [threw EXCEPT ![m] = "no"]
        PROVE  ToSet(failed'[m]) = Own(m)' /\ IsInjective(failed'[m])
    <2>1. failed'[m] = <<>> /\ mid'[m] = x /\ threw'[m] = "no"
      BY <1>1, <1>3
    <2>2. ASSUME NEW f \in Own(m)' PROVE FALSE
      BY <2>1, <2>2 DEF Own
    <2> QED
      BY <1>2, <2>1, <2>2
  <1>4. ASSUME NEW x \in {"raise", "drain"}, mid' = [mid EXCEPT ![m] = x],
               failed' = [failed EXCEPT ![m] = NoHandler(m)]
        PROVE  ToSet(failed'[m]) = Own(m)' /\ IsInjective(failed'[m])
    <2>1. failed'[m] = NoHandler(m) /\ mid'[m] = x
      BY <1>1, <1>4
    <2>2. <<m, 0>> \in Own(m)'
      BY <2>1 DEF Own
    <2>3. ASSUME NEW f \in Own(m)' PROVE f = <<m, 0>>
      <3>1. f = <<m, f[2]>> /\ f[2] = 0
        BY <2>1 DEF Own
      <3> QED
        BY <3>1
    <2> QED
      BY <1>2, <2>1, <2>2, <2>3
  <1>5. ASSUME NEW b \in Before, Deflect(m, b)
        PROVE  ToSet(failed'[m]) = Own(m)' /\ IsInjective(failed'[m])
    <2>1. mid' = [mid EXCEPT ![m] = b] /\ b \in {"skip", "raise", "drain"}
      BY <1>5, TreeAssumption DEF Deflect
    <2>2. /\ failed' = [failed EXCEPT ![m] = IF b = "skip" THEN <<>> ELSE NoHandler(m)]
          /\ b = "skip" => threw' = [threw EXCEPT ![m] = "no"]
      BY <1>5 DEF Deflect, Finish
    <2> QED
      BY <2>1, <2>2, <1>3, <1>4
  \* The errors of the handlers.
  <1>6. ASSUME Complete(m, "pass")
        PROVE  ToSet(failed'[m]) = Own(m)' /\ IsInjective(failed'[m])
    <2>1. Finish(m, Raised(m).kind, Raised(m).failures)
      BY <1>6 DEF Complete
    <2>2. stage[m] = "handling" /\ ended[m] = <<>>
      BY <1>1, <1>6 DEF Complete, Handled
    <2>3. /\ failed'[m] = failed[m] /\ mid'[m] = "pass" /\ handling' = handling
          /\ threw'[m] # "drain"
      <3>1. Raised(m).failures = failed[m] /\ Raised(m).kind # "drain"
        BY <1>1 DEF Raised
      <3> QED
        BY <1>1, <1>6, <2>1, <3>1 DEF Complete, Finish
    <2>4. ToSet(failed[m]) = Told(m) /\ IsInjective(failed[m])
      BY <2>2 DEF AccountedOf
    <2>5. ASSUME NEW f \in Told(m) PROVE f \in Own(m)'
      BY <1>1, <2>3 DEF Told, Own, Fails
    <2>6. ASSUME NEW f \in Own(m)' PROVE f \in Told(m)
      <3>1. f = <<m, f[2]>> /\ f[2] # 0 /\ f[2] \in Handler /\ Fails(m, f[2])
        BY <2>3 DEF Own, Fails
      <3>2. f \in {m} \X Handler /\ f[2] \notin ToSet(ended[m])
        BY <3>1, <2>2, <1>2
      <3> QED
        BY <3>1, <3>2 DEF Told
    <2> QED
      BY <2>3, <2>4, <2>5, <2>6
  <1>7. ASSUME NEW a \in After, Complete(m, a)
        PROVE  ToSet(failed'[m]) = Own(m)' /\ IsInjective(failed'[m])
    <2>1. a \in {"pass", "swallow", "raise", "drain"} /\ mid' = [mid EXCEPT ![m] = a]
      BY <1>7, TreeAssumption DEF Complete
    <2>2. CASE a = "swallow"
      BY <1>3, <1>7, <2>1, <2>2 DEF Complete, Finish
    <2>3. CASE a = "raise"
      BY <1>4, <1>7, <2>1, <2>3 DEF Complete, Finish
    <2>4. CASE a = "drain"
      BY <1>4, <1>7, <2>1, <2>4 DEF Complete, Finish
    <2> QED
      BY <1>6, <1>7, <2>1, <2>2, <2>3, <2>4
  <1> QED
    BY <1>5, <1>7 DEF Ending

-----------------------------------------------------------------------------
(* What an event tells of itself.                                          *)

\* The loop over the handlers takes one more result.
LEMMA CollectTells ==
  ASSUME IInv, NEW m \in Events, Collect(m), AccountedOf(m)
  PROVE  ToSet(failed'[m]) = Told(m)' /\ IsInjective(failed'[m])
  <1> USE DEF IInv
  <1> DEFINE h == Head(ended[m])
  <1>1. /\ m \in Msg /\ failed[m] \in Seq(Failure) /\ ended[m] \in Seq(Handler) /\ ended[m] # <<>>
        /\ failed \in [Msg -> Seq(Failure)] /\ ended \in [Msg -> Seq(Handler)]
    BY DEF Collect, Events, Types
  <1>2. /\ h \in Handler /\ h \in ToSet(ended[m])
        /\ ToSet(Tail(ended[m])) = ToSet(ended[m]) \ {h}
    <2>1. IsInjective(ended[m])
      BY <1>1 DEF Handlers
    <2> QED
      BY <1>1, <2>1, ElementsOfTail, ElementsOf
  <1>3. /\ ended'[m] = Tail(ended[m]) /\ handling' = handling
        /\ failed'[m] = IF Fails(m, h) THEN Append(failed[m], <<m, h>>) ELSE failed[m]
    BY <1>1 DEF Collect
  <1>4. ToSet(failed[m]) = Told(m) /\ IsInjective(failed[m])
    BY DEF Collect, AccountedOf
  <1> HIDE DEF h
  <1>5. CASE Fails(m, h)
    <2>1. <<m, h>> \in Failure /\ <<m, h>> \in {m} \X Handler
      BY <1>1, <1>2 DEF Failure
    <2>2. <<m, h>> \notin Told(m)
      BY <1>2 DEF Told
    <2>3. /\ ToSet(failed'[m]) = ToSet(failed[m]) \cup {<<m, h>>}
          /\ IsInjective(failed'[m])
      <3>1. failed'[m] = Append(failed[m], <<m, h>>) /\ <<m, h>> \notin ToSet(failed[m])
        BY <1>3, <1>4, <1>5, <2>2
      <3>2. failed[m] \in Seq(Failure) /\ <<m, h>> \in Failure
        BY <1>1, <2>1
      <3> HIDE DEF IInv
      <3>3. /\ ToSet(Append(failed[m], <<m, h>>)) = ToSet(failed[m]) \cup {<<m, h>>}
            /\ IsInjective(Append(failed[m], <<m, h>>))
                 <=> IsInjective(failed[m]) /\ <<m, h>> \notin ToSet(failed[m])
        BY <3>2, ElementsOfAppend
      <3> QED
        BY <1>4, <3>1, <3>3
    <2>4. ASSUME NEW f \in Told(m)' PROVE f \in Told(m) \cup {<<m, h>>}
      <3>1. /\ f \in {m} \X Handler /\ f = <<m, f[2]>> /\ Fails(m, f[2])
            /\ f[2] \notin ToSet(ended[m]) \ {h}
        BY <1>2, <1>3 DEF Told, Fails
      <3> QED
        BY <3>1 DEF Told
    <2>5. ASSUME NEW f \in Told(m) PROVE f \in Told(m)'
      BY <1>2, <1>3 DEF Told, Fails
    <2>6. <<m, h>> \in Told(m)'
      BY <1>2, <1>3, <1>5, <2>1 DEF Told, Fails
    <2> QED
      BY <1>4, <2>3, <2>4, <2>5, <2>6
  <1>6. CASE ~Fails(m, h)
    <2>1. ASSUME NEW f \in {m} \X Handler PROVE f \in Told(m)' <=> f \in Told(m)
      BY <1>2, <1>3, <1>6 DEF Told, Fails
    <2>2. Told(m)' = Told(m)
      BY <2>1 DEF Told
    <2> QED
      BY <1>3, <1>4, <1>6, <2>2
  <1> QED
    BY <1>5, <1>6

\* A task adds the failures of its follow-ups to its own; none comes twice.
LEMMA Gathers ==
  ASSUME IInv, Accounts, ~Sequential, NEW m \in Events, CollectFollowUps(m)
  PROVE  /\ ToSet(failed'[m]) = Own(m) \cup UNION {ToSet(failed[e]) : e \in ToSet(follow[m])}
         /\ IsInjective(failed'[m])
  <1> USE DEF IInv
  <1>1. /\ m \in Msg /\ ~IsCommand(m) /\ stage[m] = "collecting"
        /\ failed[m] \in Seq(Failure) /\ follow[m] \in Seq(Msg)
        /\ failed \in [Msg -> Seq(Failure)]
    BY DEF CollectFollowUps, Events, Types
  <1>2. failed'[m] = failed[m] \o FailuresOf(follow[m])
    BY <1>1 DEF CollectFollowUps, Gathered
  <1>3. ToSet(failed[m]) = Own(m) /\ IsInjective(failed[m])
    BY <1>1 DEF Accounts, AccountedOf
  <1>4. /\ FailuresOf(follow[m]) \in Seq(Failure)
        /\ ToSet(FailuresOf(follow[m])) = UNION {ToSet(failed[e]) : e \in ToSet(follow[m])}
    BY <1>1, FailuresTyped
  <1>5. \A e \in ToSet(follow[m]) :
          e \in Events /\ m < e /\ by[e][1] = m /\ stage[e] = "done"
    <2> TAKE e \in ToSet(follow[m])
    <2>1. e \in Msg /\ by[e][1] = m /\ stage[e] = "done"
      BY <1>1, ElementsOf DEF FollowUps, CollectFollowUps, FollowUpsOver
    <2>2. e # 1 /\ m < e
      BY <1>1, <2>1, HandedOver
    <2> QED
      BY <2>1, <2>2 DEF Events, IsCommand
  <1>6. \A e \in ToSet(follow[m]) : SumOf(e) /\ AccountedOf(e)
    BY <1>5 DEF Accounts
  <1>7. IsInjective(FailuresOf(follow[m]))
    <2>1. IsInjective(follow[m])
      BY <1>1 DEF FollowUps
    <2>2. \A e \in ToSet(follow[m]) : IsInjective(failed[e])
      BY <1>6 DEF AccountedOf
    <2>3. ASSUME NEW d \in ToSet(follow[m]), NEW e \in ToSet(follow[m]), d < e
          PROVE  ToSet(failed[d]) \cap ToSet(failed[e]) = {}
      <3>1. SharedBy(d, e)
        BY <1>5 DEF Accounts
      <3> QED
        BY <1>1, <1>5, <2>3, <3>1 DEF SharedBy
    <2>4. ASSUME NEW d \in ToSet(follow[m]), NEW e \in ToSet(follow[m]), d # e
          PROVE  ToSet(failed[d]) \cap ToSet(failed[e]) = {}
      <3>1. d \in Nat /\ e \in Nat
        BY <1>5, Numbers DEF Events
      <3>2. d < e \/ e < d
        BY <2>4, <3>1
      <3> QED
        BY <2>3, <3>2
    <2> QED
      BY <1>1, <2>1, <2>2, <2>4, FailuresTyped
  <1>8. Own(m) \cap UNION {ToSet(failed[e]) : e \in ToSet(follow[m])} = {}
    <2> SUFFICES ASSUME NEW f \in Own(m), NEW e \in ToSet(follow[m]), f \in ToSet(failed[e])
                 PROVE  FALSE
      OBVIOUS
    <2>1. f[1] = m
      BY <1>1, OwnErrors
    <2>2. e <= f[1]
      BY <1>5, <1>6 DEF SumOf
    <2>3. m \in Nat /\ e \in Nat /\ m < e
      BY <1>1, <1>5, Numbers DEF Events
    <2> QED
      BY <2>1, <2>2, <2>3
  <1> QED
    BY <1>1, <1>2, <1>3, <1>4, <1>7, <1>8, ElementsOfConcat

LEMMA AccountedKept ==
  ASSUME IInv, Accounts, Next, NEW m \in Events'
  PROVE  AccountedOf(m)'
  <1> USE DEF IInv
  <1>1. IInv'
    BY InvNext
  <1>2. m \in Msg /\ ~IsCommand(m)'
    BY DEF Events
  <1>3. CASE Fresh(m)'
    <2>1. failed'[m] = <<>>
      BY <1>1, <1>2, <1>3 DEF Handlers
    <2>2. IsInjective(<<>>)
      BY DEF IsInjective
    <2> QED
      BY <1>3, <2>1, <2>2 DEF AccountedOf, Fresh
  <1>4. ASSUME ~Fresh(m)' PROVE AccountedOf(m)'
    <2>1. m \in Events /\ AccountedOf(m)
      BY <1>2, <1>4, SameKind DEF Events, Accounts
    <2>2. CASE Kept(m)
      <3>1. Own(m)' = Own(m) /\ Told(m)' = Told(m) /\ failed'[m] = failed[m]
        BY <1>2, <2>2, OwnStays DEF Kept
      <3>2. stage'[m] = stage[m] \/ stage'[m] = "cancelled"
        BY <1>4, <2>2 DEF Kept, Fresh
      <3> QED
        BY <2>1, <3>1, <3>2 DEF AccountedOf, Sequential
    <2>3. CASE Enter(m)
      <3>1. failed'[m] = <<>> /\ stage'[m] = "handling"
        BY <1>2, <2>3 DEF Enter, Types, Handlers, Fresh
      <3>2. ASSUME NEW f \in Told(m)' PROVE FALSE
        <4>1. f[2] \in Handler /\ handling'[m][f[2]] \in {"raised", "drain"}
          BY <3>2 DEF Told, Fails
        <4>2. \A h \in Handler : handling'[m][h] \in {"running", "none"}
          BY <1>2, <2>3 DEF Enter, Types
        <4> QED
          BY <4>1, <4>2
      <3>3. IsInjective(<<>>) /\ ToSet(<<>>) = {}
        BY DEF IsInjective, ToSet
      <3> QED
        BY <3>1, <3>2, <3>3 DEF AccountedOf
    <2>4. ASSUME NEW h \in Handler, NEW r \in HandlerEnds, HandlerEnd(m, h, r)
          PROVE  AccountedOf(m)'
      <3>1. /\ failed' = failed /\ stage' = stage /\ stage[m] = "handling"
            /\ handling'[m] = [handling[m] EXCEPT ![h] = r] /\ handling[m][h] = "running"
            /\ ended'[m] = Append(ended[m], h)
        BY <1>2, <2>4 DEF HandlerEnd, InHandler, Types
      <3>2. ToSet(ended'[m]) = ToSet(ended[m]) \cup {h}
        BY <1>2, <3>1, ElementsOfAppend DEF Types
      <3>3. ASSUME NEW f \in {m} \X Handler PROVE f \in Told(m)' <=> f \in Told(m)
        <4>1. f[2] \in Handler
          OBVIOUS
        <4>2. CASE f[2] = h
          BY <3>1, <3>2, <4>2 DEF Told, Fails
        <4>3. CASE f[2] # h
          <5>1. handling'[m][f[2]] = handling[m][f[2]]
            BY <1>2, <3>1, <4>1, <4>3 DEF Types
          <5> QED
            BY <3>2, <4>1, <4>3, <5>1 DEF Told, Fails
        <4> QED
          BY <4>2, <4>3
      <3>4. Told(m)' = Told(m)
        BY <3>3 DEF Told
      <3> QED
        BY <2>1, <3>1, <3>4 DEF AccountedOf
    <2>5. CASE Collect(m)
      <3>1. stage'[m] = "handling"
        <4>1. stage[m] = "handling" /\ (Sequential \/ m \notin ToSet(Outcome(m, Head(ended[m])))
                                          => stage'[m] = stage[m])
          BY <1>2, <2>5 DEF Collect, Types
        <4>2. stage'[m] \in {stage[m], "queued"}
          BY <1>2, <2>5 DEF Collect, Types
        <4> QED
          BY <1>4, <4>1, <4>2 DEF Fresh
      <3>2. ToSet(failed'[m]) = Told(m)' /\ IsInjective(failed'[m])
        BY <2>1, <2>5, CollectTells
      <3> QED
        BY <3>1, <3>2 DEF AccountedOf
    <2>6. ~ (m = 1 /\ CommandHandled)
      BY <2>1 DEF CommandHandled, Events
    <2>7. CASE Refuse(m)
      <3>1. ~Sequential /\ stage'[m] = "done" /\ failed'[m] = NoHandler(m)
        BY <1>2, <2>7, TurnsAdmitted DEF Refuse, Types
      <3>2. IsInjective(NoHandler(m))
        BY <1>2, OneFailure
      <3> QED
        BY <3>1, <3>2 DEF AccountedOf, Sequential
    <2>8. CASE Finishing(m) /\ Ending(m)
      <3>1. ToSet(failed'[m]) = Own(m)' /\ IsInjective(failed'[m])
        BY <2>1, <2>8, EndsWithOwn
      <3>2. stage'[m] # "handling"
        BY <1>2, <2>8, Finishes
      <3> QED
        BY <3>1, <3>2 DEF AccountedOf
    <2>9. CASE CollectFollowUps(m)
      <3>1. ~Sequential /\ stage'[m] = "done"
        BY <1>2, <2>9 DEF CollectFollowUps, Handlers, Types
      <3>2. IsInjective(failed'[m])
        BY <1>2, <2>1, <2>9, <3>1, Gathers
      <3> QED
        BY <3>1, <3>2 DEF AccountedOf, Sequential
    <2> HIDE DEF IInv
    <2> QED
      BY <1>2, <2>2, <2>3, <2>4, <2>5, <2>6, <2>7, <2>8, <2>9, OwnSteps DEF OwnStep
  <1> QED
    BY <1>3, <1>4

-----------------------------------------------------------------------------
(* What tasks that have ended know of each other.                          *)

\* A BusDrainingError has just ended the task of m, which tells that and no more.
JustDrained(m) ==
  /\ stage[m] # "done" /\ stage'[m] = "done" /\ Drained(m)' /\ by' = by
  /\ \A e \in Msg \ {m} : stage'[e] = stage[e] /\ failed'[e] = failed[e]
  /\ ToSet(failed'[m]) = Own(m)'

LEMMA JustRefused ==
  ASSUME IInv, Next, ~Sequential, NEW m \in Events, Refuse(m), ~IsCommand(m)'
  PROVE  JustDrained(m)
  <1>1. m \in Msg /\ stage[m] = "queued"
    BY DEF Refuse, Turn, Events
  <1>2. /\ failed'[m] = NoHandler(m) /\ threw'[m] = "drain" /\ stage'[m] = "done" /\ by' = by
        /\ UNCHANGED <<handling, mid>>
        /\ \A e \in Msg \ {m} : stage'[e] = stage[e] /\ failed'[e] = failed[e]
    BY <1>1 DEF Refuse, IInv, Types
  <1>3. mid[m] = "pass" /\ \A h \in Handler : handling[m][h] = "none"
    BY <1>1 DEF IInv, Handlers, Fresh
  <1>4. <<m, 0>> \in Own(m)'
    BY <1>2 DEF Own
  <1>5. ASSUME NEW f \in Own(m)' PROVE f = <<m, 0>>
    BY <1>2, <1>3, <1>5 DEF Own, Fails
  <1>6. ToSet(NoHandler(m)) = {<<m, 0>>}
    BY <1>1, OneFailure
  <1> QED
    BY <1>1, <1>2, <1>4, <1>5, <1>6 DEF JustDrained, Drained

\* A concurrent event has come to its end if its task has gathered its failures, or
\* raised BusDrainingError.
LEMMA EndsGathered ==
  ASSUME IInv, Accounts, Next, ~Sequential, NEW m \in Events', stage'[m] = "done"
  PROVE  /\ m \in Events
         /\ (stage[m] = "done" /\ Kept(m)) \/ CollectFollowUps(m) \/ JustDrained(m)
  <1> USE DEF IInv
  <1>1. m \in Msg /\ ~IsCommand(m)' /\ ~Fresh(m)'
    BY DEF Events, Fresh
  <1>2. m \in Events /\ ~IsCommand(m) /\ AccountedOf(m)
    BY <1>1, SameKind DEF Events, Accounts
  <1>3. ~ Enter(m)
    BY <1>1 DEF Enter, Types
  <1>4. ASSUME NEW h \in Handler, NEW r \in HandlerEnds, HandlerEnd(m, h, r) PROVE FALSE
    BY <1>4 DEF HandlerEnd, InHandler
  <1>5. ~ Collect(m)
    BY <1>1 DEF Collect, Types
  <1>6. ~ (m = 1 /\ CommandHandled)
    BY <1>2 DEF CommandHandled
  <1>7. Refuse(m) => JustDrained(m)
    BY <1>1, <1>2, JustRefused
  <1>8. ASSUME Finishing(m), Ending(m) PROVE JustDrained(m)
    <2>1. threw'[m] = "drain" /\ \A e \in Msg \ {m} : stage'[e] = stage[e]
      BY <1>1, <1>2, <1>8, Finishes
    <2>2. \A e \in Msg \ {m} : failed'[e] = failed[e]
      BY <1>1, <1>8, Finishes DEF Types
    <2>3. by' = by /\ stage[m] # "done"
      BY <1>8 DEF Finishing, Handled
    <2>4. ToSet(failed'[m]) = Own(m)'
      BY <1>2, <1>8, EndsWithOwn
    <2> QED
      BY <1>1, <2>1, <2>2, <2>3, <2>4 DEF JustDrained, Drained
  <1>9. Kept(m) => stage[m] = "done"
    BY DEF Kept
  <1> HIDE DEF IInv
  <1> QED
    BY <1>1, <1>2, <1>3, <1>4, <1>5, <1>6, <1>7, <1>8, <1>9, OwnSteps DEF OwnStep

\* What ended tasks tell stays.
LEMMA EndedStays ==
  ASSUME IInv, Next, NEW m \in Msg, stage[m] = "done"
  PROVE  /\ stage'[m] = "done" /\ failed'[m] = failed[m] /\ follow'[m] = follow[m]
         /\ Own(m)' = Own(m) /\ (m \in Events => m \in Events')
         /\ Drained(m)' <=> Drained(m)
  <1>1. Kept(m) /\ stage'[m] = "done"
    BY ErrorsStay
  <1>2. ~Fresh(m)'
    BY <1>1 DEF Fresh
  <1>3. (m \in Events => m \in Events') /\ (IsCommand(m)' <=> IsCommand(m))
    BY <1>2, SameKind DEF Events
  <1> QED
    BY <1>1, <1>3, OwnStays DEF Kept, Drained

LEMMA SumKept ==
  ASSUME IInv, Accounts, Next, ~Sequential, NEW m \in Events'
  PROVE  SumOf(m)'
  <1> USE DEF IInv
  <1> SUFFICES ASSUME stage'[m] = "done" PROVE SumOf(m)'
    BY DEF SumOf
  <1>1. m \in Events /\ m \in Msg /\ AccountedOf(m) /\ SumOf(m)
    BY EndsGathered DEF Events, Accounts
  <1>2. ASSUME stage[m] = "done", Kept(m) PROVE SumOf(m)'
    <2>1. /\ Own(m)' = Own(m) /\ failed'[m] = failed[m] /\ follow'[m] = follow[m]
          /\ Drained(m)' <=> Drained(m)
      BY <1>1, <1>2, EndedStays
    <2>2. ASSUME ~Drained(m), NEW e \in ToSet(follow[m])
          PROVE  stage'[e] = "done" /\ ToSet(failed'[e]) \subseteq ToSet(failed[m])
      <3>1. e \in Msg
        BY <1>1, <2>2, ElementsOf DEF Types
      <3> QED
        BY <1>1, <1>2, <2>2, <3>1, EndedStays DEF SumOf
    <2>3. ASSUME NEW f \in ToSet(failed[m])
          PROVE  f[1] \in Events' /\ m <= f[1] /\ stage'[f[1]] = "done" /\ f \in Own(f[1])'
      <3>1. f[1] \in Events /\ f[1] \in Msg /\ m <= f[1] /\ stage[f[1]] = "done" /\ f \in Own(f[1])
        BY <1>1, <1>2, <2>3 DEF SumOf, Events
      <3> QED
        BY <3>1, EndedStays
    <2>4. Own(m) \subseteq ToSet(failed[m])
      BY <1>1, <1>2 DEF SumOf
    <2> QED
      BY <2>1, <2>2, <2>3, <2>4 DEF SumOf
  <1>3. ASSUME CollectFollowUps(m) PROVE SumOf(m)'
    <2>1. /\ stage[m] = "collecting" /\ stage' = [stage EXCEPT ![m] = "done"]
          /\ failed' = [failed EXCEPT ![m] = Gathered(m)]
          /\ UNCHANGED <<op, by, follow, handling, mid>>
      BY <1>3 DEF CollectFollowUps, callVars
    <2>2. ToSet(failed'[m]) = Own(m) \cup UNION {ToSet(failed[e]) : e \in ToSet(follow[m])}
      BY <1>1, <1>3, Gathers
    <2>3. /\ \A d \in Msg : Own(d)' = Own(d)
          /\ Events' = Events
      <3>1. \A d \in Msg \ {m} : threw'[d] = threw[d]
        BY <1>1, <1>3 DEF CollectFollowUps, Types
      <3>2. threw[m] # "drain" /\ threw'[m] # "drain"
        BY <1>1, <1>3, <2>1 DEF CollectFollowUps, Types, Handlers, Drained, Events
      <3>3. \A d \in Msg : Own(d)' = Own(d)
        BY <2>1, <3>1, <3>2 DEF Own, Fails
      <3> QED
        BY <2>1, <3>3 DEF Events, IsCommand
    <2>4. ASSUME NEW e \in ToSet(follow[m])
          PROVE  e \in Events /\ m < e /\ stage[e] = "done" /\ e # m /\ failed'[e] = failed[e]
      <3>1. e \in Msg /\ by[e][1] = m /\ stage[e] = "done"
        BY <1>1, <1>3, <2>4, ElementsOf DEF FollowUps, CollectFollowUps, FollowUpsOver, Types
      <3>2. e # 1 /\ m < e
        BY <1>1, <3>1, HandedOver
      <3>3. e # m
        BY <2>1, <3>1
      <3> QED
        BY <2>1, <3>1, <3>2, <3>3 DEF Events, IsCommand, Types
    <2>5. ASSUME NEW e \in ToSet(follow'[m])
          PROVE  stage'[e] = "done" /\ ToSet(failed'[e]) \subseteq ToSet(failed'[m])
      <3>1. e \in ToSet(follow[m]) /\ e \in Msg
        BY <2>1, <2>4, <2>5 DEF Events
      <3>2. stage'[e] = "done"
        BY <2>1, <2>4, <3>1 DEF Types
      <3> QED
        BY <2>2, <2>4, <3>1, <3>2
    <2>6. ASSUME NEW f \in ToSet(failed'[m])
          PROVE  f[1] \in Events' /\ m <= f[1] /\ stage'[f[1]] = "done" /\ f \in Own(f[1])'
      <3>1. CASE f \in Own(m)
        <4>1. f[1] = m
          BY <1>1, <3>1, OwnErrors
        <4>2. m <= m /\ stage'[m] = "done"
          BY <1>1, <2>1, Numbers
        <4> QED
          BY <1>1, <2>3, <3>1, <4>1, <4>2
      <3>2. ASSUME NEW e \in ToSet(follow[m]), f \in ToSet(failed[e])
            PROVE  f[1] \in Events' /\ m <= f[1] /\ stage'[f[1]] = "done" /\ f \in Own(f[1])'
        <4>1. e \in Events /\ m < e /\ stage[e] = "done" /\ SumOf(e)
          BY <1>1, <2>4, <3>2 DEF Accounts
        <4>2. f[1] \in Events /\ e <= f[1] /\ stage[f[1]] = "done" /\ f \in Own(f[1])
          BY <3>2, <4>1 DEF SumOf
        <4>3. f[1] \in Msg /\ m \in Nat /\ e \in Nat /\ f[1] \in Nat
          BY <1>1, <4>1, <4>2, Numbers DEF Events
        <4>4. stage'[f[1]] = "done" /\ m <= f[1]
          BY <2>1, <4>1, <4>2, <4>3 DEF Types
        <4> QED
          BY <2>3, <4>2, <4>3, <4>4
      <3> QED
        BY <2>2, <2>6, <3>1, <3>2
    <2> QED
      BY <1>1, <2>2, <2>3, <2>5, <2>6 DEF SumOf
  <1>4. ASSUME JustDrained(m) PROVE SumOf(m)'
    <2>1. Drained(m)' /\ ToSet(failed'[m]) = Own(m)' /\ stage'[m] = "done"
      BY <1>4 DEF JustDrained
    <2>2. \A f \in Own(m)' : f[1] = m
      BY DEF Own
    <2>3. m <= m
      BY <1>1, Numbers
    <2> QED
      BY <2>1, <2>2, <2>3 DEF SumOf
  <1> QED
    BY <1>2, <1>3, <1>4, EndsGathered

LEMMA SharedKept ==
  ASSUME IInv, Accounts, Next, ~Sequential, NEW y \in Events', NEW z \in Events'
  PROVE  SharedBy(y, z)'
  <1> USE DEF IInv
  <1> SUFFICES ASSUME y < z, stage'[y] = "done", stage'[z] = "done",
                      NEW f \in ToSet(failed'[y]), f \in ToSet(failed'[z])
               PROVE  y <= by'[z][1] /\ stage'[by'[z][1]] = "done"
    BY DEF SharedBy
  <1>1. /\ y \in Events /\ z \in Events /\ y \in Msg /\ z \in Msg
        /\ SharedBy(y, z) /\ SumOf(y) /\ SumOf(z)
    BY EndsGathered DEF Events, Accounts
  <1>2. y \in Nat /\ z \in Nat
    BY <1>1, Numbers
  <1>3. stage[z] # "unused" /\ z # 1 /\ by[z][1] \in Msg /\ by[z][1] \in Nat
    <2>1. stage[z] # "unused"
      <3>1. JustDrained(z) => stage[z] # "unused"
        BY <1>1, Moves DEF JustDrained, Moved
      <3> QED
        BY <3>1, EndsGathered DEF CollectFollowUps
    <2>2. z # 1
      BY <1>1, <1>2, Numbers
    <2>3. by[z] \in Msg \X Handler
      BY <1>1, <2>1, <2>2 DEF Numbering
    <2> QED
      BY <2>1, <2>2, <2>3, Numbers
  \* What an ended task knows of an error it has.
  <1>4. ASSUME NEW m \in Events, stage[m] = "done", NEW g \in ToSet(failed[m])
        PROVE  g[1] \in Nat /\ m <= g[1] /\ stage[g[1]] = "done"
    <2>1. SumOf(m)
      BY <1>1 DEF Accounts
    <2> QED
      BY <1>4, <2>1, Numbers DEF SumOf, Events
  <1>5. ASSUME NEW m \in Events, CollectFollowUps(m)
        PROVE  /\ stage[m] = "collecting" /\ by' = by /\ stage'[m] = "done"
               /\ \A e \in Msg \ {m} : stage'[e] = stage[e] /\ failed'[e] = failed[e]
               /\ \A g \in ToSet(failed'[m]) : \/ g[1] = m
                                               \/ \E e \in ToSet(follow[m]) : g \in ToSet(failed[e])
               /\ \A e \in ToSet(follow[m]) :
                    e \in Events /\ stage[e] = "done" /\ m < e /\ by[e][1] = m
    <2>1. m \in Msg
      BY DEF Events
    <2>2. \A g \in Own(m) : g[1] = m
      BY <2>1, OwnErrors
    <2>3. ToSet(failed'[m]) = Own(m) \cup UNION {ToSet(failed[e]) : e \in ToSet(follow[m])}
      BY <1>1, <1>5, Gathers
    <2>4. ASSUME NEW e \in ToSet(follow[m])
          PROVE  e \in Events /\ stage[e] = "done" /\ m < e /\ by[e][1] = m
      <3>1. e \in Msg /\ by[e][1] = m /\ stage[e] = "done"
        BY <1>5, <2>1, <2>4, ElementsOf DEF FollowUps, CollectFollowUps, FollowUpsOver, Types
      <3>2. e # 1 /\ m < e
        BY <2>1, <3>1, HandedOver
      <3> QED
        BY <3>1, <3>2 DEF Events, IsCommand
    <2>5. /\ stage[m] = "collecting" /\ by' = by /\ stage'[m] = "done"
          /\ \A e \in Msg \ {m} : stage'[e] = stage[e] /\ failed'[e] = failed[e]
      BY <1>5, <2>1 DEF CollectFollowUps, Types
    <2> QED
      BY <2>2, <2>3, <2>4, <2>5
  <1>6. CASE stage[y] = "done" /\ stage[z] = "done"
    <2>1. failed'[y] = failed[y] /\ failed'[z] = failed[z]
      BY <1>1, <1>6, EndedStays
    <2>2. y <= by[z][1] /\ stage[by[z][1]] = "done"
      BY <1>1, <1>6, <2>1 DEF SharedBy
    <2>3. by'[z] = by[z]
      <3>1. ASSUME NEW m \in Msg, NEW h \in Handler, Emit(m, h) PROVE by'[z] = by[z]
        BY <1>1, <1>6, <3>1 DEF Emit, Types
      <3> QED
        BY <3>1, CallMoves DEF CallMoved
    <2> QED
      BY <1>3, <2>2, <2>3, EndedStays
  \* y has just ended: z is one of its follow-ups, or shares f with one.
  <1>7. CASE CollectFollowUps(y)
    <2>1. stage[z] = "done" /\ failed'[z] = failed[z] /\ by' = by /\ stage'[y] = "done"
      BY <1>1, <1>2, <1>5, <1>7
    <2>2. z <= f[1] /\ f[1] \in Nat
      BY <1>1, <1>4, <2>1
    <2>3. PICK e \in ToSet(follow[y]) : f \in ToSet(failed[e])
      BY <1>1, <1>2, <1>5, <1>7, <2>2
    <2>4. e \in Events /\ e \in Nat /\ stage[e] = "done" /\ y < e /\ by[e][1] = y
      BY <1>1, <1>5, <1>7, <2>3, Numbers DEF Events
    <2>5. SharedBy(e, z) /\ SharedBy(z, e)
      BY <1>1, <2>4 DEF Accounts
    <2>6. CASE e = z
      BY <1>2, <2>1, <2>4, <2>6
    <2>7. CASE e < z
      <3>1. e <= by[z][1] /\ stage[by[z][1]] = "done"
        BY <2>1, <2>3, <2>4, <2>5, <2>7 DEF SharedBy
      <3> QED
        BY <1>2, <1>3, <2>1, <2>4, <3>1, EndedStays
    <2>8. CASE z < e
      BY <1>2, <2>1, <2>3, <2>4, <2>5, <2>8 DEF SharedBy
    <2> QED
      BY <1>2, <2>4, <2>6, <2>7, <2>8
  \* z has just ended: y has no failure of it, for z was not over yet.
  <1>8. CASE CollectFollowUps(z)
    <2>1. stage[y] = "done" /\ failed'[y] = failed[y] /\ stage[z] # "done"
      BY <1>1, <1>2, <1>5, <1>8
    <2>2. stage[f[1]] = "done"
      BY <1>1, <1>4, <2>1
    <2>3. PICK e \in ToSet(follow[z]) : f \in ToSet(failed[e])
      BY <1>1, <1>5, <1>8, <2>1, <2>2
    <2>4. e \in Events /\ e \in Nat /\ stage[e] = "done" /\ z < e /\ by[e][1] = z
      BY <1>1, <1>5, <1>8, <2>3, Numbers DEF Events
    <2>5. SharedBy(y, e)
      BY <1>1, <2>4 DEF Accounts
    <2> QED
      BY <1>2, <2>1, <2>3, <2>4, <2>5 DEF SharedBy
  \* A task that a BusDrainingError has just ended tells of nobody else.
  <1>9. ASSUME NEW m \in Events', NEW g \in ToSet(failed'[m]), JustDrained(m) PROVE g[1] = m
    BY <1>9 DEF JustDrained, Own
  <1>10. CASE JustDrained(y)
    <2>1. stage[z] = "done" /\ failed'[z] = failed[z] /\ f[1] = y
      BY <1>1, <1>2, <1>9, <1>10 DEF JustDrained
    <2> QED
      BY <1>1, <1>2, <1>4, <2>1
  <1>11. CASE JustDrained(z)
    <2>1. stage[y] = "done" /\ failed'[y] = failed[y] /\ f[1] = z /\ stage[z] # "done"
      BY <1>1, <1>2, <1>9, <1>11 DEF JustDrained
    <2> QED
      BY <1>1, <1>4, <2>1
  <1> HIDE DEF IInv
  <1> QED
    BY <1>6, <1>7, <1>8, <1>10, <1>11, EndsGathered

LEMMA AccountsNext ==
  ASSUME IInv, Accounts, Next
  PROVE  Accounts'
  <1>1. \A m \in Events' : AccountedOf(m)'
    BY AccountedKept
  <1>2. ~Sequential => \A m \in Events' : SumOf(m)'
    BY SumKept
  <1>3. ~Sequential => \A y, z \in Events' : SharedBy(y, z)'
    BY SharedKept
  <1> QED
    BY <1>1, <1>2, <1>3 DEF Accounts, Sequential

-----------------------------------------------------------------------------
(* What a publication raises.                                              *)

\* A call that waits keeps the bus open: no event of it has been refused.
Unrefused ==
  call = "waiting" => \A m \in Events : threw[m] = "drain" => mid[m] = "drain"

\* errors, with nothing lost, nothing added and nothing told twice; or one of them
\* that is raised alone.
FaithfulTo(errors, kind, failures) ==
  IF kind = "drain"
  THEN \E f \in errors : Alone(f) /\ failures = <<f>> /\ stage[f[1]] = "done"
  ELSE /\ Sequential \/ Whole
       /\ \A f \in errors : ~Alone(f)
       /\ IsInjective(failures) /\ ToSet(failures) = errors

EventErrors == {f \in Errors : f[1] \in Events}

LEMMA EventErrorsOwn ==
  ASSUME Unrefused, call = "waiting"
  PROVE  EventErrors = UNION {Own(m) : m \in Events}
  <1>1. \A m \in Events : threw[m] = "drain" => mid[m] = "drain"
    BY DEF Unrefused
  <1>2. ASSUME NEW f \in EventErrors PROVE \E m \in Events : f \in Own(m)
    <2>1. f \in Errors /\ f[1] \in Events
      BY DEF EventErrors
    <2> QED
      BY <2>1, OwnErrors
  <1>3. ASSUME NEW m \in Events, NEW f \in Own(m) PROVE f \in EventErrors
    <2>1. f \in Errors /\ f[1] = m
      BY <1>1, OwnErrors
    <2> QED
      BY <2>1 DEF EventErrors
  <1> QED
    BY <1>2, <1>3

\* The events whose failures a publication raises have come to their end.
LEMMA TakenEvents ==
  ASSUME IInv, NEW events \in Seq(Msg),
         IsCommand(1) => events = follow[1], ~IsCommand(1) => events = << 1 >>,
         Published(events)
  PROVE  /\ Taken(events) \in Seq(Msg) /\ IsInjective(Taken(events))
         /\ \A e \in ToSet(Taken(events)) : e \in Events /\ stage[e] = "done"
         /\ Sequential => ToSet(Taken(events)) = {m \in Events : stage[m] = "done"}
  <1> USE DEF IInv
  <1>1. CASE Sequential
    <2> DEFINE D == {m \in Msg : ~IsCommand(m) /\ stage[m] = "done"}
    <2>1. Taken(events) = InOrder(D) /\ D \in SUBSET Msg
      BY <1>1 DEF Taken
    <2>2. D = {m \in Events : stage[m] = "done"}
      BY DEF Events
    <2> HIDE DEF D
    <2> QED
      BY <2>1, <2>2, InOrders
  <1>2. CASE ~Sequential
    <2>1. Taken(events) = events /\ \A e \in ToSet(events) : stage[e] = "done"
      BY <1>2 DEF Taken, Published
    <2>2. CASE IsCommand(1)
      <3>1. IsInjective(events) /\ ToSet(events) \subseteq Msg
        BY <2>2, Numbers, ElementsOf DEF FollowUps
      <3>2. \A e \in ToSet(events) : by[e][1] = 1
        BY <2>2, <3>1, Numbers DEF FollowUps
      <3>3. \A e \in ToSet(events) : e # 1
        BY <3>1, <3>2, Numbers, HandedOver
      <3> QED
        BY <1>2, <2>1, <3>1, <3>3 DEF Events, IsCommand
    <2>3. CASE ~IsCommand(1)
      <3>1. IsInjective(events) /\ \A e \in ToSet(events) : e = 1
        BY <2>3 DEF IsInjective, ToSet
      <3> QED
        BY <1>2, <2>1, <2>3, <3>1, Numbers DEF Events
    <2> QED
      BY <2>2, <2>3
  <1> QED
    BY <1>1, <1>2

\* Each failure it raises is an error of an event that has come to its end.
LEMMA TakenFailures ==
  ASSUME IInv, Accounts, NEW events \in Seq(Msg),
         IsCommand(1) => events = follow[1], ~IsCommand(1) => events = << 1 >>,
         Published(events), NEW f \in ToSet(FailuresOf(Taken(events)))
  PROVE  f[1] \in Events /\ stage[f[1]] = "done" /\ f \in Own(f[1])
  <1>1. Taken(events) \in Seq(Msg) /\ Types
    BY TakenEvents DEF IInv
  <1>2. PICK e \in ToSet(Taken(events)) : f \in ToSet(failed[e])
    BY <1>1, FailuresTyped
  <1>3. e \in Events /\ stage[e] = "done"
    BY <1>2, TakenEvents
  <1>4. CASE Sequential
    <2>1. f \in Own(e)
      BY <1>2, <1>3, <1>4 DEF Accounts, AccountedOf
    <2> QED
      BY <1>3, <2>1, OwnErrors
  <1>5. CASE ~Sequential
    BY <1>2, <1>3, <1>5 DEF Accounts, SumOf
  <1> QED
    BY <1>4, <1>5

\* In concurrent mode the errors of an event have climbed to one of the publication, if
\* the tasks of smaller numbers have waited for their follow-ups: the event of the
\* smallest number that has such an error was emitted by nobody else.
LEMMA Climbs ==
  ASSUME IInv, Accounts, ~Sequential, NEW events \in Seq(Msg),
         IsCommand(1) => events = follow[1], ~IsCommand(1) => events = << 1 >>,
         NEW m \in Events, stage[m] = "done", NEW f \in Own(m),
         \A y \in Events : y < m => ~Drained(y) /\ (stage[y] = "done" \/ Fresh(y))
  PROVE  \E e \in ToSet(events) : f \in ToSet(failed[e])
  <1> USE DEF IInv
  <1> DEFINE D == {y \in Events : stage[y] = "done" /\ f \in ToSet(failed[y])}
  <1>1. m \in D
    BY DEF Accounts, SumOf
  <1>2. D \subseteq Nat /\ m \in Nat
    BY Numbers DEF Events
  <1>3. PICK y \in D : \A x \in D : y <= x
    <2> HIDE DEF D
    <2> QED
      BY <1>1, <1>2, Least
  <1>4. /\ y \in Events /\ y \in Msg /\ y \in Nat /\ stage[y] = "done" /\ f \in ToSet(failed[y])
        /\ y <= m
    BY <1>1, <1>2, <1>3 DEF Events
  <1>5. ASSUME y \notin ToSet(events) PROVE FALSE
    <2> DEFINE p == by[y][1]
    <2>1. y # 1
      <3>1. ~IsCommand(1) => 1 \in ToSet(events)
        BY DEF ToSet
      <3> QED
        BY <1>4, <1>5, <3>1 DEF Events
    <2>2. p \in Msg /\ p < y
      BY <1>4, <2>1 DEF Numbering
    <2>3. y \in ToSet(follow[p])
      BY <1>4, <2>2, HandedOver
    <2>4. p \in Events /\ p \in Nat
      BY <1>5, <2>2, <2>3, Numbers DEF Events, IsCommand
    <2>5. ~Fresh(p)
      BY <2>2, <2>3 DEF Handlers, ToSet
    <2> HIDE DEF p
    <2>6. p < m
      BY <1>2, <1>4, <2>2, <2>4
    <2>7. stage[p] = "done" /\ ~Drained(p) /\ SumOf(p)
      BY <2>4, <2>5, <2>6 DEF Accounts
    <2>8. p \in D
      BY <1>4, <2>3, <2>4, <2>7 DEF SumOf
    <2> QED
      BY <1>3, <1>4, <2>2, <2>4, <2>8
  <1> QED
    BY <1>4, <1>5

\* A publication that has come to its end has waited for all events.
LEMMA EventsOver ==
  ASSUME IInv, call = "waiting", Sequential \/ Whole, NEW events \in Seq(Msg),
         IsCommand(1) => events = follow[1], ~IsCommand(1) => events = << 1 >>,
         Published(events)
  PROVE  \A m \in Events : stage[m] = "done" \/ Fresh(m)
  <1> USE DEF IInv
  <1> SUFFICES ASSUME NEW m \in Events PROVE stage[m] = "done" \/ Fresh(m)
    OBVIOUS
  <1>1. m \in Msg /\ ~IsCommand(m) /\ stage[1] # "unused" /\ stage[m] \in Stage
    BY DEF Events, Numbering, Types
  <1>2. stage[m] \notin {"cancelled", "following"}
    BY <1>1 DEF Calls, Handlers
  <1>3. CASE Sequential
    <2>1. pending = <<>> /\ ~Running(m)
      BY <1>1, <1>3 DEF Published
    <2>2. stage[m] # "queued"
      BY <1>1, <1>3, <2>1 DEF Queue, ToSet
    <2>3. stage[m] # "collecting"
      BY <1>1, <1>3 DEF Handlers
    <2> QED
      BY <1>1, <1>2, <2>1, <2>2, <2>3 DEF Running, Stage, Fresh
  <1>4. CASE ~Sequential
    <2>1. \A e \in ToSet(events) : stage[e] = "done"
      BY <1>4 DEF Published
    <2>2. ~IsCommand(1) => stage[1] = "done"
      BY <2>1 DEF ToSet
    <2>3. \A e \in ToSet(follow[1]) : stage[e] = "done"
      <3>1. CASE IsCommand(1)
        BY <2>1, <3>1
      <3>2. CASE ~IsCommand(1)
        BY <1>4, <2>2, <3>2, Numbers DEF Tree
      <3> QED
        BY <3>1, <3>2
    <2>4. m # 1 => ~Active(m)
      BY <1>1, <1>4, <2>3, TreeOver
    <2>5. m = 1 => stage[m] = "done"
      BY <1>1, <2>2
    <2> QED
      BY <1>1, <1>2, <2>4, <2>5 DEF Active, Stage, Fresh
  <1> QED
    BY <1>3, <1>4

\* A BusDrainingError of the middleware is never lost: the tasks that wait for the first
\* event that had one pass it on.
LEMMA FirstDrain ==
  ASSUME IInv, Accounts, ~Sequential, call = "waiting", NEW events \in Seq(Msg),
         IsCommand(1) => events = follow[1], ~IsCommand(1) => events = << 1 >>,
         Published(events), NEW m \in Msg, \A y \in Msg : Drained(y) => m <= y
  PROVE  \A y \in Events : y < m => ~Drained(y) /\ (stage[y] = "done" \/ Fresh(y))
  <1> USE DEF IInv
  <1>1. \A y \in Events : y \in Msg /\ y \in Nat /\ (y < m => ~Drained(y))
    BY Numbers DEF Events
  <1> DEFINE B == {y \in Events : y < m /\ stage[y] # "done" /\ ~Fresh(y)}
  <1>2. ASSUME B # {} PROVE FALSE
    <2>1. B \in SUBSET Nat
      BY <1>1
    <2>2. PICK y \in B : \A k \in B : y <= k
      <3> HIDE DEF B
      <3> QED
        BY <1>2, <2>1, Least
    <2>3. y \in Events /\ y \in Msg /\ y \in Nat /\ y < m /\ stage[y] # "done" /\ ~Fresh(y)
      BY <1>1, <2>2
    <2>4. \A e \in ToSet(events) : stage[e] = "done"
      BY DEF Published
    <2> DEFINE p == by[y][1]
    <2>5. y # 1
      <3>1. ~IsCommand(1) => 1 \in ToSet(events)
        BY DEF ToSet
      <3> QED
        BY <2>3, <2>4, <3>1 DEF Events
    <2>6. p \in Msg /\ p < y /\ p \in Nat
      BY <2>3, <2>5, Numbers DEF Numbering, Fresh
    <2>7. y \in ToSet(follow[p])
      BY <2>3, <2>6, HandedOver DEF Fresh
    <2>8. p \in Events
      BY <2>3, <2>4, <2>6, <2>7 DEF Events, IsCommand
    <2>9. ~Fresh(p)
      BY <2>6, <2>7 DEF Handlers, ToSet
    <2> HIDE DEF p
    <2>10. p < m /\ p \notin B
      BY <2>2, <2>3, <2>6, Numbers
    <2>11. stage[p] = "done" /\ ~Drained(p) /\ SumOf(p)
      BY <1>1, <2>8, <2>9, <2>10 DEF Accounts
    <2> QED
      BY <2>3, <2>7, <2>11 DEF SumOf
  <1> QED
    BY <1>1, <1>2

LEMMA DrainsFound ==
  ASSUME IInv, Accounts, Unrefused, ~Sequential, call = "waiting", NEW events \in Seq(Msg),
         IsCommand(1) => events = follow[1], ~IsCommand(1) => events = << 1 >>,
         Published(events), ~Whole
  PROVE  Publication(events).kind = "drain"
  <1> DEFINE D == {m \in Msg : Drained(m)}
  <1>1. D \in SUBSET Nat /\ D # {}
    BY Numbers DEF Whole
  <1>2. PICK m \in D : \A y \in D : m <= y
    <2> HIDE DEF D
    <2> QED
      BY <1>1, Least
  <1>3. m \in Msg /\ m \in Events /\ Drained(m) /\ stage[m] = "done" /\ threw[m] = "drain"
    BY <1>2 DEF Drained, Events, IInv, Handlers
  <1>4. \A y \in Events : y < m => ~Drained(y) /\ (stage[y] = "done" \/ Fresh(y))
    <2>1. \A y \in Msg : Drained(y) => m <= y
      BY <1>2
    <2> HIDE DEF D
    <2> QED
      BY <1>3, <2>1, FirstDrain
  <1> DEFINE f == <<m, 0>>
  <1>5. f \in Own(m) /\ f[1] = m /\ f[2] = 0
    BY <1>3 DEF Own
  <1>6. Alone(f)
    <2>1. mid[m] = "drain"
      BY <1>3 DEF Unrefused
    <2> QED
      BY <1>5, <2>1 DEF Alone, Draining
  <1> HIDE DEF D, f
  <1>7. PICK e \in ToSet(events) : f \in ToSet(failed[e])
    BY <1>3, <1>4, <1>5, Climbs
  <1>8. Taken(events) = events /\ Types
    BY DEF Taken, IInv
  <1>9. f \in ToSet(FailuresOf(Taken(events)))
    BY <1>7, <1>8, FailuresTyped
  <1> QED
    BY <1>6, <1>9 DEF Publication

\* A publication that raises no BusDrainingError raises the errors of all events.
LEMMA PublicationAccounts ==
  ASSUME IInv, Accounts, call = "waiting", Sequential \/ Whole, NEW events \in Seq(Msg),
         IsCommand(1) => events = follow[1], ~IsCommand(1) => events = << 1 >>,
         Published(events)
  PROVE  /\ IsInjective(FailuresOf(Taken(events)))
         /\ ToSet(FailuresOf(Taken(events))) = UNION {Own(m) : m \in Events}
  <1> USE DEF IInv
  <1> DEFINE taken == Taken(events)
  <1>1. \A m \in Events : stage[m] = "done" \/ Fresh(m)
    BY EventsOver
  <1>2. /\ taken \in Seq(Msg) /\ IsInjective(taken)
        /\ \A e \in ToSet(taken) : e \in Events /\ stage[e] = "done"
        /\ Sequential => ToSet(taken) = {m \in Events : stage[m] = "done"}
    BY TakenEvents
  <1>3. \A m \in Events : m \in Msg /\ m \in Nat /\ AccountedOf(m) /\ (Fresh(m) => Own(m) = {})
    BY NoErrorYet, Numbers DEF Accounts, Events
  <1>4. \A f \in ToSet(FailuresOf(taken)) : f[1] \in Events /\ f \in Own(f[1])
    BY TakenFailures
  <1> HIDE DEF taken
  <1>5. ToSet(FailuresOf(taken)) = UNION {ToSet(failed[m]) : m \in ToSet(taken)}
    BY <1>2, FailuresTyped
  <1>6. ASSUME NEW m \in Events, NEW f \in Own(m) PROVE f \in ToSet(FailuresOf(taken))
    <2>1. stage[m] = "done"
      BY <1>1, <1>3, <1>6
    <2>2. CASE Sequential
      <3>1. m \in ToSet(taken) /\ ToSet(failed[m]) = Own(m)
        BY <1>2, <1>3, <2>1, <2>2 DEF AccountedOf
      <3> QED
        BY <1>5, <1>6, <3>1
    <2>3. CASE ~Sequential
      <3>1. \A y \in Events : y < m => ~Drained(y) /\ (stage[y] = "done" \/ Fresh(y))
        BY <1>1, <1>3, <2>3 DEF Whole
      <3>2. PICK e \in ToSet(events) : f \in ToSet(failed[e])
        BY <1>6, <2>1, <2>3, <3>1, Climbs
      <3>3. taken = events
        BY <2>3 DEF taken, Taken
      <3> QED
        BY <1>5, <3>2, <3>3
    <2> QED
      BY <2>2, <2>3
  <1>7. ASSUME NEW d \in ToSet(taken), NEW e \in ToSet(taken), d < e
        PROVE  ToSet(failed[d]) \cap ToSet(failed[e]) = {}
    <2>1. d \in Events /\ e \in Events /\ d \in Nat /\ e \in Nat /\ stage[d] = "done" /\ stage[e] = "done"
      BY <1>2, <1>3
    <2>2. CASE Sequential
      <3> SUFFICES ASSUME NEW f \in Own(d), f \in Own(e) PROVE FALSE
        BY <1>3, <2>1, <2>2 DEF AccountedOf
      <3> QED
        BY <1>7, <2>1, OwnErrors
    <2>3. CASE ~Sequential
      <3>1. SharedBy(d, e) /\ taken = events
        BY <2>1, <2>3 DEF Accounts, Taken, taken
      <3>2. CASE IsCommand(1)
        <4>1. by[e][1] = 1 /\ d # 1 /\ d \in Nat \ {0}
          BY <1>3, <2>1, <3>1, <3>2, Numbers DEF FollowUps, Events
        <4> QED
          BY <1>7, <2>1, <3>1, <4>1, <3>2, Numbers DEF SharedBy
      <3>3. CASE ~IsCommand(1)
        <4>1. \A x \in ToSet(events) : x = 1
          BY <3>3 DEF ToSet
        <4> QED
          BY <1>7, <2>1, <3>1, <4>1
      <3> QED
        BY <3>2, <3>3
    <2> QED
      BY <2>2, <2>3
  <1>8. \A d, e \in ToSet(taken) : d # e => ToSet(failed[d]) \cap ToSet(failed[e]) = {}
    <2> TAKE d, e \in ToSet(taken)
    <2> HAVE d # e
    <2>1. d \in Nat /\ e \in Nat
      BY <1>2, <1>3
    <2>2. d < e \/ e < d
      BY <2>1
    <2> QED
      BY <1>7, <2>2
  <1>9. \A e \in ToSet(taken) : IsInjective(failed[e])
    BY <1>2, <1>3 DEF AccountedOf
  <1>10. IsInjective(FailuresOf(taken))
    BY <1>2, <1>8, <1>9, FailuresTyped
  <1>11. ToSet(FailuresOf(taken)) = UNION {Own(m) : m \in Events}
    BY <1>4, <1>6
  <1> QED
    BY <1>10, <1>11 DEF taken

LEMMA PublicationFaithful ==
  ASSUME IInv, Accounts, Unrefused, call = "waiting", NEW events \in Seq(Msg),
         IsCommand(1) => events = follow[1], ~IsCommand(1) => events = << 1 >>,
         Published(events)
  PROVE  FaithfulTo(EventErrors, Publication(events).kind, Publication(events).failures)
  <1> DEFINE failures == FailuresOf(Taken(events))
  <1>1. EventErrors = UNION {Own(m) : m \in Events}
    BY EventErrorsOwn
  <1>2. \A f \in ToSet(failures) : f \in EventErrors /\ stage[f[1]] = "done"
    BY <1>1, TakenFailures
  <1>3. CASE Publication(events).kind = "drain"
    <2>1. PICK f \in ToSet(failures) : Alone(f) /\ Publication(events).failures = <<f>>
      BY <1>3, PublicationTyped DEF IInv
    <2>2. f \in EventErrors /\ stage[f[1]] = "done"
      BY <1>2
    <2> QED
      BY <1>3, <2>1, <2>2 DEF FaithfulTo
  <1>4. CASE Publication(events).kind # "drain"
    <2>1. Sequential \/ Whole
      BY <1>4, DrainsFound
    <2>2. IsInjective(failures) /\ ToSet(failures) = EventErrors
      BY <1>1, <2>1, PublicationAccounts
    <2>3. Publication(events).failures = failures /\ \A f \in ToSet(failures) : ~Alone(f)
      BY <1>4 DEF Publication
    <2> QED
      BY <1>4, <2>1, <2>2, <2>3 DEF FaithfulTo
  <1> QED
    BY <1>3, <1>4

-----------------------------------------------------------------------------
(* What the caller is told.                                                *)

\* The errors of a dispatch that has ended stay; once nothing of the tree is active,
\* there are no others.
LEMMA ErrorsLast ==
  ASSUME IInv, Next, call # "none"
  PROVE  /\ \A f \in Errors : stage[f[1]] = "done" =>
              f \in Errors' /\ stage'[f[1]] = "done" /\ (Alone(f) => Alone(f)')
         /\ (\A m \in Msg : ~Active(m)) =>
              /\ \A m \in Msg : Kept(m)
              /\ Errors' = Errors
              /\ Whole => Whole'
              /\ \A f \in Errors : Alone(f)' => Alone(f)
  <1> USE DEF IInv
  <1>1. op' = op
    BY CallMoves DEF CallMoved
  <1>2. \A f \in Errors : f[1] \in Msg
    BY DEF Errors
  <1>3. ASSUME NEW f \in Errors, Kept(f[1]) PROVE f \in Errors' /\ (Alone(f)' <=> Alone(f))
    <2>1. handling'[f[1]] = handling[f[1]] /\ mid'[f[1]] = mid[f[1]]
      BY <1>3 DEF Kept
    <2>2. f \in Errors'
      BY <2>1 DEF Errors, Fails
    <2>3. Alone(f)' <=> Alone(f)
      BY <1>1, <2>1 DEF Alone, Draining, IsCommand, Sequential
    <2> QED
      BY <2>2, <2>3
  <1>4. ASSUME NEW f \in Errors, stage[f[1]] = "done"
        PROVE  f \in Errors' /\ stage'[f[1]] = "done" /\ (Alone(f) => Alone(f)')
    <2>1. Kept(f[1]) /\ stage'[f[1]] = "done"
      BY <1>2, <1>4, ErrorsStay
    <2> QED
      BY <1>3, <1>4, <2>1
  <1>5. ASSUME \A m \in Msg : ~Active(m), NEW m \in Msg PROVE Kept(m)
    <2>1. stage[m] \notin {"queued", "started", "handling", "following", "collecting"}
      BY <1>5 DEF Active
    <2>2. ~Finishing(m)
      BY <2>1 DEF Finishing, Handled
    <2>3. ~ (m = 1 /\ CommandHandled)
      BY <2>1 DEF CommandHandled
    <2>4. ASSUME NEW h \in Handler, NEW r \in HandlerEnds, HandlerEnd(m, h, r) PROVE FALSE
      BY <2>1, <2>4 DEF HandlerEnd, InHandler
    <2>5. ~Enter(m) /\ ~Collect(m) /\ ~Refuse(m) /\ ~CollectFollowUps(m)
      BY <2>1 DEF Enter, Collect, Refuse, Turn, CollectFollowUps
    <2> HIDE DEF IInv
    <2> QED
      BY <2>2, <2>3, <2>4, <2>5, OwnSteps DEF OwnStep
  <1>6. ASSUME \A m \in Msg : Kept(m)
        PROVE  /\ Errors' = Errors
               /\ Whole => Whole'
               /\ \A f \in Errors : Alone(f)' => Alone(f)
    <2>1. \A m \in Msg : handling'[m] = handling[m] /\ mid'[m] = mid[m] /\ threw'[m] = threw[m]
      BY <1>6 DEF Kept
    <2>2. Errors' = Errors
      BY <2>1 DEF Errors, Fails
    <2>3. Whole => Whole'
      BY <1>1, <2>1 DEF Whole, Drained, IsCommand
    <2> QED
      BY <1>2, <1>3, <1>6, <2>2, <2>3
  <1> HIDE DEF IInv
  <1> QED
    BY <1>4, <1>5, <1>6

\* What the caller is told is decided when the call returns.
LEMMA ReportStays ==
  ASSUME Next, call = "returned"
  PROVE  report' = report /\ call' = call /\ op' = op
  <1>1. ~Return /\ ~Cancel
    BY DEF Return, Cancel
  <1>2. ASSUME NEW o \in {"send", "publish"}, Call(o) PROVE FALSE
    BY <1>2 DEF Call
  <1>3. SUFFICES ASSUME UNCHANGED callVars PROVE report' = report /\ call' = call /\ op' = op
    <2>1. ASSUME NEW m \in Msg,
                 Start(m) \/ Refuse(m) \/ Enter(m) \/ Collect(m) \/ CollectFollowUps(m)
          PROVE  UNCHANGED callVars
      BY <2>1 DEF Start, Refuse, Enter, Collect, CollectFollowUps
    <2>2. ASSUME NEW m \in Msg, NEW b \in Before, Deflect(m, b) PROVE UNCHANGED callVars
      BY <2>2 DEF Deflect
    <2>3. ASSUME NEW m \in Msg, NEW a \in After, Complete(m, a) PROVE UNCHANGED callVars
      BY <2>3 DEF Complete
    <2>4. ASSUME NEW m \in Msg, NEW h \in Handler, NEW r \in HandlerEnds, HandlerEnd(m, h, r)
          PROVE  UNCHANGED callVars
      BY <2>4 DEF HandlerEnd
    <2>5. ASSUME NEW m \in Msg, NEW h \in Handler, Emit(m, h) PROVE UNCHANGED callVars
      BY <2>5 DEF Emit
    <2>6. CommandHandled \/ BeginClose \/ WaitDrained \/ FinishClose => UNCHANGED callVars
      BY DEF CommandHandled, BeginClose, WaitDrained, FinishClose
    <2> QED
      BY <1>1, <1>2, <2>1, <2>2, <2>3, <2>4, <2>5, <2>6 DEF Next, Step
  <1> QED
    BY <1>3 DEF callVars

Faithful(kind, failures) == FaithfulTo(Errors, kind, failures)

\* The follow-ups of a command are published only if no error got out of its handler.
Swallowed == stage[1] = "following" => ~Fails(1, 1)

\* A command's dispatch has ended with the errors of the tree, if its middleware let
\* them through.
CommandTold ==
  call = "waiting" /\ IsCommand(1) /\ stage[1] = "done" /\ mid[1] = "pass" =>
    Faithful(threw[1], failed[1])

\* The same of the call.
Reported ==
  call = "returned" =>
    /\ IsCommand(1) => stage[1] = "done"
    /\ (IsCommand(1) => mid[1] = "pass") => Faithful(report.kind, report.failures)

LEMMA SwallowedNext ==
  ASSUME IInv, Next, Swallowed
  PROVE  Swallowed'
  <1> USE DEF IInv
  <1> SUFFICES ASSUME stage'[1] = "following" PROVE ~Fails(1, 1)'
    BY DEF Swallowed
  <1>1. 1 \in Msg
    BY Numbers
  <1>2. CASE Kept(1)
    BY <1>2 DEF Kept, Swallowed, Fails
  <1>3. ~Enter(1) /\ ~Refuse(1) /\ ~CollectFollowUps(1)
    BY <1>1 DEF Enter, Refuse, CollectFollowUps, Types
  <1>4. ASSUME NEW h \in Handler, NEW r \in HandlerEnds, HandlerEnd(1, h, r) PROVE FALSE
    BY <1>4 DEF HandlerEnd, InHandler
  <1>5. ~Collect(1)
    BY <1>1 DEF Collect, Types
  <1>6. ~Finishing(1)
    BY <1>1, Finishes
  <1>7. CommandHandled => ~Fails(1, 1)'
    BY DEF CommandHandled, Fails
  <1> HIDE DEF IInv
  <1> QED
    BY <1>1, <1>2, <1>3, <1>4, <1>5, <1>6, <1>7, OwnSteps DEF OwnStep

LEMMA UnrefusedNext ==
  ASSUME IInv, Next, Unrefused
  PROVE  Unrefused'
  <1> USE DEF IInv
  <1> SUFFICES ASSUME call' = "waiting", NEW m \in Events', threw'[m] = "drain"
               PROVE  mid'[m] = "drain"
    BY DEF Unrefused
  <1>1. m \in Msg /\ ~Fresh(m)'
    <2>1. IInv'
      BY InvNext
    <2> QED
      BY <2>1 DEF Events, Handlers, Fresh
  <1>2. m \in Events /\ ~IsCommand(m)
    BY <1>1, SameKind DEF Events
  <1>3. call = "waiting"
    <2>1. stage[1] # "unused"
      <3>1. stage[m] # "unused"
        BY <1>1, Moves DEF Moved, Fresh
      <3>2. m = 1 \/ 1 < m
        BY <1>1, Numbers
      <3> QED
        BY <1>1, <3>1, <3>2, Numbers DEF Numbering
    <2> QED
      BY <2>1, CallMoves DEF CallMoved, Numbering
  <1>4. CASE threw'[m] = threw[m] /\ mid'[m] = mid[m]
    BY <1>2, <1>3, <1>4 DEF Unrefused
  <1>5. CASE Kept(m)
    BY <1>4, <1>5 DEF Kept
  <1>6. Enter(m) \/ Collect(m) \/ (m = 1 /\ CommandHandled) => threw' = threw /\ mid' = mid
    BY DEF Enter, Collect, CommandHandled
  <1>7. ASSUME NEW h \in Handler, NEW r \in HandlerEnds, HandlerEnd(m, h, r)
        PROVE  threw' = threw /\ mid' = mid
    BY <1>7 DEF HandlerEnd
  <1>8. ~Refuse(m)
    BY <1>3 DEF Refuse, Closing
  <1>9. ~CollectFollowUps(m)
    BY <1>1 DEF CollectFollowUps, Types
  <1>10. ASSUME NEW b \in Before, Deflect(m, b) PROVE mid'[m] = "drain"
    <2>1. b \in {"skip", "raise", "drain"} /\ mid' = [mid EXCEPT ![m] = b]
      BY <1>10, TreeAssumption DEF Deflect
    <2>2. b # "drain" => threw'[m] \in {"no", "error"}
      BY <1>1, <1>10, <2>1 DEF Deflect, Finish, Types
    <2> QED
      BY <1>1, <2>1, <2>2 DEF Types
  <1>11. ASSUME NEW a \in After, Complete(m, a) PROVE mid'[m] = "drain"
    <2>1. a \in {"pass", "swallow", "raise", "drain"} /\ mid' = [mid EXCEPT ![m] = a]
      BY <1>11, TreeAssumption DEF Complete
    <2>2. Raised(m).kind \in {"no", "failures"}
      BY <1>2 DEF Raised
    <2>3. a # "drain" => \E kind \in {"no", "failures", "error"} : threw' = [threw EXCEPT ![m] = kind]
      <3>1. CASE a = "pass"
        BY <1>11, <2>2, <3>1 DEF Complete, Finish
      <3>2. CASE a = "swallow"
        BY <1>11, <3>2 DEF Complete, Finish
      <3>3. CASE a = "raise"
        BY <1>11, <3>3 DEF Complete, Finish
      <3> QED
        BY <2>1, <3>1, <3>2, <3>3
    <2> QED
      BY <1>1, <2>1, <2>3 DEF Types
  <1> HIDE DEF IInv
  <1> QED
    BY <1>1, <1>4, <1>5, <1>6, <1>7, <1>8, <1>9, <1>10, <1>11, OwnSteps DEF OwnStep, Ending

\* No follow-up of a command is dispatched whose handler failed.
LEMMA CommandAlone ==
  ASSUME IInv, IsCommand(1), Fails(1, 1), NEW m \in Msg \ {1}
  PROVE  Fresh(m)
  <1> USE DEF IInv
  <1> DEFINE S == {e \in Msg \ {1} : ~Fresh(e)}
  <1> SUFFICES ASSUME S # {} PROVE FALSE
    OBVIOUS
  <1>1. S \in SUBSET Nat
    BY Numbers
  <1>2. PICK e \in S : \A k \in S : e <= k
    BY <1>1, Least
  <1> DEFINE p == by[e][1]
  <1>3. p \in Msg /\ p < e /\ p \in Nat /\ e \in Nat
    BY <1>2, Numbers DEF Numbering, Fresh
  <1>4. e \in ToSet(follow[p])
    BY <1>2, <1>3, HandedOver DEF Fresh
  <1>5. CASE p = 1
    <2>1. by[e][2] \in Handler /\ Collected(1, by[e][2]) /\ ~Fails(1, by[e][2])
      BY <1>2, <1>3, <1>4, <1>5, HandedOver DEF FollowUps
    <2> QED
      BY <2>1 DEF Handlers, Collected
  <1>6. CASE p # 1
    <2>1. Fresh(p)
      BY <1>2, <1>3, <1>6
    <2> QED
      BY <1>3, <1>4, <2>1 DEF Handlers, ToSet
  <1> QED
    BY <1>5, <1>6

\* A command whose middleware lets the error of its handler through, or the outcome of
\* the publication of its follow-ups.
LEMMA CommandPasses ==
  ASSUME IInv, Accounts, Unrefused, Swallowed, IsCommand(1), call = "waiting",
         Complete(1, "pass")
  PROVE  Faithful(threw[1], failed[1])'
  <1> USE DEF IInv
  <1>1. /\ 1 \in Msg /\ 1 \in Handler /\ 0 \notin Handler /\ Handler \subseteq Nat \ {0}
        /\ follow[1] \in Seq(Msg) /\ failed \in [Msg -> Seq(Failure)] /\ threw \in [Msg -> Kind]
        /\ mid \in [Msg -> Before \cup After \cup {"pass"}]
    BY Numbers DEF Types
  <1>2. /\ Handled(1) /\ Finish(1, Raised(1).kind, Raised(1).failures)
        /\ mid' = [mid EXCEPT ![1] = "pass"] /\ handling' = handling /\ op' = op
    BY DEF Complete, callVars
  <1>3. /\ threw' = [threw EXCEPT ![1] = Raised(1).kind] /\ failed'[1] = Raised(1).failures
        /\ stage' = [stage EXCEPT ![1] = "done"]
    BY <1>1, <1>2 DEF Finish
  <1>4. threw'[1] = Raised(1).kind /\ stage'[1] = "done" /\ mid'[1] = "pass"
    BY <1>1, <1>2, <1>3 DEF Types
  <1>5. \A m \in Msg \ {1} : mid'[m] = mid[m] /\ threw'[m] = threw[m] /\ stage'[m] = stage[m]
    BY <1>2, <1>3 DEF Types
  <1>6. (\A m \in Msg : IsCommand(m)' <=> IsCommand(m)) /\ IsCommand(1)'
    BY <1>2 DEF IsCommand
  <1>7. Whole' <=> Whole
    <2>1. \A m \in Msg : Drained(m)' <=> Drained(m)
      BY <1>5, <1>6 DEF Drained
    <2> QED
      BY <2>1 DEF Whole
  <1>8. Events = Msg \ {1}
    BY DEF Events, IsCommand
  \* The errors of the events are there already.
  <1>9. \A f \in Errors' : f[1] \in Events => f \in Errors /\ (Alone(f)' <=> Alone(f))
    <2> TAKE f \in Errors'
    <2> HAVE f[1] \in Events
    <2>1. f[1] \in Msg \ {1} /\ mid'[f[1]] = mid[f[1]]
      BY <1>5, <1>8
    <2>2. f \in Errors
      <3>1. CASE f \in Msg \X Handler /\ Fails(f[1], f[2])' /\ mid'[f[1]] = "pass"
        BY <1>2, <2>1, <3>1 DEF Errors, Fails
      <3>2. CASE \E m \in Msg : mid'[m] \in {"raise", "drain"} /\ f = <<m, 0>>
        BY <2>1, <3>2 DEF Errors
      <3> QED
        BY <3>1, <3>2 DEF Errors
    <2> QED
      BY <1>2, <1>6, <2>1, <2>2 DEF Alone, Draining, Sequential
  <1>10. \A f \in Errors : f[1] \in Events => f \in Errors' /\ (Alone(f)' <=> Alone(f))
    <2> TAKE f \in Errors
    <2> HAVE f[1] \in Events
    <2>1. f[1] \in Msg \ {1} /\ mid'[f[1]] = mid[f[1]]
      BY <1>5, <1>8
    <2>2. f \in Errors'
      <3>1. CASE f \in Msg \X Handler /\ Fails(f[1], f[2]) /\ mid[f[1]] = "pass"
        BY <1>2, <2>1, <3>1 DEF Errors, Fails
      <3>2. CASE \E m \in Msg : mid[m] \in {"raise", "drain"} /\ f = <<m, 0>>
        BY <2>1, <3>2 DEF Errors
      <3> QED
        BY <3>1, <3>2 DEF Errors
    <2> QED
      BY <1>2, <1>6, <2>1, <2>2 DEF Alone, Draining, Sequential
  \* Those of the command itself.
  <1>11. \A f \in Errors' : f[1] \notin Events => f = << 1, 1 >> /\ Fails(1, 1)
    <2> TAKE f \in Errors'
    <2> HAVE f[1] \notin Events
    <2>1. CASE f \in Msg \X Handler /\ Fails(f[1], f[2])' /\ mid'[f[1]] = "pass"
      <3>1. f = <<f[1], f[2]>> /\ f[1] = 1 /\ f[2] \in Handler /\ Fails(1, f[2])
        BY <1>2, <1>8, <2>1 DEF Fails
      <3>2. f[2] = 1
        BY <3>1 DEF Handlers, Fails
      <3> QED
        BY <3>1, <3>2
    <2>2. CASE \E m \in Msg : mid'[m] \in {"raise", "drain"} /\ f = <<m, 0>>
      BY <1>4, <1>8, <2>2
    <2> QED
      BY <2>1, <2>2 DEF Errors
  <1>12. CASE stage[1] = "handling" /\ Fails(1, 1)
    <2> DEFINE f == << 1, 1 >>
    <2>1. \A m \in Msg \ {1} : Fresh(m)
      BY <1>12, CommandAlone
    <2>2. \A m \in Msg \ {1} : threw[m] = "no" /\ Own(m) = {}
      BY <2>1, NoErrorYet DEF Handlers, Fresh
    <2>3. Errors' \subseteq {f}
      <3>1. ASSUME NEW g \in Errors', g[1] \in Events PROVE FALSE
        <4>1. g \in Errors /\ g[1] \in Msg \ {1}
          BY <1>8, <1>9, <3>1
        <4>2. g \in Own(g[1])
          BY <3>1, <4>1, OwnErrors
        <4> QED
          BY <2>2, <4>1, <4>2
      <3> QED
        BY <1>11, <3>1
    <2>4. f \in Errors'
      <3>1. f \in Msg \X Handler /\ f[1] = 1 /\ f[2] = 1
        BY <1>1
      <3>2. Fails(f[1], f[2])' /\ mid'[f[1]] = "pass"
        BY <1>2, <1>4, <1>12, <3>1 DEF Fails
      <3> QED
        BY <3>1, <3>2 DEF Errors
    <2>5. Raised(1) = [kind |-> IF handling[1][1] = "drain" THEN "drain" ELSE "error",
                       failures |-> << f >>]
      BY <1>12 DEF Raised
    <2>6. Alone(f)' <=> handling[1][1] = "drain"
      BY <1>2, <1>6 DEF Alone, Draining
    <2>7. Whole'
      BY <1>7, <1>8, <2>2 DEF Whole, Drained, Events
    <2>8. IsInjective(<< f >>) /\ ToSet(<< f >>) = {f}
      BY DEF IsInjective, ToSet
    <2>9. /\ threw'[1] = IF handling[1][1] = "drain" THEN "drain" ELSE "error"
          /\ failed'[1] = << f >>
      BY <1>3, <1>4, <2>5
    <2>10. f[1] = 1
      OBVIOUS
    <2> HIDE DEF f
    <2> QED
      BY <1>4, <2>3, <2>4, <2>6, <2>7, <2>8, <2>9, <2>10 DEF Faithful, FaithfulTo
  <1>13. CASE stage[1] = "following" /\ Published(follow[1])
    <2> DEFINE told == Publication(follow[1])
    <2>1. threw'[1] = told.kind /\ failed'[1] = told.failures
      BY <1>3, <1>4, <1>13 DEF Raised
    <2>2. FaithfulTo(EventErrors, told.kind, told.failures)
      BY <1>1, <1>13, PublicationFaithful
    <2> HIDE DEF told
    <2>3. Errors' = EventErrors
      BY <1>9, <1>10, <1>11, <1>13 DEF EventErrors, Swallowed
    <2>4. \A f \in EventErrors : Alone(f)' <=> Alone(f)
      BY <1>10 DEF EventErrors
    <2>5. \A f \in EventErrors : stage'[f[1]] = stage[f[1]]
      BY <1>5, <1>8 DEF EventErrors
    <2>6. Sequential' <=> Sequential
      BY DEF Sequential
    <2> HIDE DEF IInv
    <2>7. CASE told.kind = "drain"
      BY <2>1, <2>2, <2>3, <2>4, <2>5, <2>7 DEF Faithful, FaithfulTo
    <2>8. CASE told.kind # "drain"
      BY <1>7, <2>1, <2>2, <2>3, <2>4, <2>6, <2>8 DEF Faithful, FaithfulTo
    <2> QED
      BY <2>7, <2>8
  <1> QED
    BY <1>2, <1>12, <1>13 DEF Handled

LEMMA CommandToldNext ==
  ASSUME IInv, Accounts, Unrefused, Swallowed, CommandTold, Next
  PROVE  CommandTold'
  <1> USE DEF IInv
  <1> SUFFICES ASSUME call' = "waiting", IsCommand(1)', stage'[1] = "done", mid'[1] = "pass"
               PROVE  Faithful(threw[1], failed[1])'
    BY DEF CommandTold
  <1>1. 1 \in Msg
    BY Numbers
  <1>2. IsCommand(1)
    <2>1. ~Fresh(1)'
      BY DEF Fresh
    <2> QED
      BY <1>1, <2>1, SameKind
  <1>3. call = "waiting"
    <2>1. ASSUME NEW o \in {"send", "publish"}, Call(o) PROVE FALSE
      BY <1>1, <2>1 DEF Call, Types
    <2> QED
      BY <2>1, CallMoves DEF CallMoved
  <1>4. CASE stage[1] = "done"
    <2>1. Kept(1)
      BY <1>1, <1>4, ErrorsStay
    <2>2. Faithful(threw[1], failed[1]) /\ threw'[1] = threw[1] /\ failed'[1] = failed[1]
      BY <1>2, <1>3, <1>4, <2>1 DEF CommandTold, Kept
    <2>3. Sequential \/ Whole => \A m \in Msg : ~Active(m)
      BY <1>2, <1>3, <1>4 DEF Calls
    <2> HIDE DEF IInv
    <2> QED
      BY <1>3, <2>2, <2>3, ErrorsLast DEF Faithful, FaithfulTo, Sequential
  <1>5. CASE stage[1] # "done"
    <2>1. ~Kept(1)
      BY <1>5 DEF Kept
    <2>2. ~Enter(1) /\ ~Refuse(1)
      BY <1>1 DEF Enter, Refuse, Admitted, Types
    <2>3. ASSUME NEW h \in Handler, NEW r \in HandlerEnds, HandlerEnd(1, h, r) PROVE FALSE
      BY <2>3 DEF HandlerEnd, InHandler
    <2>4. ~Collect(1) /\ ~CommandHandled
      BY <1>1, <1>2 DEF Collect, CommandHandled, Types
    <2>5. ~CollectFollowUps(1)
      BY <1>1, <1>2 DEF CollectFollowUps, Handlers
    <2>6. Ending(1)
      <3> HIDE DEF IInv
      <3> QED
        BY <1>1, <2>1, <2>2, <2>3, <2>4, <2>5, OwnSteps DEF OwnStep
    <2>7. ASSUME NEW b \in Before, Deflect(1, b) PROVE FALSE
      BY <1>1, <2>7 DEF Deflect, Types
    <2>8. ASSUME NEW a \in After, Complete(1, a) PROVE a = "pass"
      <3>1. mid' = [mid EXCEPT ![1] = a]
        BY <2>8 DEF Complete
      <3> QED
        BY <1>1, <3>1 DEF Types
    <2>9. Complete(1, "pass")
      BY <2>6, <2>7, <2>8 DEF Ending
    <2> HIDE DEF IInv
    <2> QED
      BY <1>2, <1>3, <2>9, CommandPasses
  <1> QED
    BY <1>4, <1>5

LEMMA ReportedNext ==
  ASSUME IInv, Accounts, Unrefused, CommandTold, Reported, Next
  PROVE  Reported'
  <1> USE DEF IInv
  <1> SUFFICES ASSUME call' = "returned"
               PROVE  /\ IsCommand(1)' => stage'[1] = "done"
                      /\ (IsCommand(1)' => mid'[1] = "pass")
                           => Faithful(report.kind, report.failures)'
    BY DEF Reported
  <1>1. 1 \in Msg
    BY Numbers
  <1>2. call \in {"waiting", "returned"}
    BY CallMoves DEF CallMoved, Types
  <1>3. CASE call = "returned"
    <2>1. report' = report /\ op' = op
      BY <1>3, ReportStays
    <2>2. Sequential \/ Whole => \A m \in Msg : ~Active(m)
      BY <1>3 DEF Calls
    <2>3. IsCommand(1)' => stage'[1] = "done" /\ mid'[1] = mid[1] /\ IsCommand(1)
      BY <1>1, <1>3, <2>1, ErrorsStay DEF Reported, IsCommand, Kept
    <2>4. (IsCommand(1)' => mid'[1] = "pass") => Faithful(report.kind, report.failures)
      BY <1>3, <2>1, <2>3 DEF Reported, IsCommand
    <2> HIDE DEF IInv
    <2> QED
      BY <1>3, <2>1, <2>2, <2>3, <2>4, ErrorsLast DEF Faithful, FaithfulTo, Sequential
  <1>4. CASE call = "waiting"
    <2>1. Return
      BY <1>4, CallEnds
    <2>2. UNCHANGED <<op, stage, handling, mid, threw>>
      BY <2>1 DEF Return
    <2>3. /\ Errors' = Errors /\ IsCommand(1)' = IsCommand(1)
          /\ (Whole' <=> Whole) /\ \A f : Alone(f)' <=> Alone(f)
      BY <2>2 DEF Errors, Fails, IsCommand, Whole, Drained, Alone, Draining, Sequential
    <2>4. IsCommand(1) => stage[1] = "done"
      BY <2>1 DEF Return, IsCommand
    <2>5. ASSUME IsCommand(1) => mid[1] = "pass" PROVE Faithful(report'.kind, report'.failures)
      <3>1. CASE op = "send"
        <4>1. /\ IsCommand(1) /\ stage[1] = "done"
              /\ report' = [kind |-> threw[1], failures |-> failed[1]]
          BY <2>1, <3>1 DEF Return, IsCommand
        <4> QED
          BY <1>4, <2>5, <4>1 DEF CommandTold
      <3>2. CASE op # "send"
        <4>1. Published(<<1>>) /\ report' = Publication(<<1>>)
          BY <2>1, <3>2 DEF Return
        <4>2. ~IsCommand(1) /\ Events = Msg /\ <<1>> \in Seq(Msg)
          BY <1>1, <3>2 DEF IsCommand, Events
        <4>3. EventErrors = Errors
          BY <4>2 DEF EventErrors, Errors
        <4>4. FaithfulTo(EventErrors, Publication(<<1>>).kind, Publication(<<1>>).failures)
          BY <1>4, <4>1, <4>2, PublicationFaithful
        <4> QED
          BY <4>1, <4>3, <4>4 DEF Faithful
      <3> QED
        BY <3>1, <3>2
    <2> HIDE DEF IInv
    <2> QED
      BY <2>2, <2>3, <2>4, <2>5 DEF Faithful, FaithfulTo, Sequential
  <1> QED
    BY <1>2, <1>3, <1>4

-----------------------------------------------------------------------------
(* The invariant.                                                          *)

\* Inductive with IInv.
ReportInv == Accounts /\ Unrefused /\ Swallowed /\ CommandTold /\ Reported

LEMMA ToldInit == Init => ReportInv
  <1> SUFFICES ASSUME Init PROVE ReportInv
    OBVIOUS
  <1>1. \A m \in Msg : stage[m] = "unused" /\ failed[m] = <<>>
    BY DEF Init
  <1>2. stage[1] = "unused" /\ call = "none"
    BY <1>1, Numbers DEF Init
  <1>3. IsInjective(<<>>)
    BY DEF IsInjective
  <1>4. \A m \in Events : AccountedOf(m) /\ SumOf(m)
    BY <1>1, <1>3 DEF AccountedOf, SumOf, Events
  <1>5. \A y, z \in Events : SharedBy(y, z)
    BY <1>1 DEF SharedBy, Events
  <1>6. Accounts
    BY <1>4, <1>5 DEF Accounts
  <1> QED
    BY <1>2, <1>6 DEF ReportInv, Unrefused, Swallowed, CommandTold, Reported

LEMMA ToldNext == IInv /\ ReportInv /\ [Next]_vars => ReportInv'
  <1>1. ASSUME IInv, ReportInv, Next PROVE ReportInv'
    BY <1>1, AccountsNext, UnrefusedNext, SwallowedNext, CommandToldNext, ReportedNext
       DEF ReportInv
  <1>2. ASSUME ReportInv, UNCHANGED vars PROVE ReportInv'
    <2>1. UNCHANGED <<op, call, report, stage, by, handling, ended, follow, failed, threw, mid>>
      BY <1>2 DEF vars, callVars
    <2>2. /\ \A m : Own(m)' = Own(m) /\ Told(m)' = Told(m) /\ (Drained(m)' <=> Drained(m))
          /\ Events' = Events /\ Errors' = Errors /\ (Whole' <=> Whole)
          /\ \A f : Alone(f)' <=> Alone(f)
      BY <2>1 DEF Own, Told, Events, Errors, IsCommand, Whole, Drained, Fails, Alone, Draining,
         Sequential
    <2>3. Accounts' <=> Accounts
      <3>1. \A m \in Msg : (AccountedOf(m)' <=> AccountedOf(m)) /\ (SumOf(m)' <=> SumOf(m))
        BY <2>1, <2>2 DEF AccountedOf, SumOf, Sequential
      <3>2. \A y, z \in Msg : SharedBy(y, z)' <=> SharedBy(y, z)
        BY <2>1 DEF SharedBy
      <3>3. Events \subseteq Msg
        BY DEF Events
      <3> QED
        BY <2>2, <3>1, <3>2, <3>3 DEF Accounts, Sequential
    <2>4. (Swallowed' <=> Swallowed) /\ (Unrefused' <=> Unrefused)
      BY <2>1, <2>2 DEF Swallowed, Unrefused, Fails
    <2>5. (CommandTold' <=> CommandTold) /\ (Reported' <=> Reported)
      BY <2>1, <2>2 DEF CommandTold, Reported, IsCommand, Faithful, FaithfulTo, Sequential
    <2> QED
      BY <1>2, <2>3, <2>4, <2>5 DEF ReportInv
  <1> QED
    BY <1>1, <1>2

\* The exception the caller sees accounts for every error of the tree, once: each
\* handler that raised and each middleware that did, but for what the middleware of
\* the same dispatch swallowed or replaced (dispatch_tree.py:134-231, 270-318).  If it is
\* a BusDrainingError, it is one that happened in the tree; if it is not, there was none
\* to be raised alone, and the call has waited for the tasks of all events.
THEOREM ReportsAllOnce == Spec => []FailuresReportedOnce
  <1>1. IInv /\ ReportInv /\ [Next]_vars => ReportInv'
    BY ToldNext
  <1>2. ReportInv => FailuresReportedOnce
    BY DEF ReportInv, Reported, Faithful, FaithfulTo, FailuresReportedOnce
  <1> QED
    BY <1>1, <1>2, ToldInit, InvHolds, PTL DEF Spec

=============================================================================
