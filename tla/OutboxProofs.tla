---------------------------- MODULE OutboxProofs ----------------------------
(***************************************************************************)
(* Theorems about Outbox: its type invariant, its implementation of        *)
(* DeliveryContract, and, while no batch has outlived its claims, the      *)
(* single holder of a row and the single delivery of a message; for any    *)
(* sets of rows and workers, any batch size, timeouts and retention, and   *)
(* any number of crashes and storage errors.                               *)
(***************************************************************************)
EXTENDS Outbox, TLAPS

-----------------------------------------------------------------------------
(* Type correctness.                                                       *)

LEMMA TypeInit == Init => TypeOK
  <1> SUFFICES ASSUME Init PROVE TypeOK
    OBVIOUS
  <1>1. TableTypeOK
    BY TableAssumption DEF Init, TableInit, TableTypeOK
  <1>2. phase \in [Worker -> {"idle", "publishing", "marking", "releasing"}]
    BY DEF Init
  <1>3. deliveries \in [Row -> 0..2] /\ abandoned \in 0..MaxAbandon
    BY OutboxAssumption DEF Init
  <1> QED
    BY <1>1, <1>2, <1>3 DEF Init, TypeOK

\* The statements keep the columns of the table in their domains.
LEMMA TableStatements ==
  ASSUME TableTypeOK, NEW ids \in SUBSET Row
  PROVE  /\ \A n : ClaimRows(ids, n) => TableTypeOK'
         /\ MarkRows(ids) => TableTypeOK'
         /\ ReleaseRows(ids) => TableTypeOK'
         /\ EvictRows(ids) => TableTypeOK'
         /\ Tick => TableTypeOK'
  <1> USE TableAssumption DEF TableTypeOK
  <1>1. ASSUME NEW n, ClaimRows(ids, n) PROVE TableTypeOK'
    BY <1>1 DEF ClaimRows
  <1>2. ASSUME MarkRows(ids) PROVE TableTypeOK'
    BY <1>2 DEF MarkRows
  <1>3. ASSUME ReleaseRows(ids) PROVE TableTypeOK'
    BY <1>3 DEF ReleaseRows
  <1>4. ASSUME EvictRows(ids) PROVE TableTypeOK'
    BY <1>4 DEF EvictRows
  <1>5. ASSUME Tick PROVE TableTypeOK'
    <2>1. claimed' \in [Row -> (0..ClaimTimeout) \cup {Null}]
      BY <1>5 DEF Tick, Older
    <2>2. published' \in [Row -> (0..(Retention + 1)) \cup {Null}]
      BY <1>5 DEF Tick, Older
    <2> QED
      BY <1>5, <2>1, <2>2 DEF Tick
  <1> QED
    BY <1>1, <1>2, <1>3, <1>4, <1>5

LEMMA TypeNext == TypeOK /\ [Next]_vars => TypeOK'
  <1> SUFFICES ASSUME TypeOK, [Next]_vars PROVE TypeOK'
    OBVIOUS
  <1> USE OutboxAssumption DEF TypeOK, workVars, tableVars
  <1>1. ASSUME NEW r \in Row, Enqueue(r) PROVE TypeOK'
    BY <1>1 DEF Enqueue, InsertRow, TableTypeOK
  <1>2. ASSUME NEW w \in Worker, Claim(w) PROVE TypeOK'
    <2>1. PICK ids \in (SUBSET Row) \ {{}} :
            ClaimRows(ids, BatchSize) /\ todo' = [todo EXCEPT ![w] = ids]
      BY <1>2 DEF Claim
    <2>2. TableTypeOK'
      BY <2>1, TableStatements
    <2> QED
      BY <1>2, <2>1, <2>2 DEF Claim
  <1>3. ASSUME NEW w \in Worker, NEW r \in Row, Publish(w, r) PROVE TypeOK'
    <2>1. r \in todo[w] /\ todo[w] # {}
      BY <1>3 DEF Publish, Oldest
    <2>2. TableTypeOK' /\ deliveries' \in [Row -> 0..2]
      BY <1>3 DEF Publish, TableTypeOK
    <2> QED
      BY <1>3, <2>1, <2>2 DEF Publish, After
  <1>4. ASSUME NEW w \in Worker, NEW r \in Row, Fail(w, r) PROVE TypeOK'
    <2>1. r \in todo[w] /\ todo[w] # {}
      BY <1>4 DEF Fail, Oldest
    <2>2. TableTypeOK'
      BY <1>4 DEF Fail, TableTypeOK
    <2> QED
      BY <1>4, <2>1, <2>2 DEF Fail, After
  <1>5. ASSUME NEW w \in Worker, Mark(w) PROVE TypeOK'
    <2>1. TableTypeOK'
      BY <1>5, TableStatements DEF Mark, Marked
    <2> QED
      BY <1>5, <2>1 DEF Mark, Drop
  <1>6. ASSUME NEW w \in Worker, Release(w) PROVE TypeOK'
    <2>1. TableTypeOK'
      BY <1>6, TableStatements DEF Release
    <2> QED
      BY <1>6, <2>1 DEF Release, Drop
  <1>7. ASSUME NEW w \in Worker, StorageError(w) \/ Crash(w) PROVE TypeOK'
    <2>1. TableTypeOK'
      BY <1>7 DEF StorageError, Crash, TableTypeOK
    <2> QED
      BY <1>7, <2>1 DEF StorageError, Crash, Drop
  <1>8. ASSUME NEW w \in Worker, Evict(w) PROVE TypeOK'
    <2>1. TableTypeOK'
      BY <1>8, TableStatements DEF Evict
    <2> QED
      BY <1>8, <2>1 DEF Evict
  <1>9. CASE TimePasses
    <2>1. TableTypeOK'
      BY <1>9, TableStatements DEF TimePasses
    <2> QED
      BY <1>9, <2>1 DEF TimePasses
  <1>10. CASE UNCHANGED vars
    BY <1>10 DEF vars, TableTypeOK
  <1> QED
    BY <1>1, <1>2, <1>3, <1>4, <1>5, <1>6, <1>7, <1>8, <1>9, <1>10 DEF Next

\* Type correctness of table, workers and deliveries.
THEOREM TypeCorrect == Spec => []TypeOK
  BY TypeInit, TypeNext, PTL DEF Spec

-----------------------------------------------------------------------------
(* The delivery contract.                                                  *)

\* What a worker has published was delivered, what it has in hand was inserted,
\* and a row that was never inserted is neither delivered nor marked.
Accounted ==
  /\ \A w \in Worker : \A r \in sent[w] : deliveries[r] # 0
  /\ \A w \in Worker : \A r \in InHand(w) : place[r] # "absent"
  /\ \A r \in Row : place[r] = "absent" => deliveries[r] = 0 /\ published[r] = Null

IContract == TypeOK /\ Accounted

LEMMA AccountedInit == Init => Accounted
  BY DEF Init, TableInit, Accounted, InHand

LEMMA AccountedNext == IContract /\ [Next]_vars => Accounted'
  <1> SUFFICES ASSUME IContract, [Next]_vars PROVE Accounted'
    OBVIOUS
  <1> USE DEF IContract, TypeOK, TableTypeOK, Accounted, InHand, workVars, tableVars
  <1>1. ASSUME NEW r \in Row, Enqueue(r) PROVE Accounted'
    BY <1>1 DEF Enqueue, InsertRow
  <1>2. ASSUME NEW w \in Worker, Claim(w) PROVE Accounted'
    BY <1>2 DEF Claim, ClaimRows, Oldest, Free, Pending, Stored
  <1>3. ASSUME NEW w \in Worker, NEW r \in Row, Publish(w, r) PROVE Accounted'
    <2>1. r \in todo[w]
      BY <1>3 DEF Publish, Oldest
    <2>2. \A s \in Row : deliveries[s] # 0 \/ s = r => deliveries'[s] # 0
      BY <1>3 DEF Publish
    <2>3. \A s \in Row : s # r => deliveries'[s] = deliveries[s]
      BY <1>3 DEF Publish
    <2> QED
      BY <1>3, <2>1, <2>2, <2>3 DEF Publish
  <1>4. ASSUME NEW w \in Worker, NEW r \in Row, Fail(w, r) PROVE Accounted'
    BY <1>4 DEF Fail, Oldest
  <1>5. ASSUME NEW w \in Worker, Mark(w) PROVE Accounted'
    BY <1>5 DEF Mark, MarkRows, Marked, Drop, Stored
  <1>6. ASSUME NEW w \in Worker, Release(w) PROVE Accounted'
    BY <1>6 DEF Release, ReleaseRows, Drop
  <1>7. ASSUME NEW w \in Worker, StorageError(w) \/ Crash(w) PROVE Accounted'
    BY <1>7 DEF StorageError, Crash, Drop
  <1>8. ASSUME NEW w \in Worker, Evict(w) PROVE Accounted'
    BY <1>8 DEF Evict, EvictRows
  <1>9. CASE TimePasses
    BY <1>9 DEF TimePasses, Tick, Older
  <1>10. CASE UNCHANGED vars
    BY <1>10 DEF vars
  <1> QED
    BY <1>1, <1>2, <1>3, <1>4, <1>5, <1>6, <1>7, <1>8, <1>9, <1>10 DEF Next

\* The status of a row, case by case.
StatusFacts ==
  \A r \in Row :
    /\ place[r] = "absent" => StatusOf(r) = "absent"
    /\ place[r] = "deleted" => StatusOf(r) = "gone"
    /\ Published(r) => StatusOf(r) = "published"
    /\ Pending(r) /\ deliveries[r] = 0 => StatusOf(r) = "pending"
    /\ Pending(r) /\ deliveries[r] # 0 => StatusOf(r) = "delivered"

LEMMA StatusCases == StatusFacts
  BY DEF StatusFacts, StatusOf, Published, Pending, Stored

\* Rows whose columns and deliveries stay, or change invisibly, keep their status.
LEMMA StatusStays ==
  ASSUME TypeOK, NEW r \in Row,
         place'[r] = place[r],
         published'[r] = Null <=> published[r] = Null,
         deliveries'[r] = 0 <=> deliveries[r] = 0
  PROVE  StatusOf(r)' = StatusOf(r)
  BY DEF TypeOK, TableTypeOK, StatusOf, Published, Pending, Stored

LEMMA ContractInit == Init => Contract!Init
  <1> SUFFICES ASSUME Init PROVE \A r \in Row : StatusOf(r) = "absent"
    BY DEF Contract!Init, Status
  <1> QED
    BY StatusCases DEF Init, TableInit, StatusFacts

\* Rows of S move, the others stay: a step of the contract.
LEMMA StatusMoves ==
  ASSUME NEW S \in SUBSET Row, NEW from, NEW to,
         \A r \in S : StatusOf(r) = from /\ StatusOf(r)' = to,
         \A r \in Row \ S : StatusOf(r)' = StatusOf(r)
  PROVE  Contract!Move(S, from, to)
  <1>1. \A r \in S : Status[r] = from
    BY DEF Status
  <1>2. Status' = [r \in Row |-> IF r \in S THEN to ELSE Status[r]]
    BY DEF Status
  <1> QED
    BY <1>1, <1>2 DEF Contract!Move

LEMMA ContractNext ==
  IContract /\ [Next]_vars => [Contract!Next]_Status
  <1> SUFFICES ASSUME IContract, [Next]_vars
               PROVE  Contract!Next \/ Status' = Status
    OBVIOUS
  <1> USE DEF IContract
  <1>0. ASSUME \A r \in Row : StatusOf(r)' = StatusOf(r) PROVE Status' = Status
    BY <1>0 DEF Status
  <1>1. StatusFacts /\ StatusFacts'
    <2>1. StatusFacts'
      BY DEF StatusFacts, StatusOf, Published, Pending, Stored
    <2> QED
      BY <2>1, StatusCases
  <1>2. ASSUME NEW r \in Row, Enqueue(r) PROVE Contract!Next
    <2>1. StatusOf(r) = "absent" /\ StatusOf(r)' = "pending"
      BY <1>1, <1>2
         DEF StatusFacts, Enqueue, InsertRow, Accounted, Pending, Stored, TypeOK, TableTypeOK
    <2>2. \A s \in Row \ {r} : StatusOf(s)' = StatusOf(s)
      BY <1>2, StatusStays DEF Enqueue, InsertRow, TypeOK, TableTypeOK
    <2>3. Contract!Enqueue(r)
      BY <2>1, <2>2, StatusMoves DEF Contract!Enqueue
    <2> QED
      BY <2>3 DEF Contract!Next
  <1>3. ASSUME NEW w \in Worker, NEW r \in Row, Publish(w, r)
        PROVE  Contract!Next \/ Status' = Status
    <2>1. /\ r \in todo[w] /\ place[r] # "absent"
          /\ place' = place /\ published' = published
      BY <1>3 DEF Publish, Oldest, tableVars, Accounted, InHand
    <2>2. deliveries'[r] # 0 /\ \A s \in Row \ {r} : deliveries'[s] = deliveries[s]
      BY <1>3 DEF Publish, TypeOK
    <2>3. \A s \in Row \ {r} : StatusOf(s)' = StatusOf(s)
      BY <2>1, <2>2, StatusStays
    <2>4. CASE Pending(r) /\ deliveries[r] = 0
      <3>1. StatusOf(r) = "pending" /\ StatusOf(r)' = "delivered"
        BY <1>1, <2>1, <2>2, <2>4 DEF StatusFacts, Pending, Stored
      <3>2. Contract!Deliver(r)
        BY <2>3, <3>1, StatusMoves DEF Contract!Deliver
      <3> QED
        BY <3>2 DEF Contract!Next
    <2>5. CASE ~Pending(r) \/ deliveries[r] # 0
      <3>1. StatusOf(r)' = StatusOf(r)
        BY <2>1, <2>2, <2>5 DEF StatusOf, Pending, Published, Stored, TypeOK, TableTypeOK
      <3> QED
        BY <1>0, <2>3, <3>1
    <2> QED
      BY <2>4, <2>5
  <1>4. ASSUME NEW w \in Worker, Mark(w) PROVE Contract!Next \/ Status' = Status
    <2> DEFINE S == {r \in sent[w] : Pending(r)}
    <2>1. /\ MarkRows(sent[w]) /\ deliveries' = deliveries /\ S \in SUBSET Row
          /\ \A r \in sent[w] : deliveries[r] # 0
      BY <1>4 DEF Mark, Marked, TypeOK, Accounted
    <2>2. \A r \in S : StatusOf(r) = "delivered" /\ StatusOf(r)' = "published"
      BY <1>1, <2>1, TableAssumption
         DEF StatusFacts, MarkRows, Pending, Published, Stored, TypeOK, TableTypeOK
    <2>3. \A r \in Row \ S : StatusOf(r)' = StatusOf(r)
      BY <2>1, StatusStays, TableAssumption
         DEF MarkRows, Pending, Stored, TypeOK, TableTypeOK
    <2>4. Contract!Confirm(S)
      BY <2>1, <2>2, <2>3, StatusMoves DEF Contract!Confirm
    <2> QED
      BY <2>1, <2>4 DEF Contract!Next
  <1>5. ASSUME NEW w \in Worker, Evict(w) PROVE Contract!Next
    <2>1. PICK S \in (SUBSET Row) \ {{}} : EvictRows(S)
      BY <1>5 DEF Evict
    <2>2. /\ \A r \in S : Published(r)
          /\ published' = published /\ deliveries' = deliveries
          /\ place' = [r \in Row |-> IF r \in S THEN "deleted" ELSE place[r]]
      BY <1>5, <2>1 DEF Evict, EvictRows, Trimmed
    <2>3. \A r \in S : StatusOf(r) = "published" /\ StatusOf(r)' = "gone"
      BY <1>1, <2>2 DEF StatusFacts
    <2>4. \A r \in Row \ S : StatusOf(r)' = StatusOf(r)
      BY <2>2, StatusStays
    <2>5. Contract!Evict(S)
      BY <2>3, <2>4, StatusMoves DEF Contract!Evict
    <2> QED
      BY <2>5 DEF Contract!Next
  <1>6. CASE /\ UNCHANGED <<place, deliveries>>
             /\ \A r \in Row : published'[r] = Null <=> published[r] = Null
    BY <1>0, <1>6, StatusStays
  <1>7. CASE TimePasses
    BY <1>6, <1>7, TableAssumption DEF TimePasses, Tick, Older, TypeOK, TableTypeOK
  <1>8. ASSUME NEW w \in Worker,
               \/ Claim(w) \/ Release(w) \/ StorageError(w) \/ Crash(w)
               \/ \E r \in Row : Fail(w, r)
        PROVE  Contract!Next \/ Status' = Status
    <2>1. UNCHANGED <<place, published, deliveries>>
      BY <1>8 DEF Claim, ClaimRows, Release, ReleaseRows, StorageError, Crash, Fail, tableVars
    <2> QED
      BY <1>6, <2>1
  <1> QED
    BY <1>2, <1>3, <1>4, <1>5, <1>6, <1>7, <1>8 DEF Next, vars, tableVars

\* README, "Outbox support": at-least-once delivery.  No row is marked before its
\* message was delivered or evicted before it was marked, and none is taken back,
\* whatever the workers, their late batches, crashes and storage errors.
THEOREM Delivers == Spec => KeepsDeliveryContract
  <1>1. Init => IContract
    BY TypeInit, AccountedInit DEF IContract
  <1>2. IContract /\ [Next]_vars => IContract'
    BY TypeNext, AccountedNext DEF IContract
  <1> QED
    BY <1>1, <1>2, ContractInit, ContractNext, PTL
       DEF Spec, KeepsDeliveryContract, Contract!Spec

-----------------------------------------------------------------------------
(* One holder.                                                             *)

\* As long as no batch has outlived its claims: what a worker has in hand is in
\* one of its lists, in no other worker's, and its claim is not stale.
Apart == \A v, w \in Worker : v # w => InHand(v) \cap InHand(w) = {}

Fresh == \A w \in Worker : \A r \in InHand(w) :
  Pending(r) /\ claimed[r] # Null /\ claimed[r] # ClaimTimeout

Lists == \A w \in Worker : /\ sent[w] \cap unsent[w] = {}
                           /\ todo[w] \cap (sent[w] \cup unsent[w]) = {}

Holding == ~overdue => Apart /\ Fresh /\ Lists

IHold == TypeOK /\ Holding

LEMMA HoldInit == Init => Holding
  BY DEF Init, Holding, Apart, Fresh, Lists, InHand

\* A step that takes rows from hands, and leaves those that stay as they are.
LEMMA HandsShrink ==
  ASSUME Apart, Fresh,
         \A w \in Worker : InHand(w)' \subseteq InHand(w),
         \A w \in Worker : \A r \in InHand(w)' : Pending(r)' /\ claimed'[r] = claimed[r]
  PROVE  Apart' /\ Fresh'
  BY DEF Apart, Fresh

LEMMA HoldNext ==
  ASSUME ClaimTimeout # 0 PROVE IHold /\ [Next]_vars => Holding'
  <1> SUFFICES ASSUME IHold, [Next]_vars, ~overdue' PROVE Apart' /\ Fresh' /\ Lists'
    BY DEF Holding
  <1> DEFINE Goal == Apart' /\ Fresh' /\ Lists'
  <1> USE DEF IHold, TypeOK, TableTypeOK, workVars, tableVars
  <1>0. Apart /\ Fresh /\ Lists
    BY DEF Holding, Next, vars, Enqueue, Claim, Publish, Fail, Mark, Release, StorageError,
           Crash, Evict, TimePasses
  <1>1. ASSUME NEW r \in Row, Enqueue(r) PROVE Goal
    <2>1. Apart' /\ Lists'
      BY <1>0, <1>1 DEF Apart, Lists, Enqueue, InHand
    <2>2. Fresh'
      BY <1>0, <1>1 DEF Fresh, Enqueue, InsertRow, InHand, Pending, Stored
    <2> QED
      BY <2>1, <2>2
  <1>2. ASSUME NEW w \in Worker, Claim(w) PROVE Goal
    <2>1. PICK ids \in (SUBSET Row) \ {{}} :
            ClaimRows(ids, BatchSize) /\ todo' = [todo EXCEPT ![w] = ids]
      BY <1>2 DEF Claim
    <2>2. /\ todo[w] = {} /\ sent[w] = {} /\ unsent[w] = {}
          /\ sent' = sent /\ unsent' = unsent
      BY <1>2 DEF Claim
    <2>3. \A r \in ids : Free(r) /\ claimed'[r] = 0
      BY <2>1 DEF ClaimRows, Oldest
    <2>4. \A v \in Worker : \A r \in InHand(v) : r \notin ids /\ claimed'[r] = claimed[r]
      BY <1>0, <2>1, <2>3 DEF Fresh, ClaimRows, Free, Stale, InHand
    <2>5. \A v \in Worker : InHand(v)' = IF v = w THEN ids ELSE InHand(v)
      BY <2>1, <2>2 DEF InHand
    <2>6. \A r \in Row : Pending(r)' = Pending(r)
      BY <2>1 DEF ClaimRows, Pending, Stored
    <2>7. Apart'
      BY <1>0, <2>4, <2>5 DEF Apart
    <2>8. Fresh'
      <3> SUFFICES ASSUME NEW v \in Worker, NEW r \in InHand(v)'
                   PROVE  Pending(r)' /\ claimed'[r] # Null /\ claimed'[r] # ClaimTimeout
        BY DEF Fresh
      <3>1. CASE v = w
        <4>1. r \in ids /\ r \in Row
          BY <2>5, <3>1
        <4>2. Pending(r)' /\ claimed'[r] = 0
          BY <2>3, <2>6, <4>1 DEF Free
        <4> QED
          BY <4>2, TableAssumption
      <3>2. CASE v # w
        BY <1>0, <2>4, <2>5, <2>6, <3>2 DEF Fresh, InHand
      <3> QED
        BY <3>1, <3>2
    <2>9. Lists'
      BY <1>0, <2>1, <2>2 DEF Lists
    <2> QED
      BY <2>7, <2>8, <2>9
  <1>3. ASSUME NEW w \in Worker, NEW r \in Row, Publish(w, r) \/ Fail(w, r) PROVE Goal
    <2>1. /\ r \in todo[w] /\ todo' = [todo EXCEPT ![w] = todo[w] \ {r}]
          /\ \/ sent' = [sent EXCEPT ![w] = sent[w] \cup {r}] /\ unsent' = unsent
             \/ unsent' = [unsent EXCEPT ![w] = unsent[w] \cup {r}] /\ sent' = sent
          /\ UNCHANGED tableVars
      BY <1>3 DEF Publish, Fail, Oldest
    <2>2. \A v \in Worker : InHand(v)' = InHand(v)
      BY <2>1 DEF InHand
    <2>3. \A s \in Row : Pending(s)' = Pending(s)
      BY <2>1 DEF Pending, Stored
    <2>4. Apart' /\ Fresh'
      BY <1>0, <2>1, <2>2, <2>3, HandsShrink DEF Fresh, InHand
    <2>5. Lists'
      BY <1>0, <2>1 DEF Lists
    <2> QED
      BY <2>4, <2>5
  <1>4. ASSUME NEW w \in Worker, Mark(w) PROVE Goal
    <2>1. MarkRows(sent[w]) /\ todo[w] = {}
      BY <1>4 DEF Mark, Marked
    <2>2. /\ \A v \in Worker : todo'[v] \subseteq todo[v] /\ unsent'[v] \subseteq unsent[v]
          /\ sent' = [sent EXCEPT ![w] = {}]
      BY <1>4 DEF Mark, Drop
    <2>3. \A v \in Worker : \A r \in InHand(v)' : r \in InHand(v) /\ r \notin sent[w]
      BY <1>0, <2>1, <2>2 DEF InHand, Apart, Lists
    <2>4. \A r \in Row : r \notin sent[w] =>
            claimed'[r] = claimed[r] /\ Pending(r)' = Pending(r)
      BY <2>1 DEF MarkRows, Pending, Stored
    <2>5. Apart' /\ Fresh'
      BY <1>0, <2>3, <2>4, HandsShrink DEF Fresh, InHand
    <2>6. Lists'
      BY <1>0, <2>2 DEF Lists
    <2> QED
      BY <2>5, <2>6
  <1>5. ASSUME NEW w \in Worker, Release(w) PROVE Goal
    <2>1. ReleaseRows(unsent[w]) /\ Drop(w)
      BY <1>5 DEF Release
    <2>2. \A v \in Worker : InHand(v)' = IF v = w THEN {} ELSE InHand(v)
      BY <2>1 DEF InHand, Drop
    <2>3. \A v \in Worker : \A r \in InHand(v)' : r \in InHand(v) /\ r \notin unsent[w]
      BY <1>0, <2>2 DEF InHand, Apart
    <2>4. \A r \in Row : /\ Pending(r)' = Pending(r)
                         /\ r \notin unsent[w] => claimed'[r] = claimed[r]
      BY <2>1 DEF ReleaseRows, Pending, Stored
    <2>5. \A v \in Worker : \A r \in InHand(v)' : Pending(r)' /\ claimed'[r] = claimed[r]
      BY <1>0, <2>3, <2>4 DEF Fresh, InHand
    <2>6. Apart' /\ Fresh'
      BY <1>0, <2>3, <2>5, HandsShrink
    <2>7. Lists'
      BY <1>0, <2>1 DEF Lists, Drop
    <2> QED
      BY <2>6, <2>7
  <1>6. ASSUME NEW w \in Worker, StorageError(w) \/ Crash(w) PROVE Goal
    <2>1. Drop(w) /\ UNCHANGED tableVars
      BY <1>6 DEF StorageError, Crash
    <2>2. \A v \in Worker : InHand(v)' \subseteq InHand(v)
      BY <2>1 DEF InHand, Drop
    <2>3. \A r \in Row : Pending(r)' = Pending(r)
      BY <2>1 DEF Pending, Stored
    <2>4. Apart' /\ Fresh'
      BY <1>0, <2>1, <2>2, <2>3, HandsShrink DEF Fresh, InHand
    <2>5. Lists'
      BY <1>0, <2>1 DEF Lists, Drop
    <2> QED
      BY <2>4, <2>5
  <1>7. ASSUME NEW w \in Worker, Evict(w) PROVE Goal
    <2>1. PICK S \in (SUBSET Row) \ {{}} : EvictRows(S)
      BY <1>7 DEF Evict
    <2>2. \A r \in Row : Pending(r) => Pending(r)'
      BY <2>1 DEF EvictRows, Trimmed, Pending, Published, Stored
    <2>3. (\A v \in Worker : InHand(v)' = InHand(v)) /\ claimed' = claimed
      BY <1>7, <2>1 DEF Evict, EvictRows, InHand
    <2>4. Apart' /\ Fresh'
      BY <1>0, <2>2, <2>3, HandsShrink DEF Fresh, InHand
    <2>5. Lists'
      BY <1>0, <1>7 DEF Lists, Evict
    <2> QED
      BY <2>4, <2>5
  <1>8. CASE TimePasses
    <2>1. \A v \in Worker : InHand(v)' = InHand(v)
      BY <1>8 DEF TimePasses, InHand
    <2>2. \A v \in Worker : \A r \in InHand(v) : claimed'[r] # ClaimTimeout
      BY <1>8 DEF TimePasses
    <2>3. \A r \in Row : /\ claimed[r] # Null => claimed'[r] # Null
                         /\ Pending(r) => Pending(r)'
      BY <1>8, TableAssumption DEF TimePasses, Tick, Older, Pending, Stored
    <2>4. Apart' /\ Lists'
      BY <1>0, <1>8, <2>1 DEF Apart, Lists, TimePasses
    <2>5. Fresh'
      BY <1>0, <2>1, <2>2, <2>3 DEF Fresh, InHand
    <2> QED
      BY <2>4, <2>5
  <1>9. CASE UNCHANGED vars
    <2>1. Apart' /\ Lists'
      BY <1>0, <1>9 DEF Apart, Lists, vars, InHand
    <2>2. Fresh'
      BY <1>0, <1>9 DEF Fresh, vars, InHand, Pending, Stored
    <2> QED
      BY <2>1, <2>2
  <1> QED
    BY <1>1, <1>2, <1>3, <1>4, <1>5, <1>6, <1>7, <1>8, <1>9 DEF Next

\* Two workers never work on the same message, and what a worker has in hand is
\* claimed and unpublished, unless a batch outlived its claims; provided that a
\* claim is not stale from the start.
THEOREM OneHolder == ASSUME ClaimTimeout # 0 PROVE Spec => []HeldByOne
  <1>1. Init => IHold
    BY TypeInit, HoldInit DEF IHold
  <1>2. IHold /\ [Next]_vars => IHold'
    BY TypeNext, HoldNext DEF IHold
  <1>3. IHold => HeldByOne
    BY DEF IHold, Holding, HeldByOne, Apart, Fresh
  <1> QED
    BY <1>1, <1>2, <1>3, PTL DEF Spec

-----------------------------------------------------------------------------
(* One delivery.                                                           *)

\* As long as no batch was late or abandoned: a message is delivered once at most,
\* not before its worker is done with it, and while its row is pending after that,
\* the worker still has it in hand.
Once == \A r \in Row : deliveries[r] <= 1

Untried == \A w \in Worker : \A r \in todo[w] \cup unsent[w] : deliveries[r] = 0

Kept == \A r \in Row : Pending(r) /\ deliveries[r] # 0 => \E w \in Worker : r \in InHand(w)

Counted == ~overdue /\ abandoned = 0 => Once /\ Untried /\ Kept

IOnce == IContract /\ Holding /\ Counted

LEMMA CountedInit == Init => Counted
  <1> SUFFICES ASSUME Init PROVE Once /\ Untried /\ Kept
    BY DEF Counted
  <1>1. \A r \in Row : deliveries[r] = 0
    BY DEF Init
  <1>2. Once /\ Kept
    BY <1>1 DEF Once, Kept
  <1>3. \A w \in Worker : todo[w] = {} /\ unsent[w] = {}
    BY DEF Init
  <1>4. Untried
    BY <1>3 DEF Untried
  <1> QED
    BY <1>2, <1>4

LEMMA CountedNext == IOnce /\ [Next]_vars => Counted'
  <1> SUFFICES ASSUME IOnce, [Next]_vars, ~overdue', abandoned' = 0
               PROVE  Once' /\ Untried' /\ Kept'
    BY DEF Counted
  <1> DEFINE Goal == Once' /\ Untried' /\ Kept'
  <1> USE DEF IOnce, IContract, TypeOK, TableTypeOK, workVars, tableVars
  <1>0. /\ Once /\ Untried /\ Kept
        /\ Apart /\ Fresh /\ Lists
    <2>1. ~overdue
      BY DEF Next, vars, Enqueue, Claim, Publish, Fail, Mark, Release, StorageError,
             Crash, Evict, TimePasses
    <2>2. abandoned' = abandoned \/ abandoned' = abandoned + 1
      BY DEF Next, vars, Enqueue, Claim, Publish, Fail, Mark, Release, StorageError,
             Crash, Evict, TimePasses
    <2>3. abandoned = 0
      BY <2>2, OutboxAssumption
    <2> QED
      BY <2>1, <2>3 DEF Counted, Holding
  <1>1. ASSUME NEW r \in Row, Enqueue(r) PROVE Goal
    <2>1. UNCHANGED <<todo, sent, unsent, deliveries>> /\ deliveries[r] = 0
      BY <1>1 DEF Enqueue, InsertRow, Accounted
    <2>2. \A s \in Row \ {r} : Pending(s)' => Pending(s)
      BY <1>1 DEF Enqueue, InsertRow, Pending, Stored
    <2> QED
      BY <1>0, <2>1, <2>2 DEF Once, Untried, Kept, InHand
  <1>2. ASSUME NEW w \in Worker, Claim(w) PROVE Goal
    <2>1. PICK ids \in (SUBSET Row) \ {{}} :
            ClaimRows(ids, BatchSize) /\ todo' = [todo EXCEPT ![w] = ids]
      BY <1>2 DEF Claim
    <2>2. /\ todo[w] = {} /\ sent' = sent /\ unsent' = unsent
          /\ deliveries' = deliveries
      BY <1>2 DEF Claim
    <2>3. \A r \in ids : deliveries[r] = 0
      BY <1>0, <2>1 DEF ClaimRows, Oldest, Free, Stale, Fresh, Kept
    <2>4. \A v \in Worker : InHand(v) \subseteq InHand(v)'
      BY <2>1, <2>2 DEF InHand
    <2>5. \A r \in Row : Pending(r)' = Pending(r)
      BY <2>1 DEF ClaimRows, Pending, Stored
    <2>6. Once' /\ Kept'
      BY <1>0, <2>2, <2>4, <2>5 DEF Once, Kept
    <2>7. Untried'
      BY <1>0, <2>1, <2>2, <2>3 DEF Untried
    <2> QED
      BY <2>6, <2>7
  <1>3. ASSUME NEW w \in Worker, NEW r \in Row, Publish(w, r) PROVE Goal
    <2>1. /\ r \in todo[w] /\ todo' = [todo EXCEPT ![w] = todo[w] \ {r}]
          /\ sent' = [sent EXCEPT ![w] = sent[w] \cup {r}] /\ unsent' = unsent
          /\ UNCHANGED tableVars
      BY <1>3 DEF Publish, Oldest
    <2>2. /\ deliveries[r] = 0 /\ deliveries'[r] = 1
          /\ \A s \in Row \ {r} : deliveries'[s] = deliveries[s]
      BY <1>0, <1>3, <2>1 DEF Publish, Untried
    <2>3. Once'
      BY <1>0, <2>2 DEF Once
    <2>4. \A v \in Worker : r \notin todo'[v] \cup unsent'[v]
      BY <1>0, <2>1 DEF Apart, Lists, InHand
    <2>5. Untried'
      BY <1>0, <2>1, <2>2, <2>4 DEF Untried
    <2>6. \A v \in Worker : InHand(v)' = InHand(v)
      BY <2>1 DEF InHand
    <2>7. Kept'
      BY <1>0, <2>1, <2>2, <2>6 DEF Kept, Pending, Stored, InHand
    <2> QED
      BY <2>3, <2>5, <2>7
  <1>4. ASSUME NEW w \in Worker, NEW r \in Row, Fail(w, r) PROVE Goal
    <2>1. /\ r \in todo[w] /\ todo' = [todo EXCEPT ![w] = todo[w] \ {r}]
          /\ unsent' = [unsent EXCEPT ![w] = unsent[w] \cup {r}] /\ sent' = sent
          /\ UNCHANGED <<tableVars, deliveries>>
      BY <1>4 DEF Fail, Oldest
    <2>2. \A v \in Worker : InHand(v)' = InHand(v)
      BY <2>1 DEF InHand
    <2>3. Once' /\ Kept'
      BY <1>0, <2>1, <2>2 DEF Once, Kept, Pending, Stored
    <2>4. Untried'
      BY <1>0, <2>1 DEF Untried
    <2> QED
      BY <2>3, <2>4
  <1>5. ASSUME NEW w \in Worker, Mark(w) PROVE Goal
    <2>1. MarkRows(sent[w]) /\ deliveries' = deliveries
      BY <1>5 DEF Mark, Marked
    <2>2. /\ \A v \in Worker : todo'[v] \subseteq todo[v] /\ unsent'[v] \subseteq unsent[v]
          /\ \A v \in Worker : InHand(v) \ sent[w] \subseteq InHand(v)'
      BY <1>5 DEF Mark, Drop, InHand
    <2>3. \A r \in Row : Pending(r)' => Pending(r) /\ r \notin sent[w]
      BY <2>1, TableAssumption DEF MarkRows, Pending, Stored
    <2>4. Once' /\ Untried'
      BY <1>0, <2>1, <2>2 DEF Once, Untried
    <2>5. Kept'
      BY <1>0, <2>1, <2>2, <2>3 DEF Kept
    <2> QED
      BY <2>4, <2>5
  <1>6. ASSUME NEW w \in Worker, Release(w) PROVE Goal
    <2>1. /\ ReleaseRows(unsent[w]) /\ Drop(w) /\ deliveries' = deliveries
          /\ InHand(w) = unsent[w]
      BY <1>6 DEF Release, InHand
    <2>2. \A r \in Row : Pending(r)' = Pending(r)
      BY <2>1 DEF ReleaseRows, Pending, Stored
    <2>3. \A v \in Worker \ {w} : InHand(v)' = InHand(v)
      BY <2>1 DEF Drop, InHand
    <2>4. Once' /\ Untried'
      BY <1>0, <2>1 DEF Once, Untried, Drop
    <2>5. Kept'
      BY <1>0, <2>1, <2>2, <2>3 DEF Kept, Untried
    <2> QED
      BY <2>4, <2>5
  <1>7. ASSUME NEW w \in Worker, StorageError(w) \/ Crash(w) PROVE FALSE
    BY <1>7, OutboxAssumption DEF StorageError, Crash
  <1>8. ASSUME NEW w \in Worker, Evict(w) PROVE Goal
    <2>1. PICK S \in (SUBSET Row) \ {{}} : EvictRows(S)
      BY <1>8 DEF Evict
    <2>2. \A r \in Row : Pending(r)' => Pending(r)
      BY <2>1 DEF EvictRows, Pending, Stored
    <2>3. UNCHANGED <<todo, sent, unsent, deliveries>>
      BY <1>8 DEF Evict
    <2> QED
      BY <1>0, <2>2, <2>3 DEF Once, Untried, Kept, InHand
  <1>9. CASE TimePasses
    <2>1. \A r \in Row : Pending(r)' => Pending(r)
      BY <1>9, TableAssumption DEF TimePasses, Tick, Older, Pending, Stored
    <2>2. UNCHANGED <<todo, sent, unsent, deliveries>>
      BY <1>9 DEF TimePasses
    <2> QED
      BY <1>0, <2>1, <2>2 DEF Once, Untried, Kept, InHand
  <1>10. CASE UNCHANGED vars
    BY <1>0, <1>10 DEF vars, Once, Untried, Kept, InHand, Pending, Stored
  <1> QED
    BY <1>1, <1>2, <1>3, <1>4, <1>5, <1>6, <1>7, <1>8, <1>9, <1>10 DEF Next

\* A message is delivered once, unless a batch outlived its claims or was abandoned;
\* provided that a claim is not stale from the start.
THEOREM DeliveredOnce == ASSUME ClaimTimeout # 0 PROVE Spec => []OnceUnlessAbandoned
  <1>1. Init => IOnce
    BY TypeInit, AccountedInit, HoldInit, CountedInit DEF IOnce, IContract
  <1>2. IOnce /\ [Next]_vars => IOnce'
    BY TypeNext, AccountedNext, HoldNext, CountedNext DEF IOnce, IContract, IHold
  <1>3. IOnce => OnceUnlessAbandoned
    BY DEF IOnce, Counted, Once, OnceUnlessAbandoned
  <1> QED
    BY <1>1, <1>2, <1>3, PTL DEF Spec

=============================================================================
