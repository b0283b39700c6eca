---------------------- MODULE OutboxTransactionsProofs ----------------------
(***************************************************************************)
(* Proofs about OutboxTransactions, for any number of workers, requests,   *)
(* starts and messages in a batch.                                         *)
(*                                                                         *)
(* Types and the lists of a batch need no assumption.  The rest is for     *)
(* workers and requests with connections of their own: then what the one   *)
(* connection with uncommitted changes sees is the committed tables with   *)
(* the changes of its owner, and of nobody else, and a commit is that      *)
(* owner's.                                                                *)
(***************************************************************************)
EXTENDS OutboxTransactions, TLAPS

\* Every worker and every request has a connection of its own, as in the README's
\* example (README.md:330-347).
OneOwner == \A x, y \in Worker \cup Row : ConnectionOf[x] = ConnectionOf[y] => x = y

-----------------------------------------------------------------------------
(* The invariants.                                                         *)

Holding == {"publish", "mark", "commitMark", "release", "commitRelease"}

\* Batches are empty but for the statements that work on them; what is marked or
\* released has been tried.
Lists ==
  \A w \in Worker :
    /\ at[w] \notin Holding => sent[w] = {} /\ unsent[w] = {}
    /\ at[w] \in Holding \ {"publish"} => todo[w] = {}
    /\ at[w] \in {"release", "commitRelease"} => sent[w] = {}
    /\ todo[w] \cap sent[w] = {} /\ todo[w] \cap unsent[w] = {} /\ sent[w] \cap unsent[w] = {}

\* What the owner of the uncommitted changes has written so far.
ClaimedBy(w) == [db EXCEPT !.claimed = @ \cup todo[w]]
MarkedBy(w) == [db EXCEPT !.claimed = @ \ sent[w], !.published = @ \cup (sent[w] \cap db.outbox)]
ReleasedBy(w) == [db EXCEPT !.claimed = @ \ (unsent[w] \ db.published)]
EvictedOf(S) == [db EXCEPT !.outbox = @ \ S, !.published = @ \ S,
                           !.claimed = @ \ S, !.deleted = @ \cup S]
InsertedBy(r) == [db EXCEPT !.business = @ \cup {r}]
EnqueuedBy(r) == [db EXCEPT !.business = @ \cup {r}, !.outbox = @ \cup {r}]

Writing == {"select", "claim", "fetch", "commitClaim", "commitMark", "commitRelease", "commitDelete"}
Entering == {"reclaim", "publish", "mark", "release", "delete"}

WorkerHalf(w) ==
  /\ at[w] \in Writing => writer = ConnectionOf[w]
  /\ at[w] \in Entering => writer # ConnectionOf[w]
  /\ at[w] \in {"select", "claim"} => view = db
  /\ at[w] = "claim" => todo[w] \subseteq Unclaimed(db)
  /\ at[w] \in {"fetch", "commitClaim"} => todo[w] \subseteq Unclaimed(db) /\ view = ClaimedBy(w)
  /\ at[w] = "commitMark" => view = MarkedBy(w)
  /\ at[w] = "commitRelease" => view = ReleasedBy(w)
  /\ at[w] = "commitDelete" => \E S \in SUBSET db.published : view = EvictedOf(S)

RequestHalf(r) ==
  /\ request[r] \in {"inserted", "enqueued"} => writer = ConnectionOf[r]
  /\ request[r] = "begun" => writer # ConnectionOf[r]
  /\ request[r] = "inserted" => view = InsertedBy(r)
  /\ request[r] = "enqueued" => view = EnqueuedBy(r)

Halves ==
  /\ \A w \in Worker : WorkerHalf(w)
  /\ \A r \in Row : RequestHalf(r)

Committed == {r \in Row : request[r] = "committed"}

\* The committed tables are whole.
Whole ==
  /\ db.business = Committed
  /\ db.outbox \cup db.deleted = Committed
  /\ db.outbox \cap db.deleted = {}
  /\ db.claimed \subseteq db.outbox
  /\ db.published \subseteq db.outbox
  /\ db.claimed \cap db.published = {}

\* Messages in hand are claimed, each by one worker.
Hands ==
  /\ \A w \in Worker : InHand(w) \subseteq db.claimed
  /\ \A v, w \in Worker : v # w => InHand(v) \cap InHand(w) = {}

Delivered ==
  /\ \A r \in Row : deliveries[r] > 0 => r \in Committed
  /\ \A w \in Worker : \A r \in sent[w] : deliveries[r] > 0

IType == TypeOK /\ Lists
IInv == IType /\ Halves /\ Whole /\ Hands /\ Delivered
-----------------------------------------------------------------------------
(* Connections.                                                            *)

Database == <<db, view, writer, open>>

DatabaseOK ==
  /\ db \in Tables /\ view \in Tables
  /\ writer \in Connection \cup {None}
  /\ open \in SUBSET Connection
  /\ writer # None => writer \in open
  /\ writer = None => view = db

LEMMA Connected == \A x \in Worker \cup Row : ConnectionOf[x] \in Connection
  BY TransactionsAssumption

LEMMA SeenTyped == ASSUME DatabaseOK, NEW c PROVE Seen(c) \in Tables
  BY DEF DatabaseOK, Seen

\* Whatever a statement does, it leaves the database in order.
LEMMA StatementTyped ==
  ASSUME DatabaseOK, NEW c \in Connection,
         \/ Begin(c) \/ Commit(c) \/ Rollback(c) \/ UNCHANGED dbVars
         \/ \E t \in Tables : Write(c, t)
  PROVE  DatabaseOK'
  <1> USE TransactionsAssumption DEF DatabaseOK
  <1>1. CASE Begin(c)
    BY <1>1 DEF Begin
  <1>2. CASE Commit(c)
    BY <1>2 DEF Commit, Seen
  <1>3. CASE Rollback(c)
    BY <1>3 DEF Rollback
  <1>4. CASE UNCHANGED dbVars
    BY <1>4 DEF dbVars
  <1>5. CASE \E t \in Tables : Write(c, t)
    BY <1>5 DEF Write
  <1> QED
    BY <1>1, <1>2, <1>3, <1>4, <1>5

-----------------------------------------------------------------------------
(* Types, and the lists of a batch.                                        *)

Control ==
  /\ request \in [Row -> {"new", "begun", "inserted", "enqueued", "failing",
                          "committed", "failed"}]
  /\ at \in [Worker -> Statement]
  /\ todo \in [Worker -> SUBSET Row]
  /\ sent \in [Worker -> SUBSET Row]
  /\ unsent \in [Worker -> SUBSET Row]
  /\ evicted \in SUBSET Worker
  /\ stopEvent \in SUBSET Worker
  /\ stopping \in SUBSET Worker
  /\ starts \in 0..MaxStarts
  /\ deliveries \in [Row -> 0..2]
  /\ \A w \in Worker :
       /\ at[w] = "publish" => todo[w] # {}
       /\ at[w] = "mark" => sent[w] # {}
       /\ at[w] = "release" => sent[w] = {} /\ unsent[w] # {}
       /\ at[w] \in {"off", "top", "evict"} => sent[w] = {} /\ unsent[w] = {}

LEMMA TypeParts == TypeOK <=> DatabaseOK /\ Control
  BY DEF TypeOK, DatabaseOK, Control

LEMMA TypeInit == Init => IType
  BY TransactionsAssumption DEF Init, IType, TypeOK, Lists, Tables, Empty, Statement, Holding

LEMMA RequestTyped ==
  ASSUME IType, NEW r \in Row,
         \/ BeginRequest(r) \/ InsertBusiness(r) \/ Enqueue(r) \/ CommitRequest(r)
         \/ FailRequest(r) \/ RollbackRequest(r)
  PROVE  IType'
  <1> DEFINE c == ConnectionOf[r]
  <1>1. c \in Connection /\ Seen(c) \in Tables /\ DatabaseOK /\ Control
    BY Connected, SeenTyped, TypeParts DEF IType
  <1>2. DatabaseOK'
    <2>1. /\ [Seen(c) EXCEPT !.business = @ \cup {r}] \in Tables
          /\ [Seen(c) EXCEPT !.outbox = @ \cup {r}] \in Tables
      BY <1>1 DEF Tables
    <2> QED
      BY <1>1, <2>1, StatementTyped DEF BeginRequest, InsertBusiness, Enqueue, CommitRequest,
           FailRequest, RollbackRequest
  <1>3. Control' /\ Lists'
    BY <1>1 DEF IType, Control, Lists, Reach, workerVars, BeginRequest, InsertBusiness, Enqueue,
         CommitRequest, FailRequest, RollbackRequest
  <1> QED
    BY <1>2, <1>3 DEF IType, TypeOK, DatabaseOK, Control

LEMMA WorkerTyped ==
  ASSUME IType, NEW w \in Worker, Round(w) \/ Start(w) \/ Stop(w) \/ Cancel(w)
  PROVE  IType'
  <1> DEFINE c == ConnectionOf[w]
  <1>0. c \in Connection /\ Seen(c) \in Tables /\ DatabaseOK /\ Control /\ Lists
    BY Connected, SeenTyped, TypeParts DEF IType
  <1> SUFFICES DatabaseOK' /\ Control' /\ Lists'
    BY DEF IType, TypeOK, DatabaseOK, Control
  <1> USE DEF Control, Lists, Statement, Holding, Go, batchVars, othersKeep
  <1>1. CASE BeginClaim(w)
    <2>1. DatabaseOK'
      BY <1>0, <1>1, StatementTyped DEF BeginClaim
    <2>2. Control' /\ Lists'
      BY <1>0, <1>1 DEF BeginClaim
    <2> QED
      BY <2>1, <2>2
  <1>2. CASE Reclaim(w)
    <2>1. DatabaseOK'
      BY <1>0, <1>2, StatementTyped DEF Reclaim
    <2>2. Control' /\ Lists'
      BY <1>0, <1>2 DEF Reclaim
    <2> QED
      BY <2>1, <2>2
  <1>3. CASE Select(w)
    <2>1. DatabaseOK'
      BY <1>0, <1>3, StatementTyped DEF Select
    <2>2. Control' /\ Lists'
      BY <1>0, <1>3 DEF Select, Oldest, Unclaimed, Tables
    <2> QED
      BY <2>1, <2>2
  <1>4. CASE SetClaims(w)
    <2>1. [Seen(c) EXCEPT !.claimed = @ \cup (todo[w] \cap Unclaimed(Seen(c)))] \in Tables
      BY <1>0 DEF Tables, Unclaimed
    <2>2. DatabaseOK'
      BY <1>0, <1>4, <2>1, StatementTyped DEF SetClaims
    <2>3. Control' /\ Lists'
      BY <1>0, <1>4 DEF SetClaims, Unclaimed, Tables
    <2> QED
      BY <2>2, <2>3
  <1>5. CASE Fetch(w)
    <2>1. DatabaseOK'
      BY <1>0, <1>5, StatementTyped DEF Fetch
    <2>2. Control' /\ Lists'
      BY <1>0, <1>5 DEF Fetch
    <2> QED
      BY <2>1, <2>2
  <1>6. CASE CommitClaim(w)
    <2>1. DatabaseOK'
      BY <1>0, <1>6, StatementTyped DEF CommitClaim
    <2>2. Control' /\ Lists'
      BY <1>0, <1>6 DEF CommitClaim
    <2> QED
      BY <2>1, <2>2
  <1>7. CASE RollbackClaim(w)
    <2>1. DatabaseOK'
      BY <1>0, <1>7, StatementTyped DEF RollbackClaim
    <2>2. Control' /\ Lists'
      BY <1>0, <1>7 DEF RollbackClaim, Drop
    <2> QED
      BY <2>1, <2>2
  <1>8. CASE \E r \in Row : Publish(w, r)
    <2>1. DatabaseOK'
      BY <1>0, <1>8, StatementTyped DEF Publish
    <2>2. Control' /\ Lists'
      BY <1>0, <1>8 DEF Publish, After, Oldest
    <2> QED
      BY <2>1, <2>2
  <1>9. CASE Mark(w)
    <2>1. [Seen(c) EXCEPT !.claimed = @ \ sent[w],
                            !.published = @ \cup (sent[w] \cap Seen(c).outbox)] \in Tables
      BY <1>0 DEF Tables, Unclaimed
    <2>2. DatabaseOK'
      BY <1>0, <1>9, <2>1, StatementTyped DEF Mark
    <2>3. Control' /\ Lists'
      BY <1>0, <1>9 DEF Mark
    <2> QED
      BY <2>2, <2>3
  <1>10. CASE CommitMark(w)
    <2>1. DatabaseOK'
      BY <1>0, <1>10, StatementTyped DEF CommitMark
    <2>2. Control' /\ Lists'
      BY <1>0, <1>10 DEF CommitMark
    <2> QED
      BY <2>1, <2>2
  <1>11. CASE Release(w)
    <2>1. [Seen(c) EXCEPT !.claimed = @ \ (unsent[w] \ Seen(c).published)] \in Tables
      BY <1>0 DEF Tables, Unclaimed
    <2>2. DatabaseOK'
      BY <1>0, <1>11, <2>1, StatementTyped DEF Release
    <2>3. Control' /\ Lists'
      BY <1>0, <1>11 DEF Release
    <2> QED
      BY <2>2, <2>3
  <1>12. CASE CommitRelease(w)
    <2>1. DatabaseOK'
      BY <1>0, <1>12, StatementTyped DEF CommitRelease
    <2>2. Control' /\ Lists'
      BY <1>0, <1>12 DEF CommitRelease, Drop
    <2> QED
      BY <2>1, <2>2
  <1>13. CASE StorageError(w)
    BY <1>0, <1>13 DEF StorageError, Drop, DatabaseOK, Locked
  <1>14. CASE BeginEviction(w)
    <2>1. DatabaseOK'
      BY <1>0, <1>14, StatementTyped DEF BeginEviction
    <2>2. Control' /\ Lists'
      BY <1>0, <1>14 DEF BeginEviction
    <2> QED
      BY <2>1, <2>2
  <1>15. CASE Delete(w)
    <2>1. \A S \in SUBSET Seen(c).published :
            [Seen(c) EXCEPT !.outbox = @ \ S, !.published = @ \ S,
                            !.claimed = @ \ S, !.deleted = @ \cup S] \in Tables
      BY <1>0 DEF Tables
    <2>2. DatabaseOK'
      BY <1>0, <1>15, <2>1, StatementTyped DEF Delete
    <2>3. Control' /\ Lists'
      BY <1>0, <1>15 DEF Delete
    <2> QED
      BY <2>2, <2>3
  <1>16. CASE RollbackDelete(w)
    <2>1. DatabaseOK'
      BY <1>0, <1>16, StatementTyped DEF RollbackDelete
    <2>2. Control' /\ Lists'
      BY <1>0, <1>16 DEF RollbackDelete
    <2> QED
      BY <2>1, <2>2
  <1>17. CASE CommitDelete(w)
    <2>1. DatabaseOK'
      BY <1>0, <1>17, StatementTyped DEF CommitDelete
    <2>2. Control' /\ Lists'
      BY <1>0, <1>17 DEF CommitDelete, controlVars
    <2> QED
      BY <2>1, <2>2
  <1>18. CASE End(w)
    <2>1. DatabaseOK'
      BY <1>0, <1>18, StatementTyped DEF End
    <2>2. Control' /\ Lists'
      BY <1>0, <1>18 DEF End
    <2> QED
      BY <2>1, <2>2
  <1>19. CASE Start(w)
    <2>1. DatabaseOK'
      BY <1>0, <1>19, StatementTyped DEF Start
    <2>2. Control' /\ Lists'
      BY <1>0, <1>19, TransactionsAssumption DEF Start
    <2> QED
      BY <2>1, <2>2
  <1>20. CASE Stop(w)
    <2>1. DatabaseOK'
      BY <1>0, <1>20, StatementTyped DEF Stop
    <2>2. Control' /\ Lists'
      BY <1>0, <1>20 DEF Stop
    <2> QED
      BY <2>1, <2>2
  <1>21. CASE Cancel(w)
    <2>1. DatabaseOK'
      BY <1>0, <1>21, StatementTyped DEF Cancel
    <2>2. Control' /\ Lists'
      BY <1>0, <1>21 DEF Cancel, Drop
    <2> QED
      BY <2>1, <2>2
  <1> QED
    BY <1>1, <1>2, <1>3, <1>4, <1>5, <1>6, <1>7, <1>8, <1>9, <1>10, <1>11, <1>12, <1>13, <1>14,
       <1>15, <1>16, <1>17, <1>18, <1>19, <1>20, <1>21 DEF Round

LEMMA TypeNext == IType /\ [Next]_vars => IType'
  <1>1. IType /\ UNCHANGED vars => IType'
    BY DEF IType, TypeOK, Lists, vars
  <1> QED
    BY <1>1, RequestTyped, WorkerTyped DEF Next

\* The types of the model's variables, and which lists of a batch are filled at
\* which statement of process_batch() (processor.py:33-64).
THEOREM TypeCorrect == Spec => []TypeOK
  <1>1. IType => TypeOK
    BY DEF IType
  <1> QED
    BY TypeInit, TypeNext, <1>1, PTL DEF Spec

-----------------------------------------------------------------------------
(* Who holds the uncommitted changes.                                      *)

\* All that a statement on connection c does to the tables.
StatementOn(c) ==
  \/ Begin(c) \/ Commit(c) \/ Rollback(c) \/ UNCHANGED <<db, view, writer>>
  \/ \E tables : Write(c, tables)

RequestStep(r) ==
  \/ BeginRequest(r) \/ InsertBusiness(r) \/ Enqueue(r) \/ CommitRequest(r)
  \/ FailRequest(r) \/ RollbackRequest(r)

WorkerStep(w) == Round(w) \/ Start(w) \/ Stop(w) \/ Cancel(w)

LEMMA RequestStatement ==
  ASSUME IType, NEW r \in Row, RequestStep(r)
  PROVE  /\ StatementOn(ConnectionOf[r])
         /\ UNCHANGED workerVars
         /\ \A s \in Row \ {r} : request'[s] = request[s]
  BY DEF IType, TypeOK, RequestStep, StatementOn, Reach, dbVars, BeginRequest, InsertBusiness,
       Enqueue, CommitRequest, FailRequest, RollbackRequest

LEMMA WorkerStatement ==
  ASSUME IType, NEW w \in Worker, WorkerStep(w)
  PROVE  /\ StatementOn(ConnectionOf[w])
         /\ request' = request
         /\ \A v \in Worker \ {w} : /\ at'[v] = at[v] /\ todo'[v] = todo[v]
                                     /\ sent'[v] = sent[v] /\ unsent'[v] = unsent[v]
  <1> USE DEF IType, TypeOK, StatementOn, dbVars, batchVars, othersKeep, Go, Drop
  <1>1. CASE BeginClaim(w)
    BY <1>1 DEF BeginClaim
  <1>2. CASE Reclaim(w)
    BY <1>2 DEF Reclaim
  <1>3. CASE Select(w)
    BY <1>3 DEF Select
  <1>4. CASE SetClaims(w)
    BY <1>4 DEF SetClaims
  <1>5. CASE Fetch(w)
    BY <1>5 DEF Fetch
  <1>6. CASE CommitClaim(w)
    BY <1>6 DEF CommitClaim
  <1>7. CASE RollbackClaim(w)
    BY <1>7 DEF RollbackClaim
  <1>8. CASE \E r \in Row : Publish(w, r)
    BY <1>8 DEF Publish, After
  <1>9. CASE Mark(w)
    BY <1>9 DEF Mark
  <1>10. CASE CommitMark(w)
    BY <1>10 DEF CommitMark
  <1>11. CASE Release(w)
    BY <1>11 DEF Release
  <1>12. CASE CommitRelease(w)
    BY <1>12 DEF CommitRelease
  <1>13. CASE StorageError(w)
    BY <1>13 DEF StorageError
  <1>14. CASE BeginEviction(w)
    BY <1>14 DEF BeginEviction
  <1>15. CASE Delete(w)
    BY <1>15 DEF Delete
  <1>16. CASE RollbackDelete(w)
    BY <1>16 DEF RollbackDelete
  <1>17. CASE CommitDelete(w)
    BY <1>17 DEF CommitDelete, controlVars
  <1>18. CASE End(w)
    BY <1>18 DEF End
  <1>19. CASE Start(w)
    BY <1>19 DEF Start
  <1>20. CASE Stop(w)
    BY <1>20 DEF Stop
  <1>21. CASE Cancel(w)
    BY <1>21 DEF Cancel
  <1> QED
    BY <1>1, <1>2, <1>3, <1>4, <1>5, <1>6, <1>7, <1>8, <1>9, <1>10, <1>11, <1>12, <1>13, <1>14,
       <1>15, <1>16, <1>17, <1>18, <1>19, <1>20, <1>21 DEF WorkerStep, Round

\* Uncommitted changes are out of reach of other connections.
LEMMA OutOfReach ==
  ASSUME IType, NEW c, NEW d \in Connection, c # d, StatementOn(c)
  PROVE  /\ writer = d => db' = db /\ view' = view /\ writer' = d
         /\ writer # d => writer' # d
  BY TransactionsAssumption
     DEF IType, TypeOK, StatementOn, Begin, Commit, Rollback, Write, Locked, Seen

LEMMA OtherHalves ==
  ASSUME IType, OneOwner, NEW x \in Worker \cup Row, StatementOn(ConnectionOf[x])
  PROVE  /\ \A w \in Worker \ {x} :
              /\ WorkerHalf(w)
              /\ at'[w] = at[w] /\ todo'[w] = todo[w] /\ sent'[w] = sent[w] /\ unsent'[w] = unsent[w]
              => WorkerHalf(w)'
         /\ \A r \in Row \ {x} :
              RequestHalf(r) /\ request'[r] = request[r] => RequestHalf(r)'
  <1>1. \A y \in Worker \cup Row : y # x =>
          /\ writer = ConnectionOf[y] => db' = db /\ view' = view /\ writer' = writer
          /\ writer # ConnectionOf[y] => writer' # ConnectionOf[y]
    BY Connected, OutOfReach DEF OneOwner
  <1>2. ASSUME NEW w \in Worker \ {x}, WorkerHalf(w),
               at'[w] = at[w], todo'[w] = todo[w], sent'[w] = sent[w], unsent'[w] = unsent[w]
        PROVE  WorkerHalf(w)'
    <2>1. CASE at[w] \in Writing
      <3>1. db' = db /\ view' = view /\ writer' = writer
        BY <1>1, <1>2, <2>1 DEF WorkerHalf
      <3> QED
        BY <1>2, <3>1 DEF WorkerHalf, ClaimedBy, MarkedBy, ReleasedBy, EvictedOf, Unclaimed
    <2>2. CASE at[w] \notin Writing
      BY <1>1, <1>2, <2>2 DEF WorkerHalf, Writing, Entering
    <2> QED
      BY <2>1, <2>2
  <1>3. ASSUME NEW r \in Row \ {x}, RequestHalf(r), request'[r] = request[r]
        PROVE  RequestHalf(r)'
    BY <1>1, <1>3 DEF RequestHalf, InsertedBy, EnqueuedBy
  <1> QED
    BY <1>2, <1>3

LEMMA RequestHalves ==
  ASSUME IType, OneOwner, Halves, NEW r \in Row, RequestStep(r)
  PROVE  Halves'
  <1>1. RequestHalf(r)'
    <2>1. CASE BeginRequest(r)
      <3>1. request'[r] = "failed" \/ (request'[r] = "begun" /\ Begin(ConnectionOf[r]))
        BY <2>1 DEF BeginRequest, Reach, IType, TypeOK
      <3>2. ConnectionOf[r] \in Connection /\ ConnectionOf[r] # None
        BY Connected, TransactionsAssumption
      <3>3. Begin(ConnectionOf[r]) => writer' # ConnectionOf[r]
        BY <3>2 DEF Begin, IType, TypeOK
      <3> QED
        BY <3>1, <3>3 DEF RequestHalf
    <2> USE Connected, TransactionsAssumption
        DEF IType, TypeOK, Halves, RequestHalf, Seen, Reach, InsertedBy, EnqueuedBy, Tables
    <2>2. CASE InsertBusiness(r)
      BY <2>2 DEF InsertBusiness, Write, Locked
    <2>3. CASE Enqueue(r)
      <3>1. /\ request[r] = "inserted" /\ request'[r] = "enqueued"
            /\ Write(ConnectionOf[r], [view EXCEPT !.outbox = @ \cup {r}])
            /\ view = InsertedBy(r)
        BY <2>3 DEF Enqueue
      <3> QED
        BY <3>1 DEF Write
    <2>4. CASE CommitRequest(r)
      BY <2>4 DEF CommitRequest
    <2>5. CASE FailRequest(r)
      BY <2>5 DEF FailRequest
    <2>6. CASE RollbackRequest(r)
      BY <2>6 DEF RollbackRequest
    <2> QED
      BY <2>1, <2>2, <2>3, <2>4, <2>5, <2>6 DEF RequestStep
  <1> QED
    BY <1>1, RequestStatement, OtherHalves, TransactionsAssumption DEF Halves, workerVars

LEMMA WorkerHalves ==
  ASSUME IType, OneOwner, Halves, NEW w \in Worker, WorkerStep(w)
  PROVE  Halves'
  <1>1. WorkerHalf(w)'
    <2> USE Connected, TransactionsAssumption
        DEF IType, TypeOK, Halves, WorkerHalf, Seen, Go, Writing, Entering, batchVars
    <2>1. CASE BeginClaim(w)
      BY <2>1 DEF BeginClaim, Begin, dbVars
    <2>2. CASE Reclaim(w)
      BY <2>2 DEF Reclaim, Write, Locked
    <2>3. CASE Select(w)
      BY <2>3 DEF Select, dbVars, Unclaimed, Oldest, ClaimedBy, Tables
    <2>4. CASE SetClaims(w)
      <3>1. view = db /\ writer = ConnectionOf[w] /\ todo[w] \subseteq Unclaimed(db)
        BY <2>4 DEF SetClaims
      <3>2. Seen(ConnectionOf[w]) = db /\ todo[w] \cap Unclaimed(db) = todo[w]
        BY <3>1
      <3>3. /\ at'[w] = "fetch" /\ todo'[w] = todo[w]
            /\ Write(ConnectionOf[w], [db EXCEPT !.claimed = @ \cup todo[w]])
        BY <2>4, <3>2 DEF SetClaims
      <3> QED
        BY <3>1, <3>3 DEF Write, ClaimedBy, Unclaimed
    <2>5. CASE Fetch(w)
      BY <2>5 DEF Fetch, dbVars, ClaimedBy, Tables, Unclaimed
    <2>6. CASE CommitClaim(w)
      BY <2>6 DEF CommitClaim, Commit
    <2>7. CASE RollbackClaim(w)
      BY <2>7 DEF RollbackClaim, Rollback
    <2>8. CASE \E r \in Row : Publish(w, r)
      BY <2>8 DEF Publish, After, dbVars
    <2>9. CASE Mark(w)
      BY <2>9 DEF Mark, Write, Locked, MarkedBy
    <2>10. CASE CommitMark(w)
      BY <2>10 DEF CommitMark, Commit
    <2>11. CASE Release(w)
      BY <2>11 DEF Release, Write, Locked, ReleasedBy
    <2>12. CASE CommitRelease(w)
      BY <2>12 DEF CommitRelease, Commit
    <2>13. CASE StorageError(w)
      BY <2>13 DEF StorageError
    <2>14. CASE BeginEviction(w)
      BY <2>14 DEF BeginEviction, Begin, dbVars
    <2>15. CASE Delete(w)
      BY <2>15 DEF Delete, Write, Locked, EvictedOf
    <2>16. CASE RollbackDelete(w)
      BY <2>16 DEF RollbackDelete, Rollback
    <2>17. CASE CommitDelete(w)
      BY <2>17 DEF CommitDelete, Commit
    <2>18. CASE End(w)
      BY <2>18 DEF End, dbVars
    <2>19. CASE Start(w)
      BY <2>19 DEF Start, dbVars
    <2>20. CASE Stop(w)
      BY <2>20 DEF Stop, dbVars, EvictedOf, MarkedBy, ClaimedBy, ReleasedBy, Unclaimed
    <2>21. CASE Cancel(w)
      BY <2>21 DEF Cancel, dbVars
    <2> QED
      BY <2>1, <2>2, <2>3, <2>4, <2>5, <2>6, <2>7, <2>8, <2>9, <2>10, <2>11, <2>12, <2>13, <2>14,
         <2>15, <2>16, <2>17, <2>18, <2>19, <2>20, <2>21 DEF WorkerStep, Round
  <1> QED
    BY <1>1, WorkerStatement, OtherHalves, TransactionsAssumption DEF Halves

-----------------------------------------------------------------------------
(* What commits do to the tables, and what batches hold of them.           *)

LEMMA RequestEffect ==
  ASSUME IType, Halves, NEW r \in Row, RequestStep(r)
  PROVE  \/ db' = db /\ Committed' = Committed
         \/ /\ request[r] = "enqueued" /\ db' = EnqueuedBy(r)
            /\ Committed' = Committed \cup {r} /\ r \notin Committed
  <1> USE DEF IType, TypeOK
  <1>1. CASE CommitRequest(r)
    <2>1. request[r] = "enqueued" /\ writer = ConnectionOf[r] /\ view = EnqueuedBy(r)
      BY <1>1 DEF CommitRequest, Halves, RequestHalf
    <2>2. db' = EnqueuedBy(r) /\ request' = [request EXCEPT ![r] = "committed"]
      BY <1>1, <2>1 DEF CommitRequest, Commit, Seen, Reach
    <2> QED
      BY <2>1, <2>2 DEF Committed
  <1>2. CASE ~CommitRequest(r)
    <2>1. db' = db
      BY <1>2 DEF RequestStep, BeginRequest, InsertBusiness, Enqueue, FailRequest, RollbackRequest,
           Begin, Write, Rollback, dbVars
    <2>2. \E s \in {"failed", "begun", "inserted", "enqueued", "failing"} :
            request[r] # "committed" /\ request' = [request EXCEPT ![r] = s]
      BY <1>2 DEF RequestStep, BeginRequest, InsertBusiness, Enqueue, FailRequest, RollbackRequest, Reach
    <2> QED
      BY <2>1, <2>2 DEF Committed
  <1> QED
    BY <1>1, <1>2

LEMMA WorkerEffect ==
  ASSUME IType, Halves, NEW w \in Worker, WorkerStep(w)
  PROVE  \/ db' = db /\ InHand(w)' \subseteq InHand(w)
         \/ /\ CommitClaim(w) /\ todo[w] \subseteq Unclaimed(db) /\ db' = ClaimedBy(w)
            /\ InHand(w)' = todo[w]
         \/ /\ CommitMark(w) /\ sent[w] \subseteq InHand(w) /\ db' = MarkedBy(w)
            /\ InHand(w)' = InHand(w) \ sent[w]
         \/ /\ CommitRelease(w) /\ unsent[w] = InHand(w) /\ db' = ReleasedBy(w)
            /\ InHand(w)' = {}
         \/ /\ CommitDelete(w) /\ InHand(w)' = {}
            /\ \E S \in SUBSET db.published : db' = EvictedOf(S)
  <1> USE DEF IType, TypeOK, Lists, Holding, InHand, batchVars, Go
  <1>1. CASE BeginClaim(w)
    BY <1>1 DEF BeginClaim, Begin, dbVars
  <1>2. CASE Reclaim(w)
    BY <1>2 DEF Reclaim, Write
  <1>3. CASE Select(w)
    BY <1>3 DEF Select, dbVars
  <1>4. CASE SetClaims(w)
    BY <1>4 DEF SetClaims, Write
  <1>5. CASE Fetch(w)
    BY <1>5 DEF Fetch, dbVars
  <1>6. CASE CommitClaim(w)
    BY <1>6 DEF CommitClaim, Commit, Seen, Halves, WorkerHalf, Writing
  <1>7. CASE RollbackClaim(w)
    BY <1>7 DEF RollbackClaim, Rollback, Drop
  <1>8. CASE \E r \in Row : Publish(w, r)
    BY <1>8 DEF Publish, Oldest, After, dbVars
  <1>9. CASE Mark(w)
    BY <1>9 DEF Mark, Write
  <1>10. CASE CommitMark(w)
    BY <1>10 DEF CommitMark, Commit, Seen, Halves, WorkerHalf, Writing
  <1>11. CASE Release(w)
    BY <1>11 DEF Release, Write
  <1>12. CASE CommitRelease(w)
    BY <1>12 DEF CommitRelease, Commit, Seen, Drop, Halves, WorkerHalf, Writing
  <1>13. CASE StorageError(w)
    BY <1>13 DEF StorageError, Drop
  <1>14. CASE BeginEviction(w)
    BY <1>14 DEF BeginEviction, Begin, dbVars
  <1>15. CASE Delete(w)
    BY <1>15 DEF Delete, Write
  <1>16. CASE RollbackDelete(w)
    BY <1>16 DEF RollbackDelete, Rollback
  <1>17. CASE CommitDelete(w)
    BY <1>17 DEF CommitDelete, Commit, Seen, Halves, WorkerHalf, Writing
  <1>18. CASE End(w)
    BY <1>18 DEF End, dbVars
  <1>19. CASE Start(w)
    BY <1>19 DEF Start, dbVars
  <1>20. CASE Stop(w)
    BY <1>20 DEF Stop, dbVars
  <1>21. CASE Cancel(w)
    BY <1>21 DEF Cancel, Drop, dbVars
  <1> QED
    BY <1>1, <1>2, <1>3, <1>4, <1>5, <1>6, <1>7, <1>8, <1>9, <1>10, <1>11, <1>12, <1>13, <1>14,
       <1>15, <1>16, <1>17, <1>18, <1>19, <1>20, <1>21 DEF WorkerStep, Round

LEMMA InvInit == Init => IInv
  BY TypeInit, TransactionsAssumption
     DEF Init, IInv, Halves, WorkerHalf, RequestHalf, Writing, Entering, Whole, Empty, Committed,
         Hands, InHand, Delivered

LEMMA WholeNext ==
  ASSUME IType, Halves, Whole, Hands,
         (\E r \in Row : RequestStep(r)) \/ (\E w \in Worker : WorkerStep(w))
  PROVE  Whole'
  <1> USE DEF Whole
  <1>0. db \in Tables
    BY DEF IType, TypeOK
  <1>1. ASSUME NEW r \in Row, RequestStep(r) PROVE Whole'
    <2>1. CASE db' = db /\ Committed' = Committed
      BY <2>1
    <2>2. CASE /\ db' = EnqueuedBy(r)
               /\ Committed' = Committed \cup {r} /\ r \notin Committed
      <3>1. /\ db'.business = db.business \cup {r} /\ db'.outbox = db.outbox \cup {r}
            /\ db'.deleted = db.deleted /\ db'.claimed = db.claimed
            /\ db'.published = db.published
        BY <1>0, <2>2 DEF EnqueuedBy, Tables
      <3> QED
        BY <2>2, <3>1
    <2> QED
      BY <1>1, <2>1, <2>2, RequestEffect
  <1>2. ASSUME NEW w \in Worker, WorkerStep(w) PROVE Whole'
    <2>1. Committed' = Committed
      BY <1>2, WorkerStatement DEF Committed
    <2>2. CASE db' = db
      BY <2>1, <2>2
    <2>3. CASE db' = ClaimedBy(w) /\ todo[w] \subseteq Unclaimed(db)
      BY <1>0, <2>1, <2>3 DEF ClaimedBy, Unclaimed, Tables
    <2>4. CASE db' = MarkedBy(w) /\ sent[w] \subseteq InHand(w)
      BY <1>0, <2>1, <2>4 DEF MarkedBy, Hands, Tables
    <2>5. CASE db' = ReleasedBy(w)
      BY <1>0, <2>1, <2>5 DEF ReleasedBy, Tables
    <2>6. CASE \E S \in SUBSET db.published : db' = EvictedOf(S)
      BY <1>0, <2>1, <2>6 DEF EvictedOf, Tables
    <2> QED
      BY <1>2, <2>2, <2>3, <2>4, <2>5, <2>6, WorkerEffect
  <1> QED
    BY <1>1, <1>2

\* A claim takes rows that nobody has in hand, since those are claimed; nobody but
\* its worker takes a claim away, and evictions take published rows only.
LEMMA HandsNext ==
  ASSUME IType, Halves, Whole, Hands,
         (\E r \in Row : RequestStep(r)) \/ (\E w \in Worker : WorkerStep(w))
  PROVE  Hands'
  <1>0. db \in Tables
    BY DEF IType, TypeOK
  <1>1. ASSUME NEW r \in Row, RequestStep(r) PROVE Hands'
    <2>1. db'.claimed = db.claimed
      BY <1>0, <1>1, RequestEffect DEF EnqueuedBy, Tables
    <2>2. \A w \in Worker : InHand(w)' = InHand(w)
      BY <1>1, RequestStatement DEF InHand, workerVars
    <2> QED
      BY <2>1, <2>2 DEF Hands
  <1>2. ASSUME NEW w \in Worker, WorkerStep(w) PROVE Hands'
    <2>1. \A v \in Worker \ {w} : InHand(v)' = InHand(v)
      BY <1>2, WorkerStatement DEF InHand
    <2>2. CASE db' = db /\ InHand(w)' \subseteq InHand(w)
      BY <2>1, <2>2 DEF Hands
    <2>3. CASE db' = ClaimedBy(w) /\ todo[w] \subseteq Unclaimed(db) /\ InHand(w)' = todo[w]
      <3>1. db'.claimed = db.claimed \cup todo[w] /\ todo[w] \cap db.claimed = {}
        BY <1>0, <2>3 DEF ClaimedBy, Unclaimed, Tables
      <3> QED
        BY <2>1, <2>3, <3>1 DEF Hands
    <2>4. CASE db' = MarkedBy(w) /\ sent[w] \subseteq InHand(w) /\ InHand(w)' = InHand(w) \ sent[w]
      <3>1. db'.claimed = db.claimed \ sent[w]
        BY <1>0, <2>4 DEF MarkedBy, Tables
      <3> QED
        BY <2>1, <2>4, <3>1 DEF Hands
    <2>5. CASE db' = ReleasedBy(w) /\ unsent[w] = InHand(w) /\ InHand(w)' = {}
      <3>1. db'.claimed = db.claimed \ (unsent[w] \ db.published)
        BY <1>0, <2>5 DEF ReleasedBy, Tables
      <3> QED
        BY <2>1, <2>5, <3>1 DEF Hands
    <2>6. ASSUME NEW S \in SUBSET db.published, db' = EvictedOf(S), InHand(w)' = {} PROVE Hands'
      <3>1. db'.claimed = db.claimed \ S
        BY <1>0, <2>6 DEF EvictedOf, Tables
      <3>2. S \cap db.claimed = {}
        BY DEF Whole
      <3> QED
        BY <2>1, <2>6, <3>1, <3>2 DEF Hands
    <2> QED
      BY <1>2, <2>2, <2>3, <2>4, <2>5, <2>6, WorkerEffect
  <1> QED
    BY <1>1, <1>2

\* publish() works on rows in hand, whose requests are committed; what is sent was
\* delivered.
LEMMA PublishDelivers ==
  ASSUME IType, Whole, Hands, NEW w \in Worker, NEW r \in Row, Publish(w, r)
  PROVE  /\ r \in db.claimed
         /\ db' = db
         /\ \/ sent' = sent /\ deliveries' = deliveries
            \/ /\ sent' = [sent EXCEPT ![w] = sent[w] \cup {r}]
               /\ deliveries' = [deliveries EXCEPT ![r] = IF @ = 2 THEN 2 ELSE @ + 1]
  BY DEF IType, TypeOK, Publish, Oldest, InHand, Hands, dbVars

LEMMA SentShrinks ==
  ASSUME IType, NEW w \in Worker, WorkerStep(w), ~\E r \in Row : Publish(w, r)
  PROVE  deliveries' = deliveries /\ \A v \in Worker : sent'[v] \subseteq sent[v]
  <1> USE DEF IType, TypeOK, batchVars, Drop
  <1>1. CASE BeginClaim(w)
    BY <1>1 DEF BeginClaim
  <1>2. CASE Reclaim(w)
    BY <1>2 DEF Reclaim
  <1>3. CASE Select(w)
    BY <1>3 DEF Select
  <1>4. CASE SetClaims(w)
    BY <1>4 DEF SetClaims
  <1>5. CASE Fetch(w)
    BY <1>5 DEF Fetch
  <1>6. CASE CommitClaim(w)
    BY <1>6 DEF CommitClaim
  <1>7. CASE RollbackClaim(w)
    BY <1>7 DEF RollbackClaim
  <1>8. CASE Mark(w)
    BY <1>8 DEF Mark
  <1>9. CASE CommitMark(w)
    BY <1>9 DEF CommitMark
  <1>10. CASE Release(w)
    BY <1>10 DEF Release
  <1>11. CASE CommitRelease(w)
    BY <1>11 DEF CommitRelease
  <1>12. CASE StorageError(w)
    BY <1>12 DEF StorageError
  <1>13. CASE BeginEviction(w)
    BY <1>13 DEF BeginEviction
  <1>14. CASE Delete(w)
    BY <1>14 DEF Delete
  <1>15. CASE RollbackDelete(w)
    BY <1>15 DEF RollbackDelete
  <1>16. CASE CommitDelete(w)
    BY <1>16 DEF CommitDelete
  <1>17. CASE End(w)
    BY <1>17 DEF End
  <1>18. CASE Start(w)
    BY <1>18 DEF Start
  <1>19. CASE Stop(w)
    BY <1>19 DEF Stop
  <1>20. CASE Cancel(w)
    BY <1>20 DEF Cancel
  <1> QED
    BY <1>1, <1>2, <1>3, <1>4, <1>5, <1>6, <1>7, <1>8, <1>9, <1>10, <1>11, <1>12, <1>13, <1>14,
       <1>15, <1>16, <1>17, <1>18, <1>19, <1>20 DEF WorkerStep, Round

LEMMA DeliveredNext ==
  ASSUME IType, Halves, Whole, Hands, Delivered,
         (\E r \in Row : RequestStep(r)) \/ (\E w \in Worker : WorkerStep(w))
  PROVE  Delivered'
  <1>1. ASSUME NEW r \in Row, RequestStep(r) PROVE Delivered'
    <2>1. Committed \subseteq Committed'
      BY <1>1, RequestEffect
    <2> QED
      BY <1>1, <2>1, RequestStatement DEF Delivered, workerVars
  <1>2. ASSUME NEW w \in Worker, WorkerStep(w) PROVE Delivered'
    <2>1. Committed' = Committed
      BY <1>2, WorkerStatement DEF Committed
    <2>2. ASSUME NEW r \in Row, Publish(w, r) PROVE Delivered'
      <3>1. r \in Committed
        BY <2>2, PublishDelivers DEF Whole
      <3> QED
        BY <2>1, <2>2, <3>1, PublishDelivers DEF Delivered, IType, TypeOK
    <2>3. CASE ~\E r \in Row : Publish(w, r)
      BY <1>2, <2>1, <2>3, SentShrinks DEF Delivered
    <2> QED
      BY <2>2, <2>3
  <1> QED
    BY <1>1, <1>2

LEMMA InvNext == OneOwner /\ IInv /\ [Next]_vars => IInv'
  <1> SUFFICES ASSUME OneOwner, IInv, [Next]_vars PROVE IInv'
    OBVIOUS
  <1>1. IType'
    BY TypeNext DEF IInv
  <1>2. CASE UNCHANGED vars
    <2>1. Halves'
      BY <1>2 DEF IInv, vars, Halves, WorkerHalf, RequestHalf, ClaimedBy, MarkedBy, ReleasedBy,
         EvictedOf, InsertedBy, EnqueuedBy, Unclaimed
    <2>2. Whole' /\ Hands' /\ Delivered'
      BY <1>2 DEF IInv, vars, Whole, Committed, Hands, InHand, Delivered
    <2> QED
      BY <1>1, <2>1, <2>2 DEF IInv
  <1>3. ASSUME (\E r \in Row : RequestStep(r)) \/ (\E w \in Worker : WorkerStep(w)) PROVE IInv'
    <2>1. Halves'
      BY <1>3, RequestHalves, WorkerHalves DEF IInv
    <2>2. Whole' /\ Hands' /\ Delivered'
      BY <1>3, WholeNext, HandsNext, DeliveredNext DEF IInv
    <2> QED
      BY <1>1, <2>1, <2>2 DEF IInv
  <1> QED
    BY <1>2, <1>3 DEF Next, RequestStep, WorkerStep

LEMMA Invariance == ASSUME OneOwner PROVE Spec => []IInv
  <1>1. IInv /\ [Next]_vars => IInv'
    BY InvNext
  <1> QED
    BY InvInit, <1>1, PTL DEF Spec

-----------------------------------------------------------------------------
(* Results.                                                                *)

\* README, "Ensuring atomicity": business data and message are committed together
\* or not at all, and no message is delivered before, whatever is interleaved.
THEOREM Atomic == ASSUME OneOwner PROVE Spec => []RequestsAtomic
  <1>1. IInv => RequestsAtomic
    BY DEF IInv, IType, TypeOK, Whole, Delivered, Committed, RequestsAtomic
  <1> QED
    BY Invariance, <1>1, PTL

\* No two workers have a message in hand, and who publishes or marks one holds its
\* claim, although a claim takes several statements (sqlite.py:41-91).
THEOREM Exclusive == ASSUME OneOwner PROVE Spec => []ClaimsExclusive
  <1>1. IInv => ClaimsExclusive
    BY DEF IInv, Hands, ClaimsExclusive
  <1> QED
    BY Invariance, <1>1, PTL

-----------------------------------------------------------------------------
(* The delivery contract.                                                  *)

LEMMA StatusStays ==
  ASSUME NEW r \in Row, deliveries'[r] = deliveries[r],
         r \in db.deleted <=> r \in db'.deleted,
         r \in db.published <=> r \in db'.published,
         r \in db.outbox <=> r \in db'.outbox
  PROVE  StatusOf(r)' = StatusOf(r)
  BY DEF StatusOf

LEMMA StatusMoves ==
  ASSUME NEW S \in SUBSET Row, NEW from, NEW to,
         \A r \in S : StatusOf(r) = from /\ StatusOf(r)' = to,
         \A r \in Row \ S : StatusOf(r)' = StatusOf(r)
  PROVE  Contract!Move(S, from, to)
  <1>1. \A r \in S : Status[r] = from
    BY DEF Status
  <1>2. Status' = [r \in Row |-> IF r \in S THEN to ELSE Status[r]]
    BY DEF Status
  <1> QED
    BY <1>1, <1>2 DEF Contract!Move

LEMMA ContractInit == Init => Contract!Init
  BY DEF Init, Empty, StatusOf, Status, Contract!Init

LEMMA RequestKeepsContract ==
  ASSUME IInv, NEW r \in Row, RequestStep(r)
  PROVE  Contract!Next \/ Status' = Status
  <1>0. db \in Tables /\ deliveries \in [Row -> 0..2] /\ deliveries' = deliveries
    BY RequestStatement DEF IInv, IType, TypeOK, workerVars
  <1>1. CASE db' = db
    BY <1>0, <1>1, StatusStays DEF Status
  <1>2. CASE db' = EnqueuedBy(r) /\ r \notin Committed
    <2>1. /\ r \notin db.outbox \cup db.deleted \cup db.published /\ deliveries[r] = 0
          /\ db'.outbox = db.outbox \cup {r} /\ db'.deleted = db.deleted
          /\ db'.published = db.published
      BY <1>0, <1>2 DEF IInv, Whole, Delivered, EnqueuedBy, Tables
    <2>2. StatusOf(r) = "absent"
      BY <2>1 DEF StatusOf
    <2>3. StatusOf(r)' = "pending"
      BY <1>0, <2>1 DEF StatusOf
    <2>4. \A s \in Row \ {r} : StatusOf(s)' = StatusOf(s)
      BY <1>0, <2>1, StatusStays
    <2>5. Contract!Enqueue(r)
      BY <2>2, <2>3, <2>4, StatusMoves DEF Contract!Enqueue
    <2> QED
      BY <2>5 DEF Contract!Next
  <1> QED
    BY <1>1, <1>2, RequestEffect DEF IInv

LEMMA PublishKeepsContract ==
  ASSUME IInv, NEW w \in Worker, NEW r \in Row, Publish(w, r)
  PROVE  Contract!Next \/ Status' = Status
  <1>0. deliveries \in [Row -> 0..2]
    BY DEF IInv, IType, TypeOK
  <1>1. /\ db' = db /\ r \in db.outbox \ (db.published \cup db.deleted)
        /\ \/ deliveries' = deliveries
           \/ deliveries' = [deliveries EXCEPT ![r] = IF @ = 2 THEN 2 ELSE @ + 1]
    BY PublishDelivers DEF IInv, Whole
  <1>2. \A s \in Row \ {r} : StatusOf(s)' = StatusOf(s)
    BY <1>0, <1>1, StatusStays
  <1>3. CASE deliveries'[r] # 0 /\ deliveries[r] = 0
    <2>1. StatusOf(r) = "pending" /\ StatusOf(r)' = "delivered"
      BY <1>1, <1>3 DEF StatusOf
    <2>2. Contract!Deliver(r)
      BY <1>2, <2>1, StatusMoves DEF Contract!Deliver
    <2> QED
      BY <2>2 DEF Contract!Next
  <1>4. CASE deliveries'[r] # 0 <=> deliveries[r] # 0
    <2>1. StatusOf(r)' = StatusOf(r)
      BY <1>1, <1>4 DEF StatusOf
    <2> QED
      BY <1>2, <2>1 DEF Status
  <1> QED
    BY <1>0, <1>1, <1>3, <1>4

LEMMA WorkerKeepsContract ==
  ASSUME IInv, NEW w \in Worker, WorkerStep(w), ~\E r \in Row : Publish(w, r)
  PROVE  Contract!Next \/ Status' = Status
  <1>0. db \in Tables /\ deliveries' = deliveries
    BY SentShrinks DEF IInv, IType, TypeOK
  <1>1. ASSUME db'.outbox = db.outbox, db'.deleted = db.deleted, db'.published = db.published
        PROVE  Status' = Status
    BY <1>0, <1>1, StatusStays DEF Status
  <1>2. CASE db' = db
    BY <1>1, <1>2
  <1>3. CASE db' = ClaimedBy(w) \/ db' = ReleasedBy(w)
    BY <1>0, <1>1, <1>3 DEF ClaimedBy, ReleasedBy, Tables
  <1>4. CASE db' = MarkedBy(w) /\ sent[w] \subseteq InHand(w)
    <2>1. /\ sent[w] \in SUBSET Row
          /\ \A r \in sent[w] : /\ r \in db.outbox \ (db.published \cup db.deleted)
                                /\ deliveries[r] # 0
      BY <1>4 DEF IInv, IType, TypeOK, Hands, Whole, Delivered
    <2>2. /\ db'.outbox = db.outbox /\ db'.deleted = db.deleted
          /\ db'.published = db.published \cup sent[w]
      BY <1>0, <1>4, <2>1 DEF MarkedBy, Tables
    <2>3. \A r \in sent[w] : StatusOf(r) = "delivered" /\ StatusOf(r)' = "published"
      BY <1>0, <2>1, <2>2 DEF StatusOf
    <2>4. \A r \in Row \ sent[w] : StatusOf(r)' = StatusOf(r)
      BY <1>0, <2>2, StatusStays
    <2>5. Contract!Confirm(sent[w])
      BY <2>1, <2>3, <2>4, StatusMoves DEF Contract!Confirm
    <2> QED
      BY <2>1, <2>5 DEF Contract!Next
  <1>5. ASSUME NEW S \in SUBSET db.published, db' = EvictedOf(S)
        PROVE  Contract!Next
    <2>1. /\ S \in SUBSET Row /\ S \cap db.deleted = {} /\ S \subseteq db.outbox
          /\ db.outbox \cap db.deleted = {}
          /\ db'.outbox = db.outbox \ S /\ db'.deleted = db.deleted \cup S
          /\ db'.published = db.published \ S
      BY <1>0, <1>5 DEF IInv, Whole, EvictedOf, Tables
    <2>2. \A r \in S : StatusOf(r) = "published" /\ StatusOf(r)' = "gone"
      BY <2>1 DEF StatusOf
    <2>3. \A r \in Row \ S : StatusOf(r)' = StatusOf(r)
      BY <1>0, <2>1, StatusStays
    <2>4. Contract!Evict(S)
      BY <2>1, <2>2, <2>3, StatusMoves DEF Contract!Evict
    <2> QED
      BY <2>1, <2>4 DEF Contract!Next
  <1> QED
    BY <1>2, <1>3, <1>4, <1>5, WorkerEffect DEF IInv

LEMMA ContractNext == IInv /\ [Next]_vars => [Contract!Next]_Status
  <1> SUFFICES ASSUME IInv, [Next]_vars PROVE Contract!Next \/ Status' = Status
    OBVIOUS
  <1>1. CASE UNCHANGED vars
    <2>1. \A r \in Row : StatusOf(r)' = StatusOf(r)
      BY <1>1, StatusStays DEF vars
    <2> QED
      BY <2>1 DEF Status
  <1> QED
    BY <1>1, RequestKeepsContract, PublishKeepsContract, WorkerKeepsContract
       DEF Next, RequestStep, WorkerStep

\* Statement by statement, with transactions that are cancelled, fail or are never
\* ended, the committed table keeps the contract of the README's outbox support.
THEOREM Delivers == ASSUME OneOwner PROVE Spec => KeepsDeliveryContract
  <1> QED
    BY Invariance, ContractInit, ContractNext, PTL
       DEF Spec, KeepsDeliveryContract, Contract!Spec

=============================================================================
