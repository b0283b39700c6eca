------------------------- MODULE OutboxTransactions -------------------------
(***************************************************************************)
(* The outbox one SQL statement at a time: src/dispatchbus/outbox/sqlite.py*)
(* and processor.py.                                                       *)
(*                                                                         *)
(* OutboxTable makes one step of each storage method.  Here every "await"  *)
(* on the connection is a step of its own, so that the statements of the   *)
(* workers, of the evictions and of the requests that enqueue() messages   *)
(* interleave, on connections of their own or on a shared one; a worker is *)
(* started, stopped, and cancelled in the middle of a transaction when the *)
(* caller of stop() gives up.  No claim grows stale here: time is Outbox's *)
(* subject.                                                                *)
(*                                                                         *)
(* External, as the code relies on it: a connection opens a transaction at *)
(* BEGIN, which raises inside one, or at the first statement that writes;  *)
(* commit() and rollback() end it whoever opened it.  One connection at a  *)
(* time holds uncommitted changes; another one that wants to write waits,  *)
(* or raises when the busy timeout is over.                                *)
(***************************************************************************)
EXTENDS Naturals, FiniteSets

CONSTANTS
  Worker,        \* OutboxWorkers
  Row,           \* requests, each of which stores business data and a message;
                 \* numbered in the order of created_at
  Connection,    \* aiosqlite connections
  ConnectionOf,  \* worker or request -> the connection its storage uses
  None,
  BatchSize,     \* batch_size
  MaxStarts      \* bound of the model: calls of start() in a run

ASSUME TransactionsAssumption ==
  /\ ConnectionOf \in [Worker \cup Row -> Connection]
  /\ Row \subseteq Nat
  /\ Worker \cap Row = {}
  /\ None \notin Connection
  /\ BatchSize \in Nat \ {0}
  /\ MaxStarts \in Nat

VARIABLES
  db,           \* what is committed
  view,         \* what the connection with uncommitted changes sees
  writer,       \* that connection, or None
  open,         \* connections in a transaction
  request,      \* request -> how far it is
  at,           \* worker -> its next statement, "off" without a running task
  todo,         \* worker -> rows selected, claimed, and not yet tried
  sent,         \* worker -> published_ids
  unsent,       \* worker -> failed_ids
  evicted,      \* workers whose _last_eviction_run is set
  stopEvent,    \* workers whose _stop_event is set
  stopping,     \* workers whose stop() is awaited by somebody
  starts,       \* calls of start() so far
  deliveries    \* row -> publish() calls that returned: none, one, more

dbVars == <<db, view, writer, open>>
batchVars == <<todo, sent, unsent>>
controlVars == <<stopEvent, stopping, starts>>
vars == <<db, view, writer, open, request, at, todo, sent, unsent, evicted,
          stopEvent, stopping, starts, deliveries>>

\* Rows of the business table, rows of the outbox, rows deleted from it, and
\* those whose claimed_at or published_at is set.
Tables == [business : SUBSET Row, outbox : SUBSET Row, deleted : SUBSET Row,
           claimed : SUBSET Row, published : SUBSET Row]

Statement == {"off", "top", "reclaim", "select", "claim", "fetch", "commitClaim",
              "publish", "mark", "commitMark", "release", "commitRelease",
              "evict", "delete", "commitDelete"}

TypeOK ==
  /\ db \in Tables /\ view \in Tables
  /\ writer \in Connection \cup {None}
  /\ open \in SUBSET Connection
  /\ writer # None => writer \in open
  /\ writer = None => view = db
  /\ request \in [Row -> {"new", "begun", "inserted", "enqueued", "failing",
                          "committed", "failed"}]
  /\ at \in [Worker -> Statement]
  /\ todo \in [Worker -> SUBSET Row]
  /\ sent \in [Worker -> SUBSET Row]
  /\ unsent \in [Worker -> SUBSET Row]
  /\ evicted \in SUBSET Worker
  /\ stopEvent \in SUBSET Worker
  /\ stopping \in SUBSET Worker
  /\ starts \in 0..MaxStarts
  /\ deliveries \in [Row -> 0..2]
  /\ \A w \in Worker :
       /\ at[w] = "publish" => todo[w] # {}
       /\ at[w] = "mark" => sent[w] # {}
       /\ at[w] = "release" => sent[w] = {} /\ unsent[w] # {}
       /\ at[w] \in {"off", "top", "evict"} => sent[w] = {} /\ unsent[w] = {}

Empty == [business |-> {}, outbox |-> {}, deleted |-> {}, claimed |-> {},
          published |-> {}]

Init ==
  /\ db = Empty /\ view = Empty
  /\ writer = None
  /\ open = {}
  /\ request = [r \in Row |-> "new"]
  /\ at = [w \in Worker |-> "off"]
  /\ todo = [w \in Worker |-> {}]
  /\ sent = [w \in Worker |-> {}]
  /\ unsent = [w \in Worker |-> {}]
  /\ evicted = {}
  /\ stopEvent = {}
  /\ stopping = {}
  /\ starts = 0
  /\ deliveries = [r \in Row |-> 0]

-----------------------------------------------------------------------------
(* Statements on a connection.                                             *)

Seen(c) == IF writer = c THEN view ELSE db

Begin(c) ==
  /\ c \notin open
  /\ open' = open \cup {c}
  /\ UNCHANGED <<db, view, writer>>

\* Another connection holds uncommitted changes.
Locked(c) == writer \notin {None, c}

\* A statement that writes opens a transaction where there is none.
Write(c, tables) ==
  /\ ~Locked(c)
  /\ view' = tables
  /\ writer' = c
  /\ open' = open \cup {c}
  /\ UNCHANGED db

Commit(c) ==
  /\ db' = Seen(c)
  /\ UNCHANGED view
  /\ writer' = IF writer = c THEN None ELSE writer
  /\ open' = open \ {c}

Rollback(c) ==
  /\ view' = IF writer = c THEN db ELSE view
  /\ writer' = IF writer = c THEN None ELSE writer
  /\ open' = open \ {c}
  /\ UNCHANGED db

-----------------------------------------------------------------------------
(* A request: business data and enqueue() in one transaction.              *)

Reach(r, stage) == request' = [request EXCEPT ![r] = stage]

workerVars == <<at, todo, sent, unsent, evicted, stopEvent, stopping, starts,
                deliveries>>

\* BEGIN stands before the try block: where it raises, the request is over.
BeginRequest(r) ==
  /\ request[r] = "new"
  /\ \/ Begin(ConnectionOf[r]) /\ Reach(r, "begun")
     \/ ConnectionOf[r] \in open /\ Reach(r, "failed") /\ UNCHANGED dbVars
  /\ UNCHANGED workerVars

InsertBusiness(r) ==
  /\ request[r] = "begun"
  /\ Write(ConnectionOf[r],
           [Seen(ConnectionOf[r]) EXCEPT !.business = @ \cup {r}])
  /\ Reach(r, "inserted")
  /\ UNCHANGED workerVars

Enqueue_Commits(r) ==
  /\ request[r] = "inserted"
  /\ ~Locked(ConnectionOf[r])
  /\ db' = [Seen(ConnectionOf[r]) EXCEPT !.outbox = @ \cup {r}]
  /\ view' = db'
  /\ writer' = None
  /\ open' = open \ {ConnectionOf[r]}
  /\ Reach(r, "enqueued")
  /\ UNCHANGED workerVars

\* enqueue(), which does not commit
Enqueue(r) ==
  /\ request[r] = "inserted"
  /\ Write(ConnectionOf[r],
           [Seen(ConnectionOf[r]) EXCEPT !.outbox = @ \cup {r}])
  /\ Reach(r, "enqueued")
  /\ UNCHANGED workerVars

CommitRequest(r) ==
  /\ request[r] = "enqueued"
  /\ Commit(ConnectionOf[r])
  /\ Reach(r, "committed")
  /\ UNCHANGED workerVars

\* The serializer, the database or the application raises.
FailRequest(r) ==
  /\ request[r] \in {"begun", "inserted", "enqueued"}
  /\ Reach(r, "failing")
  /\ UNCHANGED <<dbVars, workerVars>>

RollbackRequest(r) ==
  /\ request[r] = "failing"
  /\ Rollback(ConnectionOf[r])
  /\ Reach(r, "failed")
  /\ UNCHANGED workerVars

-----------------------------------------------------------------------------
(* process_batch() of a worker, statement by statement.                    *)

Go(w, statement) == at' = [at EXCEPT ![w] = statement]

Drop(w) ==
  /\ todo' = [todo EXCEPT ![w] = {}]
  /\ sent' = [sent EXCEPT ![w] = {}]
  /\ unsent' = [unsent EXCEPT ![w] = {}]

othersKeep == <<request, evicted, stopEvent, stopping, starts>>

\* BEGIN raises inside a transaction, and the loop goes on to the eviction.
BeginClaim(w) ==
  /\ at[w] = "top" /\ w \notin stopEvent
  /\ \/ Begin(ConnectionOf[w]) /\ Go(w, "reclaim")
     \/ ConnectionOf[w] \in open /\ Go(w, "evict") /\ UNCHANGED dbVars
  /\ UNCHANGED <<batchVars, othersKeep, deliveries>>

\* UPDATE of the stale claims, of which there are none; it takes the write lock.
Reclaim(w) ==
  /\ at[w] = "reclaim"
  /\ Write(ConnectionOf[w], Seen(ConnectionOf[w]))
  /\ Go(w, "select")
  /\ UNCHANGED <<batchVars, othersKeep, deliveries>>

Unclaimed_Pending(tables) == tables.outbox \ tables.published

\* Rows a worker may claim, as a connection sees them.
Unclaimed(tables) == tables.outbox \ (tables.claimed \cup tables.published)

\* ORDER BY created_at ASC LIMIT n
Oldest(S, n) == {r \in S : Cardinality({s \in S : s < r}) < n}

Select(w) ==
  /\ at[w] = "select"
  /\ LET ids == Oldest(Unclaimed(Seen(ConnectionOf[w])), BatchSize) IN
       /\ todo' = [todo EXCEPT ![w] = ids]
       /\ Go(w, IF ids = {} THEN "commitClaim" ELSE "claim")
  /\ UNCHANGED <<dbVars, sent, unsent, othersKeep, deliveries>>

\* UPDATE of those that are still unclaimed, with a time stamp to know them by
SetClaims(w) ==
  /\ at[w] = "claim"
  /\ LET tables == Seen(ConnectionOf[w])
         mine == todo[w] \cap Unclaimed(tables)
     IN /\ Write(ConnectionOf[w], [tables EXCEPT !.claimed = @ \cup mine])
        /\ todo' = [todo EXCEPT ![w] = mine]
  /\ Go(w, "fetch")
  /\ UNCHANGED <<sent, unsent, othersKeep, deliveries>>

\* The rows that carry the time stamp.
Fetch(w) ==
  /\ at[w] = "fetch"
  /\ todo' = [todo EXCEPT ![w] = @ \cap Seen(ConnectionOf[w]).claimed]
  /\ Go(w, "commitClaim")
  /\ UNCHANGED <<dbVars, sent, unsent, othersKeep, deliveries>>

CommitClaim(w) ==
  /\ at[w] = "commitClaim"
  /\ Commit(ConnectionOf[w])
  /\ Go(w, IF todo[w] = {} THEN "evict" ELSE "publish")
  /\ UNCHANGED <<batchVars, othersKeep, deliveries>>

\* A statement of the claim raises and the transaction is rolled back.
RollbackClaim(w) ==
  /\ at[w] \in {"reclaim", "claim"}
  /\ Locked(ConnectionOf[w])
  /\ Rollback(ConnectionOf[w])
  /\ Drop(w)
  /\ Go(w, "evict")
  /\ UNCHANGED <<othersKeep, deliveries>>

After_AlwaysMark(w, more, anySent) == Go(w, IF more THEN "publish" ELSE "mark")

After(w, more, anySent) ==
  Go(w, IF more THEN "publish" ELSE IF anySent THEN "mark" ELSE "release")

Publish(w, r) ==
  /\ at[w] = "publish"
  /\ r \in Oldest(todo[w], 1)
  /\ todo' = [todo EXCEPT ![w] = todo[w] \ {r}]
  /\ \/ /\ sent' = [sent EXCEPT ![w] = sent[w] \cup {r}]
        /\ deliveries' = [deliveries EXCEPT ![r] = IF @ = 2 THEN 2 ELSE @ + 1]
        /\ After(w, todo[w] # {r}, TRUE)
        /\ UNCHANGED unsent
     \/ /\ unsent' = [unsent EXCEPT ![w] = unsent[w] \cup {r}]
        /\ After(w, todo[w] # {r}, sent[w] # {})
        /\ UNCHANGED <<sent, deliveries>>
  /\ UNCHANGED <<dbVars, othersKeep>>

Mark_WholeBatch(w) ==
  /\ at[w] = "mark"
  /\ LET tables == Seen(ConnectionOf[w]) IN
       Write(ConnectionOf[w],
             [tables EXCEPT !.claimed = @ \ sent[w],
                            !.published = @ \cup ((sent[w] \cup unsent[w]) \cap tables.outbox)])
  /\ Go(w, "commitMark")
  /\ UNCHANGED <<batchVars, othersKeep, deliveries>>

\* mark_as_published()
Mark(w) ==
  /\ at[w] = "mark"
  /\ LET tables == Seen(ConnectionOf[w]) IN
       Write(ConnectionOf[w],
             [tables EXCEPT !.claimed = @ \ sent[w],
                            !.published = @ \cup (sent[w] \cap tables.outbox)])
  /\ Go(w, "commitMark")
  /\ UNCHANGED <<batchVars, othersKeep, deliveries>>

CommitMark(w) ==
  /\ at[w] = "commitMark"
  /\ Commit(ConnectionOf[w])
  /\ sent' = [sent EXCEPT ![w] = {}]
  /\ Go(w, IF unsent[w] = {} THEN "evict" ELSE "release")
  /\ UNCHANGED <<todo, unsent, othersKeep, deliveries>>

\* release_claims()
Release(w) ==
  /\ at[w] = "release"
  /\ LET tables == Seen(ConnectionOf[w]) IN
       Write(ConnectionOf[w],
             [tables EXCEPT !.claimed = @ \ (unsent[w] \ tables.published)])
  /\ Go(w, "commitRelease")
  /\ UNCHANGED <<batchVars, othersKeep, deliveries>>

CommitRelease(w) ==
  /\ at[w] = "commitRelease"
  /\ Commit(ConnectionOf[w])
  /\ Drop(w)
  /\ Go(w, "evict")
  /\ UNCHANGED <<othersKeep, deliveries>>

\* The UPDATE of either method raises after its transaction was opened: nothing
\* ends the transaction, and the batch is forgotten.
StorageError(w) ==
  /\ at[w] \in {"mark", "release"}
  /\ Locked(ConnectionOf[w])
  /\ open' = open \cup {ConnectionOf[w]}
  /\ Drop(w)
  /\ Go(w, "evict")
  /\ UNCHANGED <<db, view, writer, othersKeep, deliveries>>

-----------------------------------------------------------------------------
(* Eviction, at the end of a round: _maybe_run_eviction().                 *)

\* Due in the first round, later when the interval is over.  Skipped where BEGIN
\* raises; _last_eviction_run is set by an eviction that succeeded.
BeginEviction(w) ==
  /\ at[w] = "evict"
  /\ \/ w \in evicted /\ Go(w, "top") /\ UNCHANGED dbVars
     \/ Begin(ConnectionOf[w]) /\ Go(w, "delete")
     \/ ConnectionOf[w] \in open /\ Go(w, "top") /\ UNCHANGED dbVars
  /\ UNCHANGED <<batchVars, othersKeep, deliveries>>

\* The DELETEs: rows that are old enough, or more than the policy keeps.
Delete(w) ==
  /\ at[w] = "delete"
  /\ LET tables == Seen(ConnectionOf[w]) IN
       \E S \in SUBSET tables.published :
         Write(ConnectionOf[w],
               [tables EXCEPT !.outbox = @ \ S, !.published = @ \ S,
                              !.claimed = @ \ S, !.deleted = @ \cup S])
  /\ Go(w, "commitDelete")
  /\ UNCHANGED <<batchVars, othersKeep, deliveries>>

RollbackDelete(w) ==
  /\ at[w] = "delete"
  /\ Locked(ConnectionOf[w])
  /\ Rollback(ConnectionOf[w])
  /\ Go(w, "top")
  /\ UNCHANGED <<batchVars, othersKeep, deliveries>>

CommitDelete(w) ==
  /\ at[w] = "commitDelete"
  /\ Commit(ConnectionOf[w])
  /\ evicted' = evicted \cup {w}
  /\ Go(w, "top")
  /\ UNCHANGED <<request, controlVars, batchVars, deliveries>>

-----------------------------------------------------------------------------
(* start() and stop().                                                     *)

\* It raises when the task of an earlier start() is not done.
Start(w) ==
  /\ at[w] = "off"
  /\ starts < MaxStarts
  /\ starts' = starts + 1
  /\ stopEvent' = stopEvent \ {w}
  /\ evicted' = evicted \ {w}
  /\ Go(w, "top")
  /\ UNCHANGED <<dbVars, request, batchVars, stopping, deliveries>>

Stop_OnlyWaits(w) ==
  /\ at[w] # "off" /\ w \notin stopEvent
  /\ stopping' = stopping \cup {w}
  /\ UNCHANGED <<dbVars, request, at, batchVars, evicted, stopEvent, starts, deliveries>>

\* It waits for the task, if one is running.
Stop(w) ==
  /\ w \notin stopEvent
  /\ stopEvent' = stopEvent \cup {w}
  /\ stopping' = IF at[w] = "off" THEN stopping ELSE stopping \cup {w}
  /\ UNCHANGED <<dbVars, request, at, batchVars, evicted, starts, deliveries>>

\* The loop finds the event set between two rounds, and its task ends.
End(w) ==
  /\ at[w] = "top" /\ w \in stopEvent
  /\ Go(w, "off")
  /\ stopping' = stopping \ {w}
  /\ UNCHANGED <<dbVars, request, batchVars, evicted, stopEvent, starts, deliveries>>

\* The caller of stop() is cancelled, by its timeout, and with it the task that it
\* awaits.  CancelledError is not an Exception: nothing is rolled back.
Cancel(w) ==
  /\ w \in stopping
  /\ Drop(w)
  /\ Go(w, "off")
  /\ stopping' = stopping \ {w}
  /\ UNCHANGED <<dbVars, request, evicted, stopEvent, starts, deliveries>>

-----------------------------------------------------------------------------
Round(w) ==
  \/ BeginClaim(w) \/ Reclaim(w) \/ Select(w) \/ SetClaims(w) \/ Fetch(w)
  \/ CommitClaim(w) \/ RollbackClaim(w)
  \/ \E r \in Row : Publish(w, r)
  \/ Mark(w) \/ CommitMark(w) \/ Release(w) \/ CommitRelease(w) \/ StorageError(w)
  \/ BeginEviction(w) \/ Delete(w) \/ RollbackDelete(w) \/ CommitDelete(w)
  \/ End(w)

Next ==
  \/ \E r \in Row :
       \/ BeginRequest(r) \/ InsertBusiness(r) \/ Enqueue(r) \/ CommitRequest(r)
       \/ FailRequest(r) \/ RollbackRequest(r)
  \/ \E w \in Worker : Round(w) \/ Start(w) \/ Stop(w) \/ Cancel(w)

Spec == Init /\ [][Next]_vars

\* The event loop runs every task, a statement waits at most for the busy timeout,
\* handlers return.  Nobody has to start or stop a worker.
FairSpec == Spec /\ \A w \in Worker : WF_vars(Round(w))

-----------------------------------------------------------------------------
(* Properties.                                                             *)

\* README, "Ensuring atomicity": the message "is written if and only if your
\* business data is saved".  What is committed agrees with what each request was
\* told, and no message is delivered whose request was not committed, whatever
\* the workers do between its statements (sqlite.py:171-211).
RequestsAtomic ==
  \A r \in Row :
    /\ r \in db.business <=> r \in db.outbox \cup db.deleted
    /\ r \in db.business <=> request[r] = "committed"
    /\ deliveries[r] > 0 => request[r] = "committed"

InHand(w) == (IF at[w] \in {"publish", "mark", "commitMark", "release", "commitRelease"}
              THEN todo[w] ELSE {}) \cup sent[w] \cup unsent[w]

\* Statement by statement, too, a claim is exclusive: while no claim is stale no
\* two workers have the same message in hand, and nobody releases, marks or evicts
\* the row of a message that another one is publishing (sqlite.py:41-91).
ClaimsExclusive ==
  /\ \A v, w \in Worker : v # w => InHand(v) \cap InHand(w) = {}
  /\ \A w \in Worker : at[w] \in {"publish", "mark"} => InHand(w) \subseteq db.claimed

\* What a reader of the committed table, and of the bus, can tell of each message.
StatusOf(r) ==
  CASE r \in db.deleted -> "gone"
    [] r \in db.published -> "published"
    [] r \in db.outbox \ db.published -> IF deliveries[r] = 0 THEN "pending" ELSE "delivered"
    [] OTHER -> "absent"

Status == [r \in Row |-> StatusOf(r)]

Contract == INSTANCE DeliveryContract WITH status <- Status

\* Transactions that are left half done, by an error, by a cancelled worker or by
\* a request that fails, never show: the committed table keeps DeliveryContract
\* (sqlite.py:41-91, 105-132, 138-167).
KeepsDeliveryContract == Contract!Spec

\* stop() returns, or its caller gave up, also when the connection of the worker
\* is stuck in a transaction and when the database is locked (processor.py:80-99).
StopReturns == \A w \in Worker : w \in stopping ~> w \notin stopping

=============================================================================
