------------------------------- MODULE Outbox -------------------------------
(***************************************************************************)
(* Outbox workers: src/dispatchbus/outbox/processor.py on OutboxTable.     *)
(*                                                                         *)
(* Each worker polls in a loop: it claims a batch, publishes the messages  *)
(* one after the other, marks those that succeeded and releases the rest,  *)
(* and evicts published rows between two batches.  Between the statements  *)
(* everything may happen: the other workers' statements, a claim running   *)
(* out, a crash.  A process that crashed comes back with nothing in hand.  *)
(* A worker whose storage call raised polls on, with a connection that is  *)
(* still in the transaction of that call.                                  *)
(***************************************************************************)
EXTENDS OutboxTable

CONSTANTS
  Worker,
  BatchSize,      \* batch_size
  Poison,         \* rows that can never be published: an unknown type, a payload
                  \* that does not deserialize, a handler that always raises
  MaxAbandon      \* bound of the model: crashes and storage errors in a run

ASSUME OutboxAssumption ==
  /\ IsFiniteSet(Worker)
  /\ BatchSize \in Nat \ {0}
  /\ Poison \subseteq Row
  /\ MaxAbandon \in Nat

VARIABLES
  phase,          \* worker -> where process_batch() is
  todo,           \* worker -> messages claimed, not yet tried
  sent,           \* worker -> published_ids
  unsent,         \* worker -> failed_ids
  deliveries,     \* row -> publish() calls that returned: none, one, more
  abandoned,      \* crashes and storage errors so far
  stuck,          \* workers whose connection is in a transaction nobody will end
  overdue         \* TRUE once a claim became stale before its batch was over

workVars == <<phase, todo, sent, unsent, stuck>>
vars == <<tableVars, workVars, deliveries, abandoned, overdue>>

TypeOK ==
  /\ TableTypeOK
  /\ phase \in [Worker -> {"idle", "publishing", "marking", "releasing"}]
  /\ todo \in [Worker -> SUBSET Row]
  /\ sent \in [Worker -> SUBSET Row]
  /\ unsent \in [Worker -> SUBSET Row]
  /\ deliveries \in [Row -> 0..2]
  /\ abandoned \in 0..MaxAbandon
  /\ stuck \in SUBSET Worker
  /\ overdue \in BOOLEAN
  /\ \A w \in Worker :
       /\ phase[w] = "publishing" <=> todo[w] # {}
       /\ phase[w] = "marking" => sent[w] # {}
       /\ phase[w] = "releasing" => sent[w] = {} /\ unsent[w] # {}
       /\ phase[w] = "idle" => sent[w] = {} /\ unsent[w] = {}

Init ==
  /\ TableInit
  /\ phase = [w \in Worker |-> "idle"]
  /\ todo = [w \in Worker |-> {}]
  /\ sent = [w \in Worker |-> {}]
  /\ unsent = [w \in Worker |-> {}]
  /\ deliveries = [r \in Row |-> 0]
  /\ abandoned = 0
  /\ stuck = {}
  /\ overdue = FALSE

InHand(w) == todo[w] \cup sent[w] \cup unsent[w]

\* Nothing is kept when process_batch() ends, however it ends.
Drop(w) ==
  /\ phase' = [phase EXCEPT ![w] = "idle"]
  /\ todo' = [todo EXCEPT ![w] = {}]
  /\ sent' = [sent EXCEPT ![w] = {}]
  /\ unsent' = [unsent EXCEPT ![w] = {}]

-----------------------------------------------------------------------------
Enqueue(r) ==
  /\ InsertRow(r)
  /\ UNCHANGED <<workVars, deliveries, abandoned, overdue>>

\* process_batch() begins; with nothing to claim it returns at once.  BEGIN raises,
\* as it does for the eviction, where a transaction is open already.
Claim(w) ==
  /\ phase[w] = "idle" /\ w \notin stuck
  /\ \E ids \in (SUBSET Row) \ {{}} :
       /\ ClaimRows(ids, BatchSize)
       /\ todo' = [todo EXCEPT ![w] = ids]
  /\ phase' = [phase EXCEPT ![w] = "publishing"]
  /\ UNCHANGED <<sent, unsent, deliveries, stuck, abandoned, overdue>>

\* Where process_batch() goes on after a message: the next one, then the marking
\* of those that were published, if any, then the release of the others.
After_AlwaysMark(more, anySent) == IF more THEN "publishing" ELSE "marking"
After(more, anySent) ==
  IF more THEN "publishing" ELSE IF anySent THEN "marking" ELSE "releasing"

\* The oldest message in hand, deserialized and published.
Publish(w, r) ==
  /\ phase[w] = "publishing"
  /\ r \in Oldest(todo[w], 1)
  /\ r \notin Poison
  /\ todo' = [todo EXCEPT ![w] = todo[w] \ {r}]
  /\ sent' = [sent EXCEPT ![w] = sent[w] \cup {r}]
  /\ deliveries' = [deliveries EXCEPT ![r] = IF @ = 2 THEN 2 ELSE @ + 1]
  /\ phase' = [phase EXCEPT ![w] = After(todo[w] # {r}, TRUE)]
  /\ UNCHANGED <<tableVars, unsent, stuck, abandoned, overdue>>

\* The same, with an exception: of deserialize(), of a handler, or of a bus that
\* is closing.
Fail(w, r) ==
  /\ phase[w] = "publishing"
  /\ r \in Oldest(todo[w], 1)
  /\ todo' = [todo EXCEPT ![w] = todo[w] \ {r}]
  /\ unsent' = [unsent EXCEPT ![w] = unsent[w] \cup {r}]
  /\ phase' = [phase EXCEPT ![w] = After(todo[w] # {r}, sent[w] # {})]
  /\ UNCHANGED <<tableVars, sent, deliveries, stuck, abandoned, overdue>>

Marked_All(w) == InHand(w)
Marked(w) == sent[w]

Mark(w) ==
  /\ phase[w] = "marking"
  /\ MarkRows(Marked(w))
  /\ IF unsent[w] = {} THEN Drop(w)
     ELSE /\ phase' = [phase EXCEPT ![w] = "releasing"]
          /\ sent' = [sent EXCEPT ![w] = {}]
          /\ UNCHANGED <<todo, unsent>>
  /\ UNCHANGED <<stuck, deliveries, abandoned, overdue>>

Release(w) ==
  /\ phase[w] = "releasing"
  /\ ReleaseRows(unsent[w])
  /\ Drop(w)
  /\ UNCHANGED <<stuck, deliveries, abandoned, overdue>>

\* The UPDATE of mark_as_published() or release_claims() raises, the database being
\* locked by another connection.  The transaction that was begun for it stays open.
StorageError(w) ==
  /\ phase[w] \in {"marking", "releasing"}
  /\ abandoned < MaxAbandon
  /\ abandoned' = abandoned + 1
  /\ stuck' = stuck \cup {w}
  /\ Drop(w)
  /\ UNCHANGED <<tableVars, deliveries, overdue>>

\* The process of the worker crashes and is started again.
Crash(w) ==
  /\ phase[w] # "idle" \/ w \in stuck
  /\ abandoned < MaxAbandon
  /\ abandoned' = abandoned + 1
  /\ stuck' = stuck \ {w}
  /\ Drop(w)
  /\ UNCHANGED <<tableVars, deliveries, overdue>>

\* _maybe_run_eviction(), at the end of a round of the loop
Evict(w) ==
  /\ phase[w] = "idle" /\ w \notin stuck
  /\ \E S \in (SUBSET Row) \ {{}} : EvictRows(S)
  /\ UNCHANGED <<workVars, deliveries, abandoned, overdue>>

\* The clock advances, and may find a worker still busy with its batch.
TimePasses ==
  /\ Tick
  /\ tableVars' # tableVars
  /\ overdue' = (overdue \/ \E w \in Worker : \E r \in InHand(w) : claimed'[r] = ClaimTimeout)
  /\ UNCHANGED <<workVars, deliveries, abandoned>>

-----------------------------------------------------------------------------
Next ==
  \/ \E r \in Row : Enqueue(r)
  \/ \E w \in Worker :
       \/ Claim(w)
       \/ \E r \in Row : Publish(w, r) \/ Fail(w, r)
       \/ Mark(w)
       \/ Release(w)
       \/ StorageError(w)
       \/ Crash(w)
       \/ Evict(w)
  \/ TimePasses

Spec == Init /\ [][Next]_vars

\* The workers keep polling and the clock goes on; a message that can be published
\* is not unlucky at every single attempt.
Fairness ==
  /\ WF_vars(TimePasses)
  /\ \A w \in Worker :
       /\ WF_vars(Claim(w))
       /\ WF_vars(\E r \in Row : Publish(w, r) \/ Fail(w, r))
       /\ WF_vars(Mark(w))
       /\ WF_vars(Release(w))
  /\ \A r \in Row : SF_vars(\E w \in Worker : Publish(w, r))

FairSpec == Spec /\ Fairness

-----------------------------------------------------------------------------
(* Properties.                                                             *)

\* What a reader of the table and of the bus can tell of each message.
StatusOf(r) ==
  CASE place[r] = "absent" -> "absent"
    [] place[r] = "deleted" -> "gone"
    [] Published(r) -> "published"
    [] Pending(r) -> IF deliveries[r] = 0 THEN "pending" ELSE "delivered"

Status == [r \in Row |-> StatusOf(r)]

Contract == INSTANCE DeliveryContract WITH status <- Status

\* README, "Outbox support": at-least-once delivery.  No interleaving of workers,
\* expired claims and crashes marks or evicts a message that was never delivered,
\* or takes a published one back (sqlite.py:105-132, processor.py:29-49).
KeepsDeliveryContract == Contract!Spec

\* A message is in the hands of one worker at a time, and its row claimed, as
\* long as no batch has outlived its claims (sqlite.py:41-88, 120-132).
HeldByOne ==
  ~overdue => /\ \A v, w \in Worker : v # w => InHand(v) \cap InHand(w) = {}
              /\ \A w \in Worker : \A r \in InHand(w) : Pending(r) /\ claimed[r] # Null

\* Then a message is delivered twice only if a worker abandoned a batch.
OnceUnlessAbandoned ==
  ~overdue /\ abandoned = 0 => \A r \in Row : deliveries[r] <= 1

\* README, "Outbox support": every message that can be published is delivered at
\* least once, and its row is marked in the end.
EveryMessagePublished ==
  \A r \in Row \ Poison : Pending(r) ~> ~Pending(r)

=============================================================================
