---------------------------- MODULE OutboxTable ----------------------------
(***************************************************************************)
(* The outbox table and the statements that SQLiteOutboxStorage executes   *)
(* on it: src/dispatchbus/outbox/sqlite.py.  Every worker has a connection *)
(* of its own, so that a transaction is one step.                          *)
(*                                                                         *)
(* Rows are numbered in the order of created_at.  Time stamps are kept as  *)
(* ages, which grow with the clock up to the value that still matters.     *)
(***************************************************************************)
EXTENDS Naturals, FiniteSets

CONSTANTS
  Row,            \* numbers of the messages
  Null,           \* SQL NULL
  ClaimTimeout,   \* claim_timeout: a claim of that age is stale
  Retention,      \* retention_period: a row published longer ago is evicted
  MaxPublished    \* max_published_rows, or Null

ASSUME TableAssumption ==
  /\ Row \subseteq Nat /\ IsFiniteSet(Row)
  /\ Null \notin Nat
  /\ ClaimTimeout \in Nat /\ Retention \in Nat
  /\ MaxPublished \in Nat \cup {Null}

VARIABLES
  place,          \* row -> not inserted, in the table, or deleted again
  claimed,        \* row -> age of claimed_at, or Null
  published       \* row -> age of published_at, or Null

tableVars == <<place, claimed, published>>

TableTypeOK ==
  /\ place \in [Row -> {"absent", "stored", "deleted"}]
  /\ claimed \in [Row -> (0..ClaimTimeout) \cup {Null}]
  /\ published \in [Row -> (0..(Retention + 1)) \cup {Null}]

TableInit ==
  /\ place = [r \in Row |-> "absent"]
  /\ claimed = [r \in Row |-> Null]
  /\ published = [r \in Row |-> Null]

Stored(r) == place[r] = "stored"
Pending(r) == Stored(r) /\ published[r] = Null
Published(r) == Stored(r) /\ published[r] # Null

\* claimed_at <= now - claim_timeout
Stale_Never(r) == FALSE
Stale_Always(r) == claimed[r] # Null
Stale(r) == claimed[r] = ClaimTimeout

\* Rows free to be claimed, once the stale claims are taken back.
Free_Published(r) == Stored(r) /\ (claimed[r] = Null \/ Stale(r))
Free(r) == Pending(r) /\ (claimed[r] = Null \/ Stale(r))

\* ORDER BY created_at ASC LIMIT n
Oldest(S, n) == {r \in S : Cardinality({s \in S : s < r}) < n}

\* enqueue(), and the commit of the transaction it belongs to
InsertRow(r) ==
  /\ place[r] = "absent"
  /\ place' = [place EXCEPT ![r] = "stored"]
  /\ UNCHANGED <<claimed, published>>

\* claim_pending_messages(n), which returns ids
ClaimRows(ids, n) ==
  /\ ids = Oldest({r \in Row : Free(r)}, n)
  /\ claimed' = [r \in Row |-> IF r \in ids THEN 0
                               ELSE IF Pending(r) /\ Stale(r) THEN Null ELSE claimed[r]]
  /\ UNCHANGED <<place, published>>

\* mark_as_published(ids): whoever holds the claim, published before or not
MarkRows(ids) ==
  /\ claimed' = [r \in Row |-> IF r \in ids /\ Stored(r) THEN Null ELSE claimed[r]]
  /\ published' = [r \in Row |-> IF r \in ids /\ Stored(r) THEN 0 ELSE published[r]]
  /\ UNCHANGED place

\* release_claims(ids): whoever holds the claim
ReleaseRows(ids) ==
  /\ claimed' = [r \in Row |-> IF r \in ids /\ Pending(r) THEN Null ELSE claimed[r]]
  /\ UNCHANGED <<place, published>>

\* evict_published_messages(): the rows past retention, then all but the most
\* recently published ones; among equals the database chooses.
Expired(r) == Published(r) /\ published[r] > Retention

Trimmed(S) ==
  LET rest == {r \in Row : Published(r)} \ S IN
  /\ MaxPublished # Null => Cardinality(rest) <= MaxPublished
  /\ \A r \in S : Published(r)
  /\ \A r \in S, s \in rest : ~Expired(r) => published[r] >= published[s]
  /\ \A r \in S : ~Expired(r) => MaxPublished # Null /\ Cardinality(rest) = MaxPublished

EvictRows(S) ==
  /\ \A r \in Row : Expired(r) => r \in S
  /\ Trimmed(S)
  /\ place' = [r \in Row |-> IF r \in S THEN "deleted" ELSE place[r]]
  /\ UNCHANGED <<claimed, published>>

\* The clock advances.
Older(age, limit) == IF age = Null \/ age = limit THEN age ELSE age + 1

Tick ==
  /\ claimed' = [r \in Row |-> Older(claimed[r], ClaimTimeout)]
  /\ published' = [r \in Row |-> Older(published[r], Retention + 1)]
  /\ UNCHANGED place

=============================================================================
