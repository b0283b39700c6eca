# A TLA+ model of dispatchbus

dispatchbus is an in-memory message bus for asyncio applications: commands have one handler,
events have any number, handlers emit follow-up events, and the bus can be shut down while all of
that is under way. An outbox delivers messages stored in SQLite through the bus. This directory
holds TLA+ modules of the parts of it that are concurrent, the TLC configurations that check them,
and theorems that TLAPS proves. Paths such as `lifecycle.py` are relative to `src/dispatchbus/`,
line numbers to the commit the project was written for.

Check a model with `tlc -config MCOutbox_workers.cfg MCOutbox`, the proofs of a module with
`tlapm OutboxProofs.tla`; `SequenceLemmas.tla` and the seven modules named `...Proofs` hold them.
`PROJECT.json` lists the runs, maps every definition to the lines it stands for, and lists the hazards of the code with the properties that cover them.

## Inventory

| Component | State | Operations | What is hard | What makes it correct |
|---|---|---|---|---|
| Lifecycle admission (`lifecycle.py`) | open/draining/closed, counter of admissions, drained event, a depth in a ContextVar | claim and give back an admission, close | calls from many tasks and threads; the depth is copied with every task; the close thread sleeps on the event | counter and event agree; only nested work enters while draining; closed only when drained; close ends |
| Dispatch tree (`dispatch_tree.py`) | set of event tasks; per call: the queue or the tasks of its events, their failures | send, publish, two event modes, follow-ups, failure aggregation | handlers and tasks end in any order; cancellation; errors of handlers, middleware and the bus itself, each taking another way out | every failure reported once; follow-ups dispatched; nothing outlives the call; breadth-first order; the call returns |
| Handler runtime (`handler_runtime.py`) | executor | invoke a handler and its error handler | sync handlers run on a bounded executor | outcome carries the events unless the error is raised |
| Middleware (`middleware.py`), event context (`context.py`) | per dispatch | wrap a dispatch; emit | a middleware may skip, swallow, replace | (through the dispatch tree) |
| Message bus facade (`bus.py`) | close lock, shared close future, bridge-closed flag | async and sync calls, close | two kinds of thread, a non-reentrant lock held during sync calls, several closers | one close operation; every closer is told its result; no deadlock |
| Sync bridge (`sync_bridge.py`) | background loop and thread | start on demand, run, close | start race, timeout of a call that runs on | one loop; closed once, after the last call |
| Outbox storage (`outbox/sqlite.py`) | table with `claimed_at`, `published_at` | enqueue, claim, mark, release, evict | several workers; claims that expire while their holder works | at-least-once delivery; one holder per claim |
| Outbox processor and worker (`outbox/processor.py`) | batch in hand; loop task, stop event, eviction timer | process a batch; poll, start, stop, evict | crashes between publish and mark; failing messages; a storage call that raises | nothing lost; every message published in the end |
| Trace facts and subscribers (`observability.py`, `dispatch_tree.py`) | list of subscribers | add a subscriber; deliver a fact to each of them | many coroutines deliver at once and await slow subscribers; the list grows meanwhile; subscribers raise | facts bracket a dispatch; causes are seen before effects; everyone is told the outcome |
| Registry, messages (`registry.py`, `messages.py`) | dictionaries; immutable metadata | registration, lookup; stamping of messages | registration while a dispatch has begun; messages that carry metadata already | the announced handlers are invoked; metadata leads back to the cause |
| Debug subscriber, serializer, exceptions | immutable values | formatting, conversion | little: sequential code | what is shown agrees with the outcome |

How they interact: the facade calls the dispatch tree directly (async) or over the bridge (sync).
The dispatch tree asks the lifecycle to admit each call and each event, runs the middleware, and
has the handler runtime invoke the handlers; their outcomes come back through a callback
(`on_outcome`) that queues the follow-ups or starts their tasks. Closing goes the other way: the
facade starts a thread that waits for the lifecycle's drained event, then runs the tree's cleanup,
which shuts down the executor. The outbox processor uses the bus only through `publish()`, and the
storage only through its four operations, so the two sides are modelled apart.

## Modules

| Module | Models | Composition |
|---|---|---|
| `DrainContract` | the promise about shutdown: no new root work once closing begins, closed only after the accepted trees completed | implemented by `BusLifecycle`, `BusFacade` and `DispatchTree` |
| `BusLifecycle` | `lifecycle.py` and the contexts of asyncio tasks | |
| `BusLifecycleProofs` | theorems about it | extends `BusLifecycle` |
| `BusFacade` | `bus.py`, `sync_bridge.py`: threads, tasks, the close lock, the close operation | a dispatch is one root call; implements `DrainContract` |
| `BusFacadeProofs` | theorems about it | extends `BusFacade` |
| `DispatchTree` | `dispatch_tree.py`, `handler_runtime.py`, `middleware.py`, `context.py` for one tree, with a close | admission as in `BusLifecycle`, reduced to its counter |
| `DispatchTreeProofs` | theorems about it, but for the failures | extends `DispatchTree`, `SequenceLemmas` |
| `DispatchFailuresProofs` | the theorem that failures are reported once | extends `DispatchTreeProofs` |
| `TraceDelivery` | the facts of one tree and their delivery: `observability.py`, `messages.py`, `registry.py`, `debug.py`, with the tree of `dispatch_tree.py` and `handler_runtime.py` reduced to what is told of it | |
| `TraceDeliveryProofs` | theorems about it | extends `TraceDelivery`, `SequenceLemmas` |
| `DeliveryContract` | the promise about one stored message: pending, delivered, published, gone | implemented by `Outbox` and `OutboxTransactions` |
| `OutboxTable` | the statements of `outbox/sqlite.py` | |
| `Outbox` | `outbox/processor.py`, workers, crashes, time | extends `OutboxTable` |
| `OutboxProofs` | theorems about it | extends `Outbox` |
| `OutboxTransactions` | the same code one statement at a time: transactions, write lock, connections, `enqueue()`, start and stop of workers | |
| `OutboxTransactionsProofs` | theorems about it | extends `OutboxTransactions` |
| `SequenceLemmas` | lemmas on numbers, sequences and `FlattenSeq` that the proofs about the trees share | |
| `MC...` | instances for TLC | |

Definitions named `X_Something` next to a definition `X` are forms of `X` that a plausible mistake
would have produced. No specification uses them; replacing `X` by one must make TLC report the
property listed with it in `PROJECT.json`, which shows that the property depends on the code.

### BusLifecycle

One action per method: `Claim` is entering `async with _admit(...)`, `Exit` its `finally` clause,
`BeginClose` is `close()`, `WaitDrained`, `RunCleanup` and `FinishClose` are the three parts of
`_run_close`. Each takes `_state_lock` once, and what it does outside of it touches only the
ContextVar of its own task, so each is one step. The depth is a function of the task:
`Spawn` copies it (`asyncio.create_task` copies the context), and `TaskEnd` discards the copy.
`origin` and `cur` record which dispatch waits for a task and on whose behalf it runs. They are not
variables of the program: they say what the depth is supposed to mean, and the guard `MayEnter`
does not read them. `Structured` chooses whether dispatches return only after the tasks that hang on
them (what `dispatch_tree.py` does unless it is cancelled) or whether tasks may be left behind, as
a handler that calls `asyncio.create_task` itself does. `closer` holds the wake-up of a thread
blocked in `Event.wait()`: once `set()` has been called it is woken, although the flag may be
cleared before it runs.

### BusFacade

`pc` says where a thread, a task or a handler is. A blocking call is `CallSync`, `Acquire` (the
lock), `Check` (`check_admission()`), `StartLoop`, `Submit` (`run_coroutine_threadsafe`), and
`TakeResult` or a time-out, each of which releases the lock; the coroutine is a dispatch, which claims its
admission later and on another thread (`Begin`), may wait for a worker of the executor
(`TakeWorker`) and ends. `Join` is the part of `aclose()` under the lock, which it polls for; the
first closer starts the thread `Runtime`: `Drained`, `Cleanup`, then
`CloseBridgeOnce` and `Halt` of the bridge's loop, `Complete` of the future. Closers that wait for the future
(`Settled`) close the bridge too. `close()` is `aclose()` on a loop of its own. A closer may be
cancelled while it waits. `CallsFrom` says whose sync handlers call the bus in turn: those served on
the application's loop (`facade_closing`) or those served on the bridge's (`facade_nested`).

Left out: `aclose()` awaited by a handler, which waits for the dispatch it is part of; a
thread that fails to start; the limit of one second on joining the loop's thread.

### DispatchTree

One call and the tree below it, messages being numbered as they are emitted. `stage` says how far
the dispatch of a message is; `Call`, `Return` and `Cancel` are the root call's; `Start` or
`Refuse` an event's admission; `Enter`, `Deflect` and `Complete` the middleware around the final
handler; `Emit` and `HandlerEnd` a handler; `Collect` one round of the loop over the handlers'
results; `CommandHandled` the end of a command's handler; `Finish`, a part of `Complete` and
`Deflect`, the way out of `_run_dispatch` and what the exception does to the follow-ups;
`CollectFollowUps` the second half of `_publish_concurrent_event`. The middleware is a choice of
what it does before and after `call_next`: pass, skip, swallow the error, raise its own, or fail with
BusDrainingError (which its own call to a draining bus raises). A handler ends with a result, an
error that its error handler swallows, an error, or BusDrainingError from a call of its own to a bus that
is closing (`"drain"`). Failures are pairs of message and handler, with handler zero for an error that is not a
handler's; `Draining` says which of them are BusDrainingErrors.

What the caller is told is `Publication`. In concurrent mode it looks through the failures of the
whole tree, which were flattened on their way up, and a BusDrainingError among them is raised alone, from
wherever it comes: all the other failures are lost then (`dispatch_tree.py:185-190`). In sequential mode a
handler's BusDrainingError is one of the failures of its event, and only that of a middleware ends
the loop, alone (`Alone` is both rules). Of several the code takes the first in its list, which depends
on the order in which tasks complete; the model takes any, and no property depends on which.

Abstractions: handler results are left out, metadata and trace facts are in `TraceDelivery`; failures of a concurrent
tree are listed in the order of their events, where the code lists them as tasks complete (no
property depends on it); an error a middleware raises is never an EventPublicationError of its own making,
whose failures would be unpacked; the dispatches that handlers make themselves are in `BusLifecycle`; a
cancellation reaches its target at once. A synchronous handler's thread runs on after its dispatch
was cancelled; `NothingOutlivesTheCall` speaks of dispatches and tasks only.

### OutboxTable and Outbox

Each method of `SQLiteOutboxStorage` is one operator on the table, `ClaimRows` with its reclaim,
select, update and fetch: every worker has a connection of its own and the statements of a method
are one transaction. Rows are numbers in the order of `created_at`; time stamps are ages that stop
growing at the value which still matters. `Outbox` runs `process_batch` of every worker: `Claim`,
then `Publish` or `Fail` for each message in order, `Mark`, `Release`, with `Evict` between batches
`Crash` for a process that dies and is started again, and `StorageError` for an UPDATE that raises
because the database is locked: the transaction `sqlite3` opened for it stays open on that
connection, and the worker is `stuck`, since `BEGIN` of its next claim raises.
`Fail` may hit any message (a handler's error, a bus that is closing) and `Poison` rows always
fail. `overdue` remembers that a batch has outlived its claims, which is where the guarantees about a
single holder end and at-least-once delivery is what remains.

### OutboxTransactions

Every `await` on a connection is one step; `at` names the statement a worker is at. A connection
in a transaction is in `open`; the one with uncommitted changes is `writer`, and `view` is the
table as it sees it; everybody else reads `db`. A second writer waits or gets "database is locked".
A request is the README's: BEGIN, a business row, `enqueue()`, `commit()`, or `rollback()` when
something raises. `ConnectionOf` gives workers and requests connections of their own or one they
share. `Start`, `Stop`, `End` and `Cancel` are the worker's life; `Cancel` is a caller of `stop()` that
gives up, which cancels the task at whatever statement it is: the `except Exception` clauses do not
roll back then. Time, stale claims and poison rows are left to `Outbox`.

### TraceDelivery

A fact is delivered by the coroutine it is about: the dispatch of a message, or one invocation.
`place` is how far each of them has come in the list of subscribers; `Deliver` calls the next one,
which may raise, and the courier goes on when its place is past the end of the list as it is then.
`Start` takes the registered handlers, `Enter` and `Deflect` are the middleware, `Run`, `Emit`,
`End` and `Collect` an invocation, `Complete` and `Finish` the end of a dispatch. `observer` is any
one of the subscribers and `log` what it is called with, by message; subscribers behind it in the list
would only take time, so none is added. `metadata` is what `as_runtime_message()` stamps or leaves:
an event may be emitted once more with the metadata of the message that is handled. `Line` and
`Shown` are the debug subscriber.

Abstractions: what decides how failures are collected and reported is in `DispatchTree`, here a
dispatch has a success only, and an outcome is collected as soon as the invocation is over; the bus
stays open; a synchronous subscriber's call is one step.

## Runs

| Run | Configuration | Shows |
|---|---|---|
| `lifecycle_structured` | 2 callers, 2 tasks, 4 dispatches | cleanup finds the bus quiet, follow-ups are always admitted, the contract is kept |
| `lifecycle_detached` | 2 callers, 2 tasks, 3 dispatches, tasks left behind, fairness | the depth is the nesting; no root work while draining; close comes to an end |
| `tree_concurrent` | concurrent, 3 messages, 2 handlers that also raise or fail with BusDrainingError, middleware that swallows or raises after them | failures once or a BusDrainingError alone, follow-ups dispatched, nothing outlives a call that returned, the contract is kept |
| `tree_live` | concurrent, 3 messages, 1 handler, every behaviour of handlers and middleware, cancellation, fairness | failures once or a BusDrainingError alone, also where tasks end before their follow-ups; the call and a close operation end |
| `tree_sequential` | sequential, 4 messages, 2 handlers, cancellation, BusDrainingError of handlers and middleware | failures once or a middleware's BusDrainingError alone, follow-ups dispatched, breadth-first, nothing outlives the call |
| `tree_cancel` (violation) | concurrent, 2 messages, cancellation | closed before the tree completed |
| `facade_closing` | 2 threads, 1 task, 2 dispatches, time-outs, 2 closers, 2 workers, fairness | callers have a loop and are admitted after their check, closers are told after the end, the contract is kept, every call returns |
| `facade_nested` (violation) | 1 thread, 1 task, 2 dispatches | a blocking call from a handler of a blocking call never returns |
| `trace_facts` | both modes, 3 messages, 2 handlers, 2 subscribers, middleware that skips, swallows and raises, cancellation | facts bracket dispatches, causes come first, the debug lines agree with the outcome of the call |
| `outbox_workers` | 2 workers, 3 rows, 1 of them poison, batches of 2 that may be late, one crash, eviction, fairness | the delivery contract is kept; while no batch was late, one holder per row, and delivered twice only after an abandoned batch; every other row is published |
| `outbox_stuck` (violation) | 1 worker, 1 row, 1 storage error | it never claims again |
| `statements_own` | 2 workers, 2 requests, a connection each, 3 starts, fairness | requests are atomic, claims exclusive, the contract is kept, `stop()` returns |

Six configurations are kept beside the runs: `MCBusLifecycle_late`, `MCDispatchTree_drain`,
`MCDispatchTree_unreported`, `MCBusFacade_starved`, `MCOutbox_starved` and
`MCOutboxTransactions_shared`, in which TLC finds the violations described below that have no run of their own.

Bounds. Dispatches are four at most, since three are needed for a root, a nested call and a sibling
and the fourth is another root; `MaxDepth` is at least the number of dispatches and cuts nothing
off. Trees of three messages have a chain of three generations or two siblings, whose failures climb
through two levels of tasks; those of four messages also siblings with a child, which breadth-first
order is about. Two handlers suffice for outcomes that come in the wrong order. Two workers and three
rows allow a batch that is partly taken over; a claim timeout of two separates fresh, ageing and stale
claims, and a retention of zero with one row kept makes every published row but one expire.
In `BusFacade` each closer closes once, which makes the first and the second closer; two dispatches are a
call and another that it waits for or that competes with it. Statements: `MaxStarts` is three so that one
worker is started again while the other runs; two requests make one that commits while the other is half
done. Facts: three messages are a command, an event and a follow-up of that, which correlation needs;
`MaxWork` allows two invocations of event handlers besides the command's, at once or one below
the other, and `Touched` lets the middleware do more than pass for the root only, where it decides what the
caller is told.
Deadlock is checked in `facade_closing`, whose threads can always call again; elsewhere an application that makes no call, a closed bus
and an empty outbox are legitimate ends.

Fairness. In `BusLifecycle` the close thread is an operating system thread (weak fairness), and
a dispatch or a task that again and again has nothing to wait for returns (strong fairness, as it is disabled
while a nested call is inside); that is the assumption that handlers end, which the bus cannot
enforce. Nobody has to call, publish or close. `CloseCompletes` adds that accepted trees stop
growing, since a handler may emit for ever. In `DispatchTree` weak fairness of `Step` says the same; the
bound on messages keeps trees finite. In `Outbox` workers poll and the clock runs (weak fairness), and
a message that can be published does not fail at every single attempt (strong fairness of its
`Publish`). Crashes and storage errors are bounded by `MaxAbandon`; eviction needs no fairness.
In `BusFacade` threads and loops run (weak fairness of each step). An executor whose workers come free again and again serves everybody in
the end, for it keeps a queue (strong fairness of `TakeWorker`); `Submit` has strong fairness because it needs a
free identity for its dispatch, which is a bound of the model and none of the program. The close lock
is not fair and `aclose()` polls it, so `CallReturns` and `CloserReturns` have a premise:
from some moment on no further blocking calls are made. In `OutboxTransactions` only the workers' tasks run
(weak fairness of `Round`); requests, starts and stops need not happen.

## What the violations show

The violations of the runs, and those of `MCDispatchTree_unreported`, `MCDispatchTree_drain` and
`MCBusFacade_starved`, were reproduced with the program itself (`outbox_stuck` with the storage on a plain
`sqlite3` connection in place of aiosqlite's).

* `tree_cancel`: a concurrent `publish()` that is cancelled (by a timeout, say) leaves its event
  tasks running, without the admission of the call. The bus closes before they are done, and their
  follow-ups are refused.
* `outbox_stuck`: a worker whose `mark_as_published()` or `release_claims()` raised "database is
  locked" never claims a message again: the failed UPDATE leaves a transaction open, and `BEGIN`
  (`sqlite.py:41`, before the `try`) raises at every poll.
* `facade_nested`: a sync handler runs in a worker thread, where no event loop runs, so that
  `publish_sync()` lets it pass; the lock it then waits for is held by the `send_sync()` that the handler
  serves. Both wait for ever, and `close()` with them.

And without a run:

* `MCBusLifecycle_late`: README says "The bus closes only after the full accepted dispatch tree has
  completed". A task that a handler left behind keeps the depth of its dispatch and is admitted by
  `lifecycle.py:56` while cleanup runs; the bus is then CLOSED with that dispatch inside.
* `MCBusFacade_starved`: a sync handler of the application's loop may call `send_sync()`, but it keeps its
  worker of the executor meanwhile. With as many of them under way as there are workers, the messages they sent
  find no worker for their own sync handlers, and no call returns. `facade_closing` has enough workers.
* `MCDispatchTree_unreported`: README says that a failure of a handler is exposed by EventPublicationError. In
  concurrent mode one BusDrainingError among the failures of the tree, for instance that of a handler
  whose own `send()` was refused while the bus closes, is raised in place of all of them. What the code does
  keep is `FailuresReportedOnce`: either everything once, or a BusDrainingError of the tree and nothing else.
* `MCDispatchTree_drain`: in concurrent mode a middleware that fails with BusDrainingError after the handlers
  ran makes the event's task end without waiting for the follow-ups it scheduled; the bus closes while they run.
* `MCOutbox_starved`: README says "at-least-once delivery". Failed rows are released without any
  mark and remain the oldest; as many of them as a batch holds keep all younger rows from being
  delivered.
* `MCOutboxTransactions_shared`: the README's example gives each request a connection of its own,
  and that is needed: if a worker's storage used the same one, its `commit()` of a mark would commit the
  business row of a request that has not enqueued its message yet, and the request's `rollback()`
  would come too late.

## Proofs

`BusLifecycleProofs` proves, for any sets of callers, tasks and dispatches and any depth, from
`LifecycleAssumption` alone (callers are tasks, dispatches are finitely many and none of them is
`None`):

* `TypeCorrect` and `DrainedExact`. The type invariant is not inductive alone: `inFlight - 1` is a
  natural number only because the counter is the number of dispatches inside. `IType` is the
  conjunction, with cardinality lemmas from `FiniteSetTheorems`. `DrainedIffEmpty`, which `DrainedExact` states,
  is proved only; what goes wrong without it the runs see as `CleanupFindsBusQuiet` and `CloseCompletes`.
* `DepthExact`, and from it `DrainAdmission`. `DepthIsNesting` needs to know who refers to whom: a
  dispatch inside is run by a living task, which is inside it or inside something nested in it, and
  free identities are referred to by nobody. `Nesting` says so, and `INest` is inductive.
* `CleanupQuiet`, `FollowUpsAdmitted` and `Implements`, where dispatches wait for their tasks
  (`Structured`). The argument is a tree: `TasksHang` and `DispatchesHang` say that every task hangs
  on a dispatch inside and every dispatch on one or on an application task, so that the last one to
  leave is a root and leaves nobody behind. Once the closer is woken nothing is inside, and nothing
  can enter. This is `ITree`. The theorem `Implements` maps each step to a step of `DrainContract`
  or a stutter. Without `Structured` it is false, as `MCBusLifecycle_late` shows.

`BusFacadeProofs` proves, for any threads, tasks, dispatches and closers, with and without
time-outs, from `FacadeAssumption`:

* `TypeCorrect`, `LoopKept`, `CheckedAdmitted`, `ToldAfterwards` and `Implements`, all from one
  inductive invariant. `LockHeld`: the lock is held by exactly the caller between `Acquire` and its
  result, and as long as it is past its check the bus is open, for a closer needs the lock to begin.
  `Phases` ties the state of the bus and of the future to where the close thread is; once that is past
  `Drained` no dispatch is admitted. `BridgeLife` and `ClosersInOrder` say that the loop is stopped
  once, by the close thread, and that a closer that was told finds none left. `Waiters` is what the
  three properties need of the callers. `CheckedAdmitted` rests on the lock alone: without it
  (the mutant of `Check`) a closer gets between check and admission.

`OutboxProofs` proves, for any sets of rows and workers, any batch size, timeouts and retention
and any number of crashes and storage errors, from `TableAssumption` and `OutboxAssumption`:

* `TypeCorrect`.
* `Delivers`: each step maps to a step of `DeliveryContract` or a stutter. A marked row has to
  be a delivered one, though the worker that marks it may have lost its claims long ago, so the
  invariant speaks of the worker's lists instead of the claims: `Accounted` says that what is in
  `sent` was delivered and that a row in hand has been inserted. A late batch may mark rows that
  are already published or deleted; those do not move, and the rest of them are `Confirm`.
* `OneHolder`, for a claim timeout other than zero, with which a claim would be stale at once.
  `HeldByOne` is not inductive alone: a claim takes rows whose claim is missing or stale, and is
  kept from rows in hand by `Fresh`, their claims being neither; marking and releasing leave the
  other rows of the batch alone because of `Lists`, a row being in one list only. Both hold
  until `overdue`, which is never reset, and `TimePasses` sets it at the first step at which a row in
  hand is stale.
* `DeliveredOnce`, with the same timeout. What a worker has not tried or failed to publish has not
  been delivered (`Untried`), and a row that was delivered and is still pending is in some worker's
  hands (`Kept`), which by `Fresh` keeps it from being claimed again. A crash or a storage error breaks
  `Kept`; that is the redelivery that at-least-once allows.

`OutboxTransactionsProofs` proves, for any sets of workers and requests, any batch size and number
of starts:

* `TypeCorrect`, on connections of one's own or shared ones.
* `Atomic`, `Exclusive` and `Delivers` under `OneOwner`: no two workers or requests share a
  connection, as in the README's example; on a shared one all three are
  false (`MCOutboxTransactions_shared`, with each of the properties in turn). What a statement reads is `db` or, on the connection with
  uncommitted changes, `view`, so a claim or a mark says little by itself about what a commit will
  make visible. `Halves` says what that is: `view` is the committed tables with the changes of the
  statements that the owner of the connection has made since BEGIN, and only one connection has any.
  `Whole` then keeps the tables consistent over every commit and rollback, wherever a worker was
  cancelled; `Hands` keeps the rows of two batches apart, `Delivered` ties what is marked to what was
  published, and `Delivers` maps each step to one of `DeliveryContract` or a stutter.

`DispatchTreeProofs` proves, for any number of messages and handlers, both event modes, and any
middleware, from `TreeAssumption`:

* `TypeCorrect`, `FollowUpsDone` and `GenerationByGeneration`, without further assumption. The
  inductive invariant numbers the tree: each message is handed over by one of a smaller number
  (`Numbering`); `Handlers` and `FollowUps` say what a message's handlers and follow-ups may be doing
  at its stage; `Queue` that the sequential loop holds what is queued and nothing else; `Tree` that
  a task which is over leaves no follow-up running unless a BusDrainingError ended it. `Order` adds that
  the queue increases and that what is emitted later goes behind it, which is breadth-first order.
* `NothingOutlives` and `Implements`, assuming `Orderly`: in concurrent mode no middleware fails with
  BusDrainingError. `ClosesAfterTree` moreover assumes the sequential mode or a caller that does not
  cancel. The assumptions are needed: `MCDispatchTree_drain` and `tree_cancel` show what happens
  otherwise. That a call has nothing left takes the least event still running: the message that
  handed it over has a smaller number, is over, and would have waited for it.

`DispatchFailuresProofs` proves `ReportsAllOnce` without any assumption on middleware or handlers. In
sequential mode an event has its own failures only, and the loop has taken them all. In concurrent mode failures climb from task to
task, and what a task has gathered depends on all of its subtree; a recursion over the tree would need an
induction for each statement. `Accounts` avoids it: a failure that a finished task has is its own or that of an event with a larger
number, and is in its list once (`SumOf`); and if two tasks have one in common, the event that emitted
the larger of them is finished and not before the smaller (`SharedBy`). The event of the smallest number that has a failure can only have
passed it to the call, so the call has each failure, and since the lists of siblings
share none, it has each of them once.

A BusDrainingError of the middleware, or a refusal, cuts this short: the task ends with that failure only, and the tasks
below it run on. That is harmless for the property, because the error itself climbs: `FirstDrain` takes
the event with the smallest number that ended so, all tasks above which do wait for it, and `DrainsFound` concludes that the
call finds it. So a call that raises anything else has waited for its whole tree, no task of which was
cut short, and the argument above applies; and a call that raises a BusDrainingError has found it in the
list, where each failure is one of the tree. `Unrefused` says that no event is refused while the call
waits, for its admission keeps the bus from closing. `CommandTold` says the same of a command's dispatch, `Swallowed`
that it has follow-ups only where its own handler raised nothing, and `Reported` of the call.

`TraceDeliveryProofs` proves, for any number of messages, handlers and subscribers, from
`TraceAssumption`:

* `TypeCorrect`, `Brackets`, `CausesFirst` and `OutcomeTold`, from one invariant. A delivery takes many
  steps, during which the list of subscribers may grow, so that what an observer was told is neither
  what has happened nor a prefix of it. `Told` says what it is: the facts whose couriers have passed the
  observer's place, each of them once (`Tagged`). The order inside a bracket is then a matter of
  one step appending one fact, and the length of a bracket of counting tags. `Logged` is what any
  observer may rely on, one added late included, `Placed` where the couriers of a message are at its
  stage. For the causes, `Witnessed` says that what was handed over leads to an end that was
  told: an outcome is collected only after the end of its invocation has been told to everybody. `Quiet`
  says that a command has no follow-ups under way before its handler is over, nor once it finishes;
  `CallOver` is what the debug lines are compared with.

`SequenceLemmas` replaces the induction theorems of the library, which take the property to prove
as an operator and cannot be used here: `Least` (a set of numbers has a least element) is drawn from
the theorem that strict inclusion of finite sets is well founded, and `Induction` from `Least`, with a set
in the place of the property. What `FlattenSeq` yields follows by it.

All type invariants, safety invariants and action properties of the runs, and all refinements, are
proved. Model-checked only are the liveness properties (`CloseCompletes`, `CallReturns`, `CloseReturns`,
`CloserReturns`, `EveryMessagePublished`, `StopReturns`), since TLAPS 1.4.5 does not reason about
fairness or ENABLED. A theorem that assumes more than its module does says so above, with the
configuration that shows why.

## Not modelled

* The executor's bound in `DispatchTree` and `TraceDelivery`: the executor belongs to the application;
  `BusFacade` has it, with enough workers in `facade_closing` and with too few in `MCBusFacade_starved`.
* The inspection of signatures and types at registration, `ensure_sync_result`, the serializer, the
  outbox's data classes, the layout of debug lines, exports: sequential code without state that
  interacts.
* Failures of the platform: a thread that does not start, a loop that a coroutine blocks for
  longer than the second for which it is joined.
* The clock of the eviction timer: an eviction may follow any batch.
* Middleware that calls `call_next` twice.

## Plan

1. `DispatchTree` as an implementation of `BusLifecycle` (`Structured`): event tasks as tasks,
   events as dispatches.
2. Proofs of that refinement.
3. Several root calls at once in `TraceDelivery`, and nested calls of handlers.
