# browser-sqlite: a TLA+ model of the pool, its transactions and its coherence

browser-sqlite gives a web page a SQLite database: a client on the page's
thread drives a pool of Web Workers, each with its own wa-sqlite connection to
the same file. This directory models the parts of it where several actors meet,
checks them with TLC on small instances and proves the central properties of each
with TLAPS: of the scheduler, the workers' lifecycle, read-your-writes, the
transport, transactions, routing and its retries, prepared statements, deletion
and bulk writes. File names below are relative to `src/src/`.

## 1. The system

| Component | State | Operations | Meets | What is hard | What makes it correct |
|---|---|---|---|---|---|
| Scheduler and startup gate (`scheduler.ts`) | free and leased workers, three queues, the designated writer, generations, the gate | add, retire, remove, offer, acquire, release, demote, abort, shutdown | every query; the client's deaths and close | a waiter is resolved one microtask before it is a lease; releases arrive for workers already replaced; signals fire in any state | one request per worker, one write at a time, no worker lost, every wait ends |
| Supervisor (`supervisor.ts`) | alive, restarts and lost per slot | report(spawned, served, died, lost, retired) | the client's death handler | duplicate and stale reports, the budget's boundary | the budget is honoured, the client fails when the pool is empty |
| Client lifecycle (`client.ts`) | pool, startup losses, ready, closing, the connection lock, worker 0's probe | spawn, handleDeath, retireSlot, failClient, onFirstSettle, onGateOpen, startWorkers, close | scheduler, supervisor, transport, Web Locks | deaths during startup, its retry round and close(); a lock granted after close() | ready settles and means a worker, each loss is told once, no worker outlives close() |
| Commit epochs (`epochs.ts`, `applyBarrier`, `afterWrite`) | the tab's counter, its markers, `seen` of each worker | bump, raiseTo, originMax, publish, advanceSeen, the barrier | every lease; the other tabs through Web Locks | commits land during a barrier; publication is asynchronous; tabs disappear | a call sees what had been written when it was made |
| Transport (`pool.ts`, `credits.ts`, `worker/worker.ts`) | in-flight query, inbox, credits, stop and idle promises | query, interrupt, quiesce, free, close, terminate | scheduler (quiesce), client (death) | chunks between pulls, late stops, drain timeout against a late `done` | no chunk lost, no cross-talk between queries, idle means idle |
| Transactions and savepoints (`transaction.ts`, `savepoints.ts`, the prelude in `worker/worker.ts`) | the ending, the queue's tail, open statements, an abandoned write, the savepoint stack | the handle's statements, generators and batches, savepoint, release, rollbackTo, commit, rollback, abort and deadline | lease, transport, the worker's reply | calls made in one tick, a signal between any two awaits, SQLite leaving the transaction by itself | all of the data or none, what the caller is told is what became of it, no connection goes back with a transaction open |
| Routing and verdicts (`client.ts`, `verdicts.ts`, `classify.ts`, `queries.ts`) | the memo, the verdicts being asked for, the attempts of a call | kindFor, waitForKind, askVerdict, streamWithRetry, refusals | scheduler (verdict leases, offer), the worker, other callers of one text | a verdict gone stale, a shared request whose callers leave, busy workers | a statement takes effect at most once, a caller is told about its own statement |
| Statement cache (`worker/statement-cache.ts`, `worker/worker.ts`) | prepared statements by text with their weights, SQLite's live statements | get, set, delete, drain; prepare, step, finalize | queries and verdicts of one worker | a verdict files a statement while a query is parked between two steps; addresses are reused | no statement used after its finalize, none leaked, both bounds |
| Locks and deletion (`locks.ts`, `delete.ts`, `worker/worker.ts`) | the origin's Web Locks, the database's files | hold, tryWithLock, heldNames, deleteDatabase | clients that open and close in any tab | two locks, two takers; tabs that die half way; files held after the locks are gone | nothing deleted under a connected client, a half deletion can be retried, everyone is answered |
| Bulk writer and output tables (`bulk.ts`) | the buffer and the batch queue, the staging table and its lock, the sweep's memo | enqueue, flush, close, abort; output, swap, sweep | transactions, locks, other tabs | a batch fails while a producer is parked; a tab dies half way; a sweep reads tables and locks at two moments | a target replaced whole or not at all, live tables spared, every row accounted for |
| Abandoned generators (`abandon.ts`) | a registry of cleanups | register, clean up | transport | runs at a moment nobody chose | it stops only its own query |
| SQL text, values, debug, capabilities, types | none that others depend on | formatting, encoding, tables | | | not modelled |

## 2. Modules

| Module | Models | Notes |
|---|---|---|
| `Gate` | the startup gate of `scheduler.ts` | operators on a gate record, shared by the two modules below |
| `Scheduler` | `scheduler.ts` | one action per operation; the client is the environment |
| `SchedulerProofs` | theorems about `Scheduler` and about `Statements` | TLAPS; both components in one module, hence the names `StatementsInit`, `StatementsSpec` |
| `Lifecycle` | `supervisor.ts` and the lifecycle of `client.ts` | one action per message or callback; the whole synchronous handler is one step |
| `LifecycleProofs` | theorems about `Lifecycle` | TLAPS |
| `Epochs` | `epochs.ts` and its use in `client.ts` | several tabs |
| `EpochsProofs` | theorems about `Epochs` and about `Origin` | TLAPS; both components in one module |
| `Transport` | `pool.ts`, `credits.ts`, `abandon.ts`, the drain of `queries.ts` and the message loop of `worker/worker.ts` | one worker, the page and two FIFO channels |
| `TransportProofs` | theorems about `Transport` | TLAPS |
| `Savepoints` | what SQLite makes of SAVEPOINT, RELEASE and ROLLBACK TO | operators on a log of effects and marks, shared by the two modules below |
| `AtomicTx` | what `transaction()` promises | the abstract specification |
| `Transaction` | `transaction.ts`, `savepoints.ts`, the worker's savepoint prelude | implements `AtomicTx` |
| `TransactionProofs` | theorems about the calls of `Transaction` and its connection | TLAPS |
| `AtomicityProofs` | theorems about the journal of `Transaction`, its ending and its refinement | TLAPS; extends `TransactionProofs` |
| `Routing` | `kindFor`, `waitForKind`, `askVerdict` and the retries of `client.ts`, with `verdicts.ts` | several calls of one client, another client that changes the schema |
| `RoutingProofs` | theorems about `Routing` | TLAPS |
| `Statements` | `statement-cache.ts`, `classify.ts` and the statements of `worker/worker.ts` | one worker |
| `Origin` | `delete.ts`, the worker's deletion, and the locks of opening clients | the tabs of one origin |
| `Outputs` | `bulk.ts`, with `output()` and its sweep | several tabs |
| `OutputsProofs` | theorems about `Outputs` | TLAPS |
| `MC...` | instances for TLC | constants and symmetry only |

Each module keeps, beside some of its operators, a variant marked "Mutant:" or
named after the operator. It is the operator with a plausible mistake in it.
`PROJECT.json` pairs every checked property with the mutant that breaks it; no
specification uses one. A few properties are defined that no run checks; section
4 says what becomes of them.

JavaScript runs each synchronous stretch to its end, so everywhere an action is
what the code does between two awaits.

### Gate and Scheduler

A *slot* is an index of the pool, `gen` its generation, a *request* one call of
`acquire`. The one await that matters inside `acquire` is kept: `waiter.resolve`
(state `granted`) and `makeLease` (state `holding`) are separate steps, and
`Interrupts` says which of the client's own calls (`"remove"`, `"shutdown"`) may
fall between them. `born` records the worker a request was really given, so that
*owning* a worker is a fact about the world and not what the generation counter
claims.

A client that fails inside `add`'s `onGateOpen` is the same as that `Add`
followed by `Shutdown`. `TakeOut` at a closed gate relies on nobody being queued
behind it, which holds because requests are `gated` until it settles. The
`canDesignateWriter` policy is the constant `Designable`; the program itself
accepts every slot, and so does the run.

### Lifecycle

One record `c` holds the client's variables, the pool's threads and the
supervisor's slots, and the setting the client was made in (how its VFS takes the
connection lock, whether the browser refuses surplus workers, whether pragmas are
to be applied); each handler is an operator from record to record, since
`handleDeath` calls the scheduler, which calls `onFirstSettle`, which may call
`failClient` or `spawn`, all in one synchronous stretch. A thread's messages
(ready, declined, probed, died) and the settling of promises (the lock, the
drain, the setup) are the actions. A transaction (`Begin`, `End`, `Poison`)
remembers the worker thread it began on, and reports it by index as `onPoisoned`
does. `env.deaths` admits the inopportune ones: a report of a worker already
replaced (`"stale"`), a failure, or such a report, after close() was called
(`"closing"`).

### Epochs

A *realm* is a tab. The database file is the sequence of its commits, a
connection's `view` the set it has observed: its own, and everything after
a barrier. That a barrier statement refreshes a connection is SQLite's and
the VFS's promise, and is taken as the meaning of `RunBarrier`. An operation
goes through the steps of `acquireLease`, `applyBarrier`, the statement,
`afterWrite`, `publish` and the release; it may be abandoned or fail at each
of them. A setting's `faults` add worker crashes, rejected publications, tabs
that go away and statements of aborted writes that commit late. The worker is
bound to the operation from the call on; in the code it is chosen when the lease
is granted, which only makes it fresher.

### Transport

The page's record `p` is the closure of `createPoolWorker` with the state of
every transport generator made on the worker; a page task, with the microtasks
it settles, is one step, so each message handler wakes the generators in its
race (`waiters`, oldest first) before the next message. The worker's record `w`
holds the credit gate, the mutex and its queue, and the query, verdict and close
handlers between their awaits. Each side keeps the channel it posts to. Rows are
numbered chunks, `size` says how many a statement's rows fill, and a query,
posted once, is its own callId. A worker inside SQLite reads messages only on a
`"yielding"` build; a `"polling"` one sees the abort slot, a `"deaf"` one
neither.

The consumer may pull, leave (break, abort and collection run the same cleanup)
or do nothing for ever. `Reuse` is what the next statement waits for: `quiesce()`
for a client's lease, `free()` for a statement queued in a transaction behind an
open generator. `Faults` admits failing statements, undeserializable messages,
deaths, drain timeouts and close(). An undeserializable message may be any reply
(`MessageError`): the handler cannot tell which, and rejects the query being
served; if it was a verdict's, its request stays in `verdicts` (`Missed`).
`Terminate` is the end of the client's close(): the worker is terminated once it
has answered, or has not for `drainTimeout`, and what was pending is rejected.

### AtomicTx, Savepoints and Transaction

`AtomicTx` is what a caller of `transaction()` is promised, in terms of its own
calls only: a call is asked, then told one thing; a write or savepoint verb told
"ok" enters a `ledger`, on which the savepoint verbs act as SQL says; a commit
makes the file exactly the ledger's writes, once, and anything else leaves it as
it was. `Savepoints` is that log: effects and marks, with release and rollback.

`Transaction` is one call of `transaction()` with its worker. A call of the
handle takes a place in the queue: `tail` is captured and replaced when it is
made, `prior` is its predecessor, and a call that gives up its place hands on
its predecessor. A write with a signal of its own asks whether it writes
(`"asking"`), then runs inside the library's savepoint; the next message to the
worker carries what becomes of it (`conclude`), as `pending` says. `busy` is the
query in flight with the savepoint prelude the worker performs first, `conn` the
connection's real log and whether it is in a transaction, `said` what the last
reply told the page of it. `abandoned` is the write its signal gave up on and
whose end the next call waits for; `closing` the generators `closeOpenStatements`
drains. `BEGIN`, `COMMIT` and `ROLLBACK` of the transaction's own are call 0.

`Abstract == INSTANCE AtomicTx WITH ...` maps it: `told` and `asked` are read off
the calls, `db` is the file, `over` whether the connection has left the
transaction, and the ledger is a history variable of `Transaction`, written where
a call's caller hears "ok" and read by nothing else. `Atomic` is `Abstract!Spec`.

### Routing

`memo` is the verdict memo in LRU order, `asks` the verdicts in flight with their
`waiters`, `calls` the callers. A text means something relative to a schema that
another client changes (`Change`): `"ensure"` is a CREATE TABLE IF NOT EXISTS AS
SELECT, which writes until its target exists and cannot be prepared while its
source is missing. `schema.past` is what a connection that has not gone through
the barrier may still see. An ask goes through `askVerdict`'s loop (free or
borrowed worker, the barrier; a passing failure or a death of either is asked once
more, any other error is the call's), a call through `kindFor`, `waitForKind`, its lease, the attempts of
`streamWithRetry` and the refusal of a write sent as a read. A BUSY is a step's,
so it precedes a streamed write's first row (`drainWrite`); any other failure
(`"error"`, the worker's death among them) may come after the write took effect.
Which worker serves a lease is Scheduler's business.

### Statements

`cache` is the statement cache with its account of bytes, `live` the statements
SQLite holds by address (a prepare takes any of the `Free` ones, a freed one
among them), `mutex` the holder of SQLite and those who wait.
A query takes its cached statement or compiles, steps, is parked on a credit and
steps again; a verdict prepares and never steps, and files its statement only
where nothing can be using a cached one. `harm` records what was done that a mode
forbids: a write in a query sent as a read, a caller's BEGIN, a pragma that acted
at its prepare or did not act when it was run.

### Origin

Two names, `bsq:conn` and `bsq:init`, with the manager's rules (a request with
`ifAvailable` is granted at once or never), clients that construct, boot, open,
close (ending the workers, then giving the lock back) and die, deletions that
take both locks, test for the main file, remove the parts in their order, time
out, fail and answer. `VFSs` are the kinds of row in the build table: connection
lock shared or exclusive, files that are OPFS entries or the VFS's own. `held`
says that a worker ended in a statement still has its files, though its Web
Locks are back; opening tries again until it has let go.

### Outputs

`out[o].w` is `bulkWrite`'s closure: the rows buffered, the batches queued, the
one running, a parked producer (`room`), the latched failure and the counts the
error reports. Around it `output()` takes the staging lock, creates the table,
and on close drains, swaps or drops. `tab[t]` is the client's sweep: it reads the
tables, then the held locks, then drops the difference, each at its own moment.

## 3. Runs

| Run | Instance | Shows |
|---|---|---|
| `Scheduler` | 2 slots, 2 requests, crash, respawn, abort and shutdown at any moment, fair | leases exclusive, no worker lost, writes serialized, no free worker beside a waiting reader, every wait and the shutdown end |
| `Lifecycle` | 2 slots, 3 deaths, every kind of connection lock, declines, fair | pool, supervisor and announcements agree; the restart budget; ready, the lock and close() settle; no worker outlives close() |
| `Epochs` | 2 tabs of 1 worker with 3 writes and crashes, or of 2 and 1 workers with 1 write and every fault | read-your-writes across tabs; within a tab whatever fails; a connection marked current has seen what it is marked for; the origin's epoch never dips |
| `Transport_safety` | 2 statements of 0 or 3 chunks, window 2, a verdict, every build and fault | own rows, in order and all of them, unless the consumer is told; a free worker is idle; one user of SQLite |
| `Transport_liveness` | 2 statements of 2 chunks, window 1, a verdict, a deaf build, lost messages, timers, close() | the stop-and-drain and close() end though the worker be silent; if it goes on, next() settles and a verdict is answered, unless its reply was lost, though the consumer may not pull |
| `Transaction` | 2 calls of any kind under every failure in each mode; 4 nested savepoint verbs and writes; 3 calls in one queue with their own signals; fair | it implements `AtomicTx`; the stack is SQLite's; no connection goes back inside a transaction; endings told truthfully; it ends |
| `Routing` | 2 calls of one text, 1 schema change, 2 asks, busy workers, verdicts and barriers that fail, errors, fair | a statement takes effect at most once, and not if its caller is told of a BUSY, a refusal or a failed verdict; its count is its attempt's, nobody is told of another's abort or of a stale failure, a write verdict sticks, calls end |
| `Statements` | 5 texts in 4 modes, cache of 2 entries and 2 bytes, 4 addresses, 1 verdict | no use after finalize, no leak, both bounds, nothing runs in a mode it was not asked for in |
| `Origin` | 2 clients, 2 deletions, 3 kinds of VFS, dying tabs, failing removals, timeouts, fair | nothing deleted under a connected client, retries find the rest, success means gone, everyone is answered |
| `Outputs` | 2 tabs with an output each, batches and queue of 1 row, failing and sticking writes, a dying tab, fair | targets replaced whole or not at all, orphans swept and nothing else, rows accounted for, writers end |
| `Epochs_late_commit`, `Transport_handover` | the violations of section 4 | |

*Bounds.* Two slots are the least with a writer and a reader, a worker to lend
and one to lose. Two requests are a holder and one that waits or arrives; with
three the safety part passes as well, but not within minutes beside the liveness
property, and beyond any bound it rests on the theorems of section 5. Three
deaths are one in startup or its retry round, one in service and one during
close(), past a budget of one restart. Three writes let two tabs overtake each
other twice. Three chunks under a window of two are the least with a chunk
queued, a chunk on its way and a worker parked; two statements the least with a
stale generator. A queue of three calls is the least in which the middle one
gives up its place between one that runs and one that waits; four savepoint
verbs nest two names and end one of them out of order, with a write inside. Two
callers of one text and two asks give a shared request, a cancelled one and one
begun again. `AskFails` treats a death as it treats a passing failure, each
counted apart, so the run of Routing has one of them: with both it takes longer
than five minutes, and its safety properties are theorems for any set of faults.
The liveness of Transport is checked of a `"deaf"` build, which a stop or a close
reaches last: between two steps only. Two entries and two bytes make each of the two bounds evict alone;
four addresses are what a cache, a query and a verdict hold, so that no prepare
lacks one. One
deletion that stopped and one that retries, one client that leaves and one that
comes, are what two of each give. A queue of one row is full at each batch.
Where deadlock is not checked, the bounded system really stops: every request
done, the client closed, the writes used up, the transaction released.

*Fairness.* Weak fairness of microtasks and of worker messages is what the
event loop and the browser give. Holders release because every lease in
`client.ts` is released in a `finally` or after `quiesce()`. Scheduler does not
assume that a dead slot is respawned; it assumes only that a pool with no slot
left is either respawned or shut down, which `NeverSilentlyEmpty` checks of the
client in Lifecycle, and it promises a write its worker only while no slot stays
down. In Transport messages arrive and the page's two timers fire, of a drain and
of close(); a consumer need not pull. That the worker goes on is not in the
specification's fairness: `RequestsSettle` assumes it (`WorkerAnswers`) of next()
and of a verdict, and of nothing else. In Transaction the worker, the page's tasks and the
transaction's own steps go on, and a callback whose signal has fired loses its
race against it; a callback need not return. In Routing a granted lease comes
and a worker answers; nobody need read a stream. In Origin the lock manager
answers, pages and booting workers go on, timers fire and a dead worker's files
come free; a deletion's worker may hang for ever. In Outputs the writer's chain
and the sweep go on, and a write that never answers has a deadline. Callers need
not call, abort, close or delete, and nothing need crash.

## 4. Where the code and its documentation differ

Two runs are refuted by TLC; `PROJECT.json` quotes the sentences.

| Run | Behaviour |
|---|---|
| `Transport_handover` | in a transaction, a statement issued while an open `chunk()` still has chunks on the page throws them away: the generator ends early, as if complete |
| `Epochs_late_commit` | an aborted write that commits after its bump is missed by a connection marked current |

The properties of the passing runs leave out what follows. Each line was refuted
by changing the one condition or constant it names.

- Lifecycle: `NoOrphan` without its `"closing"` condition. A worker that dies
  while close() sweeps is restarted and outlives close(). `BudgetHonoured`
  without `"stale"`: a transaction's failed ROLLBACK evicts the replacement of
  the worker it began on, one death charged twice.
- Scheduler, with the run's own constants: `drained` may hold while a request
  owns a worker. A shutdown() between resolve and makeLease sees nothing
  outstanding and settles, though `scheduler.ts:102` says "when the last
  outstanding lease has come back". With `"remove"` in `Interrupts` and three
  requests `WorkerAccounted` fails: the lease is made under the generation of the
  worker's replacement. And a write queued behind a writer that dies is not
  served though a worker is free, until somebody releases, adds or acquires.
- Epochs: `FreshAcrossRealms` with `"publish"` in the first setting's faults.
  After a failed publication two commits carry one epoch, and the tab that
  failed misses the other's, though `client.ts:919` says "A failure leaves this
  realm correct". With `"realm"`: a tab that goes away takes its epoch with it
  before others learnt it.
- Transaction: `NothingAfterEnding` with un-awaited writes that wait for their
  verdict (`"asked"` in `unawaited`): one is posted after the ending, though the
  comment on `ending` says "once it is set, nothing the handle does reaches the
  worker". `NeverBusy` with `"last"` in `faults`: the last call of the queue,
  aborted while it waits, clears the tail, and the next call meets the reuse
  guard. `TransactionEnds` with an un-awaited generator that writes
  (`unawaited`): it may be left open when the others are closed, and nothing
  ends. `Atomic` with `"explicit"` and `"control"` in `faults`: a commit() or
  rollback() of the callback's own that fails after SQLite has left the
  transaction is not noticed (`dieIfConnectionLeft` follows statements only), and
  a write that follows it commits alone, in a transaction that is then rejected.
- Origin: `DeletesNothingOpen`. A shared client that waits for `bsq:conn` starts
  its workers at once, and one that opened before the deletion took `bsq:init`
  holds the file while it is removed, though `client.ts:817` says its workers
  are held by `bsq:init`. `DeletedIsGone` without `unseen`: a VFS's `jDelete`
  returns its failure as a number that nobody reads. The order that makes a half
  deletion retryable (`RetryFindsTheRest`) is that of OPFS entries; a VFS's own
  storage removes the main file first. And `delete.ts:109` says the deletion
  takes the two locks the other way round from a client: both take `bsq:conn`
  first, and it is `ifAvailable` that keeps them from waiting for each other.
- Transport: `VerdictAnswered` without "lost". No timer bounds a verdict
  (`verdicts.ts:92`), and a lost message rejects the query in flight and nothing
  else (`pool.ts:565`): a verdict whose reply could not be deserialized stays
  pending until the worker dies or the client is closed, which does end it
  (`CloseSettles`). `NextSettles` and `VerdictAnswered` without `WorkerAnswers`: a
  worker that falls silent without an error leaves both pending in the same way.
- Routing: `AtMostOnce` says nothing of a caller told of an abort or of an error
  other than BUSY: its write may have been committed (a worker that dies with its
  answer). `CallEnds` ends with a stream's rows handed out, so it says nothing of a
  generator nobody reads, and it assumes that a worker answers.
- Routing: a caller that joins a request whose barrier ran before its table was
  created may be told that the table is missing; `NoStaleFailure` speaks of
  tables that were there when the verdict was asked for.

## 5. Proofs

`SchedulerProofs` proves, for every pool size, every set of requests and every
bound:

- `TypeCorrect` and `QueuesCorrect`: types, and the queues hold exactly the
  waiting requests, each once, in its own queue. No assumption beyond the
  module's own.
- `LeasesExclusive`, `WorkersAccounted`, `WritesSerialized`: ownership is
  exclusive, every ready worker is free or owned and never both, no two writes
  run at once and the designation is on an owned worker. Assumption: `"remove"
  \notin Interrupts`, no removal in the microtask between resolve and makeLease.
  It is needed (section 4).
- `NobodyWaitsForAFreeWorker` (`NoIdleWhileReadersWait`), under the same
  assumption: no read and no verdict waits while a worker is idle.

*The argument.* Exclusiveness is not inductive. It rests on the generation a
lease carries being the one its worker joined at (`GenInv`), on free workers
being ready and owned by nobody (`OwnInv`), on the designated writer being
owned by the one write that has not given it up (`WriterInv`), and on nobody
having been let through a closed gate (`GateInv`). `IInv` is their conjunction
with the types and the queue invariant. The step theorem has one case per
action; actions that hand a worker over go through lemmas on `HandOver`,
`ServeWriterFirst` and `Takeable`, and the queue facts through lemmas on
removing one element of a sequence.
That nobody waits beside a free worker rests on two
facts: `takeAvailable` finds a worker whenever one is free, because every free
worker is ready and some free slot has the lowest index (the naturals are well
founded), and every step that frees a worker first serves the readers and the
verdicts, so it leaves the free set alone unless both queues are empty.

`LifecycleProofs` proves, for any size of the pool, any restart budget, any number
of crashes and transactions and in every setting, from the module's own
assumption: `LifecycleTypes`, `NeverEmptyAndSilent` (`NeverSilentlyEmpty`),
`LossesAreAnnounced` (`LossesAnnounced`), `NoWorkerOutlivesClose` (`NoOrphan`) and
`BudgetIsHonoured` (`BudgetHonoured`).

*The argument.* The handlers call each other synchronously, so the invariant is
stated of the client's record (`Sound`) and each operator that a handler is made
of has a lemma that says what it keeps: `SpawnIs`, `TerminateIs`, `FailClientIs`,
then the gate's callbacks (`OnGateOpenKeeps`, `FailStartupKeeps`, `RearmKeeps`,
joined in `SettleKeeps`), then the handlers (`ReadyKeeps`, `DeclineKeeps`,
`HandleDeathKeeps`), then one lemma per action. What makes it inductive: only a
slot's last thread may live, and the pool names it (`Latest`); the supervisor
counts every slot with a living worker as alive (`Counted`); during startup a slot
without a worker has not spawned one, or is among the startup losses, or declined
(`Starting`), so that the retry round respawns exactly the losses; a slot is
announced when it stops to count as alive and not again (`Announced`, `Told`);
past startup some slot counts as alive and each that does has a worker
(`Manned`). `BudgetHonoured` is not about the record alone: `Charged` says that
every restart was paid for by a death, `Bereaved` which slot a death may cost, and
`OnlyDeathsLose` that nothing else costs one. `NoOrphan` needs that nothing is
started once close() was called (`NoNewLife`) and that its sweep captures whatever
lives (`Sweeping`). That `effectivePoolSize` stays above 0 is `Sized`: only
surplus workers decline, each once.

`EpochsProofs` proves, for any number of tabs, workers and writes and every set
of faults, from the module's own assumption: `ReadYourWrites` (`Fresh`),
`SkippedBarriersAreNeedless` (`MarkedIsCurrent`) and `NeverDips`
(`OriginNeverDips`).

*The argument.* None of the three is inductive: what a connection has seen is
known only through the epoch it claims, so the invariant says what each claim is
worth. `WritersHoldTheLock` leaves one writer past its statement at a time,
`MarkersFollowCell` bounds a tab's markers by its cell, with the one being
published the highest, which is all `NeverDips` needs. `WithinRealm` says that
nobody claims an epoch the tab's cell has not reached, that who claims the cell's
has every resolved commit of the tab, and who claims the epoch of a write being
published has its commit; it is kept whatever becomes of the markers, the other
tabs or late statements. `AcrossRealms`, kept where only workers die, says that a
cell leads the origin's epoch only while its own write publishes, that a write
aims at the origin's epoch, and that who is at or past every epoch there is has
every commit. What an operation is owed follows from its tab's part or the
origin's, as the run's properties ask. `BoundedHasMax` gives the origin's epoch
its meaning, by well-founded induction on the distance from a bound.
The shapes of the state are part of the invariant; that `TypeOK`'s counts stay
below the number of writes called is left to TLC.

It proves too, of `Origin` (whose specification is `OriginSpec`), for any number of
clients and deletions, on every kind of VFS and under every fault of the model,
and from the module's own assumption only: `OriginTypes`, `ConnectedKept`
(`ConnectedIsNeverDeleted`), `RetryFinds` (`RetryFindsTheRest`) and `DeletedGone`
(`DeletedIsGone`). The two components share no state and no lemma.

*The argument.* `LockInv` says who may have what: a live worker's page is open
and its `bsq:conn` granted or, where the VFS is shared, asked for; a deletion
holds `bsq:conn` alone; nobody opens while a deletion has `bsq:init`. A client's
step or a deletion's step keeps it by one lemma each (`ClientKeepsLocks`,
`DeletionKeepsLocks`), as whoever takes a name takes it from nobody.
`RemovedSoFar` says what a deletion knows of the files: past the first part, that
part is gone or its jDelete failed unseen. It is kept because a client creates
files only while no deletion removes, and no two deletions remove at once, both
of which are `LockInv`. Neither property is inductive without the other's locks.

`RoutingProofs` proves, for any number of callers, texts of every kind, any size
of the memo, any number of verdicts and every fault, from the module's own
assumption: `RoutingTypes`, `OnceOnly` (`AtMostOnce`), `CountIsOfTheRun`
(`CountTruthful`), `SharedAsksTellTheTruth` (`SharedAskTruthful`) and
`WritesStickToTheWriter` (`WriteSticks`).

*The argument.* `CallSound` says what a call has done at each point of its life:
one that waits has changed and shown nothing, one sent as a read has changed
nothing, which is why only a read may be sent again and why one told of a BUSY
has written nothing. `Waiters` ties both sides of
a shared request: who waits for it says so, and who says so is counted, so a
request is cancelled (`AskSound`) exactly when nobody waits and no caller hears
"cancelled" that did not abort. `MemoSound` has the memo hold a text once, none
that is too long, and a request in flight only while it can be joined: joining
needs it, and it needs the finally of `waitForKind` to take out what it cancels.
That a request's table, once there, is there behind the barrier is in `AskSound`
too. Every step is shown to keep the invariant and, in the same pass (`Sticks`),
what the memo knows of a write; the memo's get, set and delete enter through one
lemma each (`UsedIs`, `MemoSetIs`, `WithoutIs`).

`OutputsProofs` proves, for any number of writers, tables, clients and batches,
from the module's own assumption: `OutputTypes`, `RowsAddUp` (`RowsAccounted`),
`TargetIsWhole` (`TargetWhole`) and `SweepsTakeOrphans` (`SweepTakesOrphans`).

*The argument.* `RowsAccounted` is about a sum over the queue, which is defined by
recursion over its length. The recursion is pinned down once, as the only function
on prefixes that begins at 0 and adds one element at a time (`SumsExist`,
`QueuedIsSum`, by well-founded induction), and then used through what Append and
Tail do to it; each of `bulk.ts`'s operations has a lemma saying which account the
rows move to (`WritersAdd`). `TargetIsWhole` needs that a writer's staged rows are
those of its table (`WritersStaged`, `TablesAgree`) and that a swap is of a table
all of whose batches landed (`TargetSwapped`). `SweepsTakeOrphans` needs that a
live output's lock covers its table from before it is created until after it is
gone (`LocksCover`) and what a sweep knew, of tables first and of locks after, when
it drops one (`SweepsKnow`, `LiveIsSpared`): the order of the two reads is the
whole argument.

`SchedulerProofs` proves of `StatementsSpec`, for any bounds of the cache, any
weights, any number of verdicts and any set of addresses, from the module's own
assumption: `NoUseAfterFinalize` (`InUseIsLive`), `NoStatementLeaks` (`NothingLeaks`),
`QueriesRunAsAsked` (`RunsAsAsked`) and `BudgetIsKept` (`WithinBudget`).

*The argument.* `StatementsInv` says who has SQLite (`LineInv`: a query at its first step
and a verdict in its prepare are the holder, so there is one of them), that what
is filed is alive, compiled from its text and not compiled to do nothing
(`Backed`), that the query's statement is the cache's entry of its text if there
is one (`QueryInv`), and that a verdict's is nobody else's and is to be filed only
while no query steps and the cache has none of its text (`VerdictInv`). The last
is what `MayKeep` is for: between a verdict's prepare and its insertion nobody
else runs, so the insertion replaces nothing, and what it evicts is in nobody's
hands. That a query's own insertion replaces only its own statement is what lets
`insert` leave the dropped entry out of those it returns. The cache enters
through a lemma for each of drop, get, evict and set (`DropIs`, `UseIs`,
`EvictIs`, `InsertIs`). `WithinBudget` is about a sum again: the weight of a
sequence is pinned down as in Outputs and used through concatenation
(`WeightConcat`), and the byte bound through the entry it may be overshot by.

`TransportProofs` proves, for any number of statements, verdicts and rows, any
window, every build, `Reuse` and fault, from the module's own assumption:
`TransportTypes`, `FreeWorkerIsIdle` (`FreeMeansIdle`) and `SqliteHasOneUser`
(`SqliteExclusive`). With `Reuse = "idle"`, a statement that waits for the worker
to be idle, it proves `RowsAreOwnAndInOrder` (`OwnRowsInOrder`) and
`NoStreamIsCutShort` (`NoShortRead`). That assumption is the contrast of section
4: with `"freed"`, the hand-over inside a transaction, `Transport_handover` is the
counterexample.

*The argument.* `Agree` ties the page's query in flight to where the worker is with
it: in the channel, in its hands, or answered by a `done` on its way, exactly one
of the three. That is what makes the page's "free" mean that the worker is idle,
and it must also say which messages a closing worker may still read. `MutexInv`
has the query and the closer in the mutex's line at most once each, the closer
ahead, and the holder nowhere else. For the rows, `PageInv` says that one
generator at a time has the page, and what a suspended one finds when it wakes;
`RowsInv` that what a generator handed on, with what is in its inbox, is an
initial stretch of its own rows; `StreamInv` that the chunks in the channel are
the next ones, in order, up to what the worker has let out, with the `done` behind
the last; `StopInv` that no stop reaches the query of a reader that stays. Losing
nothing is the conjunction: what was handed on, the inbox, the channel and the
worker's cursor meet without a gap. The page's task is composed of operators on
its record, so each has a lemma of its own, as in Lifecycle.

`TransactionProofs` proves, for any number of calls and any set of scenarios that
satisfies the assumptions named: `TransactionTypes`, `ConnectionComesBackClean`
(`NeverReturnedOpen`) and `CallsNeverCollide` (`NeverBusy`) under `Awaited`.
`AtomicityProofs` goes on from its invariant to `NothingIsSentAfterTheEnding`
(`NothingAfterEnding`) under `Awaited` as well, and to `EndingIsTruthful`
(`EndingTruthful`) and `TransactionIsAtomic` (`Atomic`, the refinement of
`AtomicTx`) under `Awaited` and `Heard`. `Awaited` is that the callback leaves no
call unsettled when it returns and that the last call of the queue does not give
its place up; `Heard` that SQLite does not refuse an explicit commit() or
rollback(). Every scenario of the run satisfies both. Both exclude what section 4
lists as refuted under `Transaction`: `unawaited`, `"last"` and `"explicit"`.

*The argument.* A state is related to its successor through named relations on
records (`Acts` is their disjunction; `NextActs` shows that each step of the
specification is one of them), so that an invariant is shown to survive one
relation at a time, whichever actions use it. `Inv` has eight parts beside the types
and the setting: `Queue`, that the calls with a place form one sequence in which
each one's `prior` is the one before it, the tail is its last and only its first
may have had its turn; `Flight` and `Carries`, whose query the worker has and what
it is; `Stages`, how far the transaction is; `Connection`, where the connection
is and what the page last heard; `Unbusy`. The queue is what `NeverBusy` and
`NothingAfterEnding` rest on: a turn comes only when the worker is idle. `More`
relates the connection's journal to the account: `Owed`, what the next message must
do with the library's savepoint, is what `pending` says; `Promises`, what the
caller of the query in flight was told; `Within`, when the connection is in the
transaction; `Journal`, that the journal, with the owed conclusion carried out,
is the account, and while a query is in flight what the query makes of the account;
`File`, that the file is untouched until the COMMIT and then holds the account.
The refinement needs both. `Mapped` says what a step is to `AtomicTx` by pointwise
facts (one call is asked, refused or granted, or the transaction is over, or
nothing happens), `MapActs` that each relation of `Acts` is one of these, and
`MappedSteps` that these are steps of `Abstract!Next` or stutters. The operators of
the abstract specification are its own instance of Savepoints; `SameEntries`,
`SameMarkAt`, `SameWrites` and `SameUndo` identify them.

*Only model-checked.* Liveness, and anything with ENABLED, which the prover does
not do: `EveryWaitEnds`, `ClientSettles`, `RequestsSettle`, `TransactionEnds`,
`CallEnds`, `EveryoneIsAnswered`, `WritersEnd`. And `StackAgrees`, the library's
savepoint stack against SQLite's: it compares the marks that SelectSeq leaves of a
journal, after Released and RolledBackTo, with a list of names, which needs
induction over journals; the library's induction theorems cannot give it here
unless the recursion is written as a function and its well-founded argument spelled
out, as Outputs and Statements do for their sums and TransactionProofs does for the
types of `Writes`. The two violation runs stay with TLC too.

## 6. Plan

1. *(done)* Gate, Scheduler, Lifecycle, Epochs, Transport; the scheduler's
   invariants.
2. *(done)* AtomicTx, Savepoints and Transaction with the refinement; Routing;
   Statements; Origin; Outputs.
3. *(done)* Proofs of every component's safety, the refinement of `AtomicTx`
   among them. Left: `StackAgrees`, and `TransactionIsAtomic` under a weaker
   assumption than `Awaited`, since un-awaited calls break `NothingAfterEnding`
   only where they wait for a verdict.
4. An abstract specification of the transport (a query is a sequence of chunks,
   then an end) that `Transport` implements.

## 7. Not modelled

- The SQL text functions, value and binary encodings, the capability tables, the
  types: they compute values and keep no state.
- The debug tree, inspection, the logger and the roster marker behind them:
  bookkeeping no decision depends on.
- In the worker: how a build is started, the connection pragmas, the retried open
  of a replacement worker whose predecessor was killed in a statement
  (`openWithRetry`), and the quiesce grace `terminate()` gives an IndexedDB worker.
  Their outcome, an opened worker or a failed one, is a step of Lifecycle.
- `indexStatements` and the column types of `output()`: SQL text.
- Origin leaves worker 0's probe to Lifecycle, Routing leaves the choice of a
  worker to Scheduler, and Transaction leaves chunks and credits to Transport.
- The maintenance scripts, the tests and the demo.
- wa-sqlite, the VFSs and the browser's Web Locks are external and enter by what
  the code relies on.
