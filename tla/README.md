# A TLA+ model of minisqlite, an embedded control-plane store

minisqlite keeps domain events, versioned projections and durable jobs in one
SQLite database and changes them in one atomic transaction. This directory
models the part of it that decides: which job a worker may run, which batch
commits, what a client is told and what it may conclude from it, and what
readers, exports and backups see meanwhile. SQLite itself (transactions, its
WAL, snapshots, the backup API) is taken as given; what the Rust code builds on
it is checked.

Paths below are relative to the repository (`src/store/jobs.rs` is the job
store, `src/jobs.rs` its public types).

## The system

| Component | State | Operations | Modules |
|---|---|---|---|
| Job operations and claims (`src/store/jobs.rs`, `src/jobs.rs`) | tables `jobs`, `active_partitions`, `queue_cursors`, `claim_receipts`, claim rows of `transactions` | enqueue, ack, fail, cancel, resolve, extend; claim (maintenance + rotation + grant); recover_claim; list | `JobTable`, `JobStore`, `LeaseQueue`, `JobQueue`, `Inspection` (list) |
| Workers and operators (`examples/synara_provider_turn.rs`, `jobs resolve` in `src/main.rs`) | the leases a worker holds, the claims it has to recover, the resolutions an operator has decided | poll, recover, settle, heartbeat, crash, resolve | `JobWorkers` |
| Commit pipeline (`src/store/commit.rs`, `src/transaction.rs`, `src/store/mod.rs`) | the open transaction, `transactions` | commit, resubmission, recover_transaction | `ControlPlane` |
| Events and streams (`src/store/events.rs`) | `events`, `streams`, a reader's cursor | append (in a commit), events_after, stream_events, last_events | `ControlPlane` (append), `EventLog` |
| Durability (`src/config.rs`) | what is on disk, the `synchronous` mode of the writer connection | open strict or relaxed, reopen | `EventLog` |
| Projections (`src/projection.rs`, `src/store/projections.rs`) | `projection_meta`, `projection_entries`, a scan's cursor | patch (in a commit); prefix and range scans | `ControlPlane` (patch), `ProjectionReads` |
| Connections (`src/store/mod.rs`, `src/store/read_pool.rs`) | the writer connection and its mutex, the idle read connections | lock, reopen, begin, commit, discard; take, read, put back | `Connections` |
| Backup (`src/store/ops.rs`) | files, paths, the copy in progress | backup, in the owner's process and from the command line | `Backup` |
| Statistics and diagnostic export (`src/store/ops.rs`) | the section and the page an export is at | stats, diagnostic_export | `Inspection` |
| Verify (`src/store/ops.rs`) | none | semantic checks | `ControlPlane` |
| Migrations (`src/store/migrations.rs`, `StoreBuilder` in `src/store/mod.rs`) | `schema_migrations`, the schema | open (create, compare, look up, apply), open_existing | `Migrations` |
| CLI printing, Node bindings, benchmarks | none of their own | | not modelled, see the end |

The components meet in four places. Every write goes through one writer
connection behind a mutex, in `BEGIN IMMEDIATE`, so calls are serial and a call
that returns an error has rolled back. A commit applies job operations through
the same functions that are modelled in `JobTable`. And every call whose
`COMMIT` itself fails reports *indeterminate*: the caller holds an id, and
`recover_transaction` or `recover_claim` must tell it later what happened.
Reads do not wait for the writer: each statement runs on a pooled connection and
sees one committed state, and what takes several statements (a tail, a scan, a
list, an export) sees several.

What is hard here: leases expire by clocks the store does not own; a lease may
be durable although its claim reported an error; recovery races expiry and
repair; a table (`active_partitions`) caches what another one says; maintenance
is bounded and planned before anything is written; batches fail half way;
resolutions carry no token; processes of different builds open one file at
once; readers page over tables that change under them; power fails before a
relaxed commit is on disk; a failed `COMMIT` leaves a connection in doubt. `PROJECT.json` lists these under `hazards`, at
their lines, with the properties that would catch them.

What makes each component correct:

* **Jobs**: one owner per unexpired lease; enqueue order in a partition; no
  more leases than `max_attempts`; every grant has a truthful receipt; no
  partition is forgotten or starved; a job does not stay leased to a dead worker.
* **Commits**: all or nothing, at most once per transaction id; contiguous
  stream versions; optimistic concurrency on streams and projections; an answer
  once given stays true, whatever processes die (losses of power: *Durability*); a job's result is recorded once.
* **Migrations**: no migration runs twice or half; no writer is let in on a
  schema that its build does not know; losing a race is not fatal.
* **Reads**: a reader that goes on after its last row skips nothing and repeats
  nothing that was there all the time; an export can be followed from its events
  and jobs to what they refer to.
* **Durability**: a commit of a strict store survives a loss of power, with all that
  was there before it; so should every receipt it gives; a batch is never torn.
* **Connections**: no transaction outlives its call; a read sees every commit
  reported before it; the mutex always comes back.
* **Backup**: a reported copy is one committed state, whole; a file that is not
  to be overwritten is kept; in the owner's process a backup ends.
* **Verify**: no finding on a store that only the store has written.

## Modules

**`JobTable`** has no variables. It defines the rows of `jobs` and, for every
operation `X` of a batch, the guard `XOk` (the code does not return an error)
and the new table; and the plans of a claim: `MaintenancePlans` (expired leases,
oldest first, at most the limit; ties are free, as in SQL), `LeasePlan` (ready
heads in the rotation order) and `NextCursors`. Partition keys are positive
numbers in the byte order of the keys; cursor 0 is "no row". Columns that no
operation reads (payload, digests, summaries, completion time, updating
transaction, `first_active_sequence`) are left out. Times are `0..MaxTime`,
where `MaxTime` stands for `i64::MAX`, and sums are checked as in the code.

**`JobStore`** is the job store as a state machine: one action per committed
transaction. It assumes nothing of its callers: every call brings its own
`now`, any token ever granted may be presented again, resolutions come at any
time. `ClaimJobs` is the whole of `claim_jobs` (both plans from the state before
any write, maintenance, grants, receipts, cursor, drained partitions);
`ClaimLost` is a claim whose `COMMIT` failed and did not persist. A claim that
persisted and reported an error changes the tables as `ClaimJobs` does.
`RecoverClaim` is what `recover_claim` answers. A lease token is the pair of
the transaction number and the job: `Id::new` draws fresh random ids.

**`JobWorkers`** extends it with the callers the store was written for, on one
clock: a worker polls (`Poll`, or `PollUnsure` when the outcome is
indeterminate), recovers, settles, gives up, extends or crashes; an operator
reads that a job is uncertain (`Decide`) and later commits the resolution
(`Deliver`), again if the outcome was not reported. With `PromptOperators` the
resolution arrives while the job is still uncertain. A worker executes under a
lease only through the expiry it was told.

**`ControlPlane`** extends `JobStore` with the commit pipeline. A batch runs
operation by operation: `Begin` (validation, lookup of the id, expected
versions, the `transactions` row), `Operate` for each operation, then `Commit`,
`CommitUnsure` (persisted, error reported) or `CommitLost` (not persisted, or
the process died at any point). While a transaction is open the variables are
what the writer sees and `open.saved` is what is durable; `OperationFails` and
`CommitLost` go back to it. `open = Closed` between transactions. `BatchType`,
`OperationType` and `MutationType` are the public types of `src/transaction.rs`
and `src/projection.rs`; `Batches` says which batches of that type clients build.
The properties are about `Executed(txs)`, the operations of the committed batches
with their places in the order of execution. `sent` and `told` record, per transaction id, the
last answer and the batch it was about. The request digest is represented by
the batch: SHA-256 over a length-prefixed serialization is taken as injective.
Expectations are a set; the order in which the builder was given them is left
out. Length limits are left out, the limit on operations is `MaxOperations`.
`SemanticFindings` is what `verify` would report.

**`Migrations`** is independent of the others: processes, each of some build,
open one database. A build is the sequence of its migrations, a migration its
checksum (FNV-1a over constant SQL, taken as injective). `migrate` reads outside
any transaction, so `CreateTable`, `ReadVersion`, each lookup (`CheckMigration`)
and each transaction (`ApplyMigration`) is a step, and `proc` is a process's
place in them. `applied` is the table, `schema` the SQL executed. An opener that
finds in its transaction that another was faster fails: on existing tables for
version 1, on the primary key of `schema_migrations` for version 2, whose SQL
can run again. `RequireCurrent` joins two reads, which is exact because the
table is never dropped. A process may fail at any statement (`OpenFails`), end,
or die, and come back with another build (`Exit`).

**`LeaseQueue`** is the abstract specification of the job store, with no rows,
clocks or limits: jobs wait in lines, only the head of a line is leased, under a
token no grant used before, and a job leaves its line once. **`JobQueue`** gives
the refinement mapping from `JobStore` (a line is a partition, its order that of
the enqueue sequences of jobs that are not terminal) and `ImplementsQueue`.
Extensions, lost claims and repairs that change nothing abstract are stutters; a
claim with its maintenance is one abstract step.

**`EventLog`** is the log as readers see it, and what of it is on disk. Readers
keep their cursors outside the store; each page is a statement on its own
snapshot. `Commit` appends a whole batch and, on a connection with
`synchronous=FULL`, puts it and everything before it on disk; `PowerLoss` cuts
the log back to a commit that is not before the last one on disk; `Restart`
opens with either durability. `Resubmit` and `Recover` are the calls that find a
batch in the log: they return its receipt and write nothing, so they put nothing on
disk. Two histories say what was promised: `firm`, the events in the log at the last
commit a strict store made, and `reported`, the ids for which a strict store gave a
receipt, from whichever call. A COMMIT that reports an error (`CommitUnsure`, where
`CommitsFail` allows it) may have left the batch in the WAL, on disk or not.
Cursors and limits are `u64` bound as `i64`: `Half`
stands for 2^63, and a limit that becomes negative is none to SQLite. `MaxEvents`
is at most `Half - 2`: `AUTOINCREMENT` ends at `Half - 1`, and with one event
fewer the version after the last one is an `i64` too. A reader
starts again from what it has, also when the store lost events it had seen. A
new event has the version after `StreamVersion`, the number of the stream's events.
**`Pages`** says what a query with `ORDER BY` and `LIMIT` returns: `FirstOf`, the
first rows, in that order, of the set that the WHERE clause selects.

**`ProjectionReads`** has the patches, one mutation each, on rows with their
rowids, and the scans that go through them by key: byte strings over a small
alphabet whose largest byte stands for 0xFF, `PrefixUpperBound` as in the code.
Its pages are `FirstOf` of the rows selected, as those of `EventLog` are. `Replace` deletes and then inserts, so its rows have new
rowids.
**`Inspection`** extends it with events, jobs and receipts, and with the readers
that go through several tables: the export (three counts, then six sections,
each page by page but for the claim receipts, which are one statement) and the
paged list of jobs. Readers do not disturb one another, so one is in progress
at a time; a commit can fall between any two of its statements.

**`Backup`** keeps paths apart from files, as an open file survives the unlinking
of its path. A backup is five control points (exists, remove, open, copy,
verify); a copy is a step per group of pages and starts again when another
connection has written. Calls of the owner's process hold the writer's mutex
from start to end, so its commits wait; the command line's hold nothing.

**`Connections`** is the layer under all calls: two threads of one store and one
of another process on the same file. A write locks, reopens a discarded
connection, begins, and ends by commit, refusal or failed `COMMIT`, after which
the connection is discarded; a recovery looks up; a read takes a pooled
connection and puts it back. A transaction is its id alone: `ControlPlane` has
its contents.

**`JobStoreProofs`**, **`JobWorkersProofs`**, **`ControlPlaneProofs`**,
**`MigrationsProofs`**, **`EventLogProofs`**, **`InspectionProofs`**,
**`BackupProofs`** and **`ConnectionsProofs`** hold the theorems about the modules
they are named after; those of `JobQueue` are in `JobWorkersProofs`, and those of
`ProjectionReads` in `InspectionProofs`. The modules whose names begin with `MC` give the constants values for TLC. A
definition whose comment begins with *Mutant* is a plausible bug of the
definition that follows it; `PROJECT.json` names the property that each one
breaks.

## Runs

| Run | Configuration | What it shows |
|---|---|---|
| `job_lifecycle` | `JobLifecycle.cfg`: 2 jobs, in one partition or in two, 3 specifications (both effect modes, one and two attempts, one delayed), times 0..3, claim limits 0 and 2, maintenance limit 1, one lost claim | `TypeOK`, `PartitionFIFO`, `ActivePartitionsExact`, `AttemptsBounded`, `ReceiptsTruthful`, `RecoverySound` for arbitrary callers; `ImplementsQueue`, the refinement of `LeaseQueue` |
| `job_rotation` | `JobRotation.cfg`: 3 jobs in 3 partitions and a second queue, times 0..3, claim limit 1, maintenance limit 1 | `RotationProgress`: each grant that passes over a claimable partition brings the cursor closer to it |
| `leases` | `Leases.cfg`: 2 workers, 2 jobs, one indeterminate write, one lost claim, one crash, clock 0..2 | `LiveLeaseIsCurrent`, `LeaseAccounted`, `LeasedToPendingOnlyByExpiry` |
| `progress` | `Progress.cfg`: 2 partitions, clock 0..3, a lost claim; fairness | `EveryJobSettles` |
| `late_resolution` | `LateResolution.cfg`: as `leases`, with operators that may be late | a violation, see *Findings* |
| `commits` | `Commits.cfg`: 4 transaction ids, 2 faults, one job with 2 attempts, 2 streams, 3 events, a projection with 2 keys, 9 shapes of batch | `LogIsCommittedBatches`, `StreamVersionsContiguous`, `ExpectedVersionsHeld`, `ProjectionsReplayPatches`, `ToldTruthful`, `SettledOnce`, `VerifyReportsNothing` |
| `migrations` | `Migrations.cfg`: 3 processes; an old build, its successor, and one whose second migration was edited; 1 fault; fairness | `SchemaIsRecorded`, `OpenedSchemaAgrees`, `OpenersGetIn` |
| `event_reads` | `EventReads.cfg`: 2 batches over 2 streams, a reader of the log and one of a stream, limits 0, 2 and 15 (-1), 4-bit integers, COMMITs that fail, 1 restart, 1 loss of power; fairness | `TailExact`, `StrictCommitsSurvive`, `BatchesWhole`, `LastEventsAgree`, `TailCatchesUp` |
| `event_receipts` | `EventReceipts.cfg`: the same, without COMMITs that fail | a violation of `ReceiptsSurvive`, see *Findings* |
| `inspection` | `Inspection.cfg`: two stores with rows in and against the order of keys, 2 commits before or while one reader is at work, 7 queries, page limits 1 and 2 | `ScanSound`, `ScanComplete`, `ExportComplete`, `ExportCloses`, `ListFaithful` |
| `backup` | `Backup.cfg`: two calls in the owner's process on one path, one of them with overwrite, and one of the command line; 2 groups of pages, either path free or taken; fairness | `BTypeOK`, `BackupPointInTime`, `ExistingKept`, `BackupCompletes` |
| `connections` | `Connections.cfg`: 2 threads of the owner and one of the command line, 2 transactions, a pool of 1, one fault; fairness | `AnswersHold`, `NothingLeftOpen`, `ReadsAreCurrent`, `WriterReleased` |

The type invariants of `JobWorkers`, `ControlPlane`, `EventLog`, `Inspection` and
`Connections` are conjuncts of `LeaseAccounted`, `LogIsCommittedBatches`,
`TailExact`, `ExportComplete` and `NothingLeftOpen`; `MTypeOK` and
`LeaseColumns` are proved. That a claim never hands a repaired lease on in one
call, and gives every lease a new token, is part of `ImplementsQueue`.

Bounds, and why they are enough. In `job_lifecycle` two jobs share a partition,
so that one is behind the other, or have one each, so that two leases are
expired while maintenance repairs one a call; two attempts let a job be
leased, lost and leased again so that an old token meets a new lease; with lease
length 1 and times 0..3 a lease can be live, at its last millisecond, expired,
and too late to represent, and since every call brings its own time the clock
never runs out. In `job_rotation` three partitions are the fewest in which
"closer to" differs from "at", with claims of one job each, so that partitions are
passed over; time 3 leaves room for a claim that repairs an expired lease. In `leases` the clock 0..2 holds a grant, its
expiry, and a second grant after repair. In `commits` four ids allow enqueue, a
failure under the first lease, and two competing settlements; two faults allow a
lost commit and then an indeterminate resubmission. In `migrations` three
processes allow two to race for a version while a third has already gone
further; two migrations are what the repository has; the fault is an error, or
an exit after which the process comes back with another build. In `progress`
nothing is asked of a worker that holds a lease, so one that crashes does
nothing that one that hangs does not; crashes are in `leases`. In `event_reads`
a batch of three events and pages of two make a page end inside every batch, one
batch writes to a stream on both sides of the other stream's event, and five
events stay below half of the 16 cursors; a loss of power lets a batch be lost
and submitted again, after a restart under the other durability and after a
COMMIT of unknown outcome. `event_receipts` needs one restart and one loss. In `inspection` the keys lie around prefixes whose upper bound
is the next byte, a shorter key, and none; two commits let an entry be deleted
and written again at another rowid, or a job leave its state and come back,
while a page is behind it. In `backup` a commit can fall between the two groups
of a copy, in one of them or in both, and a mixture of two states differs from
each. In `connections` three threads and two stores are the fewest in which one
waits for the mutex and another process for the lock, and one fault is what a
call can suffer before the next one meets its consequences. Job and worker
identities are interchangeable in `job_lifecycle` and `leases`, transaction ids
in `commits`; a run with a liveness property uses no symmetry. Deadlock is not
checked: with bounded jobs, clocks and ids every behaviour ends.

Fairness is assumed in five runs. In `migrations` a process inside `open()` takes its
next step (`WF` of `OpenStep`), and one whose `open()` failed calls it again if
it is infinitely often in a position to (`SF` of `Retry`; strong, because it may
go to `open_existing` in between). The retry is the caller's: the code returns
the error. A process that ends, turns to `open_existing`, or whose build the
database has come to exclude is excused. In `progress` the clock advances (`WF` of `Tick`), and for each
queue some poller keeps claiming with a positive limit (`WF` of `PollQueue`),
which is what the worker loop of the example does. Nothing is assumed of a
worker that holds a lease, which may hang or crash for ever, nor of operators.
`EveryJobSettles` therefore excuses a partition whose head is uncertain, or
waits for a time or lease beyond the clock's horizon (`Blocked`). In
`event_reads` a reader asks for further pages with a limit that is not 0 (`WF`
of `ReadPage`), as the paging loops of the repository do; nothing is assumed of
commits, and events that a loss of power took are excused. In `backup` the
thread that runs a backup goes on (`WF` of `Step`), and commits may never stop.
In `connections` a thread inside a call is scheduled again (`WF` of `Proceed`);
no thread need ever call, and the file may fail to open for ever.

## Findings

`late_resolution`: `apply_resolve` takes a job id and no token, and
`can_transition_to` allows `Leased` to go anywhere. A resolution that is
delayed, or repeated after an indeterminate outcome in a new transaction, is
applied to a job that was resolved and leased again meanwhile: it takes the
live lease from its worker (with `Retry`, the job is `Pending` and a second
worker may execute it before the first lease has expired). The comment on
`can_transition_to` reserves `Leased -> Pending` for expired-lease maintenance
of explicitly idempotent jobs (`src/jobs.rs:214`), and the contract asks for an
invalid-transition error for a job that is not uncertain
(`docs/CONTRACT_TESTS.md:153`). Under `PromptOperators` the property holds
(run `leases`).

`event_receipts`: a store opened with `Durability::Strict` gives receipts for
batches that are not on disk. `commit` returns the first receipt when it finds the
id in the log (`src/store/commit.rs:25`), and `recover_transaction` does the same
(`src/store/commit.rs:178`); neither writes, so neither syncs, and no row says
whether it was synced. In the run a batch is committed under `Durability::Relaxed`,
the process is killed before a checkpoint, the store is opened strictly, the
resubmission gets its receipt, and a loss of power takes the batch. On a strict
store alone it takes a COMMIT that wrote to the WAL and then reported an error: the
batch may be visible and not on disk, and its recovery says that it is committed.
The comments say of this level "Commits survive power loss" (`src/config.rs:6`), of a
receipt "holding one is proof of a durable commit" (`src/transaction.rs:362`) and of
a recovery "The transaction committed durably" (`src/transaction.rs:394`). What
holds is `StrictCommitsSurvive`: the receipt of a commit that a strict store has
just made covers that batch and everything before it in the log.

Known limit of `events_after`, which no run shows: it binds its `u64` cursor with
`as i64`. A cursor of 2^63 or more becomes negative and the page starts with the
first event, where the comment says "strictly greater than `after`"
(`src/store/events.rs:33`). `jobs_page` refuses such a cursor
(`src/store/jobs.rs:1081`). Sequences of events stay far below, so `TailExact`
holds for every cursor a reader has from a page.

Known limits of `backup`, which the run `backup` keeps out by its choice of
calls, because the text they disagree with is about calls of the owner:

* From the command line, the mutex that is held is that of the command's own
  process. The copy starts again after every commit of the owner and need never
  end, although "Holding the writer stalls writes for the duration of the copy
  and guarantees completion" (`src/store/mod.rs:400`). `BackupCompletes` is
  therefore about calls of the owner's process.
* The destination is checked (`src/store/ops.rs:74`) and opened
  (`src/store/ops.rs:86`) in separate steps. Two commands with the same new path
  may both find it free, and the second replaces what the first wrote, against
  `docs/CONTRACT_TESTS.md:250`. In the run, the two calls on one path are the
  owner's, and its mutex is around both steps.
* With overwrite the old file is removed before the new copy is made and
  verified, and the path is not compared with that of the store: a failure in
  between leaves neither, and a destination that is the store's own path is
  unlinked under the process that has it open.

## Proofs

All theorems are checked by TLAPS, for every value of the constants that
satisfies the named assumptions of the modules, which TLC evaluates in every run.
Where a theorem needs more, it is a hypothesis of the theorem and is named below.

**The job store** (`JobStoreProofs`; any sets of jobs, queues, partitions,
workers, specifications and limits; callers that present any time and any token):

* `StoreTypes`: `Spec => []TypeOK`, so no stored time overflows;
* `PartitionsServedInOrder`: `Spec => []PartitionFIFO`;
* `ActivePartitionsAreExact`: `Spec => []ActivePartitionsExact`;
* `AttemptsNeverExceeded`: `Spec => []AttemptsBounded`;
* `ReceiptsAreTruthful`: `Spec => [](LeaseColumns /\ ReceiptsTruthful)`;
* `RecoveryIsSound`: `Spec => []RecoverySound`;
* `RotationMakesProgress`: `Spec => RotationProgress`.

All rest on `StoreInvariant`: `Spec => []IInv`, where `IInv` is the conjunction
of these invariants with two facts that none of them states. `SeqsUnique`:
enqueue sequences are unique and at most `lastSeq`; without it a claim could
find two heads in a partition, and `PartitionFIFO` would not survive a grant.
`TokensFresh`: every token in a row or receipt, and every claim, comes from a
transaction number not above `lastTx`; without it a new grant could repeat an
old token, and receipts would not be unique. `AttemptsBounded` needs its second
conjunct (a claimable job is not exhausted) because the grant itself does not
check. The proof has one lemma per kind of action: row updates (`UnleaseRow`,
`GrantRow`), the operations that settle a job reduced to one common form
(`AckSettles`, `FailSettles`, `CancelSettles`, `ResolveSettles`, then
`SettleInv`), `EnqueueInv`, `ExtendInv`, `ClaimInv` and `LostInv`, with
`DrainExact` for the effect of draining on the active partitions.
`RotationProgress` is an action property: `VisitedBeforeOrder` says that the
rotation order is linear, and `RotationStep` that what lies between the cursor
and a partition that was passed over shrinks; the table is finite (`FiniteTable`).

**The abstract queue** (in `JobWorkersProofs`). `StoreImplementsQueue`: `Spec =>
ImplementsQueue`, every behaviour of the store is one of `LeaseQueue`. From
`IInv`: the head of a line is the head of a partition by `PartitionFIFO`, a new
token is unused by `TokensFresh`, and a claim is one step of the queue that
takes leases back and grants others. With `WorkersRefineStore`, below, it gives
`WorkersUseTheQueue`: `WSpec => ImplementsQueue`.

**The callers** (`JobWorkersProofs`; any number of workers, crashes and writes of
unknown outcome). `WorkersInvariant` is `WInv`: the store's invariant, and that
leases held were granted to their holder (`HeldIssued`), no token is held twice
(`HeldOnce`), and a claim of unknown outcome belongs to one worker, holds only
its leases and no token anyone has (`UnsureApart`, `UnsureOwn`). From it
`WorkersRefineStore` (`WSpec => Spec`), so that everything proved of the store
holds with its callers, and `LeasesAreAccountedFor` (`[]LeaseAccounted`).
`LiveLeasesAreCurrent` (`[]LiveLeaseIsCurrent`) and `PendingOnlyByExpiry` assume
`PromptOperators`: without it the run `late_resolution` violates the second, and
the store does not keep an operator from being late.

**The commit pipeline** (`ControlPlaneProofs`; any clients, streams, projections
and jobs, any number of faults). The hypothesis `BatchesTyped` says that clients
build values of `BatchType`, which the types of the code enforce; it says nothing
of their contents.

* `LogHoldsCommittedBatches`: `[]LogIsCommittedBatches`;
* `VersionsAreContiguous`: `[]StreamVersionsContiguous`;
* `ExpectationsWereMet`: `[]ExpectedVersionsHeld`;
* `AnswersAreTruthful`: `[]ToldTruthful`;
* `JobsSettledOnce`: `[]SettledOnce`;
* `VerifyIsSilent`: `[]VerifyReportsNothing`;
* `ProjectionsAreReplayed`: `[]ProjectionsReplayPatches`;
* `JobTablesInBatches`: the invariants of the job tables hold after every single
  operation of a batch.

These are about the moments between transactions; the induction
(`ControlPlaneInvariant`, `CPInv`) has to say what holds inside one. Inside, the
log agrees with the operations executed *so far* (`SoFar`: those of earlier rows,
and of the last row up to the operation that is due) and with the versions
reached in memory, which `streams` does not have yet (`LogAgrees`); the job tables
satisfy `IInv`; no token used to settle a lease is on a row, and every such token
is old (`SettledBy`), so that no later claim can bring it back. `InProgress`
says that the open row is the last and what is still to do is the rest of its
batch. `Restorable` says all of this of `open.saved`, so that a rollback, at any
operation or at `COMMIT`, needs no argument about what was undone. `AnswersTrue`
is about what is durable, also while a transaction is open, and has a clause
for indeterminate answers: if the id has a row, it is of the batch that was
sent, without which a recovery could hand out the receipt of another batch. The
proof of each step is a lemma (`BeginInv`, `OperateInv`, `RollbackInv`,
`PersistInv`, `ClaimRowInv`, ...); `LogAppended`, `VersionsAppended`,
`FoundWhenAppended` and `SettledNext` are the facts about single operations.
`JobStoreProofs` is used twice, of the tables as they are and, by `INSTANCE`, of
the saved ones.

Projections have an invariant of their own on top of `CPInv`, `PatchesInv`:
versions and entries are those that the patches so far led to (`Replayed`), those
of `open.saved` likewise, and the batch in progress was validated. `ApplyMutations`
and `PutEntries` are recursive functions over the places of a sequence, as the code
has loops. `Iteration` shows that such a loop has its values, from which
`ApplyMutationsLoops` and `PutEntriesLoops` unfold the two; both are followed by
induction up to a number (`UpToInduction`, from the least counterexample).
`EntriesInserted` needs that a `Replace` has no key twice, which validation sees
to. `MutationsApplied` then says that after a patch each key holds what the last
mutation of it left, or what it held, and `PatchExecuted` goes from one patch to
the next. TLC checked `PatchesInv` on the run.

**Migrations** (`MigrationsProofs`; any processes and builds):

* `SchemaNeverHalfApplied`: `MSpec => []SchemaIsRecorded`;
* `OpenedSchemasAgree`: `MSpec => []OpenedSchemaAgrees`.

Both follow from `MigrationsInvariant`. What neither says, and the induction
needs, is `MigratedSoFar`: a process inside `open()` has found or made every
migration before its next one agree with its build. With it, a version that is
missing at the moment of the transaction is the one after all recorded ones, so
the table grows by exactly that version although the lookup was stale.
`LocalStep` treats the steps that leave the tables alone, `ApplyInv` the one
that does not.

**The event log** (`EventLogProofs`; any batches, readers, restarts and losses of
power, and integers of any width):

* `StrictCommitsAlwaysSurvive`: `ELSpec => []StrictCommitsSurvive`;
* `LogIsWholeBatches`: `ELSpec => []BatchesWhole`;
* `ReadersSeeTheBeginning`: `ELSpec => []TailExact`;
* `LastEventsAreTheEnd`: `ELSpec => []LastEventsAgree`.

The first two need no readers. The invariant `ELIInv` holds the three parts of
`BatchesWhole` and adds that what was in the log at the last commit of a strict store
is on disk at its place (`FirmOnDisk`),
and that a store opened as strict works on no connection that does not sync,
reopened ones included (`StrictSyncs`). A cut at the end of a batch keeps every
other batch in one piece, and versions count only what is before them. Nothing of
the kind is proved of all receipts: the run `event_receipts` violates it.

The other two are about pages. `TailInv` adds what readers got (`ReadersInv`): it
is numbered from 1 without a gap, by sequence or by version, and is in the log as
long as nothing was lost. `StreamRows` makes this enough: in a stream each
version up to the last is that of one event, and versions grow with sequences, so
what is numbered and in the log is the beginning of what the reader follows
(`SeenIsBeginning`); after a loss of power this goes for readers that have only seen
what was in the log at a commit of a strict store, as that is still in the log. The numbering is kept by `PageGoesOn`, for the
full log and for a stream: the page after the cursor begins with the next number.
`Lists(g, c, S, R)` gives the `c` elements of a set in an order, and `ListRanks`
that their ranks are their places, from which `PageBySeq`, `PageBySeqDown` and
`PageByVersion` say what `FirstOf` returns for the three queries. `CursorBound` is
where the bound on the log is used: no cursor a reader has is bound as a negative
number. TLC checked `TailInv` on the run before it was proved.

**Backups** (`BackupProofs`; any number of calls, paths and groups of pages).
`BackupTypes` and `BackupInvariant` hold of any set of calls: no backup writes to
the file of the store, not even one that is told to (`SourceApart`), a copy that
is not marked stale is a beginning of the store as it is now (`CopyCurrent`).
`BackupsArePointInTime` assumes `OverwritersApart` and `ExistingFilesAreKept`
assumes `CreatorsApart`: calls of different processes that share a destination
are excluded where one of them may replace files, or where one may not. Nothing in
the code sees to that; it is the second of the known limits above.

**Connections** (`ConnectionsProofs`; any threads, stores, transactions and
faults): `NoTransactionLeftOpen`, `AnswersStayTrue` and `PooledReadsAreCurrent`,
for the properties `NothingLeftOpen`, `AnswersHold` and `ReadsAreCurrent`, from
`CIInv`: the mutex is with the call that uses the writer (`MutexHeld`), a
transaction is the business of one call (`OneCallEach`), and a writer is in a
transaction only while that call is in its body (`WriterAtWork`).

**Scans, lists and exports** (`InspectionProofs`; any keys, queries, page sizes,
stores to start from and streams, and any commits between the pages):

* `ScansAreSound`: `INSpec => []ScanSound`;
* `ScansAreComplete`: `INSpec => []ScanComplete`;
* `ListsAreFaithful`: `INSpec => []ListFaithful`;
* `ExportsAreComplete`: `INSpec => []ExportComplete`;
* `ExportsCanBeRead`: `INSpec => []ExportCloses`;
* `PrefixBoundIsExact`: of the keys not before a prefix, those below
  `PrefixUpperBound` are the ones that begin with it, and if there is no bound all
  of them do.

The properties of completeness are about readers at their end; `ReadersInvariant`
(`INInv`) says what a reader has seen on its way. A scan or list that is at a
cursor has shown every lasting row up to it (`ScanInv`, `ListInv`). For the
export, `Passed(s, pos)` says that the row at `pos` of section `s` lies behind it,
because the section is over or its last page went that far. An entry no patch
has touched is in the bundle once it is passed (`UntouchedSeen`). An event that was read
has its stream in the tables, at its version or a later one, and in the bundle
once that stream is passed (`StreamsSeen`); this is where the order of the sections is
used: streams are read after the events, so nothing is passed when the event is read. Likewise the receipts of a
job's attempts (`ReceiptsSeen`). What the header counted was there at that time, and nothing
takes it away (`CountsSeen`): for streams, whose ids are in no order of time,
some set of streams of that size is there from the count on, and is in the
bundle as far as it is passed. The numbered sections have no gap (`NumbersSeen`).
`INInv` was checked by TLC on the run before it was proved.

All of them need to know what a page is. `RankedIsPage` and `PageTaken` say, for
any linear order of a finite set, that the first `n` elements in rank order come
once each, in order, and that what comes before one that is taken is taken too.
That every rank has an element (`RanksTaken`) is an induction over numbers, from
the least counterexample (`LeastNat`). `LessTotal` and `LessTransitive` show that
SQLite's order of keys is linear.

Only model-checked: liveness (`EveryJobSettles`, `OpenersGetIn`, `TailCatchesUp`,
`BackupCompletes`, `WriterReleased`), which is out of this prover's reach. Every
invariant and action property of the passing runs is stated by a theorem, four of
them under a hypothesis named above (`PromptOperators`, `OverwritersApart`,
`CreatorsApart`), and those of the commit pipeline under `BatchesTyped`.

## Not modelled

* **Lookups of single rows** (a job, an event, a projection entry) and the
  remaining statistics: one query each, no state of their own.
* **CLI** other than `jobs resolve`, `jobs list`, `backup` and
  `diagnostic-export`, and **Node bindings**: conversions around the calls
  modelled here. A binding draws new event and transaction ids where the caller
  gives none.
* **Benchmarks, tests, scripts**: they drive the library.
* Export lines are modelled by the rows they show; payloads and the section of
  active partitions, which nothing refers to, are left out.
* SQLite, SHA-256, random ids, length limits, error wording.
* Negative times: all comparisons are between times, so the origin is free.
