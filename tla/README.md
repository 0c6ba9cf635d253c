# Verification of pulpitum

pulpitum keeps an append-only, time-partitioned table in two tiers: recent
buckets are rows in CockroachDB ("hot"), older ones are immutable objects in
object storage ("archive").  One logical bucket moves from the first tier to the
second while clients write and read it and while several replicas of the
archiver compete for it.  This directory holds TLA+ models of that system
translated from the Rust source, TLC configurations that check them on small
instances, and TLAPS proofs for instances of any size.  Paths below are relative
to the repository's root.

## 1. Inventory

| part | state it keeps | operations | talks to |
|---|---|---|---|
| durable bucket store (`src/adapters/cockroach_durable.rs`, schema in `cockroach_schema.rs`, interface in `src/ports/storage.rs`) | one metadata row per bucket (state, generation, owner, lease, object key, `hot_rows_deleted`, backoff) and the hot records | append, discover, claim archive / cleanup, begin, renew, snapshot, publish, delete, defer (2), abort, state, read_range | CockroachDB through the pool |
| route cache (same file) | process-local archive routes | filled by reads, dropped by the process's own transactions, evicted | read_range |
| archive objects (`src/adapters/opendal_store.rs`) | payload and manifest objects, content-addressed under a generation | put (create-if-absent, read back), get | object storage |
| recovery runner and heartbeat (`src/application/durable_archive_recovery.rs`) | current item, lease renewal task, failure channel | run_once, recover_cutover, recover_cleanup, supervise, shutdown | both stores |
| direct coordinator (`src/application/durable_archive.rs`) | as the runner, for one bucket | archive_bucket | both stores |
| durable table (`src/application/durable_table.rs`) and table definition (`src/domain`) | none between calls; cursor held by the client | append with write window, query, query_page with parallel bucket reads | both stores |
| connection pool (`src/adapters/cockroach_pool.rs`) | semaphore, idle stack, an atomic state per connection, four gauges, a driver task per connection | acquire, drop, prewarm, close | CockroachDB |
| transaction wrapper (`transaction()` in `cockroach_durable.rs`) | attempt, connection, reusable flag | BEGIN, operation, COMMIT, ROLLBACK with deadlines and retries | pool |
| archive read cache (`src/adapters/immutable_archive_cache.rs`) | entries, byte count, stamp counter | get, put with invalidation, eviction | archive objects |
| schema migration (`migrate`, `validate_schema`, `src/bin/pulpitum-migrate.rs`) | migration history table | migrate, validate, grant | CockroachDB |
| in-memory stores (`src/ports/storage.rs`) | test doubles of the two stores | as the stores | tests |
| DataFusion integration (`src/integrations/datafusion.rs`) | none between queries | filter push-down, planning, scan | durable table |
| SQL sidecar (`src/bin/pulpitum-sql-sidecar.rs`, `sql_sidecar_security.rs`) | security mode; per connection its stage, statement and portal | start, TLS, SCRAM, simple query, Parse, Bind, Describe, Execute | DataFusion, durable table |
| archiver binary (`src/bin/pulpitum-archiver.rs`) | the cutoff and settings of the process | run_once, sleep | recovery runner |
| connections, TLS, observability, development support | settings | I/O | - |

What is hard in this code, and therefore what the models keep:

- **Fencing.**  A worker whose lease lapsed goes on uploading and may try to
  publish after another worker has taken the bucket over; only owner and
  generation in the `WHERE` clauses separate them.
- **Unanswered commits.**  A COMMIT that times out may take effect later, after
  its caller deferred, crashed or was replaced.
- **Partial work.**  Upload, publication and deletion are separate steps, each
  of which may fail, and must be finished by whoever finds the bucket next.
- **Reads during the move.**  A read chooses its tier in one step and fetches
  in another; routes are cached in processes that nobody notifies.
- **Heartbeats.**  Renewal runs in a task of its own and reports through a
  channel that `supervise` polls together with the operation.  After a failed
  renewal the operation is drained while the lease runs out, so that two replicas
  work on one bucket.
- **Statements without a deadline.**  `state()`, `discover_archive_work` and
  `read_range` await a single statement for as long as the database is silent.
- **Cancellation.**  Dropping a future at any await of the pool or of a
  transaction must not hand an open transaction to the next caller.
- **Atomic words.**  Connection states and gauges are changed by callers,
  drivers and the warm-up without a common lock.
- **Sharing a loop.**  One cycle works through many buckets in order; what one
  bucket does decides when the others get their turn.
- **Rules that no table stores.**  A table's bucket strategy is read off its
  buckets, by processes that are replaced one by one.
- **Filters applied once.**  The scan promises DataFusion that its rows are exact,
  over two tiers that do not count time alike, read bucket by bucket.
- **Paging over a moving store.**  The buckets of one page are read at different
  instants, and the next page relies on the cursor alone.

`PROJECT.json` lists these hazards line by line with the properties that cover
them.

## 2. The modules

### Archival of one bucket

`DurableBucketStore` is the bucket's metadata row and hot records, one operator
per transaction of `CockroachDurableBucketStore`, named after its method.
Transactions are serializable and touch one bucket, so each is one step; buckets
share nothing but the table-wide strategy check and the capacity of the route
cache.  Leases are `none`, `live` or `lapsed`, because a lease instant is only
ever compared with `now()`; a session is the claiming worker and the generation
its claim created, which is as unique as the code's owner UUID.  Only buckets that
are old enough to be archived are of interest, so the age condition of discovery
is taken as satisfied; the strategy check has a module of its own (`StrategyFence`).

`ArchiveObjectStore` has the two kinds of object.  A key is generation and
content, as in the code, where it contains the digest; objects are never
overwritten or deleted.

`ArchiveCutover` composes both with runner replicas, direct coordinators, their
heartbeats, appending clients and readers with a route cache.  A worker's `pc` is the
operation it awaits and `res` how far it is: not polled yet, under way (begun
under a live or a lapsed lease: `now()` is fixed when a transaction starts), or
the result.  Result and return from `supervise` are separate steps because the
heartbeat runs in between.  An unanswered COMMIT goes to `pending` and takes
effect later or never.  A crash forgets everything the process held.  The
retries of the transaction wrapper are invisible at this level; they have a module
of their own.

`LogicalBucket` is what all this promises a client: a set that grows by single
appends, is sealed once, and is read atomically.  `ArchiveCutover` implements it
with `contents` mapped to the tier that routing selects.

### Connections and transactions

`ConnectionPool` follows the pool's atomic operations one at a time: callers,
drivers and the warm-up interleave between any two of them.  Gauges are words
that wrap.  `PooledTransactions` adds `transaction()` and single-statement calls
on top, with the database's side of every connection, deadlines, retries and
cancellation at every await.  A transaction's awaits have deadlines; a single statement
(`read_range`, `state`, `discover_archive_work`) has none and may never end.  An error the database reports for a COMMIT counts as
definite, as the code treats it (SQLSTATE 40003, "statement completion unknown",
would be an exception that neither the code nor the model singles out).
`from_client`, which starts with one connection and no driver, is left out.

### Table, cache, migration, test stores

`TableDefinition` has the calendar: any set of boundaries, with the bucket of an
instant, the buckets of a range and the write window.  `TablePaging` is
`DurableTable`: appends, whose window check precedes the store's transaction, and a
client that walks a range page by page.  Buckets are what `LogicalBucket`
promises; records are their clustering keys; a sorted list is the set of its
members, and truncation keeps the least.  Time is counted in parts of a microsecond:
a stored key has whole microseconds, the bounds of a range need not.  A hot bucket is
read with its bounds truncated on their way to a TIMESTAMPTZ (`HotRange`), an archived
one with the bounds as they are.  A page of no records (`EmptyPage`) hands the caller's
cursor back, which on the first page is none.  A bucket may be archived at any time
here, which includes every time the archiver would choose.

`ArchiveReadCache` is the LRU cache over archive objects with stamps taken outside the
mutex.  `SchemaMigration` runs deployment jobs of several releases at once.
The database is assumed to run the migration's transaction, DDL included,
serializably: it commits only if the history is what it read.  The job's catalog
inspection is reduced to the history.  A job is not started again while its own
lost COMMIT is pending; a job of the same release stands for that case.

`InMemoryStores` is the pair of stores that the unit tests and demos run on.  Its
callers are unconstrained: whoever was ever handed a session may use it at any time.
`ConformsToCockroach` maps the entry to `DurableBucketStore`'s row and holds every step
against that module, so that what a test sees there can happen in production.  Four
differences are left aside by the mapping or harmless: the in-memory
`begin_archive` and `abort_archive` forget a scheduled retry, CockroachDB's keep it;
duplicate records are accepted; `begin_archive` never takes a lapsed session over; a
lease can be renewed after the hot rows are gone.

### Many buckets, many processes

`RecoveryCycle` models what decides whether and when a bucket gets a session: the
archiver's loop, the two scans of `discover_archive_work`, which have a limit and no common
transaction, the claims that repeat the scans' conditions, the error that ends a cycle, backoffs
and leases as countdowns of ticks, and `eligible_before`, which is fixed when the process starts.
Of a session it keeps the bucket, the call it awaits, its heartbeat and its `fence`: whether the
row is still its own and whether the call under way began before the lease ran out.  A renewal may
fail and a lease lapse at any time; `supervise` then drains the call while another replica claims
the bucket, so two sessions on one bucket are ordinary states here.  `FailsAt` names the buckets
whose work always fails, and where.  An unanswered COMMIT takes effect at once or never in this
module; the late ones are `ArchiveCutover`'s.

`StrategyFence` is the strategy check of `append` among processes that are configured
differently.  An append is its first read and its commit, which needs what was read to
hold still, as SERIALIZABLE promises; `begin_archive`, which checks no strategy, may run
in between.  Boundaries are arbitrary sets, so any two calendars are covered.

### Queries

`RoutedScan` is `src/integrations/datafusion.rs`: which comparisons the provider takes, the
routed query they make or the planning error (a timestamp beyond Arrow's nanoseconds among them),
and the page that each bucket contributes.  A filter is a sequence of comparisons, the
literal on either side.  Time is counted in parts of a microsecond here too, and the two
tiers compare as in `TablePaging`.

`SqlGateway` is the sidecar in front of one table: loading the security settings, listening,
TLS and SCRAM, simple queries, and Parse, Bind, Describe and Execute.  The database's answers to
an INSERT are steps of their own, so that clients, failures, archiving and disconnects come in
between; an INSERT that was answered with an error may still land afterwards.  A scan
reads one bucket per step, each from the table as it then is, and may fail at any of them.
A statement is its parsed form; the texts that the parser
refuses are one kind of statement.  pgwire and DataFusion are modelled from how this code
uses them.

The `MC*` modules hold values for the constants and the symmetry sets.

## 3. What TLC checks

| run | question | instance | states |
|---|---|---|---|
| `cutover` | Is every acknowledged record kept, publication final and complete, every reported completion true; are cached routes valid and racing reads complete; is the proofs' invariant one; does the system implement `LogicalBucket`? | 2 runners, 1 direct coordinator whose process also reads, 2 records, 1 fault | 0.74 M |
| `cutover_liveness` | Does every call end, unless it awaits `state()`; and if the database also answers statements without a deadline, does every bucket end archived and cleaned up? | 1 runner, 1 direct coordinator, 1 record, 2 faults | 0.35 M |
| `pool_safety` | Exclusive use, no leaks, correct idle gauge, clean hand-over, true answers | a transaction and a read, 2 permits, 3 connections | 1.2 M |
| `pool_liveness` | Is capacity respected and every permit returned; does every transaction end, also beside a read that never does, and every read, unless it awaits its one statement on a live connection? | a transaction and a read, 1 permit, 2 connections | 0.17 M |
| `paging` | Does a walk deliver each record once, skip none that both tiers take as inside its range, and end? | 3 unequal buckets, 3 records (two at one microsecond), 3 ranges (one with both bounds inside a microsecond, one empty), page sizes 0, 1 and the maximum, 2 parallel reads, 1 failed page | 0.67 M |
| `archive_cache` | Exact books within both limits, the store's answers, oldest evicted first | 2 readers, 2 buckets | 1.9 M |
| `migration` | Is every migration applied once, in order, and for good? | 4 jobs of 3 releases, one with an edited migration; 2 versions | 1.6 M |
| `in_memory` | Are the unit tests' stores fenced, and can CockroachDB's store do what they do? | 2 records with 2 copies each, 4 sessions | 55 k |
| `recovery_cycle` | Are work lists sound and answers of a cycle true; does only the session whose lease is live move its row, beside older ones that are drained; are backoffs kept; is every bucket served whose own work can succeed? | 2 replicas, 3 buckets of which the first can never be uploaded and the last is due a year later, list limit 2, lease 1 tick, backoff three times the interval, 1 fault | 0.41 M |
| `recovery_starvation` | (violated) The last question with backoff equal to the interval | 1 replica, 3 buckets, no fault | 462 |
| `strategy_fence` | Are all accepted records of one strategy, and does whoever may write see them all? | 2 processes, 2 strategies, 2 partitions, 1 replacement, 2 archive sessions | 0.47 M |
| `sql_gateway` | Do only admitted clients run statements; does a read see every INSERT that was answered before it, and return nothing that its `WHERE` excludes; is what Describe asked for refused for the two known reasons only? | 2 clients, 3 prepared and 9 simple statements, 4 parameter lists, 3 buckets, 1 fault | 1.06 M |

**Why these bounds.**  Two workers suffice for a takeover and a late commit of
the first against the second; a second record distinguishes "the snapshot" from
"the rows now"; the coordinator beside them has no recovery of its own.  One fault suffices
for safety, as a lapse, a lost answer and a crash each start a takeover; the liveness run has
two, a second failure while the first is being repaired, and the proofs have any number.
Every fault (crash, failed or unanswered call, failed upload, failed renewal, lapse
under a heartbeat) counts against `MaxFaults`.  Generations are bounded by
them.  In the pool, a third connection lets a broken one be replaced while
another is in use; one permit for two calls makes one of them wait.  Four sessions of the in-memory stores
suffice for an abort, a takeover and a cleanup claimed by a third holder.  In paging,
three buckets and two parallel reads exercise the join that spawns the next task;
the largest page size is `UsizeMax`, where the capacity saturates; a cursor falls
between two records of one microsecond; two parts of time make a microsecond, so that a bound can
lie inside one.  The lease is as short as the interval, so that it runs out under a drained call.
The cache's stamps are bounded by `MaxStamp`;
sizes differ so that one insertion evicts several entries, one object or none.  In the
recovery cycle the list's limit is below the number of buckets, so that a scan
leaves some out, and cleanups and cutovers share it.  Two strategies of which one has a
boundary more, and one replacement, let a process read with a strategy it did not write with.  The
gateway's statements have literals on both sides, both bounds inside a microsecond, a
timestamp beyond Arrow's range (`ArrowMax` is below `Horizon`),
placeholders out of order, one placeholder for two columns of different types, a limit of
one row, an instant outside the write window, and two inserts that meet in one key once
their times are whole microseconds.  Type invariants (`TypeOK`) are parts of the
inductive invariants, which are proved.  The
constants' assumptions are evaluated by these runs.

Deadlock is not checked where the system may stop: all records appended, all calls
ended, a walk finished, no stamp left, a gateway that refused its settings.

**Fairness.**  Only what ends by itself is fair.  `ArchiveCutover`: a worker takes its next step
where the code gives it a deadline (`WithDeadline`: transactions, uploads, the loop's own steps);
time passes, so a lease that nobody renews lapses and a backoff ends; an unanswered COMMIT is
resolved.  `state()` and `discover_archive_work` (`cockroach_durable.rs:559`, `594`) await a
statement without a deadline, which `docs/production-readiness.md:135` lists as remaining work, so
`CallsEnd` excepts a call that awaits `state()`, and `ArchivalCompletes` is stated under the
hypothesis `DatabaseAnswers`, that these statements end too: without it archival can wait for ever
on a silent database.  Nothing is assumed of heartbeats, clients or faults.  `PooledTransactions`:
pool steps, the deadlines of transactions and of acquisition; not the drivers, not the database, and
not the end of a single statement, which `CallsComplete` excepts while its connection lives; the end of
a connection ends the statement.  `TablePaging`: the client asks for its next page and the
tasks are polled, the database answering their reads.  `RecoveryCycle`: time passes, a process that is down is started
again, and a running one takes its next step, the backends answering it in some way
(`BackendsAnswer`); a scan is over at most `Lag` ticks after
the sleep before it, because the loop does nothing else between the two.  Nothing is assumed
of failures, and none is assumed to end: `FailsAt` fails for ever.

**Each property has a mutant**: a plausible wrong version of one operator (named
`Operator_Variant`, beside the operator it varies) under which the property fails.

### Disagreements between code and documents

*A bucket that always fails starves the buckets behind it* (`recovery_starvation`).
`docs/archival-coordinator.md` lists what the runner does "for every eligible or recoverable v4
metadata row".  `run_once` returns at the first item that fails; by default a failed bucket is
deferred for as long as the loop sleeps (15 s each), so it is due at the next scan, comes
first again and ends that cycle as well.  A bucket whose cleanup fails does the same.  In
`recovery_cycle`, where the backoff is three times the interval, the buckets behind it are
served between two attempts.  Variations of these two configurations show how far that goes: one
failing bucket needs a backoff of twice the interval; two failing buckets starve the rest even at
three times; a second replica does not help when both are equal.

*Reads after cleanup.*  `docs/datafusion.md:219` says that route metadata is read `AS OF SYSTEM
TIME with_max_staleness('5 seconds')`, so that a read "can therefore temporarily return no hot rows
after archive cleanup" and callers must retry.  The code has no such clause: an uncached read takes
route and rows in one statement (`cockroach_durable.rs:992`), and only published routes are cached, as
`README.md:32` and `docs/hot-cold-archival.md:110` say.  `ReadsComplete` and `RoutesCoherent` in
`cutover`, proved as well, show that a read needs no retry.  The code is right and the document out of date.

*Renewal.*  `docs/datafusion.md:221` says that the recovery runner "does not yet renew a lease during
a long snapshot or upload".  It does, in a task of its own (`durable_archive_recovery.rs:99`);
`ArchiveCutover` and `RecoveryCycle` model it.

*Exact filters.*  The provider declares its filters exact (`datafusion.rs:148`,
`docs/datafusion.md:173`), so nothing applies them again.  A bound inside a microsecond is truncated on
its way to CockroachDB and not for an archived bucket: such a query can miss or return a row at its
edge and can answer differently before and after cutover.  `ScansSound` and `ReadsSeeInserts`, and in
paging `SettledExact` and `WalkComplete`, say how far the answer can be off: what both readings of the
bounds take is returned, and nothing that neither takes.  For bounds of whole microseconds the two
readings are one (`WholeRangesExact`).

### Observations without a run

- *A failed renewal does not stop the next phase.*  In its failure branch `supervise`
  (`durable_archive_recovery.rs:126`) awaits the operation even if it was never polled, so
  `publish_archive` or `delete_hot_bucket` can begin after the failure was reported;
  `docs/archival-coordinator.md:58` says that no subsequent destructive phase starts.  The
  statement's own fence still protects the data, as the proofs show.
- *Gauges.*  `acquire` counts a waiter up before an await and down after it; a caller that
  drops the future in between is counted for ever (`cockroach_pool.rs:339`, `370`;
  `observability/README.md:79`).  `prewarm` stores `IDLE` unconditionally after the driver
  was spawned (`cockroach_pool.rs:297`); if the connection ends in between, it is closed twice and
  the gauge of open connections wraps.
- *The cutoff is computed once*, when the archiver starts (`pulpitum-archiver.rs:61`): a bucket
  that ends later becomes due only after a restart.
- *Two replicas on one bucket.*  While `supervise` drains a call after a failed renewal
  (`durable_archive_recovery.rs:126-136`), the lease runs out and another replica claims the bucket.  Both
  then work on it; `RowsLeftAlone` shows that the older one no longer moves the row.
- *No deadline.*  On a silent database `state()`, `discover_archive_work` and `read_range` keep their
  caller, and with it a connection and a permit, for ever (`docs/production-readiness.md:135`).
- *Pages of no records.*  A first page with limit 0 returns no records and no cursor
  (`durable_table.rs:163`), which a client cannot tell from the end of the range.
- *Strategies.*  `docs/archival-coordinator.md:27` calls a table's strategy immutable.
  `begin_archive` checks none, so a process with another strategy can leave a row after which
  all appends are refused, and a read with another strategy finds nothing and reports no error.
  Neither harm violates a property: `OneStrategy` and `WritersReadAll` speak of what is accepted.
- *Unknown outcomes.*  The sidecar reports `CommitOutcomeUnknown` as "record could not be
  appended"; the commit may happen before or after that answer, and a client that retries then
  gets a duplicate key.
- *Binary results.*  Describe offers binary columns for computed and integer expressions, which
  `encode_rows` has no binary encoding for.
- *Refused parameters.*  Placeholders of a read are typed by position alone, and a TIMESTAMPTZ beyond Arrow's
  nanoseconds is refused (`pulpitum-sql-sidecar.rs:734`), so a client that binds what Describe asked for can
  still be refused.  `DescribeHonest` says that there is no third reason.
- *Literals on the left.*  `collect_timestamp_bound` would take `literal < timestamp` as an inclusive
  bound; DataFusion's canonical form, with the column on the left, keeps it from being asked.
- *Grants.*  `validate_schema`'s comment addresses runtime services with their DML-only role, but
  `pulpitum-migrate` grants that role nothing on the history table that `validate_schema` reads.

## 4. What is proved

Every invariant and action property that a passing run checks is a theorem as well.

**Archival**, for every set of records, workers and readers, and any number of faults
(`ArchiveCutoverProofs`):

- `CutoverInvariant`: the inductive invariant `CutoverInv`;
- `TypeCorrect`, `RowAlwaysValid` (the table's CHECK constraint);
- `AckedNeverLost`, `PublishedIsComplete`, `ReportsAreTrue`;
- `PublicationIsFinal`, `RowsLeaveOnlyWhenArchived` (action properties);
- `RoutesAlwaysCoherent`, `ReadsAlwaysComplete`;
- `CutoverImplementsLogicalBucket`: the refinement.

**Connections and transactions**, for any number of calls, connections and attempts and any size
of the pool (`PooledTransactionsProofs`): `PoolInvariant`, `PoolTypeCorrect`, `PoolExclusive`,
`PoolNoneStranded`, `PoolCapacity`, `PoolIdleIsClean`, `PoolAnswerTrue`, `PoolIdleGaugeSettles`,
from `PoolAssumption` and `AttemptsAssumption`.

**Paging**, for any calendar, keys, ranges, page sizes, parallelism and failed pages
(`TablePagingProofs`): `PagingInvariant`, `WalkAlwaysComplete`, `SettledAlwaysExact`,
`WholeRangesExact`, `PagesAlwaysAdvance`, from `CalendarAssumption`, `TickAssumption` (bounds of
buckets are whole microseconds) and `PagingAssumption`.

**The in-memory stores**, for any records, tokens and copies (`InMemoryStoresProofs`):
`InMemoryInvariant`, `AlwaysVisibleExact`, `AlwaysConforms`, from `InMemoryAssumption`.

**The archive cache**, for any objects, sizes, limits and readers (`ArchiveReadCacheProofs`):
`CacheInvariant`, `CacheWithinBudget`, `CacheAnswersTrue`, `CacheEvictsOldestForRoom`, from
`CacheAssumption`.

**The SQL gateway**, for any connections, statements, parameters, calendar and failures
(`SqlGatewayProofs`): `GatewayInvariant`, `GatewayOnlyAdmitted`, `GatewayDescribeHonest`,
`GatewayWellFormed`, `GatewayReadsSeeInserts`, `GatewayScansSound`.  Beside `GatewayAssumption`,
`TickAssumption` and `ArrowAssumption` (Arrow's range is part of the calendar's) they rest on two
assumptions about the statements that clients send: placeholders are numbered from one and a
`WHERE` has finitely many conjuncts (`PlaceholderAssumption`), and what a statement's
values decode to is a time of the calendar, a number or a comparison (`ValueAssumption`).

**Migration**, for any jobs, releases, versions and number of attempts
(`DeploymentProofs`): `MigrationInvariant`, `HistoryAlwaysSound`,
`MigratedStaysMigrated`, `HistoryIsAppendOnly`, from `MigrationAssumption`.

**Strategies**, for any processes, calendars and partitions and any number of replacements and
archive sessions (`DeploymentProofs` too: the two concern a rolling deployment):
`FenceInvariant`, `StrategyIsOne`, `WritersAlwaysReadAll`, from `FenceAssumption`.

**Recovery cycles**, for any replicas, buckets, list limits, deadlines, lags and failures
(`RecoveryCycleProofs`): `CycleInvariant`, `WorkListsAlwaysSound`, `OkMeansFinished`,
`RowsAlwaysLeftAlone`, from `CycleAssumption`.

The assumptions of the archival proofs are `NoneAssumption` (NULL is no value), `WorkersAssumption` and
`FaultsAssumption`.

**The archival argument.**  That no acknowledged record is lost is not inductive: it depends
on what a worker that is about to publish carries.  `CutoverInv` adds that no session
or pending publication has a generation to come (`GenerationsBehind`); that a
session which could still publish holds exactly the hot rows
(`SnapshotsFrozen`: a claim closes the bucket, reopening it gives the generation
up); that a key is offered for publication only once both objects exist
(`UploadedBeforePublish`); and that a worker uploads what it snapshotted in this
session (`SnapshotBeforeUpload`).  The proof has two layers.  The first concerns the
store alone: one transaction or the clock has one of seven effects on the row
(`StoreStepEffect`), each of which keeps the store's part of the invariant.  The second
shows that a system step makes at most one store step (`NextMoves`) and moves
workers in program order (`InOrderStep`).  Reads add `ReadInv`: what a read
was routed to, and what it must contain.  A report needs `OwnPublication`: the session that owns
an archived row and carries a snapshot finds it archived under that snapshot's key, since a
publication that committed late was its own.  The refinement maps the seven
effects to `Write`, `Seal` or a stutter, and reads to `Answer` and `Forget`.

**The migration argument.**  `MigrationInv` adds `Planned` to the checked properties: a
job that may still commit, its unanswered COMMIT included, has planned successfully
from the history it read.  As the commit requires the history to be that one still,
it has no foreign checksum and no later version in it (`EffectsExtend`), so it grows to a
prefix with the job's checksums; every other step leaves it alone (`JobStep`).

**The strategy argument.**  One strategy for all records is not inductive: a new record is
compared with rows, not with records.  `FenceInv` adds that every record's bucket has a
row (`RecordsHaveRows`: rows are never removed) and that an open transaction's bucket
is the one derived from its partition and time (`TransactionsDerived`).  A commit finds no
row of another strategy, thus no such record; a process without a conflict has the strategy of all
rows and derives for each record the bucket that it lies in.

**The argument for recovery cycles.**  Two replicas may have sessions on one bucket, so `CycleInv`
speaks of the fence: at most one of the sessions on a bucket has not lost the row (`OwnersApart`), and
the row of that one is being worked on and waits for no retry (`SessionTrue`).  It says of each
runner that what it claimed is completed or in hand (`BooksKept`) and that a listed
cleanup was published and stays so (`ListTrue`).  A step of one runner moves rows only
forward, and either leaves the row of another session alone or takes it over, which turns that session's fence to
"lost" (`StoreMoves`); the others' parts of the invariant carry over (`StepKept`).  That rows are
left alone needs both sides of the fence: a call takes effect only for a session whose row it is
(`EffectIsOwners`), and a claim takes only a row under no live lease and no backoff
(`ClaimIsAllowed`).  The two scans share no transaction;
that they never list a bucket twice rests on publication being final, and the limit on
`LimitBounded`, which counts the rows that `ORDER BY ... LIMIT` keeps.

**The in-memory stores' argument.**  `InMemoryInv` says that a claim gives out a generation of
its own, counted by the tokens used (`SessionsApart`), that the entry has the shape of
CockroachDB's row (`EntryShape`), and that what a session can still publish, or upload under the
published key, is all that was appended (`ContentTrue`): an object is overwritten by the session
of its generation alone, whose snapshot can no longer change.  With that, each operation is a
step of `DurableBucketStore`, or, like an upload or a duplicate append, one that the row does not
show.

**The pool's argument.**  `PoolInv` says where each connection is - with one call, once on
the stack, with the warm-up, or closed (`PlacesInv`) - and counts: permits and calls inside
make up `Max`, and idle connections and calls with room for one stay within it (`PermitsInv`).
`CallProgress`, `TxnInv` and `CommitInv` then tie a call's position to the transaction on its
connection: a connection that can be handed out has none, and an unanswered COMMIT
belongs to a single call, which reports that it does not know.  The gauge is proved separately:
`GaugeInv` says that the idle gauge plus what is between two atomic operations is
the number of idle connections up to multiples of the word, so when nothing is in
between and the pool is smaller than the word, the two are equal (`NoTurns`).

**The argument for paging.**  That a walk skips nothing depends on pages half read. `PagingInv`
says of each bucket of a page (`Accounted`) that it waits for its task, is being read, or is
covered: what was read of it holds what is owed, or alone fills the page with records that come
earlier (`Covered`), which joining and truncating keep (`FirstKeeps`, `FirstFills`).  A page that
ends takes the greatest of its records as the cursor, and all that is owed and not delivered is
beyond it (`PageCut`).  What is owed is what both tiers take as inside the range, what may be delivered is
what either takes (`BucketPageCovers`), so a cutover in the middle of a walk changes neither.  A settled
walk adds that no append can add to its range any more (`SettledInv`, `Sealed`): the write window only
moves forward (`WindowAdvances`), archived buckets stay closed, and what passed the window check
before is counted as still to come.

**The cache's argument.**  The byte count is the sum over a changing set.  `CacheInv` has the
count, both limits, and that what is cached or about to be is stored under its owner.  That the
eviction loop ends with room, and takes the oldest only, is an induction over the number of
entries.

**The gateway's argument.**  `GatewayInv` relates a connection's stage to the login it presented
(`StageInv`), and what Describe said to what the portal was bound with (`PromiseInv`): types are
reported by placeholder, so parameters of these types decode and bind unless a timestamp is outside
Arrow's range or the placeholders are out of position.  `DataInv` is about rows: an INSERT that was
answered is in the table (`RowsInv`), and a row that was there when a scan started, and that both readings
of its clause take, is in a bucket still to be read, among the rows read, or behind
enough of them to fill the limit (`ScanInv`).  Reading one more bucket keeps that (`BucketRead`), because the query
built from the filters means the filters under either reading (`QueryMeansFilters`), the buckets of a range hold all
its rows (`BucketsForRangeWorks`), and taking the first rows of a union keeps what was covered
(`FirstCover`).

**Recursion.**  The provers cannot instantiate the library's induction theorems, so facts about
the calendar's recursive functions, sums, loops and finite sets are proved by the least
counterexample (`Least`, and `SubsetInduction` or its like in each module): a set of numbers for
which a fact fails has a least member, and the fact holds below it.  The lemmas about the
calendar appear in two modules, because `TablePaging` and `SqlGateway` have names in common.

**Only model-checked.**  Liveness - `ArchivalCompletes`, `CallsEnd`, `CallsComplete`, `WalkEnds`,
`EveryRowServed` - which needs fairness and is outside the prover's reach.

## 5. Not modelled

Connections and TLS (`src/adapters`' settings and handshakes: I/O that either works or
not, which is all the pool's model needs) and observability (metrics, traces and the
templates of queries in them: nothing reads them back).  Text forms of keys, strategies and object
names; serialisation and digests of archive objects, which are taken as faithful; the scan of a statement's
text for placeholders; DataFusion's coercions of a literal or placeholder to another
type; several buckets in one route cache (its capacity appears as eviction at any
time).  Row counts, `archive_attempts` and exact times are abstracted.

## 6. Plan

What is left to prove is liveness, for which the provers have no rules, so the plan is about
the statements: theorems about what is so far inside a proof and worth a name of its own (a
session that was replaced never changes the row again; the write window never moves back; what
a failed page leaves behind).
