---------------------------- MODULE StrategyFence ----------------------------
(***************************************************************************)
(* The bucket strategy of a table when the processes that use the table    *)
(* are not all configured alike: a deployment that changes the strategy of *)
(* a TableId replaces its processes one by one.  Nothing stores a table's  *)
(* strategy; it is read off the metadata rows of its buckets               *)
(* (src/adapters/cockroach_durable.rs, src/domain/model.rs).               *)
(*                                                                         *)
(* A transaction is two steps, its first read and its commit: it commits   *)
(* when what it read still holds, and starts again otherwise, which is     *)
(* what BEGIN ISOLATION LEVEL SERIALIZABLE asks of the database.           *)
(***************************************************************************)
EXTENDS Integers, FiniteSets

CONSTANTS
    Processes,      \* the processes with a DurableTable on the table
    Strategies,     \* the calendar strategies
    Boundaries,     \* of each strategy, the starts of its buckets
    Horizon,        \* end of the last bucket
    Partitions,     \* partition keys
    MaxRestarts,    \* bound on changes of a process's configuration
    MaxArchives,    \* bound on archive sessions
    None

Times == 0..(Horizon - 1)

ASSUME FenceAssumption ==
    /\ Horizon \in Nat /\ MaxRestarts \in Nat /\ MaxArchives \in Nat
    /\ Boundaries \in [Strategies -> SUBSET Times]
    /\ \A s \in Strategies : 0 \in Boundaries[s]

VARIABLES
    strategy,   \* what each process is configured with
    row,        \* the state of a bucket's metadata row, "none" without one
    stored,     \* the records of the table, hot or archived
    tx,         \* the append transaction of each process
    restarts,
    archives

fenceVars == <<strategy, row, stored, tx, restarts, archives>>

-----------------------------------------------------------------------------
(* Buckets.                                                                *)

\* bucket_bounds
BucketStart(s, t) ==
    CHOOSE b \in Boundaries[s] : b <= t /\ \A c \in Boundaries[s] : c <= t => c <= b
BucketEnd(s, t) ==
    CHOOSE e \in Boundaries[s] \cup {Horizon} :
      t < e /\ \A c \in Boundaries[s] \cup {Horizon} : t < c => e <= c

\* for_event_time_with_strategy: bucket_key spells out the strategy and the
\* start, so buckets of two strategies never share a key.
BucketFor(s, k, t) ==
    [partition |-> k, strategy |-> s, start |-> BucketStart(s, t), end |-> BucketEnd(s, t)]

Buckets == {BucketFor(s, k, t) : s \in Strategies, k \in Partitions, t \in Times}

\* The buckets that a process reads for a range.
BucketsForRange(s, k, from, to) == {BucketFor(s, k, t) : t \in {u \in Times : from <= u /\ u < to}}

-----------------------------------------------------------------------------

FenceInit ==
    /\ strategy \in [Processes -> Strategies]
    /\ row = [b \in Buckets |-> "none"]
    /\ stored = {}
    /\ tx = [p \in Processes |-> None]
    /\ restarts = 0 /\ archives = 0

\* append's strategy_conflict: any row of the table with another strategy.
Conflict(b) == \E c \in Buckets : row[c] # "none" /\ c.strategy # b.strategy

\* append up to its first read.
BeginAppend(p, k, t) ==
    /\ tx[p] = None
    /\ LET b == BucketFor(strategy[p], k, t)
       IN  tx' = [tx EXCEPT ![p] = [partition |-> k, time |-> t, bucket |-> b,
                                    conflict |-> Conflict(b)]]
    /\ UNCHANGED <<strategy, row, stored, restarts, archives>>

\* Mutant: the transaction is not serializable.
Unchanged_ReadCommitted(p) == TRUE

\* The read of the transaction still holds when it commits.
Unchanged(p) == Conflict(tx[p].bucket) = tx[p].conflict

\* The rest of append: the row is inserted unless it is there, it must be hot,
\* and the record goes in.
CommitAppend(p) ==
    /\ tx[p] # None /\ Unchanged(p)
    /\ ~tx[p].conflict /\ row[tx[p].bucket] \in {"none", "hot"}
    /\ row' = [row EXCEPT ![tx[p].bucket] = "hot"]
    /\ stored' = stored \cup {[partition |-> tx[p].partition, time |-> tx[p].time,
                               bucket |-> tx[p].bucket]}
    /\ tx' = [tx EXCEPT ![p] = None]
    /\ UNCHANGED <<strategy, restarts, archives>>

\* BucketStrategyMismatch or BucketReadOnly: nothing is written.
RefuseAppend(p) ==
    /\ tx[p] # None /\ Unchanged(p)
    /\ tx[p].conflict \/ row[tx[p].bucket] \notin {"none", "hot"}
    /\ tx' = [tx EXCEPT ![p] = None]
    /\ UNCHANGED <<strategy, row, stored, restarts, archives>>

\* The database cannot serialize the transaction and it runs again.
RetryAppend(p) ==
    /\ tx[p] # None /\ ~Unchanged(p)
    /\ tx' = [tx EXCEPT ![p].conflict = Conflict(tx[p].bucket)]
    /\ UNCHANGED <<strategy, row, stored, restarts, archives>>

\* begin_archive: inserts the row of a bucket it has not seen, whatever the
\* strategy of the other rows.
BeginArchive(p, k, t) ==
    /\ LET b == BucketFor(strategy[p], k, t)
       IN  /\ row[b] \in {"none", "hot"}
           /\ row' = [row EXCEPT ![b] = "archiving"]
    /\ archives < MaxArchives /\ archives' = archives + 1
    /\ UNCHANGED <<strategy, stored, tx, restarts>>

\* claim_archive works on a row that exists.
ClaimArchive(b) ==
    /\ row[b] = "hot"
    /\ row' = [row EXCEPT ![b] = "archiving"]
    /\ archives < MaxArchives /\ archives' = archives + 1
    /\ UNCHANGED <<strategy, stored, tx, restarts>>

\* Mutant: an abort removes the row.
EndArchive_UndoesBegin(b) ==
    /\ row[b] = "archiving"
    /\ \E state \in {"archived", "none"} : row' = [row EXCEPT ![b] = state]
    /\ UNCHANGED <<strategy, stored, tx, restarts, archives>>

\* publish_archive, or abort_archive.
EndArchive(b) ==
    /\ row[b] = "archiving"
    /\ \E state \in {"archived", "hot"} : row' = [row EXCEPT ![b] = state]
    /\ UNCHANGED <<strategy, stored, tx, restarts, archives>>

\* A process is replaced by one with another configuration; a transaction
\* that it had open is rolled back.
Reconfigure(p) ==
    /\ restarts < MaxRestarts
    /\ restarts' = restarts + 1
    /\ \E s \in Strategies : strategy' = [strategy EXCEPT ![p] = s]
    /\ tx' = [tx EXCEPT ![p] = None]
    /\ UNCHANGED <<row, stored, archives>>

FenceNext ==
    \/ \E p \in Processes :
         \/ \E k \in Partitions, t \in Times : BeginAppend(p, k, t) \/ BeginArchive(p, k, t)
         \/ CommitAppend(p) \/ RefuseAppend(p) \/ RetryAppend(p) \/ Reconfigure(p)
    \/ \E b \in Buckets : ClaimArchive(b) \/ EndArchive(b)

FenceSpec == FenceInit /\ [][FenceNext]_fenceVars

-----------------------------------------------------------------------------
(* Properties.                                                             *)

FenceTypeOK ==
    /\ strategy \in [Processes -> Strategies]
    /\ row \in [Buckets -> {"none", "hot", "archiving", "archived"}]
    /\ stored \subseteq [partition : Partitions, time : Times, bucket : Buckets]
    /\ tx \in [Processes -> [partition : Partitions, time : Times, bucket : Buckets,
                             conflict : BOOLEAN] \cup {None}]
    /\ restarts \in 0..MaxRestarts /\ archives \in 0..MaxArchives

\* All records that were ever accepted lie in buckets of one strategy, whatever
\* the processes were configured with and however their appends interleaved
\* (append's conflict check inside the serializable transaction).
OneStrategy == \A r, q \in stored : r.bucket.strategy = q.bucket.strategy

\* query over [from, to): the stored records of the buckets it derives.
Read(p, k, from, to) ==
    {r \in stored : r.bucket \in BucketsForRange(strategy[p], k, from, to)
                    /\ from <= r.time /\ r.time < to}

\* A process whose appends are accepted also sees everything that was accepted
\* before: the check that protects its writes protects its reads, which check
\* nothing (append against query_page's buckets_for_range).
WritersReadAll ==
    \A p \in Processes, k \in Partitions :
      ~Conflict(BucketFor(strategy[p], k, 0)) =>
        \A from, to \in Times \cup {Horizon} :
          Read(p, k, from, to) =
            {r \in stored : r.partition = k /\ from <= r.time /\ r.time < to}
=============================================================================
