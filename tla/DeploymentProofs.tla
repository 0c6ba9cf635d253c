-------------------------- MODULE DeploymentProofs --------------------------
(***************************************************************************)
(* Proofs about what a rolling deployment could break: SchemaMigration,    *)
(* for any jobs, releases, versions and number of attempts, and            *)
(* StrategyFence, for any processes, strategies, calendars and partitions  *)
(* and any number of replacements and archive sessions.                    *)
(***************************************************************************)
EXTENDS SchemaMigration, StrategyFence, TLAPS

-----------------------------------------------------------------------------
(* SchemaMigration.                                                        *)

\* A job that may still commit has planned from the history it read, and one
\* whose COMMIT is unanswered has given up (migrate).
Planned ==
    \A j \in Jobs : /\ at[j] = "commit" \/ j \in pending => ~PlanFails(j, seen[j])
                    /\ j \in pending => at[j] = "failed"

\* The inductive invariant.
MigrationInv ==
    /\ TypeOK
    /\ HistorySound
    /\ MigratedForGood
    /\ Planned

\* What the database guarantees of a commit of job j: the history grows to the
\* versions j ships, with its checksums (migrate).
Extended(j) ==
    /\ \A v \in Versions : history[v] # Absent => history'[v] = history[v]
    /\ \A v \in First..Latest[j] : history'[v] = Checksum[j][v]
    /\ history' \in Histories
    /\ executed' \in [Versions -> Nat]
    /\ HistorySound'

\* A commit of a planned transaction extends the history soundly
\* (plan_migrations and migrate).
LEMMA EffectsExtend ==
    ASSUME MigrationInv, NEW j \in Jobs, ~PlanFails(j, seen[j]),
           Serializable(j), Effects(j)
    PROVE  Extended(j)
<1> USE MigrationAssumption DEF Versions
<1> DEFINE due == ToApply(j, history)
<1>1. /\ history \in Histories
      /\ executed \in [Versions -> Nat]
      /\ HistorySound
      /\ seen[j] = history
  BY DEF MigrationInv, TypeOK, Serializable
<1>2. /\ history' = [v \in Versions |-> IF v \in due THEN Checksum[j][v] ELSE history[v]]
      /\ executed' = [v \in Versions |-> IF v \in due THEN executed[v] + 1
                                         ELSE executed[v]]
  BY <1>1 DEF Effects
<1>3. \A v \in Versions : v \in due <=> v <= Latest[j] /\ history[v] = Absent
  BY DEF ToApply, Applied
<1>4. /\ Latest[j] \in First..Last
      /\ \A v \in Versions : Checksum[j][v] \in Checksums
  OBVIOUS
<1>5. history' \in Histories /\ executed' \in [Versions -> Nat]
  BY <1>1, <1>2, <1>4 DEF Histories
<1>6. \A v \in Versions : history[v] # Absent => history'[v] = history[v]
  BY <1>2, <1>3
<1>7. ASSUME NEW v \in First..Latest[j]
      PROVE  history'[v] = Checksum[j][v]
  <2>1. CASE history[v] = Absent
    BY <1>2, <1>3, <1>4, <2>1
  <2>2. CASE history[v] # Absent
    BY <1>1, <1>4, <1>6, <2>2 DEF PlanFails, ChecksumDrift, Applied
  <2> QED  BY <2>1, <2>2
<1>8. \A v \in Versions : v > Latest[j] => history[v] = Absent /\ history'[v] = Absent
  BY <1>1, <1>2, <1>3 DEF PlanFails, FutureVersion, Applied
<1>9. \A v \in First..Latest[j] : history'[v] # Absent
  BY <1>4, <1>7
<1>10. ~MigrationGap(history')
  BY <1>4, <1>8, <1>9 DEF MigrationGap, Applied
<1>11. ASSUME NEW v \in Versions
       PROVE  executed'[v] = IF history'[v] = Absent THEN 0 ELSE 1
  <2>1. executed[v] = IF history[v] = Absent THEN 0 ELSE 1
    BY <1>1 DEF HistorySound
  <2>2. CASE v \in due
    BY <1>2, <1>3, <1>4, <2>1, <2>2
  <2>3. CASE v \notin due
    BY <1>2, <2>1, <2>3
  <2> QED  BY <2>2, <2>3
<1> QED
  BY <1>5, <1>6, <1>7, <1>10, <1>11 DEF Extended, HistorySound

\* A job's bookkeeping keeps its types.
JobsTyped ==
    /\ at \in [Jobs -> {"create", "begin", "plan", "commit", "validate",
                        "grant", "done", "failed"}]
    /\ seen \in [Jobs -> Histories]
    /\ attempt \in [Jobs -> 0..(MaxAttempts - 1)]
    /\ pending \subseteq Jobs

\* What a step of one job does to the database and to its own position: it
\* commits, or leaves the history alone and moves on (migrate, validate_schema).
Quiet(j) ==
    /\ UNCHANGED <<history, executed>>
    /\ created' \in BOOLEAN
    /\ granted' \in BOOLEAN
    /\ \A k \in Jobs : at'[k] \in {"validate", "grant", "done"} =>
         at[k] \in {"validate", "grant", "done"}
    /\ granted' => granted \/ at[j] = "grant"

Commits(j) ==
    /\ at[j] = "commit" \/ j \in pending
    /\ Serializable(j) /\ Effects(j)
    /\ UNCHANGED <<created, granted, seen, attempt>>
    /\ \A k \in Jobs : at'[k] \in {"validate", "grant", "done"} =>
         k = j \/ at[k] \in {"validate", "grant", "done"}

\* Every step is one or the other (each handler of pulpitum-migrate).
LEMMA JobStep ==
    ASSUME MigrationInv, NEW j \in Jobs,
           \/ Step(j) \/ Retry(j) \/ Fails(j) \/ CommitLost(j)
           \/ LateCommit(j) \/ Restart(j)
    PROVE  JobsTyped' /\ Planned' /\ (Quiet(j) \/ Commits(j))
<1> USE MigrationAssumption
<1>1. TypeOK /\ Planned
  BY DEF MigrationInv
<1>2. CASE CreateHistory(j)
  BY <1>1, <1>2 DEF CreateHistory, Goto, TypeOK, JobsTyped, Planned, Quiet
<1>3. CASE ReadApplied(j)
  BY <1>1, <1>3 DEF ReadApplied, Goto, TypeOK, JobsTyped, Planned, Quiet, dbVars
<1>4. CASE Plan(j)
  BY <1>1, <1>4 DEF Plan, Goto, TypeOK, JobsTyped, Planned, Quiet, dbVars
<1>5. CASE CommitOk(j)
  BY <1>1, <1>5 DEF CommitOk, Goto, TypeOK, JobsTyped, Planned, Commits
<1>6. CASE Validate(j)
  BY <1>1, <1>6 DEF Validate, Goto, TypeOK, JobsTyped, Planned, Quiet, dbVars
<1>7. CASE Grant(j)
  BY <1>1, <1>7 DEF Grant, Goto, TypeOK, JobsTyped, Planned, Quiet
<1>8. CASE Retry(j)
  BY <1>1, <1>8 DEF Retry, Goto, TypeOK, JobsTyped, Planned, Quiet, dbVars
<1>9. CASE Fails(j)
  BY <1>1, <1>9 DEF Fails, Goto, TypeOK, JobsTyped, Planned, Quiet, dbVars
<1>10. CASE CommitLost(j)
  BY <1>1, <1>10 DEF CommitLost, Goto, TypeOK, JobsTyped, Planned, Quiet, dbVars
<1>11. CASE LateCommit(j)
  <2>1. JobsTyped' /\ Planned'
    BY <1>1, <1>11 DEF LateCommit, TypeOK, JobsTyped, Planned, jobVars
  <2>2. Quiet(j) \/ Commits(j)
    BY <1>1, <1>11 DEF LateCommit, TypeOK, Quiet, Commits, jobVars
  <2> QED  BY <2>1, <2>2
<1>12. CASE Restart(j)
  BY <1>1, <1>12 DEF Restart, Goto, TypeOK, JobsTyped, Planned, Quiet, dbVars
<1> QED
  BY <1>2, <1>3, <1>4, <1>5, <1>6, <1>7, <1>8, <1>9, <1>10, <1>11, <1>12 DEF Step

\* The history only grows, and stays sound.
LEMMA StepSafe ==
    ASSUME MigrationInv, [Next]_vars
    PROVE  /\ MigrationInv'
           /\ \A v \in Versions : history[v] # Absent => history'[v] = history[v]
<1> USE MigrationAssumption
<1>0. TypeOK /\ HistorySound /\ MigratedForGood /\ Planned
  BY DEF MigrationInv
<1>1. CASE UNCHANGED vars
  BY <1>0, <1>1 DEF vars, dbVars, jobVars, MigrationInv, TypeOK, HistorySound,
     MigrationGap, Applied, MigratedForGood, InPlace, Planned, PlanFails, FutureVersion,
     ChecksumDrift
<1>2. ASSUME NEW j \in Jobs,
             \/ Step(j) \/ Retry(j) \/ Fails(j) \/ CommitLost(j)
             \/ LateCommit(j) \/ Restart(j)
      PROVE  /\ MigrationInv'
             /\ \A v \in Versions : history[v] # Absent => history'[v] = history[v]
  <2>1. JobsTyped' /\ Planned' /\ (Quiet(j) \/ Commits(j))
    BY <1>2, JobStep
  <2>2. \A k \in Jobs : /\ First \in First..Latest[k] /\ First \in Versions
                        /\ \A v \in First..Latest[k] : /\ v \in Versions
                                                      /\ Checksum[k][v] # Absent
    BY DEF Versions
  <2>3. CASE Quiet(j)
    <3>1. TypeOK' /\ HistorySound'
      BY <1>0, <2>1, <2>3 DEF Quiet, JobsTyped, TypeOK, HistorySound,
         MigrationGap, Applied
    <3>2. MigratedForGood'
      BY <1>0, <2>3 DEF Quiet, MigratedForGood, InPlace
    <3> QED  BY <2>1, <2>3, <3>1, <3>2 DEF MigrationInv, Quiet
  <2>4. CASE Commits(j)
    <3>1. Extended(j)
      BY <1>0, <2>4, EffectsExtend DEF Commits, Planned
    <3>2. TypeOK' /\ HistorySound'
      BY <1>0, <2>1, <2>4, <3>1 DEF Commits, JobsTyped, TypeOK, Extended
    <3>3. MigratedForGood'
      <4>1. ASSUME NEW k \in Jobs, at'[k] \in {"validate", "grant", "done"}
            PROVE  InPlace(k)'
        <5>1. CASE k = j
          BY <3>1, <5>1 DEF Extended, InPlace
        <5>2. CASE k # j
          <6>1. InPlace(k)
            BY <1>0, <2>4, <4>1, <5>2 DEF Commits, MigratedForGood
          <6> QED  BY <2>2, <3>1, <6>1 DEF Extended, InPlace
        <5> QED  BY <5>1, <5>2
      <4>2. granted' => \E k \in Jobs : InPlace(k)'
        BY <1>0, <2>2, <2>4, <3>1 DEF Commits, Extended, MigratedForGood, InPlace
      <4> QED  BY <4>1, <4>2 DEF MigratedForGood
    <3> QED  BY <2>1, <3>1, <3>2, <3>3 DEF MigrationInv, Extended
  <2> QED  BY <2>1, <2>3, <2>4
<1> QED
  BY <1>1, <1>2 DEF Next

\* The invariant holds at the start: no history, no job under way.
LEMMA InitInv == Init => MigrationInv
<1> SUFFICES ASSUME Init PROVE MigrationInv
  OBVIOUS
<1> USE MigrationAssumption DEF Init
<1>1. TypeOK
  <2>1. NoHistory \in Histories
    BY DEF Histories, NoHistory
  <2>2. 0 \in 0..(MaxAttempts - 1)
    OBVIOUS
  <2> QED  BY <2>1, <2>2 DEF TypeOK
<1>2. HistorySound
  BY DEF HistorySound, MigrationGap, Applied, NoHistory
<1>3. MigratedForGood /\ Planned
  BY DEF MigratedForGood, Planned
<1> QED  BY <1>1, <1>2, <1>3 DEF MigrationInv

\* The invariant behind the theorems below: whatever jobs of whatever releases
\* run migrate() at once.
THEOREM MigrationInvariant == Spec => []MigrationInv
<1>1. MigrationInv /\ [Next]_vars => MigrationInv'
  BY StepSafe
<1> QED
  BY <1>1, InitInv, PTL DEF Spec

\* The history has no gap, and every migration in it took effect exactly once,
\* for any number of concurrent, failed and repeated migrate() calls.
THEOREM HistoryAlwaysSound == Spec => []HistorySound
<1>1. MigrationInv => HistorySound
  BY DEF MigrationInv
<1> QED
  BY <1>1, MigrationInvariant, PTL

\* A job that got through migrate() finds its release's schema in place for
\* ever after.
THEOREM MigratedStaysMigrated == Spec => []MigratedForGood
<1>1. MigrationInv => MigratedForGood
  BY DEF MigrationInv
<1> QED
  BY <1>1, MigrationInvariant, PTL

\* No job of any release removes or rewrites a row of the history.
THEOREM HistoryIsAppendOnly == Spec => HistoryAppendOnly
<1>1. MigrationInv /\ [Next]_vars =>
        [\A v \in Versions : history[v] # Absent => history'[v] = history[v]]_vars
  BY StepSafe
<1> QED
  BY <1>1, MigrationInvariant, PTL DEF Spec, HistoryAppendOnly

-----------------------------------------------------------------------------
(* StrategyFence.                                                          *)

\* Where a partition key, a time and a bucket come together, the bucket is the
\* one that its strategy derives from the other two.
Derived(x) == x.bucket = BucketFor(x.bucket.strategy, x.partition, x.time)

\* A record lies in a bucket with a metadata row: rows are never taken away.
RecordsHaveRows == \A r \in stored : Derived(r) /\ row[r.bucket] # "none"

TransactionsDerived == \A p \in Processes : tx[p] # None => Derived(tx[p])

FenceInv ==
    /\ FenceTypeOK
    /\ RecordsHaveRows
    /\ TransactionsDerived
    /\ OneStrategy

-----------------------------------------------------------------------------

\* The bucket of an event is a bucket of its strategy and of its partition
\* (for_event_time_with_strategy).
LEMMA BucketForIsBucket ==
    ASSUME NEW s \in Strategies, NEW k \in Partitions, NEW t \in Times
    PROVE  /\ BucketFor(s, k, t) \in Buckets
           /\ BucketFor(s, k, t).strategy = s
           /\ BucketFor(s, k, t).partition = k
BY DEF Buckets, BucketFor

\* A bucket carries one of the strategies (bucket_from_row).
LEMMA BucketHasStrategy ==
    ASSUME NEW b \in Buckets
    PROVE  b.strategy \in Strategies
BY DEF Buckets, BucketFor

\* The invariant holds of an empty table.
LEMMA FenceBegins == FenceInit => FenceInv
BY FenceAssumption
DEF FenceInit, FenceInv, FenceTypeOK, RecordsHaveRows, TransactionsDerived, OneStrategy

\* A record that append commits has the strategy of all rows, so that of all
\* records (append).
LEMMA CommitKeepsStrategy ==
    ASSUME FenceInv, NEW p \in Processes, CommitAppend(p)
    PROVE  OneStrategy'
<1> DEFINE b == tx[p].bucket
           new == [partition |-> tx[p].partition, time |-> tx[p].time, bucket |-> b]
<1>1. b \in Buckets
  BY DEF FenceInv, FenceTypeOK, CommitAppend
<1>2. ~Conflict(b)
  BY DEF CommitAppend, Unchanged
<1>3. \A r \in stored : r.bucket.strategy = b.strategy
  <2> SUFFICES ASSUME NEW r \in stored PROVE r.bucket.strategy = b.strategy
    OBVIOUS
  <2>1. r.bucket \in Buckets /\ row[r.bucket] # "none"
    BY DEF FenceInv, FenceTypeOK, RecordsHaveRows
  <2> QED
    BY <1>2, <2>1 DEF Conflict
<1>4. stored' = stored \cup {new}
  BY DEF CommitAppend
<1>5. \A r \in stored' : r.bucket.strategy = b.strategy
  BY <1>3, <1>4
<1> QED
  BY <1>5 DEF OneStrategy

\* Every step keeps the invariant.
LEMMA FenceStep == FenceInv /\ [FenceNext]_fenceVars => FenceInv'
<1> SUFFICES ASSUME FenceInv, [FenceNext]_fenceVars PROVE FenceInv'
  OBVIOUS
<1> USE DEF FenceInv
<1>1. ASSUME NEW p \in Processes, NEW k \in Partitions, NEW t \in Times, BeginAppend(p, k, t)
      PROVE  FenceInv'
  <2> DEFINE b == BucketFor(strategy[p], k, t)
             new == [partition |-> k, time |-> t, bucket |-> b, conflict |-> Conflict(b)]
  <2>1. b \in Buckets /\ b.strategy = strategy[p]
    BY BucketForIsBucket DEF FenceTypeOK
  <2>2. Conflict(b) \in BOOLEAN
    BY DEF Conflict
  <2>3. tx' = [tx EXCEPT ![p] = new] /\ UNCHANGED <<strategy, row, stored, restarts, archives>>
    BY <1>1 DEF BeginAppend
  <2>4. new \in [partition : Partitions, time : Times, bucket : Buckets, conflict : BOOLEAN]
    BY <2>1, <2>2
  <2>5. FenceTypeOK'
    BY <2>3, <2>4 DEF FenceTypeOK
  <2>6. Derived(new)
    BY <2>1 DEF Derived
  <2>7. TransactionsDerived'
    <3> SUFFICES ASSUME NEW q \in Processes, tx'[q] # None PROVE Derived(tx'[q])
      BY <2>3 DEF TransactionsDerived, Derived, BucketFor, BucketStart, BucketEnd
    <3>1. CASE q = p
      BY <2>3, <2>6, <3>1 DEF FenceTypeOK
    <3>2. CASE q # p
      BY <2>3, <3>2 DEF FenceTypeOK, TransactionsDerived
    <3> QED
      BY <3>1, <3>2
  <2> QED
    BY <2>3, <2>5, <2>7 DEF RecordsHaveRows, OneStrategy
<1>2. ASSUME NEW p \in Processes, CommitAppend(p)
      PROVE  FenceInv'
  <2> DEFINE b == tx[p].bucket
             new == [partition |-> tx[p].partition, time |-> tx[p].time, bucket |-> b]
  <2>1. /\ tx[p] # None
        /\ tx[p] \in [partition : Partitions, time : Times, bucket : Buckets, conflict : BOOLEAN]
    BY <1>2 DEF CommitAppend, FenceTypeOK
  <2>2. /\ row' = [row EXCEPT ![b] = "hot"] /\ stored' = stored \cup {new}
        /\ tx' = [tx EXCEPT ![p] = None] /\ UNCHANGED <<strategy, restarts, archives>>
    BY <1>2 DEF CommitAppend
  <2>3. FenceTypeOK'
    BY <2>1, <2>2 DEF FenceTypeOK
  <2>4. Derived(new)
    BY <2>1 DEF TransactionsDerived, Derived
  <2>5. \A c \in Buckets : row[c] # "none" \/ c = b => row'[c] # "none"
    BY <2>2 DEF FenceTypeOK
  <2>6. RecordsHaveRows'
    <3> SUFFICES ASSUME NEW r \in stored' PROVE Derived(r) /\ row'[r.bucket] # "none"
      BY DEF RecordsHaveRows, Derived, BucketFor, BucketStart, BucketEnd
    <3>1. CASE r \in stored
      BY <2>5, <3>1 DEF RecordsHaveRows, FenceTypeOK
    <3>2. CASE r = new
      BY <2>1, <2>4, <2>5, <3>2
    <3> QED
      BY <2>2, <3>1, <3>2
  <2>7. TransactionsDerived'
    BY <2>2 DEF FenceTypeOK, TransactionsDerived, Derived, BucketFor, BucketStart, BucketEnd
  <2>8. OneStrategy'
    BY <1>2, CommitKeepsStrategy
  <2> QED
    BY <2>3, <2>6, <2>7, <2>8
<1>3. ASSUME NEW p \in Processes, RefuseAppend(p) \/ RetryAppend(p) \/ Reconfigure(p)
      PROVE  FenceInv'
  <2>1. UNCHANGED <<row, stored, archives>>
    BY <1>3 DEF RefuseAppend, RetryAppend, Reconfigure
  <2>2. RecordsHaveRows' /\ OneStrategy'
    BY <2>1 DEF RecordsHaveRows, OneStrategy, Derived, BucketFor, BucketStart, BucketEnd
  <2>3. CASE RefuseAppend(p)
    BY <2>2, <2>3 DEF RefuseAppend, FenceTypeOK, TransactionsDerived, Derived, BucketFor, BucketStart, BucketEnd
  <2>4. CASE RetryAppend(p)
    <3>1. /\ tx' = [tx EXCEPT ![p].conflict = Conflict(tx[p].bucket)]
          /\ tx[p] # None /\ UNCHANGED <<strategy, row, stored, restarts, archives>>
      BY <2>4 DEF RetryAppend
    <3>2. Conflict(tx[p].bucket) \in BOOLEAN
      BY DEF Conflict
    <3>3. tx[p] \in [partition : Partitions, time : Times, bucket : Buckets, conflict : BOOLEAN]
      BY <3>1 DEF FenceTypeOK
    <3>4. FenceTypeOK'
      BY <3>1, <3>2, <3>3 DEF FenceTypeOK
    <3>5. \A q \in Processes : tx'[q] # None =>
            /\ tx[q] # None /\ tx'[q].bucket = tx[q].bucket
            /\ tx'[q].partition = tx[q].partition /\ tx'[q].time = tx[q].time
      BY <3>1, <3>3 DEF FenceTypeOK
    <3>6. TransactionsDerived'
      BY <3>5 DEF TransactionsDerived, Derived, BucketFor, BucketStart, BucketEnd
    <3> QED
      BY <2>2, <3>4, <3>6
  <2>5. CASE Reconfigure(p)
    <3>1. FenceTypeOK'
      BY <2>5, FenceAssumption DEF Reconfigure, FenceTypeOK
    <3>2. TransactionsDerived'
      BY <2>5 DEF Reconfigure, FenceTypeOK, TransactionsDerived, Derived, BucketFor, BucketStart, BucketEnd
    <3> QED
      BY <2>2, <3>1, <3>2
  <2> QED
    BY <1>3, <2>3, <2>4, <2>5
<1>4. ASSUME NEW b \in Buckets, NEW state \in {"hot", "archiving", "archived"},
             row' = [row EXCEPT ![b] = state], UNCHANGED <<strategy, stored, tx, restarts>>,
             archives' \in 0..MaxArchives
      PROVE  FenceInv'
  <2>1. FenceTypeOK'
    BY <1>4 DEF FenceTypeOK
  <2>2. \A c \in Buckets : row[c] # "none" => row'[c] # "none"
    BY <1>4 DEF FenceTypeOK
  <2>3. RecordsHaveRows'
    BY <1>4, <2>2 DEF FenceTypeOK, RecordsHaveRows, Derived, BucketFor, BucketStart, BucketEnd
  <2> QED
    BY <1>4, <2>1, <2>3
    DEF TransactionsDerived, OneStrategy, Derived, BucketFor, BucketStart, BucketEnd
<1>5. ASSUME NEW p \in Processes, NEW k \in Partitions, NEW t \in Times, BeginArchive(p, k, t)
      PROVE  FenceInv'
  <2> DEFINE b == BucketFor(strategy[p], k, t)
  <2>1. b \in Buckets
    BY BucketForIsBucket DEF FenceTypeOK
  <2>2. /\ row' = [row EXCEPT ![b] = "archiving"] /\ UNCHANGED <<strategy, stored, tx, restarts>>
        /\ archives < MaxArchives /\ archives' = archives + 1
    BY <1>5 DEF BeginArchive
  <2>3. archives' \in 0..MaxArchives
    BY <2>2, FenceAssumption DEF FenceTypeOK
  <2> HIDE DEF b
  <2> QED
    BY <1>4, <2>1, <2>2, <2>3
<1>6. ASSUME NEW b \in Buckets, ClaimArchive(b) \/ EndArchive(b)
      PROVE  FenceInv'
  <2>1. CASE ClaimArchive(b)
    <3>1. archives' \in 0..MaxArchives
      BY <2>1, FenceAssumption DEF ClaimArchive, FenceTypeOK
    <3> QED
      BY <1>4, <2>1, <3>1 DEF ClaimArchive
  <2>2. CASE EndArchive(b)
    <3>1. PICK state \in {"archived", "hot"} : row' = [row EXCEPT ![b] = state]
      BY <2>2 DEF EndArchive
    <3>2. UNCHANGED <<strategy, stored, tx, restarts>> /\ archives' \in 0..MaxArchives
      BY <2>2 DEF EndArchive, FenceTypeOK
    <3> QED
      BY <1>4, <3>1, <3>2
  <2> QED
    BY <1>6, <2>1, <2>2
<1>7. CASE UNCHANGED fenceVars
  BY <1>7 DEF fenceVars, FenceTypeOK, RecordsHaveRows, TransactionsDerived, OneStrategy, Derived,
              BucketFor, BucketStart, BucketEnd
<1> QED
  BY <1>1, <1>2, <1>3, <1>5, <1>6, <1>7 DEF FenceNext

\* Records, transactions and rows stay consistent whatever the processes are
\* configured with (append, begin_archive, claim_archive).
THEOREM FenceInvariant == FenceSpec => []FenceInv
BY FenceBegins, FenceStep, PTL DEF FenceSpec

\* All accepted records lie in buckets of one strategy (append's
\* strategy_conflict in a serializable transaction).
THEOREM StrategyIsOne == FenceSpec => []OneStrategy
<1>1. FenceInv => OneStrategy
  BY DEF FenceInv
<1> QED
  BY <1>1, FenceInvariant, PTL

\* A process whose appends are accepted reads everything that was accepted
\* (append against buckets_for_range).
LEMMA InvReadsAll == FenceInv => WritersReadAll
<1> SUFFICES ASSUME FenceInv, NEW p \in Processes, NEW k \in Partitions,
                    ~Conflict(BucketFor(strategy[p], k, 0)),
                    NEW from \in Times \cup {Horizon}, NEW to \in Times \cup {Horizon}
             PROVE  Read(p, k, from, to) =
                      {r \in stored : r.partition = k /\ from <= r.time /\ r.time < to}
  BY DEF WritersReadAll
<1> DEFINE s == strategy[p]
<1>1. s \in Strategies
  BY DEF FenceInv, FenceTypeOK
<1>2. BucketFor(s, k, 0).strategy = s
  BY DEF BucketFor
<1>3. \A r \in stored : /\ r.bucket \in Buckets /\ r.time \in Times /\ r.partition \in Partitions
                        /\ Derived(r) /\ row[r.bucket] # "none"
  BY DEF FenceInv, FenceTypeOK, RecordsHaveRows
<1>4. \A r \in stored : r.bucket.strategy = s
  BY <1>2, <1>3 DEF Conflict
<1>5. \A r \in stored : r.bucket = BucketFor(s, r.partition, r.time)
  BY <1>3, <1>4 DEF Derived
<1>6. ASSUME NEW r \in stored, from <= r.time, r.time < to, r.partition = k
      PROVE  r.bucket \in BucketsForRange(s, k, from, to)
  BY <1>3, <1>5, <1>6 DEF BucketsForRange
<1>7. ASSUME NEW r \in stored, r.bucket \in BucketsForRange(s, k, from, to)
      PROVE  r.partition = k
  <2>1. PICK t \in Times : r.bucket = BucketFor(s, k, t)
    BY <1>7 DEF BucketsForRange
  <2>2. r.bucket.partition = k
    BY <2>1 DEF BucketFor
  <2>3. r.bucket = BucketFor(s, r.partition, r.time)
    BY <1>5
  <2>4. BucketFor(s, r.partition, r.time).partition = r.partition
    BY DEF BucketFor
  <2> QED
    BY <2>2, <2>3, <2>4
<1> QED
  BY <1>6, <1>7 DEF Read

\* Whoever may append sees every accepted record (append, buckets_for_range).
THEOREM WritersAlwaysReadAll == FenceSpec => []WritersReadAll
BY FenceInvariant, InvReadsAll, PTL
=============================================================================
