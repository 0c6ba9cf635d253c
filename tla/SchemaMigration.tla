--------------------------- MODULE SchemaMigration ---------------------------
(***************************************************************************)
(* pulpitum-migrate: deployment jobs of several releases that run          *)
(* migrate(), validate_schema() and the grants, possibly at once           *)
(* (cockroach_durable.rs, cockroach_schema.rs, bin/pulpitum-migrate.rs).   *)
(*                                                                         *)
(* A release ships the versions First..Latest[j]; Checksum[j] stands for   *)
(* the name and the checksum of each.  The database runs the migration     *)
(* transaction serializably: it commits only if the history is still what  *)
(* the transaction read.  The history table's primary key excludes         *)
(* duplicate versions.                                                     *)
(***************************************************************************)
EXTENDS Integers, FiniteSets

CONSTANTS
    Jobs,           \* deployment jobs
    First, Last,    \* the managed versions
    Latest,         \* the last version each job's release ships
    Checksum,       \* the checksum each release has for each version
    Checksums,
    MaxAttempts,    \* MAX_TRANSACTION_ATTEMPTS
    Absent

Versions == First..Last

ASSUME MigrationAssumption ==
    /\ First \in Nat /\ Last \in Nat
    /\ Latest \in [Jobs -> Versions]
    /\ Checksum \in [Jobs -> [Versions -> Checksums]]
    /\ MaxAttempts \in Nat \ {0}
    /\ Absent \notin Checksums

VARIABLES
    created,    \* the history table exists
    history,    \* the checksum recorded for each version
    executed,   \* how often each version's SQL has taken effect
    granted,    \* the runtime role has its grants
    at,         \* each job's position
    seen,       \* the history its transaction has read
    attempt,    \* attempts made before this one
    pending     \* jobs whose COMMIT has not been answered

jobVars == <<at, seen, attempt>>
dbVars == <<created, history, executed, granted>>
vars == <<dbVars, jobVars, pending>>

Histories == [Versions -> Checksums \cup {Absent}]
NoHistory == [v \in Versions |-> Absent]

TypeOK ==
    /\ created \in BOOLEAN /\ granted \in BOOLEAN
    /\ history \in Histories
    /\ executed \in [Versions -> Nat]
    /\ at \in [Jobs -> {"create", "begin", "plan", "commit", "validate",
                        "grant", "done", "failed"}]
    /\ seen \in [Jobs -> Histories]
    /\ attempt \in [Jobs -> 0..(MaxAttempts - 1)]
    /\ pending \subseteq Jobs

Init ==
    /\ created = FALSE /\ granted = FALSE
    /\ history = NoHistory
    /\ executed = [v \in Versions |-> 0]
    /\ at = [j \in Jobs |-> "create"]
    /\ seen = [j \in Jobs |-> NoHistory]
    /\ attempt = [j \in Jobs |-> 0]
    /\ pending = {}

-----------------------------------------------------------------------------
(* plan_migrations. *)

Applied(h) == {v \in Versions : h[v] # Absent}

FutureVersion(j, h) == \E v \in Applied(h) : v > Latest[j]

\* Mutant: recorded checksums are not compared.
ChecksumDrift_Ignored(j, h) == FALSE

ChecksumDrift(j, h) == \E v \in Applied(h) : v <= Latest[j] /\ h[v] # Checksum[j][v]

MigrationGap(h) == \E v \in Applied(h), u \in Versions : u < v /\ h[u] = Absent

PlanFails(j, h) == FutureVersion(j, h) \/ ChecksumDrift(j, h) \/ MigrationGap(h)

ToApply(j, h) == (First..Latest[j]) \ Applied(h)

-----------------------------------------------------------------------------
(* migrate(). *)

Goto(j, where) == at' = [at EXCEPT ![j] = where]

\* Outside the transaction, and idempotent.
CreateHistory(j) ==
    /\ at[j] = "create"
    /\ created' = TRUE
    /\ Goto(j, "begin")
    /\ UNCHANGED <<history, executed, granted, seen, attempt, pending>>

\* BEGIN and read_applied_migrations.
ReadApplied(j) ==
    /\ at[j] = "begin"
    /\ seen' = [seen EXCEPT ![j] = history]
    /\ Goto(j, "plan")
    /\ UNCHANGED <<dbVars, attempt, pending>>

Plan(j) ==
    /\ at[j] = "plan"
    /\ Goto(j, IF PlanFails(j, seen[j]) THEN "failed" ELSE "commit")
    /\ UNCHANGED <<dbVars, seen, attempt, pending>>

\* Mutant: every shipped migration is run again.
Effects_Everything(j) ==
    /\ history' = [v \in Versions |-> IF v \in First..Latest[j] THEN Checksum[j][v]
                                      ELSE history[v]]
    /\ executed' = [v \in Versions |-> IF v \in First..Latest[j] THEN executed[v] + 1
                                       ELSE executed[v]]

\* The pending migrations and their history rows, at the COMMIT.  That a
\* version is the primary key of the history is not used: a serializable
\* transaction inserts no version that another one has inserted.
Effects(j) ==
    LET due == ToApply(j, seen[j]) IN
    /\ history' = [v \in Versions |-> IF v \in due THEN Checksum[j][v] ELSE history[v]]
    /\ executed' = [v \in Versions |-> IF v \in due THEN executed[v] + 1 ELSE executed[v]]

\* Mutant: the transaction is READ COMMITTED.
Serializable_ReadCommitted(j) == TRUE

\* What the database guarantees of a serializable transaction.
Serializable(j) == history = seen[j]

CommitOk(j) ==
    /\ at[j] = "commit"
    /\ Serializable(j)
    /\ Effects(j)
    /\ Goto(j, "validate")
    /\ UNCHANGED <<created, granted, seen, attempt, pending>>

\* A serialization failure of any statement or of COMMIT, while attempts remain.
Retry(j) ==
    /\ at[j] \in {"begin", "commit"}
    /\ attempt[j] + 1 < MaxAttempts
    /\ attempt' = [attempt EXCEPT ![j] = @ + 1]
    /\ Goto(j, "begin")
    /\ UNCHANGED <<dbVars, seen, pending>>

\* Any other error, the last attempt's, or the job's death.
Fails(j) ==
    /\ at[j] \notin {"done", "failed"}
    /\ Goto(j, "failed")
    /\ UNCHANGED <<dbVars, seen, attempt, pending>>

\* The job loses the answer to its COMMIT and reports a database error.
CommitLost(j) ==
    /\ at[j] = "commit"
    /\ Goto(j, "failed")
    /\ pending' = pending \cup {j}
    /\ UNCHANGED <<dbVars, seen, attempt>>

LateCommit(j) ==
    /\ j \in pending
    /\ pending' = pending \ {j}
    /\ \/ Serializable(j) /\ Effects(j)
       \/ UNCHANGED <<history, executed>>
    /\ UNCHANGED <<created, granted, jobVars>>

\* A failed job is started again.
Restart(j) ==
    /\ at[j] = "failed" /\ j \notin pending
    /\ Goto(j, "create")
    /\ attempt' = [attempt EXCEPT ![j] = 0]
    /\ UNCHANGED <<dbVars, seen, pending>>

-----------------------------------------------------------------------------
(* validate_schema() and the grants. *)

Validate(j) ==
    /\ at[j] = "validate"
    /\ Goto(j, IF PlanFails(j, history) \/ ToApply(j, history) # {} THEN "failed"
               ELSE "grant")
    /\ UNCHANGED <<dbVars, seen, attempt, pending>>

Grant(j) ==
    /\ at[j] = "grant"
    /\ granted' = TRUE
    /\ Goto(j, "done")
    /\ UNCHANGED <<created, history, executed, seen, attempt, pending>>

-----------------------------------------------------------------------------
Step(j) ==
    \/ CreateHistory(j) \/ ReadApplied(j) \/ Plan(j)
    \/ CommitOk(j) \/ Validate(j) \/ Grant(j)

Next ==
    \E j \in Jobs : \/ Step(j) \/ Retry(j) \/ Fails(j) \/ CommitLost(j)
                    \/ LateCommit(j) \/ Restart(j)

Spec == Init /\ [][Next]_vars

-----------------------------------------------------------------------------
(* Correctness. *)

\* The history has no gap and records exactly the migrations that have taken
\* effect, each of them once, whatever jobs raced, died or lost an answer.
HistorySound ==
    /\ ~MigrationGap(history)
    /\ \A v \in Versions : executed[v] = IF history[v] = Absent THEN 0 ELSE 1

\* The history is append-only.
HistoryAppendOnly ==
    [][\A v \in Versions : history[v] # Absent => history'[v] = history[v]]_vars

InPlace(j) == \A v \in First..Latest[j] : history[v] = Checksum[j][v]

\* A job that got through migrate() finds every migration it ships in place,
\* with its own checksums, then and ever after; so the runtime role has its
\* grants only on a schema that holds all that some release ships.
MigratedForGood ==
    /\ \A j \in Jobs : at[j] \in {"validate", "grant", "done"} => InPlace(j)
    /\ granted => \E j \in Jobs : InPlace(j)
=============================================================================
