--------------------------- MODULE RecoveryCycle ---------------------------
(***************************************************************************)
(* Archiver processes working through MANY buckets.  ArchiveCutover        *)
(* follows one bucket through one session in full detail; this module      *)
(* keeps of a session only where it can end, and models what decides       *)
(* WHETHER and WHEN a bucket gets a session at all: the process loop of    *)
(* src/bin/pulpitum-archiver.rs, run_once of                               *)
(* src/application/durable_archive_recovery.rs, and the two scans and the  *)
(* claims of src/adapters/cockroach_durable.rs with their deadlines.       *)
(*                                                                         *)
(* Buckets are numbered by ORDER BY bucket_end, table_id, ....  Deadlines  *)
(* are countdowns in ticks: retry[b] to archive_next_attempt_at, lease[b]  *)
(* to archive_owner_expires_at, timer[r] to the end of a sleep.            *)
(*                                                                         *)
(* A session is not a lock.  Its lease runs while it works; the heartbeat  *)
(* renews it, and once the heartbeat has failed supervise still awaits the *)
(* running operation, while the lease runs out and another replica may     *)
(* claim the bucket.  Phase "upload" is the snapshot and the upload, which *)
(* fail alike.                                                             *)
(***************************************************************************)
EXTENDS Integers, FiniteSets

CONSTANTS
    Runners,        \* archiver replicas
    Buckets,        \* the buckets, numbered in scan order
    EndsBy,         \* bucket_end of each bucket, in years
    FailsAt,        \* the phase in which work on a bucket always fails, or "never"
    ScanLimit,      \* ArchiveRecoveryConfig::scan_limit
    Interval,       \* ARCHIVER_INTERVAL_SECONDS
    Backoff,        \* ARCHIVER_RETRY_SECONDS
    LeaseFor,       \* ARCHIVER_LEASE_SECONDS
    Lag,            \* how long after its sleep a runner may be scanning
    LastYear,       \* bound on the calendar
    MaxFaults       \* bound on crashes and transient failures

Phases == {"upload", "publish", "clean"}
Deferrals == {"defer_cutover", "defer_cleanup"}

\* What a session awaits under supervise.
Supervised == Phases \cup Deferrals \cup {"state"}

ASSUME CycleAssumption ==
    /\ Buckets \subseteq Nat /\ IsFiniteSet(Buckets)
    /\ EndsBy \in [Buckets -> Nat]
    /\ \A a, b \in Buckets : a < b => EndsBy[a] <= EndsBy[b]
    /\ FailsAt \in [Buckets -> Phases \cup {"never"}]
    /\ ScanLimit \in Nat \ {0}
    /\ Interval \in Nat \ {0}
    /\ Backoff \in Nat \ {0}
    /\ LeaseFor \in Nat \ {0}
    /\ Lag \in Nat
    /\ LastYear \in Nat \ {0}
    /\ MaxFaults \in Nat

VARIABLES
    state,      \* "absent", "hot", "archiving", "archived" or "cleaned"
    lease,      \* ticks until the owner's lease expires
    retry,      \* ticks until the next attempt is allowed
    year,       \* the calendar
    faults,     \* crashes and transient failures so far
    pc,         \* where each archiver is
    timer,      \* ticks left of its sleep, negative when late
    cutoff,     \* its eligible_before, fixed when the process starts
    todo,       \* its work list: the cleanups and the cutovers
    item,       \* the bucket it has claimed, as a set of at most one
    fence,      \* its session against the row: "live" if it is the row's and
                \* the lease was live when the awaited call began, "late" if
                \* the lease had lapsed by then, "lost" to a later claim
    beat,       \* its heartbeat: "off", "on" or "failed"
    outcome     \* its ArchiveRecoveryOutcome; an Err answer carries none

store == <<state, lease, retry>>
session == <<item, fence, beat>>
vars == <<store, year, faults, pc, timer, cutoff, todo, session, outcome>>

Idle == {"down", "asleep"}
Locations == Idle \cup {"scan", "next"} \cup Supervised
NoWork == [cleanup |-> {}, cutover |-> {}]
NoOutcome == [claimed |-> {}, completed |-> {}, deferred |-> {}, answer |-> "none"]

TypeOK ==
    /\ state \in [Buckets -> {"absent", "hot", "archiving", "archived", "cleaned"}]
    /\ lease \in [Buckets -> Nat]
    /\ retry \in [Buckets -> 0 .. Backoff]
    /\ year \in 1 .. LastYear
    /\ faults \in 0 .. MaxFaults
    /\ pc \in [Runners -> Locations]
    /\ timer \in [Runners -> -Lag .. Interval]
    /\ cutoff \in [Runners -> 0 .. LastYear]
    /\ todo \in [Runners -> [cleanup : SUBSET Buckets, cutover : SUBSET Buckets]]
    /\ item \in [Runners -> SUBSET Buckets]
    /\ fence \in [Runners -> {"none", "live", "late", "lost"}]
    /\ beat \in [Runners -> {"off", "on", "failed"}]
    /\ outcome \in [Runners -> [claimed : SUBSET Buckets, completed : SUBSET Buckets,
                                deferred : SUBSET Buckets, answer : {"none", "ok"}]]
    /\ \A r \in Runners : pc[r] \notin Supervised <=> item[r] = {}

Init ==
    /\ state = [b \in Buckets |-> "absent"]
    /\ lease = [b \in Buckets |-> 0]
    /\ retry = [b \in Buckets |-> 0]
    /\ year = 1
    /\ faults = 0
    /\ pc = [r \in Runners |-> "down"]
    /\ timer = [r \in Runners |-> 0]
    /\ cutoff = [r \in Runners |-> 0]
    /\ todo = [r \in Runners |-> NoWork]
    /\ item = [r \in Runners |-> {}]
    /\ fence = [r \in Runners |-> "none"]
    /\ beat = [r \in Runners |-> "off"]
    /\ outcome = [r \in Runners |-> NoOutcome]

-----------------------------------------------------------------------------
(* The environment. *)

\* The first append to a bucket creates its metadata row.
Appear(b) ==
    /\ state[b] = "absent"
    /\ state' = [state EXCEPT ![b] = "hot"]
    /\ UNCHANGED <<lease, retry, year, faults, pc, timer, cutoff, todo, session, outcome>>

NewYear ==
    /\ year < LastYear
    /\ year' = year + 1
    /\ UNCHANGED <<store, faults, pc, timer, cutoff, todo, session, outcome>>

Owns(r, b) == b \in item[r] /\ fence[r] # "lost"

\* renew_archive_lease extends a lease that is live, for the session it is of.
Renewable(r, b) == Owns(r, b) /\ lease[b] > 0

\* A heartbeat that works renews within every tick.
Renewed(b) == \E r \in Runners : beat[r] = "on" /\ Renewable(r, b)

CountDown(n) == IF n = 0 THEN 0 ELSE n - 1

\* A runner that sleeps or scans; its scan is over Lag after its sleep at most.
Timed(r) == pc[r] \in {"asleep", "scan"}

\* One tick of every clock.
Tick ==
    /\ \A r \in Runners : Timed(r) => timer[r] > -Lag
    /\ lease' = [b \in Buckets |-> IF Renewed(b) THEN LeaseFor ELSE CountDown(lease[b])]
    /\ retry' = [b \in Buckets |-> CountDown(retry[b])]
    /\ timer' = [r \in Runners |-> IF Timed(r) THEN timer[r] - 1 ELSE timer[r]]
    /\ UNCHANGED <<state, year, faults, pc, cutoff, todo, session, outcome>>

-----------------------------------------------------------------------------
(* What is due. *)

CleanupDue(b) ==
    /\ state[b] = "archived"
    /\ retry[b] = 0
    /\ lease[b] = 0

\* Mutant: a lapsed session is never due again.
CutoverDue_HotOnly(b) ==
    /\ retry[b] = 0
    /\ state[b] = "hot"

CutoverDue(b) ==
    /\ retry[b] = 0
    /\ \/ state[b] = "hot"
       \/ state[b] = "archiving" /\ lease[b] = 0

\* ORDER BY ... LIMIT n: the n first members of S.
Limit(S, n) == {b \in S : Cardinality({a \in S : a <= b}) <= n}

Least(S) == CHOOSE b \in S : \A a \in S : b <= a

\* Items are worked through in list order: cleanups, then cutovers.
NextItem(r) ==
    IF todo[r].cleanup # {} THEN Least(todo[r].cleanup) ELSE Least(todo[r].cutover)

-----------------------------------------------------------------------------
(* The process loop. *)

\* main: eligible_before is January 1 of the year before the process started,
\* and the configuration keeps it until the process ends.
Start(r) ==
    /\ pc[r] = "down"
    /\ pc' = [pc EXCEPT ![r] = "asleep"]
    /\ timer' = [timer EXCEPT ![r] = 0]
    /\ cutoff' = [cutoff EXCEPT ![r] = year - 1]
    /\ UNCHANGED <<store, year, faults, todo, session, outcome>>

Fault ==
    /\ faults < MaxFaults
    /\ faults' = faults + 1

\* The session is dropped, its heartbeat with it; its row stays as it is.
SessionOver(r) ==
    /\ item' = [item EXCEPT ![r] = {}]
    /\ fence' = [fence EXCEPT ![r] = "none"]
    /\ beat' = [beat EXCEPT ![r] = "off"]

Crash(r) ==
    /\ pc[r] # "down"
    /\ Fault
    /\ pc' = [pc EXCEPT ![r] = "down"]
    /\ timer' = [timer EXCEPT ![r] = 0]
    /\ todo' = [todo EXCEPT ![r] = NoWork]
    /\ SessionOver(r)
    /\ outcome' = [outcome EXCEPT ![r] = NoOutcome]
    /\ UNCHANGED <<store, year, cutoff>>

\* run_once returns, the loop logs the answer and sleeps.
Sleep(r) ==
    /\ pc' = [pc EXCEPT ![r] = "asleep"]
    /\ timer' = [timer EXCEPT ![r] = Interval]
    /\ todo' = [todo EXCEPT ![r] = NoWork]
    /\ SessionOver(r)

-----------------------------------------------------------------------------
(* discover_archive_work: two statements, no transaction around them. *)

ScanCleanups(r) ==
    /\ pc[r] = "asleep" /\ timer[r] <= 0
    /\ todo' = [todo EXCEPT ![r].cleanup =
                   Limit({b \in Buckets : CleanupDue(b)}, ScanLimit)]
    /\ pc' = [pc EXCEPT ![r] = "scan"]
    /\ outcome' = [outcome EXCEPT ![r] = NoOutcome]
    /\ UNCHANGED <<store, year, faults, timer, cutoff, session>>

\* Mutant: the second statement gets the whole limit again.
Remaining_Whole(r) == ScanLimit

Remaining(r) == ScanLimit - Cardinality(todo[r].cleanup)

ScanCutovers(r) ==
    /\ pc[r] = "scan"
    /\ todo' = [todo EXCEPT ![r].cutover =
                   Limit({b \in Buckets : EndsBy[b] <= cutoff[r] /\ CutoverDue(b)}, Remaining(r))]
    /\ pc' = [pc EXCEPT ![r] = "next"]
    /\ timer' = [timer EXCEPT ![r] = 0]
    /\ UNCHANGED <<store, year, faults, cutoff, session, outcome>>

ScanFails(r) ==
    /\ pc[r] = "scan"
    /\ Fault
    /\ Sleep(r)
    /\ outcome' = [outcome EXCEPT ![r] = NoOutcome]
    /\ UNCHANGED <<store, year, cutoff>>

-----------------------------------------------------------------------------
(* Working through the list. *)

\* Every item done, run_once returns Ok.
CycleEnds(r) ==
    /\ pc[r] = "next" /\ todo[r] = NoWork
    /\ Sleep(r)
    /\ outcome' = [outcome EXCEPT ![r].answer = "ok"]
    /\ UNCHANGED <<store, year, faults, cutoff>>

Taken(r, b) == [cleanup |-> todo[r].cleanup \ {b}, cutover |-> todo[r].cutover \ {b}]

\* The UPDATE of claim_cleanup or claim_archive repeats the scan's condition.
Claimable(r, b) == IF b \in todo[r].cleanup THEN CleanupDue(b) ELSE CutoverDue(b)

ClaimedRow(r, b) ==
    /\ state' = [state EXCEPT ![b] = IF b \in todo[r].cleanup THEN @ ELSE "archiving"]
    /\ lease' = [lease EXCEPT ![b] = LeaseFor]
    /\ retry' = [retry EXCEPT ![b] = 0]

\* A claim takes the row from the session that had it.
Fenced(b) == [q \in Runners |-> IF b \in item[q] THEN "lost" ELSE fence[q]]

Claim(r) ==
    /\ pc[r] = "next" /\ todo[r] # NoWork
    /\ LET b == NextItem(r) IN
       /\ Claimable(r, b)
       /\ ClaimedRow(r, b)
       /\ pc' = [pc EXCEPT ![r] = IF b \in todo[r].cleanup THEN "clean" ELSE "upload"]
       /\ item' = [item EXCEPT ![r] = {b}]
       /\ fence' = [Fenced(b) EXCEPT ![r] = "live"]
       /\ beat' = [beat EXCEPT ![r] = "on"]
       /\ todo' = [todo EXCEPT ![r] = Taken(r, b)]
       /\ outcome' = [outcome EXCEPT ![r].claimed = @ \cup {b}]
    /\ UNCHANGED <<year, faults, timer, cutoff>>

\* A claim that returns None leaves the bucket to its winner.
Pass(r) ==
    /\ pc[r] = "next" /\ todo[r] # NoWork
    /\ ~Claimable(r, NextItem(r))
    /\ todo' = [todo EXCEPT ![r] = Taken(r, NextItem(r))]
    /\ UNCHANGED <<store, year, faults, pc, timer, cutoff, session, outcome>>

\* The error leaves run_once: the rest of the list and the outcome are dropped.
Abandon(r) ==
    /\ Sleep(r)
    /\ outcome' = [outcome EXCEPT ![r] = NoOutcome]

ClaimFails(r) ==
    /\ pc[r] = "next" /\ todo[r] # NoWork
    /\ Fault
    /\ Abandon(r)
    /\ UNCHANGED <<store, year, cutoff>>

\* The claim commits and its answer is lost: a session that nobody holds.
ClaimAnswerLost(r) ==
    /\ pc[r] = "next" /\ todo[r] # NoWork
    /\ Fault
    /\ LET b == NextItem(r) IN
       /\ Claimable(r, b)
       /\ ClaimedRow(r, b)
       /\ fence' = Fenced(b)
    /\ pc' = [pc EXCEPT ![r] = "asleep"]
    /\ timer' = [timer EXCEPT ![r] = Interval]
    /\ todo' = [todo EXCEPT ![r] = NoWork]
    /\ outcome' = [outcome EXCEPT ![r] = NoOutcome]
    /\ UNCHANGED <<year, cutoff, item, beat>>

-----------------------------------------------------------------------------
(* One session: the calls it makes and what they do to the row. *)

Doomed(r) == \E b \in item[r] : FailsAt[b] = pc[r]

\* The state of the row that the fenced UPDATE of each call asks for.
Expects == [publish |-> "archiving", defer_cutover |-> "archiving",
            clean |-> "archived", defer_cleanup |-> "archived"]

\* Mutant: the statements of a session do not ask for the row's token.
Admitted_Unfenced(r) ==
    /\ pc[r] \in DOMAIN Expects
    /\ \A b \in item[r] : state[b] = Expects[pc[r]]

\* The row is the session's, in the expected state, and now(), the start of the
\* call's transaction, was before the end of the lease.
Admitted(r) ==
    /\ pc[r] \in DOMAIN Expects
    /\ fence[r] = "live"
    /\ \A b \in item[r] : state[b] = Expects[pc[r]]

\* StaleArchiveSession.  The snapshot of the upload phase is fenced as well.
Refused(r) ==
    \E b \in item[r] :
      \/ fence[r] # "live"
      \/ lease[b] = 0
      \/ pc[r] \in DOMAIN Expects /\ state[b] # Expects[pc[r]]

\* The row after the call of a session at p took effect.
RowAfter(p, b) ==
    /\ state' = [state EXCEPT ![b] = CASE p = "publish" -> "archived"
                                       [] p = "clean" -> "cleaned"
                                       [] p = "defer_cutover" -> "hot"
                                       [] OTHER -> @]
    /\ lease' = [lease EXCEPT ![b] = CASE p \in {"clean", "defer_cutover"} -> 0
                                       [] p = "defer_cleanup" -> Backoff
                                       [] OTHER -> @]
    /\ retry' = [retry EXCEPT ![b] = IF p \in Deferrals THEN Backoff ELSE @]

TakesEffect(r) ==
    /\ Admitted(r) /\ ~Doomed(r)
    /\ \A b \in item[r] : RowAfter(pc[r], b)

\* The session goes on to await p, whose transaction begins now or later.
GoTo(r, p) ==
    /\ pc' = [pc EXCEPT ![r] = p]
    /\ fence' = [fence EXCEPT ![r] =
                    IF @ = "live" /\ \E b \in item[r] : lease[b] = 0 THEN "late" ELSE @]
    /\ UNCHANGED <<item, beat>>

\* supervise returned the call's own result, the heartbeat being well.
Returns(r, p) == pc[r] = p /\ beat[r] = "on"

\* put_bucket_generation is not fenced: it succeeds for a session long lost.
UploadDone(r) ==
    /\ Returns(r, "upload") /\ ~Doomed(r)
    /\ GoTo(r, "publish")
    /\ UNCHANGED <<store, year, faults, timer, cutoff, todo, outcome>>

PublishDone(r) ==
    /\ Returns(r, "publish")
    /\ TakesEffect(r)
    /\ GoTo(r, "clean")
    /\ UNCHANGED <<year, faults, timer, cutoff, todo, outcome>>

CleanDone(r) ==
    /\ Returns(r, "clean")
    /\ TakesEffect(r)
    /\ pc' = [pc EXCEPT ![r] = "next"]
    /\ SessionOver(r)
    /\ outcome' = [outcome EXCEPT ![r].completed = @ \cup item[r]]
    /\ UNCHANGED <<year, faults, timer, cutoff, todo>>

AfterError == [upload |-> "defer_cutover", publish |-> "state", clean |-> "defer_cleanup"]

\* The call fails by itself, is refused, or loses its answer, done or not.
PhaseFails(r) ==
    /\ \E p \in Phases : Returns(r, p)
    /\ \/ (Doomed(r) \/ Refused(r)) /\ UNCHANGED <<store, faults>>
       \/ Fault /\ (UNCHANGED store \/ TakesEffect(r))
    /\ GoTo(r, AfterError[pc[r]])
    /\ UNCHANGED <<year, timer, cutoff, todo, outcome>>

\* A failed publication may have been made: state() decides how to go on.
ReadState(r) ==
    /\ Returns(r, "state")
    /\ \E b \in item[r] :
         \/ state[b] = "archived" /\ GoTo(r, "clean")
         \/ state[b] = "archiving" /\ GoTo(r, "defer_cutover")
    /\ UNCHANGED <<store, year, faults, timer, cutoff, todo, outcome>>

\* Mutant: a failed item is logged and the cycle goes on with the next one.
EndInError_NextItem(r) ==
    /\ pc' = [pc EXCEPT ![r] = "next"]
    /\ SessionOver(r)
    /\ outcome' = [outcome EXCEPT ![r].deferred = @ \cup item[r]]
    /\ UNCHANGED <<timer, todo>>

EndInError(r) == Abandon(r)

\* state() says the bucket is hot again or cleaned, or fails.
StateEnds(r) ==
    /\ Returns(r, "state")
    /\ \/ /\ \E b \in item[r] : state[b] \notin {"archived", "archiving"}
          /\ UNCHANGED faults
       \/ Fault
    /\ EndInError(r)
    /\ UNCHANGED <<store, year, cutoff>>

\* defer_archive or defer_cleanup, made or not, ends the session in the error.
DeferEnds(r) ==
    /\ \E p \in Deferrals : Returns(r, p)
    /\ \/ TakesEffect(r) /\ UNCHANGED faults
       \/ Refused(r) /\ UNCHANGED <<store, faults>>
       \/ UNCHANGED store /\ Fault
    /\ EndInError(r)
    /\ UNCHANGED <<year, cutoff>>

\* The heartbeat has failed: supervise awaits the running call all the same,
\* ignores what it returns and answers the heartbeat's error.
Drained(r) ==
    /\ beat[r] = "failed"
    /\ TakesEffect(r) \/ UNCHANGED store
    /\ EndInError(r)
    /\ UNCHANGED <<year, faults, cutoff>>

\* The rows are deleted and a renewal is refused for it before the answer is in.
CleanOvertaken(r) ==
    /\ Returns(r, "clean")
    /\ TakesEffect(r)
    /\ EndInError(r)
    /\ UNCHANGED <<year, faults, cutoff>>

-----------------------------------------------------------------------------
(* The heartbeat. *)

BeatFails(r) == beat' = [beat EXCEPT ![r] = "failed"]

\* StaleArchiveSession.
RenewalRefused(r) ==
    /\ beat[r] = "on"
    /\ \E b \in item[r] : ~Renewable(r, b)
    /\ BeatFails(r)
    /\ UNCHANGED <<store, year, faults, pc, timer, cutoff, todo, item, fence, outcome>>

\* Any other error; the lease may have been extended all the same.
RenewalFails(r) ==
    /\ beat[r] = "on"
    /\ Fault
    /\ \/ UNCHANGED lease
       \/ \E b \in item[r] : Renewable(r, b) /\ lease' = [lease EXCEPT ![b] = LeaseFor]
    /\ BeatFails(r)
    /\ UNCHANGED <<state, retry, year, pc, timer, cutoff, todo, item, fence, outcome>>

\* A renewal was too slow, or the clocks of worker and database disagree.
Lapse(b) ==
    /\ Renewed(b)
    /\ Fault
    /\ lease' = [lease EXCEPT ![b] = 0]
    /\ UNCHANGED <<state, retry, year, pc, timer, cutoff, todo, session, outcome>>

-----------------------------------------------------------------------------

Session(r) ==
    \/ UploadDone(r) \/ PublishDone(r) \/ CleanDone(r) \/ CleanOvertaken(r)
    \/ PhaseFails(r) \/ ReadState(r) \/ StateEnds(r) \/ DeferEnds(r) \/ Drained(r)

Step(r) ==
    \/ ScanCleanups(r) \/ ScanCutovers(r) \/ CycleEnds(r)
    \/ Claim(r) \/ Pass(r) \/ Session(r)

Failure(r) ==
    \/ Crash(r) \/ ScanFails(r) \/ ClaimFails(r) \/ ClaimAnswerLost(r)
    \/ RenewalFails(r)

Next ==
    \/ Tick
    \/ NewYear
    \/ \E b \in Buckets : Appear(b) \/ Lapse(b)
    \/ \E r \in Runners : Start(r) \/ Step(r) \/ Failure(r) \/ RenewalRefused(r)

Spec == Init /\ [][Next]_vars

\* Every statement of a cycle and every object operation is answered.  The
\* deadlines of transactions and object operations give as much; the two scans
\* and state() have none, and a database silent on one of them stops the runner.
BackendsAnswer == \A r \in Runners : WF_vars(Step(r))

\* Time passes and a process that is down is restarted.  Nothing is assumed of
\* crashes or transient failures.
FairSpec ==
    /\ Spec
    /\ WF_vars(Tick)
    /\ \A r \in Runners : WF_vars(Start(r))
    /\ BackendsAnswer

-----------------------------------------------------------------------------
(* Properties. *)

\* A work list never exceeds scan_limit and never names a bucket twice,
\* although the two statements of discover_archive_work run without a
\* transaction and other replicas move buckets between them.
WorkListSound ==
    \A r \in Runners :
        /\ Cardinality(todo[r].cleanup \cup todo[r].cutover) <= ScanLimit
        /\ todo[r].cleanup \cap todo[r].cutover = {}

\* A cycle that answers Ok finished every session it began: each bucket it
\* counts as claimed is counted as completed, is cleaned, and none was deferred.
OkCycleFinishedAll ==
    \A r \in Runners : outcome[r].answer = "ok" =>
        /\ outcome[r].claimed = outcome[r].completed
        /\ outcome[r].deferred = {}
        /\ \A b \in outcome[r].completed : state[b] = "cleaned"

\* Sessions of several replicas may exist for one bucket, the older ones drained
\* after their lease, and they do not disturb each other: while a session's lease
\* is live only its own calls move the row, and a deferred row keeps its state
\* for the whole backoff, also for a replica that had it on its list before.
RowsLeftAlone ==
    [][\A b \in Buckets :
         /\ \A r \in Runners :
              Renewable(r, b) /\ state'[b] # state[b] => pc'[r] # pc[r]
         /\ retry[b] > 0 => /\ state'[b] = state[b]
                            /\ retry'[b] >= retry[b] - 1]_vars

Recoverable(b) ==
    \/ state[b] = "archived"
    \/ state[b] \in {"hot", "archiving"} /\ \A r \in Runners : EndsBy[b] <= cutoff[r]

\* The runner carries out the cutover of every eligible or recoverable row
\* whose own work can succeed: it is archived and its hot rows are deleted.
EveryRowServed ==
    \A b \in Buckets : FailsAt[b] = "never" =>
        (Recoverable(b) ~> state[b] = "cleaned")
=============================================================================
