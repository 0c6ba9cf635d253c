--------------------------- MODULE ArchiveCutover ---------------------------
(***************************************************************************)
(* Moving one bucket from CockroachDB to object storage while it is being  *)
(* written and read.  The module composes                                  *)
(*  - the bucket's durable row and records   (DurableBucketStore),         *)
(*  - its immutable archive objects          (ArchiveObjectStore),         *)
(*  - the replicas of the recovery runner    (Runners,                     *)
(*    src/application/durable_archive_recovery.rs) and callers of the      *)
(*    direct coordinator (Directs, src/application/durable_archive.rs),    *)
(*  - the lease heartbeat each of them spawns (ArchiveLeaseRenewer),       *)
(*  - clients that append, and readers with a process-local route cache    *)
(*    (read_range and read_bucket).                                        *)
(*                                                                         *)
(* A worker is one process.  pc is the operation it awaits; res is how far *)
(* that operation is: "new" (the future exists and was never polled),      *)
(* "run"/"late" (polled; its transaction began under a live/lapsed lease), *)
(* or the result it produced.  Producing the result and returning from     *)
(* supervise() are two steps, because the heartbeat runs between them.     *)
(*                                                                         *)
(* A transaction may commit without its answer arriving: it then sits in   *)
(* "pending" and takes effect later, at any time, or never.                *)
(***************************************************************************)
EXTENDS DurableBucketStore, ArchiveObjectStore

CONSTANTS
    Runners,        \* processes running DurableArchiveRecoveryRunner
    Directs,        \* processes calling DurableArchiveCoordinator
    Readers,        \* processes that also serve reads
    MaxFaults       \* bound on the faults of one behaviour

ASSUME WorkersAssumption ==
    /\ Workers = Runners \cup Directs
    /\ Runners \cap Directs = {}
    /\ Readers \subseteq Workers

ASSUME FaultsAssumption == MaxFaults \in Nat

VARIABLES
    pc,         \* the operation each worker awaits
    res,        \* how far that operation is
    ren,        \* the heartbeat: "off", "on" or "failed"
    sess,       \* generation of the worker's session, 0 without one
    snap,       \* the snapshot taken in this session, None before
    routeCache, \* each process's cached archive route, or None
    reads,      \* each reader's current or last read
    acked,      \* history: records whose append was acknowledged
    pending,    \* transactions whose COMMIT was not answered
    faults      \* faults so far

workerVars == <<pc, res, ren, sess, snap>>
vars == <<meta, hot, payloads, manifests, pc, res, ren, sess, snap,
          routeCache, reads, acked, pending, faults>>

WriteOps  == ArchiveOps \cup CleanupOps
UploadOps == {"payload", "manifest"}
Supervised == {"snapshot", "state"} \cup UploadOps \cup WriteOps
Running   == {"run", "late"}
Results   == {"ok", "err", "cleanup", "archiving", "other"}

Read == [status : {"idle", "route", "fetch"},
         key    : Keys \cup {None},
         must   : SUBSET Records,
         result : {None} \cup SUBSET Records]

NoRead == [status |-> "idle", key |-> None, must |-> {}, result |-> None]

TypeOK ==
    /\ meta \in Metadata
    /\ hot \subseteq Records
    /\ payloads \subseteq Keys
    /\ manifests \subseteq Keys
    /\ pc \in [Workers -> {"idle", "shutdown"} \cup ClaimOps \cup Supervised]
    /\ res \in [Workers -> {"new"} \cup Running \cup Results]
    /\ ren \in [Workers -> {"off", "on", "failed"}]
    /\ sess \in [Workers -> Nat]
    /\ snap \in [Workers -> {None} \cup SUBSET Records]
    /\ routeCache \in [Workers -> Keys \cup {None}]
    /\ reads \in [Readers -> Read]
    /\ acked \subseteq Records
    /\ pending \subseteq Transactions
    /\ faults \in 0..MaxFaults

Init ==
    /\ StoreInit
    /\ ObjectInit
    /\ pc = [w \in Workers |-> "idle"]
    /\ res = [w \in Workers |-> "new"]
    /\ ren = [w \in Workers |-> "off"]
    /\ sess = [w \in Workers |-> 0]
    /\ snap = [w \in Workers |-> None]
    /\ routeCache = [w \in Workers |-> None]
    /\ reads = [p \in Readers |-> NoRead]
    /\ acked = {}
    /\ pending = {}
    /\ faults = 0

Fault ==
    /\ faults < MaxFaults
    /\ faults' = faults + 1

-----------------------------------------------------------------------------
(* The operation a worker awaits, as a transaction and as an object key.   *)

Session(w) == [owner |-> w, generation |-> sess[w]]

Key(w) == [generation |-> sess[w], records |-> snap[w]]

Request(w) ==
    [op         |-> pc[w],
     owner      |-> w,
     generation |-> sess[w],
     records    |-> IF pc[w] = "publish" THEN snap[w] ELSE {},
     attempt    |-> faults]

\* archive_owner_expires_at > now(), now() being the transaction's start.
LeaseHeld(w) == meta.lease = "live" \/ res[w] = "run"

Invalidate(w) == routeCache' = [routeCache EXCEPT ![w] = None]

Finish(w, result) == res' = [res EXCEPT ![w] = result]

-----------------------------------------------------------------------------
(* Claiming a session. *)

\* run_once: a scan reports the bucket and the runner goes on to claim it.
Discover(w) ==
    /\ w \in Runners
    /\ pc[w] = "idle"
    /\ \E op \in discover_archive_work : pc' = [pc EXCEPT ![w] = op]
    /\ UNCHANGED <<storeVars, objectVars, res, ren, sess, snap, routeCache,
                   reads, acked, pending, faults>>

\* archive_bucket is called for the bucket.
DirectCall(w) ==
    /\ w \in Directs
    /\ pc[w] = "idle"
    /\ pc' = [pc EXCEPT ![w] = "begin_archive"]
    /\ UNCHANGED <<storeVars, objectVars, res, ren, sess, snap, routeCache,
                   reads, acked, pending, faults>>

\* The claim commits: the session exists and its heartbeat is spawned.
ClaimWon(w) ==
    /\ pc[w] \in ClaimOps
    /\ Commit(Request(w))
    /\ sess' = [sess EXCEPT ![w] = meta.generation + 1]
    /\ ren' = [ren EXCEPT ![w] = "on"]
    /\ pc' = [pc EXCEPT ![w] = IF pc[w] = "claim_cleanup"
                               THEN "delete_hot" ELSE "snapshot"]
    /\ IF pc[w] = "claim_cleanup" THEN UNCHANGED routeCache ELSE Invalidate(w)
    /\ UNCHANGED <<objectVars, res, snap, reads, acked, pending, faults>>

\* Another worker got there first: None, or ArchiveNotAllowed.
ClaimLost(w) ==
    /\ pc[w] \in ClaimOps
    /\ ~Admits(Request(w))
    /\ pc' = [pc EXCEPT ![w] = "idle"]
    /\ UNCHANGED <<storeVars, objectVars, res, ren, sess, snap, routeCache,
                   reads, acked, pending, faults>>

\* The claim returns an error; its commit may still be under way.
ClaimFails(w) ==
    /\ pc[w] \in ClaimOps
    /\ Fault
    /\ \/ UNCHANGED pending
       \/ Admits(Request(w)) /\ pending' = pending \cup {Request(w)}
    /\ pc' = [pc EXCEPT ![w] = "idle"]
    /\ UNCHANGED <<storeVars, objectVars, res, ren, sess, snap, routeCache,
                   reads, acked>>

-----------------------------------------------------------------------------
(* Supervised operations. *)

\* supervise() polls the operation for the first time.  Its biased select
\* looks at the heartbeat first, and on a failure awaits the operation all
\* the same.
Start(w) ==
    /\ pc[w] \in Supervised
    /\ res[w] = "new"
    /\ Finish(w, IF meta.lease = "live" THEN "run" ELSE "late")
    /\ UNCHANGED <<storeVars, objectVars, pc, ren, sess, snap, routeCache,
                   reads, acked, pending, faults>>

TakeSnapshot(w) ==
    /\ pc[w] = "snapshot" /\ res[w] \in Running
    /\ OwnsArchiving(Session(w)) /\ LeaseHeld(w)
    /\ snap' = [snap EXCEPT ![w] = hot]
    /\ Finish(w, "ok")
    /\ UNCHANGED <<storeVars, objectVars, pc, ren, sess, routeCache, reads,
                   acked, pending, faults>>

PutPayload(w) ==
    /\ pc[w] = "payload" /\ res[w] \in Running
    /\ put_payload(Key(w))
    /\ pc' = [pc EXCEPT ![w] = "manifest"]
    /\ UNCHANGED <<storeVars, res, ren, sess, snap, routeCache, reads, acked,
                   pending, faults>>

PutManifest(w) ==
    /\ pc[w] = "manifest" /\ res[w] \in Running
    /\ put_manifest(Key(w))
    /\ Finish(w, "ok")
    /\ UNCHANGED <<storeVars, pc, ren, sess, snap, routeCache, reads, acked,
                   pending, faults>>

\* Mutant: a failed write or read-back counts as done.
UploadFails_Ignored(w) ==
    /\ pc[w] \in UploadOps /\ res[w] \in Running
    /\ Fault
    /\ Finish(w, "ok")
    /\ IF pc[w] = "payload" THEN pc' = [pc EXCEPT ![w] = "manifest"] ELSE UNCHANGED pc
    /\ UNCHANGED <<storeVars, objectVars, ren, sess, snap, routeCache, reads,
                   acked, pending>>

\* A write or its read-back fails; the object may exist all the same.
UploadFails(w) ==
    /\ pc[w] \in UploadOps /\ res[w] \in Running
    /\ Fault
    /\ \/ UNCHANGED objectVars
       \/ pc[w] = "payload" /\ put_payload(Key(w))
       \/ pc[w] = "manifest" /\ put_manifest(Key(w))
    /\ Finish(w, "err")
    /\ UNCHANGED <<storeVars, pc, ren, sess, snap, routeCache, reads, acked,
                   pending>>

\* The transaction of the awaited call commits and is acknowledged.
CallCommits(w) ==
    /\ pc[w] \in WriteOps /\ res[w] \in Running
    /\ LeaseHeld(w)
    /\ Commit(Request(w))
    /\ Finish(w, "ok")
    /\ UNCHANGED <<objectVars, pc, ren, sess, snap, routeCache, reads, acked,
                   pending, faults>>

\* StaleArchiveSession: the fence does not match.
CallRefused(w) ==
    /\ res[w] \in Running
    /\ \/ /\ pc[w] = "snapshot"
          /\ ~OwnsArchiving(Session(w)) \/ meta.lease # "live"
       \/ /\ pc[w] \in WriteOps
          /\ ~Admits(Request(w)) \/ meta.lease # "live"
    /\ Finish(w, "err")
    /\ UNCHANGED <<storeVars, objectVars, pc, ren, sess, snap, routeCache,
                   reads, acked, pending, faults>>

\* OperationFailed (no effect) or CommitOutcomeUnknown (maybe a late one).
CallFails(w) ==
    /\ pc[w] \in WriteOps \cup {"snapshot", "state"} /\ res[w] \in Running
    /\ Fault
    /\ \/ UNCHANGED pending
       \/ /\ pc[w] \in WriteOps
          /\ Admits(Request(w)) /\ LeaseHeld(w)
          /\ pending' = pending \cup {Request(w)}
    /\ Finish(w, "err")
    /\ UNCHANGED <<storeVars, objectVars, pc, ren, sess, snap, routeCache,
                   reads, acked>>

\* After a failed publication the runner asks which state was committed.
ReadState(w) ==
    /\ pc[w] = "state" /\ res[w] \in Running
    /\ Finish(w, CASE meta.state = "archived" /\ ~meta.hotDeleted -> "cleanup"
                   [] meta.state = "archiving" -> "archiving"
                   [] OTHER -> "other")
    /\ UNCHANGED <<storeVars, objectVars, pc, ren, sess, snap, routeCache,
                   reads, acked, pending, faults>>

-----------------------------------------------------------------------------
(* What a worker does with a result. *)

\* Mutant: a refused deferral is retried for ever.
RunnerFlow_RetriesDeferral ==
    {<<"snapshot", "ok", "payload">>,     <<"snapshot", "err", "defer_archive">>,
     <<"payload", "err", "defer_archive">>,
     <<"manifest", "ok", "publish">>,     <<"manifest", "err", "defer_archive">>,
     <<"publish", "ok", "delete_hot">>,   <<"publish", "err", "state">>,
     <<"state", "cleanup", "delete_hot">>,
     <<"state", "archiving", "defer_archive">>,
     <<"state", "other", "shutdown">>,    <<"state", "err", "shutdown">>,
     <<"delete_hot", "ok", "shutdown">>,  <<"delete_hot", "err", "defer_cleanup">>,
     <<"defer_archive", "ok", "shutdown">>,
     <<"defer_archive", "err", "defer_archive">>,
     <<"defer_cleanup", "ok", "shutdown">>, <<"defer_cleanup", "err", "shutdown">>}

\* recover_claimed_cutover, finish_cleanup and defer_cutover.
RunnerFlow ==
    {<<"snapshot", "ok", "payload">>,     <<"snapshot", "err", "defer_archive">>,
     <<"payload", "err", "defer_archive">>,
     <<"manifest", "ok", "publish">>,     <<"manifest", "err", "defer_archive">>,
     <<"publish", "ok", "delete_hot">>,   <<"publish", "err", "state">>,
     <<"state", "cleanup", "delete_hot">>,
     <<"state", "archiving", "defer_archive">>,
     <<"state", "other", "shutdown">>,    <<"state", "err", "shutdown">>,
     <<"delete_hot", "ok", "shutdown">>,  <<"delete_hot", "err", "defer_cleanup">>,
     <<"defer_archive", "ok", "shutdown">>, <<"defer_archive", "err", "shutdown">>,
     <<"defer_cleanup", "ok", "shutdown">>, <<"defer_cleanup", "err", "shutdown">>}

\* archive_claimed_bucket.
DirectFlow ==
    {<<"snapshot", "ok", "payload">>,     <<"snapshot", "err", "abort">>,
     <<"payload", "err", "abort">>,
     <<"manifest", "ok", "publish">>,     <<"manifest", "err", "abort">>,
     <<"publish", "ok", "delete_hot">>,   <<"publish", "err", "shutdown">>,
     <<"delete_hot", "ok", "shutdown">>,  <<"delete_hot", "err", "shutdown">>,
     <<"abort", "ok", "shutdown">>,       <<"abort", "err", "shutdown">>}

Flow(w) == IF w \in Runners THEN RunnerFlow ELSE DirectFlow

\* supervise() returns: a failed heartbeat outranks the operation's result.
\* The store method itself has invalidated the route of a bucket it changed.
Return(w) ==
    /\ pc[w] \in Supervised /\ res[w] \in Results
    /\ IF ren[w] = "failed"
       THEN pc' = [pc EXCEPT ![w] = "shutdown"]
       ELSE \E next \in {step[3] : step \in
                {s \in Flow(w) : s[1] = pc[w] /\ s[2] = res[w]}} :
              pc' = [pc EXCEPT ![w] = next]
    /\ Finish(w, "new")
    /\ IF pc[w] \in ArchiveOps /\ res[w] = "ok"
       THEN Invalidate(w) ELSE UNCHANGED routeCache
    /\ UNCHANGED <<storeVars, objectVars, ren, sess, snap, reads, acked,
                   pending, faults>>

\* ArchiveLeaseRenewer::shutdown, then the end of the call.
Shutdown(w) ==
    /\ pc[w] = "shutdown"
    /\ pc' = [pc EXCEPT ![w] = "idle"]
    /\ ren' = [ren EXCEPT ![w] = "off"]
    /\ sess' = [sess EXCEPT ![w] = 0]
    /\ snap' = [snap EXCEPT ![w] = None]
    /\ UNCHANGED <<storeVars, objectVars, res, routeCache, reads, acked,
                   pending, faults>>

-----------------------------------------------------------------------------
(* The heartbeat. *)

RenewRequest(w) == [Request(w) EXCEPT !.op = "renew", !.records = {}]

\* The renewal's own transaction may have begun before the lease lapsed.
Renew(w) ==
    /\ ren[w] = "on"
    /\ renew_archive_lease(Session(w))
    /\ UNCHANGED <<objectVars, workerVars, routeCache, reads, acked, pending,
                   faults>>

\* StaleArchiveSession ends the heartbeat.
RenewRefused(w) ==
    /\ ren[w] = "on"
    /\ ~Renewable(Session(w)) \/ meta.lease # "live"
    /\ ren' = [ren EXCEPT ![w] = "failed"]
    /\ UNCHANGED <<storeVars, objectVars, pc, res, sess, snap, routeCache,
                   reads, acked, pending, faults>>

\* So does any other error.
RenewFails(w) ==
    /\ ren[w] = "on"
    /\ Fault
    /\ \/ UNCHANGED pending
       \/ /\ Renewable(Session(w))
          /\ pending' = pending \cup {RenewRequest(w)}
    /\ ren' = [ren EXCEPT ![w] = "failed"]
    /\ UNCHANGED <<storeVars, objectVars, pc, res, sess, snap, routeCache,
                   reads, acked>>

-----------------------------------------------------------------------------
(* Crashes, time and late commits. *)

\* The process dies and restarts; a transaction it awaited may yet commit.
Crash(w) ==
    /\ pc[w] # "idle"
    /\ Fault
    /\ \/ UNCHANGED pending
       \/ /\ pc[w] \in ClaimOps \/ (pc[w] \in WriteOps /\ res[w] = "run")
          /\ pending' = pending \cup {Request(w)}
    /\ pc' = [pc EXCEPT ![w] = "idle"]
    /\ res' = [res EXCEPT ![w] = "new"]
    /\ ren' = [ren EXCEPT ![w] = "off"]
    /\ sess' = [sess EXCEPT ![w] = 0]
    /\ snap' = [snap EXCEPT ![w] = None]
    /\ reads' = [p \in Readers |-> IF p = w THEN NoRead ELSE reads[p]]
    /\ Invalidate(w)
    /\ UNCHANGED <<storeVars, objectVars, acked>>

\* A session whose heartbeat is healthy keeps its lease.
HeartbeatKeepsLease ==
    \E w \in Workers : ren[w] = "on" /\ pc[w] # "shutdown" /\ Owned(Session(w))

Lapse ==
    /\ ~HeartbeatKeepsLease
    /\ LeaseLapses
    /\ UNCHANGED <<objectVars, workerVars, routeCache, reads, acked, pending,
                   faults>>

\* A renewal was too slow, or the clocks of worker and database disagree.
LapseUnderHeartbeat ==
    /\ HeartbeatKeepsLease
    /\ Fault
    /\ LeaseLapses
    /\ UNCHANGED <<objectVars, workerVars, routeCache, reads, acked, pending>>

RetryDue ==
    /\ BackoffElapses
    /\ UNCHANGED <<objectVars, workerVars, routeCache, reads, acked, pending,
                   faults>>

LateCommit(t) ==
    /\ Commit(t)
    /\ pending' = pending \ {t}
    /\ UNCHANGED <<objectVars, workerVars, routeCache, reads, acked, faults>>

LateRollback(t) ==
    /\ pending' = pending \ {t}
    /\ UNCHANGED <<storeVars, objectVars, workerVars, routeCache, reads,
                   acked, faults>>

-----------------------------------------------------------------------------
(* Clients. *)

AppendRequest(r) ==
    [op         |-> "append",
     owner      |-> None,
     generation |-> 0,
     records    |-> {r},
     attempt    |-> faults]

AppendAcked(r) ==
    /\ Append(r)
    /\ acked' = acked \cup {r}
    /\ UNCHANGED <<objectVars, workerVars, routeCache, reads, pending, faults>>

\* CommitOutcomeUnknown: the client does not know.
AppendUnknown(r) ==
    /\ AppendAllowed(r)
    /\ Fault
    /\ pending' = pending \cup {AppendRequest(r)}
    /\ UNCHANGED <<storeVars, objectVars, workerVars, routeCache, reads, acked>>

ReadBegin(p) ==
    /\ reads[p].status = "idle"
    /\ reads' = [reads EXCEPT ![p] = [NoRead EXCEPT !.status = "route",
                                                    !.must = acked]]
    /\ UNCHANGED <<storeVars, objectVars, workerVars, routeCache, acked,
                   pending, faults>>

\* read_range answered by the route cache, without the database.
RouteCached(p) ==
    /\ reads[p].status = "route"
    /\ routeCache[p] # None
    /\ reads' = [reads EXCEPT ![p].status = "fetch", ![p].key = routeCache[p]]
    /\ UNCHANGED <<storeVars, objectVars, workerVars, routeCache, acked,
                   pending, faults>>

\* Mutant: hot rows are read without looking at the route.
RouteHot_Unrouted(p) ==
    /\ reads[p].status = "route"
    /\ routeCache[p] = None
    /\ reads' = [reads EXCEPT ![p].status = "idle", ![p].result = hot]
    /\ UNCHANGED <<storeVars, objectVars, workerVars, routeCache, acked,
                   pending, faults>>

\* read_range reads route and hot rows in one statement.
RouteHot(p) ==
    /\ reads[p].status = "route"
    /\ routeCache[p] = None
    /\ meta.state # "archived"
    /\ reads' = [reads EXCEPT ![p].status = "idle", ![p].result = hot]
    /\ UNCHANGED <<storeVars, objectVars, workerVars, routeCache, acked,
                   pending, faults>>

RouteArchive(p) ==
    /\ reads[p].status = "route"
    /\ routeCache[p] = None
    /\ meta.state = "archived"
    /\ routeCache' = [routeCache EXCEPT ![p] = meta.objectKey]
    /\ reads' = [reads EXCEPT ![p].status = "fetch", ![p].key = meta.objectKey]
    /\ UNCHANGED <<storeVars, objectVars, workerVars, acked, pending, faults>>

FetchArchive(p) ==
    /\ reads[p].status = "fetch"
    /\ Readable(reads[p].key)
    /\ reads' = [reads EXCEPT ![p].status = "idle",
                              ![p].result = reads[p].key.records]
    /\ UNCHANGED <<storeVars, objectVars, workerVars, routeCache, acked,
                   pending, faults>>

\* The statement or the object read fails and the read returns the error.
ReadFails(p) ==
    /\ reads[p].status # "idle"
    /\ reads' = [reads EXCEPT ![p] = NoRead]
    /\ UNCHANGED <<storeVars, objectVars, workerVars, routeCache, acked,
                   pending, faults>>

\* The route of this bucket is the oldest in a full cache.
EvictRoute(p) ==
    /\ routeCache[p] # None
    /\ Invalidate(p)
    /\ UNCHANGED <<storeVars, objectVars, workerVars, reads, acked, pending,
                   faults>>

-----------------------------------------------------------------------------
\* Steps the worker takes by itself, or at a call with a deadline: transactions
\* and object operations.
WithDeadline(w) ==
    \/ ClaimWon(w) \/ ClaimLost(w)
    \/ Start(w) \/ TakeSnapshot(w) \/ PutPayload(w) \/ PutManifest(w)
    \/ CallCommits(w) \/ CallRefused(w)
    \/ Return(w) \/ Shutdown(w)

\* discover_archive_work and state await a single statement, with no deadline.
WithoutDeadline(w) == Discover(w) \/ ReadState(w)

WorkerProgress(w) == WithDeadline(w) \/ WithoutDeadline(w)

WorkerFault(w) ==
    ClaimFails(w) \/ UploadFails(w) \/ CallFails(w) \/ RenewFails(w) \/ Crash(w)

Heartbeat(w) == Renew(w) \/ RenewRefused(w)

Resolve == \E t \in pending : LateCommit(t) \/ LateRollback(t)

Client(r) == AppendAcked(r) \/ AppendUnknown(r)

Reading(p) ==
    \/ ReadBegin(p) \/ RouteCached(p) \/ RouteHot(p) \/ RouteArchive(p)
    \/ FetchArchive(p) \/ ReadFails(p) \/ EvictRoute(p)

Next ==
    \/ \E w \in Workers : \/ WorkerProgress(w) \/ DirectCall(w)
                          \/ WorkerFault(w) \/ Heartbeat(w)
    \/ Lapse \/ LapseUnderHeartbeat \/ RetryDue
    \/ Resolve
    \/ \E r \in Records : Client(r)
    \/ \E p \in Readers : Reading(p)

Spec == Init /\ [][Next]_vars

\* A step with a deadline ends, in failure if need be, and failures are Faults.
Fairness ==
    /\ \A w \in Workers : WF_vars(WithDeadline(w))
    /\ WF_vars(Lapse)
    /\ WF_vars(RetryDue)
    /\ WF_vars(Resolve)

FairSpec == Spec /\ Fairness

\* What no deadline gives: the database answers single statements.
DatabaseAnswers == \A w \in Workers : WF_vars(WithoutDeadline(w))

-----------------------------------------------------------------------------
(* Correctness. *)

\* The records a reader of the bucket is entitled to.
Contents == IF meta.state = "archived" THEN meta.objectKey.records ELSE hot

\* No acknowledged append is ever lost: whatever workers crashed, lost their
\* lease or published late, the record is in the tier that routing selects.
AckedDurable == acked \subseteq Contents

\* A published key resolves to payload and manifest, and until cleanup the
\* archive and the hot rows are the same records (publish_archive followed
\* by delete_hot_bucket).
PublishedComplete ==
    meta.state = "archived" =>
      /\ Readable(meta.objectKey)
      /\ ~meta.hotDeleted => meta.objectKey.records = hot
      /\ meta.hotDeleted => hot = {}

\* A route cached by any process, or held by a read about to fetch, is the
\* published route of the bucket although no other process invalidates it.
RoutesCoherent ==
    \A w \in Workers :
      /\ routeCache[w] # None =>
           meta.state = "archived" /\ routeCache[w] = meta.objectKey
      /\ w \in Readers /\ reads[w].status = "fetch" =>
           meta.state = "archived" /\ reads[w].key = meta.objectKey

\* A finished read returned every record acknowledged before it began, and
\* nothing that is not in the bucket, whichever tier answered it.
ReadsComplete ==
    \A p \in Readers : reads[p].result # None =>
      reads[p].must \subseteq reads[p].result /\ reads[p].result \subseteq Contents

\* A coordinator that reports a completed archival is right: the hot rows are
\* gone and, if it published in this session, under the key it reports.
ReportedOutcomeTrue ==
    \A w \in Workers : pc[w] = "delete_hot" /\ res[w] = "ok" =>
      meta.hotDeleted /\ (snap[w] # None => meta.objectKey = Key(w))

\* Publication is final: no later step, late commit or takeover reopens the
\* bucket, republishes it under another key, or resurrects deleted rows.
PublicationFinal ==
    [][meta.state = "archived" =>
         /\ meta'.state = "archived"
         /\ meta'.objectKey = meta.objectKey
         /\ meta.hotDeleted => meta'.hotDeleted]_vars

\* Rows leave the hot tier only when a readable archive holds all of them.
RowsLeaveOnlyArchived ==
    [][~(hot \subseteq hot') =>
         /\ meta.state = "archived"
         /\ Readable(meta.objectKey)
         /\ hot \subseteq meta.objectKey.records]_vars

-----------------------------------------------------------------------------
(* Why it holds: the parts of the inductive invariant. *)

\* No session, and no transaction in flight, is of a generation to come.
GenerationsBehind ==
    /\ \A w \in Workers : sess[w] <= meta.generation
    /\ \A t \in pending : t.op = "publish" => t.generation <= meta.generation

\* A session that could still publish holds exactly the hot rows: claiming
\* closes the bucket, and reopening it gives up the generation.
SnapshotsFrozen ==
    /\ \A w \in Workers :
         snap[w] # None /\ OwnsArchiving(Session(w)) => snap[w] = hot
    /\ \A t \in pending :
         t.op = "publish" /\ OwnsArchiving(SessionOf(t)) => t.records = hot

\* A key is only offered for publication once both objects exist.
UploadedBeforePublish ==
    /\ \A w \in Workers :
         /\ pc[w] \in {"manifest", "publish"} => Key(w) \in payloads
         /\ pc[w] = "manifest" /\ res[w] = "ok" => Key(w) \in manifests
         /\ pc[w] = "publish" => Key(w) \in manifests
    /\ \A t \in pending : t.op = "publish" => Readable(KeyOf(t))

\* A worker uploads and publishes a snapshot it took in this session.
SnapshotBeforeUpload ==
    \A w \in Workers :
      /\ pc[w] \in {"idle", "shutdown"} \cup ClaimOps => res[w] = "new"
      /\ pc[w] \in {"idle"} \cup ClaimOps => snap[w] = None
      /\ pc[w] \in {"payload", "manifest", "publish"} => snap[w] # None
      /\ pc[w] = "snapshot" /\ res[w] = "ok" => snap[w] # None

\* The inductive invariant: claims, heartbeats, crashes and late commits all
\* preserve it, and it implies that no acknowledged record is lost.
CutoverInv ==
    /\ TypeOK
    /\ RowShape
    /\ AckedDurable
    /\ PublishedComplete
    /\ GenerationsBehind
    /\ SnapshotsFrozen
    /\ UploadedBeforePublish
    /\ SnapshotBeforeUpload

-----------------------------------------------------------------------------
\* Once faults stop, a bucket with a row is archived and cleaned up, provided
\* the database answers the scans and the state() of the recovery runner.
ArchivalCompletes ==
    DatabaseAnswers => (meta.row ~> (meta.state = "archived" /\ meta.hotDeleted))

\* The one await of a coordinator call that nothing bounds.
AwaitsState(w) == pc[w] = "state" /\ res[w] \in Running

\* Every coordinator call ends, whatever failed inside it, or awaits the answer
\* of the state() a failed publication is followed by: that statement alone has
\* no deadline, and no other worker's silence keeps a call from ending.
CallsEnd ==
    \A w \in Workers : pc[w] # "idle" ~> (pc[w] = "idle" \/ AwaitsState(w))

\* Archival is invisible to clients: the detailed system implements a plain
\* append-only, eventually sealed set with atomic reads.
Logical == INSTANCE LogicalBucket WITH
    contents <- Contents,
    sealed   <- meta.state = "archived",
    answer   <- [p \in Readers |-> reads[p].result],
    NoAnswer <- None

ImplementsLogicalBucket == Logical!Spec
=============================================================================
