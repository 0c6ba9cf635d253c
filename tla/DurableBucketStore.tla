------------------------- MODULE DurableBucketStore -------------------------
(***************************************************************************)
(* The durable store's view of ONE logical bucket: its row in              *)
(* pulpitum_v4_bucket_metadata and its rows in pulpitum_v4_records, with   *)
(* the transactions of CockroachDurableBucketStore that read or write      *)
(* them (src/adapters/cockroach_durable.rs).  Every transaction runs at    *)
(* SERIALIZABLE isolation and touches one bucket only, so each is one      *)
(* atomic step here, named after its method.                               *)
(*                                                                         *)
(* Data abstraction.                                                       *)
(*  - Time.  A lease instant is only ever compared with now(), so a lease  *)
(*    is "none" (SQL NULL), "live" or "lapsed".  archive_next_attempt_at   *)
(*    is only ever tested for "NULL or due", so it is one Boolean.         *)
(*  - The owner token is a fresh UUID per claim.  Here a session is the    *)
(*    claiming worker together with the generation its claim created;      *)
(*    one generation is created by one claim, so the pair is as unique.    *)
(*  - archive_attempts is written and never read, and is left out.         *)
(***************************************************************************)
EXTENDS Naturals

CONSTANTS
    Records,    \* the records clients may append to the bucket
    Workers,    \* processes that claim archival sessions
    None        \* SQL NULL

VARIABLES
    meta,       \* the bucket's metadata row
    hot         \* the bucket's rows in pulpitum_v4_records

storeVars == <<meta, hot>>

\* An archive object key: generation directory plus content digest, so a key
\* determines the records of the object it names.
Keys == [generation : Nat, records : SUBSET Records]

ASSUME NoneAssumption ==
    /\ None \notin Workers
    /\ None \notin Keys
    /\ \A S \in SUBSET Records : None # S

Sessions == [owner : Workers, generation : Nat]

Metadata ==
    [row        : BOOLEAN,
     state      : {"hot", "archiving", "archived"},
     generation : Nat,
     owner      : Workers \cup {None},
     lease      : {"none", "live", "lapsed"},
     objectKey  : Keys \cup {None},
     hotDeleted : BOOLEAN,
     backoff    : BOOLEAN]

\* The column defaults of the table, which are also what every reader assumes
\* of a bucket that has no row yet.
AbsentRow ==
    [row        |-> FALSE,
     state      |-> "hot",
     generation |-> 0,
     owner      |-> None,
     lease      |-> "none",
     objectKey  |-> None,
     hotDeleted |-> FALSE,
     backoff    |-> FALSE]

StoreInit ==
    /\ meta = AbsentRow
    /\ hot = {}

-----------------------------------------------------------------------------
(* Writing records. *)

\* Mutant: the state check only refuses archived buckets.
AppendAllowed_UntilArchived(r) ==
    /\ meta.state # "archived"
    /\ r \notin hot

\* The bucket must be Hot, and the primary key refuses a record twice.
AppendAllowed(r) ==
    /\ meta.state = "hot"
    /\ r \notin hot

Append(r) ==
    /\ AppendAllowed(r)
    /\ meta' = [meta EXCEPT !.row = TRUE]
    /\ hot' = hot \cup {r}

-----------------------------------------------------------------------------
(* Claiming work. *)

Expired == meta.lease = "lapsed"

\* Mutant: any lapsed lease can be taken over, whatever the state.
Claimable_AnyExpired == meta.state = "hot" \/ Expired

\* Mutant: a lapsed session is never taken over.
Claimable_HotOnly == meta.state = "hot"

Claimable == meta.state = "hot" \/ (meta.state = "archiving" /\ Expired)

CutoverDue == meta.row /\ ~meta.backoff /\ Claimable

CleanupDue ==
    /\ meta.state = "archived"
    /\ ~meta.hotDeleted
    /\ ~meta.backoff
    /\ meta.lease # "live"

\* What one scan of discover_archive_work reports for this bucket.
discover_archive_work ==
    (IF CleanupDue THEN {"claim_cleanup"} ELSE {})
      \cup (IF CutoverDue THEN {"claim_archive"} ELSE {})

\* Mutant: the claim keeps the previous generation.
claim_archive_SameGeneration(w) ==
    /\ CutoverDue
    /\ meta' = [meta EXCEPT !.state = "archiving",
                            !.owner = w,
                            !.lease = "live",
                            !.backoff = FALSE,
                            !.objectKey = None,
                            !.hotDeleted = FALSE]
    /\ UNCHANGED hot

claim_archive(w) ==
    /\ CutoverDue
    /\ meta' = [meta EXCEPT !.state = "archiving",
                            !.generation = @ + 1,
                            !.owner = w,
                            !.lease = "live",
                            !.backoff = FALSE,
                            !.objectKey = None,
                            !.hotDeleted = FALSE]
    /\ UNCHANGED hot

claim_cleanup(w) ==
    /\ CleanupDue
    /\ meta' = [meta EXCEPT !.generation = @ + 1,
                            !.owner = w,
                            !.lease = "live",
                            !.backoff = FALSE]
    /\ UNCHANGED hot

\* The direct coordinator's claim: creates the row, ignores and keeps a
\* pending backoff.
begin_archive(w) ==
    /\ Claimable
    /\ meta' = [meta EXCEPT !.row = TRUE,
                            !.state = "archiving",
                            !.generation = @ + 1,
                            !.owner = w,
                            !.lease = "live",
                            !.objectKey = None,
                            !.hotDeleted = FALSE]
    /\ UNCHANGED hot

-----------------------------------------------------------------------------
(* Transactions of a session.  Each repeats the fence in its WHERE clause. *)
(* The remaining conjunct, archive_owner_expires_at > now(), compares with *)
(* the instant the transaction began and is a matter for the caller.       *)

\* Mutant: the fence is left out of the WHERE clause.
Owned_Unfenced(s) == TRUE

Owned(s) == meta.owner = s.owner /\ meta.generation = s.generation

OwnsArchiving(s) == Owned(s) /\ meta.state = "archiving"

\* Mutant: cleanup checks the state and not the session.
OwnsCleanup_AnySession(s) == meta.state = "archived" /\ ~meta.hotDeleted

OwnsCleanup(s) == Owned(s) /\ meta.state = "archived" /\ ~meta.hotDeleted

Renewable(s) == OwnsArchiving(s) \/ OwnsCleanup(s)

renew_archive_lease(s) ==
    /\ Renewable(s)
    /\ meta' = [meta EXCEPT !.lease = "live"]
    /\ UNCHANGED hot

publish_archive(s, key) ==
    /\ OwnsArchiving(s)
    /\ meta' = [meta EXCEPT !.state = "archived",
                            !.objectKey = key,
                            !.hotDeleted = FALSE]
    /\ UNCHANGED hot

delete_hot_bucket(s) ==
    /\ OwnsCleanup(s)
    /\ meta' = [meta EXCEPT !.hotDeleted = TRUE]
    /\ hot' = {}

\* Reopen the bucket and schedule a retry.
defer_archive(s) ==
    /\ OwnsArchiving(s)
    /\ meta' = [meta EXCEPT !.state = "hot",
                            !.owner = None,
                            !.lease = "none",
                            !.objectKey = None,
                            !.hotDeleted = FALSE,
                            !.backoff = TRUE]
    /\ UNCHANGED hot

\* The lease itself becomes the retry instant; owner and generation stay.
defer_cleanup(s) ==
    /\ OwnsCleanup(s)
    /\ meta' = [meta EXCEPT !.lease = "live", !.backoff = TRUE]
    /\ UNCHANGED hot

abort_archive(s) ==
    /\ OwnsArchiving(s)
    /\ meta' = [meta EXCEPT !.state = "hot",
                            !.owner = None,
                            !.lease = "none",
                            !.objectKey = None,
                            !.hotDeleted = FALSE]
    /\ UNCHANGED hot

-----------------------------------------------------------------------------
(* A transaction as a value, for the ones whose COMMIT was not answered.   *)
(* "records" is the snapshot behind a published key, or the one record of  *)
(* an append; "attempt" tells two attempts of the same call apart.         *)

ClaimOps   == {"claim_archive", "claim_cleanup", "begin_archive"}
ArchiveOps == {"publish", "defer_archive", "abort"}
CleanupOps == {"delete_hot", "defer_cleanup"}
SessionOps == ArchiveOps \cup CleanupOps \cup {"renew"}

Transactions ==
    [op         : ClaimOps \cup SessionOps,
     owner      : Workers,
     generation : Nat,
     records    : SUBSET Records,
     attempt    : Nat]
      \cup
    [op         : {"append"},
     owner      : {None},
     generation : {0},
     records    : SUBSET Records,
     attempt    : Nat]

SessionOf(t) == [owner |-> t.owner, generation |-> t.generation]

KeyOf(t) == [generation |-> t.generation, records |-> t.records]

\* Whether transaction t changes the bucket rather than being refused.
Admits(t) ==
    \/ t.op = "append" /\ \A r \in t.records : AppendAllowed(r)
    \/ t.op = "claim_archive" /\ CutoverDue
    \/ t.op = "claim_cleanup" /\ CleanupDue
    \/ t.op = "begin_archive" /\ Claimable
    \/ t.op \in ArchiveOps /\ OwnsArchiving(SessionOf(t))
    \/ t.op \in CleanupOps /\ OwnsCleanup(SessionOf(t))
    \/ t.op = "renew" /\ Renewable(SessionOf(t))

Commit(t) ==
    \/ t.op = "append" /\ \E r \in t.records : Append(r)
    \/ t.op = "claim_archive" /\ claim_archive(t.owner)
    \/ t.op = "claim_cleanup" /\ claim_cleanup(t.owner)
    \/ t.op = "begin_archive" /\ begin_archive(t.owner)
    \/ t.op = "publish" /\ publish_archive(SessionOf(t), KeyOf(t))
    \/ t.op = "delete_hot" /\ delete_hot_bucket(SessionOf(t))
    \/ t.op = "defer_archive" /\ defer_archive(SessionOf(t))
    \/ t.op = "defer_cleanup" /\ defer_cleanup(SessionOf(t))
    \/ t.op = "abort" /\ abort_archive(SessionOf(t))
    \/ t.op = "renew" /\ renew_archive_lease(SessionOf(t))

-----------------------------------------------------------------------------
(* The clock. *)

LeaseLapses ==
    /\ meta.lease = "live"
    /\ meta' = [meta EXCEPT !.lease = "lapsed"]
    /\ UNCHANGED hot

BackoffElapses ==
    /\ meta.backoff
    /\ meta' = [meta EXCEPT !.backoff = FALSE]
    /\ UNCHANGED hot

-----------------------------------------------------------------------------
(* The CHECK constraint pulpitum_v4_metadata_invariants, with what the     *)
(* code adds to it: an archived row keeps a lease, and a bucket without a  *)
(* row has never been claimed or written.                                  *)
RowShape ==
    /\ meta.state = "hot" =>
         /\ meta.owner = None /\ meta.lease = "none"
         /\ meta.objectKey = None /\ ~meta.hotDeleted
    /\ meta.state = "archiving" =>
         /\ meta.owner # None /\ meta.lease # "none"
         /\ meta.objectKey = None /\ ~meta.hotDeleted
    /\ meta.state = "archived" =>
         /\ meta.owner # None /\ meta.lease # "none"
         /\ meta.objectKey # None
    /\ ~meta.row =>
         meta.state = "hot" /\ meta.generation = 0 /\ hot = {}
=============================================================================
