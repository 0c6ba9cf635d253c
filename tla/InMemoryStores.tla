--------------------------- MODULE InMemoryStores ---------------------------
(***************************************************************************)
(* InMemoryDurableBucketStore and InMemoryArchiveStore                     *)
(* (src/ports/storage.rs), the stores that the unit tests run on, for one  *)
(* bucket and any callers: every session that was ever handed out may be   *)
(* used at any time.  Each method holds the lock throughout and is one     *)
(* step.                                                                   *)
(*                                                                         *)
(* Every claim mints a fresh token.  A vector of records in clustering     *)
(* order is the number of copies of each.                                  *)
(***************************************************************************)
EXTENDS Naturals, FiniteSets

CONSTANTS
    Records,
    Tokens,         \* the UUIDs that claims mint
    MaxCopies,      \* bound on the appends of one record
    None

ASSUME InMemoryAssumption ==
    /\ IsFiniteSet(Tokens)
    /\ MaxCopies \in Nat
    /\ None \notin Tokens /\ None \notin Nat
    /\ None \notin [Records -> 0..MaxCopies]
    /\ None \notin [generation : Nat, records : SUBSET Records]

VARIABLES
    entry,      \* the bucket's DurableBucketEntry
    objects,    \* the archive: the content stored under each object key
    minted,     \* the generation of each token's session, 0 before
    snaps,      \* the snapshot that each session's holder has taken
    acked       \* history: how often each record was appended

vars == <<entry, objects, minted, snaps, acked>>

Generations == 1..Cardinality(Tokens)
Copies == [Records -> 0..MaxCopies]
NoRecords == [r \in Records |-> 0]

TypeOK ==
    /\ entry \in [present : BOOLEAN, state : {"hot", "archiving", "archived"},
                  hotDeleted : BOOLEAN, objectKey : Generations \cup {None},
                  generation : Generations \cup {0}, owner : Tokens \cup {None},
                  lease : {"none", "live", "lapsed"}, backoff : BOOLEAN,
                  records : Copies]
    /\ objects \in [Generations -> Copies \cup {None}]
    /\ minted \in [Tokens -> Generations \cup {0}]
    /\ snaps \in [Tokens -> Copies \cup {None}]
    /\ acked \in Copies

Init ==
    /\ entry = [present |-> FALSE, state |-> "hot", hotDeleted |-> FALSE,
                objectKey |-> None, generation |-> 0, owner |-> None,
                lease |-> "none", backoff |-> FALSE, records |-> NoRecords]
    /\ objects = [g \in Generations |-> None]
    /\ minted = [w \in Tokens |-> 0]
    /\ snaps = [w \in Tokens |-> None]
    /\ acked = NoRecords

-----------------------------------------------------------------------------
lease_expired == entry.lease # "live"
attempt_due == ~entry.backoff

\* Mutant: any session that was ever handed out passes.
validate_active_session_Any(w) == minted[w] # 0

validate_active_session(w) ==
    /\ minted[w] # 0
    /\ entry.generation = minted[w]
    /\ entry.owner = w
    /\ ~lease_expired

OwnsArchiving(w) == entry.state = "archiving" /\ validate_active_session(w)

OwnsCleanup(w) ==
    /\ entry.state = "archived" /\ ~entry.hotDeleted
    /\ validate_active_session(w)

-----------------------------------------------------------------------------
append(r) ==
    /\ entry.state = "hot"
    /\ acked[r] < MaxCopies
    /\ entry' = [entry EXCEPT !.present = TRUE, !.records[r] = @ + 1]
    /\ acked' = [acked EXCEPT ![r] = @ + 1]
    /\ UNCHANGED <<objects, minted, snaps>>

\* A new session; whatever retry was scheduled is forgotten.
Mint(w, state) ==
    /\ minted[w] = 0
    /\ entry' = [entry EXCEPT !.present = TRUE, !.state = state,
                              !.generation = @ + 1, !.owner = w,
                              !.lease = "live", !.backoff = FALSE]
    /\ minted' = [minted EXCEPT ![w] = entry.generation + 1]
    /\ UNCHANGED <<objects, snaps, acked>>

\* A bucket that has no entry is claimed as an empty hot one.
claim_archive(w) ==
    /\ attempt_due
    /\ entry.state = "hot" \/ (entry.state = "archiving" /\ lease_expired)
    /\ Mint(w, "archiving")

claim_cleanup(w) ==
    /\ entry.state = "archived" /\ ~entry.hotDeleted
    /\ attempt_due
    /\ lease_expired
    /\ Mint(w, "archived")

\* Unlike CockroachDB's, this one never takes a lapsed session over.
begin_archive(w) ==
    /\ entry.state = "hot"
    /\ Mint(w, "archiving")

Change(new) == entry' = new /\ UNCHANGED <<objects, minted, snaps, acked>>

\* Succeeds after the hot bucket's deletion too, unlike CockroachDB's.
renew_archive_lease(w) ==
    /\ validate_active_session(w)
    /\ Change([entry EXCEPT !.lease = "live"])

defer_archive(w) ==
    /\ OwnsArchiving(w)
    /\ Change([entry EXCEPT !.state = "hot", !.owner = None, !.lease = "none",
                            !.backoff = TRUE])

defer_cleanup(w) ==
    /\ OwnsCleanup(w)
    /\ Change([entry EXCEPT !.lease = "live", !.backoff = TRUE])

snapshot(w) ==
    /\ OwnsArchiving(w)
    /\ snaps' = [snaps EXCEPT ![w] = entry.records]
    /\ UNCHANGED <<entry, objects, minted, acked>>

\* Mutant: the key of put_bucket, which is the same for every generation.
ObjectKey_Legacy(w) == 1

\* The key that put_bucket_generation stores under and returns.
ObjectKey(w) == minted[w]

\* The archive asks for no session, and overwrites.
put_bucket_generation(w) ==
    /\ snaps[w] # None
    /\ objects' = [objects EXCEPT ![ObjectKey(w)] = snaps[w]]
    /\ UNCHANGED <<entry, minted, snaps, acked>>

publish_archive(w) ==
    /\ OwnsArchiving(w)
    /\ snaps[w] # None /\ objects[ObjectKey(w)] # None
    /\ Change([entry EXCEPT !.state = "archived", !.hotDeleted = FALSE,
                            !.objectKey = ObjectKey(w)])

delete_hot_bucket(w) ==
    /\ OwnsCleanup(w)
    /\ Change([entry EXCEPT !.hotDeleted = TRUE, !.records = NoRecords])

abort_archive(w) ==
    /\ OwnsArchiving(w)
    /\ Change([entry EXCEPT !.state = "hot", !.owner = None, !.lease = "none",
                            !.backoff = FALSE])

LeaseLapses ==
    /\ entry.lease = "live"
    /\ Change([entry EXCEPT !.lease = "lapsed"])

BackoffElapses ==
    /\ entry.backoff
    /\ Change([entry EXCEPT !.backoff = FALSE])

-----------------------------------------------------------------------------
Next ==
    \/ \E r \in Records : append(r)
    \/ \E w \in Tokens :
         \/ claim_archive(w) \/ claim_cleanup(w) \/ begin_archive(w)
         \/ snapshot(w) \/ put_bucket_generation(w) \/ publish_archive(w)
         \/ delete_hot_bucket(w) \/ defer_archive(w) \/ defer_cleanup(w)
         \/ abort_archive(w) \/ renew_archive_lease(w)
    \/ LeaseLapses \/ BackoffElapses

Spec == Init /\ [][Next]_vars

-----------------------------------------------------------------------------
(* Correctness. *)

\* What read_range followed by get_bucket returns.
Visible == IF entry.state = "archived" THEN objects[entry.objectKey] ELSE entry.records

\* Readers see every appended record exactly as often as it was appended,
\* although sessions that were replaced go on uploading and publishing.
VisibleExact == Visible = acked

\* The records that have copies.
Stored(copies) == {r \in Records : copies[r] > 0}

\* The entry as CockroachDB's row, but for archive_next_attempt_at.
Row(b) ==
    [row        |-> entry.present,
     state      |-> entry.state,
     generation |-> entry.generation,
     owner      |-> entry.owner,
     lease      |-> entry.lease,
     objectKey  |-> IF entry.objectKey = None THEN None
                    ELSE [generation |-> entry.objectKey,
                          records    |-> Stored(objects[entry.objectKey])],
     hotDeleted |-> entry.hotDeleted,
     backoff    |-> b]

Cockroach(b) == INSTANCE DurableBucketStore WITH
    Workers <- Tokens,
    meta    <- Row(b),
    hot     <- Stored(entry.records)

\* A session's holder calls CockroachDB's store.
CockroachCall(b, w) ==
    LET s == [owner |-> w, generation |-> minted[w]]
    IN  \/ Cockroach(b)!claim_archive(w) \/ Cockroach(b)!claim_cleanup(w)
        \/ Cockroach(b)!begin_archive(w)
        \/ /\ snaps[w] # None
           /\ Cockroach(b)!publish_archive(s, [generation |-> minted[w],
                                               records |-> Stored(snaps[w])])
        \/ Cockroach(b)!delete_hot_bucket(s) \/ Cockroach(b)!defer_archive(s)
        \/ Cockroach(b)!defer_cleanup(s) \/ Cockroach(b)!abort_archive(s)

CockroachStep(b) ==
    \/ \E r \in Records : Cockroach(b)!Append(r)
    \/ \E w \in Tokens : CockroachCall(b, w)
    \/ Cockroach(b)!LeaseLapses
    \/ UNCHANGED <<Row(b), Stored(entry.records)>>

\* What a test sees on these stores, CockroachDB's store can do: every step is
\* a step of DurableBucketStore with its invariants, retry instants (which
\* begin_archive and abort_archive forget here and keep there) and duplicate
\* appends (refused there) left aside.
ConformsToCockroach ==
    [][\E b \in BOOLEAN : CockroachStep(b) /\ Cockroach(b)!RowShape']_vars
=============================================================================
