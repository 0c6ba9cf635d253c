------------------------ MODULE ArchiveCutoverProofs ------------------------
(***************************************************************************)
(* Proofs about ArchiveCutover, for any number of records, workers and     *)
(* readers and any number of faults.                                       *)
(*                                                                         *)
(* The argument has two layers.  The first is about the store alone: what  *)
(* one transaction (Commit) or the clock may do to the bucket's row and    *)
(* records, reduced to seven effects.  The second follows the workers: a   *)
(* step of the system makes at most one store step, and otherwise moves a  *)
(* worker along its program.                                               *)
(***************************************************************************)
EXTENDS ArchiveCutover, TLAPS

-----------------------------------------------------------------------------
(* The effects a store step can have, field by field. *)

\* Nothing but the lease or the backoff changes.
Touched ==
    /\ meta'.state = meta.state
    /\ meta'.generation = meta.generation
    /\ meta'.owner = meta.owner
    /\ meta'.objectKey = meta.objectKey
    /\ meta'.hotDeleted = meta.hotDeleted
    /\ meta'.row = meta.row
    /\ meta'.lease = "none" <=> meta.lease = "none"
    /\ hot' = hot

\* One record is added to an open bucket.
Grown ==
    /\ meta.state = "hot"
    /\ meta'.state = meta.state
    /\ meta'.generation = meta.generation
    /\ meta'.owner = meta.owner
    /\ meta'.lease = meta.lease
    /\ meta'.objectKey = meta.objectKey
    /\ meta'.hotDeleted = meta.hotDeleted
    /\ meta'.row
    /\ \E r \in Records \ hot : hot' = hot \cup {r}

\* A new session closes the bucket.
Claimed ==
    /\ meta.state # "archived"
    /\ meta'.state = "archiving"
    /\ meta'.generation = meta.generation + 1
    /\ meta'.owner \in Workers
    /\ meta'.lease = "live"
    /\ meta'.objectKey = None
    /\ ~meta'.hotDeleted
    /\ meta'.row
    /\ hot' = hot

\* A new session takes over the cleanup of a published bucket.
CleanupClaimed ==
    /\ meta.state = "archived"
    /\ meta'.state = "archived"
    /\ meta'.generation = meta.generation + 1
    /\ meta'.owner \in Workers
    /\ meta'.lease = "live"
    /\ meta'.objectKey = meta.objectKey
    /\ meta'.hotDeleted = meta.hotDeleted
    /\ meta'.row = meta.row
    /\ hot' = hot

\* The key of transaction t is published.
Published(t) ==
    /\ OwnsArchiving(SessionOf(t))
    /\ meta'.state = "archived"
    /\ meta'.generation = meta.generation
    /\ meta'.owner = meta.owner
    /\ meta'.lease = meta.lease
    /\ meta'.objectKey = KeyOf(t)
    /\ ~meta'.hotDeleted
    /\ meta'.row = meta.row
    /\ hot' = hot

\* The bucket takes appends again.
Reopened ==
    /\ meta.state = "archiving"
    /\ meta'.state = "hot"
    /\ meta'.generation = meta.generation
    /\ meta'.owner = None
    /\ meta'.lease = "none"
    /\ meta'.objectKey = None
    /\ ~meta'.hotDeleted
    /\ meta'.row = meta.row
    /\ hot' = hot

\* The hot rows of a published bucket are deleted.
Cleaned ==
    /\ meta.state = "archived"
    /\ meta'.state = "archived"
    /\ meta'.generation = meta.generation
    /\ meta'.owner = meta.owner
    /\ meta'.lease = meta.lease
    /\ meta'.objectKey = meta.objectKey
    /\ meta'.hotDeleted
    /\ meta'.row = meta.row
    /\ hot' = {}

\* A step of the store: nothing, one transaction, or the clock.
StoreStep(t) ==
    \/ UNCHANGED storeVars
    \/ Commit(t)
    \/ LeaseLapses
    \/ BackoffElapses

-----------------------------------------------------------------------------
(* The store layer. *)

\* Each transaction of cockroach_durable.rs has one of the seven effects.
LEMMA StoreStepEffect ==
    ASSUME meta \in Metadata, hot \subseteq Records, RowShape,
           NEW t \in Transactions, StoreStep(t)
    PROVE  /\ meta' \in Metadata
           /\ hot' \subseteq Records
           /\ \/ Touched \/ Grown \/ Claimed \/ CleanupClaimed
              \/ (t.op = "publish" /\ Published(t)) \/ Reopened \/ Cleaned
<1> USE DEF Transactions
<1>1. CASE UNCHANGED storeVars
  BY <1>1 DEF storeVars, Touched
<1>2. ASSUME NEW r \in t.records, Append(r)
      PROVE  meta' \in Metadata /\ hot' \subseteq Records /\ Grown
  <2>1. r \in Records
    OBVIOUS
  <2> QED
    BY <1>2, <2>1 DEF Append, AppendAllowed, Metadata, Grown
<1>3. meta.generation + 1 \in Nat
  BY DEF Metadata
<1>4. KeyOf(t) \in Keys
  BY DEF KeyOf, Keys
<1>5. SessionOf(t).owner = t.owner /\ SessionOf(t).generation = t.generation
  BY DEF SessionOf
<1> HIDE DEF Transactions
<1>6. ASSUME t.owner \in Workers, claim_archive(t.owner)
      PROVE  meta' \in Metadata /\ hot' \subseteq Records /\ Claimed
  <2>1. meta' \in Metadata
    BY <1>6, <1>3 DEF claim_archive, Metadata
  <2>2. hot' \subseteq Records
    BY <1>6 DEF claim_archive
  <2>3. Claimed
    BY <1>6, <1>3 DEF claim_archive, CutoverDue, Claimable, Metadata, Claimed
  <2> QED
    BY <2>1, <2>2, <2>3
<1>7. ASSUME t.owner \in Workers, claim_cleanup(t.owner)
      PROVE  meta' \in Metadata /\ hot' \subseteq Records /\ CleanupClaimed
  <2>1. meta' \in Metadata
    BY <1>7, <1>3 DEF claim_cleanup, Metadata
  <2>2. hot' \subseteq Records
    BY <1>7 DEF claim_cleanup
  <2>3. CleanupClaimed
    BY <1>7, <1>3 DEF claim_cleanup, CleanupDue, Metadata, CleanupClaimed
  <2> QED
    BY <2>1, <2>2, <2>3
<1>8. ASSUME t.owner \in Workers, begin_archive(t.owner)
      PROVE  meta' \in Metadata /\ hot' \subseteq Records /\ Claimed
  <2>1. meta' \in Metadata
    BY <1>8, <1>3 DEF begin_archive, Metadata
  <2>2. hot' \subseteq Records
    BY <1>8 DEF begin_archive
  <2>3. Claimed
    BY <1>8, <1>3 DEF begin_archive, Claimable, Metadata, Claimed
  <2> QED
    BY <2>1, <2>2, <2>3
<1>9. ASSUME publish_archive(SessionOf(t), KeyOf(t))
      PROVE  meta' \in Metadata /\ hot' \subseteq Records /\ Published(t)
  <2>1. meta' \in Metadata
    BY <1>9, <1>4 DEF publish_archive, Metadata
  <2>2. hot' \subseteq Records
    BY <1>9 DEF publish_archive
  <2>3. Published(t)
    BY <1>9, <1>4 DEF publish_archive, Metadata, Published
  <2> QED
    BY <2>1, <2>2, <2>3
<1>10. CASE delete_hot_bucket(SessionOf(t))
  <2>1. meta' \in Metadata
    BY <1>10 DEF delete_hot_bucket, Metadata
  <2>2. hot' \subseteq Records
    BY <1>10 DEF delete_hot_bucket
  <2>3. Cleaned
    BY <1>10 DEF delete_hot_bucket, OwnsCleanup, Metadata, Cleaned
  <2> QED
    BY <2>1, <2>2, <2>3
<1>11. CASE defer_archive(SessionOf(t))
  <2>1. meta' \in Metadata
    BY <1>11 DEF defer_archive, Metadata
  <2>2. hot' \subseteq Records
    BY <1>11 DEF defer_archive
  <2>3. Reopened
    BY <1>11 DEF defer_archive, OwnsArchiving, Metadata, Reopened
  <2> QED
    BY <2>1, <2>2, <2>3
<1>12. CASE abort_archive(SessionOf(t))
  <2>1. meta' \in Metadata
    BY <1>12 DEF abort_archive, Metadata
  <2>2. hot' \subseteq Records
    BY <1>12 DEF abort_archive
  <2>3. Reopened
    BY <1>12 DEF abort_archive, OwnsArchiving, Metadata, Reopened
  <2> QED
    BY <2>1, <2>2, <2>3
<1>13. CASE defer_cleanup(SessionOf(t))
  <2>1. meta' \in Metadata
    BY <1>13 DEF defer_cleanup, Metadata
  <2>2. hot' \subseteq Records
    BY <1>13 DEF defer_cleanup
  <2>3. Touched
    BY <1>13 DEF defer_cleanup, OwnsCleanup, RowShape, Metadata, Touched
  <2> QED
    BY <2>1, <2>2, <2>3
<1>14. CASE renew_archive_lease(SessionOf(t))
  <2>1. meta' \in Metadata
    BY <1>14 DEF renew_archive_lease, Metadata
  <2>2. hot' \subseteq Records
    BY <1>14 DEF renew_archive_lease
  <2>3. Touched
    BY <1>14 DEF renew_archive_lease, Renewable, OwnsCleanup, OwnsArchiving, RowShape, Metadata, Touched
  <2> QED
    BY <2>1, <2>2, <2>3
<1>15. CASE LeaseLapses
  <2>1. meta' \in Metadata
    BY <1>15 DEF LeaseLapses, Metadata
  <2>2. hot' \subseteq Records
    BY <1>15 DEF LeaseLapses
  <2>3. Touched
    BY <1>15 DEF LeaseLapses, Metadata, Touched
  <2> QED
    BY <2>1, <2>2, <2>3
<1>16. CASE BackoffElapses
  <2>1. meta' \in Metadata
    BY <1>16 DEF BackoffElapses, Metadata
  <2>2. hot' \subseteq Records
    BY <1>16 DEF BackoffElapses
  <2>3. Touched
    BY <1>16 DEF BackoffElapses, Metadata, Touched
  <2> QED
    BY <2>1, <2>2, <2>3
<1>17. t.op \in ClaimOps => t.owner \in Workers
  BY DEF Transactions, ClaimOps
<1> QED
  BY <1>1, <1>2, <1>6, <1>7, <1>8, <1>9, <1>10, <1>11, <1>12, <1>13, <1>14, <1>15, <1>16, <1>17
     DEF StoreStep, Commit, ClaimOps

\* A store step whose publication, if it is one, is of uploaded and current
\* records keeps the CHECK constraint, keeps the published archive complete,
\* and never removes a record from what readers are entitled to.
LEMMA StoreStepSafe ==
    ASSUME meta \in Metadata, hot \subseteq Records, RowShape,
           PublishedComplete,
           NEW t \in Transactions, StoreStep(t),
           payloads \subseteq payloads', manifests \subseteq manifests',
           t.op = "publish" =>
             /\ Readable(KeyOf(t))
             /\ OwnsArchiving(SessionOf(t)) => t.records = hot
    PROVE  RowShape' /\ PublishedComplete' /\ Contents \subseteq Contents'
<1>1. KeyOf(t) \in Keys /\ KeyOf(t).records = t.records
  BY DEF Transactions, KeyOf, Keys
<1>2. CASE Touched
  BY <1>2 DEF Touched, RowShape, PublishedComplete, Contents, Readable
<1>3. CASE Grown
  BY <1>3 DEF Grown, RowShape, PublishedComplete, Contents
<1>4. CASE Claimed
  BY <1>4, NoneAssumption DEF Claimed, RowShape, PublishedComplete, Contents
<1>5. CASE CleanupClaimed
  BY <1>5, NoneAssumption DEF CleanupClaimed, RowShape, PublishedComplete,
     Contents, Readable
<1>6. CASE t.op = "publish" /\ Published(t)
  BY <1>1, <1>6, NoneAssumption DEF Published, OwnsArchiving, RowShape,
     PublishedComplete, Contents, Readable
<1>7. CASE Reopened
  BY <1>7 DEF Reopened, RowShape, PublishedComplete, Contents
<1>8. CASE Cleaned
  BY <1>8 DEF Cleaned, RowShape, PublishedComplete, Contents, Readable
<1> QED
  BY <1>2, <1>3, <1>4, <1>5, <1>6, <1>7, <1>8, StoreStepEffect

\* The generation never decreases, and a session that may publish after the
\* step is either of the new generation or could publish before it, with the
\* very same hot rows: an archiving bucket is closed to appends.
LEMMA ArchivingIsFrozen ==
    ASSUME meta \in Metadata, hot \subseteq Records, RowShape,
           NEW t \in Transactions, StoreStep(t)
    PROVE  /\ meta.generation <= meta'.generation
           /\ \A s \in Sessions :
                OwnsArchiving(s)' =>
                  \/ s.generation = meta.generation + 1
                  \/ OwnsArchiving(s) /\ hot' = hot
<1>1. meta.generation \in Nat
  BY DEF Metadata
<1>2. CASE Touched
  BY <1>1, <1>2 DEF Touched, OwnsArchiving, Owned
<1>3. CASE Grown
  BY <1>1, <1>3 DEF Grown, OwnsArchiving, Owned
<1>4. CASE Claimed
  BY <1>1, <1>4 DEF Claimed, OwnsArchiving, Owned
<1>5. CASE CleanupClaimed
  BY <1>1, <1>5 DEF CleanupClaimed, OwnsArchiving, Owned
<1>6. CASE Published(t)
  BY <1>1, <1>6 DEF Published, OwnsArchiving, Owned
<1>7. CASE Reopened
  BY <1>1, <1>7 DEF Reopened, OwnsArchiving, Owned
<1>8. CASE Cleaned
  BY <1>1, <1>8 DEF Cleaned, OwnsArchiving, Owned
<1> QED
  BY <1>2, <1>3, <1>4, <1>5, <1>6, <1>7, <1>8, StoreStepEffect

-----------------------------------------------------------------------------
(* The worker layer: what a worker may ask of the store. *)

\* The transaction a worker awaits is well-typed; if it publishes, its key
\* was uploaded, and while its session is current holds all hot rows.
LEMMA RequestSound ==
    ASSUME CutoverInv, NEW w \in Workers, pc[w] \in ClaimOps \cup WriteOps
    PROVE  /\ Request(w) \in Transactions
           /\ Request(w).op = pc[w]
           /\ Request(w).op = "publish" =>
                /\ Readable(KeyOf(Request(w)))
                /\ OwnsArchiving(SessionOf(Request(w))) =>
                     Request(w).records = hot
           /\ Request(w).generation <= meta.generation
<1>1. pc[w] = "publish" => snap[w] \in SUBSET Records
  BY DEF CutoverInv, TypeOK, SnapshotBeforeUpload
<1>2. sess[w] \in Nat /\ faults \in Nat
  BY DEF CutoverInv, TypeOK
<1>3. Request(w) \in Transactions
  BY <1>1, <1>2 DEF Request, Transactions, WriteOps, SessionOps
<1>4. Request(w).op = pc[w] /\ Request(w).generation = sess[w]
  BY DEF Request
<1>5. ASSUME pc[w] = "publish"
      PROVE  /\ KeyOf(Request(w)) = Key(w)
             /\ SessionOf(Request(w)) = Session(w)
             /\ Request(w).records = snap[w]
  BY <1>5 DEF Request, KeyOf, Key, SessionOf, Session
<1>6. ASSUME pc[w] = "publish"
      PROVE  /\ Readable(Key(w))
             /\ OwnsArchiving(Session(w)) => snap[w] = hot
  BY <1>6 DEF CutoverInv, UploadedBeforePublish, Readable, SnapshotsFrozen,
     SnapshotBeforeUpload
<1>7. sess[w] <= meta.generation
  BY DEF CutoverInv, GenerationsBehind
<1> QED
  BY <1>3, <1>4, <1>5, <1>6, <1>7

\* The other requests are never publications.
LEMMA OtherRequests ==
    ASSUME CutoverInv
    PROVE  /\ \A w \in Workers :
                RenewRequest(w) \in Transactions /\ RenewRequest(w).op = "renew"
           /\ \A r \in Records :
                AppendRequest(r) \in Transactions /\ AppendRequest(r).op = "append"
<1>1. faults \in Nat
  BY DEF CutoverInv, TypeOK
<1>2. ASSUME NEW w \in Workers
      PROVE  RenewRequest(w) \in Transactions /\ RenewRequest(w).op = "renew"
  <2>1. sess[w] \in Nat
    BY DEF CutoverInv, TypeOK
  <2> QED
    BY <1>1, <2>1 DEF RenewRequest, Request, Transactions, SessionOps
<1>3. ASSUME NEW r \in Records
      PROVE  AppendRequest(r) \in Transactions /\ AppendRequest(r).op = "append"
  BY <1>1, <1>3 DEF AppendRequest, Transactions
<1> QED
  BY <1>2, <1>3

\* A transaction in flight is as sound as a request.
LEMMA PendingSound ==
    ASSUME CutoverInv, NEW t \in pending
    PROVE  /\ t \in Transactions
           /\ t.op = "publish" =>
                /\ Readable(KeyOf(t))
                /\ OwnsArchiving(SessionOf(t)) => t.records = hot
                /\ t.generation <= meta.generation
  BY DEF CutoverInv, TypeOK, UploadedBeforePublish, SnapshotsFrozen,
     GenerationsBehind

-----------------------------------------------------------------------------
(* Initially the invariant holds. *)

\* No row, no session, no object: every part holds trivially.
LEMMA InitInv == Init => CutoverInv
<1> SUFFICES ASSUME Init PROVE CutoverInv
  OBVIOUS
<1> USE DEF Init, StoreInit, ObjectInit, AbsentRow
<1>1. TypeOK
  BY FaultsAssumption, NoneAssumption DEF TypeOK, Metadata, Read, NoRead
<1>2. RowShape /\ AckedDurable /\ PublishedComplete
  BY DEF RowShape, AckedDurable, PublishedComplete, Contents
<1>3. GenerationsBehind /\ SnapshotsFrozen
  BY DEF GenerationsBehind, SnapshotsFrozen
<1>4. UploadedBeforePublish /\ SnapshotBeforeUpload
  BY DEF UploadedBeforePublish, SnapshotBeforeUpload, ClaimOps
<1> QED
  BY <1>1, <1>2, <1>3, <1>4 DEF CutoverInv

-----------------------------------------------------------------------------
(* What one step of the system does to the shared state, whichever action  *)
(* it is.                                                                  *)

\* A publication is of uploaded records, which are the hot rows as long as
\* its session is current.
Sound(t) ==
    t.op = "publish" =>
      /\ Readable(KeyOf(t))
      /\ OwnsArchiving(SessionOf(t)) => t.records = hot
      /\ t.generation <= meta.generation

StoreMoves == \E t \in Transactions : StoreStep(t) /\ Sound(t)

ObjectsMove == payloads \subseteq payloads' /\ manifests \subseteq manifests'

AckedMoves ==
    acked' = acked \/ \E r \in Records : Append(r) /\ acked' = acked \cup {r}

\* A worker keeps its session, ends it, wins one, or takes its snapshot.
SessionMoves(w) ==
    \/ sess'[w] = sess[w] /\ snap'[w] = snap[w]
    \/ sess'[w] = 0 /\ snap'[w] = None
    \/ sess'[w] = meta'.generation /\ snap'[w] = None
    \/ /\ UNCHANGED storeVars /\ meta.state = "archiving"
       /\ sess'[w] = sess[w] /\ snap'[w] = hot

PendingMoves ==
    \A t \in pending' :
      t \in pending \/ (t \in Transactions /\ UNCHANGED storeVars /\ Sound(t))

SharedMoves ==
    /\ StoreMoves
    /\ ObjectsMove
    /\ AckedMoves
    /\ \A w \in Workers : SessionMoves(w)
    /\ PendingMoves

\* Steps that leave the store alone and put nothing in flight.
LEMMA QuietMoves ==
    ASSUME CutoverInv, UNCHANGED <<storeVars, acked>>, pending' \subseteq pending,
           ObjectsMove, \A w \in Workers : SessionMoves(w)
    PROVE  SharedMoves
<1> DEFINE t == [op |-> "append", owner |-> None, generation |-> 0,
                 records |-> {}, attempt |-> 0]
<1>1. t \in Transactions /\ t.op = "append"
  BY DEF Transactions
<1>2. StoreMoves
  BY <1>1 DEF StoreMoves, StoreStep, Sound
<1> QED
  BY <1>2 DEF SharedMoves, AckedMoves, PendingMoves

\* Steps that leave the store alone and put one request in flight.
LEMMA UnansweredMoves ==
    ASSUME CutoverInv, UNCHANGED <<storeVars, acked, objectVars>>,
           NEW t \in Transactions, Sound(t), pending' \subseteq pending \cup {t},
           \A w \in Workers : SessionMoves(w)
    PROVE  SharedMoves
<1>1. StoreMoves
  BY DEF StoreMoves, StoreStep
<1>2. ObjectsMove
  BY DEF ObjectsMove, objectVars
<1> QED
  BY <1>1, <1>2 DEF SharedMoves, AckedMoves, PendingMoves

\* Steps that commit one transaction.
LEMMA CommitMoves ==
    ASSUME CutoverInv, UNCHANGED objectVars, pending' \subseteq pending,
           NEW t \in Transactions, Sound(t), StoreStep(t), AckedMoves,
           \A w \in Workers : SessionMoves(w)
    PROVE  SharedMoves
<1>1. StoreMoves
  BY DEF StoreMoves
<1>2. ObjectsMove
  BY DEF ObjectsMove, objectVars
<1> QED
  BY <1>1, <1>2 DEF SharedMoves, PendingMoves

\* The steps of a worker's program that commit nothing.
LEMMA QuietWorkerMoves ==
    ASSUME CutoverInv, NEW w \in Workers,
           \/ Discover(w) \/ DirectCall(w) \/ ClaimLost(w) \/ Start(w)
           \/ TakeSnapshot(w) \/ PutPayload(w) \/ PutManifest(w)
           \/ UploadFails(w) \/ CallRefused(w) \/ ReadState(w) \/ Return(w)
           \/ Shutdown(w) \/ RenewRefused(w)
    PROVE  SharedMoves
<1> USE DEF objectVars
<1>1. ASSUME UNCHANGED <<sess, snap>>
      PROVE  \A v \in Workers : SessionMoves(v)
  BY <1>1 DEF SessionMoves
<1>2. ASSUME UNCHANGED objectVars
      PROVE  ObjectsMove
  BY <1>2 DEF ObjectsMove
<1>3. CASE Discover(w)
  BY <1>1, <1>2, <1>3, QuietMoves DEF Discover
<1>4. CASE DirectCall(w)
  BY <1>1, <1>2, <1>4, QuietMoves DEF DirectCall
<1>5. CASE ClaimLost(w)
  BY <1>1, <1>2, <1>5, QuietMoves DEF ClaimLost
<1>6. CASE Start(w)
  BY <1>1, <1>2, <1>6, QuietMoves DEF Start
<1>7. CASE TakeSnapshot(w)
  <2>1. \A v \in Workers : SessionMoves(v)
    BY <1>7 DEF TakeSnapshot, OwnsArchiving, SessionMoves, CutoverInv, TypeOK
  <2> QED
    BY <1>2, <1>7, <2>1, QuietMoves DEF TakeSnapshot
<1>8. CASE PutPayload(w)
  BY <1>1, <1>8, QuietMoves DEF PutPayload, put_payload, ObjectsMove
<1>9. CASE PutManifest(w)
  BY <1>1, <1>9, QuietMoves DEF PutManifest, put_manifest, ObjectsMove
<1>10. CASE UploadFails(w)
  BY <1>1, <1>10, QuietMoves DEF UploadFails, put_payload, put_manifest,
     ObjectsMove
<1>11. CASE CallRefused(w)
  BY <1>1, <1>2, <1>11, QuietMoves DEF CallRefused
<1>12. CASE ReadState(w)
  BY <1>1, <1>2, <1>12, QuietMoves DEF ReadState
<1>13. CASE Return(w)
  BY <1>1, <1>2, <1>13, QuietMoves DEF Return
<1>14. CASE Shutdown(w)
  <2>1. \A v \in Workers : SessionMoves(v)
    BY <1>14 DEF Shutdown, SessionMoves, CutoverInv, TypeOK
  <2> QED
    BY <1>2, <1>14, <2>1, QuietMoves DEF Shutdown
<1>15. CASE RenewRefused(w)
  BY <1>1, <1>2, <1>15, QuietMoves DEF RenewRefused
<1> QED
  BY <1>3, <1>4, <1>5, <1>6, <1>7, <1>8, <1>9, <1>10, <1>11, <1>12, <1>13,
     <1>14, <1>15

\* A claim is a claim: it creates the next generation.
LEMMA ClaimGeneration ==
    ASSUME CutoverInv, NEW w \in Workers, ClaimWon(w)
    PROVE  meta'.generation = meta.generation + 1
<1>1. meta \in Metadata
  BY DEF CutoverInv, TypeOK
<1>2. Request(w).op = pc[w]
  BY DEF Request
<1>3. \/ claim_archive(Request(w).owner)
      \/ claim_cleanup(Request(w).owner)
      \/ begin_archive(Request(w).owner)
  BY <1>2 DEF ClaimWon, Commit, ClaimOps
<1> QED
  BY <1>1, <1>3 DEF claim_archive, claim_cleanup, begin_archive, Metadata

\* The steps of a worker that commit a transaction.
LEMMA CommittingWorkerMoves ==
    ASSUME CutoverInv, NEW w \in Workers,
           ClaimWon(w) \/ CallCommits(w) \/ Renew(w)
    PROVE  SharedMoves
<1>1. ASSUME UNCHANGED <<sess, snap>>
      PROVE  \A v \in Workers : SessionMoves(v)
  BY <1>1 DEF SessionMoves
<1>2. ASSUME UNCHANGED acked
      PROVE  AckedMoves
  BY <1>2 DEF AckedMoves
<1>3. CASE ClaimWon(w)
  <2>1. Request(w) \in Transactions /\ Sound(Request(w))
    BY <1>3, RequestSound DEF ClaimWon, Sound
  <2>2. snap[w] = None
    BY <1>3 DEF ClaimWon, CutoverInv, SnapshotBeforeUpload
  <2>3. \A v \in Workers : SessionMoves(v)
    BY <1>3, <2>2, ClaimGeneration DEF ClaimWon, SessionMoves, CutoverInv,
       TypeOK
  <2>4. StoreStep(Request(w))
    BY <1>3 DEF ClaimWon, StoreStep
  <2> QED
    BY <1>2, <1>3, <2>1, <2>3, <2>4, CommitMoves DEF ClaimWon
<1>4. CASE CallCommits(w)
  <2>1. Request(w) \in Transactions /\ Sound(Request(w))
    BY <1>4, RequestSound DEF CallCommits, Sound
  <2>2. StoreStep(Request(w))
    BY <1>4 DEF CallCommits, StoreStep
  <2> QED
    BY <1>1, <1>2, <1>4, <2>1, <2>2, CommitMoves DEF CallCommits
<1>5. CASE Renew(w)
  <2>1. RenewRequest(w) \in Transactions /\ Sound(RenewRequest(w))
    BY OtherRequests DEF Sound
  <2>2. SessionOf(RenewRequest(w)) = Session(w) /\ RenewRequest(w).op = "renew"
    BY DEF SessionOf, RenewRequest, Request, Session
  <2>3. StoreStep(RenewRequest(w))
    BY <1>5, <2>2 DEF Renew, StoreStep, Commit
  <2> QED
    BY <1>1, <1>2, <1>5, <2>1, <2>3, CommitMoves DEF Renew, workerVars
<1> QED
  BY <1>3, <1>4, <1>5

\* The steps of a worker that fail, leaving perhaps a transaction in flight.
LEMMA FaultyWorkerMoves ==
    ASSUME CutoverInv, NEW w \in Workers,
           ClaimFails(w) \/ CallFails(w) \/ RenewFails(w) \/ Crash(w)
    PROVE  SharedMoves
<1> USE DEF objectVars
<1>1. ASSUME UNCHANGED <<sess, snap>>
      PROVE  \A v \in Workers : SessionMoves(v)
  BY <1>1 DEF SessionMoves
<1>2. ASSUME UNCHANGED objectVars
      PROVE  ObjectsMove
  BY <1>2 DEF ObjectsMove
<1>3. pc[w] \in ClaimOps \cup WriteOps =>
        Request(w) \in Transactions /\ Sound(Request(w))
  BY RequestSound DEF Sound
<1>4. CASE ClaimFails(w)
  <2>1. CASE UNCHANGED pending
    BY <1>1, <1>2, <1>4, <2>1, QuietMoves DEF ClaimFails
  <2>2. CASE pending' = pending \cup {Request(w)}
    BY <1>1, <1>3, <1>4, <2>2, UnansweredMoves DEF ClaimFails
  <2> QED
    BY <1>4, <2>1, <2>2 DEF ClaimFails
<1>5. CASE CallFails(w)
  <2>1. CASE UNCHANGED pending
    BY <1>1, <1>2, <1>5, <2>1, QuietMoves DEF CallFails
  <2>2. CASE pc[w] \in WriteOps /\ pending' = pending \cup {Request(w)}
    BY <1>1, <1>3, <1>5, <2>2, UnansweredMoves DEF CallFails
  <2> QED
    BY <1>5, <2>1, <2>2 DEF CallFails
<1>6. CASE RenewFails(w)
  <2>1. CASE UNCHANGED pending
    BY <1>1, <1>2, <1>6, <2>1, QuietMoves DEF RenewFails
  <2>2. CASE pending' = pending \cup {RenewRequest(w)}
    <3>1. RenewRequest(w) \in Transactions /\ Sound(RenewRequest(w))
      BY OtherRequests DEF Sound
    <3> QED
      BY <1>1, <1>6, <2>2, <3>1, UnansweredMoves DEF RenewFails
  <2> QED
    BY <1>6, <2>1, <2>2 DEF RenewFails
<1>7. CASE Crash(w)
  <2>1. \A v \in Workers : SessionMoves(v)
    BY <1>7 DEF Crash, SessionMoves, CutoverInv, TypeOK
  <2>2. CASE UNCHANGED pending
    BY <1>2, <1>7, <2>1, <2>2, QuietMoves DEF Crash
  <2>3. CASE /\ pc[w] \in ClaimOps \cup WriteOps
             /\ pending' = pending \cup {Request(w)}
    BY <1>3, <1>7, <2>1, <2>3, UnansweredMoves DEF Crash
  <2> QED
    BY <1>7, <2>2, <2>3 DEF Crash
<1> QED
  BY <1>4, <1>5, <1>6, <1>7

\* Clock, late commits, clients and readers.
LEMMA EnvironmentMoves ==
    ASSUME CutoverInv,
           \/ Lapse \/ LapseUnderHeartbeat \/ RetryDue \/ Resolve
           \/ \E r \in Records : Client(r)
           \/ \E p \in Readers : Reading(p)
    PROVE  SharedMoves
<1> USE DEF objectVars, workerVars
<1>1. ASSUME UNCHANGED workerVars
      PROVE  \A v \in Workers : SessionMoves(v)
  BY <1>1 DEF SessionMoves
<1>2. ASSUME UNCHANGED objectVars
      PROVE  ObjectsMove
  BY <1>2 DEF ObjectsMove
<1>3. ASSUME UNCHANGED acked
      PROVE  AckedMoves
  BY <1>3 DEF AckedMoves
<1>4. CASE Lapse \/ LapseUnderHeartbeat \/ RetryDue
  <2> DEFINE t == [op |-> "append", owner |-> None, generation |-> 0,
                   records |-> {}, attempt |-> 0]
  <2>1. t \in Transactions /\ t.op = "append"
    BY DEF Transactions
  <2>2. Sound(t)
    BY <2>1 DEF Sound
  <2>3. StoreStep(t)
    BY <1>4 DEF Lapse, LapseUnderHeartbeat, RetryDue, StoreStep
  <2>4. UNCHANGED <<workerVars, objectVars, acked, pending>>
    BY <1>4 DEF Lapse, LapseUnderHeartbeat, RetryDue
  <2> HIDE DEF t
  <2> QED
    BY <1>1, <1>3, <2>1, <2>2, <2>3, <2>4, CommitMoves
<1>5. ASSUME NEW t \in pending, LateCommit(t)
      PROVE  SharedMoves
  <2>1. t \in Transactions /\ Sound(t)
    BY PendingSound DEF Sound
  <2>2. StoreStep(t)
    BY <1>5 DEF LateCommit, StoreStep
  <2> QED
    BY <1>1, <1>3, <1>5, <2>1, <2>2, CommitMoves DEF LateCommit
<1>6. ASSUME NEW t \in pending, LateRollback(t)
      PROVE  SharedMoves
  BY <1>1, <1>2, <1>6, QuietMoves DEF LateRollback
<1>7. ASSUME NEW r \in Records, AppendAcked(r)
      PROVE  SharedMoves
  <2>1. /\ AppendRequest(r) \in Transactions
        /\ Sound(AppendRequest(r))
        /\ AppendRequest(r).op = "append"
    BY OtherRequests DEF Sound
  <2>2. AppendRequest(r).records = {r}
    BY DEF AppendRequest
  <2>3. StoreStep(AppendRequest(r))
    BY <1>7, <2>1, <2>2 DEF AppendAcked, StoreStep, Commit
  <2>4. AckedMoves
    BY <1>7 DEF AppendAcked, AckedMoves
  <2> QED
    BY <1>1, <1>7, <2>1, <2>3, <2>4, CommitMoves DEF AppendAcked
<1>8. ASSUME NEW r \in Records, AppendUnknown(r)
      PROVE  SharedMoves
  <2>1. AppendRequest(r) \in Transactions /\ Sound(AppendRequest(r))
    BY OtherRequests DEF Sound
  <2> QED
    BY <1>1, <1>8, <2>1, UnansweredMoves DEF AppendUnknown
<1>9. ASSUME NEW p \in Readers, Reading(p)
      PROVE  SharedMoves
  <2>1. UNCHANGED <<storeVars, objectVars, workerVars, acked, pending>>
    BY <1>9 DEF Reading, ReadBegin, RouteCached, RouteHot, RouteArchive,
       FetchArchive, ReadFails, EvictRoute
  <2> QED
    BY <1>1, <1>2, <2>1, QuietMoves
<1> QED
  BY <1>4, <1>5, <1>6, <1>7, <1>8, <1>9 DEF Resolve, Client

\* Every step of the system, stuttering included.
LEMMA NextMoves == CutoverInv /\ [Next]_vars => SharedMoves
<1> SUFFICES ASSUME CutoverInv, [Next]_vars PROVE SharedMoves
  OBVIOUS
<1>1. CASE UNCHANGED vars
  <2>1. \A v \in Workers : SessionMoves(v)
    BY <1>1 DEF vars, SessionMoves
  <2>2. ObjectsMove
    BY <1>1 DEF vars, ObjectsMove
  <2> QED
    BY <1>1, <2>1, <2>2, QuietMoves DEF vars, storeVars
<1> QED
  BY <1>1, QuietWorkerMoves, CommittingWorkerMoves, FaultyWorkerMoves,
     EnvironmentMoves
     DEF Next, WorkerProgress, WithDeadline, WithoutDeadline,
         WorkerFault, Heartbeat

-----------------------------------------------------------------------------
(* Preservation of the data part: it only depends on the shared moves.     *)

\* An acknowledged record stays in the tier that routing selects.
LEMMA DataStep ==
    ASSUME CutoverInv, SharedMoves
    PROVE  /\ RowShape' /\ PublishedComplete' /\ AckedDurable'
           /\ Contents \subseteq Contents'
<1>1. PICK t \in Transactions : StoreStep(t) /\ Sound(t)
  BY DEF SharedMoves, StoreMoves
<1>2. RowShape' /\ PublishedComplete' /\ Contents \subseteq Contents'
  BY <1>1, StoreStepSafe DEF CutoverInv, TypeOK, Sound, SharedMoves, ObjectsMove
<1>3. CASE acked' = acked
  BY <1>2, <1>3 DEF CutoverInv, AckedDurable
<1>4. ASSUME NEW r \in Records, Append(r), acked' = acked \cup {r}
      PROVE  AckedDurable'
  <2>1. r \in hot' /\ meta'.state = "hot"
    BY <1>4 DEF Append, AppendAllowed, CutoverInv, TypeOK, Metadata
  <2>2. r \in Contents'
    BY <2>1 DEF Contents
  <2> QED
    BY <1>2, <1>4, <2>2 DEF CutoverInv, AckedDurable
<1> QED
  BY <1>2, <1>3, <1>4 DEF SharedMoves, AckedMoves

\* Sessions and requests in flight stay behind the generation, and the
\* current one still holds the hot rows.
LEMMA SessionStep ==
    ASSUME CutoverInv, SharedMoves
    PROVE  GenerationsBehind' /\ SnapshotsFrozen'
<1>1. PICK t \in Transactions : StoreStep(t) /\ Sound(t)
  BY DEF SharedMoves, StoreMoves
<1>2. /\ meta.generation <= meta'.generation
      /\ \A s \in Sessions :
           OwnsArchiving(s)' =>
             \/ s.generation = meta.generation + 1
             \/ OwnsArchiving(s) /\ hot' = hot
  BY <1>1, ArchivingIsFrozen DEF CutoverInv, TypeOK
<1>3. meta.generation \in Nat /\ meta'.generation \in Nat
  BY <1>1, StoreStepEffect DEF CutoverInv, TypeOK, Metadata
<1>4. ASSUME NEW w \in Workers
      PROVE  /\ sess'[w] <= meta'.generation
             /\ snap'[w] # None /\ OwnsArchiving(Session(w))' => snap'[w] = hot'
  <2>1. sess[w] \in Nat /\ sess[w] <= meta.generation
    BY DEF CutoverInv, TypeOK, GenerationsBehind
  <2>2. CASE sess'[w] = sess[w] /\ snap'[w] = snap[w]
    <3>1. Session(w)' = Session(w) /\ Session(w) \in Sessions
          /\ Session(w).generation = sess[w]
      BY <2>1, <2>2 DEF Session, Sessions
    <3>2. OwnsArchiving(Session(w))' => OwnsArchiving(Session(w)) /\ hot' = hot
      BY <1>2, <1>3, <2>1, <3>1 DEF OwnsArchiving, Owned
    <3> QED
      BY <1>2, <1>3, <2>1, <2>2, <3>2 DEF CutoverInv, SnapshotsFrozen
  <2>3. CASE sess'[w] = 0 /\ snap'[w] = None
    BY <1>3, <2>3
  <2>4. CASE sess'[w] = meta'.generation /\ snap'[w] = None
    BY <1>3, <2>4
  <2>5. CASE UNCHANGED storeVars /\ sess'[w] = sess[w] /\ snap'[w] = hot
    BY <2>1, <2>5 DEF storeVars
  <2> QED
    BY <2>2, <2>3, <2>4, <2>5 DEF SharedMoves, SessionMoves
<1>5. ASSUME NEW u \in pending', u.op = "publish"
      PROVE  /\ u.generation <= meta'.generation
             /\ OwnsArchiving(SessionOf(u))' => u.records = hot'
  <2>1. CASE u \in pending
    <3>1. u \in Transactions /\ Sound(u)
      BY <2>1, PendingSound DEF Sound
    <3>2. u.generation \in Nat /\ u.generation <= meta.generation
      BY <1>5, <3>1 DEF Sound, Transactions
    <3>3. SessionOf(u) \in Sessions /\ SessionOf(u).generation = u.generation
      BY <1>5, <3>1 DEF Transactions, SessionOf, Sessions
    <3>4. OwnsArchiving(SessionOf(u))' =>
            OwnsArchiving(SessionOf(u)) /\ hot' = hot
      BY <1>2, <1>3, <3>2, <3>3 DEF SessionOf
    <3> QED
      BY <1>2, <1>3, <1>5, <3>1, <3>2, <3>4 DEF Sound
  <2>2. CASE UNCHANGED storeVars /\ Sound(u)
    BY <1>5, <2>2 DEF storeVars, Sound, OwnsArchiving, Owned
  <2> QED
    BY <2>1, <2>2 DEF SharedMoves, PendingMoves
<1> QED
  BY <1>4, <1>5 DEF GenerationsBehind, SnapshotsFrozen

-----------------------------------------------------------------------------
(* Preservation of the types. *)

\* The program counters, heartbeats, sessions and snapshots.
WorkersTyped ==
    /\ pc \in [Workers -> {"idle", "shutdown"} \cup ClaimOps \cup Supervised]
    /\ res \in [Workers -> {"new"} \cup Running \cup Results]
    /\ ren \in [Workers -> {"off", "on", "failed"}]
    /\ sess \in [Workers -> Nat]
    /\ snap \in [Workers -> {None} \cup SUBSET Records]

\* The route caches and the reads.
ReadersTyped ==
    /\ routeCache \in [Workers -> Keys \cup {None}]
    /\ reads \in [Readers -> Read]

\* A worker's table only leads to operations it has.
LEMMA FlowTargets ==
    ASSUME NEW w \in Workers, NEW step \in Flow(w)
    PROVE  step[3] \in {"shutdown"} \cup Supervised
  BY DEF Flow, RunnerFlow, DirectFlow, Supervised, UploadOps, WriteOps,
     ArchiveOps, CleanupOps

\* Every worker action keeps the control state well-typed.
LEMMA WorkersTypeStep ==
    ASSUME CutoverInv, [Next]_vars
    PROVE  WorkersTyped'
<1> USE DEF WorkersTyped
<1>1. WorkersTyped /\ meta \in Metadata /\ hot \subseteq Records
  BY DEF CutoverInv, TypeOK
<1>2. ASSUME UNCHANGED workerVars
      PROVE  WorkersTyped'
  BY <1>1, <1>2 DEF workerVars
<1>3. ASSUME NEW w \in Workers, Discover(w)
      PROVE  WorkersTyped'
  BY <1>1, <1>3 DEF Discover, discover_archive_work, ClaimOps
<1>4. ASSUME NEW w \in Workers, DirectCall(w)
      PROVE  WorkersTyped'
  BY <1>1, <1>4 DEF DirectCall, ClaimOps
<1>5. ASSUME NEW w \in Workers, ClaimWon(w)
      PROVE  WorkersTyped'
  <2>1. meta.generation + 1 \in Nat
    BY <1>1 DEF Metadata
  <2> QED
    BY <1>1, <1>5, <2>1 DEF ClaimWon, Supervised, WriteOps, CleanupOps
<1>6. ASSUME NEW w \in Workers, ClaimLost(w) \/ ClaimFails(w)
      PROVE  WorkersTyped'
  BY <1>1, <1>6 DEF ClaimLost, ClaimFails
<1>7. ASSUME NEW w \in Workers, NEW x \in Running \cup Results, Finish(w, x),
             UNCHANGED <<pc, ren, sess, snap>>
      PROVE  WorkersTyped'
  BY <1>1, <1>7 DEF Finish
<1>8. ASSUME NEW w \in Workers,
             \/ Start(w) \/ PutManifest(w) \/ UploadFails(w) \/ CallCommits(w)
             \/ CallRefused(w) \/ CallFails(w) \/ ReadState(w)
      PROVE  WorkersTyped'
  <2>1. /\ UNCHANGED <<pc, ren, sess, snap>>
        /\ \E x \in Running \cup Results : Finish(w, x)
    BY <1>8 DEF Start, PutManifest, UploadFails, CallCommits, CallRefused,
       CallFails, ReadState, Running, Results
  <2> QED
    BY <1>7, <2>1
<1>9. ASSUME NEW w \in Workers, TakeSnapshot(w)
      PROVE  WorkersTyped'
  BY <1>1, <1>9 DEF TakeSnapshot, Finish, Results
<1>10. ASSUME NEW w \in Workers, PutPayload(w)
      PROVE  WorkersTyped'
  BY <1>1, <1>10 DEF PutPayload, Supervised, UploadOps
<1>11. ASSUME NEW w \in Workers, Return(w)
      PROVE  WorkersTyped'
  <2>1. \E next \in {"shutdown"} \cup Supervised :
          pc' = [pc EXCEPT ![w] = next]
    BY <1>11, FlowTargets DEF Return
  <2> QED
    BY <1>1, <1>11, <2>1 DEF Return, Finish
<1>12. ASSUME NEW w \in Workers, Shutdown(w) \/ Crash(w)
      PROVE  WorkersTyped'
  BY <1>1, <1>12 DEF Shutdown, Crash
<1>13. ASSUME NEW w \in Workers, RenewRefused(w) \/ RenewFails(w)
      PROVE  WorkersTyped'
  BY <1>1, <1>13 DEF RenewRefused, RenewFails
<1>14. ASSUME \/ \E w \in Workers : Renew(w)
              \/ Lapse \/ LapseUnderHeartbeat \/ RetryDue \/ Resolve
              \/ \E r \in Records : Client(r)
              \/ \E p \in Readers : Reading(p)
              \/ UNCHANGED vars
      PROVE  UNCHANGED workerVars
  BY <1>14 DEF Renew, Lapse, LapseUnderHeartbeat, RetryDue, Resolve,
     LateCommit, LateRollback, Client, AppendAcked, AppendUnknown, Reading,
     ReadBegin, RouteCached, RouteHot, RouteArchive, FetchArchive, ReadFails,
     EvictRoute, vars, workerVars
<1> QED
  BY <1>2, <1>3, <1>4, <1>5, <1>6, <1>8, <1>9, <1>10, <1>11, <1>12, <1>13,
     <1>14 DEF Next, WorkerProgress, WithDeadline, WithoutDeadline,
         WorkerFault, Heartbeat

\* A process drops the bucket's entry from its route cache.
CacheDropped == \E w \in Workers : Invalidate(w)

\* A process's route cache changes by invalidation or by a routed read; its
\* read changes by its own steps or by a crash.
LEMMA ReaderFrame ==
    ASSUME [Next]_vars
    PROVE  \/ UNCHANGED <<routeCache, reads>>
           \/ CacheDropped /\ UNCHANGED reads
           \/ \E w \in Workers : Crash(w)
           \/ \E p \in Readers : Reading(p)
<1>1. ASSUME NEW w \in Workers, ClaimWon(w) \/ Return(w)
      PROVE  UNCHANGED reads /\ (CacheDropped \/ UNCHANGED routeCache)
  BY <1>1 DEF ClaimWon, Return, CacheDropped
<1>2. ASSUME NEW w \in Workers,
             \/ Discover(w) \/ DirectCall(w) \/ ClaimLost(w) \/ ClaimFails(w)
             \/ Start(w) \/ TakeSnapshot(w) \/ PutPayload(w) \/ PutManifest(w)
             \/ UploadFails(w) \/ CallCommits(w) \/ CallRefused(w)
             \/ CallFails(w) \/ ReadState(w) \/ Shutdown(w)
             \/ Renew(w) \/ RenewRefused(w) \/ RenewFails(w)
      PROVE  UNCHANGED <<routeCache, reads>>
  BY <1>2 DEF Discover, DirectCall, ClaimLost, ClaimFails, Start,
     TakeSnapshot, PutPayload, PutManifest, UploadFails, CallCommits,
     CallRefused, CallFails, ReadState, Shutdown, Renew, RenewRefused,
     RenewFails
<1>3. ASSUME \/ Lapse \/ LapseUnderHeartbeat \/ RetryDue \/ Resolve
             \/ \E r \in Records : Client(r)
             \/ UNCHANGED vars
      PROVE  UNCHANGED <<routeCache, reads>>
  BY <1>3 DEF Lapse, LapseUnderHeartbeat, RetryDue, Resolve, LateCommit,
     LateRollback, Client, AppendAcked, AppendUnknown, vars
<1> QED
  BY <1>1, <1>2, <1>3 DEF Next, WorkerProgress, WithDeadline, WithoutDeadline,
         WorkerFault, Heartbeat

\* Cached routes and reads keep their types (RouteCache and read_range).
LEMMA ReadersTypeStep ==
    ASSUME CutoverInv, [Next]_vars
    PROVE  ReadersTyped'
<1> USE DEF ReadersTyped
<1>1. /\ ReadersTyped /\ meta \in Metadata /\ hot \subseteq Records
      /\ acked \subseteq Records
  BY DEF CutoverInv, TypeOK
<1>2. NoRead \in Read
  BY NoneAssumption DEF NoRead, Read
<1>3. CASE UNCHANGED <<routeCache, reads>>
  BY <1>1, <1>3
<1>4. CASE CacheDropped /\ UNCHANGED reads
  BY <1>1, <1>4 DEF CacheDropped, Invalidate
<1>5. ASSUME NEW w \in Workers, Crash(w)
      PROVE  ReadersTyped'
  BY <1>1, <1>2, <1>5 DEF Crash, Invalidate
<1>6. ASSUME NEW p \in Readers, Reading(p)
      PROVE  ReadersTyped'
  <2>1. p \in Workers
    BY WorkersAssumption
  <2>2. reads[p] \in Read
    BY <1>1
  <2>3. CASE ReadBegin(p)
    <3>1. [NoRead EXCEPT !.status = "route", !.must = acked] \in Read
      BY <1>1, <1>2 DEF Read
    <3> QED
      BY <1>1, <2>3, <3>1 DEF ReadBegin
  <2>4. CASE RouteCached(p)
    <3>1. [reads[p] EXCEPT !.status = "fetch", !.key = routeCache[p]] \in Read
      BY <1>1, <2>1, <2>2 DEF Read
    <3> QED
      BY <1>1, <2>4, <3>1 DEF RouteCached
  <2>5. CASE RouteHot(p)
    <3>1. [reads[p] EXCEPT !.status = "idle", !.result = hot] \in Read
      BY <1>1, <2>2 DEF Read
    <3> QED
      BY <1>1, <2>5, <3>1 DEF RouteHot
  <2>6. CASE RouteArchive(p)
    <3>1. meta.objectKey \in Keys \cup {None}
      BY <1>1 DEF Metadata
    <3>2. [reads[p] EXCEPT !.status = "fetch", !.key = meta.objectKey] \in Read
      BY <2>2, <3>1 DEF Read
    <3> QED
      BY <1>1, <2>6, <3>1, <3>2 DEF RouteArchive
  <2>7. CASE FetchArchive(p)
    <3>1. reads[p].key \in Keys
      BY <2>7 DEF FetchArchive, Readable, CutoverInv, TypeOK
    <3>2. reads[p].key.records \in SUBSET Records
      BY <3>1 DEF Keys
    <3>3. [reads[p] EXCEPT !.status = "idle",
                           !.result = reads[p].key.records] \in Read
      BY <2>2, <3>2 DEF Read
    <3> QED
      BY <1>1, <2>7, <3>3 DEF FetchArchive
  <2>8. CASE ReadFails(p)
    BY <1>1, <1>2, <2>8 DEF ReadFails
  <2>9. CASE EvictRoute(p)
    BY <1>1, <2>9 DEF EvictRoute, Invalidate
  <2> QED
    BY <1>6, <2>3, <2>4, <2>5, <2>6, <2>7, <2>8, <2>9 DEF Reading
<1> QED
  BY <1>3, <1>4, <1>5, <1>6, ReaderFrame

\* Objects are only created under keys of snapshots.
LEMMA ObjectsTypeStep ==
    ASSUME CutoverInv, [Next]_vars
    PROVE  payloads' \subseteq Keys /\ manifests' \subseteq Keys
<1> USE DEF objectVars
<1>1. payloads \subseteq Keys /\ manifests \subseteq Keys
  BY DEF CutoverInv, TypeOK
<1>2. ASSUME NEW w \in Workers, PutPayload(w) \/ PutManifest(w) \/ UploadFails(w)
      PROVE  payloads' \subseteq Keys /\ manifests' \subseteq Keys
  <2>1. pc[w] \in {"payload", "manifest"}
    BY <1>2 DEF PutPayload, PutManifest, UploadFails, UploadOps
  <2>2. snap[w] \in SUBSET Records /\ sess[w] \in Nat
    BY <2>1 DEF CutoverInv, TypeOK, SnapshotBeforeUpload
  <2>3. Key(w) \in Keys
    BY <2>2 DEF Key, Keys
  <2> QED
    BY <1>1, <1>2, <2>3 DEF PutPayload, PutManifest, UploadFails, put_payload,
       put_manifest
<1>3. ASSUME NEW w \in Workers,
             \/ Discover(w) \/ DirectCall(w) \/ ClaimWon(w) \/ ClaimLost(w)
             \/ ClaimFails(w) \/ Start(w) \/ TakeSnapshot(w)
             \/ CallCommits(w) \/ CallRefused(w) \/ CallFails(w)
             \/ ReadState(w) \/ Return(w) \/ Shutdown(w) \/ Crash(w)
             \/ Renew(w) \/ RenewRefused(w) \/ RenewFails(w)
      PROVE  UNCHANGED objectVars
  BY <1>3 DEF Discover, DirectCall, ClaimWon, ClaimLost, ClaimFails, Start,
     TakeSnapshot, CallCommits, CallRefused, CallFails, ReadState, Return,
     Shutdown, Crash, Renew, RenewRefused, RenewFails
<1>4. ASSUME \/ Lapse \/ LapseUnderHeartbeat \/ RetryDue \/ Resolve
             \/ \E r \in Records : Client(r)
             \/ \E p \in Readers : Reading(p)
             \/ UNCHANGED vars
      PROVE  UNCHANGED objectVars
  BY <1>4 DEF Lapse, LapseUnderHeartbeat, RetryDue, Resolve, LateCommit,
     LateRollback, Client, AppendAcked, AppendUnknown, Reading, ReadBegin,
     RouteCached, RouteHot, RouteArchive, FetchArchive, ReadFails, EvictRoute,
     vars
<1> QED
  BY <1>1, <1>2, <1>3, <1>4 DEF Next, WorkerProgress, WithDeadline, WithoutDeadline,
         WorkerFault, Heartbeat

\* Faults are counted up to the bound.
LEMMA FaultsTypeStep ==
    ASSUME CutoverInv, [Next]_vars
    PROVE  faults' \in 0..MaxFaults
<1>1. faults \in 0..MaxFaults
  BY DEF CutoverInv, TypeOK
<1>2. Fault => faults' \in 0..MaxFaults
  BY <1>1, FaultsAssumption DEF Fault
<1>3. ASSUME NEW w \in Workers,
             \/ WorkerProgress(w) \/ DirectCall(w) \/ Heartbeat(w)
      PROVE  UNCHANGED faults
  BY <1>3 DEF WorkerProgress, WithDeadline, WithoutDeadline, Heartbeat, Discover, DirectCall, ClaimWon,
     ClaimLost, Start, TakeSnapshot, PutPayload, PutManifest, CallCommits,
     CallRefused, ReadState, Return, Shutdown, Renew, RenewRefused
<1>4. ASSUME NEW w \in Workers, WorkerFault(w)
      PROVE  Fault
  BY <1>4 DEF WorkerFault, ClaimFails, UploadFails, CallFails, RenewFails, Crash
<1>5. ASSUME \/ Lapse \/ LapseUnderHeartbeat \/ RetryDue \/ Resolve
             \/ \E r \in Records : Client(r)
             \/ \E p \in Readers : Reading(p)
             \/ UNCHANGED vars
      PROVE  Fault \/ UNCHANGED faults
  BY <1>5 DEF Lapse, LapseUnderHeartbeat, RetryDue, Resolve, LateCommit,
     LateRollback, Client, AppendAcked, AppendUnknown, Reading, ReadBegin,
     RouteCached, RouteHot, RouteArchive, FetchArchive, ReadFails, EvictRoute,
     vars
<1> QED
  BY <1>1, <1>2, <1>3, <1>4, <1>5 DEF Next

\* All of it together.
LEMMA TypeStep ==
    ASSUME CutoverInv, [Next]_vars
    PROVE  TypeOK'
<1>1. SharedMoves
  BY NextMoves
<1>2. PICK t \in Transactions : StoreStep(t) /\ Sound(t)
  BY <1>1 DEF SharedMoves, StoreMoves
<1>3. meta' \in Metadata /\ hot' \subseteq Records
  BY <1>2, StoreStepEffect DEF CutoverInv, TypeOK
<1>4. acked' \subseteq Records /\ pending' \subseteq Transactions
  BY <1>1 DEF SharedMoves, AckedMoves, PendingMoves, CutoverInv, TypeOK
<1> QED
  BY <1>3, <1>4, WorkersTypeStep, ReadersTypeStep, ObjectsTypeStep,
     FaultsTypeStep DEF TypeOK, WorkersTyped, ReadersTyped

-----------------------------------------------------------------------------
(* Preservation of the program part: snapshot, upload, publish in order.   *)

\* What one worker's position says about its snapshot and its objects.
InOrder(w) ==
    /\ pc[w] \in {"manifest", "publish"} => Key(w) \in payloads
    /\ pc[w] = "manifest" /\ res[w] = "ok" => Key(w) \in manifests
    /\ pc[w] = "publish" => Key(w) \in manifests
    /\ pc[w] \in {"idle", "shutdown"} \cup ClaimOps => res[w] = "new"
    /\ pc[w] \in {"idle"} \cup ClaimOps => snap[w] = None
    /\ pc[w] \in {"payload", "manifest", "publish"} => snap[w] # None
    /\ pc[w] = "snapshot" /\ res[w] = "ok" => snap[w] # None

\* Other workers only see more objects.
LEMMA InOrderFrame ==
    ASSUME NEW w \in Workers, InOrder(w), ObjectsMove,
           pc'[w] = pc[w], res'[w] = res[w], sess'[w] = sess[w],
           snap'[w] = snap[w]
    PROVE  InOrder(w)'
<1>1. Key(w)' = Key(w)
  BY DEF Key
<1> QED
  BY <1>1 DEF InOrder, ObjectsMove

\* A step of worker w leaves every other worker where it is.
OthersStay(w) ==
    \A v \in Workers \ {w} :
      /\ pc'[v] = pc[v]
      /\ res'[v] = res[v]
      /\ sess'[v] = sess[v]
      /\ snap'[v] = snap[v]

\* A worker's tables reach an upload only from a snapshot, and a publication
\* only from a finished manifest.
LEMMA FlowOrder ==
    ASSUME NEW w \in Workers, NEW step \in Flow(w)
    PROVE  /\ step[3] \notin {"idle", "snapshot", "manifest"} \cup ClaimOps
           /\ step[3] = "payload" => step[1] = "snapshot" /\ step[2] = "ok"
           /\ step[3] = "publish" => step[1] = "manifest" /\ step[2] = "ok"
  BY DEF Flow, RunnerFlow, DirectFlow, ClaimOps

\* Every step keeps every worker in order.
LEMMA InOrderStep ==
    ASSUME CutoverInv, [Next]_vars, ObjectsMove
    PROVE  \A v \in Workers : InOrder(v)'
<1>1. \A v \in Workers : InOrder(v)
  BY DEF CutoverInv, UploadedBeforePublish, SnapshotBeforeUpload, InOrder
<1>2. WorkersTyped
  BY DEF CutoverInv, TypeOK, WorkersTyped
<1>3. ASSUME NEW w \in Workers, OthersStay(w), InOrder(w)'
      PROVE  \A v \in Workers : InOrder(v)'
  BY <1>1, <1>3, InOrderFrame DEF OthersStay
<1>4. ASSUME NEW w \in Workers,
             \/ Discover(w) \/ DirectCall(w) \/ ClaimWon(w) \/ ClaimLost(w)
             \/ ClaimFails(w) \/ Start(w) \/ TakeSnapshot(w) \/ PutPayload(w)
             \/ PutManifest(w) \/ UploadFails(w) \/ CallCommits(w)
             \/ CallRefused(w) \/ CallFails(w) \/ ReadState(w) \/ Return(w)
             \/ Shutdown(w) \/ Crash(w)
      PROVE  OthersStay(w)
  BY <1>2, <1>4 DEF WorkersTyped, OthersStay, Discover, DirectCall, ClaimWon,
     ClaimLost, ClaimFails, Start, TakeSnapshot, PutPayload, PutManifest,
     UploadFails, CallCommits, CallRefused, CallFails, ReadState, Return,
     Shutdown, Crash, Finish
<1>5. ASSUME NEW w \in Workers,
             Discover(w) \/ DirectCall(w) \/ ClaimLost(w) \/ ClaimFails(w)
      PROVE  InOrder(w)'
  <2>1. pc'[w] \in {"idle"} \cup ClaimOps /\ snap' = snap /\ res' = res
    BY <1>2, <1>5 DEF WorkersTyped, Discover, DirectCall, ClaimLost,
       ClaimFails, discover_archive_work, ClaimOps
  <2>2. pc[w] \in {"idle"} \cup ClaimOps
    BY <1>5 DEF Discover, DirectCall, ClaimLost, ClaimFails
  <2> QED
    BY <1>1, <2>1, <2>2 DEF InOrder, ClaimOps
<1>6. ASSUME NEW w \in Workers, ClaimWon(w)
      PROVE  InOrder(w)'
  <2>1. pc'[w] \in {"delete_hot", "snapshot"} /\ res'[w] = "new"
    BY <1>1, <1>2, <1>6 DEF WorkersTyped, ClaimWon, InOrder
  <2> QED
    BY <2>1 DEF InOrder, ClaimOps
<1>7. ASSUME NEW w \in Workers, NEW x \in {"run", "late", "err", "cleanup",
                                           "archiving", "other"},
             pc[w] \in Supervised, Finish(w, x), UNCHANGED <<pc, sess, snap>>
      PROVE  InOrder(w)'
  <2>1. Key(w)' = Key(w)
    BY <1>7 DEF Key
  <2>2. res'[w] = x
    BY <1>2, <1>7 DEF WorkersTyped, Finish
  <2>3. pc[w] \notin {"idle", "shutdown"} \cup ClaimOps
    BY <1>7 DEF Supervised, UploadOps, WriteOps, ArchiveOps, CleanupOps,
       ClaimOps
  <2> QED
    BY <1>1, <1>7, <2>1, <2>2, <2>3 DEF InOrder, ObjectsMove
<1>8. ASSUME NEW w \in Workers,
             \/ Start(w) \/ UploadFails(w) \/ CallRefused(w) \/ CallFails(w)
             \/ ReadState(w)
      PROVE  InOrder(w)'
  <2>1. pc[w] \in Supervised /\ UNCHANGED <<pc, sess, snap>>
    BY <1>8 DEF Start, UploadFails, CallRefused, CallFails, ReadState,
       Supervised
  <2>2. \E x \in {"run", "late", "err", "cleanup", "archiving", "other"} :
          Finish(w, x)
    BY <1>8 DEF Start, UploadFails, CallRefused, CallFails, ReadState
  <2> QED
    BY <1>7, <2>1, <2>2
<1>9. ASSUME NEW w \in Workers, TakeSnapshot(w)
      PROVE  InOrder(w)'
  <2>1. pc'[w] = "snapshot" /\ snap'[w] = hot
    BY <1>2, <1>9 DEF WorkersTyped, TakeSnapshot
  <2>2. hot # None
    BY NoneAssumption DEF CutoverInv, TypeOK
  <2> QED
    BY <2>1, <2>2 DEF InOrder, ClaimOps
<1>10. ASSUME NEW w \in Workers, PutPayload(w)
      PROVE  InOrder(w)'
  <2>1. /\ pc[w] = "payload" /\ pc'[w] = "manifest"
        /\ res'[w] = res[w] /\ res[w] # "ok"
        /\ snap'[w] = snap[w] /\ Key(w)' = Key(w) /\ Key(w) \in payloads'
    BY <1>2, <1>10 DEF WorkersTyped, PutPayload, put_payload, Key, Running
  <2> QED
    BY <1>1, <2>1 DEF InOrder, ClaimOps
<1>11. ASSUME NEW w \in Workers, PutManifest(w)
      PROVE  InOrder(w)'
  <2>1. /\ pc[w] = "manifest" /\ pc'[w] = "manifest"
        /\ snap'[w] = snap[w] /\ Key(w)' = Key(w) /\ Key(w) \in manifests'
    BY <1>2, <1>11 DEF WorkersTyped, PutManifest, put_manifest, Key
  <2> QED
    BY <1>1, <2>1 DEF InOrder, ClaimOps, ObjectsMove
<1>12. ASSUME NEW w \in Workers, CallCommits(w)
      PROVE  InOrder(w)'
  <2>1. /\ pc[w] \in WriteOps /\ pc' = pc
        /\ snap'[w] = snap[w] /\ Key(w)' = Key(w)
    BY <1>12 DEF CallCommits, Key
  <2> QED
    BY <1>1, <2>1 DEF InOrder, ClaimOps, ObjectsMove, WriteOps, ArchiveOps,
       CleanupOps
<1>13. ASSUME NEW w \in Workers, Return(w)
      PROVE  InOrder(w)'
  <2>1. /\ res'[w] = "new" /\ snap'[w] = snap[w] /\ Key(w)' = Key(w)
        /\ UNCHANGED objectVars
    BY <1>2, <1>13 DEF WorkersTyped, Return, Finish, Key
  <2>2. CASE pc'[w] = "shutdown"
    BY <2>1, <2>2 DEF InOrder, ClaimOps
  <2>3. CASE \E step \in Flow(w) :
               step[1] = pc[w] /\ step[2] = res[w] /\ pc'[w] = step[3]
    BY <1>1, <2>1, <2>3, FlowOrder DEF InOrder, objectVars
  <2> QED
    BY <1>2, <1>13, <2>2, <2>3 DEF Return, WorkersTyped
<1>14. ASSUME NEW w \in Workers, Shutdown(w) \/ Crash(w)
      PROVE  InOrder(w)'
  <2>1. pc'[w] = "idle" /\ snap'[w] = None
    BY <1>2, <1>14 DEF WorkersTyped, Shutdown, Crash
  <2>2. res'[w] = "new"
    BY <1>1, <1>2, <1>14 DEF WorkersTyped, Shutdown, Crash, InOrder
  <2> QED
    BY <2>1, <2>2 DEF InOrder
<1>15. ASSUME \/ \E w \in Workers : Heartbeat(w) \/ RenewFails(w)
              \/ Lapse \/ LapseUnderHeartbeat \/ RetryDue \/ Resolve
              \/ \E r \in Records : Client(r)
              \/ \E p \in Readers : Reading(p)
              \/ UNCHANGED vars
      PROVE  \A v \in Workers : InOrder(v)'
  <2>1. UNCHANGED <<pc, res, sess, snap>>
    BY <1>15 DEF Heartbeat, Renew, RenewRefused, RenewFails, Lapse,
       LapseUnderHeartbeat, RetryDue, Resolve, LateCommit, LateRollback,
       Client, AppendAcked, AppendUnknown, Reading, ReadBegin, RouteCached,
       RouteHot, RouteArchive, FetchArchive, ReadFails, EvictRoute, vars,
       workerVars
  <2> QED
    BY <1>1, <2>1, InOrderFrame
<1> QED
  BY <1>3, <1>4, <1>5, <1>6, <1>8, <1>9, <1>10, <1>11, <1>12, <1>13, <1>14,
     <1>15 DEF Next, WorkerProgress, WithDeadline, WithoutDeadline,
         WorkerFault

-----------------------------------------------------------------------------
(* The inductive invariant and what follows from it. *)

\* Every step of the system preserves the inductive invariant.
LEMMA CutoverStep ==
    ASSUME CutoverInv, [Next]_vars
    PROVE  CutoverInv'
<1>1. SharedMoves
  BY NextMoves
<1>2. TypeOK'
  BY TypeStep
<1>3. \A v \in Workers : InOrder(v)'
  BY <1>1, InOrderStep DEF SharedMoves
<1>4. \A t \in pending' : t.op = "publish" => Readable(KeyOf(t))'
  BY <1>1 DEF SharedMoves, PendingMoves, ObjectsMove, Sound, Readable, KeyOf,
     CutoverInv, UploadedBeforePublish
<1>5. UploadedBeforePublish' /\ SnapshotBeforeUpload'
  BY <1>3, <1>4 DEF InOrder, UploadedBeforePublish, SnapshotBeforeUpload
<1> QED
  BY <1>1, <1>2, <1>5, DataStep, SessionStep DEF CutoverInv

\* The inductive invariant holds in every reachable state, for any set of
\* records, workers and readers and any bound on the faults.
THEOREM CutoverInvariant == Spec => []CutoverInv
<1>1. Init => CutoverInv
  BY InitInv
<1>2. CutoverInv /\ [Next]_vars => CutoverInv'
  BY CutoverStep
<1> QED
  BY <1>1, <1>2, PTL DEF Spec

\* Every variable keeps its type; in particular a transaction left in flight
\* by an unanswered COMMIT is always a well-formed one.
THEOREM TypeCorrect == Spec => []TypeOK
<1>1. CutoverInv => TypeOK
  BY DEF CutoverInv
<1> QED
  BY <1>1, CutoverInvariant, PTL

\* The row satisfies the table's CHECK constraint after every transaction,
\* whatever sessions overlap.
THEOREM RowAlwaysValid == Spec => []RowShape
<1>1. CutoverInv => RowShape
  BY DEF CutoverInv
<1> QED
  BY <1>1, CutoverInvariant, PTL

\* No acknowledged append is ever lost, however many workers crash, lose
\* their lease, or have a publication commit late.
THEOREM AckedNeverLost == Spec => []AckedDurable
<1>1. CutoverInv => AckedDurable
  BY DEF CutoverInv
<1> QED
  BY <1>1, CutoverInvariant, PTL

\* A published key always resolves to both objects, and holds exactly the hot
\* rows until they are deleted.
THEOREM PublishedIsComplete == Spec => []PublishedComplete
<1>1. CutoverInv => PublishedComplete
  BY DEF CutoverInv
<1> QED
  BY <1>1, CutoverInvariant, PTL

\* What a store step does once the bucket is published.
LEMMA ArchivedStep ==
    ASSUME CutoverInv, SharedMoves, meta.state = "archived"
    PROVE  /\ meta'.state = "archived"
           /\ meta'.objectKey = meta.objectKey
           /\ meta.hotDeleted => meta'.hotDeleted
<1>1. PICK t \in Transactions : StoreStep(t) /\ Sound(t)
  BY DEF SharedMoves, StoreMoves
<1>2. \/ Touched \/ Grown \/ Claimed \/ CleanupClaimed
      \/ (t.op = "publish" /\ Published(t)) \/ Reopened \/ Cleaned
  BY <1>1, StoreStepEffect DEF CutoverInv, TypeOK
<1> QED
  BY <1>2 DEF Touched, Grown, Claimed, CleanupClaimed, Published,
     OwnsArchiving, Reopened, Cleaned

\* Publication is final: no takeover, late commit or retry reopens a
\* published bucket, changes its key or brings deleted rows back.
THEOREM PublicationIsFinal == Spec => PublicationFinal
<1>1. CutoverInv /\ [Next]_vars =>
        [meta.state = "archived" =>
           /\ meta'.state = "archived"
           /\ meta'.objectKey = meta.objectKey
           /\ meta.hotDeleted => meta'.hotDeleted]_vars
  BY NextMoves, ArchivedStep
<1> QED
  BY <1>1, CutoverInvariant, PTL DEF Spec, PublicationFinal

\* Rows leave the hot tier only under a published key whose objects exist and
\* hold every one of them.
THEOREM RowsLeaveOnlyWhenArchived == Spec => RowsLeaveOnlyArchived
<1>1. ASSUME CutoverInv, SharedMoves, ~(hot \subseteq hot')
      PROVE  /\ meta.state = "archived"
             /\ Readable(meta.objectKey)
             /\ hot \subseteq meta.objectKey.records
  <2>1. PICK t \in Transactions : StoreStep(t) /\ Sound(t)
    BY <1>1 DEF SharedMoves, StoreMoves
  <2>2. \/ Touched \/ Grown \/ Claimed \/ CleanupClaimed
        \/ (t.op = "publish" /\ Published(t)) \/ Reopened \/ Cleaned
    BY <1>1, <2>1, StoreStepEffect DEF CutoverInv, TypeOK
  <2>3. Cleaned
    BY <1>1, <2>2 DEF Touched, Grown, Claimed, CleanupClaimed, Published,
       Reopened
  <2> QED
    BY <1>1, <2>3 DEF Cleaned, CutoverInv, PublishedComplete
<1>2. CutoverInv /\ [Next]_vars =>
        [~(hot \subseteq hot') =>
           /\ meta.state = "archived"
           /\ Readable(meta.objectKey)
           /\ hot \subseteq meta.objectKey.records]_vars
  BY <1>1, NextMoves
<1> QED
  BY <1>2, CutoverInvariant, PTL DEF Spec, RowsLeaveOnlyArchived

-----------------------------------------------------------------------------
(* What a worker reports. *)

\* Whoever took a snapshot in the session that the bucket still belongs to has
\* published that very snapshot, if anybody published.
OwnPublication ==
    \A w \in Workers :
      snap[w] # None /\ meta.state = "archived" /\ Owned(Session(w)) =>
        meta.objectKey = Key(w)

\* A late commit of the publication, a takeover and a new session keep it so.
LEMMA OwnPublicationStep ==
    ASSUME CutoverInv, OwnPublication, SharedMoves
    PROVE  OwnPublication'
<1>1. PICK t \in Transactions : StoreStep(t) /\ Sound(t)
  BY DEF SharedMoves, StoreMoves
<1>2. \/ Touched \/ Grown \/ Claimed \/ CleanupClaimed
      \/ (t.op = "publish" /\ Published(t)) \/ Reopened \/ Cleaned
  BY <1>1, StoreStepEffect DEF CutoverInv, TypeOK
<1> SUFFICES ASSUME NEW w \in Workers, snap'[w] # None, meta'.state = "archived",
                    Owned(Session(w))'
             PROVE  meta'.objectKey = Key(w)'
  BY DEF OwnPublication
<1>3. sess[w] \in Nat /\ sess[w] <= meta.generation /\ meta.generation \in Nat
  BY DEF CutoverInv, TypeOK, Metadata, GenerationsBehind
<1>4. sess'[w] = sess[w] /\ snap'[w] = snap[w]
  BY <1>1 DEF SharedMoves, SessionMoves, storeVars
<1>5. /\ Session(w)' = Session(w) /\ Key(w)' = Key(w)
      /\ meta'.owner = w /\ meta'.generation = sess[w]
  BY <1>4 DEF Session, Key, Owned
<1>6. CASE Touched \/ Cleaned
  BY <1>4, <1>5, <1>6 DEF Touched, Cleaned, OwnPublication, Owned, Session
<1>7. CASE Grown \/ Claimed \/ Reopened
  BY <1>7 DEF Grown, Claimed, Reopened
<1>8. CASE CleanupClaimed
  BY <1>3, <1>5, <1>8 DEF CleanupClaimed
<1>9. CASE t.op = "publish" /\ Published(t)
  <2>1. /\ OwnsArchiving(SessionOf(t)) /\ meta'.objectKey = KeyOf(t)
        /\ meta.owner = w /\ meta.generation = sess[w]
    BY <1>5, <1>9 DEF Published
  <2>2. t.records = hot /\ t.generation = sess[w]
    BY <1>1, <1>9, <2>1 DEF Sound, OwnsArchiving, Owned, SessionOf
  <2>3. snap[w] = hot
    BY <1>4, <2>1 DEF CutoverInv, SnapshotsFrozen, OwnsArchiving, Owned, Session
  <2> QED
    BY <1>5, <2>1, <2>2, <2>3 DEF KeyOf, Key
<1> QED
  BY <1>2, <1>6, <1>7, <1>8, <1>9

\* A worker has its deletion answered when it commits, and until supervise()
\* returns.
LEMMA DeletionAnswered ==
    ASSUME CutoverInv, [Next]_vars, NEW w \in Workers,
           pc'[w] = "delete_hot", res'[w] = "ok"
    PROVE  \/ CallCommits(w) /\ pc[w] = "delete_hot"
           \/ /\ pc[w] = "delete_hot" /\ res[w] = "ok"
              /\ sess'[w] = sess[w] /\ snap'[w] = snap[w]
<1>1. WorkersTyped
  BY DEF CutoverInv, TypeOK, WorkersTyped
<1>2. pc[w] \in {"idle", "shutdown"} \cup ClaimOps => res[w] = "new"
  BY DEF CutoverInv, SnapshotBeforeUpload
<1>3. ASSUME NEW v \in Workers, v # w,
             \/ Discover(v) \/ DirectCall(v) \/ ClaimWon(v) \/ ClaimLost(v)
             \/ ClaimFails(v) \/ Start(v) \/ TakeSnapshot(v) \/ PutPayload(v)
             \/ PutManifest(v) \/ UploadFails(v) \/ CallCommits(v)
             \/ CallRefused(v) \/ CallFails(v) \/ ReadState(v) \/ Return(v)
             \/ Shutdown(v) \/ Crash(v)
      PROVE  /\ pc'[w] = pc[w] /\ res'[w] = res[w]
             /\ sess'[w] = sess[w] /\ snap'[w] = snap[w]
  BY <1>1, <1>3 DEF WorkersTyped, Discover, DirectCall, ClaimWon,
     ClaimLost, ClaimFails, Start, TakeSnapshot, PutPayload, PutManifest,
     UploadFails, CallCommits, CallRefused, CallFails, ReadState, Return,
     Shutdown, Crash, Finish
<1>4. ~(Discover(w) \/ DirectCall(w) \/ ClaimWon(w) \/ ClaimLost(w) \/ ClaimFails(w))
  BY <1>1, <1>2 DEF WorkersTyped, Discover, DirectCall, ClaimWon, ClaimLost, ClaimFails,
     ClaimOps, discover_archive_work
<1>5. ~(\/ Start(w) \/ UploadFails(w) \/ CallRefused(w) \/ CallFails(w)
        \/ ReadState(w) \/ Return(w) \/ Shutdown(w) \/ Crash(w))
  BY <1>1 DEF WorkersTyped, Start, UploadFails, CallRefused, CallFails, ReadState, Return,
     Shutdown, Crash, Finish
<1>6. ~(TakeSnapshot(w) \/ PutPayload(w) \/ PutManifest(w))
  BY <1>1 DEF WorkersTyped, TakeSnapshot, PutPayload, PutManifest
<1>7. CallCommits(w) => pc[w] = "delete_hot"
  BY DEF CallCommits
<1>8. ASSUME \/ \E v \in Workers : Heartbeat(v) \/ RenewFails(v)
             \/ Lapse \/ LapseUnderHeartbeat \/ RetryDue \/ Resolve
             \/ \E r \in Records : Client(r)
             \/ \E p \in Readers : Reading(p)
             \/ UNCHANGED vars
      PROVE  UNCHANGED <<pc, res, sess, snap>>
  BY <1>8 DEF Heartbeat, Renew, RenewRefused, RenewFails, Lapse,
     LapseUnderHeartbeat, RetryDue, Resolve, LateCommit, LateRollback,
     Client, AppendAcked, AppendUnknown, Reading, ReadBegin, RouteCached,
     RouteHot, RouteArchive, FetchArchive, ReadFails, EvictRoute, vars,
     workerVars
<1> QED
  BY <1>3, <1>4, <1>5, <1>6, <1>7, <1>8 DEF Next, WorkerProgress, WithDeadline, WithoutDeadline,
         WorkerFault

\* Every step keeps what was reported true.
LEMMA OutcomeStep ==
    ASSUME CutoverInv, OwnPublication, ReportedOutcomeTrue, [Next]_vars
    PROVE  ReportedOutcomeTrue'
<1>1. SharedMoves
  BY NextMoves
<1> SUFFICES ASSUME NEW w \in Workers, pc'[w] = "delete_hot", res'[w] = "ok"
             PROVE  meta'.hotDeleted /\ (snap'[w] # None => meta'.objectKey = Key(w)')
  BY DEF ReportedOutcomeTrue
<1>2. CASE CallCommits(w) /\ pc[w] = "delete_hot"
  <2>1. /\ Request(w).op = "delete_hot" /\ SessionOf(Request(w)) = Session(w)
        /\ meta \in Metadata
    BY <1>2 DEF Request, SessionOf, Session, CutoverInv, TypeOK
  <2>2. delete_hot_bucket(Session(w)) /\ UNCHANGED <<sess, snap>>
    BY <1>2, <2>1 DEF CallCommits, Commit
  <2>3. meta'.hotDeleted /\ meta'.objectKey = meta.objectKey /\ Key(w)' = Key(w)
    BY <2>1, <2>2 DEF delete_hot_bucket, Metadata, Key
  <2> QED
    BY <2>2, <2>3 DEF delete_hot_bucket, OwnsCleanup, OwnPublication
<1>3. CASE /\ pc[w] = "delete_hot" /\ res[w] = "ok"
           /\ sess'[w] = sess[w] /\ snap'[w] = snap[w]
  <2>1. meta.hotDeleted /\ (snap[w] # None => meta.objectKey = Key(w)) /\ Key(w)' = Key(w)
    BY <1>3 DEF ReportedOutcomeTrue, Key
  <2>2. meta.state = "archived"
    BY <2>1 DEF CutoverInv, RowShape, TypeOK, Metadata
  <2> QED
    BY <1>1, <1>3, <2>1, <2>2, ArchivedStep
<1> QED
  BY <1>2, <1>3, DeletionAnswered

\* A worker whose deletion was answered is right that the hot rows are gone,
\* and that the bucket is archived under the key that it reports, although its
\* publication may have committed late or been asked for twice.
THEOREM ReportsAreTrue == Spec => []ReportedOutcomeTrue
<1>1. Init => OwnPublication /\ ReportedOutcomeTrue
  BY DEF Init, OwnPublication, ReportedOutcomeTrue
<1>2. CutoverInv /\ OwnPublication /\ ReportedOutcomeTrue /\ [Next]_vars
        => OwnPublication' /\ ReportedOutcomeTrue'
  BY NextMoves, OwnPublicationStep, OutcomeStep
<1> QED
  BY <1>1, <1>2, CutoverInvariant, PTL DEF Spec

-----------------------------------------------------------------------------
(* The readers, and that the whole system implements LogicalBucket.  Both  *)
(* rest on CutoverInv: what readers are entitled to only grows, and        *)
(* publication is final.                                                   *)

\* The inductive invariant of the readers.
ReadInv ==
    /\ RoutesCoherent
    /\ ReadsComplete
    /\ \A p \in Readers : reads[p].must \subseteq acked

\* A reader's own steps change neither the bucket nor its clients' view.
LEMMA ReadingIsQuiet ==
    ASSUME NEW p \in Readers, Reading(p)
    PROVE  UNCHANGED <<storeVars, acked>>
  BY DEF Reading, ReadBegin, RouteCached, RouteHot, RouteArchive,
     FetchArchive, ReadFails, EvictRoute

\* What a reader's step does to its read and to its cached route.
LEMMA ReadingEffect ==
    ASSUME CutoverInv, ReadInv, NEW p \in Readers, Reading(p)
    PROVE  /\ \A q \in Readers \ {p} : reads'[q] = reads[q]
           /\ \A w \in Workers :
                \/ routeCache'[w] \in {routeCache[w], None}
                \/ meta.state = "archived" /\ routeCache'[w] = meta.objectKey
           /\ \/ reads'[p] = reads[p]
              \/ /\ reads'[p].status # "fetch"
                 /\ reads'[p].result = None
                 /\ reads'[p].must \subseteq acked
              \/ /\ meta.state = "archived"
                 /\ reads'[p].key = meta.objectKey
                 /\ reads'[p].result = reads[p].result
                 /\ reads'[p].must = reads[p].must
              \/ /\ reads'[p].status = "idle"
                 /\ reads'[p].result = Contents
                 /\ reads'[p].must = reads[p].must
<1>1. /\ p \in Workers /\ reads[p] \in Read /\ reads \in [Readers -> Read]
      /\ routeCache \in [Workers -> Keys \cup {None}]
  BY WorkersAssumption DEF CutoverInv, TypeOK
<1>2. CASE ReadBegin(p)
  BY <1>1, <1>2 DEF ReadBegin, NoRead
<1>3. CASE RouteCached(p)
  BY <1>1, <1>3 DEF RouteCached, ReadInv, RoutesCoherent, Read
<1>4. CASE RouteHot(p)
  BY <1>1, <1>4 DEF RouteHot, Contents, Read
<1>5. CASE RouteArchive(p)
  BY <1>1, <1>5 DEF RouteArchive, Read
<1>6. CASE FetchArchive(p)
  BY <1>1, <1>6 DEF FetchArchive, ReadInv, RoutesCoherent, Contents, Read
<1>7. CASE ReadFails(p)
  BY <1>1, <1>7 DEF ReadFails, NoRead
<1>8. CASE EvictRoute(p)
  BY <1>1, <1>8 DEF EvictRoute, Invalidate
<1> QED
  BY <1>2, <1>3, <1>4, <1>5, <1>6, <1>7, <1>8 DEF Reading

\* Every step preserves the readers' invariant.
LEMMA ReadStep ==
    ASSUME CutoverInv, ReadInv, [Next]_vars
    PROVE  ReadInv'
<1>1. SharedMoves
  BY NextMoves
<1>2. Contents \subseteq Contents' /\ acked \subseteq acked'
  BY <1>1, DataStep DEF SharedMoves, AckedMoves
<1>3. meta.state = "archived" =>
        meta'.state = "archived" /\ meta'.objectKey = meta.objectKey
  BY <1>1, ArchivedStep
<1>4. /\ routeCache \in [Workers -> Keys \cup {None}]
      /\ reads \in [Readers -> Read]
      /\ Readers \subseteq Workers
  BY WorkersAssumption DEF CutoverInv, TypeOK
<1>5. ASSUME \A w \in Workers : routeCache'[w] \in {routeCache[w], None},
             \A p \in Readers : reads'[p] \in {reads[p], NoRead}
      PROVE  ReadInv'
  BY <1>2, <1>3, <1>5 DEF ReadInv, RoutesCoherent, ReadsComplete, NoRead
<1>6. CASE UNCHANGED <<routeCache, reads>>
  BY <1>5, <1>6
<1>7. CASE CacheDropped /\ UNCHANGED reads
  BY <1>4, <1>5, <1>7 DEF CacheDropped, Invalidate
<1>8. CASE \E w \in Workers : Crash(w)
  BY <1>4, <1>5, <1>8 DEF Crash, Invalidate
<1>9. ASSUME NEW p \in Readers, Reading(p)
      PROVE  ReadInv'
  <2>1. UNCHANGED <<meta, hot, acked>> /\ Contents' = Contents
    BY <1>9, ReadingIsQuiet DEF storeVars, Contents
  <2>2. acked \subseteq Contents
    BY DEF CutoverInv, AckedDurable
  <2>3. /\ \A q \in Readers \ {p} : reads'[q] = reads[q]
        /\ \A w \in Workers :
             \/ routeCache'[w] \in {routeCache[w], None}
             \/ meta.state = "archived" /\ routeCache'[w] = meta.objectKey
    BY <1>9, ReadingEffect
  <2>4. RoutesCoherent'
    BY <1>9, <2>1, <2>3, ReadingEffect DEF ReadInv, RoutesCoherent
  <2>5. \A q \in Readers : reads'[q].must \subseteq acked'
    BY <1>9, <2>1, <2>3, ReadingEffect DEF ReadInv
  <2>6. ReadsComplete'
    BY <1>9, <2>1, <2>2, <2>3, ReadingEffect DEF ReadInv, ReadsComplete
  <2> QED
    BY <2>4, <2>5, <2>6 DEF ReadInv
<1> QED
  BY <1>6, <1>7, <1>8, <1>9, ReaderFrame

\* Both inductive invariants hold in every reachable state.
LEMMA ReadInvariant == Spec => [](CutoverInv /\ ReadInv)
<1>1. Init => ReadInv
  BY WorkersAssumption DEF Init, ReadInv, RoutesCoherent, ReadsComplete, NoRead
<1>2. ReadInv /\ CutoverInv /\ [Next]_vars => ReadInv'
  BY ReadStep
<1> QED
  BY <1>1, <1>2, CutoverInvariant, PTL DEF Spec

\* A route cached by any process is the published route, although other
\* processes' caches are never invalidated.
THEOREM RoutesAlwaysCoherent == Spec => []RoutesCoherent
<1>1. ReadInv => RoutesCoherent
  BY DEF ReadInv
<1> QED
  BY <1>1, ReadInvariant, PTL

\* A finished read returned every record acknowledged before it began,
\* whichever tier answered and whatever the cutover did meanwhile.
THEOREM ReadsAlwaysComplete == Spec => []ReadsComplete
<1>1. ReadInv => ReadsComplete
  BY DEF ReadInv
<1> QED
  BY <1>1, ReadInvariant, PTL

-----------------------------------------------------------------------------
(* The system implements LogicalBucket. *)

\* A step that reads nothing maps to an append, to the sealing of the bucket
\* or to no step at all: claims, takeovers and cleanup are invisible.
LEMMA StoreStepRefines ==
    ASSUME CutoverInv, SharedMoves, UNCHANGED reads
    PROVE  [Logical!Next]_(Logical!vars)
<1> DEFINE answers == [p \in Readers |-> reads[p].result]
<1>1. PICK t \in Transactions : StoreStep(t) /\ Sound(t)
  BY DEF SharedMoves, StoreMoves
<1>2. \/ Touched \/ Grown \/ Claimed \/ CleanupClaimed
      \/ (t.op = "publish" /\ Published(t)) \/ Reopened \/ Cleaned
  BY <1>1, StoreStepEffect DEF CutoverInv, TypeOK
<1>3. answers' = answers
  OBVIOUS
<1>4. ASSUME hot' = hot \/ meta.state # "hot"
      PROVE  acked' = acked
  BY <1>4 DEF SharedMoves, AckedMoves, Append, AppendAllowed
<1>5. CASE \/ Touched \/ Claimed \/ CleanupClaimed \/ Reopened \/ Cleaned
  <2>1. acked' = acked
    BY <1>4, <1>5 DEF Touched, Claimed, CleanupClaimed, Reopened, Cleaned
  <2>2. Contents' = Contents
    BY <1>5 DEF Touched, Claimed, CleanupClaimed, Reopened, Cleaned, Contents
  <2>3. (meta.state = "archived")' = (meta.state = "archived")
    BY <1>5 DEF Touched, Claimed, CleanupClaimed, Reopened, Cleaned
  <2> QED
    BY <1>3, <2>1, <2>2, <2>3 DEF Logical!vars
<1>6. CASE t.op = "publish" /\ Published(t)
  <2>1. acked' = acked
    BY <1>4, <1>6 DEF Published
  <2>2. Contents' = Contents
    BY <1>1, <1>6 DEF Published, Sound, KeyOf, OwnsArchiving, Contents
  <2>3. meta.state # "archived" /\ meta'.state = "archived"
    BY <1>6 DEF Published, OwnsArchiving
  <2> QED
    BY <1>3, <2>1, <2>2, <2>3 DEF Logical!Next, Logical!Seal
<1>7. CASE Grown
  <2>1. PICK r \in Records \ hot : hot' = hot \cup {r}
    BY <1>7 DEF Grown
  <2>2. acked' \in {acked, acked \cup {r}}
    BY <2>1 DEF SharedMoves, AckedMoves, Append, AppendAllowed
  <2>3. meta.state = "hot" /\ meta'.state = "hot"
    BY <1>7 DEF Grown
  <2>4. Contents = hot /\ Contents' = hot'
    BY <2>3 DEF Contents
  <2> QED
    BY <1>3, <2>1, <2>2, <2>3, <2>4 DEF Logical!Next, Logical!Write
<1> QED
  BY <1>2, <1>5, <1>6, <1>7

\* A reader's step answers it with the bucket's contents at that moment, or
\* forgets its last answer, or is invisible.
LEMMA ReadingRefines ==
    ASSUME CutoverInv, ReadInv, NEW p \in Readers, Reading(p)
    PROVE  [Logical!Next]_(Logical!vars)
<1> DEFINE answers == [q \in Readers |-> reads[q].result]
<1>1. UNCHANGED <<meta, hot, acked>> /\ Contents' = Contents
  BY ReadingIsQuiet DEF storeVars, Contents
<1>2. \A q \in Readers \ {p} : reads'[q].result = reads[q].result
  BY ReadingEffect
<1>3. reads'[p].result \in {reads[p].result, None, Contents}
  BY ReadingEffect
<1>4. CASE reads'[p].result = reads[p].result
  <2>1. answers' = answers
    BY <1>2, <1>4
  <2> QED
    BY <1>1, <2>1 DEF Logical!vars
<1>5. CASE reads'[p].result = None
  <2>1. answers' = [answers EXCEPT ![p] = None]
    BY <1>2, <1>5
  <2> QED
    BY <1>1, <2>1 DEF Logical!Next, Logical!Forget
<1>6. CASE reads'[p].result = Contents
  <2>1. answers' = [answers EXCEPT ![p] = Contents]
    BY <1>2, <1>6
  <2> QED
    BY <1>1, <2>1 DEF Logical!Next, Logical!Answer
<1> QED
  BY <1>3, <1>4, <1>5, <1>6

\* A crash forgets the answer of the process that crashed.
LEMMA CrashRefines ==
    ASSUME CutoverInv, NEW w \in Workers, Crash(w)
    PROVE  [Logical!Next]_(Logical!vars)
<1> DEFINE answers == [q \in Readers |-> reads[q].result]
<1>1. UNCHANGED <<meta, hot, acked>> /\ Contents' = Contents
  BY DEF Crash, storeVars, Contents
<1>2. \A q \in Readers : reads'[q] = IF q = w THEN NoRead ELSE reads[q]
  BY DEF Crash
<1>3. CASE w \in Readers
  <2>1. \A q \in Readers :
          reads'[q].result = IF q = w THEN None ELSE reads[q].result
    BY <1>2 DEF NoRead
  <2>2. answers' = [answers EXCEPT ![w] = None]
    BY <1>3, <2>1
  <2> QED
    BY <1>1, <1>3, <2>2 DEF Logical!Next, Logical!Forget
<1>4. CASE w \notin Readers
  <2>1. answers' = answers
    BY <1>2, <1>4
  <2> QED
    BY <1>1, <2>1 DEF Logical!vars
<1> QED
  BY <1>3, <1>4

\* Archival is invisible to clients: with leases, takeovers, late commits and
\* crashes the system still implements a plain append-only set of records
\* that is sealed once and read atomically.
THEOREM CutoverImplementsLogicalBucket == Spec => ImplementsLogicalBucket
<1>1. Init => Logical!Init
  BY DEF Init, StoreInit, AbsentRow, NoRead, Contents, Logical!Init
<1>2. CutoverInv /\ ReadInv /\ [Next]_vars => [Logical!Next]_(Logical!vars)
  <2> SUFFICES ASSUME CutoverInv, ReadInv, [Next]_vars
               PROVE  [Logical!Next]_(Logical!vars)
    OBVIOUS
  <2>1. SharedMoves
    BY NextMoves
  <2>2. CASE UNCHANGED reads
    BY <2>1, <2>2, StoreStepRefines
  <2>3. CASE \E w \in Workers : Crash(w)
    BY <2>3, CrashRefines
  <2>4. CASE \E p \in Readers : Reading(p)
    BY <2>4, ReadingRefines
  <2> QED
    BY <2>2, <2>3, <2>4, ReaderFrame
<1> QED
  BY <1>1, <1>2, ReadInvariant, PTL DEF Spec, ImplementsLogicalBucket,
     Logical!Spec
=============================================================================
