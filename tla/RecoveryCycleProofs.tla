------------------------ MODULE RecoveryCycleProofs ------------------------
(***************************************************************************)
(* Proofs about RecoveryCycle, for any number of replicas and buckets, any *)
(* deadlines and any number of failures.                                   *)
(***************************************************************************)
EXTENDS RecoveryCycle, FiniteSetTheorems, WellFoundedInduction, TLAPS

Outcomes == [claimed : SUBSET Buckets, completed : SUBSET Buckets,
             deferred : SUBSET Buckets, answer : {"none", "ok"}]
WorkLists == [cleanup : SUBSET Buckets, cutover : SUBSET Buckets]
States == {"absent", "hot", "archiving", "archived", "cleaned"}
Fences == {"none", "live", "late", "lost"}

\* The states in which a row may be while the session on it is at work.
Worked == {"archiving", "archived", "cleaned"}

\* A session is of one bucket, and while the row is its own the row is neither
\* open for writes nor waiting for a retry.
SessionTrue(r) ==
    /\ \A a, b \in item[r] : a = b
    /\ \A b \in item[r] : fence[r] # "lost" => retry[b] = 0 /\ state[b] \in Worked

\* The books of a cycle: what it claimed is done or in hand, what it completed
\* is cleaned, nothing was deferred, and it answers with nothing in hand.
BooksKept(r) ==
    /\ outcome[r].claimed = outcome[r].completed \cup item[r]
    /\ outcome[r].deferred = {}
    /\ \A b \in outcome[r].completed : state[b] = "cleaned"
    /\ outcome[r].answer = "ok" => pc[r] \in Idle

\* A listed cleanup is of a bucket that was published, and stays so; before the
\* second scan there are no cutovers on the list.
ListTrue(r) ==
    /\ \A b \in todo[r].cleanup : state[b] \in {"archived", "cleaned"}
    /\ pc[r] \in Idle \cup {"scan"} => todo[r].cutover = {}

RunnerInv(r) == SessionTrue(r) /\ BooksKept(r) /\ ListTrue(r)

\* Of the sessions that replicas hold on a bucket, at most one is the row's.
OwnersApart ==
    \A r, q \in Runners : \A b \in Buckets : Owns(r, b) /\ Owns(q, b) => r = q

\* A bucket without a row waits for nothing.
NewRows == \A b \in Buckets : state[b] = "absent" => retry[b] = 0

CycleInv ==
    /\ TypeOK
    /\ \A r \in Runners : RunnerInv(r)
    /\ OwnersApart
    /\ NewRows
    /\ WorkListSound

-----------------------------------------------------------------------------
(* Lists.                                                                  *)

\* A set of naturals has a least member.
LEMMA LeastExists ==
    ASSUME NEW S \in SUBSET Nat, S # {}
    PROVE  \E b \in S : \A a \in S : b <= a
<1>1. PICK b \in S : \A a \in S : ~(<<a, b>> \in OpToRel(<, Nat))
  BY NatLessThanWellFounded, WFMin
<1>2. \A a \in S : ~(a < b)
  BY <1>1 DEF OpToRel
<1> QED
  BY <1>2

\* The next item of a list is a bucket on it (run_once).
LEMMA NextItemListed ==
    ASSUME TypeOK, NEW r \in Runners, todo[r] # NoWork
    PROVE  /\ NextItem(r) \in Buckets
           /\ NextItem(r) \in todo[r].cleanup \cup todo[r].cutover
<1>1. todo[r] \in [cleanup : SUBSET Buckets, cutover : SUBSET Buckets]
  BY DEF TypeOK
<1>2. todo[r].cleanup # {} \/ todo[r].cutover # {}
  BY <1>1 DEF NoWork
<1>3. ASSUME NEW S \in SUBSET Buckets, S # {}
      PROVE  Least(S) \in S
  BY <1>3, LeastExists, CycleAssumption DEF Least
<1> QED
  BY <1>1, <1>2, <1>3 DEF NextItem

\* LIMIT n returns at most n rows (discover_archive_work).
LEMMA LimitBounded ==
    ASSUME NEW S \in SUBSET Buckets, NEW n \in Nat
    PROVE  /\ Limit(S, n) \subseteq S
           /\ IsFiniteSet(Limit(S, n))
           /\ Cardinality(Limit(S, n)) <= n
<1> DEFINE L == Limit(S, n)
           Upto == [b \in S |-> {a \in S : a <= b}]
           Count == [b \in S |-> Cardinality(Upto[b])]
           Rest == {n - Count[b] : b \in L}
<1>1. IsFiniteSet(S) /\ S \subseteq Nat
  BY CycleAssumption, FS_Subset
<1>2. L \subseteq S /\ \A b \in L : Count[b] <= n
  BY DEF Limit
<1>3. IsFiniteSet(L) /\ Cardinality(L) \in Nat
  BY <1>1, <1>2, FS_Subset, FS_CardinalityType
<1>4. \A b \in S : Upto[b] \in SUBSET S
  OBVIOUS
<1>5. \A b \in S : IsFiniteSet(Upto[b]) /\ Count[b] \in Nat
  <2>1. \A b \in S : IsFiniteSet(Upto[b])
    BY <1>1, <1>4, FS_Subset
  <2> QED
    BY <2>1, FS_CardinalityType
<1>6. \A a, b \in S : b < a => /\ Upto[b] \in SUBSET Upto[a]
                             /\ Upto[b] # Upto[a]
  <2> SUFFICES ASSUME NEW a \in S, NEW b \in S, b < a
               PROVE  Upto[b] \in SUBSET Upto[a] /\ Upto[b] # Upto[a]
    OBVIOUS
  <2>1. a \in Nat /\ b \in Nat
    BY <1>1
  <2>2. \A c \in S : c \in Nat
    BY <1>1
  <2>3. \A c \in Upto[b] : c \in Upto[a]
    BY <2>1, <2>2
  <2>4. a \in Upto[a] /\ a \notin Upto[b]
    BY <2>1
  <2> HIDE DEF Upto
  <2> QED
    BY <2>3, <2>4
<1>7. \A b \in S : \A T \in SUBSET Upto[b] : Cardinality(T) <= Count[b]
  BY <1>5, FS_Subset
<1>8. \A a, b \in S : b < a => Count[b] # Count[a]
  BY <1>5, <1>6, FS_Subset
<1>9. \A b \in S : \A T \in SUBSET S : (\A a \in T : a <= b) => T \in SUBSET Upto[b]
  OBVIOUS
<1>10. CASE L = {}
  BY <1>10, <1>2, <1>3, FS_EmptySet
<1>11. CASE L # {}
  <2> HIDE DEF L, Upto
  <2>1. \A a, b \in S : b < a => Count[b] < Count[a]
    <3> SUFFICES ASSUME NEW a \in S, NEW b \in S, b < a
                 PROVE  Count[b] < Count[a]
      OBVIOUS
    <3>1. Cardinality(Upto[b]) <= Count[a]
      BY <1>6, <1>7
    <3> QED
      BY <3>1, <1>5, <1>8
  <2> HIDE DEF Count
  <2>2. Rest \in SUBSET Nat /\ Rest # {}
    BY <1>2, <1>5, <1>11
  <2>3. PICK m \in Rest : \A k \in Rest : m <= k
    BY <2>2, LeastExists
  <2>4. PICK b \in L : m = n - Count[b]
    BY <2>3
  <2>5. \A a \in L : Count[a] <= Count[b]
    <3> SUFFICES ASSUME NEW a \in L PROVE Count[a] <= Count[b]
      OBVIOUS
    <3>1. n - Count[a] \in Rest
      OBVIOUS
    <3>2. n - Count[b] <= n - Count[a]
      BY <3>1, <2>3, <2>4
    <3> QED
      BY <3>2, <1>2, <1>5
  <2>6. \A a \in L : a <= b
    BY <2>1, <2>5, <1>1, <1>2, <1>5
  <2>7. Cardinality(L) <= Count[b]
    BY <2>6, <1>2, <1>7, <1>9
  <2> QED
    BY <2>7, <1>2, <1>3, <1>5 DEF L
<1> QED
  BY <1>10, <1>11

-----------------------------------------------------------------------------
(* What a step of one runner leaves to the others.                         *)

\* A later claim may take the row from q's session; nothing else of q changes.
SameRunner(q) ==
    /\ pc'[q] = pc[q] /\ item'[q] = item[q] /\ outcome'[q] = outcome[q] /\ todo'[q] = todo[q]
    /\ fence'[q] \in {fence[q], "lost"}

SameRow(b) == state'[b] = state[b] /\ retry'[b] = retry[b]

Published == {"archived", "cleaned"}

\* A published row stays published, a cleaned one cleaned.
Forward(b) ==
    /\ state[b] \in Published => state'[b] \in Published
    /\ state[b] = "cleaned" => state'[b] = "cleaned"

\* A runner does not notice that rows which are not its session's move forward.
LEMMA RunnerKept ==
    ASSUME CycleInv, NEW q \in Runners, SameRunner(q),
           \A b \in Buckets : Forward(b),
           \A b \in item[q] : fence'[q] # "lost" => SameRow(b)
    PROVE  RunnerInv(q)'
<1> USE DEF SameRunner
<1>1. RunnerInv(q) /\ item[q] \subseteq Buckets /\ todo[q].cleanup \subseteq Buckets
      /\ outcome[q].completed \subseteq Buckets
  BY DEF CycleInv, TypeOK
<1>2. SessionTrue(q)'
  BY <1>1 DEF RunnerInv, SessionTrue, SameRow
<1>3. BooksKept(q)'
  BY <1>1 DEF RunnerInv, BooksKept, Forward
<1>4. ListTrue(q)'
  BY <1>1 DEF RunnerInv, ListTrue, Forward, Published
<1> QED
  BY <1>2, <1>3, <1>4 DEF RunnerInv

\* A list that loses items stays sound.
LEMMA ListsShrink ==
    ASSUME CycleInv,
           \A r \in Runners : /\ todo'[r].cleanup \subseteq todo[r].cleanup
                              /\ todo'[r].cutover \subseteq todo[r].cutover
    PROVE  WorkListSound'
<1> SUFFICES ASSUME NEW r \in Runners
             PROVE  /\ Cardinality(todo'[r].cleanup \cup todo'[r].cutover) <= ScanLimit
                    /\ todo'[r].cleanup \cap todo'[r].cutover = {}
  BY DEF WorkListSound
<1> DEFINE old == todo[r].cleanup \cup todo[r].cutover
           new == todo'[r].cleanup \cup todo'[r].cutover
<1>1. old \in SUBSET Buckets /\ new \in SUBSET old
  BY DEF CycleInv, TypeOK
<1>2. IsFiniteSet(old)
  BY <1>1, CycleAssumption, FS_Subset
<1>3. Cardinality(new) <= Cardinality(old) /\ Cardinality(new) \in Nat /\ Cardinality(old) \in Nat
  BY <1>1, <1>2, FS_Subset, FS_CardinalityType
<1>4. Cardinality(old) <= ScanLimit /\ todo[r].cleanup \cap todo[r].cutover = {}
  BY DEF CycleInv, WorkListSound
<1>5. Cardinality(new) <= ScanLimit
  BY <1>3, <1>4, CycleAssumption
<1>6. todo'[r].cleanup \cap todo'[r].cutover = {}
  BY <1>4
<1> QED
  BY <1>5, <1>6

-----------------------------------------------------------------------------
(* The steps that leave the rows' states alone.                            *)

\* Nothing is claimed, held or reported at the start (main).
LEMMA CycleInit == Init => CycleInv
<1> SUFFICES ASSUME Init PROVE CycleInv
  OBVIOUS
<1>1. TypeOK
  BY CycleAssumption DEF Init, TypeOK, NoWork, NoOutcome, Locations, Idle, Supervised, Phases, Deferrals
<1>2. \A r \in Runners : RunnerInv(r)
  BY DEF Init, RunnerInv, SessionTrue, BooksKept, ListTrue, NoWork, NoOutcome, Idle
<1>3. OwnersApart /\ NewRows
  BY DEF Init, OwnersApart, Owns, NewRows
<1>4. \A r \in Runners : todo[r].cleanup \cup todo[r].cutover = {}
                         /\ todo[r].cleanup \cap todo[r].cutover = {}
  BY DEF Init, NoWork
<1>5. WorkListSound
  BY <1>4, FS_EmptySet, CycleAssumption DEF WorkListSound
<1> QED
  BY <1>1, <1>2, <1>3, <1>5 DEF CycleInv

\* Clocks, leases and heartbeats: whoever a row belongs to keeps it.
LEMMA QuietStep ==
    ASSUME CycleInv, TypeOK',
           UNCHANGED <<state, pc, todo, item, fence, outcome>>,
           \A b \in Buckets : retry[b] = 0 => retry'[b] = 0
    PROVE  CycleInv'
<1>1. ASSUME NEW q \in Runners PROVE RunnerInv(q)'
  BY DEF CycleInv, TypeOK, RunnerInv, SessionTrue, BooksKept, ListTrue
<1>2. OwnersApart' /\ NewRows' /\ WorkListSound'
  BY DEF CycleInv, OwnersApart, Owns, NewRows, WorkListSound
<1> QED
  BY <1>1, <1>2 DEF CycleInv

\* One tick (archive_owner_expires_at and archive_next_attempt_at against now()).
LEMMA TickStep == ASSUME CycleInv, Tick PROVE CycleInv'
<1>1. TypeOK'
  <2>1. lease' \in [Buckets -> Nat] /\ retry' \in [Buckets -> 0 .. Backoff]
    <3>1. LeaseFor \in Nat /\ Backoff \in Nat
      BY CycleAssumption
    <3>2. \A b \in Buckets : lease[b] \in Nat /\ retry[b] \in 0 .. Backoff
      BY DEF CycleInv, TypeOK
    <3>3. \A b \in Buckets : /\ CountDown(lease[b]) \in Nat
                             /\ CountDown(retry[b]) \in 0 .. Backoff
      BY <3>1, <3>2 DEF CountDown
    <3> QED
      BY <3>1, <3>3 DEF Tick
  <2>2. timer' \in [Runners -> -Lag .. Interval]
    BY CycleAssumption DEF CycleInv, TypeOK, Tick
  <2> QED
    BY <2>1, <2>2 DEF CycleInv, TypeOK, Tick, session
<1> QED
  BY <1>1, QuietStep DEF Tick, session, CountDown

\* The heartbeat's failures, a lapse under it, and the calendar.
LEMMA BeatStep ==
    ASSUME CycleInv,
           \/ NewYear
           \/ \E b \in Buckets : Lapse(b)
           \/ \E r \in Runners : RenewalRefused(r) \/ RenewalFails(r)
    PROVE  CycleInv'
<1>1. CASE NewYear
  <2>1. TypeOK'
    BY <1>1, CycleAssumption DEF CycleInv, TypeOK, NewYear, store, session
  <2> QED
    BY <1>1, <2>1, QuietStep DEF NewYear, store, session
<1>2. ASSUME NEW b \in Buckets, Lapse(b) PROVE CycleInv'
  <2>1. TypeOK'
    BY <1>2, CycleAssumption DEF CycleInv, TypeOK, Lapse, Fault, session
  <2> QED
    BY <1>2, <2>1, QuietStep DEF Lapse, session
<1>3. ASSUME NEW r \in Runners, RenewalRefused(r) PROVE CycleInv'
  <2>1. TypeOK'
    BY <1>3 DEF CycleInv, TypeOK, RenewalRefused, BeatFails, store
  <2> QED
    BY <1>3, <2>1, QuietStep DEF RenewalRefused, store
<1>4. ASSUME NEW r \in Runners, RenewalFails(r) PROVE CycleInv'
  <2>1. lease' \in [Buckets -> Nat]
    BY <1>4, CycleAssumption DEF CycleInv, TypeOK, RenewalFails
  <2>2. TypeOK'
    BY <1>4, <2>1, CycleAssumption DEF CycleInv, TypeOK, RenewalFails, BeatFails, Fault
  <2> QED
    BY <1>4, <2>2, QuietStep DEF RenewalFails
<1> QED
  BY <1>1, <1>2, <1>3, <1>4

\* A process starts (main).
LEMMA StartStep == ASSUME CycleInv, NEW r \in Runners, Start(r) PROVE CycleInv'
<1>1. TypeOK'
  BY CycleAssumption
  DEF CycleInv, TypeOK, Start, store, session, Locations, Idle, Supervised, Phases, Deferrals
<1>2. ASSUME NEW q \in Runners PROVE RunnerInv(q)'
  BY DEF CycleInv, TypeOK, Start, store, session, RunnerInv, SessionTrue, BooksKept, ListTrue, Idle
<1> QED
  BY <1>1, <1>2 DEF CycleInv, Start, store, session, OwnersApart, Owns, NewRows, WorkListSound

\* The first append to a bucket: nobody owns or lists a row that is absent.
LEMMA AppearStep == ASSUME CycleInv, NEW b \in Buckets, Appear(b) PROVE CycleInv'
<1>1. TypeOK'
  BY DEF CycleInv, TypeOK, Appear, session
<1>2. ASSUME NEW q \in Runners PROVE RunnerInv(q)'
  <2>1. \A c \in item[q] : fence[q] # "lost" => state[c] # "absent"
    BY DEF CycleInv, TypeOK, RunnerInv, SessionTrue, Worked
  <2>2. \A c \in item[q] : fence[q] # "lost" => SameRow(c)
    BY <2>1 DEF CycleInv, TypeOK, Appear, SameRow
  <2>3. \A c \in Buckets : Forward(c)
    BY DEF CycleInv, TypeOK, Appear, Forward, Published
  <2> QED
    BY <2>2, <2>3, RunnerKept DEF Appear, session, SameRunner
<1>3. NewRows'
  BY DEF CycleInv, TypeOK, Appear, NewRows
<1> QED
  BY <1>1, <1>2, <1>3 DEF CycleInv, Appear, session, OwnersApart, Owns, WorkListSound

-----------------------------------------------------------------------------
(* The steps of a runner.                                                  *)

\* What runner r may do to the rows: published ones stay published, and those that
\* belong to other sessions stay as they are.
StoreMoves(r) ==
    /\ state' \in [Buckets -> States]
    /\ lease' \in [Buckets -> Nat]
    /\ retry' \in [Buckets -> 0 .. Backoff]
    /\ \A b \in Buckets : Forward(b)
    /\ NewRows'
    /\ \A q \in Runners \ {r} : \A b \in item[q] : fence'[q] # "lost" => SameRow(b)

\* No change of the rows.
LEMMA NoMove == ASSUME CycleInv, NEW r \in Runners, UNCHANGED store PROVE StoreMoves(r)
BY DEF CycleInv, TypeOK, store, StoreMoves, Forward, SameRow, NewRows, States

\* A claim takes the row from whatever session had it (claim_archive,
\* claim_cleanup).
LEMMA ClaimMoves ==
    ASSUME CycleInv, NEW r \in Runners, NEW b \in Buckets,
           b \in todo[r].cleanup \cup todo[r].cutover,
           Claimable(r, b), ClaimedRow(r, b),
           \A q \in Runners \ {r} : b \in item[q] => fence'[q] = "lost"
    PROVE  StoreMoves(r)
<1>1. \A q \in Runners : item[q] \subseteq Buckets
  BY DEF CycleInv, TypeOK
<1>2. \A c \in Buckets \ {b} : SameRow(c) /\ Forward(c)
  BY DEF CycleInv, TypeOK, ClaimedRow, SameRow, Forward
<1>3. Forward(b)
  BY DEF CycleInv, TypeOK, ClaimedRow, Claimable, CutoverDue, Forward, Published
<1>4. state' \in [Buckets -> States]
  BY DEF CycleInv, TypeOK, ClaimedRow, States
<1>5. lease' \in [Buckets -> Nat] /\ retry' \in [Buckets -> 0 .. Backoff] /\ retry'[b] = 0
  BY CycleAssumption DEF CycleInv, TypeOK, ClaimedRow
<1>6. NewRows'
  BY <1>2, <1>5 DEF CycleInv, NewRows, SameRow
<1> QED
  BY <1>1, <1>2, <1>3, <1>4, <1>5, <1>6 DEF StoreMoves

\* What a session does to its own row is no other session's business.
LEMMA OwnRowMoves ==
    ASSUME CycleInv, NEW r \in Runners, NEW b \in Buckets, b \in item[r], fence[r] # "lost",
           \A q \in Runners \ {r} : fence'[q] = fence[q],
           NEW s \in States \ {"absent"}, NEW l \in Nat, NEW n \in 0 .. Backoff,
           state' = [state EXCEPT ![b] = s],
           lease' = [lease EXCEPT ![b] = l],
           retry' = [retry EXCEPT ![b] = n],
           state[b] \in Published => s \in Published,
           state[b] = "cleaned" => s = "cleaned"
    PROVE  StoreMoves(r)
<1>1. \A q \in Runners \ {r} : /\ item[q] \subseteq Buckets
                               /\ b \in item[q] => fence[q] = "lost"
  BY DEF CycleInv, TypeOK, OwnersApart, Owns
<1>2. \A c \in Buckets \ {b} : SameRow(c) /\ Forward(c)
  BY DEF CycleInv, TypeOK, SameRow, Forward
<1>3. Forward(b) /\ state'[b] # "absent"
  BY DEF CycleInv, TypeOK, Forward
<1>4. /\ state' \in [Buckets -> States]
      /\ lease' \in [Buckets -> Nat]
      /\ retry' \in [Buckets -> 0 .. Backoff]
  BY DEF CycleInv, TypeOK, States
<1>5. NewRows'
  BY <1>2, <1>3 DEF CycleInv, NewRows, SameRow
<1> QED
  BY <1>1, <1>2, <1>3, <1>4, <1>5 DEF StoreMoves

\* A call that takes effect: the row is the session's and in the state that the
\* call expects (publish_archive, delete_hot_bucket, the deferrals).
LEMMA EffectMoves ==
    ASSUME CycleInv, NEW r \in Runners, TakesEffect(r), item[r] # {},
           \A q \in Runners \ {r} : fence'[q] = fence[q]
    PROVE  /\ StoreMoves(r)
           /\ pc[r] \in Phases => \A b \in item[r] : retry'[b] = retry[b] /\ state'[b] \in Worked
           /\ pc[r] = "clean" => \A b \in item[r] : state'[b] = "cleaned"
<1>1. PICK b \in Buckets : item[r] = {b}
  BY DEF CycleInv, TypeOK, RunnerInv, SessionTrue
<1>2. /\ pc[r] \in {"publish", "defer_cutover", "clean", "defer_cleanup"}
      /\ fence[r] = "live" /\ state[b] = Expects[pc[r]] /\ RowAfter(pc[r], b)
  BY <1>1 DEF TakesEffect, Admitted, Expects
<1>3. state[b] = IF pc[r] \in {"publish", "defer_cutover"} THEN "archiving" ELSE "archived"
  BY <1>2 DEF Expects
<1> DEFINE s == CASE pc[r] = "publish" -> "archived"
                  [] pc[r] = "clean" -> "cleaned"
                  [] pc[r] = "defer_cutover" -> "hot"
                  [] OTHER -> state[b]
           l == CASE pc[r] \in {"clean", "defer_cutover"} -> 0
                  [] pc[r] = "defer_cleanup" -> Backoff
                  [] OTHER -> lease[b]
           n == IF pc[r] \in Deferrals THEN Backoff ELSE retry[b]
<1>4. /\ s \in States \ {"absent"}
      /\ state[b] \in Published => s \in Published
      /\ state[b] = "cleaned" => s = "cleaned"
      /\ pc[r] \in Phases => s \in Worked
      /\ pc[r] = "clean" => s = "cleaned"
  BY <1>2, <1>3 DEF Published, States, Worked, Phases
<1>5. l \in Nat /\ n \in 0 .. Backoff
  BY CycleAssumption DEF CycleInv, TypeOK
<1>6. state' = [state EXCEPT ![b] = s]
  BY <1>2 DEF RowAfter
<1>7. lease' = [lease EXCEPT ![b] = l]
  BY <1>2 DEF RowAfter
<1>8. retry' = [retry EXCEPT ![b] = n]
  BY <1>2 DEF RowAfter
<1>9. pc[r] \in Phases => n = retry[b]
  BY DEF Phases, Deferrals
<1> HIDE DEF s, l, n
<1>10. StoreMoves(r)
  BY <1>1, <1>2, <1>4, <1>5, <1>6, <1>7, <1>8, OwnRowMoves
<1>11. state'[b] = s /\ retry'[b] = n
  BY <1>6, <1>8 DEF CycleInv, TypeOK
<1> QED
  BY <1>1, <1>4, <1>9, <1>10, <1>11

\* What a step of runner r has to show.
LEMMA StepKept ==
    ASSUME CycleInv, NEW r \in Runners,
           \A q \in Runners \ {r} : SameRunner(q),
           StoreMoves(r),
           \A q \in Runners \ {r} : \A b \in Buckets : ~(Owns(r, b)' /\ Owns(q, b)'),
           TypeOK', RunnerInv(r)', WorkListSound'
    PROVE  CycleInv'
<1>1. \A q \in Runners \ {r} : RunnerInv(q)'
  BY RunnerKept DEF StoreMoves
<1>2. ASSUME NEW p \in Runners \ {r}, NEW q \in Runners \ {r}, NEW b \in Buckets,
             Owns(p, b)', Owns(q, b)'
      PROVE  p = q
  <2>1. Owns(p, b) /\ Owns(q, b)
    BY <1>2 DEF SameRunner, Owns
  <2> QED
    BY <2>1 DEF CycleInv, OwnersApart
<1>3. OwnersApart'
  BY <1>2 DEF OwnersApart
<1> QED
  BY <1>1, <1>3 DEF CycleInv, StoreMoves

\* The runner gives up what it held: a crash, or the end of a cycle.
LEMMA ReleaseStep ==
    ASSUME CycleInv, NEW r \in Runners,
           StoreMoves(r), UNCHANGED <<year, cutoff>>,
           faults' \in 0 .. MaxFaults,
           \E p \in Idle : pc' = [pc EXCEPT ![r] = p],
           \E n \in 0 .. Interval : timer' = [timer EXCEPT ![r] = n],
           todo' = [todo EXCEPT ![r] = NoWork],
           item' = [item EXCEPT ![r] = {}],
           fence' \in [Runners -> Fences],
           \A q \in Runners \ {r} : fence'[q] \in {fence[q], "lost"},
           beat' \in [Runners -> {"off", "on", "failed"}],
           \/ outcome' = [outcome EXCEPT ![r] = NoOutcome]
           \/ item[r] = {} /\ outcome' = [outcome EXCEPT ![r].answer = "ok"]
    PROVE  CycleInv'
<1>1. TypeOK'
  <2>1. pc' \in [Runners -> Locations] /\ pc'[r] \in Idle
    BY DEF CycleInv, TypeOK, Locations
  <2>2. timer' \in [Runners -> -Lag .. Interval]
    BY CycleAssumption DEF CycleInv, TypeOK
  <2>3. todo' \in [Runners -> WorkLists]
    BY DEF CycleInv, TypeOK, NoWork, WorkLists
  <2>4. outcome' \in [Runners -> Outcomes]
    <3>1. outcome \in [Runners -> Outcomes] /\ outcome[r] \in Outcomes
      BY DEF CycleInv, TypeOK, Outcomes
    <3>2. outcome'[r] \in Outcomes
      <4>1. CASE outcome' = [outcome EXCEPT ![r] = NoOutcome]
        BY <3>1, <4>1 DEF NoOutcome, Outcomes
      <4>2. CASE outcome' = [outcome EXCEPT ![r].answer = "ok"]
        <5>1. outcome'[r] = [outcome[r] EXCEPT !.answer = "ok"]
          BY <3>1, <4>2
        <5> QED
          BY <5>1, <3>1 DEF Outcomes
      <4> QED
        BY <4>1, <4>2
    <3> QED
      BY <3>1, <3>2
  <2>5. item' \in [Runners -> SUBSET Buckets]
    BY DEF CycleInv, TypeOK
  <2>6. \A q \in Runners : pc'[q] \notin Supervised <=> item'[q] = {}
    BY <2>1 DEF CycleInv, TypeOK, Idle, Supervised, Phases, Deferrals
  <2> QED
    BY <2>1, <2>2, <2>3, <2>4, <2>5, <2>6
    DEF CycleInv, TypeOK, StoreMoves, States, Fences, WorkLists, Outcomes
<1>2. RunnerInv(r)'
  <2>1. item'[r] = {} /\ SessionTrue(r)'
    BY DEF CycleInv, TypeOK, SessionTrue
  <2>2. BooksKept(r)'
    <3>1. CASE outcome' = [outcome EXCEPT ![r] = NoOutcome]
      BY <2>1, <3>1 DEF CycleInv, TypeOK, BooksKept, NoOutcome
    <3>2. CASE item[r] = {} /\ outcome' = [outcome EXCEPT ![r].answer = "ok"]
      <4>1. /\ outcome'[r].claimed = outcome[r].claimed
            /\ outcome'[r].completed = outcome[r].completed
            /\ outcome'[r].deferred = outcome[r].deferred
        BY <3>2 DEF CycleInv, TypeOK
      <4>2. item'[r] = item[r] /\ pc'[r] \in Idle
        BY <3>2 DEF CycleInv, TypeOK
      <4>3. \A b \in outcome[r].completed : state'[b] = "cleaned"
        BY DEF CycleInv, TypeOK, RunnerInv, BooksKept, StoreMoves, Forward
      <4> QED
        BY <4>1, <4>2, <4>3 DEF CycleInv, RunnerInv, BooksKept
    <3> QED
      BY <3>1, <3>2
  <2>3. ListTrue(r)'
    BY DEF CycleInv, TypeOK, ListTrue, NoWork, Idle
  <2> QED
    BY <2>1, <2>2, <2>3 DEF RunnerInv
<1>3. \A q \in Runners \ {r} : SameRunner(q)
  BY DEF CycleInv, TypeOK, SameRunner
<1>4. WorkListSound'
  BY ListsShrink DEF CycleInv, TypeOK, NoWork
<1>5. \A b \in Buckets : ~Owns(r, b)'
  BY DEF CycleInv, TypeOK, Owns
<1> QED
  BY <1>1, <1>2, <1>3, <1>4, <1>5, StepKept

\* The heartbeat stops with the session.
LEMMA OverTypes ==
    ASSUME CycleInv, NEW r \in Runners, SessionOver(r)
    PROVE  /\ item' = [item EXCEPT ![r] = {}]
           /\ fence' \in [Runners -> Fences]
           /\ \A q \in Runners \ {r} : fence'[q] = fence[q]
           /\ beat' \in [Runners -> {"off", "on", "failed"}]
BY DEF CycleInv, TypeOK, SessionOver, Fences

\* A crash forgets what the process had (the process is killed).
LEMMA CrashStep == ASSUME CycleInv, NEW r \in Runners, Crash(r) PROVE CycleInv'
<1>1. faults' \in 0 .. MaxFaults
  BY CycleAssumption DEF CycleInv, TypeOK, Crash, Fault
<1>2. \E n \in 0 .. Interval : timer' = [timer EXCEPT ![r] = n]
  <2>1. 0 \in 0 .. Interval
    BY CycleAssumption
  <2> QED
    BY <2>1 DEF Crash
<1>3. \E p \in Idle : pc' = [pc EXCEPT ![r] = p]
  BY DEF Crash, Idle
<1> QED
  BY <1>1, <1>2, <1>3, OverTypes, ReleaseStep, NoMove DEF Crash

\* run_once returns: at the end of its list, or with an error.
LEMMA CycleReturns ==
    ASSUME CycleInv, NEW r \in Runners, StoreMoves(r), Sleep(r),
           UNCHANGED faults \/ Fault, UNCHANGED <<year, cutoff>>,
           \/ outcome' = [outcome EXCEPT ![r] = NoOutcome]
           \/ item[r] = {} /\ outcome' = [outcome EXCEPT ![r].answer = "ok"]
    PROVE  CycleInv'
<1>1. faults' \in 0 .. MaxFaults
  BY CycleAssumption DEF CycleInv, TypeOK, Fault
<1>2. \E n \in 0 .. Interval : timer' = [timer EXCEPT ![r] = n]
  <2>1. Interval \in 0 .. Interval
    BY CycleAssumption
  <2> QED
    BY <2>1 DEF Sleep
<1>3. \E p \in Idle : pc' = [pc EXCEPT ![r] = p]
  BY DEF Sleep, Idle
<1> QED
  BY <1>1, <1>2, <1>3, OverTypes, ReleaseStep DEF Sleep

\* The list is done, or a scan or a claim failed (run_once).
LEMMA CycleEndsStep ==
    ASSUME CycleInv, NEW r \in Runners, CycleEnds(r) \/ ScanFails(r) \/ ClaimFails(r)
    PROVE  CycleInv'
<1>1. CycleEnds(r) => item[r] = {}
  BY DEF CycleInv, TypeOK, CycleEnds, Supervised, Phases, Deferrals
<1>2. StoreMoves(r)
  BY NoMove DEF CycleEnds, ScanFails, ClaimFails
<1> QED
  BY <1>1, <1>2, CycleReturns DEF CycleEnds, ScanFails, ClaimFails, Abandon

\* A claim takes the row from every session that was on it.
LEMMA FencedTypes ==
    ASSUME CycleInv, NEW b \in Buckets
    PROVE  /\ Fenced(b) \in [Runners -> Fences]
           /\ \A q \in Runners : /\ Fenced(b)[q] \in {fence[q], "lost"}
                                 /\ b \in item[q] => Fenced(b)[q] = "lost"
BY DEF CycleInv, TypeOK, Fenced, Fences

\* A claim that committed unheard (recover_cutover, recover_cleanup).
LEMMA ClaimLostStep == ASSUME CycleInv, NEW r \in Runners, ClaimAnswerLost(r) PROVE CycleInv'
<1> DEFINE b == NextItem(r)
<1>1. b \in Buckets /\ b \in todo[r].cleanup \cup todo[r].cutover
  BY NextItemListed DEF ClaimAnswerLost, CycleInv
<1>2. Claimable(r, b) /\ ClaimedRow(r, b) /\ fence' = Fenced(b)
  BY DEF ClaimAnswerLost
<1> HIDE DEF b
<1>3. StoreMoves(r)
  BY <1>1, <1>2, FencedTypes, ClaimMoves
<1>4. item[r] = {}
  BY DEF CycleInv, TypeOK, ClaimAnswerLost, Supervised, Phases, Deferrals
<1>5. item' = [item EXCEPT ![r] = {}] /\ beat' \in [Runners -> {"off", "on", "failed"}]
  BY <1>4 DEF CycleInv, TypeOK, ClaimAnswerLost
<1>6. faults' \in 0 .. MaxFaults
  BY CycleAssumption DEF CycleInv, TypeOK, ClaimAnswerLost, Fault
<1>7. \E n \in 0 .. Interval : timer' = [timer EXCEPT ![r] = n]
  <2>1. Interval \in 0 .. Interval
    BY CycleAssumption
  <2> QED
    BY <2>1 DEF ClaimAnswerLost
<1>8. \E p \in Idle : pc' = [pc EXCEPT ![r] = p]
  BY DEF ClaimAnswerLost, Idle
<1>9. fence' \in [Runners -> Fences] /\ \A q \in Runners \ {r} : fence'[q] \in {fence[q], "lost"}
  BY <1>1, <1>2, FencedTypes
<1> QED
  BY <1>3, <1>5, <1>6, <1>7, <1>8, <1>9, ReleaseStep DEF ClaimAnswerLost

\* A session that ends in an error, its last call made or not: the deferral, a
\* call drained after the heartbeat failed, a deletion whose renewal was refused.
LEMMA ErrorStep ==
    ASSUME CycleInv, NEW r \in Runners,
           StateEnds(r) \/ DeferEnds(r) \/ Drained(r) \/ CleanOvertaken(r)
    PROVE  CycleInv'
<1>1. Sleep(r) /\ outcome' = [outcome EXCEPT ![r] = NoOutcome]
  BY DEF StateEnds, DeferEnds, Drained, CleanOvertaken, EndInError, Abandon
<1>2. \A q \in Runners \ {r} : fence'[q] = fence[q]
  BY <1>1, OverTypes DEF Sleep
<1>3. (UNCHANGED store \/ TakesEffect(r)) /\ (UNCHANGED faults \/ Fault) /\ UNCHANGED <<year, cutoff>>
  BY DEF StateEnds, DeferEnds, Drained, CleanOvertaken
<1>4. CASE UNCHANGED store
  BY <1>1, <1>3, <1>4, NoMove, CycleReturns
<1>5. CASE TakesEffect(r)
  <2>1. pc[r] \in Supervised
    BY <1>5 DEF TakesEffect, Admitted, Expects, Supervised, Phases, Deferrals
  <2>2. item[r] # {}
    BY <2>1 DEF CycleInv, TypeOK
  <2>3. StoreMoves(r)
    BY <1>2, <1>5, <2>2, EffectMoves
  <2> QED
    BY <1>1, <1>3, <2>3, CycleReturns
<1> QED
  BY <1>3, <1>4, <1>5

-----------------------------------------------------------------------------
(* The steps within a cycle.                                               *)

\* The first statement of discover_archive_work.
LEMMA ScanCleanupsStep == ASSUME CycleInv, NEW r \in Runners, ScanCleanups(r) PROVE CycleInv'
<1> DEFINE due == {b \in Buckets : CleanupDue(b)}
           found == Limit(due, ScanLimit)
<1>1. found \subseteq due /\ Cardinality(found) <= ScanLimit
  BY LimitBounded, CycleAssumption
<1>2. todo' = [todo EXCEPT ![r].cleanup = found]
  BY DEF ScanCleanups
<1> HIDE DEF found
<1>3. item[r] = {} /\ todo[r].cutover = {}
  BY DEF ScanCleanups, CycleInv, TypeOK, RunnerInv, ListTrue, Idle, Supervised, Phases, Deferrals
<1>4. /\ todo[r] \in WorkLists
      /\ todo \in [Runners -> WorkLists]
  BY DEF CycleInv, TypeOK, WorkLists
<1>5. todo'[r].cleanup = found /\ todo'[r].cutover = {}
  BY <1>2, <1>3, <1>4 DEF WorkLists
<1>6. todo' \in [Runners -> WorkLists]
  BY <1>1, <1>2, <1>4 DEF WorkLists
<1>7. pc'[r] = "scan" /\ item'[r] = {} /\ outcome'[r] = NoOutcome
  BY <1>3 DEF ScanCleanups, CycleInv, TypeOK, session
<1>8. TypeOK'
  <2>1. pc' \in [Runners -> Locations]
    BY DEF ScanCleanups, CycleInv, TypeOK, Locations
  <2>2. outcome' \in [Runners -> Outcomes]
    BY DEF ScanCleanups, CycleInv, TypeOK, NoOutcome, Outcomes
  <2>3. \A q \in Runners : pc'[q] \notin Supervised <=> item'[q] = {}
    BY <1>7 DEF ScanCleanups, CycleInv, TypeOK, session, Supervised, Phases, Deferrals
  <2> QED
    BY <1>6, <2>1, <2>2, <2>3
    DEF ScanCleanups, CycleInv, TypeOK, store, session, WorkLists, Outcomes
<1>9. RunnerInv(r)'
  <2>1. \A b \in found : state'[b] = "archived"
    BY <1>1 DEF CleanupDue, ScanCleanups, store
  <2> QED
    BY <2>1, <1>5, <1>7 DEF RunnerInv, SessionTrue, BooksKept, ListTrue, NoOutcome, Idle
<1>10. WorkListSound'
  <2>1. ASSUME NEW q \in Runners \ {r} PROVE todo'[q] = todo[q]
    BY <1>2, <1>4
  <2>2. todo'[r].cleanup \cup todo'[r].cutover = found
    BY <1>5
  <2> QED
    BY <1>1, <1>5, <2>1, <2>2 DEF WorkListSound, CycleInv
<1>11. \A q \in Runners \ {r} : SameRunner(q)
  BY DEF ScanCleanups, CycleInv, TypeOK, SameRunner, session
<1>12. StoreMoves(r)
  BY NoMove DEF ScanCleanups
<1>13. \A b \in Buckets : ~Owns(r, b)'
  BY <1>7 DEF Owns
<1> QED
  BY <1>13, <1>8, <1>9, <1>10, <1>11, <1>12, StepKept

\* The second statement: what was a cleanup for the first is never a cutover for
\* it, and both together stay within the limit.
LEMMA ScanCutoversStep == ASSUME CycleInv, NEW r \in Runners, ScanCutovers(r) PROVE CycleInv'
<1> DEFINE due == {b \in Buckets : EndsBy[b] <= cutoff[r] /\ CutoverDue(b)}
           listed == todo[r].cleanup
           found == Limit(due, Remaining(r))
<1>1. /\ todo[r] \in WorkLists
      /\ todo \in [Runners -> WorkLists]
  BY DEF CycleInv, TypeOK, WorkLists
<1>2. IsFiniteSet(listed) /\ Cardinality(listed) \in Nat
  BY <1>1, CycleAssumption, FS_Subset, FS_CardinalityType DEF WorkLists
<1>3. todo[r].cutover = {} /\ item[r] = {}
  BY DEF ScanCutovers, CycleInv, TypeOK, RunnerInv, ListTrue, Supervised, Phases, Deferrals
<1>4. Cardinality(listed) <= ScanLimit
  <2>1. todo[r].cleanup \cup todo[r].cutover = listed
    BY <1>3
  <2> QED
    BY <2>1 DEF CycleInv, WorkListSound
<1>5. Remaining(r) \in Nat /\ Remaining(r) + Cardinality(listed) = ScanLimit
  BY <1>2, <1>4, CycleAssumption DEF Remaining
<1>6. found \subseteq due /\ IsFiniteSet(found) /\ Cardinality(found) <= Remaining(r)
  BY <1>5, LimitBounded
<1>7. todo' = [todo EXCEPT ![r].cutover = found]
  BY DEF ScanCutovers
<1> HIDE DEF found
<1>8. todo'[r].cleanup = listed /\ todo'[r].cutover = found
  BY <1>1, <1>7 DEF WorkLists
<1>9. listed \cap found = {}
  BY <1>6 DEF CycleInv, RunnerInv, ListTrue, CutoverDue
<1>10. Cardinality(listed \cup found) <= ScanLimit
  <2>1. Cardinality(found) \in Nat
    BY <1>6, FS_CardinalityType
  <2>2. Cardinality(listed \cup found)
          = Cardinality(listed) + Cardinality(found) - Cardinality(listed \cap found)
    BY <1>2, <1>6, FS_Union
  <2>3. Cardinality(listed \cap found) = 0
    BY <1>9, FS_EmptySet
  <2> QED
    BY <2>1, <2>2, <2>3, <1>2, <1>5, <1>6, CycleAssumption
<1>11. pc'[r] = "next" /\ item'[r] = {} /\ outcome'[r] = outcome[r]
  BY <1>3 DEF ScanCutovers, CycleInv, TypeOK, session
<1>12. TypeOK'
  <2>1. todo' \in [Runners -> WorkLists]
    BY <1>1, <1>6, <1>7 DEF WorkLists
  <2>2. pc' \in [Runners -> Locations]
    BY DEF ScanCutovers, CycleInv, TypeOK, Locations
  <2>3. timer' \in [Runners -> -Lag .. Interval]
    BY CycleAssumption DEF ScanCutovers, CycleInv, TypeOK
  <2>4. \A q \in Runners : pc'[q] \notin Supervised <=> item'[q] = {}
    BY <1>11 DEF ScanCutovers, CycleInv, TypeOK, session, Supervised, Phases, Deferrals
  <2> QED
    BY <2>1, <2>2, <2>3, <2>4 DEF ScanCutovers, CycleInv, TypeOK, store, session, WorkLists
<1>13. RunnerInv(r)'
  <2>1. outcome[r].answer # "ok"
    BY DEF ScanCutovers, CycleInv, RunnerInv, BooksKept, Idle
  <2> QED
    BY <2>1, <1>3, <1>8, <1>11
    DEF ScanCutovers, store, CycleInv, RunnerInv, SessionTrue, BooksKept, ListTrue, Idle
<1>14. WorkListSound'
  <2>1. ASSUME NEW q \in Runners \ {r} PROVE todo'[q] = todo[q]
    BY <1>1, <1>7
  <2> QED
    BY <1>8, <1>9, <1>10, <2>1 DEF WorkListSound, CycleInv
<1>15. \A q \in Runners \ {r} : SameRunner(q)
  BY DEF ScanCutovers, CycleInv, TypeOK, SameRunner, session
<1>16. StoreMoves(r)
  BY NoMove DEF ScanCutovers
<1>17. \A b \in Buckets : ~Owns(r, b)'
  BY <1>11 DEF Owns
<1> QED
  BY <1>17, <1>12, <1>13, <1>14, <1>15, <1>16, StepKept

\* A list without the item that was taken.
LEMMA TakenShrinks ==
    ASSUME CycleInv, NEW r \in Runners, NEW b,
           todo' = [todo EXCEPT ![r] = Taken(r, b)]
    PROVE  /\ WorkListSound'
           /\ todo' \in [Runners -> WorkLists]
           /\ todo'[r].cleanup \subseteq todo[r].cleanup
<1>1. todo \in [Runners -> WorkLists]
  BY DEF CycleInv, TypeOK, WorkLists
<1>2. \A q \in Runners : /\ todo'[q].cleanup \subseteq todo[q].cleanup
                         /\ todo'[q].cutover \subseteq todo[q].cutover
  BY <1>1 DEF Taken, WorkLists
<1> QED
  BY <1>1, <1>2, ListsShrink DEF Taken, WorkLists

\* An item that another replica took is passed over (recover_cutover).
LEMMA PassStep == ASSUME CycleInv, NEW r \in Runners, Pass(r) PROVE CycleInv'
<1>1. /\ WorkListSound'
      /\ todo' \in [Runners -> WorkLists]
      /\ todo'[r].cleanup \subseteq todo[r].cleanup
  BY TakenShrinks DEF Pass
<1>2. TypeOK'
  BY <1>1 DEF Pass, CycleInv, TypeOK, store, session, WorkLists
<1>3. RunnerInv(r)'
  BY <1>1 DEF Pass, store, session, CycleInv, RunnerInv, SessionTrue, BooksKept, ListTrue, Idle
<1>4. \A q \in Runners \ {r} : SameRunner(q)
  BY DEF Pass, CycleInv, TypeOK, SameRunner, session
<1>5. StoreMoves(r)
  BY NoMove DEF Pass
<1>6. \A q \in Runners \ {r} : \A b \in Buckets : ~(Owns(r, b)' /\ Owns(q, b)')
  BY DEF Pass, CycleInv, OwnersApart, Owns, session
<1> QED
  BY <1>1, <1>2, <1>3, <1>4, <1>5, <1>6, StepKept

\* A claim makes a session that is the row's, and no other one is (recover_cutover).
LEMMA ClaimStep == ASSUME CycleInv, NEW r \in Runners, Claim(r) PROVE CycleInv'
<1> DEFINE b == NextItem(r)
           p == IF b \in todo[r].cleanup THEN "clean" ELSE "upload"
<1>1. b \in Buckets /\ b \in todo[r].cleanup \cup todo[r].cutover
  BY NextItemListed DEF Claim, CycleInv
<1>2. /\ pc[r] = "next" /\ Claimable(r, b) /\ ClaimedRow(r, b)
      /\ pc' = [pc EXCEPT ![r] = p]
      /\ item' = [item EXCEPT ![r] = {b}]
      /\ fence' = [Fenced(b) EXCEPT ![r] = "live"]
      /\ beat' = [beat EXCEPT ![r] = "on"]
      /\ todo' = [todo EXCEPT ![r] = Taken(r, b)]
      /\ outcome' = [outcome EXCEPT ![r].claimed = @ \cup {b}]
      /\ UNCHANGED <<year, faults, timer, cutoff>>
  BY DEF Claim
<1> HIDE DEF b
<1>3. /\ fence' \in [Runners -> Fences] /\ fence'[r] = "live"
      /\ \A q \in Runners \ {r} : /\ fence'[q] \in {fence[q], "lost"}
                                  /\ b \in item[q] => fence'[q] = "lost"
      /\ StoreMoves(r)
  <2>1. /\ fence' \in [Runners -> Fences] /\ fence'[r] = "live"
        /\ \A q \in Runners \ {r} : /\ fence'[q] \in {fence[q], "lost"}
                                    /\ b \in item[q] => fence'[q] = "lost"
    BY <1>1, <1>2, FencedTypes DEF Fences
  <2> QED
    BY <1>1, <1>2, <2>1, ClaimMoves
<1>4. /\ WorkListSound'
      /\ todo' \in [Runners -> WorkLists]
      /\ todo'[r].cleanup \subseteq todo[r].cleanup
  BY <1>2, TakenShrinks
<1>5. pc'[r] = p /\ item'[r] = {b} /\ item[r] = {}
  BY <1>2 DEF CycleInv, TypeOK, Supervised, Phases, Deferrals
<1>6. /\ outcome'[r].claimed = outcome[r].claimed \cup {b}
      /\ outcome'[r].completed = outcome[r].completed
      /\ outcome'[r].deferred = outcome[r].deferred
      /\ outcome'[r].answer = outcome[r].answer
      /\ outcome' \in [Runners -> Outcomes]
  <2> DEFINE o == outcome[r]
  <2>1. outcome \in [Runners -> Outcomes] /\ o \in Outcomes
    BY DEF CycleInv, TypeOK, Outcomes
  <2>2. outcome' = [outcome EXCEPT ![r] = [o EXCEPT !.claimed = o.claimed \cup {b}]]
    BY <1>2
  <2>3. [o EXCEPT !.claimed = o.claimed \cup {b}] \in Outcomes
    BY <1>1, <2>1 DEF Outcomes
  <2>4. outcome'[r] = [o EXCEPT !.claimed = o.claimed \cup {b}]
    BY <2>1, <2>2
  <2>5. outcome' \in [Runners -> Outcomes]
    BY <2>1, <2>2, <2>3
  <2> QED
    BY <2>1, <2>4, <2>5 DEF Outcomes
<1>7. TypeOK'
  <2>1. pc' \in [Runners -> Locations]
    BY <1>2 DEF CycleInv, TypeOK, Locations, Supervised, Phases, Deferrals
  <2>2. item' \in [Runners -> SUBSET Buckets] /\ beat' \in [Runners -> {"off", "on", "failed"}]
    BY <1>1, <1>2 DEF CycleInv, TypeOK
  <2>3. \A q \in Runners : pc'[q] \notin Supervised <=> item'[q] = {}
    BY <1>2, <1>5 DEF CycleInv, TypeOK, Supervised, Phases, Deferrals
  <2> QED
    BY <1>2, <1>3, <1>4, <1>6, <2>1, <2>2, <2>3
    DEF CycleInv, TypeOK, StoreMoves, States, Fences, WorkLists, Outcomes
<1>8. RunnerInv(r)'
  <2>1. retry'[b] = 0 /\ state'[b] \in Worked
    BY <1>1, <1>2 DEF CycleInv, TypeOK, ClaimedRow, Claimable, CleanupDue, Worked
  <2>2. SessionTrue(r)'
    BY <1>1, <1>5, <2>1 DEF SessionTrue
  <2>3. BooksKept(r)'
    <3>1. outcome[r].answer # "ok" /\ outcome[r].deferred = {}
          /\ outcome[r].claimed = outcome[r].completed
      BY <1>2, <1>5 DEF CycleInv, RunnerInv, BooksKept, Idle
    <3>2. \A c \in outcome[r].completed : state'[c] = "cleaned"
      BY <1>3 DEF CycleInv, TypeOK, RunnerInv, BooksKept, StoreMoves, Forward
    <3> QED
      BY <1>5, <1>6, <3>1, <3>2 DEF BooksKept
  <2>4. ListTrue(r)'
    <3>1. \A c \in todo[r].cleanup : state'[c] \in Published
      BY <1>3 DEF CycleInv, TypeOK, RunnerInv, ListTrue, StoreMoves, Forward, Published
    <3> QED
      BY <1>4, <1>5, <3>1 DEF ListTrue, Idle, Published
  <2> QED
    BY <2>2, <2>3, <2>4 DEF RunnerInv
<1>9. \A q \in Runners \ {r} : SameRunner(q)
  BY <1>2, <1>3 DEF CycleInv, TypeOK, SameRunner
<1>10. \A q \in Runners \ {r} : \A c \in Buckets : ~(Owns(r, c)' /\ Owns(q, c)')
  BY <1>3, <1>5, <1>9 DEF Owns, SameRunner
<1> QED
  BY <1>3, <1>4, <1>7, <1>8, <1>9, <1>10, StepKept

\* A session goes on to its next call, the last one made, failed or unheard.
LEMMA GoesOn ==
    ASSUME CycleInv, NEW r \in Runners, pc[r] \in Supervised,
           NEW p \in Supervised, GoTo(r, p),
           UNCHANGED store \/ (TakesEffect(r) /\ pc[r] \in Phases),
           faults' \in 0 .. MaxFaults,
           UNCHANGED <<year, timer, cutoff, todo, outcome>>
    PROVE  CycleInv'
<1>1. /\ fence' \in [Runners -> Fences]
      /\ \A q \in Runners \ {r} : fence'[q] = fence[q]
      /\ fence'[r] = "lost" <=> fence[r] = "lost"
  BY DEF CycleInv, TypeOK, GoTo, Fences
<1>2. item[r] # {}
  BY DEF CycleInv, TypeOK
<1>3. /\ StoreMoves(r)
      /\ \A b \in item[r] : fence[r] # "lost" => retry'[b] = 0 /\ state'[b] \in Worked
  <2>1. \A b \in item[r] : fence[r] # "lost" => retry[b] = 0 /\ state[b] \in Worked
    BY DEF CycleInv, RunnerInv, SessionTrue
  <2>2. CASE UNCHANGED store
    BY <2>1, <2>2, NoMove DEF store
  <2>3. CASE TakesEffect(r) /\ pc[r] \in Phases
    BY <1>1, <1>2, <2>1, <2>3, EffectMoves
  <2> QED
    BY <2>2, <2>3
<1>4. pc'[r] = p /\ pc' \in [Runners -> Locations] /\ item' = item /\ beat' = beat
  BY DEF CycleInv, TypeOK, GoTo, Locations
<1>5. TypeOK'
  <2>1. \A q \in Runners : pc'[q] \notin Supervised <=> item'[q] = {}
    BY <1>2, <1>4 DEF CycleInv, TypeOK, GoTo
  <2> QED
    BY <1>1, <1>3, <1>4, <2>1 DEF CycleInv, TypeOK, StoreMoves, States, Fences
<1>6. RunnerInv(r)'
  <2>1. SessionTrue(r)'
    BY <1>1, <1>3, <1>4 DEF CycleInv, RunnerInv, SessionTrue
  <2>2. pc[r] \notin Idle \cup {"scan"} /\ pc'[r] \notin Idle \cup {"scan"}
    BY <1>4 DEF Idle, Supervised, Phases, Deferrals
  <2>3. BooksKept(r)'
    <3>1. \A c \in outcome[r].completed : state'[c] = "cleaned"
      BY <1>3 DEF CycleInv, TypeOK, RunnerInv, BooksKept, StoreMoves, Forward
    <3> QED
      BY <1>4, <2>2, <3>1 DEF CycleInv, RunnerInv, BooksKept
  <2>4. ListTrue(r)'
    BY <1>3, <2>2 DEF CycleInv, TypeOK, RunnerInv, ListTrue, StoreMoves, Forward, Published
  <2> QED
    BY <2>1, <2>3, <2>4 DEF RunnerInv
<1>7. \A q \in Runners \ {r} : SameRunner(q)
  BY <1>1, <1>4 DEF CycleInv, TypeOK, GoTo, SameRunner
<1>8. \A q \in Runners \ {r} : \A b \in Buckets : ~(Owns(r, b)' /\ Owns(q, b)')
  BY <1>1, <1>4 DEF CycleInv, OwnersApart, Owns
<1>9. WorkListSound'
  BY DEF CycleInv, WorkListSound
<1> QED
  BY <1>3, <1>5, <1>6, <1>7, <1>8, <1>9, StepKept

\* The calls of a session that do not end it (recover_claimed_cutover).
LEMMA CallStep ==
    ASSUME CycleInv, NEW r \in Runners,
           UploadDone(r) \/ PublishDone(r) \/ PhaseFails(r) \/ ReadState(r)
    PROVE  CycleInv'
<1> USE DEF Returns, Supervised, Phases, Deferrals
<1>1. CASE UploadDone(r)
  BY <1>1, GoesOn DEF UploadDone, CycleInv, TypeOK
<1>2. CASE PublishDone(r)
  BY <1>2, GoesOn DEF PublishDone, CycleInv, TypeOK
<1>3. CASE PhaseFails(r)
  <2>1. pc[r] \in Phases /\ AfterError[pc[r]] \in Supervised
    BY <1>3 DEF PhaseFails, AfterError
  <2>2. faults' \in 0 .. MaxFaults
    BY <1>3, CycleAssumption DEF PhaseFails, Fault, CycleInv, TypeOK
  <2> QED
    BY <1>3, <2>1, <2>2, GoesOn DEF PhaseFails
<1>4. CASE ReadState(r)
  BY <1>4, GoesOn DEF ReadState, CycleInv, TypeOK
<1> QED
  BY <1>1, <1>2, <1>3, <1>4

\* The last call: the bucket is cleaned, and counted as completed.
LEMMA FinishesStep == ASSUME CycleInv, NEW r \in Runners, CleanDone(r) PROVE CycleInv'
<1>1. pc[r] = "clean" /\ TakesEffect(r) /\ SessionOver(r)
  BY DEF CleanDone, Returns
<1>2. /\ item' = [item EXCEPT ![r] = {}] /\ item'[r] = {}
      /\ fence' \in [Runners -> Fences]
      /\ \A q \in Runners \ {r} : fence'[q] = fence[q]
      /\ beat' \in [Runners -> {"off", "on", "failed"}]
  BY <1>1, OverTypes DEF CycleInv, TypeOK
<1>3. item[r] # {}
  BY <1>1 DEF CycleInv, TypeOK, Supervised, Phases
<1>4. StoreMoves(r) /\ \A b \in item[r] : state'[b] = "cleaned"
  BY <1>1, <1>2, <1>3, EffectMoves
<1>5. pc'[r] = "next"
  BY DEF CleanDone, CycleInv, TypeOK
<1>6. /\ outcome'[r].claimed = outcome[r].claimed
      /\ outcome'[r].completed = outcome[r].completed \cup item[r]
      /\ outcome'[r].deferred = outcome[r].deferred
      /\ outcome'[r].answer = outcome[r].answer
      /\ outcome' \in [Runners -> Outcomes]
  <2> DEFINE o == outcome[r]
  <2>1. outcome \in [Runners -> Outcomes] /\ o \in Outcomes /\ item[r] \subseteq Buckets
    BY DEF CycleInv, TypeOK, Outcomes
  <2>2. outcome' = [outcome EXCEPT ![r] = [o EXCEPT !.completed = o.completed \cup item[r]]]
    BY DEF CleanDone
  <2>3. [o EXCEPT !.completed = o.completed \cup item[r]] \in Outcomes
    BY <2>1 DEF Outcomes
  <2>4. outcome'[r] = [o EXCEPT !.completed = o.completed \cup item[r]]
    BY <2>1, <2>2
  <2>5. outcome' \in [Runners -> Outcomes]
    BY <2>1, <2>2, <2>3
  <2> QED
    BY <2>1, <2>4, <2>5 DEF Outcomes
<1>7. TypeOK'
  <2>1. pc' \in [Runners -> Locations] /\ item' \in [Runners -> SUBSET Buckets]
    BY <1>2 DEF CleanDone, CycleInv, TypeOK, Locations
  <2>2. \A q \in Runners : pc'[q] \notin Supervised <=> item'[q] = {}
    BY <1>2, <1>5 DEF CleanDone, CycleInv, TypeOK, Supervised, Phases, Deferrals
  <2> QED
    BY <1>2, <1>4, <1>6, <2>1, <2>2
    DEF CleanDone, CycleInv, TypeOK, StoreMoves, States, Fences, Outcomes
<1>8. RunnerInv(r)'
  <2>1. SessionTrue(r)'
    BY <1>2 DEF SessionTrue
  <2>2. BooksKept(r)'
    <3>1. /\ outcome[r].answer # "ok" /\ outcome[r].deferred = {}
          /\ outcome[r].claimed = outcome[r].completed \cup item[r]
      BY <1>1 DEF CycleInv, RunnerInv, BooksKept, Idle
    <3>2. \A c \in outcome[r].completed : state'[c] = "cleaned"
      BY <1>4 DEF CycleInv, TypeOK, RunnerInv, BooksKept, StoreMoves, Forward
    <3> QED
      BY <3>1, <3>2, <1>2, <1>4, <1>6 DEF BooksKept
  <2>3. ListTrue(r)'
    BY <1>4, <1>5
    DEF CleanDone, CycleInv, TypeOK, RunnerInv, ListTrue, StoreMoves, Forward, Published, Idle
  <2> QED
    BY <2>1, <2>2, <2>3 DEF RunnerInv
<1>9. \A q \in Runners \ {r} : SameRunner(q)
  BY <1>2 DEF CleanDone, CycleInv, TypeOK, SameRunner
<1>10. WorkListSound' /\ \A b \in Buckets : ~Owns(r, b)'
  BY <1>2 DEF CleanDone, CycleInv, WorkListSound, Owns
<1> QED
  BY <1>4, <1>7, <1>8, <1>9, <1>10, StepKept

-----------------------------------------------------------------------------

\* Every step keeps the invariant.
LEMMA CycleStep == CycleInv /\ [Next]_vars => CycleInv'
<1> SUFFICES ASSUME CycleInv, [Next]_vars PROVE CycleInv'
  OBVIOUS
<1>1. ASSUME NEW r \in Runners, Step(r) PROVE CycleInv'
  BY <1>1, ScanCleanupsStep, ScanCutoversStep, CycleEndsStep, ClaimStep, PassStep, CallStep,
     FinishesStep, ErrorStep DEF Step, Session
<1>2. ASSUME NEW r \in Runners, Failure(r) \/ RenewalRefused(r) PROVE CycleInv'
  BY <1>2, CrashStep, CycleEndsStep, ClaimLostStep, BeatStep DEF Failure
<1>3. CASE UNCHANGED vars
  <2>1. /\ UNCHANGED <<state, lease, retry, year, faults, pc, timer, cutoff, todo>>
        /\ UNCHANGED <<item, fence, beat, outcome>>
    BY <1>3 DEF vars, store, session
  <2>2. TypeOK'
    BY <2>1 DEF CycleInv, TypeOK
  <2>3. \A r \in Runners : RunnerInv(r)'
    BY <2>1 DEF CycleInv, RunnerInv, SessionTrue, BooksKept, ListTrue
  <2>4. OwnersApart' /\ NewRows' /\ WorkListSound'
    BY <2>1 DEF CycleInv, OwnersApart, Owns, NewRows, WorkListSound
  <2> QED
    BY <2>2, <2>3, <2>4 DEF CycleInv
<1> QED
  BY <1>1, <1>2, <1>3, TickStep, BeatStep, StartStep, AppearStep DEF Next

\* Sessions, lists and books of all archiver replicas stay consistent, whatever
\* crashes, lapses, is drained or is answered too late (run_once and supervise).
THEOREM CycleInvariant == Spec => []CycleInv
BY CycleInit, CycleStep, PTL DEF Spec

\* A work list never exceeds scan_limit and never names a bucket twice
\* (discover_archive_work's two statements without a transaction).
THEOREM WorkListsAlwaysSound == Spec => []WorkListSound
<1>1. CycleInv => WorkListSound
  BY DEF CycleInv
<1> QED
  BY <1>1, CycleInvariant, PTL

\* A cycle that answers Ok finished every session it began (run_once).
THEOREM OkMeansFinished == Spec => []OkCycleFinishedAll
<1>1. CycleInv => OkCycleFinishedAll
  <2> SUFFICES ASSUME CycleInv, NEW r \in Runners, outcome[r].answer = "ok"
               PROVE  /\ outcome[r].claimed = outcome[r].completed
                      /\ outcome[r].deferred = {}
                      /\ \A b \in outcome[r].completed : state[b] = "cleaned"
    BY DEF OkCycleFinishedAll
  <2>1. item[r] = {}
    BY DEF CycleInv, TypeOK, RunnerInv, BooksKept, Idle, Supervised, Phases, Deferrals
  <2> QED
    BY <2>1 DEF CycleInv, RunnerInv, BooksKept
<1> QED
  BY <1>1, CycleInvariant, PTL

-----------------------------------------------------------------------------
(* Sessions do not disturb each other.                                     *)

\* What RowsLeftAlone says of one step.
LeftAlone ==
    \A b \in Buckets :
      /\ \A r \in Runners : Renewable(r, b) /\ state'[b] # state[b] => pc'[r] # pc[r]
      /\ retry[b] > 0 => state'[b] = state[b] /\ retry'[b] >= retry[b] - 1

\* A step that touches neither state nor retry.
LEMMA IdleRows == ASSUME CycleInv, UNCHANGED <<state, retry>> PROVE LeftAlone
BY DEF CycleInv, TypeOK, LeftAlone

\* A call that takes effect is the owner's (the fence of every UPDATE).
LEMMA EffectIsOwners ==
    ASSUME CycleInv, NEW r \in Runners, TakesEffect(r), item[r] # {}, pc'[r] # pc[r]
    PROVE  LeftAlone
<1>1. PICK b \in Buckets : item[r] = {b}
  BY DEF CycleInv, TypeOK, RunnerInv, SessionTrue
<1>2. fence[r] = "live" /\ RowAfter(pc[r], b)
  BY <1>1 DEF TakesEffect, Admitted
<1>3. retry[b] = 0
  BY <1>1, <1>2 DEF CycleInv, RunnerInv, SessionTrue
<1>4. \A c \in Buckets \ {b} : state'[c] = state[c] /\ retry'[c] = retry[c]
  BY <1>2 DEF CycleInv, TypeOK, RowAfter
<1>5. \A q \in Runners : Renewable(q, b) => q = r
  BY <1>1, <1>2 DEF Renewable, Owns, CycleInv, OwnersApart
<1>6. \A c \in Buckets : retry[c] \in 0 .. Backoff
  BY DEF CycleInv, TypeOK
<1> QED
  BY <1>3, <1>4, <1>5, <1>6, CycleAssumption DEF LeftAlone

\* A claim takes a row that no session holds under a live lease and that waits for
\* nothing (the conditions claim_archive and claim_cleanup repeat).
LEMMA ClaimIsAllowed ==
    ASSUME CycleInv, NEW r \in Runners, NEW b \in Buckets, Claimable(r, b), ClaimedRow(r, b)
    PROVE  LeftAlone
<1>1. retry[b] = 0
  BY DEF Claimable, CleanupDue, CutoverDue
<1>2. \A c \in Buckets \ {b} : state'[c] = state[c] /\ retry'[c] = retry[c]
  BY DEF CycleInv, TypeOK, ClaimedRow
<1>3. ASSUME NEW q \in Runners, Renewable(q, b) PROVE state'[b] = state[b]
  <2>1. lease[b] > 0 /\ state[b] \in Worked
    BY <1>3 DEF Renewable, Owns, CycleInv, RunnerInv, SessionTrue
  <2>2. ~CutoverDue(b)
    BY <2>1 DEF CutoverDue, Worked
  <2>3. b \in todo[r].cleanup
    BY <2>2 DEF Claimable
  <2> QED
    BY <2>3 DEF CycleInv, TypeOK, ClaimedRow
<1>4. \A c \in Buckets : retry[c] \in 0 .. Backoff
  BY DEF CycleInv, TypeOK
<1> QED
  BY <1>1, <1>2, <1>3, <1>4, CycleAssumption DEF LeftAlone

\* While a session's lease is live only its own calls move the row, and a deferred
\* row is left alone for its backoff, although older sessions of other replicas may
\* still be drained (the fence of every UPDATE and the conditions of the claims).
THEOREM RowsAlwaysLeftAlone == Spec => RowsLeftAlone
<1>1. CycleInv /\ [Next]_vars => LeftAlone
  <2> SUFFICES ASSUME CycleInv, [Next]_vars PROVE LeftAlone
    OBVIOUS
  <2>1. ASSUME NEW r \in Runners, TakesEffect(r), pc'[r] # pc[r] PROVE LeftAlone
    <3>1. pc[r] \in Supervised
      BY <2>1 DEF TakesEffect, Admitted, Expects, Supervised, Phases, Deferrals
    <3>2. item[r] # {}
      BY <3>1 DEF CycleInv, TypeOK
    <3> QED
      BY <2>1, <3>2, EffectIsOwners
  <2>2. ASSUME NEW r \in Runners, Session(r) PROVE LeftAlone
    <3>1. UNCHANGED store \/ TakesEffect(r)
      BY <2>2 DEF Session, UploadDone, PublishDone, CleanDone, CleanOvertaken, PhaseFails, ReadState,
                  StateEnds, DeferEnds, Drained
    <3>2. TakesEffect(r) => pc[r] \in {"publish", "clean", "defer_cutover", "defer_cleanup"}
      BY DEF TakesEffect, Admitted, Expects
    <3>3. CASE pc'[r] # pc[r]
      BY <3>1, <3>3, <2>1, IdleRows DEF store
    <3>4. CASE pc'[r] = pc[r]
      <4>1. pc \in [Runners -> Locations]
        BY DEF CycleInv, TypeOK
      <4>2. ~TakesEffect(r)
        <5>1. \A p : pc' = [pc EXCEPT ![r] = p] => pc'[r] = p
          BY <4>1
        <5>2. ASSUME EndInError(r) PROVE pc[r] = "asleep"
          BY <5>1, <5>2, <3>4 DEF EndInError, Abandon, Sleep
        <5>3. CASE UploadDone(r)
          BY <5>3, <3>2 DEF UploadDone, Returns
        <5>4. CASE PublishDone(r)
          BY <5>4, <5>1, <3>4 DEF PublishDone, Returns, GoTo
        <5>5. CASE CleanDone(r)
          BY <5>5, <5>1, <3>4 DEF CleanDone, Returns
        <5>6. CASE PhaseFails(r)
          <6>1. PICK p \in Phases : pc[r] = p
            BY <5>6 DEF PhaseFails, Returns
          <6>2. pc[r] = AfterError[p]
            BY <5>6, <6>1, <5>1, <3>4 DEF PhaseFails, GoTo
          <6> QED
            BY <6>1, <6>2 DEF AfterError, Phases
        <5>7. CASE ReadState(r)
          BY <5>7, <3>2 DEF ReadState, Returns
        <5>8. CASE StateEnds(r)
          BY <5>8, <3>2 DEF StateEnds, Returns
        <5>9. CASE CleanOvertaken(r) \/ DeferEnds(r) \/ Drained(r)
          BY <5>9, <5>2, <3>2 DEF CleanOvertaken, DeferEnds, Drained
        <5> QED
          BY <2>2, <5>3, <5>4, <5>5, <5>6, <5>7, <5>8, <5>9 DEF Session
      <4> QED
        BY <3>1, <4>2, IdleRows DEF store
    <3> QED
      BY <3>3, <3>4
  <2>3. ASSUME NEW r \in Runners, Claim(r) \/ ClaimAnswerLost(r) PROVE LeftAlone
    BY <2>3, NextItemListed, ClaimIsAllowed DEF Claim, ClaimAnswerLost, CycleInv
  <2>4. ASSUME NEW r \in Runners,
               \/ ScanCleanups(r) \/ ScanCutovers(r) \/ CycleEnds(r) \/ Pass(r)
               \/ Crash(r) \/ ScanFails(r) \/ ClaimFails(r)
               \/ RenewalFails(r) \/ RenewalRefused(r) \/ Start(r)
        PROVE LeftAlone
    BY <2>4, IdleRows DEF ScanCleanups, ScanCutovers, CycleEnds, Pass, Crash, ScanFails, ClaimFails,
                          RenewalFails, RenewalRefused, Start, store
  <2>5. CASE Tick
    <3>1. \A b \in Buckets : retry[b] \in Nat
      BY CycleAssumption DEF CycleInv, TypeOK
    <3>2. \A b \in Buckets : retry'[b] >= retry[b] - 1 /\ state'[b] = state[b]
      BY <2>5, <3>1 DEF Tick, CountDown
    <3> QED
      BY <3>2 DEF LeftAlone
  <2>6. ASSUME NEW b \in Buckets, Appear(b) PROVE LeftAlone
    <3>1. state[b] = "absent" /\ retry' = retry /\ \A c \in Buckets \ {b} : state'[c] = state[c]
      BY <2>6 DEF Appear, CycleInv, TypeOK
    <3>2. retry[b] = 0 /\ \A r \in Runners : ~Owns(r, b)
      BY <3>1 DEF CycleInv, NewRows, RunnerInv, SessionTrue, Worked, Owns
    <3>3. \A c \in Buckets : retry[c] \in 0 .. Backoff
      BY DEF CycleInv, TypeOK
    <3> QED
      BY <3>1, <3>2, <3>3, CycleAssumption DEF LeftAlone, Renewable
  <2>7. CASE NewYear \/ (\E b \in Buckets : Lapse(b)) \/ UNCHANGED vars
    BY <2>7, IdleRows DEF NewYear, Lapse, vars, store
  <2> QED
    BY <2>2, <2>3, <2>4, <2>5, <2>6, <2>7 DEF Next, Step, Failure
<1>2. CycleInv /\ [Next]_vars =>
        [\A b \in Buckets :
           /\ \A r \in Runners :
                Renewable(r, b) /\ state'[b] # state[b] => pc'[r] # pc[r]
           /\ retry[b] > 0 => /\ state'[b] = state[b]
                              /\ retry'[b] >= retry[b] - 1]_vars
  BY <1>1 DEF LeftAlone
<1> QED
  BY <1>2, CycleInvariant, PTL DEF Spec, RowsLeftAlone
=============================================================================
