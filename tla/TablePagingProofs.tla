-------------------------- MODULE TablePagingProofs --------------------------
(***************************************************************************)
(* Proofs about TablePaging, for any calendar, any keys, ranges, page      *)
(* sizes and parallelism and any number of failed pages.                   *)
(***************************************************************************)
EXTENDS TablePaging, FiniteSetTheorems, SequenceTheorems, NaturalsInduction,
        WellFoundedInduction, TLAPS

\* The rows that one of the tiers takes as inside the range, and those that both do.
Taken == {k \in rows : InEither(walk.range, k[1])}
Sure  == {k \in rows : InBoth(walk.range, k[1])}

\* Records that a page may hold: stored in the range and beyond the cursor.
Ahead(R) == \A k \in R : k \in Taken /\ Past(walk.cursor, k)

\* What the walk owes of bucket b is in R, or R alone fills the page with
\* records that come before it.
Covered(b, R) ==
    \A k \in owed : BucketOf(k[1]) = b /\ Past(walk.cursor, k) =>
      k \in R \/ Cardinality({j \in R : Before(j, k)}) > limit

\* The bucket waits for its task, its task is reading or has read it, or it was
\* joined.
Accounted(b) ==
    \/ \E i \in DOMAIN todo : todo[i] = b
    \/ task[b] \in {"read", "fetch"}
    \/ task[b] = "done" /\ Covered(b, got[b])
    \/ Covered(b, result)

PageInv ==
    /\ todo # <<>> => \E b \in Starts : task[b] # "none"
    /\ walk.at # "paging" => result = {} /\ \A b \in Starts : task[b] = "none"
    /\ walk.at = "paging" =>
         /\ limit \in Limits /\ limit > 0
         /\ Ahead(result)
         /\ \A b \in Starts : (task[b] = "done" => Ahead(got[b])) /\ Accounted(b)

WalkInv ==
    /\ walk.at = "idle" => delivered = {}
    /\ walk.at # "idle" =>
         /\ walk.range \in Ranges
         /\ owed \subseteq Sure /\ delivered \subseteq Taken
    /\ walk.at \in {"open", "paging"} =>
         \A j \in delivered : walk.cursor # NoCursor /\ ~Before(walk.cursor, j)

\* No append can add to the range of a settled walk.
Sealed == \A k \in Keys : InBoth(walk.range, Stored(k)[1]) => ~MayArrive(k)

SettledInv == settled /\ walk.at # "idle" => Sure \subseteq owed /\ Sealed

PagingInv == TypeOK /\ PageInv /\ WalkInv /\ SettledInv /\ WalkComplete

-----------------------------------------------------------------------------
(* The clustering order, and what sorting and truncating a set of records  *)
(* keeps.                                                                  *)

\* A non-empty set of numbers has a smallest.
LEMMA Least ==
    ASSUME NEW S \in SUBSET Nat, S # {}
    PROVE  \E b \in S : \A a \in S : b <= a
<1>1. PICK b \in S : \A a \in S : ~(<<a, b>> \in OpToRel(<, Nat))
  BY NatLessThanWellFounded, WFMin, Zenon
<1>2. \A a \in S : ~(a < b)
  BY <1>1 DEF OpToRel
<1> QED
  BY <1>2

\* There are finitely many keys, no more than usize::MAX.
LEMMA FewKeys ==
    /\ \A S \in SUBSET Records : IsFiniteSet(S) /\ Cardinality(S) \in Nat
    /\ Cardinality(Records) <= UsizeMax
<1>1. IsFiniteSet(Keys) /\ UsizeMax \in Nat /\ UsizeMax >= Cardinality(Keys)
  BY PagingAssumption
<1> DEFINE f == [k \in Keys |-> Stored(k)]
<1>2. Records = Range(f)
  BY DEF Records, Range
<1>3. f \in Surjection(Keys, Records)
  BY <1>2 DEF Surjection, Range, Records
<1>4. IsFiniteSet(Records) /\ Cardinality(Records) <= Cardinality(Keys)
  BY <1>1, <1>3, FS_Surjection
<1>5. Cardinality(Records) \in Nat /\ Cardinality(Keys) \in Nat
  BY <1>1, <1>4, FS_CardinalityType
<1>6. \A S \in SUBSET Records : IsFiniteSet(S) /\ Cardinality(S) \in Nat
  BY <1>4, FS_Subset, FS_CardinalityType
<1> QED
  BY <1>1, <1>4, <1>5, <1>6

\* A part of a set of keys has no more elements.
LEMMA PartIsSmaller ==
    ASSUME NEW S \in SUBSET Records, NEW T \in SUBSET S
    PROVE  Cardinality(T) <= Cardinality(S) /\ (T # S => Cardinality(T) < Cardinality(S))
<1>1. Cardinality(T) <= Cardinality(S) /\ (Cardinality(S) = Cardinality(T) => S = T)
  BY FewKeys, FS_Subset
<1>2. Cardinality(T) \in Nat /\ Cardinality(S) \in Nat
  BY FewKeys
<1> QED
  BY <1>1, <1>2

\* What holds of a set of keys when it holds of its proper subsets holds of
\* all of them.
LEMMA SubsetInduction ==
    ASSUME NEW Q,
           \A S \in SUBSET Records : (\A T \in SUBSET S : T # S => T \in Q) => S \in Q
    PROVE  \A S \in SUBSET Records : S \in Q
<1> DEFINE Bad == {Cardinality(S) : S \in {R \in SUBSET Records : R \notin Q}}
<1> SUFFICES ASSUME Bad # {} PROVE FALSE
  OBVIOUS
<1>1. Bad \in SUBSET Nat
  BY FewKeys
<1> HIDE DEF Bad
<1>2. PICK k \in Bad : \A a \in Bad : k <= a
  BY <1>1, Least
<1>3. PICK S \in SUBSET Records : S \notin Q /\ k = Cardinality(S)
  BY <1>2 DEF Bad
<1>4. ASSUME NEW T \in SUBSET S, T # S PROVE T \in Q
  <2>1. Cardinality(T) < Cardinality(S) /\ Cardinality(T) \in Nat
    BY <1>4, FewKeys, PartIsSmaller
  <2>2. T \in SUBSET Records
    OBVIOUS
  <2>3. T \notin Q => Cardinality(T) \in Bad
    BY <2>2 DEF Bad
  <2> QED
    BY <1>1, <1>2, <1>3, <2>1, <2>3
<1> QED
  BY <1>3, <1>4

\* A key is an instant and a sort key.
LEMMA KeyParts ==
    \A k \in Keys \cup Records :
      k = <<k[1], k[2]>> /\ k[1] \in Times /\ k[1] \in Nat /\ k[2] \in Nat
<1>1. \A k \in Keys : k = <<k[1], k[2]>> /\ k[1] \in Times /\ k[1] \in Nat /\ k[2] \in Nat
  BY PagingAssumption, CalendarAssumption DEF Times
<1>2. Tick \in Nat /\ Tick > 0 /\ Horizon \in Nat
  BY CalendarAssumption, TickAssumption
<1>3. ASSUME NEW t \in Nat PROVE t % Tick \in 0..t
  BY <1>2
<1>4. ASSUME NEW t \in Times PROVE Micros(t) \in Times /\ Micros(t) \in Nat
  BY <1>2, <1>3, <1>4 DEF Micros, Times
<1>5. ASSUME NEW k \in Records
      PROVE  k = <<k[1], k[2]>> /\ k[1] \in Times /\ k[1] \in Nat /\ k[2] \in Nat
  <2>1. PICK j \in Keys : k = <<Micros(j[1]), j[2]>>
    BY DEF Records, Stored
  <2>2. k[1] = Micros(j[1]) /\ k[2] = j[2]
    BY <2>1
  <2>3. Micros(j[1]) \in Times /\ Micros(j[1]) \in Nat /\ j[2] \in Nat
    BY <1>1, <1>4
  <2> QED
    BY <2>1, <2>2, <2>3, Zenon
<1> QED
  BY <1>1, <1>5

\* The clustering order is strict, transitive and total.
LEMMA Order ==
    /\ \A j \in Records : ~Before(j, j)
    /\ \A i, j, k \in Records : Before(i, j) /\ Before(j, k) => Before(i, k)
    /\ \A j, k \in Records : j = k \/ Before(j, k) \/ Before(k, j)
<1>0. \A k \in Records : k = <<k[1], k[2]>>
  BY KeyParts
<1>1. \A j, k \in Records : j[1] = k[1] /\ j[2] = k[2] => j = k
  BY <1>0, Zenon
<1>2. \A j, k \in Records : j[1] \in Nat /\ j[2] \in Nat /\ k[1] \in Nat /\ k[2] \in Nat
  BY KeyParts
<1>3. \A j \in Records : ~Before(j, j)
  BY <1>2 DEF Before
<1>4. \A i, j, k \in Records : Before(i, j) /\ Before(j, k) => Before(i, k)
  BY <1>2 DEF Before
<1>5. \A j, k \in Records : j = k \/ Before(j, k) \/ Before(k, j)
  BY <1>1, <1>2 DEF Before
<1> QED
  BY <1>3, <1>4, <1>5

Greatest(k, S) == k \in S /\ \A j \in S : j = k \/ Before(j, k)

\* A non-empty set of keys has a last one.
LEMMA LastIsGreatest == \A S \in SUBSET Records : S # {} => Greatest(Last(S), S)
<1> DEFINE Q == {S \in SUBSET Records : S # {} => \E k \in S : Greatest(k, S)}
<1>1. ASSUME NEW S \in SUBSET Records, \A T \in SUBSET S : T # S => T \in Q
      PROVE  S \in Q
  <2>1. SUFFICES ASSUME S # {} PROVE \E k \in S : Greatest(k, S)
    OBVIOUS
  <2>2. PICK x \in S : TRUE
    BY <2>1
  <2> DEFINE T == S \ {x}
  <2>3. T \in Q
    BY <1>1
  <2>4. CASE T = {}
    BY <2>4 DEF Greatest
  <2>5. CASE T # {}
    <3>1. PICK k \in T : Greatest(k, T)
      BY <2>3, <2>5
    <3>2. x \in Records /\ k \in Records /\ S \subseteq Records
      OBVIOUS
    <3>3. CASE Before(k, x)
      <4>1. \A j \in S : j = x \/ Before(j, x)
        BY <3>1, <3>2, <3>3, Order DEF Greatest
      <4> QED
        BY <4>1 DEF Greatest
    <3>4. CASE ~Before(k, x)
      <4>1. Before(x, k)
        BY <3>2, <3>4, Order
      <4>2. \A j \in S : j = k \/ Before(j, k)
        BY <3>1, <4>1 DEF Greatest
      <4> QED
        BY <4>2 DEF Greatest
    <3> QED
      BY <3>3, <3>4
  <2> QED
    BY <2>4, <2>5
<1> HIDE DEF Q
<1>2. \A S \in SUBSET Records : S \in Q
  BY <1>1, SubsetInduction
<1>3. ASSUME NEW S \in SUBSET Records, S # {} PROVE Greatest(Last(S), S)
  <2>1. PICK k \in S : Greatest(k, S)
    BY <1>2, <1>3 DEF Q
  <2>2. \E m \in S : \A j \in S : j = m \/ Before(j, m)
    BY <2>1 DEF Greatest
  <2> QED
    BY <2>2 DEF Last, Greatest
<1> QED
  BY <1>3

Under(S, k) == {j \in S : Before(j, k)}

\* First(S, n) keeps the records with fewer than n before them.
LEMMA FirstKeeps ==
    ASSUME NEW S \in SUBSET Records, NEW n \in Nat
    PROVE  /\ First(S, n) \in SUBSET S
           /\ \A k \in S : k \in First(S, n) <=> Cardinality(Under(S, k)) < n
  BY DEF First, Under

\* A set that fits is kept whole.
LEMMA FirstKeepsAll ==
    ASSUME NEW S \in SUBSET Records, NEW n \in Nat, Cardinality(S) <= n
    PROVE  First(S, n) = S
<1>1. ASSUME NEW k \in S PROVE k \in First(S, n)
  <2>1. Under(S, k) \in SUBSET S /\ Under(S, k) # S
    BY Order DEF Under
  <2>2. Cardinality(Under(S, k)) < Cardinality(S)
    BY <2>1, PartIsSmaller
  <2>3. Cardinality(Under(S, k)) \in Nat /\ Cardinality(S) \in Nat
    BY <2>1, FewKeys
  <2> QED
    BY <2>2, <2>3, FirstKeeps
<1> QED
  BY <1>1, FirstKeeps

\* What is kept comes before what is dropped.
LEMMA FirstIsBefore ==
    ASSUME NEW S \in SUBSET Records, NEW n \in Nat,
           NEW j \in First(S, n), NEW k \in S, k \notin First(S, n)
    PROVE  Before(j, k)
<1>1. j \in S /\ j \in Records /\ k \in Records
  BY FirstKeeps
<1>2. SUFFICES ASSUME Before(k, j) PROVE FALSE
  BY <1>1, Order
<1>3. Under(S, k) \in SUBSET Under(S, j) /\ Under(S, j) \in SUBSET Records
  BY <1>1, <1>2, Order DEF Under
<1>4. Cardinality(Under(S, k)) <= Cardinality(Under(S, j))
  BY <1>3, PartIsSmaller
<1>5. Cardinality(Under(S, k)) \in Nat /\ Cardinality(Under(S, j)) \in Nat
  BY <1>3, FewKeys
<1> QED
  BY <1>1, <1>4, <1>5, FirstKeeps

\* A set that does not fit fills what there is.
LEMMA FirstFills ==
    ASSUME NEW n \in Nat
    PROVE  \A S \in SUBSET Records : n <= Cardinality(S) => n <= Cardinality(First(S, n))
<1> DEFINE Q == {S \in SUBSET Records : n <= Cardinality(S) => n <= Cardinality(First(S, n))}
<1>1. ASSUME NEW S \in SUBSET Records, \A T \in SUBSET S : T # S => T \in Q
      PROVE  S \in Q
  <2>1. SUFFICES ASSUME n <= Cardinality(S) PROVE n <= Cardinality(First(S, n))
    OBVIOUS
  <2>2. Cardinality(S) \in Nat
    BY FewKeys
  <2>3. CASE Cardinality(S) = n
    BY <2>2, <2>3, FirstKeepsAll
  <2>4. CASE n < Cardinality(S)
    <3>1. S # {}
      BY <2>4, FS_EmptySet
    <3> DEFINE m == Last(S)
               T == S \ {m}
    <3>2. Greatest(m, S)
      BY <3>1, LastIsGreatest
    <3> HIDE DEF m
    <3>3. m \in S /\ T \in SUBSET S /\ T # S /\ T \in SUBSET Records
      BY <3>2 DEF Greatest
    <3>4. Cardinality(T) = Cardinality(S) - 1
      BY <3>3, FewKeys, FS_RemoveElement
    <3>5. n <= Cardinality(First(T, n))
      BY <1>1, <2>2, <2>4, <3>3, <3>4
    <3>6. ASSUME NEW k \in T PROVE Under(S, k) = Under(T, k)
      BY <3>2, Order DEF Greatest, Under
    <3>7. First(T, n) \in SUBSET First(S, n)
      <4>1. ASSUME NEW k \in First(T, n) PROVE k \in First(S, n)
        <5>1. k \in T /\ Cardinality(Under(T, k)) < n
          BY <3>3, FirstKeeps
        <5> QED
          BY <3>3, <3>6, <5>1, FirstKeeps
      <4> QED
        BY <4>1
    <3> HIDE DEF T
    <3>8. First(S, n) \in SUBSET Records /\ First(T, n) \in SUBSET Records
      BY <3>3, FirstKeeps
    <3>9. Cardinality(First(T, n)) <= Cardinality(First(S, n))
      BY <3>7, <3>8, PartIsSmaller
    <3>10. Cardinality(First(T, n)) \in Nat /\ Cardinality(First(S, n)) \in Nat
      BY <3>8, FewKeys
    <3> QED
      BY <3>5, <3>9, <3>10
  <2> QED
    BY <2>1, <2>2, <2>3, <2>4
<1> HIDE DEF Q
<1>2. \A S \in SUBSET Records : S \in Q
  BY <1>1, SubsetInduction
<1> QED
  BY <1>2 DEF Q

-----------------------------------------------------------------------------
(* The calendar. *)

\* Every instant lies in a bucket: the last one that starts no later.
LEMMA BucketOfWorks ==
    ASSUME NEW t \in Nat
    PROVE  /\ BucketOf(t) \in Starts /\ BucketOf(t) \in Nat /\ BucketOf(t) <= t
           /\ \A c \in Starts : c <= t => c <= BucketOf(t)
<1>0. Starts \subseteq Nat /\ 0 \in Starts
  BY CalendarAssumption
<1> DEFINE D == {t - b : b \in {c \in Starts : c <= t}}
<1>1. D \in SUBSET Nat /\ D # {}
  BY <1>0
<1> HIDE DEF D
<1>2. PICK d \in D : \A a \in D : d <= a
  BY <1>1, Least
<1>3. PICK b \in Starts : b <= t /\ d = t - b
  BY <1>2 DEF D
<1>4. ASSUME NEW c \in Starts, c <= t PROVE c <= b
  <2>1. t - c \in D
    BY <1>4 DEF D
  <2>2. d <= t - c
    BY <1>2, <2>1
  <2> QED
    BY <1>0, <1>3, <2>2
<1>5. \E x \in Starts : x <= t /\ \A c \in Starts : c <= t => c <= x
  BY <1>3, <1>4
<1>6. BucketOf(t) \in Starts /\ BucketOf(t) <= t /\ \A c \in Starts : c <= t => c <= BucketOf(t)
  BY <1>5 DEF BucketOf
<1> QED
  BY <1>0, <1>6

\* Later instants lie in the same or in later buckets.
LEMMA BucketOfMonotone ==
    ASSUME NEW s \in Nat, NEW t \in Nat, s <= t
    PROVE  BucketOf(s) <= BucketOf(t)
<1>1. BucketOf(s) \in Starts /\ BucketOf(s) \in Nat /\ BucketOf(s) <= s
  BY BucketOfWorks
<1> QED
  BY <1>1, BucketOfWorks

\* A bucket ends where the next one starts, or at the horizon.
LEMMA BucketEndWorks ==
    ASSUME NEW b \in Starts
    PROVE  /\ BucketEnd(b) \in Starts \cup {Horizon} /\ BucketEnd(b) \in 0..Horizon
           /\ b < BucketEnd(b)
           /\ \A c \in Starts : b < c => BucketEnd(b) <= c
<1>0. Starts \subseteq Nat /\ Horizon \in Nat /\ \A c \in Starts : c < Horizon
  BY CalendarAssumption
<1> DEFINE D == {c \in Starts \cup {Horizon} : b < c}
<1>1. D \in SUBSET Nat /\ D # {}
  BY <1>0
<1> HIDE DEF D
<1>2. PICK e \in D : \A a \in D : e <= a
  BY <1>1, Least
<1>3. \E x \in Starts \cup {Horizon} : b < x /\ \A c \in Starts \cup {Horizon} : b < c => x <= c
  BY <1>2 DEF D
<1>4. /\ BucketEnd(b) \in Starts \cup {Horizon}
      /\ b < BucketEnd(b)
      /\ \A c \in Starts \cup {Horizon} : b < c => BucketEnd(b) <= c
  BY <1>3 DEF BucketEnd
<1>5. \A x \in Starts \cup {Horizon} : x \in 0..Horizon
  BY <1>0
<1> QED
  BY <1>4, <1>5

\* The bucket of an instant ends after it, and holds all instants until its end.
LEMMA BucketHolds ==
    ASSUME NEW t \in Nat, t < Horizon
    PROVE  /\ BucketEnd(BucketOf(t)) \in (t + 1)..Horizon
           /\ \A u \in Nat : t <= u /\ u < BucketEnd(BucketOf(t)) => BucketOf(u) = BucketOf(t)
<1> DEFINE b == BucketOf(t)
           e == BucketEnd(b)
<1>0. Starts \subseteq Nat /\ Horizon \in Nat /\ \A c \in Starts : c < Horizon
  BY CalendarAssumption
<1>1. b \in Starts /\ b \in Nat /\ b <= t /\ \A c \in Starts : c <= t => c <= b
  BY BucketOfWorks
<1> HIDE DEF b
<1>2. /\ e \in Starts \cup {Horizon} /\ e \in 0..Horizon /\ b < e
      /\ \A c \in Starts : b < c => e <= c
  BY <1>1, BucketEndWorks
<1> HIDE DEF e
<1>3. t < e
  BY <1>0, <1>1, <1>2
<1>4. ASSUME NEW u \in Nat, t <= u, u < e PROVE BucketOf(u) = b
  <2>1. /\ BucketOf(u) \in Starts /\ BucketOf(u) \in Nat /\ BucketOf(u) <= u
        /\ \A c \in Starts : c <= u => c <= BucketOf(u)
    BY BucketOfWorks
  <2>2. b <= BucketOf(u)
    BY <1>1, <1>4, <2>1
  <2>3. ~(b < BucketOf(u))
    BY <1>2, <1>4, <2>1
  <2> QED
    BY <1>1, <2>1, <2>2, <2>3
<1> QED
  BY <1>0, <1>2, <1>3, <1>4 DEF b, e

\* The buckets from an instant on, given those from the end of its bucket on.
From(t, end, rest) ==
    IF t = Horizon \/ BucketOf(t) >= end THEN <<>> ELSE <<BucketOf(t)>> \o rest

\* The lists of buckets from each instant on, down to instant k.
Lists(f, end, k) == f = [t \in k..Horizon |-> From(t, end, f[BucketEnd(BucketOf(t))])]

\* They can be built, the latest first.
LEMMA ListsExist == ASSUME NEW end PROVE \E f : Lists(f, end, 0)
<1>0. Horizon \in Nat
  BY CalendarAssumption
<1> DEFINE Bad == {d \in 0..Horizon : ~\E f : Lists(f, end, Horizon - d)}
<1>a. ASSUME Bad # {} PROVE FALSE
  <2>0. Bad \in SUBSET Nat
    OBVIOUS
  <2>1. PICK d \in Bad : \A a \in Bad : d <= a
    BY <1>a, <2>0, Least
  <2>2. CASE d = 0
    <3>1. Lists([t \in Horizon..Horizon |-> <<>>], end, Horizon)
      BY <1>0 DEF Lists, From
    <3>2. Horizon - d = Horizon
      BY <1>0, <2>2
    <3> QED
      BY <2>1, <3>1, <3>2
  <2>3. CASE d # 0
    <3> DEFINE k == Horizon - d
    <3>1. d - 1 \in 0..Horizon /\ d - 1 \notin Bad /\ Horizon - (d - 1) = k + 1
          /\ k \in Nat /\ k < Horizon /\ d \in 0..Horizon
      BY <1>0, <2>0, <2>1, <2>3
    <3>2. PICK f : Lists(f, end, k + 1)
      BY <3>1
    <3>2a. ~\E g : Lists(g, end, k)
      BY <2>1
    <3> HIDE DEF k, Bad
    <3> DEFINE g == [t \in k..Horizon |->
                       IF t = k THEN From(k, end, f[BucketEnd(BucketOf(k))]) ELSE f[t]]
    <3>3. ASSUME NEW t \in k..Horizon
          PROVE  g[t] = From(t, end, g[BucketEnd(BucketOf(t))])
      <4>1. CASE t = Horizon
        BY <1>0, <3>1, <3>2, <4>1 DEF Lists, From
      <4>2. CASE t # Horizon
        <5>1. t \in Nat /\ t < Horizon
          BY <1>0, <3>1, <4>2
        <5>2. BucketEnd(BucketOf(t)) \in (t + 1)..Horizon
          BY <5>1, BucketHolds
        <5>3. BucketEnd(BucketOf(t)) \in k..Horizon /\ BucketEnd(BucketOf(t)) # k
          BY <1>0, <3>1, <5>1, <5>2
        <5>4. g[BucketEnd(BucketOf(t))] = f[BucketEnd(BucketOf(t))]
          BY <5>3
        <5>5. CASE t = k
          BY <5>4, <5>5
        <5>6. CASE t # k
          <6>1. t \in (k + 1)..Horizon
            BY <1>0, <3>1, <5>1, <5>6
          <6>2. f[t] = From(t, end, f[BucketEnd(BucketOf(t))])
            BY <3>2, <6>1 DEF Lists
          <6> QED
            BY <5>4, <5>6, <6>2
        <5> QED
          BY <5>5, <5>6
      <4> QED
        BY <4>1, <4>2
    <3>4. Lists(g, end, k)
      BY <3>3 DEF Lists
    <3> QED
      BY <3>2a, <3>4
  <2> QED
    BY <2>2, <2>3
<1>1. Horizon \in 0..Horizon /\ Horizon \notin Bad /\ Horizon - Horizon = 0
  BY <1>0, <1>a
<1> QED
  BY <1>1

\* What holds of the instants before the horizon when it holds of the later
\* ones holds of all of them.
LEMMA Downwards ==
    ASSUME NEW Q, Horizon \in Q,
           \A t \in Times : (\A u \in (t + 1)..Horizon : u \in Q) => t \in Q
    PROVE  \A t \in 0..Horizon : t \in Q
<1>0. Horizon \in Nat
  BY CalendarAssumption
<1> DEFINE Bad == {Horizon - t : t \in {u \in 0..Horizon : u \notin Q}}
<1> SUFFICES ASSUME Bad # {} PROVE FALSE
  OBVIOUS
<1>1. Bad \in SUBSET Nat
  BY <1>0
<1> HIDE DEF Bad
<1>2. PICK d \in Bad : \A a \in Bad : d <= a
  BY <1>1, Least
<1>3. PICK t \in 0..Horizon : t \notin Q /\ d = Horizon - t
  BY <1>2 DEF Bad
<1>4. t \in Times
  BY <1>0, <1>3 DEF Times
<1>5. ASSUME NEW u \in (t + 1)..Horizon PROVE u \in Q
  <2>1. u \in 0..Horizon /\ ~(d <= Horizon - u)
    BY <1>0, <1>3
  <2>2. u \notin Q => Horizon - u \in Bad
    BY <2>1 DEF Bad
  <2> QED
    BY <1>2, <2>1, <2>2
<1> QED
  BY <1>3, <1>4, <1>5

\* The buckets of a range are buckets, and the bucket of every instant in the
\* range is among them.
LEMMA BucketsForRangeWorks ==
    ASSUME NEW r \in Ranges
    PROVE  /\ BucketsForRange(r) \in Seq(Starts)
           /\ \A u \in Times : Contains(r, u) =>
                \E i \in 1..Len(BucketsForRange(r)) : BucketsForRange(r)[i] = BucketOf(u)
<1>0. r.start \in 0..Horizon /\ r.end \in 0..Horizon /\ Horizon \in Nat
  BY PagingAssumption, CalendarAssumption
<1> DEFINE f == CHOOSE h : Lists(h, r.end, 0)
<1>1. BucketsForRange(r) = IF r.start >= r.end THEN <<>> ELSE f[r.start]
  BY DEF BucketsForRange, Lists, From
<1>2. Lists(f, r.end, 0)
  BY ListsExist
<1> HIDE DEF f
<1>3. \A t \in 0..Horizon : f[t] = From(t, r.end, f[BucketEnd(BucketOf(t))])
  BY <1>2 DEF Lists
<1>4. \A t \in 0..Horizon : f[t] \in Seq(Starts)
  <2> DEFINE Q == {t \in 0..Horizon : f[t] \in Seq(Starts)}
  <2>0. <<>> \in Seq(Starts)
    OBVIOUS
  <2>1. Horizon \in Q
    <3>1. Horizon \in 0..Horizon
      BY <1>0
    <3>2. f[Horizon] = <<>>
      BY <1>3, <3>1, Zenon DEF From
    <3> QED
      BY <2>0, <3>1, <3>2
  <2>2. ASSUME NEW t \in Times, \A u \in (t + 1)..Horizon : u \in Q PROVE t \in Q
    <3>1. t \in 0..Horizon /\ t \in Nat /\ t < Horizon
      BY <1>0 DEF Times
    <3>2. f[BucketEnd(BucketOf(t))] \in Seq(Starts)
      BY <2>2, <3>1, BucketHolds
    <3>3. <<BucketOf(t)>> \in Seq(Starts)
      BY <3>1, BucketOfWorks
    <3>4. <<BucketOf(t)>> \o f[BucketEnd(BucketOf(t))] \in Seq(Starts)
      BY <3>2, <3>3
    <3>5. f[t] = <<>> \/ f[t] = <<BucketOf(t)>> \o f[BucketEnd(BucketOf(t))]
      BY <1>3, <3>1, Zenon DEF From
    <3> QED
      BY <2>0, <3>1, <3>4, <3>5
  <2> HIDE DEF Q
  <2>3. \A t \in 0..Horizon : t \in Q
    BY <2>1, <2>2, Downwards
  <2> QED
    BY <2>3 DEF Q
<1>5. ASSUME NEW u \in Times, u < r.end
      PROVE  \A t \in 0..Horizon : t <= u => \E i \in 1..Len(f[t]) : f[t][i] = BucketOf(u)
  <2> DEFINE Q == {t \in 0..Horizon : t <= u => \E i \in 1..Len(f[t]) : f[t][i] = BucketOf(u)}
  <2>0. u \in Nat /\ u < Horizon
    BY <1>0 DEF Times
  <2>1. Horizon \in Q
    BY <1>0, <2>0
  <2>2. ASSUME NEW t \in Times, \A v \in (t + 1)..Horizon : v \in Q PROVE t \in Q
    <3>0. t \in 0..Horizon /\ t \in Nat /\ t < Horizon
      BY <1>0 DEF Times
    <3>1. SUFFICES ASSUME t <= u PROVE \E i \in 1..Len(f[t]) : f[t][i] = BucketOf(u)
      BY <3>0
    <3> DEFINE b == BucketOf(t)
               e == BucketEnd(b)
    <3>2. b \in Starts /\ b \in Nat /\ b <= t
      BY <3>0, BucketOfWorks
    <3>3. e \in (t + 1)..Horizon /\ (u < e => BucketOf(u) = b)
      BY <2>0, <3>0, <3>1, BucketHolds
    <3>4. f[t] = From(t, r.end, f[e])
      BY <1>3, <3>0
    <3>5. f[e] \in Seq(Starts) /\ e \in Q
      BY <1>0, <1>4, <2>2, <3>0, <3>3
    <3>6. f[t] = <<b>> \o f[e]
      BY <1>0, <1>5, <2>0, <3>0, <3>1, <3>2, <3>4 DEF From
    <3> HIDE DEF b, e
    <3>7. /\ Len(f[t]) = Len(f[e]) + 1 /\ f[t][1] = b /\ Len(f[e]) \in Nat
          /\ \A i \in 1..Len(f[e]) : f[t][i + 1] = f[e][i]
      BY <3>2, <3>5, <3>6
    <3>8. CASE u < e
      BY <3>3, <3>7, <3>8
    <3>9. CASE ~(u < e)
      <4>1. PICK i \in 1..Len(f[e]) : f[e][i] = BucketOf(u)
        BY <1>0, <2>0, <3>0, <3>3, <3>5, <3>9
      <4>2. i + 1 \in 1..Len(f[t]) /\ f[t][i + 1] = BucketOf(u)
        BY <3>7, <4>1
      <4> QED
        BY <4>2
    <3> QED
      BY <3>8, <3>9
  <2> HIDE DEF Q
  <2>3. \A t \in 0..Horizon : t \in Q
    BY <2>1, <2>2, Downwards
  <2> QED
    BY <2>3 DEF Q
<1>6. BucketsForRange(r) \in Seq(Starts)
  BY <1>0, <1>1, <1>4
<1>7. ASSUME NEW u \in Times, Contains(r, u)
      PROVE  \E i \in 1..Len(BucketsForRange(r)) : BucketsForRange(r)[i] = BucketOf(u)
  <2>1. r.start <= u /\ u < r.end /\ ~(r.start >= r.end)
    BY <1>0, <1>7 DEF Contains, Times
  <2> QED
    BY <1>0, <1>1, <1>5, <2>1
<1> QED
  BY <1>6, <1>7

\* The bucket before one.
Previous(b) == IF b = 0 THEN 0 ELSE BucketOf(b - 1)

\* The last n buckets of an instant, the newest first.
Backs(g, t, n) == g = [i \in 1..n |-> IF i = 1 THEN BucketOf(t) ELSE Previous(g[i - 1])]

\* They can be listed.
LEMMA BacksExist == ASSUME NEW t, NEW n \in Nat PROVE \E g : Backs(g, t, n)
<1> DEFINE Bad == {k \in Nat : ~\E g : Backs(g, t, k)}
<1> SUFFICES ASSUME Bad # {} PROVE FALSE
  OBVIOUS
<1>1. PICK k \in Bad : \A a \in Bad : k <= a
  BY Least
<1>2. CASE k = 0
  <2>1. Backs([i \in 1..0 |-> 0], t, 0)
    BY DEF Backs
  <2> QED
    BY <1>1, <1>2, <2>1
<1>3. CASE k # 0
  <2>1. k - 1 \in Nat /\ k - 1 \notin Bad
    BY <1>1, <1>3
  <2>2. PICK f : Backs(f, t, k - 1)
    BY <2>1
  <2> DEFINE g == [i \in 1..k |-> IF i # k THEN f[i]
                                  ELSE IF i = 1 THEN BucketOf(t) ELSE Previous(f[k - 1])]
  <2>3. \A i \in 1..k : g[i] = IF i = 1 THEN BucketOf(t) ELSE Previous(g[i - 1])
    <3> SUFFICES ASSUME NEW i \in 1..k
                 PROVE  g[i] = IF i = 1 THEN BucketOf(t) ELSE Previous(g[i - 1])
      OBVIOUS
    <3>1. i # 1 => i - 1 \in 1..k /\ i - 1 # k
      BY <1>1
    <3>2. i # 1 => g[i - 1] = f[i - 1]
      BY <3>1
    <3>3. CASE i = k
      BY <3>2, <3>3
    <3>4. CASE i # k
      <4>1. i \in 1..(k - 1)
        BY <1>1, <3>4
      <4>2. f[i] = IF i = 1 THEN BucketOf(t) ELSE Previous(f[i - 1])
        BY <2>2, <4>1 DEF Backs
      <4> QED
        BY <3>2, <3>4, <4>2
    <3> QED
      BY <3>3, <3>4
  <2>4. Backs(g, t, k)
    BY <2>3 DEF Backs
  <2> QED
    BY <1>1, <2>4
<1> QED
  BY <1>2, <1>3

\* The bucket before a later one is no earlier.
LEMMA PreviousMonotone ==
    ASSUME NEW b \in Nat, NEW c \in Nat, b <= c
    PROVE  Previous(b) \in Nat /\ Previous(c) \in Nat /\ Previous(b) <= Previous(c)
<1>1. c # 0 => c - 1 \in Nat
  OBVIOUS
<1>2. b # 0 => b - 1 \in Nat /\ b - 1 <= c - 1 /\ c # 0
  OBVIOUS
<1>3. Previous(c) \in Nat
  BY <1>1, BucketOfWorks DEF Previous
<1>4. Previous(b) \in Nat
  BY <1>2, BucketOfWorks DEF Previous
<1>5. CASE b = 0
  BY <1>3, <1>4, <1>5 DEF Previous
<1>6. CASE b # 0
  BY <1>1, <1>2, <1>3, <1>4, <1>6, BucketOfMonotone DEF Previous
<1> QED
  BY <1>5, <1>6

\* The write window only moves forward.
LEMMA WindowAdvances ==
    ASSUME NEW s \in Nat, NEW t \in Nat, s <= t
    PROVE  OldestWritable(s) \in Nat /\ OldestWritable(t) \in Nat
           /\ OldestWritable(s) <= OldestWritable(t)
<1> DEFINE n == WritableBuckets
           f == CHOOSE h : Backs(h, s, n)
           g == CHOOSE h : Backs(h, t, n)
<1>1. n \in Nat /\ n # 0
  BY CalendarAssumption
<1>2. OldestWritable(s) = f[n] /\ OldestWritable(t) = g[n]
  BY DEF OldestWritable, Recent, Backs, Previous
<1> HIDE DEF n
<1>3. Backs(f, s, n) /\ Backs(g, t, n)
  BY <1>1, BacksExist
<1> HIDE DEF f, g
<1>4. /\ \A i \in 1..n : f[i] = IF i = 1 THEN BucketOf(s) ELSE Previous(f[i - 1])
      /\ \A i \in 1..n : g[i] = IF i = 1 THEN BucketOf(t) ELSE Previous(g[i - 1])
  BY <1>3 DEF Backs
<1> DEFINE Good(i) == f[i] \in Nat /\ g[i] \in Nat /\ f[i] <= g[i]
           Bad == {i \in 1..n : ~Good(i)}
<1>5. ASSUME Bad # {} PROVE FALSE
  <2>0. Bad \in SUBSET Nat
    BY <1>1
  <2>1. PICK k \in Bad : \A a \in Bad : k <= a
    BY <1>5, <2>0, Least
  <2>2. k \in 1..n /\ ~Good(k)
    BY <2>1
  <2>3. CASE k = 1
    <3>1. f[k] = BucketOf(s) /\ g[k] = BucketOf(t)
      BY <1>4, <2>2, <2>3
    <3> QED
      BY <2>2, <3>1, BucketOfWorks, BucketOfMonotone
  <2>4. CASE k # 1
    <3>1. k - 1 \in 1..n /\ ~(k <= k - 1)
      BY <2>2, <2>4, <1>1
    <3>2. Good(k - 1)
      BY <2>1, <3>1
    <3>3. f[k] = Previous(f[k - 1]) /\ g[k] = Previous(g[k - 1])
      BY <1>4, <2>2, <2>4
    <3> QED
      BY <2>2, <3>2, <3>3, PreviousMonotone
  <2> QED
    BY <2>3, <2>4
<1>6. n \in 1..n
  BY <1>1
<1>7. Good(n)
  BY <1>5, <1>6
<1> QED
  BY <1>2, <1>7

-----------------------------------------------------------------------------
(* The store: appends, time and cutovers leave the walk's account alone. *)

\* A step of the store that only adds rows keeps what a page and a walk are
\* known to hold.
LEMMA StoreFrame ==
    ASSUME PagingInv, rows \subseteq rows', UNCHANGED <<walk, queryVars, historyVars>>
    PROVE  PageInv' /\ WalkInv' /\ WalkComplete'
<1>1. /\ walk' = walk /\ limit' = limit /\ todo' = todo /\ task' = task /\ got' = got
      /\ result' = result /\ delivered' = delivered /\ owed' = owed /\ settled' = settled
  BY DEF queryVars, historyVars
<1>2. Taken \subseteq Taken' /\ Sure \subseteq Sure'
  BY <1>1 DEF Taken, Sure
<1>3. ASSUME NEW b \in Starts, Accounted(b) PROVE Accounted(b)'
  BY <1>1, <1>3 DEF Accounted, Covered
<1>4. Ahead(result) => Ahead(result)'
  BY <1>1, <1>2 DEF Ahead
<1>5. ASSUME NEW b \in Starts, Ahead(got[b]) PROVE Ahead(got[b])'
  BY <1>1, <1>2, <1>5 DEF Ahead
<1>6. PageInv'
  BY <1>1, <1>3, <1>4, <1>5 DEF PagingInv, PageInv
<1>7. WalkInv'
  BY <1>1, <1>2 DEF PagingInv, WalkInv
<1>8. WalkComplete'
  BY <1>1 DEF PagingInv, WalkComplete, Past
<1> QED
  BY <1>6, <1>7, <1>8

\* A settled range stays settled while no append that may arrive is added.
LEMMA SealedStays ==
    ASSUME PagingInv, UNCHANGED <<walk, owed, settled>>,
           \A k \in rows' : k \in rows \/ \E j \in Keys : k = Stored(j) /\ MayArrive(j),
           \A k \in Keys : MayArrive(k)' => MayArrive(k)
    PROVE  SettledInv'
<1> SUFFICES ASSUME settled, walk.at # "idle" PROVE (Sure \subseteq owed)' /\ Sealed'
  BY DEF SettledInv
<1>1. Sure \subseteq owed /\ Sealed
  BY DEF PagingInv, SettledInv
<1>2. Sealed'
  <2> SUFFICES ASSUME NEW k \in Keys, InBoth(walk.range, Stored(k)[1]) PROVE ~MayArrive(k)'
    BY DEF Sealed
  <2> QED
    BY <1>1 DEF Sealed
<1>3. ASSUME NEW k \in rows', InBoth(walk.range, k[1]) PROVE k \in rows
  BY <1>1, <1>3 DEF Sealed
<1>4. Sure' \subseteq Sure
  BY <1>3 DEF Sure
<1> QED
  BY <1>1, <1>2, <1>4

\* The window check lets only an append in that may arrive anyhow.
LEMMA AppendStartStep ==
    ASSUME PagingInv, NEW k \in Keys, AppendStart(k)
    PROVE  PagingInv'
<1>1. PageInv' /\ WalkInv' /\ WalkComplete'
  BY StoreFrame DEF AppendStart
<1>2. TypeOK'
  BY DEF PagingInv, TypeOK, AppendStart, queryVars, historyVars
<1>3. /\ inflight' = inflight \cup {k} /\ now' = now /\ rows' = rows /\ tier' = tier
      /\ OldestWritable(now) <= BucketOf(k[1])
  BY DEF AppendStart
<1>4. \A j \in Keys : MayArrive(j)' => MayArrive(j)
  BY <1>3 DEF MayArrive
<1>5. SettledInv'
  BY <1>3, <1>4, SealedStays DEF AppendStart, historyVars
<1> QED
  BY <1>1, <1>2, <1>5 DEF PagingInv

\* An append adds its record only to a hot bucket.
LEMMA AppendEndStep ==
    ASSUME PagingInv, NEW k \in Keys, AppendEnd(k)
    PROVE  PagingInv'
<1>0. /\ k \in inflight /\ inflight' = inflight \ {k}
      /\ rows' = rows \/ (rows' = rows \cup {Stored(k)} /\ tier[BucketOf(k[1])] = "hot")
      /\ now' = now /\ tier' = tier /\ walk' = walk /\ UNCHANGED queryVars
      /\ faults' = faults /\ UNCHANGED historyVars
  BY DEF AppendEnd
<1>1. PageInv' /\ WalkInv' /\ WalkComplete'
  BY <1>0, StoreFrame
<1>2. TypeOK'
  <2>1. rows' \subseteq Records
    BY <1>0 DEF PagingInv, TypeOK, Records
  <2> QED
    BY <1>0, <2>1 DEF PagingInv, TypeOK, queryVars, historyVars
<1>3. \A j \in rows' : j \in rows \/ \E i \in Keys : j = Stored(i) /\ MayArrive(i)
  BY <1>0 DEF MayArrive
<1>4. \A j \in Keys : MayArrive(j)' => MayArrive(j)
  BY <1>0 DEF MayArrive
<1>5. SettledInv'
  BY <1>0, <1>3, <1>4, SealedStays DEF historyVars
<1> QED
  BY <1>1, <1>2, <1>5 DEF PagingInv

\* Time moves the window forward.
LEMMA ClockStep ==
    ASSUME PagingInv, ClockAdvances
    PROVE  PagingInv'
<1>1. PageInv' /\ WalkInv' /\ WalkComplete'
  BY StoreFrame DEF ClockAdvances
<1>2. TypeOK'
  BY DEF PagingInv, TypeOK, ClockAdvances, queryVars, historyVars
<1>3. now \in Nat /\ now' \in Nat /\ now <= now'
  BY CalendarAssumption, PagingAssumption DEF PagingInv, TypeOK, Times, ClockAdvances
<1>4. /\ OldestWritable(now) \in Nat /\ OldestWritable(now') \in Nat
      /\ OldestWritable(now) <= OldestWritable(now')
  BY <1>3, WindowAdvances
<1>5. OldestWritable(now)' = OldestWritable(now')
  BY DEF OldestWritable, Recent
<1>6. ASSUME NEW k \in Keys, MayArrive(k)' PROVE MayArrive(k)
  <2>1. inflight' = inflight /\ tier' = tier
    BY DEF ClockAdvances
  <2>2. BucketOf(k[1]) \in Nat
    BY KeyParts, BucketOfWorks
  <2>3. OldestWritable(now') <= BucketOf(k[1]) => OldestWritable(now) <= BucketOf(k[1])
    BY <1>4, <2>2
  <2> QED
    BY <1>5, <1>6, <2>1, <2>3 DEF MayArrive
<1>7. SettledInv'
  BY <1>6, SealedStays DEF ClockAdvances, historyVars
<1> QED
  BY <1>1, <1>2, <1>7 DEF PagingInv

\* A cutover moves a bucket and no record.
LEMMA ArchiveStep ==
    ASSUME PagingInv, NEW b \in Starts, Archive(b)
    PROVE  PagingInv'
<1>1. PageInv' /\ WalkInv' /\ WalkComplete'
  BY StoreFrame DEF Archive
<1>2. TypeOK'
  BY DEF PagingInv, TypeOK, Archive, queryVars, historyVars
<1>3. ASSUME NEW k \in Keys, MayArrive(k)' PROVE MayArrive(k)
  <2>1. BucketOf(k[1]) \in Starts
    BY KeyParts, BucketOfWorks
  <2>2. tier'[BucketOf(k[1])] = "hot" => tier[BucketOf(k[1])] = "hot"
    BY <2>1 DEF Archive, PagingInv, TypeOK
  <2> QED
    BY <1>3, <2>2 DEF MayArrive, Archive
<1>4. SettledInv'
  BY <1>3, SealedStays DEF Archive, historyVars
<1> QED
  BY <1>1, <1>2, <1>4 DEF PagingInv

\* What a walk is owed is what its range holds when it begins.
LEMMA WalkBeginStep ==
    ASSUME PagingInv, NEW r \in Ranges, WalkBegin(r)
    PROVE  PagingInv'
<1>1. /\ walk.at = "idle" /\ walk' = [at |-> "open", range |-> r, cursor |-> NoCursor]
      /\ owed' = {k \in rows : InBoth(r, k[1])}
      /\ settled' = \A k \in Keys : InBoth(r, Stored(k)[1]) => ~MayArrive(k)
      /\ now' = now /\ rows' = rows /\ tier' = tier /\ inflight' = inflight
      /\ limit' = limit /\ todo' = todo /\ task' = task /\ got' = got /\ result' = result
      /\ faults' = faults /\ delivered' = delivered
  BY DEF WalkBegin, storeVars, queryVars
<1>2. walk'.at = "open" /\ walk'.range = r /\ walk'.cursor = NoCursor
  BY <1>1
<1>3. TypeOK'
  BY <1>1 DEF PagingInv, TypeOK
<1>4. PageInv'
  BY <1>1, <1>2 DEF PagingInv, PageInv
<1>5. Sure' = owed' /\ delivered' = {}
  BY <1>1, <1>2 DEF Sure, PagingInv, WalkInv
<1>6. WalkInv'
  BY <1>2, <1>5 DEF WalkInv
<1>7. SettledInv'
  <2>1. \A k \in Keys : MayArrive(k)' = MayArrive(k)
    BY <1>1 DEF MayArrive
  <2> QED
    BY <1>1, <1>2, <1>5, <2>1 DEF SettledInv, Sealed
<1>8. WalkComplete'
  BY <1>2 DEF WalkComplete, Past
<1> QED
  BY <1>3, <1>4, <1>6, <1>7, <1>8 DEF PagingInv

-----------------------------------------------------------------------------
(* The query. *)

\* A refused range ends the walk.
LEMMA QueryRejectedStep ==
    ASSUME PagingInv, QueryRejected
    PROVE  PagingInv'
<1>1. /\ walk.at = "open" /\ walk' = [walk EXCEPT !.at = "rejected"]
      /\ now' = now /\ rows' = rows /\ tier' = tier /\ inflight' = inflight
      /\ limit' = limit /\ todo' = todo /\ task' = task /\ got' = got /\ result' = result
      /\ faults' = faults /\ delivered' = delivered /\ owed' = owed /\ settled' = settled
  BY DEF QueryRejected, storeVars, queryVars, historyVars
<1>2. walk'.at = "rejected" /\ walk'.range = walk.range /\ walk'.cursor = walk.cursor
  BY <1>1 DEF PagingInv, TypeOK
<1>3. TypeOK'
  BY <1>1 DEF PagingInv, TypeOK
<1>4. PageInv'
  BY <1>1, <1>2 DEF PagingInv, PageInv
<1>5. Taken' = Taken /\ Sure' = Sure
  BY <1>1, <1>2 DEF Taken, Sure
<1>6. WalkInv'
  BY <1>1, <1>2, <1>5 DEF PagingInv, WalkInv
<1>7. SettledInv'
  BY <1>1, <1>2, <1>5 DEF PagingInv, SettledInv, Sealed, MayArrive
<1>8. WalkComplete'
  BY <1>2 DEF WalkComplete
<1> QED
  BY <1>3, <1>4, <1>6, <1>7, <1>8 DEF PagingInv

\* A page of no records leaves the walk where it was, or ends it with nothing.
LEMMA EmptyPageStep ==
    ASSUME PagingInv, EmptyPage
    PROVE  PagingInv'
<1>1. /\ walk.at = "open" 
      /\ walk' = walk \/ (walk.cursor = NoCursor /\ walk' = [walk EXCEPT !.at = "empty"])
      /\ now' = now /\ rows' = rows /\ tier' = tier /\ inflight' = inflight
      /\ limit' = limit /\ todo' = todo /\ task' = task /\ got' = got /\ result' = result
      /\ faults' = faults /\ delivered' = delivered /\ owed' = owed /\ settled' = settled
  BY DEF EmptyPage, storeVars, queryVars, historyVars
<1>2. walk'.at \in {"open", "empty"} /\ walk'.range = walk.range /\ walk'.cursor = walk.cursor
  BY <1>1 DEF PagingInv, TypeOK
<1>3. TypeOK'
  BY <1>1 DEF PagingInv, TypeOK
<1>4. PageInv'
  BY <1>1, <1>2 DEF PagingInv, PageInv
<1>5. Taken' = Taken /\ Sure' = Sure
  BY <1>1, <1>2 DEF Taken, Sure
<1>6. WalkInv'
  BY <1>1, <1>2, <1>5 DEF PagingInv, WalkInv
<1>7. SettledInv'
  BY <1>1, <1>2, <1>5 DEF PagingInv, SettledInv, Sealed, MayArrive
<1>8. WalkComplete'
  BY <1>1, <1>2 DEF PagingInv, WalkComplete, Past
<1> QED
  BY <1>3, <1>4, <1>6, <1>7, <1>8 DEF PagingInv

\* A new page has a task, or a place in the queue, for every bucket that holds
\* something owed.
LEMMA QueryStep ==
    ASSUME PagingInv, NEW n \in Limits, Query(n)
    PROVE  PagingInv'
<1> DEFINE L == BucketsForRange(walk.range)
<1>1. /\ walk.at = "open" /\ walk' = [walk EXCEPT !.at = "paging"]
      /\ now' = now /\ rows' = rows /\ tier' = tier /\ inflight' = inflight
      /\ n > 0 /\ limit' = n /\ result' = {} /\ got' = [b \in Starts |-> {}]
      /\ todo' = SubSeq(L, MaxParallel + 1, Len(L))
      /\ task' = [b \in Starts |-> IF b \in Spawned(L) THEN "read" ELSE "none"]
      /\ faults' = faults /\ delivered' = delivered /\ owed' = owed /\ settled' = settled
  BY DEF Query, storeVars, historyVars
<1>2. walk'.at = "paging" /\ walk'.range = walk.range /\ walk'.cursor = walk.cursor
  BY <1>1 DEF PagingInv, TypeOK
<1>3. walk.range \in Ranges /\ owed \subseteq Sure
  BY <1>1 DEF PagingInv, WalkInv
<1>4. /\ L \in Seq(Starts)
      /\ \A u \in Times : Contains(walk.range, u) => \E i \in 1..Len(L) : L[i] = BucketOf(u)
  BY <1>3, BucketsForRangeWorks
<1> HIDE DEF L
<1>5. Len(L) \in Nat /\ MaxParallel \in Nat /\ MaxParallel >= 2
  BY <1>4, PagingAssumption
<1>6. /\ todo' \in Seq(Starts)
      /\ Len(todo') = IF MaxParallel + 1 <= Len(L) THEN Len(L) - MaxParallel ELSE 0
      /\ \A i \in 1..(Len(L) - MaxParallel) : todo'[i] = L[MaxParallel + i]
  BY <1>1, <1>4, <1>5, SubSeqProperties
<1>7. TypeOK'
  BY <1>1, <1>6 DEF PagingInv, TypeOK
<1>8. ASSUME NEW b \in Starts PROVE Accounted(b)'
  <2>1. CASE \E i \in 1..Len(L) : L[i] = b
    <3>1. PICK i \in 1..Len(L) : L[i] = b
      BY <2>1
    <3>2. CASE i <= MaxParallel
      <4>1. b \in Spawned(L)
        BY <1>5, <3>1, <3>2 DEF Spawned
      <4> QED
        BY <1>1, <4>1 DEF Accounted
    <3>3. CASE ~(i <= MaxParallel)
      <4>1. /\ i - MaxParallel \in 1..(Len(L) - MaxParallel) /\ MaxParallel + 1 <= Len(L)
            /\ MaxParallel + (i - MaxParallel) = i
        BY <1>5, <3>3
      <4>2. todo'[i - MaxParallel] = b /\ Len(todo') = Len(L) - MaxParallel
        BY <1>6, <3>1, <4>1
      <4>3. i - MaxParallel \in DOMAIN todo'
        BY <1>6, <4>1, <4>2
      <4> QED
        BY <4>2, <4>3 DEF Accounted
    <3> QED
      BY <3>2, <3>3
  <2>2. CASE ~\E i \in 1..Len(L) : L[i] = b
    <3>1. ASSUME NEW k \in owed PROVE BucketOf(k[1]) # b
      <4>1. k \in Records /\ Contains(walk.range, k[1])
        BY <1>3 DEF Sure, InBoth, PagingInv, TypeOK
      <4>2. k[1] \in Times
        BY <4>1, KeyParts
      <4> QED
        BY <1>4, <2>2, <4>1, <4>2
    <3>2. Covered(b, result)'
      BY <1>1, <3>1 DEF Covered
    <3> QED
      BY <3>2 DEF Accounted
  <2> QED
    BY <2>1, <2>2
<1>9. todo' # <<>> => \E b \in Starts : task'[b] # "none"
  <2>1. SUFFICES ASSUME todo' # <<>> PROVE \E b \in Starts : task'[b] # "none"
    OBVIOUS
  <2>2. Len(todo') # 0
    BY <1>6, <2>1
  <2>3. 1 \in 1..Len(L) /\ 1 \in 1..MaxParallel
    BY <1>5, <1>6, <2>2
  <2>4. L[1] \in Starts /\ L[1] \in Spawned(L)
    BY <1>4, <2>3 DEF Spawned
  <2> QED
    BY <1>1, <2>4
<1>10. \A b \in Starts : task'[b] # "done"
  BY <1>1
<1>11. PageInv'
  BY <1>1, <1>2, <1>8, <1>9, <1>10 DEF PageInv, Ahead
<1>12. Taken' = Taken /\ Sure' = Sure
  BY <1>1, <1>2 DEF Taken, Sure
<1>13. WalkInv'
  BY <1>1, <1>2, <1>12 DEF PagingInv, WalkInv
<1>14. SettledInv'
  BY <1>1, <1>2, <1>12 DEF PagingInv, SettledInv, Sealed, MayArrive
<1>15. WalkComplete'
  BY <1>1, <1>2 DEF PagingInv, WalkComplete, Past
<1> QED
  BY <1>7, <1>11, <1>13, <1>14, <1>15 DEF PagingInv

\* A failed page leaves the walk where it was.
LEMMA QueryFailsStep ==
    ASSUME PagingInv, QueryFails
    PROVE  PagingInv'
<1>1. /\ walk.at = "paging" /\ walk' = [walk EXCEPT !.at = "open"]
      /\ now' = now /\ rows' = rows /\ tier' = tier /\ inflight' = inflight
      /\ limit' = 0 /\ result' = {} /\ got' = [b \in Starts |-> {}]
      /\ todo' = <<>> /\ task' = [b \in Starts |-> "none"]
      /\ faults < MaxFaults /\ faults' = faults + 1
      /\ delivered' = delivered /\ owed' = owed /\ settled' = settled
  BY DEF QueryFails, storeVars, historyVars
<1>2. walk'.at = "open" /\ walk'.range = walk.range /\ walk'.cursor = walk.cursor
  BY <1>1 DEF PagingInv, TypeOK
<1>3. TypeOK'
  <2>1. faults' \in 0..MaxFaults
    BY <1>1, PagingAssumption DEF PagingInv, TypeOK
  <2> QED
    BY <1>1, <2>1 DEF PagingInv, TypeOK
<1>4. PageInv'
  BY <1>1, <1>2 DEF PageInv
<1>5. Taken' = Taken /\ Sure' = Sure
  BY <1>1, <1>2 DEF Taken, Sure
<1>6. WalkInv'
  BY <1>1, <1>2, <1>5 DEF PagingInv, WalkInv
<1>7. SettledInv'
  BY <1>1, <1>2, <1>5 DEF PagingInv, SettledInv, Sealed, MayArrive
<1>8. WalkComplete'
  BY <1>1, <1>2 DEF PagingInv, WalkComplete, Past
<1> QED
  BY <1>3, <1>4, <1>6, <1>7, <1>8 DEF PagingInv

\* The steps of the tasks leave the walk and the store alone.
LEMMA TaskFrame ==
    ASSUME PagingInv, UNCHANGED <<storeVars, walk, limit, faults, historyVars>>,
           todo' \in Seq(Starts), task' \in [Starts -> {"none", "read", "fetch", "done"}],
           got' \in [Starts -> SUBSET Records], result' \subseteq Records, PageInv'
    PROVE  PagingInv'
<1>1. /\ walk' = walk /\ limit' = limit /\ faults' = faults
      /\ now' = now /\ rows' = rows /\ tier' = tier /\ inflight' = inflight
      /\ delivered' = delivered /\ owed' = owed /\ settled' = settled
  BY DEF storeVars, historyVars
<1>2. TypeOK'
  BY <1>1 DEF PagingInv, TypeOK
<1>3. WalkInv'
  BY <1>1 DEF PagingInv, WalkInv, Taken, Sure
<1>4. SettledInv'
  BY <1>1 DEF PagingInv, SettledInv, Sure, Sealed, MayArrive
<1>5. WalkComplete'
  BY <1>1 DEF PagingInv, WalkComplete, Past
<1> QED
  BY <1>2, <1>3, <1>4, <1>5 DEF PagingInv

\* The limit of a bucket's page leaves room for one record more than the page.
LEMMA CapacityWorks ==
    ASSUME TypeOK
    PROVE  Capacity \in Nat /\ limit \in Nat
           /\ (Capacity > limit \/ \A S \in SUBSET Records : Cardinality(S) <= Capacity)
<1>1. limit \in 0..UsizeMax /\ UsizeMax \in Nat /\ UsizeMax >= Cardinality(Records)
  BY PagingAssumption, FewKeys DEF TypeOK
<1>2. CASE limit = UsizeMax
  <2>1. Capacity = UsizeMax
    BY <1>2 DEF Capacity
  <2>2. \A S \in SUBSET Records : Cardinality(S) <= UsizeMax
    BY <1>1, FewKeys, PartIsSmaller
  <2> QED
    BY <1>1, <2>1, <2>2
<1>3. CASE limit # UsizeMax
  BY <1>1, <1>3 DEF Capacity
<1> QED
  BY <1>2, <1>3

\* One bucket's page holds what is owed of the bucket, or enough before it to
\* fill the whole page, whichever of the two filters it was read with.
LEMMA BucketPageCovers ==
    ASSUME TypeOK, owed \subseteq Sure, NEW b \in Starts, NEW P,
           P = HotPage(b) \/ P = ArchivedPage(b)
    PROVE  P \in SUBSET Records /\ Ahead(P) /\ Covered(b, P)
<1>0. PICK range : /\ P = BucketPage(b, range)
                   /\ \A t : Contains(range, t) => InEither(walk.range, t)
                   /\ \A t : InBoth(walk.range, t) => Contains(range, t)
  BY DEF HotPage, ArchivedPage, InEither, InBoth
<1> DEFINE S == {k \in rows : /\ BucketOf(k[1]) = b
                              /\ Contains(range, k[1]) /\ Past(walk.cursor, k)}
<1>1. S \in SUBSET Records
  BY DEF TypeOK
<1>2. Capacity \in Nat /\ limit \in Nat
      /\ (Capacity > limit \/ \A T \in SUBSET Records : Cardinality(T) <= Capacity)
  BY CapacityWorks
<1>3. P = First(S, Capacity)
  BY <1>0 DEF BucketPage
<1>4. P \in SUBSET S /\ P \in SUBSET Records
  BY <1>1, <1>2, <1>3, FirstKeeps
<1>5. Ahead(P)
  BY <1>0, <1>4 DEF Ahead, Taken
<1>6. ASSUME NEW k \in owed, BucketOf(k[1]) = b, Past(walk.cursor, k), k \notin P
      PROVE  Cardinality({j \in P : Before(j, k)}) > limit
  <2>1. k \in S
    BY <1>0, <1>6 DEF Sure
  <2> HIDE DEF S
  <2>2. \A j \in P : Before(j, k)
    BY <1>1, <1>2, <1>3, <1>6, <2>1, FirstIsBefore
  <2>3. {j \in P : Before(j, k)} = P
    BY <2>2
  <2>4. Capacity > limit /\ ~(Cardinality(S) <= Capacity)
    BY <1>1, <1>2, <1>3, <1>6, <2>1, FirstKeepsAll
  <2>5. Capacity <= Cardinality(P)
    BY <1>1, <1>2, <1>3, <2>4, FewKeys, FirstFills
  <2>6. Cardinality(P) \in Nat
    BY <1>4, FewKeys
  <2>7. Cardinality(P) > limit
    BY <1>2, <2>4, <2>5, <2>6
  <2> QED
    BY <2>3, <2>7, Zenon
<1> QED
  BY <1>4, <1>5, <1>6 DEF Covered

\* A task that has read its bucket holds a page that covers it.
LEMMA TaskReads ==
    ASSUME PagingInv, NEW b \in Starts, task[b] \in {"read", "fetch"},
           NEW P, P = HotPage(b) \/ P = ArchivedPage(b),
           got' = [got EXCEPT ![b] = P], task' = [task EXCEPT ![b] = "done"],
           UNCHANGED <<storeVars, walk, limit, todo, result, faults, historyVars>>
    PROVE  PagingInv'
<1>0. /\ walk' = walk /\ limit' = limit /\ todo' = todo /\ result' = result
      /\ rows' = rows /\ owed' = owed
  BY DEF storeVars, historyVars
<1>1. TypeOK /\ PageInv /\ WalkInv
  BY DEF PagingInv
<1>2. walk.at = "paging"
  BY <1>1 DEF PageInv
<1>3. owed \subseteq Sure
  BY <1>1, <1>2 DEF WalkInv
<1>4. P \in SUBSET Records /\ Ahead(P) /\ Covered(b, P)
  BY <1>1, <1>3, BucketPageCovers
<1>5. got'[b] = P /\ task'[b] = "done"
      /\ \A c \in Starts : c # b => got'[c] = got[c] /\ task'[c] = task[c]
  BY <1>1 DEF TypeOK
<1>6. /\ task' \in [Starts -> {"none", "read", "fetch", "done"}]
      /\ got' \in [Starts -> SUBSET Records]
  BY <1>1, <1>4 DEF TypeOK
<1>7. Taken' = Taken /\ Sure' = Sure
  BY <1>0 DEF Taken, Sure
<1>8. ASSUME NEW c \in Starts PROVE (task'[c] = "done" => Ahead(got[c])') /\ Accounted(c)'
  <2>1. CASE c = b
    <3>1. Ahead(got[b])'
      BY <1>0, <1>4, <1>5, <1>7 DEF Ahead
    <3>2. Covered(b, got[b])'
      BY <1>0, <1>4, <1>5 DEF Covered
    <3> QED
      BY <1>5, <2>1, <3>1, <3>2 DEF Accounted
  <2>2. CASE c # b
    <3>1. (task[c] = "done" => Ahead(got[c])) /\ Accounted(c)
      BY <1>1, <1>2 DEF PageInv
    <3>2. Ahead(got[c]) => Ahead(got[c])'
      BY <1>0, <1>5, <1>7, <2>2 DEF Ahead
    <3>3. Accounted(c) => Accounted(c)'
      BY <1>0, <1>5, <2>2 DEF Accounted, Covered
    <3> QED
      BY <1>5, <2>2, <3>1, <3>2, <3>3
  <2> QED
    BY <2>1, <2>2
<1>9. Ahead(result)'
  BY <1>0, <1>1, <1>2, <1>7 DEF PageInv, Ahead
<1>10. PageInv'
  <2>1. todo' # <<>> => \E c \in Starts : task'[c] # "none"
    BY <1>5
  <2> QED
    BY <1>0, <1>1, <1>2, <1>8, <1>9, <2>1 DEF PageInv
<1> QED
  BY <1>0, <1>1, <1>6, <1>10, TaskFrame DEF TypeOK

\* A read is answered by the database or sent to the archive.
LEMMA ReadRangeStep ==
    ASSUME PagingInv, NEW b \in Starts, ReadRange(b)
    PROVE  PagingInv'
<1>1. CASE got' = [got EXCEPT ![b] = HotPage(b)] /\ task' = [task EXCEPT ![b] = "done"]
  BY <1>1, TaskReads DEF ReadRange
<1>2. CASE task' = [task EXCEPT ![b] = "fetch"] /\ UNCHANGED got
  <2>0. /\ walk' = walk /\ limit' = limit /\ todo' = todo /\ result' = result
        /\ rows' = rows /\ owed' = owed /\ got' = got /\ task[b] = "read"
    BY <1>2 DEF ReadRange, storeVars, historyVars
  <2>1. TypeOK /\ PageInv
    BY DEF PagingInv
  <2>2. walk.at = "paging"
    BY <2>0, <2>1 DEF PageInv
  <2>3. task'[b] = "fetch" /\ \A c \in Starts : c # b => task'[c] = task[c]
    BY <1>2, <2>1 DEF TypeOK
  <2>4. task' \in [Starts -> {"none", "read", "fetch", "done"}]
    BY <1>2, <2>1 DEF TypeOK
  <2>5. Taken' = Taken /\ Sure' = Sure
    BY <2>0 DEF Taken, Sure
  <2>6. ASSUME NEW c \in Starts PROVE (task'[c] = "done" => Ahead(got[c])') /\ Accounted(c)'
    <3>1. (task[c] = "done" => Ahead(got[c])) /\ Accounted(c)
      BY <2>1, <2>2 DEF PageInv
    <3>2. Ahead(got[c]) => Ahead(got[c])'
      BY <2>0, <2>5 DEF Ahead
    <3>3. Accounted(c)'
      BY <2>0, <2>3, <3>1 DEF Accounted, Covered
    <3> QED
      BY <2>3, <3>1, <3>2, <3>3
  <2>7. Ahead(result)'
    BY <2>0, <2>1, <2>2, <2>5 DEF PageInv, Ahead
  <2>8. todo' # <<>> => \E c \in Starts : task'[c] # "none"
    BY <2>3
  <2>9. PageInv'
    BY <2>0, <2>1, <2>2, <2>6, <2>7, <2>8 DEF PageInv
  <2> QED
    BY <2>0, <2>1, <2>4, <2>9, TaskFrame DEF TypeOK, ReadRange
<1> QED
  BY <1>1, <1>2 DEF ReadRange

\* The archive holds the bucket's rows, and the process filters them.
LEMMA FetchArchiveStep ==
    ASSUME PagingInv, NEW b \in Starts, FetchArchive(b)
    PROVE  PagingInv'
  BY TaskReads DEF FetchArchive

\* What covers a bucket still does when more records are joined to it.
LEMMA CoverGrows ==
    ASSUME TypeOK, NEW b, NEW R \in SUBSET Records, NEW T \in SUBSET R, Covered(b, T)
    PROVE  Covered(b, R)
<1>1. ASSUME NEW k \in owed
      PROVE  Cardinality({j \in T : Before(j, k)}) > limit
             => Cardinality({j \in R : Before(j, k)}) > limit
  <2> DEFINE A == {j \in T : Before(j, k)}
             B == {j \in R : Before(j, k)}
  <2>1. A \in SUBSET B /\ B \in SUBSET Records /\ A \in SUBSET Records
    OBVIOUS
  <2> HIDE DEF A, B
  <2>2. Cardinality(A) <= Cardinality(B) /\ Cardinality(A) \in Nat /\ Cardinality(B) \in Nat
    BY <2>1, PartIsSmaller, FewKeys
  <2>3. limit \in Nat
    BY CapacityWorks
  <2>4. Cardinality(A) > limit => Cardinality(B) > limit
    BY <2>2, <2>3
  <2> QED
    BY <2>4 DEF A, B
<1> QED
  BY <1>1, Zenon DEF Covered

\* A join ends bucket b's task and may give the head of the queue one.
QueueMoves(b) ==
    /\ todo' \in Seq(Starts)
    /\ task' \in [Starts -> {"none", "read", "fetch", "done"}]
    /\ todo' # <<>> => \E c \in Starts : task'[c] # "none"
    /\ \A c \in Starts : c # b => task'[c] = task[c] \/ task'[c] = "read"
    /\ task'[b] \in {"none", "read"}
    /\ \A i \in DOMAIN todo : \/ \E h \in DOMAIN todo' : todo'[h] = todo[i]
                              \/ task'[todo[i]] = "read"

\* Joining a task keeps its bucket's cover and moves the queue on.
LEMMA JoinStep ==
    ASSUME PagingInv, NEW b \in Starts, Join(b)
    PROVE  PagingInv'
<1>0. /\ walk' = walk /\ limit' = limit /\ result' = result \cup got[b]
      /\ rows' = rows /\ owed' = owed /\ got' = [got EXCEPT ![b] = {}] /\ task[b] = "done"
  BY DEF Join, storeVars, historyVars
<1>1. TypeOK /\ PageInv
  BY DEF PagingInv
<1>2. walk.at = "paging"
  BY <1>0, <1>1 DEF PageInv
<1>3. \A c \in Starts : c # b => got'[c] = got[c]
  BY <1>0, <1>1 DEF TypeOK
<1>4. /\ result' \in SUBSET Records /\ result \in SUBSET result' /\ got[b] \in SUBSET result'
      /\ got' \in [Starts -> SUBSET Records]
  BY <1>0, <1>1 DEF TypeOK
<1>5. Taken' = Taken /\ Sure' = Sure
  BY <1>0 DEF Taken, Sure
<1>6. Ahead(result)'
  BY <1>0, <1>1, <1>2, <1>5 DEF PageInv, Ahead
<1>7. \A c \in Starts : (task[c] = "done" => Ahead(got[c])) /\ Accounted(c)
  BY <1>1, <1>2 DEF PageInv
<1>8. ASSUME NEW c \in Starts, Covered(c, result) PROVE Covered(c, result)'
  <2>1. Covered(c, result')
    BY <1>1, <1>4, <1>8, CoverGrows
  <2> QED
    BY <1>0, <2>1 DEF Covered
<1>9. Covered(b, got[b]) => Covered(b, result)'
  <2>1. Covered(b, got[b]) => Covered(b, result')
    BY <1>1, <1>4, CoverGrows
  <2> QED
    BY <1>0, <2>1 DEF Covered
<1>10. ASSUME QueueMoves(b) PROVE PagingInv'
  <2>0. PageInv'
    <3>1. ASSUME NEW c \in Starts, task'[c] = "done" PROVE Ahead(got[c])'
      <4>1. c # b /\ task[c] = "done"
        BY <1>10, <3>1 DEF QueueMoves
      <4>2. Ahead(got[c]) /\ got'[c] = got[c]
        BY <1>3, <1>7, <4>1
      <4> QED
        BY <1>0, <1>5, <4>2 DEF Ahead
    <3>2. ASSUME NEW c \in Starts PROVE Accounted(c)'
      <4>1. CASE \E i \in DOMAIN todo : todo[i] = c
        BY <1>10, <4>1 DEF Accounted, QueueMoves
      <4>2. CASE task[c] \in {"read", "fetch"}
        <5>1. c # b
          BY <1>0, <4>2
        <5>2. task'[c] \in {"read", "fetch"}
          BY <1>10, <4>2, <5>1 DEF QueueMoves
        <5> QED
          BY <5>2 DEF Accounted
      <4>3. CASE task[c] = "done" /\ Covered(c, got[c])
        <5>1. CASE c = b
          BY <1>9, <4>3, <5>1 DEF Accounted
        <5>2. CASE c # b
          <6>1. got'[c] = got[c] /\ (task'[c] = "done" \/ task'[c] = "read")
            BY <1>3, <1>10, <4>3, <5>2 DEF QueueMoves
          <6>2. Covered(c, got[c])'
            BY <1>0, <4>3, <6>1 DEF Covered
          <6> QED
            BY <6>1, <6>2 DEF Accounted
        <5> QED
          BY <5>1, <5>2
      <4>4. CASE Covered(c, result)
        BY <1>8, <4>4 DEF Accounted
      <4> QED
        BY <1>7, <4>1, <4>2, <4>3, <4>4 DEF Accounted
    <3> QED
      BY <1>0, <1>1, <1>2, <1>6, <1>10, <3>1, <3>2 DEF PageInv, QueueMoves
  <2> QED
    BY <1>4, <1>10, <2>0, TaskFrame DEF Join, QueueMoves
<1>11. CASE todo = <<>>
  <2>1. task' = [task EXCEPT ![b] = "none"] /\ todo' = todo
    BY <1>11 DEF Join
  <2>2. QueueMoves(b)
    BY <1>1, <1>11, <2>1 DEF TypeOK, QueueMoves
  <2> QED
    BY <1>10, <2>2
<1>12. CASE todo # <<>>
  <2>1. task' = [task EXCEPT ![b] = "none", ![Head(todo)] = "read"] /\ todo' = Tail(todo)
    BY <1>12 DEF Join
  <2>2. todo \in Seq(Starts) /\ task \in [Starts -> {"none", "read", "fetch", "done"}]
    BY <1>1 DEF TypeOK
  <2>3. /\ Head(todo) \in Starts /\ Head(todo) = todo[1] /\ Tail(todo) \in Seq(Starts)
        /\ Len(todo) \in Nat /\ Len(Tail(todo)) = Len(todo) - 1
        /\ \A i \in 1..(Len(todo) - 1) : Tail(todo)[i] = todo[i + 1]
    BY <1>12, <2>2
  <2> DEFINE h == Head(todo)
  <2> HIDE DEF h
  <2>4. /\ task' \in [Starts -> {"none", "read", "fetch", "done"}] /\ task'[h] = "read"
        /\ task'[b] \in {"none", "read"}
        /\ \A c \in Starts : c # b => task'[c] = task[c] \/ task'[c] = "read"
    BY <2>1, <2>2, <2>3 DEF h
  <2>5. ASSUME NEW i \in DOMAIN todo
        PROVE  (\E g \in DOMAIN todo' : todo'[g] = todo[i]) \/ task'[todo[i]] = "read"
    <3>1. CASE i = 1
      BY <2>3, <2>4, <3>1 DEF h
    <3>2. CASE i # 1
      <4>1. i - 1 \in 1..(Len(todo) - 1) /\ (i - 1) + 1 = i
        BY <2>2, <2>3, <3>2
      <4>2. i - 1 \in DOMAIN todo' /\ todo'[i - 1] = todo[i]
        BY <2>1, <2>3, <4>1
      <4> QED
        BY <4>2
    <3> QED
      BY <3>1, <3>2
  <2>6. \E c \in Starts : task'[c] # "none"
    BY <2>3, <2>4 DEF h
  <2>7. QueueMoves(b)
    BY <2>1, <2>3, <2>4, <2>5, <2>6 DEF QueueMoves
  <2> QED
    BY <1>10, <2>7
<1> QED
  BY <1>11, <1>12

-----------------------------------------------------------------------------
(* The response. *)

Answering == walk.at = "paging" /\ \A b \in Starts : task[b] = "none"

\* When every task is joined, a record the walk owes is among the records
\* read, or more than a page of them come before it.
LEMMA AllCovered ==
    ASSUME PagingInv, Answering, NEW k \in owed, Past(walk.cursor, k)
    PROVE  k \in result \/ Cardinality(Under(result, k)) > limit
<1>1. TypeOK /\ PageInv
  BY DEF PagingInv
<1>2. todo = <<>>
  BY <1>1 DEF PageInv, Answering
<1>3. k \in Records
  BY <1>1 DEF TypeOK
<1> DEFINE b == BucketOf(k[1])
<1>4. b \in Starts
  BY <1>3, KeyParts, BucketOfWorks
<1>5. Accounted(b)
  BY <1>1, <1>4 DEF PageInv, Answering
<1>6. task[b] = "none" /\ DOMAIN todo = {}
  BY <1>2, <1>4 DEF Answering
<1> HIDE DEF b
<1>7. Covered(b, result)
  BY <1>5, <1>6 DEF Accounted
<1> QED
  BY <1>7 DEF Covered, Under, b

\* A page is made of what was read; the last page holds all that is owed and
\* not yet delivered; otherwise its last record is the cursor, and what is owed
\* and not delivered lies beyond it.
LEMMA PageCut ==
    ASSUME PagingInv, Answering
    PROVE  /\ Page \in SUBSET result
           /\ Cardinality(result) <= limit => owed \subseteq delivered \cup Page
           /\ Cardinality(result) > limit =>
                /\ Greatest(NextCursor, Page)
                /\ \A k \in owed : k \in delivered \cup Page \/ Before(NextCursor, k)
<1>1. TypeOK /\ PageInv /\ WalkComplete
  BY DEF PagingInv
<1>2. limit \in Nat /\ limit > 0
  BY <1>1, CapacityWorks DEF PageInv, Answering
<1>3. result \in SUBSET Records /\ Cardinality(result) \in Nat /\ owed \subseteq Records
  BY <1>1, FewKeys DEF TypeOK
<1>4. Page \in SUBSET result /\ Page \in SUBSET Records
  BY <1>2, <1>3, FirstKeeps DEF Page
<1>5. \A k \in owed : k \in delivered \/ Past(walk.cursor, k)
  BY <1>1 DEF WalkComplete, Answering
<1>6. \A k \in Records : /\ Under(result, k) \in SUBSET result
                      /\ Cardinality(Under(result, k)) \in Nat
                      /\ Cardinality(Under(result, k)) <= Cardinality(result)
  <2> TAKE k \in Records
  <2>1. Under(result, k) \in SUBSET result
    BY DEF Under
  <2>2. Under(result, k) \in SUBSET Records
    BY <1>3, <2>1
  <2> QED
    BY <1>3, <2>1, <2>2, FewKeys, PartIsSmaller
<1>7. ASSUME Cardinality(result) <= limit PROVE owed \subseteq delivered \cup Page
  <2>1. Page = result
    BY <1>2, <1>3, <1>7, FirstKeepsAll DEF Page
  <2>2. ASSUME NEW k \in owed, Past(walk.cursor, k) PROVE k \in result
    <3>1. k \in result \/ Cardinality(Under(result, k)) > limit
      BY <2>2, AllCovered
    <3>2. ~(Cardinality(Under(result, k)) > limit)
      BY <1>2, <1>3, <1>6, <1>7
    <3> QED
      BY <3>1, <3>2
  <2> QED
    BY <1>5, <2>1, <2>2
<1>8. ASSUME Cardinality(result) > limit
      PROVE  /\ Greatest(NextCursor, Page)
             /\ \A k \in owed : k \in delivered \cup Page \/ Before(NextCursor, k)
  <2>1. limit <= Cardinality(Page)
    BY <1>2, <1>3, <1>8, FirstFills DEF Page
  <2>2. Page # {}
    BY <1>2, <2>1, FS_EmptySet
  <2>3. Greatest(NextCursor, Page)
    BY <1>4, <2>2, LastIsGreatest DEF NextCursor
  <2> DEFINE m == NextCursor
  <2>4. m \in Page /\ m \in result /\ m \in Records
    BY <1>4, <2>3 DEF Greatest
  <2> HIDE DEF m
  <2>5. Cardinality(Under(result, m)) < limit
    BY <1>2, <1>3, <2>4, FirstKeeps DEF Page
  <2>6. ASSUME NEW k \in owed, k \notin delivered \cup Page PROVE Before(m, k)
    <3>1. Past(walk.cursor, k) /\ k \in Records
      BY <1>3, <1>5, <2>6
    <3>2. CASE k \in result
      BY <1>2, <1>3, <2>4, <2>6, <3>2, FirstIsBefore DEF Page
    <3>3. CASE k \notin result
      <4>1. Cardinality(Under(result, k)) > limit
        BY <3>1, <3>3, AllCovered
      <4>2. SUFFICES ASSUME Before(k, m) PROVE FALSE
        BY <2>4, <2>6, <3>1, Order
      <4>3. Under(result, k) \in SUBSET Under(result, m)
        BY <1>3, <2>4, <3>1, <4>2, Order DEF Under
      <4>4. Cardinality(Under(result, k)) <= Cardinality(Under(result, m))
        BY <1>3, <1>6, <2>4, <4>3, PartIsSmaller
      <4> QED
        BY <1>2, <1>6, <2>4, <2>5, <3>1, <4>1, <4>4
    <3> QED
      BY <3>2, <3>3
  <2> QED
    BY <2>3, <2>6 DEF m
<1> QED
  BY <1>4, <1>7, <1>8

\* The records of a page come after everything that was delivered.
LEMMA PageIsNew ==
    ASSUME PagingInv, Answering, NEW j \in delivered, NEW k \in Page
    PROVE  Before(j, k)
<1>1. TypeOK /\ PageInv /\ WalkInv
  BY DEF PagingInv
<1>2. k \in result
  BY PageCut
<1>3. Past(walk.cursor, k) /\ walk.cursor # NoCursor /\ ~Before(walk.cursor, j)
  BY <1>1, <1>2 DEF PageInv, WalkInv, Ahead, Answering
<1>4. Before(walk.cursor, k)
  BY <1>3 DEF Past
<1>5. walk.cursor \in Records /\ j \in Records /\ k \in Records
  BY <1>1, <1>2, <1>3 DEF TypeOK
<1> QED
  BY <1>3, <1>4, <1>5, Order

\* A page ends the walk with everything delivered or moves the cursor to its
\* last record.
LEMMA RespondStep ==
    ASSUME PagingInv, Respond
    PROVE  PagingInv'
<1>0. Answering
  BY DEF Respond, Answering
<1>1. /\ delivered' = delivered \cup Page /\ result' = {}
      /\ now' = now /\ rows' = rows /\ tier' = tier /\ inflight' = inflight
      /\ limit' = 0 /\ todo' = todo /\ task' = task /\ got' = got
      /\ faults' = faults /\ owed' = owed /\ settled' = settled
      /\ walk' = IF Cardinality(result) > limit
                 THEN [walk EXCEPT !.at = "open", !.cursor = NextCursor]
                 ELSE [walk EXCEPT !.at = "done"]
  BY DEF Respond, storeVars
<1>2. TypeOK /\ PageInv /\ WalkInv /\ SettledInv
  BY DEF PagingInv
<1>3. walk.at = "paging" /\ \A b \in Starts : task[b] = "none"
  BY <1>0 DEF Answering
<1>4. /\ Page \in SUBSET result
      /\ Cardinality(result) <= limit => owed \subseteq delivered \cup Page
      /\ Cardinality(result) > limit =>
           /\ Greatest(NextCursor, Page)
           /\ \A k \in owed : k \in delivered \cup Page \/ Before(NextCursor, k)
  BY <1>0, PageCut
<1>5. /\ Cardinality(result) > limit => NextCursor \in Page /\ NextCursor \in Records
      /\ Page \in SUBSET Records /\ Page \subseteq Taken
  <2>1. Page \in SUBSET Records
    BY <1>2, <1>4 DEF TypeOK
  <2>2. Page \subseteq Taken
    BY <1>2, <1>3, <1>4 DEF PageInv, Ahead
  <2> QED
    BY <1>4, <2>1, <2>2 DEF Greatest
<1> DEFINE m == NextCursor
           P == Page
<1> HIDE DEF m, P
<1>6. walk'.range = walk.range
      /\ (\/ /\ Cardinality(result) > limit /\ walk'.at = "open" /\ walk'.cursor = m
          \/ /\ ~(Cardinality(result) > limit) /\ walk'.at = "done")
  BY <1>1, <1>2 DEF TypeOK, m
<1>7. TypeOK'
  BY <1>1, <1>2, <1>5 DEF TypeOK
<1>8. PageInv'
  BY <1>1, <1>2, <1>3, <1>6 DEF PageInv
<1>9. Taken' = Taken /\ Sure' = Sure /\ Sealed' = Sealed
  BY <1>1, <1>6 DEF Taken, Sure, Sealed, MayArrive
<1>10. WalkInv'
  <2>1. walk'.range \in Ranges /\ owed' \subseteq Sure' /\ delivered' \subseteq Taken'
    BY <1>1, <1>2, <1>3, <1>5, <1>6, <1>9 DEF WalkInv
  <2>2. ASSUME walk'.at = "open", NEW j \in delivered'
        PROVE  walk'.cursor # NoCursor /\ ~Before(walk'.cursor, j)
    <3>1. Cardinality(result) > limit /\ walk'.cursor = m
      BY <1>6, <2>2
    <3>2. Greatest(m, Page) /\ m \in Records /\ m \in Page
      BY <1>4, <1>5, <3>1 DEF m
    <3>3. j \in Records
      BY <1>7 DEF TypeOK
    <3>4. j = m \/ Before(j, m)
      BY <1>0, <1>1, <3>2, PageIsNew DEF Greatest
    <3> QED
      BY <3>1, <3>2, <3>3, <3>4, Order, PagingAssumption
  <2> QED
    BY <1>6, <2>1, <2>2 DEF WalkInv
<1>11. SettledInv'
  BY <1>1, <1>2, <1>3, <1>6, <1>9 DEF SettledInv
<1>12. WalkComplete'
  <2>1. CASE Cardinality(result) > limit
    <3>1. \A k \in owed : k \in delivered' \/ Before(walk'.cursor, k)
      BY <1>1, <1>4, <1>6, <2>1 DEF m
    <3> QED
      BY <1>1, <1>6, <2>1, <3>1 DEF WalkComplete, Past
  <2>2. CASE ~(Cardinality(result) > limit)
    <3>1. Cardinality(result) \in Nat /\ limit \in Nat
      BY <1>2, FewKeys, CapacityWorks DEF TypeOK
    <3>2. owed \subseteq delivered \cup Page
      BY <1>4, <2>2, <3>1
    <3> QED
      BY <1>1, <1>6, <2>2, <3>2 DEF WalkComplete
  <2> QED
    BY <2>1, <2>2
<1> QED
  BY <1>7, <1>8, <1>10, <1>11, <1>12 DEF PagingInv

-----------------------------------------------------------------------------
(* The theorems. *)

\* The walk's account holds initially.
LEMMA InitPaging == Init => PagingInv
<1> SUFFICES ASSUME Init PROVE PagingInv
  OBVIOUS
<1>1. TypeOK
  <2>1. now \in Clock
    BY PagingAssumption DEF Init
  <2>2. faults \in 0..MaxFaults
    BY PagingAssumption DEF Init
  <2>3. walk \in [at : {"idle", "open", "paging", "done", "rejected", "empty"},
                  range : Ranges \cup {NoRange}, cursor : Records \cup {NoCursor}]
    BY DEF Init
  <2>4. limit \in Limits \cup {0} /\ todo \in Seq(Starts)
    BY DEF Init
  <2>5. /\ tier \in [Starts -> {"hot", "archived"}]
        /\ task \in [Starts -> {"none", "read", "fetch", "done"}]
        /\ got \in [Starts -> SUBSET Records]
    BY DEF Init
  <2>6. /\ rows \subseteq Records /\ inflight \subseteq Keys /\ result \subseteq Records
        /\ delivered \subseteq Records /\ owed \subseteq Records /\ settled \in BOOLEAN
    BY DEF Init
  <2> QED
    BY <2>1, <2>2, <2>3, <2>4, <2>5, <2>6 DEF TypeOK
<1>2. PageInv /\ WalkInv /\ SettledInv /\ WalkComplete
  BY DEF Init, PageInv, WalkInv, SettledInv, WalkComplete
<1> QED
  BY <1>1, <1>2 DEF PagingInv

\* A step that changes nothing keeps it.
LEMMA StutterPaging == ASSUME PagingInv, UNCHANGED vars PROVE PagingInv'
<1>1. PageInv' /\ WalkInv' /\ WalkComplete'
  BY StoreFrame DEF vars, storeVars
<1>2. TypeOK'
  BY DEF PagingInv, TypeOK, vars, storeVars, queryVars, historyVars
<1>3. SettledInv'
  BY DEF PagingInv, SettledInv, Sure, Sealed, MayArrive, vars, storeVars, historyVars
<1> QED
  BY <1>1, <1>2, <1>3 DEF PagingInv

\* Every step keeps it.
LEMMA NextPaging == PagingInv /\ [Next]_vars => PagingInv'
<1> SUFFICES ASSUME PagingInv, [Next]_vars PROVE PagingInv'
  OBVIOUS
<1>1. CASE ClockAdvances
  BY <1>1, ClockStep
<1>2. CASE QueryFails
  BY <1>2, QueryFailsStep
<1>3. CASE Walk
  <2>1. CASE QueryRejected
    BY <2>1, QueryRejectedStep
  <2>2. CASE EmptyPage
    BY <2>2, EmptyPageStep
  <2>2a. CASE Respond
    BY <2>2a, RespondStep
  <2>3. CASE \E n \in Limits : Query(n)
    BY <2>3, QueryStep
  <2>4. CASE \E b \in Starts : ReadRange(b) \/ FetchArchive(b) \/ Join(b)
    BY <2>4, ReadRangeStep, FetchArchiveStep, JoinStep
  <2> QED
    BY <1>3, <2>1, <2>2, <2>2a, <2>3, <2>4 DEF Walk
<1>4. CASE \E k \in Keys : AppendStart(k) \/ AppendEnd(k)
  BY <1>4, AppendStartStep, AppendEndStep
<1>5. CASE \E b \in Starts : Archive(b)
  BY <1>5, ArchiveStep
<1>6. CASE \E r \in Ranges : WalkBegin(r)
  BY <1>6, WalkBeginStep
<1>7. CASE UNCHANGED vars
  BY <1>7, StutterPaging
<1> QED
  BY <1>1, <1>2, <1>3, <1>4, <1>5, <1>6, <1>7 DEF Next

\* The walk's account holds throughout: every bucket of the page in progress
\* waits, is being read, or is covered by what was read of it, and everything
\* owed is delivered or beyond the cursor.
THEOREM PagingInvariant == Spec => []PagingInv
<1>1. Init => PagingInv
  BY InitPaging
<1>2. PagingInv /\ [Next]_vars => PagingInv'
  BY NextPaging
<1> QED
  BY <1>1, <1>2, PTL DEF Spec

\* query_page skips nothing: what was in the range when the walk began is
\* delivered or still beyond the cursor, and delivered when no cursor returns.
THEOREM WalkAlwaysComplete == Spec => []WalkComplete
<1>1. PagingInv => WalkComplete
  BY DEF PagingInv
<1> QED
  BY <1>1, PagingInvariant, PTL

\* query_page delivers only stored records that one of the tiers takes as inside
\* the range, and a walk whose range can get no record any more delivers all
\* that both tiers ever take as inside it.
THEOREM SettledAlwaysExact == Spec => []SettledExact
<1>1. PagingInv => SettledExact
  <2> SUFFICES ASSUME PagingInv PROVE SettledExact
    OBVIOUS
  <2>1. delivered # {} => delivered \subseteq Taken
    BY DEF PagingInv, WalkInv
  <2>2. ASSUME walk.at = "done", settled PROVE Sure \subseteq delivered
    BY <2>2 DEF PagingInv, WalkComplete, SettledInv
  <2> QED
    BY <2>1, <2>2 DEF SettledExact, Taken, Sure
<1> QED
  BY <1>1, PagingInvariant, PTL

WholeMicroseconds(range) == range.start % Tick = 0 /\ range.end % Tick = 0

\* Over a range of whole microseconds that can get no record any more, the walk
\* delivers exactly the records that the range ever holds.
THEOREM WholeRangesExact ==
    Spec => [](/\ walk.at = "done" /\ settled /\ WholeMicroseconds(walk.range)
               => delivered = {k \in rows : Contains(walk.range, k[1])})
<1>1. ASSUME PagingInv, walk.at = "done", settled, WholeMicroseconds(walk.range)
      PROVE  delivered = {k \in rows : Contains(walk.range, k[1])}
  <2>1. walk.range \in Ranges /\ delivered \subseteq Taken /\ Sure \subseteq delivered
    BY <1>1 DEF PagingInv, WalkInv, WalkComplete, SettledInv
  <2>2. walk.range.start \in Nat /\ walk.range.end \in Nat
    BY <2>1, PagingAssumption, CalendarAssumption
  <2>3. Micros(walk.range.start) = walk.range.start /\ Micros(walk.range.end) = walk.range.end
    BY <1>1, <2>2 DEF Micros, WholeMicroseconds
  <2>4. \A t : (InEither(walk.range, t) <=> Contains(walk.range, t))
               /\ (InBoth(walk.range, t) <=> Contains(walk.range, t))
    BY <2>3 DEF InEither, InBoth, HotRange, Contains
  <2> QED
    BY <2>1, <2>4 DEF Taken, Sure
<1> QED
  BY <1>1, PagingInvariant, PTL

\* Pages follow each other in the clustering order and repeat nothing.
THEOREM PagesAlwaysAdvance == Spec => PagesAdvance
<1>1. PagingInv => [Respond => \A j \in delivered, k \in Page : Before(j, k)]_vars
  BY PageIsNew DEF Respond, Answering
<1> QED
  BY <1>1, PagingInvariant, PTL DEF PagesAdvance, Spec
=============================================================================
