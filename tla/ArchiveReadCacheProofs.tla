----------------------- MODULE ArchiveReadCacheProofs -----------------------
(***************************************************************************)
(* Proofs about ArchiveReadCache, for any number of readers, objects and   *)
(* buckets, any sizes and any limits.                                      *)
(***************************************************************************)
EXTENDS ArchiveReadCache, FiniteSetTheorems, NaturalsInduction, WellFoundedInduction, TLAPS

-----------------------------------------------------------------------------
(* The bytes of a set of entries.  Bytes is a sum over the set in the order *)
(* in which CHOOSE takes its elements; first, that the order is immaterial. *)

\* A non-empty set of numbers has a smallest.
LEMMA Least ==
    ASSUME NEW S \in SUBSET Nat, S # {}
    PROVE  \E b \in S : \A a \in S : b <= a
<1>1. PICK b \in S : \A a \in S : ~(<<a, b>> \in OpToRel(<, Nat))
  BY NatLessThanWellFounded, WFMin, Zenon
<1>2. \A a \in S : ~(a < b)
  BY <1>1 DEF OpToRel
<1> QED
  BY <1>2

Taken(S) == CHOOSE x \in S : TRUE
SizeOf(c) == Size[c[2]]

\* The equation that the sum's iteration over the subsets of S solves.
Sums(f, S) ==
    f = [s \in SUBSET S |-> IF s = {} THEN 0 ELSE SizeOf(Taken(s)) + f[s \ {Taken(s)}]]

\* What the library's fold computes.
LEMMA BytesIsSum ==
    ASSUME NEW S
    PROVE  Bytes(S) = (CHOOSE f : Sums(f, S))[S]
  BY DEF Bytes, MapThenSumSet, MapThenFoldSet, Sums, Taken, SizeOf

\* There are finitely many cache keys.
LEMMA FewKeys == \A S \in SUBSET CacheKeys : IsFiniteSet(S) /\ Cardinality(S) \in Nat
<1>1. IsFiniteSet(CacheKeys)
  BY CacheAssumption, FS_Product DEF CacheKeys
<1> QED
  BY <1>1, FS_Subset, FS_CardinalityType

\* What holds of a set of keys when it holds of its proper subsets holds of
\* all of them.
LEMMA SubsetInduction ==
    ASSUME NEW Q,
           \A S \in SUBSET CacheKeys : (\A T \in SUBSET S : T # S => T \in Q) => S \in Q
    PROVE  \A S \in SUBSET CacheKeys : S \in Q
<1> DEFINE Bad == {Cardinality(S) : S \in {R \in SUBSET CacheKeys : R \notin Q}}
<1> SUFFICES ASSUME Bad # {} PROVE FALSE
  OBVIOUS
<1>1. Bad \in SUBSET Nat
  BY FewKeys
<1> HIDE DEF Bad
<1>2. PICK k \in Bad : \A a \in Bad : k <= a
  BY <1>1, Least
<1>3. PICK S \in SUBSET CacheKeys : S \notin Q /\ k = Cardinality(S)
  BY <1>2 DEF Bad
<1>4. ASSUME NEW T \in SUBSET S, T # S PROVE T \in Q
  <2>1. Cardinality(T) < Cardinality(S) /\ Cardinality(T) \in Nat
    BY <1>4, FewKeys, FS_Subset
  <2>2. T \in SUBSET CacheKeys
    OBVIOUS
  <2>3. T \notin Q => Cardinality(T) \in Bad
    BY <2>2 DEF Bad
  <2> QED
    BY <1>1, <1>2, <1>3, <2>1, <2>3
<1> QED
  BY <1>3, <1>4

\* The recursion that the sum obeys.
Unfolds(S) == Bytes(S) = IF S = {} THEN 0 ELSE SizeOf(Taken(S)) + Bytes(S \ {Taken(S)})

\* The sum obeys it.
LEMMA BytesUnfolds == \A S \in SUBSET CacheKeys : Unfolds(S)
<1> DEFINE Q == {S \in SUBSET CacheKeys : Unfolds(S)}
<1>1. ASSUME NEW S \in SUBSET CacheKeys, \A T \in SUBSET S : T # S => T \in Q
      PROVE  S \in Q
  <2>1. \A T \in SUBSET S : T # S => Unfolds(T)
    BY <1>1
  <2> DEFINE Sum(s) == IF s = {} THEN 0 ELSE SizeOf(Taken(s)) + Bytes(s \ {Taken(s)})
             g == [s \in SUBSET S |-> Sum(s)]
             f == CHOOSE h : Sums(h, S)
  <2>2. \A s : s # {} => Taken(s) \in s
    BY DEF Taken
  <2>3. ASSUME NEW s \in SUBSET S, s # {}
        PROVE  g[s \ {Taken(s)}] = Bytes(s \ {Taken(s)})
    <3>1. s \ {Taken(s)} \in SUBSET S /\ s \ {Taken(s)} # S
      BY <2>2, <2>3
    <3>2. Bytes(s \ {Taken(s)}) = Sum(s \ {Taken(s)})
      BY <2>1, <3>1 DEF Unfolds
    <3> QED
      BY <3>1, <3>2
  <2>4. Sums(g, S)
    BY <2>3 DEF Sums
  <2> HIDE DEF g
  <2>5. Sums(f, S)
    BY <2>4
  <2> HIDE DEF f
  <2>6. \A s \in SUBSET S : f[s] = IF s = {} THEN 0 ELSE SizeOf(Taken(s)) + f[s \ {Taken(s)}]
    BY <2>5 DEF Sums
  <2> DEFINE R == {s \in SUBSET CacheKeys : s \in SUBSET S /\ s # S => f[s] = Bytes(s)}
  <2>7. ASSUME NEW s \in SUBSET CacheKeys, \A r \in SUBSET s : r # s => r \in R
        PROVE  s \in R
    <3>1. SUFFICES ASSUME s \in SUBSET S, s # S PROVE f[s] = Bytes(s)
      OBVIOUS
    <3>2. Unfolds(s)
      BY <2>1, <3>1
    <3>3. CASE s = {}
      BY <2>6, <3>2, <3>3 DEF Unfolds
    <3>4. CASE s # {}
      <4>1. s \ {Taken(s)} \in SUBSET s /\ s \ {Taken(s)} # s /\ s \ {Taken(s)} # S
            /\ s \ {Taken(s)} \in SUBSET S
        BY <2>2, <3>1, <3>4
      <4>2. f[s \ {Taken(s)}] = Bytes(s \ {Taken(s)})
        BY <2>7, <4>1
      <4> QED
        BY <2>6, <3>1, <3>2, <3>4, <4>2 DEF Unfolds
    <3> QED
      BY <3>3, <3>4
  <2> HIDE DEF R
  <2>8. \A s \in SUBSET CacheKeys : s \in R
    BY <2>7, SubsetInduction
  <2>9. \A s \in SUBSET S : s # S => f[s] = Bytes(s)
    BY <2>8 DEF R
  <2>10. Bytes(S) = f[S]
    BY BytesIsSum DEF f
  <2>11. S # {} => S \ {Taken(S)} \in SUBSET S /\ S \ {Taken(S)} # S
    BY <2>2
  <2>12. Unfolds(S)
    BY <2>6, <2>9, <2>10, <2>11 DEF Unfolds
  <2> QED
    BY <2>12
<1> HIDE DEF Q
<1>2. \A S \in SUBSET CacheKeys : S \in Q
  BY <1>1, SubsetInduction
<1> QED
  BY <1>2 DEF Q

\* The sum is a number,
LEMMA BytesNat == \A S \in SUBSET CacheKeys : Bytes(S) \in Nat
<1> DEFINE Q == {S \in SUBSET CacheKeys : Bytes(S) \in Nat}
<1>1. ASSUME NEW S \in SUBSET CacheKeys, \A T \in SUBSET S : T # S => T \in Q
      PROVE  S \in Q
  <2>1. CASE S = {}
    <3>1. Unfolds(S)
      BY BytesUnfolds
    <3>2. Bytes(S) = 0
      BY <2>1, <3>1 DEF Unfolds
    <3> QED
      BY <3>2
  <2>2. CASE S # {}
    <3>1. Taken(S) \in S
      BY <2>2 DEF Taken
    <3>2. SizeOf(Taken(S)) \in Nat
      BY <3>1, CacheAssumption DEF SizeOf, CacheKeys
    <3>3. S \ {Taken(S)} \in Q
      BY <1>1, <3>1
    <3>4. Bytes(S) = SizeOf(Taken(S)) + Bytes(S \ {Taken(S)})
      BY <2>2, BytesUnfolds DEF Unfolds
    <3> QED
      BY <3>2, <3>3, <3>4
  <2> QED
    BY <2>1, <2>2
<1> HIDE DEF Q
<1>2. \A S \in SUBSET CacheKeys : S \in Q
  BY <1>1, SubsetInduction
<1> QED
  BY <1>2 DEF Q

\* and each entry counts in it once, whenever CHOOSE takes it.
LEMMA BytesSplit ==
    \A S \in SUBSET CacheKeys : \A c \in S : Bytes(S) = SizeOf(c) + Bytes(S \ {c})
<1> DEFINE Splits(S) == \A c \in S : Bytes(S) = SizeOf(c) + Bytes(S \ {c})
           Q == {S \in SUBSET CacheKeys : Splits(S)}
<1>1. ASSUME NEW S \in SUBSET CacheKeys, \A T \in SUBSET S : T # S => T \in Q
      PROVE  S \in Q
  <2> SUFFICES ASSUME NEW c \in S PROVE Bytes(S) = SizeOf(c) + Bytes(S \ {c})
    OBVIOUS
  <2> DEFINE x == Taken(S)
             rest == (S \ {c}) \ {x}
  <2>1. x \in S
    BY DEF Taken
  <2>2. Bytes(S) = SizeOf(x) + Bytes(S \ {x})
    BY BytesUnfolds DEF Unfolds
  <2> HIDE DEF x
  <2>3. CASE x = c
    BY <2>2, <2>3
  <2>4. CASE x # c
    <3>1. Splits(S \ {x}) /\ Splits(S \ {c})
      BY <1>1, <2>1
    <3>2. rest = (S \ {x}) \ {c} /\ c \in S \ {x} /\ x \in S \ {c} /\ rest \in SUBSET CacheKeys
      BY <2>1, <2>4
    <3>3. Bytes(S \ {x}) = SizeOf(c) + Bytes(rest) /\ Bytes(S \ {c}) = SizeOf(x) + Bytes(rest)
      BY <3>1, <3>2
    <3>4. SizeOf(c) \in Nat /\ SizeOf(x) \in Nat /\ Bytes(rest) \in Nat
      BY <2>1, <3>2, CacheAssumption, BytesNat DEF SizeOf, CacheKeys
    <3> QED
      BY <2>2, <3>3, <3>4
  <2> QED
    BY <2>3, <2>4
<1> HIDE DEF Q
<1>2. \A S \in SUBSET CacheKeys : S \in Q
  BY <1>1, SubsetInduction
<1> QED
  BY <1>2 DEF Q

-----------------------------------------------------------------------------
(* The eviction loop.                                                      *)

\* A cache whose books are right.
Books(cache) ==
    /\ cache = [entries |-> cache.entries, used |-> cache.used]
    /\ cache.entries \in SUBSET CacheKeys
    /\ cache.used = Bytes(cache.entries)

\* remove_entry keeps the books right, and its saturating subtraction exact.
LEMMA RemoveKeepsBooks ==
    ASSUME NEW cache, Books(cache), NEW c \in CacheKeys
    PROVE  /\ Books(RemoveEntry(cache, c))
           /\ RemoveEntry(cache, c).entries = cache.entries \ {c}
           /\ c \in cache.entries => cache.used = RemoveEntry(cache, c).used + SizeOf(c)
<1> DEFINE after == RemoveEntry(cache, c)
<1>1. CASE c \notin cache.entries
  BY <1>1 DEF RemoveEntry, Books
<1>2. CASE c \in cache.entries
  <2>1. after = [entries |-> cache.entries \ {c}, used |-> Minus(cache.used, SizeOf(c))]
    BY <1>2 DEF RemoveEntry, SizeOf
  <2>2. Bytes(cache.entries) = SizeOf(c) + Bytes(cache.entries \ {c})
    BY <1>2, BytesSplit DEF Books
  <2>3. SizeOf(c) \in Nat /\ Bytes(cache.entries \ {c}) \in Nat
    BY CacheAssumption, BytesNat DEF SizeOf, CacheKeys, Books
  <2>4. Minus(cache.used, SizeOf(c)) = Bytes(cache.entries \ {c})
    BY <2>2, <2>3 DEF Minus, Books
  <2> QED
    BY <2>1, <2>2, <2>3, <2>4 DEF Books
<1> QED
  BY <1>1, <1>2

\* The loop picks an entry with the oldest stamp.
LEMMA OldestIsOldest ==
    ASSUME lastAccess \in [CacheKeys -> 0..MaxStamp], NEW S \in SUBSET CacheKeys, S # {}
    PROVE  Oldest(S) \in S /\ \A d \in S : lastAccess[Oldest(S)] <= lastAccess[d]
<1> DEFINE stamps == {lastAccess[c] : c \in S}
<1>1. stamps \in SUBSET Nat /\ stamps # {}
  BY CacheAssumption
<1>2. PICK k \in stamps : \A a \in stamps : k <= a
  BY <1>1, Least
<1>3. \E c \in S : \A d \in S : lastAccess[c] <= lastAccess[d]
  BY <1>2
<1> QED
  BY <1>3 DEF Oldest

\* One turn of the loop.
Turn(cache, n) ==
    IF Fits(cache.entries, cache.used, n) \/ cache.entries = {} THEN cache
    ELSE RemoveEntry(cache, Oldest(cache.entries))

\* The turns up to the N-th.
Turns(f, cache, n, N) ==
    f = [i \in 0..N |-> IF i = 0 THEN cache ELSE Turn(f[i - 1], n)]

\* They can be taken.
LEMMA TurnsExist == ASSUME NEW cache, NEW n, NEW N \in Nat PROVE \E f : Turns(f, cache, n, N)
<1> DEFINE Bad == {k \in Nat : ~\E f : Turns(f, cache, n, k)}
<1> SUFFICES ASSUME Bad # {} PROVE FALSE
  OBVIOUS
<1>1. PICK k \in Bad : \A a \in Bad : k <= a
  BY Least
<1>2. CASE k = 0
  <2>1. Turns([i \in 0..0 |-> cache], cache, n, 0)
    BY DEF Turns
  <2> QED
    BY <1>1, <1>2, <2>1
<1>3. CASE k # 0
  <2>1. k - 1 \in Nat /\ k - 1 \notin Bad
    BY <1>1, <1>3
  <2>2. PICK f : Turns(f, cache, n, k - 1)
    BY <2>1
  <2> DEFINE g == [i \in 0..k |-> IF i = k THEN Turn(f[k - 1], n) ELSE f[i]]
  <2>3. \A i \in 0..k : g[i] = IF i = 0 THEN cache ELSE Turn(g[i - 1], n)
    BY <1>1, <1>3, <2>1, <2>2 DEF Turns
  <2>4. Turns(g, cache, n, k)
    BY <2>3 DEF Turns
  <2> QED
    BY <1>1, <2>4
<1> QED
  BY <1>2, <1>3

\* What the loop leaves after i turns.
Left(f, cache, n, i) ==
    /\ Books(f[i])
    /\ f[i].entries \subseteq cache.entries
    /\ \A d \in cache.entries \ f[i].entries, e \in f[i].entries : lastAccess[d] <= lastAccess[e]
    /\ f[i].entries # cache.entries =>
         \E d \in cache.entries \ f[i].entries :
           ~Fits(f[i].entries \cup {d}, f[i].used + SizeOf(d), n)
    /\ \/ Fits(f[i].entries, f[i].used, n) \/ f[i].entries = {}
       \/ Cardinality(f[i].entries) + i <= Cardinality(cache.entries)

\* Each turn of the eviction loop takes one of the oldest entries, if room is
\* still needed.
LEMMA TurnStep ==
    ASSUME lastAccess \in [CacheKeys -> 0..MaxStamp],
           NEW cache, Books(cache), NEW n \in Nat, NEW N \in Nat,
           NEW f, Turns(f, cache, n, N), NEW i \in 1..N, Left(f, cache, n, i - 1)
    PROVE  Left(f, cache, n, i)
<1> DEFINE was == f[i - 1]
<1>1. f[i] = Turn(was, n)
  BY DEF Turns
<1>2. Books(was) /\ was.entries \subseteq cache.entries
  BY DEF Left
<1> HIDE DEF was
<1>3. CASE Fits(was.entries, was.used, n) \/ was.entries = {}
  <2>1. f[i] = was
    BY <1>1, <1>3 DEF Turn
  <2> QED
    BY <1>3, <2>1 DEF Left, was
<1>4. CASE ~(Fits(was.entries, was.used, n) \/ was.entries = {})
  <2> DEFINE o == Oldest(was.entries)
  <2>1. f[i] = RemoveEntry(was, o)
    BY <1>1, <1>4 DEF Turn
  <2>2. o \in was.entries /\ \A d \in was.entries : lastAccess[o] <= lastAccess[d]
    BY <1>2, <1>4, OldestIsOldest DEF Books
  <2> HIDE DEF o
  <2>3. o \in CacheKeys
    BY <1>2, <2>2 DEF Books
  <2>4. /\ Books(f[i]) /\ f[i].entries = was.entries \ {o}
        /\ was.used = f[i].used + SizeOf(o)
    BY <1>2, <2>1, <2>2, <2>3, RemoveKeepsBooks
  <2>5. f[i].entries \subseteq cache.entries
    BY <1>2, <2>4
  <2>6. ASSUME NEW d \in cache.entries \ f[i].entries, NEW e \in f[i].entries
        PROVE  lastAccess[d] <= lastAccess[e]
    <3>1. e \in was.entries
      BY <2>4, <2>6
    <3>2. CASE d = o
      BY <2>2, <3>1, <3>2
    <3>3. CASE d # o
      BY <2>4, <2>6, <3>1, <3>3 DEF Left, was
    <3> QED
      BY <3>2, <3>3
  <2>7. \E d \in cache.entries \ f[i].entries :
          ~Fits(f[i].entries \cup {d}, f[i].used + SizeOf(d), n)
    <3>1. f[i].entries \cup {o} = was.entries /\ o \in cache.entries \ f[i].entries
      BY <1>2, <2>2, <2>4
    <3> QED
      BY <1>4, <2>4, <3>1
  <2>8. Cardinality(f[i].entries) + i <= Cardinality(cache.entries)
    <3>1. Cardinality(f[i].entries) = Cardinality(was.entries) - 1
      BY <1>2, <2>2, <2>4, FewKeys, FS_RemoveElement DEF Books
    <3>2. Cardinality(was.entries) + (i - 1) <= Cardinality(cache.entries)
      BY <1>4 DEF Left, was
    <3>3. Cardinality(was.entries) \in Nat /\ Cardinality(cache.entries) \in Nat
      BY <1>2, FewKeys DEF Books
    <3> QED
      BY <3>1, <3>2, <3>3
  <2> QED
    BY <2>4, <2>5, <2>6, <2>7, <2>8 DEF Left
<1> QED
  BY <1>3, <1>4

\* The loop ends with room for n bytes and one entry or with an empty cache,
\* its books right; it took the oldest entries, and the last of them because
\* there was no room yet.
LEMMA MakeRoomWorks ==
    ASSUME lastAccess \in [CacheKeys -> 0..MaxStamp],
           NEW cache, Books(cache), NEW n \in Nat
    PROVE  LET room == MakeRoom(cache, n)
           IN  /\ Books(room)
               /\ room.entries \subseteq cache.entries
               /\ \A d \in cache.entries \ room.entries, e \in room.entries :
                    lastAccess[d] <= lastAccess[e]
               /\ room.entries # cache.entries =>
                    \E d \in cache.entries \ room.entries :
                      ~Fits(room.entries \cup {d}, room.used + SizeOf(d), n)
               /\ Fits(room.entries, room.used, n) \/ room.entries = {}
<1> DEFINE N == Cardinality(cache.entries)
           f == CHOOSE h : Turns(h, cache, n, N)
<1>1. N \in Nat
  BY FewKeys DEF Books
<1>2. MakeRoom(cache, n) = f[N]
  BY DEF MakeRoom, Turns, Turn
<1> HIDE DEF N
<1>3. Turns(f, cache, n, N)
  BY <1>1, TurnsExist
<1> HIDE DEF f
<1>4. ASSUME NEW i \in 0..N PROVE Left(f, cache, n, i)
  <2> DEFINE Bad == {k \in 0..N : ~Left(f, cache, n, k)}
  <2> SUFFICES ASSUME Bad # {} PROVE FALSE
    OBVIOUS
  <2>1. Bad \in SUBSET Nat
    BY <1>1
  <2>2. PICK k \in Bad : \A a \in Bad : k <= a
    BY <2>1, Least
  <2>3. k # 0
    <3>1. f[0] = cache
      BY <1>1, <1>3 DEF Turns
    <3>2. Left(f, cache, n, 0)
      BY <1>1, <3>1 DEF Left, N
    <3> QED
      BY <2>2, <3>2
  <2>4. k \in 1..N /\ k - 1 \in 0..N /\ k - 1 \notin Bad
    BY <1>1, <2>1, <2>2, <2>3
  <2>5. Left(f, cache, n, k)
    BY <1>1, <1>3, <2>4, TurnStep
  <2> QED
    BY <2>2, <2>5
<1>5. Left(f, cache, n, N)
  BY <1>1, <1>4
<1>6. Fits(f[N].entries, f[N].used, n) \/ f[N].entries = {}
  <2>1. Cardinality(f[N].entries) \in Nat /\ IsFiniteSet(f[N].entries)
    BY <1>5, FewKeys DEF Left, Books
  <2>2. Cardinality(f[N].entries) + N <= N => f[N].entries = {}
    BY <1>1, <2>1, FS_EmptySet
  <2> QED
    BY <1>5, <2>2 DEF Left, N
<1> QED
  BY <1>2, <1>5, <1>6 DEF Left

-----------------------------------------------------------------------------
(* The steps.                                                              *)

\* The store has this key's object, and it is of this key's bucket.
Stored(c) == c[2] \in objects /\ Owner[c[2]] = c[1]

\* What a task knows of its request: fetched objects are the store's, and what
\* is going to be inserted can fit.
TaskInv(t) ==
    /\ at[t] # "idle" => request[t] \in CacheKeys
    /\ at[t] \in {"stamp", "insert"} => Stored(request[t])
    /\ at[t] = "insert" => Cacheable(request[t])
    /\ answer[t] = "records" => Stored(request[t])

CacheInv ==
    /\ TypeOK
    /\ WithinBudget
    /\ \A c \in entries : Stored(c)
    /\ \A t \in Tasks : TaskInv(t)

\* Other tasks and the cache's entries only see more objects.
LEMMA TaskFrame ==
    ASSUME NEW u \in Tasks, TaskInv(u), objects \subseteq objects',
           at'[u] = at[u], request'[u] = request[u], answer'[u] = answer[u]
    PROVE  TaskInv(u)'
  BY DEF TaskInv, Stored, Cacheable

\* The books at each moment are those of the loop's lemmas.
Cache == [entries |-> entries, used |-> usedBytes]

\* What an insertion does: it makes room among the other entries.
LEMMA InsertEffect ==
    ASSUME CacheInv, NEW t \in Tasks, Insert(t)
    PROVE  LET c == request[t]
               n == Size[c[2]]
               others == RemoveEntry(Cache, c)
               room == MakeRoom(others, n)
           IN  /\ c \in CacheKeys /\ Stored(c) /\ Cacheable(c) /\ n \in Nat
               /\ Books(others) /\ others.entries = entries \ {c}
               /\ entries' = room.entries \cup {c} /\ usedBytes' = room.used + n
<1> DEFINE c == request[t]
           n == Size[c[2]]
           others == RemoveEntry(Cache, c)
<1>1. c \in CacheKeys /\ Stored(c) /\ Cacheable(c)
  BY DEF CacheInv, TaskInv, Insert
<1>2. n \in Nat
  BY <1>1, CacheAssumption DEF CacheKeys
<1>3. Books(Cache)
  BY DEF CacheInv, TypeOK, WithinBudget, Books, Cache
<1>4. Cache.entries = entries
  BY DEF Cache
<1>5. Books(others) /\ others.entries = entries \ {c}
  BY <1>1, <1>3, <1>4, RemoveKeepsBooks
<1> QED
  BY <1>1, <1>2, <1>5 DEF Insert, Cache

\* The cache stays within both limits, with its books right.
LEMMA InsertKeepsBudget ==
    ASSUME CacheInv, NEW t \in Tasks, Insert(t)
    PROVE  WithinBudget' /\ entries' \subseteq entries \cup {request[t]}
           /\ entries' \subseteq CacheKeys /\ usedBytes' \in Nat
<1> DEFINE c == request[t]
           n == Size[c[2]]
           others == RemoveEntry(Cache, c)
           room == MakeRoom(others, n)
<1>1. /\ c \in CacheKeys /\ Cacheable(c) /\ n \in Nat
      /\ Books(others) /\ others.entries = entries \ {c}
      /\ entries' = room.entries \cup {c} /\ usedBytes' = room.used + n
  BY InsertEffect
<1>2. /\ Books(room) /\ room.entries \subseteq others.entries
      /\ Fits(room.entries, room.used, n) \/ room.entries = {}
  BY <1>1, MakeRoomWorks DEF CacheInv, TypeOK
<1>3. n <= MaxBytes /\ MaxEntries > 0 /\ SizeOf(c) = n
  BY <1>1 DEF Cacheable, SizeOf
<1> HIDE DEF n, others, room, c
<1>4. room.entries \in SUBSET CacheKeys /\ c \notin room.entries
  BY <1>1, <1>2 DEF Books
<1>5. room.used = Bytes(room.entries) /\ room.used \in Nat
  BY <1>2, BytesNat DEF Books
<1>6. entries' \in SUBSET CacheKeys /\ entries' \ {c} = room.entries /\ c \in entries'
  BY <1>1, <1>4
<1>7. Bytes(entries') = n + Bytes(room.entries)
  BY <1>3, <1>6, BytesSplit
<1>8. Cardinality(entries') = Cardinality(room.entries) + 1
  BY <1>1, <1>4, FewKeys, FS_AddElement
<1>9. room.entries = {} => room.used = 0 /\ Cardinality(room.entries) = 0
  BY <1>4, <1>5, BytesUnfolds, FS_EmptySet DEF Unfolds
<1>10. Cardinality(room.entries) \in Nat
  BY <1>4, FewKeys
<1>11. usedBytes' <= MaxBytes /\ Cardinality(entries') <= MaxEntries
  BY <1>1, <1>2, <1>3, <1>5, <1>8, <1>9, <1>10, CacheAssumption DEF Fits
<1>12. usedBytes' = Bytes(entries')
  BY <1>1, <1>5, <1>7
<1>13. WithinBudget'
  BY <1>11, <1>12 DEF WithinBudget, Bytes, MapThenSumSet, MapThenFoldSet
<1>14. entries' \subseteq entries \cup {request[t]}
  BY <1>1, <1>2 DEF c
<1> QED
  BY <1>1, <1>5, <1>6, <1>13, <1>14

\* A task's step that keeps the cache's contents and its books.
LEMMA TaskStep ==
    ASSUME CacheInv, NEW t \in Tasks, UNCHANGED <<objects, entries, usedBytes>>,
           TypeOK', TaskInv(t)',
           \A u \in Tasks \ {t} : at'[u] = at[u] /\ request'[u] = request[u] /\ answer'[u] = answer[u]
    PROVE  CacheInv'
<1>1. \A u \in Tasks : TaskInv(u)'
  BY TaskFrame DEF CacheInv
<1>2. WithinBudget'
  BY DEF CacheInv, WithinBudget, Bytes, MapThenSumSet, MapThenFoldSet
<1>3. \A c \in entries' : Stored(c)'
  BY DEF CacheInv, Stored
<1> QED
  BY <1>1, <1>2, <1>3 DEF CacheInv

\* get_bucket up to the insertion.
LEMMA ReaderSteps ==
    ASSUME CacheInv, NEW t \in Tasks,
           \/ \E c \in CacheKeys : Get(t, c)
           \/ Lookup(t) \/ Fetch(t) \/ FetchFails(t) \/ CacheStamp(t)
    PROVE  CacheInv'
<1>1. TypeOK /\ TaskInv(t) /\ \A c \in entries : Stored(c)
  BY DEF CacheInv
<1>2. UNCHANGED <<objects, entries, usedBytes>>
  BY DEF Get, Lookup, Fetch, FetchFails, CacheStamp
<1>3. \A c : Stored(c)' <=> Stored(c)
  BY <1>2 DEF Stored
<1>4. \A u \in Tasks \ {t} : at'[u] = at[u] /\ request'[u] = request[u] /\ answer'[u] = answer[u]
  BY <1>1 DEF TypeOK, Get, Lookup, Fetch, FetchFails, CacheStamp, Goto, Answers
<1>5. nextAccess < MaxStamp => nextAccess + 1 \in 0..MaxStamp
  BY <1>1, CacheAssumption DEF TypeOK
<1> SUFFICES TypeOK' /\ TaskInv(t)'
  BY <1>2, <1>4, TaskStep
<1>6. ASSUME NEW c \in CacheKeys, Get(t, c) PROVE TypeOK' /\ TaskInv(t)'
  <2>1. TypeOK'
    BY <1>1, <1>2, <1>5, <1>6 DEF TypeOK, Get, TakeStamp, Goto
  <2>2. at'[t] = "lookup" /\ request'[t] = c /\ answer'[t] = "none"
    BY <1>1, <1>6 DEF TypeOK, Get, Goto
  <2> QED
    BY <2>1, <2>2 DEF TaskInv
<1>7. CASE Lookup(t)
  <2>1. request[t] \in CacheKeys /\ at[t] = "lookup"
    BY <1>1, <1>7 DEF Lookup, TaskInv
  <2>2. TypeOK'
    BY <1>1, <1>2, <1>7, <2>1 DEF TypeOK, Lookup, Goto, Answers
  <2>3. /\ request' = request
        /\ \/ Hit(t) /\ at'[t] = "idle" /\ answer'[t] = "records"
           \/ at'[t] = "fetch" /\ answer'[t] = answer[t]
    BY <1>1, <1>7 DEF TypeOK, Lookup, Goto, Answers
  <2>4. TaskInv(t)'
    BY <1>1, <1>3, <2>1, <2>3 DEF TaskInv, Hit
  <2> QED
    BY <2>2, <2>4
<1>8. CASE Fetch(t)
  <2>1. TypeOK'
    BY <1>1, <1>2, <1>8 DEF TypeOK, Fetch, Goto
  <2>2. /\ at'[t] = "stamp" /\ at[t] = "fetch" /\ Stored(request[t])
        /\ request' = request /\ answer' = answer
    BY <1>1, <1>8 DEF TypeOK, Fetch, Goto, Stored
  <2> QED
    BY <1>1, <1>3, <2>1, <2>2 DEF TaskInv
<1>9. CASE FetchFails(t)
  <2>1. TypeOK'
    BY <1>1, <1>2, <1>9 DEF TypeOK, FetchFails, Goto, Answers
  <2>2. at'[t] = "idle" /\ answer'[t] = "error"
    BY <1>1, <1>9 DEF TypeOK, FetchFails, Goto, Answers
  <2> QED
    BY <2>1, <2>2 DEF TaskInv
<1>10. CASE CacheStamp(t)
  <2>1. TypeOK'
    BY <1>1, <1>2, <1>5, <1>10 DEF TypeOK, CacheStamp, TakeStamp, Goto, Answers
  <2>2. /\ request' = request /\ at[t] = "stamp"
        /\ \/ at'[t] = "idle"
           \/ at'[t] = "insert" /\ Cacheable(request[t])
    BY <1>1, <1>10 DEF TypeOK, CacheStamp, Goto, Answers
  <2>3. Stored(request[t]) /\ request[t] \in CacheKeys
    BY <1>1, <2>2 DEF TaskInv
  <2> QED
    BY <1>3, <2>1, <2>2, <2>3 DEF TaskInv, Cacheable
<1> QED
  BY <1>6, <1>7, <1>8, <1>9, <1>10

\* The insertion.
LEMMA InsertStep == ASSUME CacheInv, NEW t \in Tasks, Insert(t) PROVE CacheInv'
<1>1. TypeOK /\ TaskInv(t) /\ \A c \in entries : Stored(c)
  BY DEF CacheInv
<1>2. /\ WithinBudget' /\ entries' \subseteq entries \cup {request[t]}
      /\ entries' \subseteq CacheKeys /\ usedBytes' \in Nat
  BY InsertKeepsBudget
<1>3. /\ UNCHANGED <<objects, nextAccess, request, stamp>> /\ at[t] = "insert"
      /\ lastAccess' = [lastAccess EXCEPT ![request[t]] = stamp[t]]
      /\ at' = [at EXCEPT ![t] = "idle"] /\ answer' = [answer EXCEPT ![t] = "records"]
  BY DEF Insert, Answers, Goto
<1>4. TypeOK'
  BY <1>1, <1>2, <1>3 DEF TypeOK
<1>5. Stored(request[t])
  BY <1>1, <1>3 DEF TaskInv
<1>6. \A c : Stored(c)' <=> Stored(c)
  BY <1>3 DEF Stored
<1>7. \A c \in entries' : Stored(c)'
  BY <1>1, <1>2, <1>5, <1>6
<1>8. TaskInv(t)'
  BY <1>1, <1>3, <1>5, <1>6 DEF TaskInv, TypeOK
<1>9. ASSUME NEW u \in Tasks, u # t PROVE TaskInv(u)'
  BY <1>1, <1>3, <1>9, TaskFrame DEF CacheInv, TypeOK
<1> QED
  BY <1>2, <1>4, <1>7, <1>8, <1>9 DEF CacheInv

\* An upload, and the invalidation that follows it.
LEMMA UploadSteps ==
    ASSUME CacheInv, NEW o \in ObjectKeys, Upload(o) \/ Invalidate(o)
    PROVE  CacheInv'
<1>1. TypeOK /\ WithinBudget /\ \A c \in entries : Stored(c)
  BY DEF CacheInv
<1>2. /\ objects \subseteq objects' /\ objects' \subseteq ObjectKeys
      /\ UNCHANGED <<lastAccess, nextAccess, at, request, stamp, answer>>
  BY <1>1 DEF Upload, Invalidate, taskVars, TypeOK
<1>3. /\ entries' \subseteq entries /\ usedBytes' \in Nat /\ usedBytes' = Bytes(entries')
      /\ usedBytes' <= MaxBytes
  <2>1. CASE Upload(o)
    BY <1>1, <2>1 DEF Upload, WithinBudget, TypeOK
  <2>2. CASE Invalidate(o)
    <3> DEFINE c == <<Owner[o], o>>
               rest == RemoveEntry(Cache, c)
    <3>1. c \in CacheKeys
      BY CacheAssumption DEF CacheKeys
    <3>2. Books(Cache) /\ Cache.entries = entries /\ Cache.used = usedBytes
      BY <1>1 DEF TypeOK, WithinBudget, Books, Cache
    <3>3. entries' = rest.entries /\ usedBytes' = rest.used
      BY <2>2 DEF Invalidate, Cache
    <3>4. SizeOf(c) \in Nat
      BY <3>1, CacheAssumption DEF SizeOf, CacheKeys
    <3> HIDE DEF c, rest
    <3>5. /\ Books(rest) /\ rest.entries = entries \ {c}
          /\ c \in entries => usedBytes = rest.used + SizeOf(c)
      BY <3>1, <3>2, RemoveKeepsBooks DEF rest
    <3>6. rest.used = Bytes(rest.entries) /\ rest.used \in Nat
      BY <3>5, BytesNat DEF Books
    <3>7. c \notin entries => rest.used = usedBytes
      BY <1>1, <3>5, <3>6 DEF WithinBudget
    <3> QED
      BY <1>1, <3>3, <3>4, <3>5, <3>6, <3>7, CacheAssumption DEF WithinBudget, TypeOK
  <2> QED
    BY <2>1, <2>2
<1>4. Cardinality(entries') <= MaxEntries
  <2>1. IsFiniteSet(entries) /\ Cardinality(entries) \in Nat
    BY <1>1, FewKeys DEF TypeOK
  <2>2. Cardinality(entries') <= Cardinality(entries) /\ Cardinality(entries') \in Nat
    BY <1>3, <2>1, FS_Subset, FS_CardinalityType
  <2> QED
    BY <1>1, <2>1, <2>2, CacheAssumption DEF WithinBudget
<1>5. WithinBudget'
  BY <1>3, <1>4 DEF WithinBudget, Bytes, MapThenSumSet, MapThenFoldSet
<1>6. TypeOK'
  BY <1>1, <1>2, <1>3 DEF TypeOK
<1>7. \A c \in entries' : Stored(c)'
  BY <1>1, <1>2, <1>3 DEF Stored
<1>8. \A u \in Tasks : TaskInv(u)'
  BY <1>2, TaskFrame DEF CacheInv
<1> QED
  BY <1>5, <1>6, <1>7, <1>8 DEF CacheInv

-----------------------------------------------------------------------------
(* The theorems.                                                           *)

\* The inductive invariant holds throughout.
THEOREM CacheInvariant == Spec => []CacheInv
<1>1. ASSUME Init PROVE CacheInv
  <2>1. entries = {} /\ usedBytes = 0 /\ Bytes({}) = 0 /\ Cardinality({}) = 0
    BY <1>1, BytesUnfolds, FS_EmptySet DEF Init, Unfolds
  <2>2. WithinBudget
    BY <2>1, CacheAssumption DEF WithinBudget
  <2>3. TypeOK
    BY <1>1, CacheAssumption DEF Init, TypeOK
  <2>4. \A t \in Tasks : TaskInv(t)
    BY <1>1 DEF Init, TaskInv
  <2> QED
    BY <2>1, <2>2, <2>3, <2>4 DEF CacheInv
<1>2. ASSUME CacheInv, [Next]_vars PROVE CacheInv'
  <2>1. CASE UNCHANGED vars
    <3>1. UNCHANGED <<objects, entries, lastAccess, usedBytes, nextAccess, at, request, stamp, answer>>
      BY <2>1 DEF vars, taskVars
    <3>2. TypeOK'
      BY <1>2, <3>1 DEF CacheInv, TypeOK
    <3>3. WithinBudget'
      BY <1>2, <3>1 DEF CacheInv, WithinBudget, Bytes, MapThenSumSet, MapThenFoldSet
    <3>4. \A t \in Tasks : TaskInv(t)'
      BY <1>2, <3>1, TaskFrame DEF CacheInv
    <3> QED
      BY <1>2, <3>1, <3>2, <3>3, <3>4 DEF CacheInv, Stored
  <2> QED
    BY <1>2, <2>1, ReaderSteps, InsertStep, UploadSteps DEF Next
<1> QED
  BY <1>1, <1>2, PTL DEF Spec

\* The books of the cache are right and within both limits, however readers
\* that missed the same key race each other and invalidations (cache(),
\* remove_entry).
THEOREM CacheWithinBudget == Spec => []WithinBudget
<1>1. CacheInv => WithinBudget
  BY DEF CacheInv
<1> QED
  BY <1>1, CacheInvariant, PTL

\* Every answer is one that the store would give, and no failure is cached
\* (get_bucket).
THEOREM CacheAnswersTrue == Spec => []AnswersTrue
<1>1. CacheInv => AnswersTrue
  BY DEF CacheInv, TaskInv, Stored, AnswersTrue
<1> QED
  BY <1>1, CacheInvariant, PTL

\* What the eviction loop promises of one insertion.
LEMMA InsertEvictsOldest ==
    ASSUME CacheInv, NEW t \in Tasks, Insert(t), entries \ entries' # {}
    PROVE  /\ \A d \in entries \ entries', e \in (entries \cap entries') \ {request[t]} :
                lastAccess[d] <= lastAccess[e]
           /\ \/ Cardinality(entries') + 1 > MaxEntries
              \/ \E d \in entries \ entries' : usedBytes' + Size[d[2]] > MaxBytes
<1> DEFINE c == request[t]
           n == Size[c[2]]
           others == RemoveEntry(Cache, c)
           room == MakeRoom(others, n)
<1>1. /\ c \in CacheKeys /\ n \in Nat /\ Books(others) /\ others.entries = entries \ {c}
      /\ entries' = room.entries \cup {c} /\ usedBytes' = room.used + n
  BY InsertEffect
<1>2. /\ Books(room) /\ room.entries \subseteq others.entries
      /\ \A d \in others.entries \ room.entries, e \in room.entries : lastAccess[d] <= lastAccess[e]
      /\ room.entries # others.entries =>
           \E d \in others.entries \ room.entries :
             ~Fits(room.entries \cup {d}, room.used + SizeOf(d), n)
  BY <1>1, MakeRoomWorks DEF CacheInv, TypeOK
<1> HIDE DEF n, others, room
<1>3. /\ entries \ entries' = others.entries \ room.entries
      /\ (entries \cap entries') \ {c} = room.entries
  BY <1>1, <1>2
<1>4. PICK d \in others.entries \ room.entries :
        ~Fits(room.entries \cup {d}, room.used + SizeOf(d), n)
  BY <1>2, <1>3
<1>5. room.entries \in SUBSET CacheKeys /\ others.entries \in SUBSET CacheKeys
  BY <1>1, <1>2 DEF Books
<1>6. IsFiniteSet(room.entries) /\ Cardinality(room.entries) \in Nat
  BY <1>5, FewKeys
<1>7. /\ Cardinality(room.entries \cup {d}) = Cardinality(room.entries) + 1
      /\ Cardinality(entries') = Cardinality(room.entries) + 1
  BY <1>1, <1>2, <1>4, <1>6, FS_AddElement
<1>8. room.used \in Nat /\ SizeOf(d) \in Nat /\ SizeOf(d) = Size[d[2]]
  <2>1. room.used \in Nat
    BY <1>2, BytesNat DEF Books
  <2>2. d \in CacheKeys
    BY <1>4, <1>5
  <2> QED
    BY <2>1, <2>2, CacheAssumption DEF SizeOf, CacheKeys
<1>9. \/ ~(Cardinality(entries') < MaxEntries)
      \/ ~(usedBytes' + Size[d[2]] <= MaxBytes)
  BY <1>1, <1>4, <1>7, <1>8 DEF Fits
<1>10. Cardinality(entries') \in Nat /\ usedBytes' + Size[d[2]] \in Nat
  BY <1>1, <1>6, <1>7, <1>8
<1>11. \/ Cardinality(entries') + 1 > MaxEntries
       \/ usedBytes' + Size[d[2]] > MaxBytes
  BY <1>9, <1>10, CacheAssumption
<1> QED
  BY <1>2, <1>3, <1>4, <1>11

\* An insertion evicts oldest entries only, and none that it need not (the
\* eviction loop of cache()).
THEOREM CacheEvictsOldestForRoom == Spec => EvictsOldestForRoom
<1>1. CacheInv /\ [Next]_vars =>
        [\A t \in Tasks :
           LET gone == entries \ entries' IN
           Insert(t) /\ gone # {} =>
             /\ \A d \in gone, e \in (entries \cap entries') \ {request[t]} :
                  lastAccess[d] <= lastAccess[e]
             /\ \/ Cardinality(entries') + 1 > MaxEntries
                \/ \E d \in gone : usedBytes' + Size[d[2]] > MaxBytes]_vars
  BY InsertEvictsOldest
<1> QED
  BY <1>1, CacheInvariant, PTL DEF Spec, EvictsOldestForRoom
=============================================================================
