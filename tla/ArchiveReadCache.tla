--------------------------- MODULE ArchiveReadCache ---------------------------
(***************************************************************************)
(* ImmutableArchiveCache (src/adapters/immutable_archive_cache.rs): a      *)
(* bounded cache of archive objects in front of the archive store, shared  *)
(* by concurrent readers and uploads.  Access stamps are taken before the  *)
(* mutex, so calls may store them in another order than they took them.    *)
(*                                                                         *)
(* The store behind it is ArchiveObjectStore's: an object key names one    *)
(* content for ever, which belongs to one bucket, and reading it for       *)
(* another bucket is refused.                                              *)
(***************************************************************************)
EXTENDS Integers, FiniteSets, FiniteSetsExt

CONSTANTS
    Tasks,          \* concurrent calls of get_bucket
    Buckets,
    ObjectKeys,
    Owner,          \* the bucket each object belongs to
    Size,           \* estimated_records_size of each object
    MaxBytes, MaxEntries,
    MaxStamp,       \* bound on next_access
    NoRequest

ASSUME CacheAssumption ==
    /\ Owner \in [ObjectKeys -> Buckets]
    /\ Size \in [ObjectKeys -> Nat]
    /\ MaxBytes \in Nat /\ MaxEntries \in Nat /\ MaxStamp \in Nat
    /\ IsFiniteSet(ObjectKeys) /\ IsFiniteSet(Buckets)
    /\ NoRequest \notin Buckets \X ObjectKeys

CacheKeys == Buckets \X ObjectKeys

VARIABLES
    objects,        \* objects that have been uploaded
    entries,        \* cache keys that have an entry
    lastAccess,     \* last_access of each entry
    usedBytes,      \* used_bytes
    nextAccess,     \* next_access
    at,             \* each task's position
    request,        \* its cache key
    stamp,          \* the access stamp it has taken
    answer          \* "none", "records" or "error"

taskVars == <<at, request, stamp, answer>>
vars == <<objects, entries, lastAccess, usedBytes, nextAccess, taskVars>>

TypeOK ==
    /\ objects \subseteq ObjectKeys
    /\ entries \subseteq CacheKeys
    /\ lastAccess \in [CacheKeys -> 0..MaxStamp]
    /\ usedBytes \in Nat
    /\ nextAccess \in 0..MaxStamp
    /\ at \in [Tasks -> {"idle", "lookup", "fetch", "stamp", "insert"}]
    /\ request \in [Tasks -> CacheKeys \cup {NoRequest}]
    /\ stamp \in [Tasks -> 0..MaxStamp]
    /\ answer \in [Tasks -> {"none", "records", "error"}]

Init ==
    /\ objects = {}
    /\ entries = {}
    /\ lastAccess = [c \in CacheKeys |-> 0]
    /\ usedBytes = 0
    /\ nextAccess = 0
    /\ at = [t \in Tasks |-> "idle"]
    /\ request = [t \in Tasks |-> NoRequest]
    /\ stamp = [t \in Tasks |-> 0]
    /\ answer = [t \in Tasks |-> "none"]

-----------------------------------------------------------------------------
Bytes(S) == MapThenSumSet(LAMBDA c : Size[c[2]], S)

\* saturating_sub.
Minus(a, b) == IF b > a THEN 0 ELSE a - b

Goto(t, where) == at' = [at EXCEPT ![t] = where]

Answers(t, a) == Goto(t, "idle") /\ answer' = [answer EXCEPT ![t] = a]

TakeStamp(t) ==
    /\ nextAccess < MaxStamp
    /\ nextAccess' = nextAccess + 1
    /\ stamp' = [stamp EXCEPT ![t] = nextAccess]

-----------------------------------------------------------------------------
(* get_bucket. *)

Get(t, c) ==
    /\ at[t] = "idle"
    /\ TakeStamp(t)
    /\ request' = [request EXCEPT ![t] = c]
    /\ answer' = [answer EXCEPT ![t] = "none"]
    /\ Goto(t, "lookup")
    /\ UNCHANGED <<objects, entries, lastAccess, usedBytes>>

\* Mutant: entries are found by object key alone.
Hit_AnyBucket(t) == \E c \in entries : c[2] = request[t][2]

Hit(t) == request[t] \in entries

\* get_cached, under the mutex.
Lookup(t) ==
    /\ at[t] = "lookup"
    /\ \/ /\ Hit(t)
          /\ lastAccess' = [lastAccess EXCEPT ![request[t]] = stamp[t]]
          /\ Answers(t, "records")
       \/ /\ ~Hit(t)
          /\ Goto(t, "fetch")
          /\ UNCHANGED <<lastAccess, answer>>
    /\ UNCHANGED <<objects, entries, usedBytes, nextAccess, request, stamp>>

\* The store's error: no such object, another bucket's object, or a fault.
FetchFails(t) ==
    /\ at[t] = "fetch"
    /\ Answers(t, "error")
    /\ UNCHANGED <<objects, entries, lastAccess, usedBytes, nextAccess, request,
                   stamp>>

Fetch(t) ==
    /\ at[t] = "fetch"
    /\ request[t][2] \in objects
    /\ Owner[request[t][2]] = request[t][1]
    /\ Goto(t, "stamp")
    /\ UNCHANGED <<objects, entries, lastAccess, usedBytes, nextAccess, request,
                   stamp, answer>>

Cacheable(c) == MaxBytes > 0 /\ MaxEntries > 0 /\ Size[c[2]] <= MaxBytes

\* cache(): the early returns, or the stamp.
CacheStamp(t) ==
    /\ at[t] = "stamp"
    /\ \/ /\ ~Cacheable(request[t])
          /\ Answers(t, "records")
          /\ UNCHANGED <<nextAccess, stamp>>
       \/ /\ Cacheable(request[t])
          /\ TakeStamp(t)
          /\ Goto(t, "insert")
          /\ UNCHANGED answer
    /\ UNCHANGED <<objects, entries, lastAccess, usedBytes, request>>

\* Mutant: the entry used last goes first.
Oldest_Newest(S) == CHOOSE c \in S : \A d \in S : lastAccess[c] >= lastAccess[d]

\* The entry that the eviction loop picks.
Oldest(S) == CHOOSE c \in S : \A d \in S : lastAccess[c] <= lastAccess[d]

Fits(S, used, n) == Cardinality(S) < MaxEntries /\ used + n <= MaxBytes

\* Mutant: the bytes of an entry that is replaced stay counted.
RemoveEntry_Counted(cache, c) == [cache EXCEPT !.entries = @ \ {c}]

\* remove_entry.
RemoveEntry(cache, c) ==
    IF c \in cache.entries
    THEN [entries |-> cache.entries \ {c},
          used |-> Minus(cache.used, Size[c[2]])]
    ELSE cache

\* The eviction loop: it also ends when nothing is left to evict.
MakeRoom(cache, n) ==
    LET evict[i \in 0..Cardinality(cache.entries)] ==
          IF i = 0 THEN cache
          ELSE LET rest == evict[i - 1]
               IN  IF Fits(rest.entries, rest.used, n) \/ rest.entries = {} THEN rest
                   ELSE RemoveEntry(rest, Oldest(rest.entries))
    IN  evict[Cardinality(cache.entries)]

Insert(t) ==
    /\ at[t] = "insert"
    /\ LET c == request[t]
           n == Size[c[2]]
           room == MakeRoom(RemoveEntry([entries |-> entries, used |-> usedBytes], c), n)
       IN /\ entries' = room.entries \cup {c}
          /\ usedBytes' = room.used + n
          /\ lastAccess' = [lastAccess EXCEPT ![c] = stamp[t]]
    /\ Answers(t, "records")
    /\ UNCHANGED <<objects, nextAccess, request, stamp>>

\* put_bucket and put_bucket_generation: upload, then invalidate.  Readers may
\* come in between: the entry they leave goes again.
Upload(o) ==
    /\ o \notin objects
    /\ objects' = objects \cup {o}
    /\ UNCHANGED <<entries, lastAccess, usedBytes, nextAccess, taskVars>>

Invalidate(o) ==
    /\ o \in objects
    /\ LET rest == RemoveEntry([entries |-> entries, used |-> usedBytes],
                               <<Owner[o], o>>)
       IN  entries' = rest.entries /\ usedBytes' = rest.used
    /\ UNCHANGED <<objects, lastAccess, nextAccess, taskVars>>

-----------------------------------------------------------------------------
Next ==
    \/ \E t \in Tasks : \/ \E c \in CacheKeys : Get(t, c)
                        \/ Lookup(t) \/ Fetch(t) \/ FetchFails(t)
                        \/ CacheStamp(t) \/ Insert(t)
    \/ \E o \in ObjectKeys : Upload(o) \/ Invalidate(o)

Spec == Init /\ [][Next]_vars

-----------------------------------------------------------------------------
(* Correctness. *)

\* The books are right and within both limits, although several readers that
\* missed the same key insert it one after the other.
WithinBudget ==
    /\ usedBytes = Bytes(entries)
    /\ usedBytes <= MaxBytes
    /\ Cardinality(entries) <= MaxEntries

\* A read is answered as the store would answer it: never for a bucket that
\* does not own the object, and never before the object is there; a failure
\* is not remembered.
AnswersTrue ==
    /\ \A t \in Tasks : answer[t] = "records" =>
         request[t][2] \in objects /\ Owner[request[t][2]] = request[t][1]
    /\ \A c \in entries : c[2] \in objects /\ Owner[c[2]] = c[1]

\* An insertion evicts the entries with the oldest stamps, and no more of them
\* than it must: with the last one still there a limit would be exceeded.
EvictsOldestForRoom ==
    [][\A t \in Tasks :
         LET gone == entries \ entries' IN
         Insert(t) /\ gone # {} =>
           /\ \A d \in gone, e \in (entries \cap entries') \ {request[t]} :
                lastAccess[d] <= lastAccess[e]
           /\ \/ Cardinality(entries') + 1 > MaxEntries
              \/ \E d \in gone : usedBytes' + Size[d[2]] > MaxBytes]_vars
=============================================================================
