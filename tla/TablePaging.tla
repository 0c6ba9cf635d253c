----------------------------- MODULE TablePaging -----------------------------
(***************************************************************************)
(* DurableTable (src/application/durable_table.rs): appends with the write *)
(* window, and query_page with its parallel bucket reads, while buckets    *)
(* move to the archive.  A client walks a range page by page with the      *)
(* cursor each page returns.                                               *)
(*                                                                         *)
(* A bucket is what LogicalBucket promises: rows that grow until it is     *)
(* sealed and a tier that a read is routed by.  Records are named by their *)
(* clustering key <<event_time, sort_key>>; a list that the code sorts is  *)
(* the set of its keys, and truncation keeps its least ones.  A key is     *)
(* stored, and a hot bucket is filtered, in whole microseconds.            *)
(***************************************************************************)
EXTENDS TableDefinition

CONSTANTS
    Keys,           \* clustering keys of the records that clients append
    Clock,          \* instants that the clock shows
    Ranges,         \* ranges that clients walk
    Limits,         \* page sizes that clients ask for
    UsizeMax,       \* usize::MAX, the limit of query()
    MaxParallel,    \* MAX_PARALLEL_BUCKET_READS
    MaxFaults,      \* bound on failed bucket reads
    NoCursor, NoRange

\* A key as CockroachDB keeps it, and the keys that it can hold.
Stored(k) == <<Micros(k[1]), k[2]>>
Records == {Stored(k) : k \in Keys}

ASSUME PagingAssumption ==
    /\ Keys \subseteq Times \X Nat /\ IsFiniteSet(Keys)
    /\ Clock \subseteq Times /\ 0 \in Clock
    /\ Ranges \subseteq [start : 0..Horizon, end : 0..Horizon]
    /\ UsizeMax \in Nat /\ UsizeMax >= Cardinality(Keys)
    /\ Limits \subseteq 0..UsizeMax
    /\ MaxParallel \in Nat /\ MaxParallel >= 2
    /\ MaxFaults \in Nat
    /\ NoCursor \notin Records /\ NoRange \notin Ranges

VARIABLES
    now,        \* the clock that appends read
    rows,       \* the records of the table
    tier,       \* each bucket's tier: its rows are final in the archive
    inflight,   \* appends that passed the window check and have not ended
    walk,       \* the client: range, cursor, and where it is
    limit,      \* the page size of the current query, 0 between queries
    todo,       \* buckets of the current query that have no task yet
    task,       \* each bucket's read task
    got,        \* the records each finished task holds
    result,     \* the records joined so far
    faults,
    delivered,  \* history: records delivered in this walk
    owed,       \* history: records in the range, for both tiers, when the walk began
    settled     \* history: no record of the range could be added any more then

storeVars == <<now, rows, tier, inflight>>
queryVars == <<limit, todo, task, got, result>>
historyVars == <<delivered, owed, settled>>
vars == <<storeVars, walk, queryVars, faults, historyVars>>

TypeOK ==
    /\ now \in Clock
    /\ rows \subseteq Records
    /\ tier \in [Starts -> {"hot", "archived"}]
    /\ inflight \subseteq Keys
    /\ walk \in [at : {"idle", "open", "paging", "done", "rejected", "empty"},
                 range : Ranges \cup {NoRange}, cursor : Records \cup {NoCursor}]
    /\ limit \in Limits \cup {0}
    /\ todo \in Seq(Starts)
    /\ task \in [Starts -> {"none", "read", "fetch", "done"}]
    /\ got \in [Starts -> SUBSET Records]
    /\ result \subseteq Records
    /\ faults \in 0..MaxFaults
    /\ delivered \subseteq Records /\ owed \subseteq Records
    /\ settled \in BOOLEAN

Init ==
    /\ now = 0
    /\ rows = {}
    /\ tier = [b \in Starts |-> "hot"]
    /\ inflight = {}
    /\ walk = [at |-> "idle", range |-> NoRange, cursor |-> NoCursor]
    /\ limit = 0
    /\ todo = <<>>
    /\ task = [b \in Starts |-> "none"]
    /\ got = [b \in Starts |-> {}]
    /\ result = {}
    /\ faults = 0
    /\ delivered = {} /\ owed = {} /\ settled = FALSE

-----------------------------------------------------------------------------
(* The clustering order. *)

Before(j, k) == j[1] < k[1] \/ (j[1] = k[1] /\ j[2] < k[2])

\* Mutant: the continuation includes the record it points at.
Past_Inclusive(cursor, k) == cursor = NoCursor \/ ~Before(k, cursor)

\* A record lies beyond the cursor.
Past(cursor, k) == cursor = NoCursor \/ Before(cursor, k)

\* Sort and truncate.
First(S, n) == {k \in S : Cardinality({j \in S : Before(j, k)}) < n}

Last(S) == CHOOSE k \in S : \A j \in S : j = k \/ Before(j, k)

-----------------------------------------------------------------------------
(* The table: appends, the passing of time, archival. *)

\* The window is checked against the clock before the store is called.
AppendStart(k) ==
    /\ k \notin inflight
    /\ LET b == BucketOf(k[1]) IN
         OldestWritable(now) <= b /\ b <= NewestWritable(now)
    /\ inflight' = inflight \cup {k}
    /\ UNCHANGED <<now, rows, tier, walk, queryVars, faults, historyVars>>

\* Mutant: the transaction relies on the window check and skips the state.
AppendEnd_AnyTier(k) ==
    /\ k \in inflight
    /\ inflight' = inflight \ {k}
    /\ rows' \in {rows, rows \cup {Stored(k)}}
    /\ UNCHANGED <<now, tier, walk, queryVars, faults, historyVars>>

\* The store's transaction: refused unless the bucket is hot; a key that is
\* taken, or a failure, adds nothing.
AppendEnd(k) ==
    /\ k \in inflight
    /\ inflight' = inflight \ {k}
    /\ rows' \in IF tier[BucketOf(k[1])] = "hot" THEN {rows, rows \cup {Stored(k)}} ELSE {rows}
    /\ UNCHANGED <<now, tier, walk, queryVars, faults, historyVars>>

ClockAdvances ==
    /\ now' \in {t \in Clock : now < t}
    /\ UNCHANGED <<rows, tier, inflight, walk, queryVars, faults, historyVars>>

\* A cutover as its clients see it.
Archive(b) ==
    /\ tier[b] = "hot"
    /\ tier' = [tier EXCEPT ![b] = "archived"]
    /\ UNCHANGED <<now, rows, inflight, walk, queryVars, faults, historyVars>>

-----------------------------------------------------------------------------
(* query_page. *)

\* An append of the key may still add it: it passed the window check or can
\* pass it later, and its bucket is hot.
MayArrive(k) ==
    /\ tier[BucketOf(k[1])] = "hot"
    /\ k \in inflight \/ OldestWritable(now) <= BucketOf(k[1])

WalkBegin(r) ==
    /\ walk.at = "idle"
    /\ walk' = [at |-> "open", range |-> r, cursor |-> NoCursor]
    /\ owed' = {k \in rows : InBoth(r, k[1])}
    /\ settled' = \A k \in Keys : InBoth(r, Stored(k)[1]) => ~MayArrive(k)
    /\ UNCHANGED <<storeVars, queryVars, faults, delivered>>

\* InvalidTimeRange.
QueryRejected ==
    /\ walk.at = "open"
    /\ walk.range.start >= walk.range.end
    /\ walk' = [walk EXCEPT !.at = "rejected"]
    /\ UNCHANGED <<storeVars, queryVars, faults, historyVars>>

\* limit.saturating_add(1): one more than the page, to learn if more follows.
Capacity == IF limit = UsizeMax THEN UsizeMax ELSE limit + 1

\* The buckets that get a task before the first join.
Spawned(buckets) == {buckets[i] : i \in 1..Len(buckets) \cap 1..MaxParallel}

\* A page of no records reads nothing and returns the cursor it was given: none
\* for a first page, which the client takes for the end.
EmptyPage ==
    /\ walk.at = "open"
    /\ walk.range.start < walk.range.end
    /\ 0 \in Limits
    /\ walk' = IF walk.cursor = NoCursor THEN [walk EXCEPT !.at = "empty"] ELSE walk
    /\ UNCHANGED <<storeVars, queryVars, faults, historyVars>>

\* The first MaxParallel buckets get a task each.
Query(n) ==
    /\ walk.at = "open"
    /\ walk.range.start < walk.range.end
    /\ n > 0
    /\ limit' = n
    /\ LET buckets == BucketsForRange(walk.range) IN
       /\ todo' = SubSeq(buckets, MaxParallel + 1, Len(buckets))
       /\ task' = [b \in Starts |-> IF b \in Spawned(buckets) THEN "read" ELSE "none"]
    /\ got' = [b \in Starts |-> {}]
    /\ result' = {}
    /\ walk' = [walk EXCEPT !.at = "paging"]
    /\ UNCHANGED <<storeVars, faults, historyVars>>

\* What one bucket contributes: filtered, sorted, truncated.
BucketPage(b, range) ==
    First({k \in rows : /\ BucketOf(k[1]) = b
                        /\ Contains(range, k[1]) /\ Past(walk.cursor, k)}, Capacity)

\* A hot bucket is filtered in SQL, where the bounds arrive as microseconds;
\* an archived one in the process, with the bounds as they are.
HotPage(b) == BucketPage(b, HotRange(walk.range))
ArchivedPage(b) == BucketPage(b, walk.range)

\* read_range in the database: the rows, or the route to the archive.
ReadRange(b) ==
    /\ task[b] = "read"
    /\ \/ /\ tier[b] = "hot"
          /\ got' = [got EXCEPT ![b] = HotPage(b)]
          /\ task' = [task EXCEPT ![b] = "done"]
       \/ /\ tier[b] = "archived"
          /\ task' = [task EXCEPT ![b] = "fetch"]
          /\ UNCHANGED got
    /\ UNCHANGED <<storeVars, walk, limit, todo, result, faults, historyVars>>

\* get_bucket, and the filter, sort and truncation in the process.
FetchArchive(b) ==
    /\ task[b] = "fetch"
    /\ got' = [got EXCEPT ![b] = ArchivedPage(b)]
    /\ task' = [task EXCEPT ![b] = "done"]
    /\ UNCHANGED <<storeVars, walk, limit, todo, result, faults, historyVars>>

\* join_next: take the records of a finished task and spawn the next one.
Join(b) ==
    /\ task[b] = "done"
    /\ result' = result \cup got[b]
    /\ got' = [got EXCEPT ![b] = {}]
    /\ IF todo = <<>>
       THEN task' = [task EXCEPT ![b] = "none"] /\ UNCHANGED todo
       ELSE /\ task' = [task EXCEPT ![b] = "none", ![Head(todo)] = "read"]
            /\ todo' = Tail(todo)
    /\ UNCHANGED <<storeVars, walk, limit, faults, historyVars>>

\* A bucket read fails, or the caller drops the query: the remaining tasks
\* are aborted and the page is lost; the client may ask again.
QueryFails ==
    /\ walk.at = "paging"
    /\ faults < MaxFaults
    /\ faults' = faults + 1
    /\ walk' = [walk EXCEPT !.at = "open"]
    /\ task' = [b \in Starts |-> "none"]
    /\ got' = [b \in Starts |-> {}]
    /\ limit' = 0 /\ todo' = <<>> /\ result' = {}
    /\ UNCHANGED <<storeVars, historyVars>>

Page == First(result, limit)

\* Mutant: the cursor is the last record read, not the last one returned.
NextCursor_OfResult == Last(result)

\* Mutant: a page hands back the cursor it was asked with.
NextCursor_Unmoved == walk.cursor

\* The cursor of the last record of the page.
NextCursor == Last(Page)

\* Everything is joined: sort, truncate, and a cursor if more was read.
Respond ==
    /\ walk.at = "paging"
    /\ \A b \in Starts : task[b] = "none"
    /\ delivered' = delivered \cup Page
    /\ walk' = IF Cardinality(result) > limit
               THEN [walk EXCEPT !.at = "open", !.cursor = NextCursor]
               ELSE [walk EXCEPT !.at = "done"]
    /\ limit' = 0 /\ result' = {}
    /\ UNCHANGED <<storeVars, todo, task, got, faults, owed, settled>>

-----------------------------------------------------------------------------
Walk ==
    \/ QueryRejected \/ EmptyPage \/ Respond
    \/ \E n \in Limits : Query(n)
    \/ \E b \in Starts : ReadRange(b) \/ FetchArchive(b) \/ Join(b)

Next ==
    \/ ClockAdvances \/ QueryFails \/ Walk
    \/ \E k \in Keys : AppendStart(k) \/ AppendEnd(k)
    \/ \E b \in Starts : Archive(b)
    \/ \E r \in Ranges : WalkBegin(r)

Spec == Init /\ [][Next]_vars

\* The client asks for the next page, not for ever for a page of no records, the
\* runtime polls every task, and the database answers its read.
FairSpec == Spec /\ WF_vars(Walk)

-----------------------------------------------------------------------------
(* Correctness. *)

\* Pages follow each other in the clustering order and repeat nothing,
\* although appends, failed pages and cutovers happen between and during them.
PagesAdvance ==
    [][Respond => \A j \in delivered, k \in Page : Before(j, k)]_vars

\* A walk skips nothing: what both tiers take as inside the range when it begins
\* is delivered or still beyond the cursor, and when a page that was asked for
\* records returns no cursor all of it has been delivered, whichever tiers it
\* moved through and wherever in a microsecond the bounds lie.
WalkComplete ==
    /\ walk.at \in {"open", "paging"} =>
         \A k \in owed : k \in delivered \/ Past(walk.cursor, k)
    /\ walk.at = "done" => owed \subseteq delivered

\* Nothing is delivered but stored records that one of the tiers takes as inside
\* the range; and a walk whose range can get no record any more, because its
\* buckets left the write window or are archived, although an append that passed
\* the window check long ago may still be on its way, delivers all that both
\* tiers ever take as inside it.  For bounds of whole microseconds the two are
\* the range itself, and the walk is exact.
SettledExact ==
    /\ delivered # {} => \A k \in delivered : k \in rows /\ InEither(walk.range, k[1])
    /\ walk.at = "done" /\ settled =>
         \A k \in rows : InBoth(walk.range, k[1]) => k \in delivered

\* The tasks and the joined result are bounded whatever the range holds.
ReadsBounded ==
    /\ Cardinality({b \in Starts : task[b] # "none"}) <= MaxParallel
    /\ \A b \in Starts : Cardinality(got[b]) <= Capacity

\* A walk ends: every page that asks for records makes progress.
WalkEnds == walk.at = "open" ~> walk.at \in {"done", "rejected", "empty"}
=============================================================================
