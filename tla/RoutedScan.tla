----------------------------- MODULE RoutedScan -----------------------------
(***************************************************************************)
(* What the DataFusion table provider reads for a query's WHERE clause     *)
(* (src/integrations/datafusion.rs).  The provider declares every filter   *)
(* it takes Exact, so DataFusion applies none of them again: the rows it   *)
(* returns are the query's answer.                                         *)
(*                                                                         *)
(* A filter is the sequence of the comparisons of a conjunction, each of a *)
(* column with a literal, taken from under its casts; flipped says that    *)
(* the literal is on the left.  Anything else (OR, BETWEEN, IN, an         *)
(* expression) has the operator "else".                                    *)
(***************************************************************************)
EXTENDS TableDefinition

CONSTANT ArrowMax       \* the last instant that 64 bits of nanoseconds can hold

ASSUME ArrowAssumption == ArrowMax \in 0..Horizon

-----------------------------------------------------------------------------
(* Planning.                                                               *)

\* A comparison of a filter; a timestamp in it lies in the calendar.
Comparison(c) ==
    /\ c = [col |-> c.col, op |-> c.op, lit |-> c.lit, flipped |-> c.flipped]
    /\ c.op \in {"=", ">=", "<", "<=", ">", "else"} /\ c.flipped \in BOOLEAN
    /\ c.lit.type = "timestamptz" => c.lit.val \in 0..Horizon

\* DataFusion's canonical form puts the column on the left.
Swapped == [op \in {"=", ">=", "<", "<=", ">", "else"} |->
              CASE op = ">=" -> "<=" [] op = "<=" -> ">=" [] op = "<" -> ">"
                [] op = ">" -> "<" [] OTHER -> op]
Canonical(c) ==
    IF c.flipped THEN [c EXCEPT !.flipped = FALSE, !.op = Swapped[@]] ELSE c

\* string_literal and timestamp_literal: the values that a literal can be taken
\* as.  A timestamp is converted to nanoseconds, and is none when they overflow.
StringLiteral(lit) == IF lit.type = "text" THEN {lit.val} ELSE {}
TimestampLiteral(lit) ==
    IF lit.type = "timestamptz" /\ lit.val <= ArrowMax THEN {lit.val} ELSE {}

\* validate_predicate_shape
PredicateShape(c) ==
    \/ c.op = "=" /\ c.col = "channel_id" /\ StringLiteral(c.lit) # {}
    \/ c.op \in {">=", "<"} /\ c.col = "timestamp" /\ TimestampLiteral(c.lit) # {}

\* collect_predicate and collect_timestamp_bound: the comparisons that fill each
\* slot of the RoutedQuery.
ShardPredicates(filters) == {i \in DOMAIN filters : filters[i].op = "="}
StartBounds(filters) ==
    {i \in DOMAIN filters : filters[i].op = IF filters[i].flipped THEN "<" ELSE ">="}
EndBounds(filters) ==
    {i \in DOMAIN filters : filters[i].op = IF filters[i].flipped THEN ">=" ELSE "<"}

Strings(filters, indices) == UNION {StringLiteral(filters[i].lit) : i \in indices}
Instants(filters, indices) == UNION {TimestampLiteral(filters[i].lit) : i \in indices}
TheOne(set) == CHOOSE x \in set : TRUE

\* extract_query and finish: the scan's query, or no query when the provider
\* answers with a planning error.
ExtractQuery(filters) ==
    LET shards == Strings(filters, ShardPredicates(filters))
        starts == Instants(filters, StartBounds(filters))
        ends   == Instants(filters, EndBounds(filters))
        query  == [partition |-> TheOne(shards),
                   range |-> [start |-> TheOne(starts), end |-> TheOne(ends)]]
    IN  IF /\ \A i \in DOMAIN filters : PredicateShape(filters[i])
           /\ Cardinality(shards) = 1
           /\ Cardinality(StartBounds(filters)) = 1
           /\ Cardinality(EndBounds(filters)) = 1
           /\ query.range.start < query.range.end
        THEN {query}
        ELSE {}

Planned(filters) == ExtractQuery([i \in DOMAIN filters |-> Canonical(filters[i])])

-----------------------------------------------------------------------------
(* Execution: one query_page with the scan's limit, which reads its buckets *)
(* in parallel, each at an instant of its own.                             *)

ScanBuckets(query, limit) ==
    LET list == BucketsForRange(query.range)
    IN  IF limit = 0 THEN {} ELSE {list[i] : i \in DOMAIN list}

\* Mutants: an archived bucket is returned whole; without its first instant.
InArchive_WholeBucket(range, t) == TRUE
InArchive_AfterStart(range, t) == range.start < t /\ t < range.end

\* A hot bucket is filtered in SQL, where the bounds arrive as microseconds;
\* an archived one in read_bucket, with the bounds as they are.
InHot(range, t) == Contains(HotRange(range), t)
InArchive(range, t) == Contains(range, t)

BucketRows(query, bucket, rows, archived) ==
    {r \in rows : /\ r.channel_id = query.partition
                  /\ BucketOf(r.timestamp) = bucket
                  /\ IF bucket \in archived
                     THEN InArchive(query.range, r.timestamp)
                     ELSE InHot(query.range, r.timestamp)}

Before(r, q) ==
    \/ r.timestamp < q.timestamp
    \/ r.timestamp = q.timestamp /\ r.id < q.id

\* The first rows in the order of the table, at most limit of them.
FirstRows(rows, limit) ==
    {r \in rows : Cardinality({q \in rows : Before(q, r)}) < limit}

\* What one bucket gives a page: one row more than the page holds.
BucketPage(query, limit, bucket, rows, archived) ==
    FirstRows(BucketRows(query, bucket, rows, archived), limit + 1)

-----------------------------------------------------------------------------
(* What SQL says the comparisons mean.                                     *)

\* The comparison holds of the row when its literal has this value.
Holds(c, val, r) ==
    LET k == Canonical(c)
        v == IF k.col \in DOMAIN r THEN r[k.col] ELSE val
    IN  CASE k.op = "="  -> v = val
          [] k.op = ">=" -> v >= val
          [] k.op = "<"  -> v < val
          [] k.op = "<=" -> v <= val
          [] k.op = ">"  -> v > val
          [] OTHER       -> FALSE

\* The row satisfies the filters as they are written, and with their timestamps
\* cut to microseconds, which is what PostgreSQL's timestamps hold.
AsWritten(filters, r) ==
    \A i \in DOMAIN filters : Holds(filters[i], filters[i].lit.val, r)

CutValue(lit) == IF lit.type = "timestamptz" THEN Micros(lit.val) ELSE lit.val
CutToMicros(filters, r) ==
    \A i \in DOMAIN filters : Holds(filters[i], CutValue(filters[i].lit), r)
=============================================================================
