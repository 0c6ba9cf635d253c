--------------------------- MODULE TableDefinition ---------------------------
(***************************************************************************)
(* How a table cuts time into buckets (src/domain/schema.rs and model.rs). *)
(* A calendar strategy is the set of its boundaries, which need not be     *)
(* evenly spaced; a bucket is named by its start.  Time before the first   *)
(* boundary and from Horizon on is not used.                               *)
(*                                                                         *)
(* Time is counted in parts of a microsecond, Tick of them in each: a      *)
(* DateTime holds nanoseconds, a CockroachDB timestamp microseconds.       *)
(***************************************************************************)
EXTENDS Integers, Sequences, FiniteSets

CONSTANTS
    Starts,             \* the boundaries of the strategy
    Horizon,            \* end of the last bucket
    WritableBuckets,    \* writable_buckets of the definition
    Tick                \* parts of time in a microsecond

ASSUME CalendarAssumption ==
    /\ Starts \subseteq Nat /\ 0 \in Starts
    /\ Horizon \in Nat /\ \A b \in Starts : b < Horizon
    /\ WritableBuckets \in Nat \ {0}

\* Bucket boundaries are calendar dates.
ASSUME TickAssumption ==
    /\ Tick \in Nat \ {0}
    /\ \A b \in Starts \cup {Horizon} : b % Tick = 0

Times == 0..(Horizon - 1)

\* The bucket's start in bucket_bounds.
BucketOf(t) == CHOOSE b \in Starts : b <= t /\ \A c \in Starts : c <= t => c <= b

\* The bucket's exclusive end in bucket_bounds.
BucketEnd(b) ==
    CHOOSE e \in Starts \cup {Horizon} :
      b < e /\ \A c \in Starts \cup {Horizon} : b < c => e <= c

\* buckets_for_range: from the bucket of the range's start, each next one
\* found at the end of the one before it.
BucketsForRange(range) ==
    LET from[t \in 0..Horizon] ==
          IF t = Horizon \/ BucketOf(t) >= range.end THEN <<>>
          ELSE <<BucketOf(t)>> \o from[BucketEnd(BucketOf(t))]
    IN  IF range.start >= range.end THEN <<>> ELSE from[range.start]

\* recent_buckets: the nth bucket back, found one instant before the start of
\* its successor.  The first boundary stands for all that is older.
Recent(now, n) ==
    LET back[i \in 1..n] ==
          IF i = 1 THEN BucketOf(now)
          ELSE IF back[i - 1] = 0 THEN 0 ELSE BucketOf(back[i - 1] - 1)
    IN  back[n]

OldestWritable(now) == Recent(now, WritableBuckets)
NewestWritable(now) == Recent(now, 1)

Contains(range, t) == range.start <= t /\ t < range.end

\* tokio-postgres sends a DateTime as the whole microseconds in it.
Micros(t) == t - (t % Tick)

\* A range as the SQL of read_range receives it.
HotRange(range) == [start |-> Micros(range.start), end |-> Micros(range.end)]

\* Instants that both tiers take as inside the range, and those that one does.
InBoth(range, t)   == Contains(range, t) /\ Contains(HotRange(range), t)
InEither(range, t) == Contains(range, t) \/ Contains(HotRange(range), t)
=============================================================================
