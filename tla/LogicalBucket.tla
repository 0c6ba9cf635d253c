---------------------------- MODULE LogicalBucket ----------------------------
(***************************************************************************)
(* What a logical bucket promises its clients, archival left out: a set of *)
(* records that grows by single appends, is sealed once and never changes  *)
(* afterwards, and that a read observes atomically.  An acknowledged       *)
(* append is in the set from the moment it is acknowledged.                *)
(***************************************************************************)
CONSTANTS
    Records,
    Readers,
    NoAnswer

VARIABLES
    contents,   \* the records of the bucket
    sealed,     \* no record can be added any more
    acked,      \* records whose append was acknowledged
    answer      \* the last answer each reader received

vars == <<contents, sealed, acked, answer>>

TypeOK ==
    /\ contents \subseteq Records
    /\ sealed \in BOOLEAN
    /\ acked \subseteq contents
    /\ answer \in [Readers -> {NoAnswer} \cup SUBSET Records]

Init ==
    /\ contents = {}
    /\ sealed = FALSE
    /\ acked = {}
    /\ answer = [p \in Readers |-> NoAnswer]

\* An append takes effect, acknowledged or not.
Write(r) ==
    /\ ~sealed
    /\ r \notin contents
    /\ contents' = contents \cup {r}
    /\ acked' \in {acked, acked \cup {r}}
    /\ UNCHANGED <<sealed, answer>>

Seal ==
    /\ ~sealed
    /\ sealed' = TRUE
    /\ UNCHANGED <<contents, acked, answer>>

Answer(p) ==
    /\ answer' = [answer EXCEPT ![p] = contents]
    /\ UNCHANGED <<contents, sealed, acked>>

\* The previous answer is consumed, or the read failed.
Forget(p) ==
    /\ answer' = [answer EXCEPT ![p] = NoAnswer]
    /\ UNCHANGED <<contents, sealed, acked>>

Next ==
    \/ \E r \in Records : Write(r)
    \/ Seal
    \/ \E p \in Readers : Answer(p) \/ Forget(p)

Spec == Init /\ [][Next]_vars
=============================================================================
