---------------------------- MODULE MCTablePaging ----------------------------
(***************************************************************************)
(* A small instance of TablePaging for TLC: two parts of time make a       *)
(* microsecond; three buckets of unequal lengths, two records at one       *)
(* microsecond, records sent between microseconds, and ranges that cut     *)
(* buckets and microseconds.                                               *)
(***************************************************************************)
EXTENDS TablePaging

MCStarts == {0, 4, 6}
MCHorizon == 8
MCKeys == {<<3, 1>>, <<6, 1>>, <<7, 2>>}

MCRanges == {[start |-> 0, end |-> 8], [start |-> 3, end |-> 7], [start |-> 4, end |-> 4]}
=============================================================================
