--------------------------- MODULE MCStrategyFence ---------------------------
(***************************************************************************)
(* A small instance of StrategyFence for TLC: a year of two months.        *)
(***************************************************************************)
EXTENDS StrategyFence, TLC

MCBoundaries == [s \in Strategies |-> IF s = "calendar_year_utc" THEN {0} ELSE {0, 1}]

Symmetry == Permutations(Processes) \cup Permutations(Partitions)
=============================================================================
