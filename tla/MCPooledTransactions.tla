----------------------- MODULE MCPooledTransactions -----------------------
(***************************************************************************)
(* Small instances of PooledTransactions for TLC.                          *)
(***************************************************************************)
EXTENDS PooledTransactions, TLC

Symmetry == Permutations(Conns) \cup Permutations(Calls \ Reads)
=============================================================================
