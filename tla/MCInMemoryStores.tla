-------------------------- MODULE MCInMemoryStores --------------------------
(***************************************************************************)
(* A small instance of InMemoryStores for TLC.                             *)
(***************************************************************************)
EXTENDS InMemoryStores, TLC

Symmetry == Permutations(Records) \cup Permutations(Tokens)
=============================================================================
