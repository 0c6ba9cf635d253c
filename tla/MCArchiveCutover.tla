-------------------------- MODULE MCArchiveCutover --------------------------
(***************************************************************************)
(* Small instances of ArchiveCutover for TLC.                              *)
(***************************************************************************)
EXTENDS ArchiveCutover, TLC

Symmetry == Permutations(Records) \cup Permutations(Runners)
=============================================================================
