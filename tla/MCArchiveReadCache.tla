------------------------- MODULE MCArchiveReadCache -------------------------
(***************************************************************************)
(* A small instance of ArchiveReadCache for TLC: small objects, one that   *)
(* fits beside a small one and one that is too large to cache.             *)
(***************************************************************************)
EXTENDS ArchiveReadCache, TLC

CONSTANTS b1, b2, o1, o2, o3, o4

MCOwner == o1 :> b1 @@ o2 :> b1 @@ o3 :> b2 @@ o4 :> b2
MCSize == o1 :> 1 @@ o2 :> 1 @@ o3 :> 2 @@ o4 :> 4

Symmetry == Permutations(Tasks)
=============================================================================
