------------------------- MODULE MCSchemaMigration -------------------------
(***************************************************************************)
(* A small instance of SchemaMigration for TLC: two jobs of one release, a *)
(* job of an older one, and one whose release has edited a migration.      *)
(***************************************************************************)
EXTENDS SchemaMigration, TLC

CONSTANTS old, new, twin, edited

MCLatest == old :> 4 @@ new :> 5 @@ twin :> 5 @@ edited :> 5

MCChecksum == [j \in Jobs |-> [v \in 4..5 |->
                 IF j = edited /\ v = 5 THEN "edited" ELSE "original"]]

Symmetry == Permutations({new, twin})
=============================================================================
