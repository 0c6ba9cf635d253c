-------------------------- MODULE MCRecoveryCycle --------------------------
(* Small instances of RecoveryCycle. *)
EXTENDS RecoveryCycle

\* Three buckets; the last one becomes eligible a year later.
MCBuckets == 1 .. 3
MCEndsBy == [b \in MCBuckets |-> IF b = 3 THEN 1 ELSE 0]

\* The first bucket of the scan order cannot be uploaded.
FirstUploadFails == [b \in MCBuckets |-> IF b = 1 THEN "upload" ELSE "never"]
=============================================================================
