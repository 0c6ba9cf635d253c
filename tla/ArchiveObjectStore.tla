------------------------- MODULE ArchiveObjectStore -------------------------
(***************************************************************************)
(* The immutable archive objects of one bucket, as OpenDalArchiveStore     *)
(* writes and reads them (src/adapters/opendal_store.rs).  Writing a       *)
(* bucket creates two objects, the payload and then the manifest that      *)
(* names and checksums it; the manifest's key is what gets published.      *)
(* Both keys hold the claim's generation and the digest of the content, so *)
(* a key is a generation and a set of records.  Objects are created with   *)
(* if_not_exists and read back before the write counts as done; nothing    *)
(* overwrites or deletes one.                                              *)
(***************************************************************************)
VARIABLES
    payloads,   \* keys whose payload object exists
    manifests   \* keys whose manifest object exists

objectVars == <<payloads, manifests>>

ObjectInit ==
    /\ payloads = {}
    /\ manifests = {}

\* First half of write_records: create_object_verified on the payload.
put_payload(key) ==
    /\ payloads' = payloads \cup {key}
    /\ UNCHANGED manifests

\* Second half: create_object_verified on the manifest.
put_manifest(key) ==
    /\ manifests' = manifests \cup {key}
    /\ UNCHANGED payloads

\* get_bucket succeeds: the manifest resolves and so does its payload.
Readable(key) == key \in manifests /\ key \in payloads
=============================================================================
