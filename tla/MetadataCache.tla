---------------------------- MODULE MetadataCache ----------------------------
(***************************************************************************)
(* The metadata snapshot of src/src/vps_metadata_cache.c and the two       *)
(* shadow tables of src/src/vps_module.c that keep it: what a snapshot     *)
(* records, how two snapshots are compared, and what a load accepts.       *)
(*                                                                         *)
(* A field list is abstracted to its layout: a list of ordinary columns    *)
(* whose first is an integer ("ints") or text ("texts"), a list with a     *)
(* geometry column ("shapes"), and the same list described again after the *)
(* scan query was wrapped to render the geometry as text ("rendered").     *)
(* Names, type modifiers, the byte encoding with its checksum and the      *)
(* times of capture and validation are left out: the encoding is           *)
(* deterministic and is replaced as a whole, so a row holds a snapshot or  *)
(* nothing.                                                                *)
(***************************************************************************)
EXTENDS Naturals

CONSTANTS
    MaxOid,        \* relations created under the table's name, one after another
    MaxRevision,   \* revisions of the query profile
    NULL           \* no value

Layouts == {"ints", "texts", "shapes"}
Described == Layouts \cup {"rendered"}

\* vps_vtab_source_fingerprint: the scan query (its profile's revision and whether it was
\* wrapped for its geometry), the fields, and the materialization settings mixed in later.
Fingerprints == [revision : 0..MaxRevision, wrapped : BOOLEAN, layout : Described,
                 mixed : BOOLEAN]

\* VpsMetadataSnapshot.  Key columns are counted; a layout's key columns are its first ones.
Snapshots == [layout : Described, origin : 1..MaxOid, relation : 0..MaxOid,
              keys : 0..4, identity : 1..2, fingerprint : Fingerprints]

ASSUME MetadataAssumption ==
    /\ MaxOid \in Nat \ {0}
    /\ MaxRevision \in Nat
    /\ NULL \notin Snapshots

\* Faulty: the comparison forgets the relation's keys.
DriftIgnoringKeys(stored, live) ==
    IF \E f \in {"layout", "origin", "relation", "identity"} : stored[f] # live[f]
    THEN "INCOMPATIBLE"
    ELSE IF stored.fingerprint = live.fingerprint THEN "NONE" ELSE "REFRESHABLE"

\* vps_metadata_snapshot_compare
Drift(stored, live) ==
    IF \E f \in {"layout", "origin", "relation", "keys", "identity"} : stored[f] # live[f]
    THEN "INCOMPATIBLE"
    ELSE IF stored.fingerprint = live.fingerprint THEN "NONE" ELSE "REFRESHABLE"

\* vps_metadata_cache_fallback_allowed
FallbackAllowed(class) == class \in {"CONNECTION", "TIMEOUT"}

-----------------------------------------------------------------------------
\* The shadow tables <vtab>_vps_schema and <vtab>_vps_metadata: the row of each.
Shadows == [schema : Snapshots \cup {NULL}, metadata : Snapshots \cup {NULL}]
EmptyShadow == [schema |-> NULL, metadata |-> NULL]

\* vps_shadow_load: one well-formed row in each table, the schema row in agreement with the
\* decoded snapshot; SQLITE_CORRUPT otherwise.
Loads(s) == /\ s.schema # NULL
            /\ s.metadata # NULL
            /\ s.schema.fingerprint = s.metadata.fingerprint
            /\ s.schema.relation = s.metadata.relation

\* The four statements of vps_shadow_store that change rows, in order.
StoreSteps == <<"delete schema", "delete metadata", "insert schema", "insert metadata">>

StoreStep(s, n, snapshot) ==
    CASE n = 1 -> [s EXCEPT !.schema = NULL]
      [] n = 2 -> [s EXCEPT !.metadata = NULL]
      [] n = 3 -> [s EXCEPT !.schema = snapshot]
      [] n = 4 -> [s EXCEPT !.metadata = snapshot]
=============================================================================
