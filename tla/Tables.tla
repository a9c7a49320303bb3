------------------------------- MODULE Tables -------------------------------
(***************************************************************************)
(* The life cycle of one virtual table in one SQLite connection:           *)
(* xCreate, xConnect, xDisconnect, xDestroy, xBestIndex and xFilter of     *)
(* src/src/vps_module.c as far as they describe the source, declare it to  *)
(* SQLite, keep its snapshot in the shadow tables and validate a           *)
(* declaration taken from them, while the server comes and goes, its       *)
(* catalog changes and the process may stop between any two statements.    *)
(*                                                                         *)
(* A describe is several statements on one server connection, outside a    *)
(* transaction, so the catalog may change between them.  A store is        *)
(* four statements; inside xCreate they belong to the CREATE statement's   *)
(* transaction, from xConnect and xFilter each commits by itself.          *)
(*                                                                         *)
(* Left out: allocation failures, optimistic locking (rw tables use the    *)
(* default), tables of more than 1024 columns, materialized tables (the    *)
(* query cache has a module of its own), several SQLite connections.       *)
(***************************************************************************)
EXTENDS MetadataCache, Sequences

CONSTANTS
    Mixes,         \* VPS_ENABLE_QUERY_MATERIALIZATION: connecting mixes the fingerprint
    MaxChanges     \* changes of the server, of its catalog and of the process, together

\* The arguments of CREATE VIRTUAL TABLE that matter here.  A query source is read-only and
\* names its keys itself; a query profile's revision may change.
Options == {o \in [source : {"table", "query"}, cached : BOOLEAN, refresh : BOOLEAN,
                   rw : BOOLEAN, keys : {0, 1}] :
              /\ o.source = "table" => o.keys = 0
              /\ o.source = "query" => ~o.rw}

Modes == {"SCAN_LOCAL", "STABLE_INTEGER", "HIDDEN_TOKEN"}

\* VpsTable: layout is NULL while nothing is described (visible_field_count 0), relation is
\* 0 while no table metadata is loaded.
TableStates ==
    [options : Options, identity : 1..2, revision : 0..MaxRevision, fallback : BOOLEAN,
     layout : Described \cup {NULL}, origin : 0..MaxOid, relation : 0..MaxOid,
     catalogKeys : 0..2, keys : 0..4, mode : Modes, hidden : BOOLEAN, wrapped : BOOLEAN,
     fingerprint : Fingerprints \cup {NULL},
     declared : [layout : Described, mode : Modes, hidden : BOOLEAN] \cup {NULL}]

ASSUME TablesAssumption ==
    /\ Mixes \in BOOLEAN
    /\ MaxChanges \in Nat
    /\ NULL \notin Options
    /\ NULL \notin TableStates

VARIABLES
    server,    \* [up, oid, layout, keys, revision]: the server and the relation it holds
    identity,  \* the canonical identity of the connection the configuration names now
    options,   \* the persistent declaration in sqlite_schema, or NULL
    shadow,    \* the persistent shadow tables
    table,     \* the connected VpsTable, or NULL
    call,      \* the callback in progress: what it does, its step, its server connection
    plan,      \* the fingerprint in a prepared statement's plan, or NULL
    scan,      \* what the open scan serves, or NULL
    code,      \* the SQLite result of the last callback
    changes,   \* changes so far
    created    \* the snapshot stored by xCreate, or NULL (history)

vars == <<server, identity, options, shadow, table, call, plan, scan, code, changes,
          created>>

Servers == [up : BOOLEAN, oid : 1..MaxOid, layout : Layouts, keys : 0..2,
            revision : 0..MaxRevision]

Calls == [op : {"NONE", "CREATE", "CONNECT", "FILTER"},
          step : {"none", "prepare", "relation", "keys", "spatial", "store"},
          at : 1..4, alive : BOOLEAN]
NoCall == [op |-> "NONE", step |-> "none", at |-> 1, alive |-> FALSE]

\* The relation starts with a one-column integer key, with or without a geometry column;
\* Ddl reaches the other catalogs.
Init ==
    /\ server \in {[up |-> TRUE, oid |-> 1, layout |-> l, keys |-> 1, revision |-> 0] :
                     l \in {"ints", "shapes"}}
    /\ identity = 1
    /\ options = NULL /\ shadow = EmptyShadow /\ table = NULL
    /\ call = NoCall /\ plan = NULL /\ scan = NULL /\ code = "OK"
    /\ changes = 0 /\ created = NULL

-----------------------------------------------------------------------------
\* What the callbacks do to the table.

\* vps_table_initialize_runtime, when it succeeds: arguments, configuration, scan query.
NewTable(o) ==
    [options |-> o, identity |-> identity,
     revision |-> IF o.source = "query" THEN server.revision ELSE 0,
     fallback |-> FALSE, layout |-> NULL, origin |-> 0, relation |-> 0, catalogKeys |-> 0,
     keys |-> 0, mode |-> "SCAN_LOCAL", hidden |-> FALSE, wrapped |-> FALSE,
     fingerprint |-> NULL, declared |-> NULL]

\* vps_table_description_reset; mode, hidden identity, scan query and fingerprint stay.
DescriptionReset(t) ==
    [t EXCEPT !.layout = NULL, !.origin = 0, !.relation = 0, !.catalogKeys = 0, !.keys = 0]

\* vps_table_integrate_spatial wraps the scan query if a geometry column was described.
SpatialIntegrated(t) == IF t.layout = "shapes" THEN [t EXCEPT !.wrapped = TRUE] ELSE t

\* vps_table_build_dml_policy
PolicyBuilds(t) == t.options.rw => t.relation # 0 /\ t.catalogKeys # 0

\* vps_resolve_row_identity appends to the keys it finds; it fails only where PolicyBuilds
\* does.
RowIdentity(t) ==
    LET loaded == t.relation # 0
        added  == IF loaded THEN t.catalogKeys ELSE t.options.keys
        keys   == t.keys + added
        token  == keys # 1 \/ t.layout = "texts"
    IN IF (loaded /\ keys = 0) \/ (~loaded /\ added = 0)
       THEN [t EXCEPT !.mode = "SCAN_LOCAL"]
       ELSE [t EXCEPT !.keys = keys, !.hidden = token,
                      !.mode = IF token THEN "HIDDEN_TOKEN" ELSE "STABLE_INTEGER"]

\* vps_vtab_source_fingerprint
Fingerprinted(t) ==
    [t EXCEPT !.fingerprint = [revision |-> t.revision, wrapped |-> t.wrapped,
                               layout |-> t.layout, mixed |-> FALSE]]

\* vps_table_snapshot_build
SnapshotOf(t) ==
    [layout |-> t.layout, origin |-> t.origin, relation |-> t.relation, keys |-> t.keys,
     identity |-> t.identity, fingerprint |-> t.fingerprint]

\* vps_table_snapshot_hydrate
Hydrated(t, s) ==
    [t EXCEPT !.layout = s.layout, !.origin = s.origin, !.keys = s.keys,
              !.fingerprint = s.fingerprint]

\* vps_table_materialization_init and vps_declare_schema, the end of every connect.
Declared(t) ==
    [t EXCEPT !.fingerprint.mixed = Mixes,
              !.declared = [layout |-> t.layout, mode |-> t.mode, hidden |-> t.hidden]]

\* The tail connecting and validating share, from a described table to its snapshot.
Completed(t) == Fingerprinted(RowIdentity(SpatialIntegrated(t)))

-----------------------------------------------------------------------------
\* Callbacks.
Idle == call.op = "NONE" /\ scan = NULL

Returns(rc) == call' = NoCall /\ code' = rc
World == UNCHANGED <<server, identity, changes>>

\* Faulty: a failed connect leaves its table behind.
FailsLeavingTable(t, rc) == /\ Returns(rc) /\ table' = t
                            /\ UNCHANGED <<options, shadow, plan, scan, created>>

\* A callback that fails keeps the table only if it was connected before.
Fails(t, rc) == /\ Returns(rc)
                /\ table' = IF call.op = "FILTER" THEN t ELSE NULL
                /\ UNCHANGED <<options, shadow, plan, scan, created>>

Describes(op) == [op |-> op, step |-> "prepare", at |-> 1, alive |-> FALSE]

Create(o) ==
    /\ Idle /\ options = NULL /\ table = NULL
    /\ table' = NewTable(o) /\ call' = Describes("CREATE")
    /\ World /\ UNCHANGED <<options, shadow, plan, scan, code, created>>

Connect ==
    /\ Idle /\ options # NULL /\ table = NULL
    /\ table' = NewTable(options) /\ call' = Describes("CONNECT")
    /\ World /\ UNCHANGED <<options, shadow, plan, scan, code, created>>

\* vps_table_initialize_runtime fails: arguments, credentials, TLS, profile.  The error
\* object is still empty then, so no cached declaration is used.
Refused ==
    /\ Idle /\ table = NULL
    /\ code' \in {"ERROR", "AUTH"}
    /\ World /\ UNCHANGED <<options, shadow, table, call, plan, scan, created>>

Disconnect ==
    /\ Idle /\ table # NULL /\ changes < MaxChanges
    /\ table' = NULL /\ plan' = NULL /\ code' = "OK" /\ changes' = changes + 1
    /\ UNCHANGED <<server, identity, options, shadow, call, scan, created>>

\* DROP TABLE: xDestroy drops both shadow tables; SQLite removes the declaration.
Destroy ==
    /\ Idle /\ table # NULL
    /\ options' = NULL /\ shadow' = EmptyShadow /\ table' = NULL /\ plan' = NULL
    /\ created' = NULL /\ code' = "OK"
    /\ World /\ UNCHANGED <<call, scan>>

\* xBestIndex: a table with no described column has no plan (vps_plan_compile refuses it).
Prepare ==
    /\ Idle /\ table # NULL
    /\ IF table.layout = NULL THEN plan' = NULL /\ code' = "ERROR"
       ELSE plan' = table.fingerprint /\ code' = "OK"
    /\ World /\ UNCHANGED <<options, shadow, table, call, scan, created>>

\* The result fields of the scan query on the server now: check_metadata of the adapter
\* compares them with the expected ones.
Answers(t) ==
    /\ server.up
    /\ IF t.wrapped THEN server.layout = "shapes" /\ t.layout \in {"shapes", "rendered"}
       ELSE server.layout = t.layout

\* vps_module_filter once the declaration is valid: decode the plan, run the query.
Scans(t) ==
    /\ table' = t
    /\ call' = NoCall
    /\ IF plan # t.fingerprint THEN code' = "CORRUPT_VTAB" /\ scan' = NULL
       ELSE IF ~Answers(t) THEN code' = "ERROR" /\ scan' = NULL
       ELSE code' = "ROW" /\ scan' = SnapshotOf(t)
    /\ UNCHANGED <<options, shadow, plan, created>>

\* xFilter: vps_table_validate_cached_metadata comes first.
Filter ==
    /\ Idle /\ table # NULL /\ plan # NULL
    /\ IF ~table.fallback THEN Scans(table)
       ELSE IF ~Loads(shadow)
       THEN /\ code' = "CORRUPT"
            /\ UNCHANGED <<options, shadow, table, call, plan, scan, created>>
       ELSE /\ table' = DescriptionReset(table) /\ call' = Describes("FILTER")
            /\ UNCHANGED <<options, shadow, plan, scan, code, created>>
    /\ World

EndScan ==
    /\ scan # NULL
    /\ scan' = NULL /\ code' = "OK"
    /\ World /\ UNCHANGED <<options, shadow, table, call, plan, created>>

-----------------------------------------------------------------------------
\* vps_table_describe, statement by statement.
At(step) == call.step = step
Live == server.up /\ call.alive
Proceeds(t, step) ==
    /\ table' = t /\ call' = [call EXCEPT !.step = step, !.alive = TRUE]
    /\ World /\ UNCHANGED <<options, shadow, plan, scan, code, created>>

\* Connect and PREPARE the (perhaps already wrapped) scan query.
DescribeFields ==
    /\ At("prepare") /\ server.up
    /\ table.wrapped => server.layout = "shapes"
    /\ Proceeds([table EXCEPT !.layout = IF table.wrapped THEN "rendered" ELSE server.layout,
                              !.origin = server.oid],
                IF table.options.source = "table" THEN "relation" ELSE "spatial")

\* vps_table_metadata_load: the relation and its columns,
DescribeRelation ==
    /\ At("relation") /\ Live
    /\ Proceeds([table EXCEPT !.relation = server.oid], "keys")

\* and, asked by the relation's oid, its keys and its policy.
DescribeKeys ==
    /\ At("keys") /\ Live /\ server.oid = table.relation
    /\ Proceeds([table EXCEPT !.catalogKeys = server.keys], "spatial")

\* Faulty: the stored identity is not compared.
FallsBackAnywhere ==
    IF ~Loads(shadow) THEN Fails(table, "CORRUPT")
    ELSE IF ~PolicyBuilds(DescriptionReset(table)) THEN Fails(table, "ERROR")
    ELSE /\ table' = Declared([RowIdentity(Hydrated(DescriptionReset(table),
                                                    shadow.metadata))
                                 EXCEPT !.fallback = TRUE])
         /\ Returns("OK")
         /\ UNCHANGED <<options, shadow, plan, scan, created>>

\* vps_module_connect_common with a cached declaration.
FallsBack ==
    IF ~Loads(shadow) THEN Fails(table, "CORRUPT")
    ELSE IF shadow.metadata.identity # table.identity THEN Fails(table, "AUTH")
    ELSE IF ~PolicyBuilds(DescriptionReset(table)) THEN Fails(table, "ERROR")
    ELSE /\ table' = Declared([RowIdentity(Hydrated(DescriptionReset(table),
                                                    shadow.metadata))
                                 EXCEPT !.fallback = TRUE])
         /\ Returns("OK")
         /\ UNCHANGED <<options, shadow, plan, scan, created>>

FailedDescribe(class) ==
    IF call.op = "CONNECT" /\ table.options.cached /\ FallbackAllowed(class)
    THEN FallsBack
    ELSE Fails(table, "ERROR")

DescribeFails ==
    /\ \/ At("prepare") /\ ~server.up /\ FailedDescribe("CONNECTION")
       \/ At("prepare") /\ server.up /\ table.wrapped /\ server.layout # "shapes"
            /\ FailedDescribe("SERVER")
       \/ call.step \in {"relation", "keys", "spatial"} /\ ~Live
            /\ FailedDescribe("CONNECTION")
       \/ At("keys") /\ Live /\ server.oid # table.relation /\ FailedDescribe("NONE")
    /\ World

\* Faulty: a refresh takes every drift.
DecideRefreshingAll(drift, refresh) ==
    IF drift = "NONE" THEN "accept" ELSE IF refresh THEN "store" ELSE "refuse"

\* What a drift means under the table's schema policy.
Decide(drift, refresh) ==
    CASE drift = "NONE" -> "accept"
      [] drift = "REFRESHABLE" /\ refresh -> "store"
      [] OTHER -> "refuse"

Decision(t) == Decide(Drift(shadow.metadata, SnapshotOf(t)), t.options.refresh)

\* The rest of xCreate; its store is part of the statement's transaction.
Creates(t) ==
    /\ table' = Declared(t) /\ options' = t.options
    /\ shadow' = [schema |-> SnapshotOf(t), metadata |-> SnapshotOf(t)]
    /\ created' = SnapshotOf(t)
    /\ Returns("OK") /\ UNCHANGED <<plan, scan>>

Stores(t) == /\ table' = t
             /\ call' = [call EXCEPT !.step = "store"]
             /\ UNCHANGED <<options, shadow, plan, scan, code, created>>

\* The rest of xConnect.
Connects(t) ==
    IF ~Loads(shadow) THEN Fails(t, "CORRUPT")
    ELSE CASE Decision(t) = "refuse" -> Fails(t, "SCHEMA")
           [] Decision(t) = "store"  -> Stores(t)
           [] Decision(t) = "accept" ->
                /\ table' = Declared(t) /\ Returns("OK")
                /\ UNCHANGED <<options, shadow, plan, scan, created>>

\* The rest of the validation, and of xFilter when it succeeds.
Validates(t) ==
    CASE Decision(t) = "refuse" -> Fails(t, "SCHEMA")
      [] Decision(t) = "store"  -> Stores(t)
      [] Decision(t) = "accept" -> Scans([t EXCEPT !.fallback = FALSE])

\* The spatial capabilities end the describe; the callback goes on without the server.
DescribeSpatial ==
    /\ At("spatial") /\ Live
    /\ LET t == Completed(table)
       IN IF ~PolicyBuilds(t) THEN Fails(SpatialIntegrated(table), "ERROR")
          ELSE CASE call.op = "CREATE"  -> Creates(t)
                 [] call.op = "CONNECT" -> Connects(t)
                 [] call.op = "FILTER"  -> Validates(t)
    /\ World

\* vps_shadow_store outside xCreate: the callback returns after its last statement.
Store ==
    /\ At("store")
    /\ shadow' = StoreStep(shadow, call.at, SnapshotOf(table))
    /\ IF call.at < Len(StoreSteps)
       THEN call' = [call EXCEPT !.at = @ + 1] /\ UNCHANGED <<table, code>>
       ELSE IF call.op = "CONNECT" THEN table' = Declared(table) /\ Returns("OK")
       ELSE Returns("SCHEMA") /\ UNCHANGED table
    /\ World /\ UNCHANGED <<options, plan, scan, created>>

\* A statement of the store fails (busy, full): what was done stays.
StoreFails ==
    /\ At("store") /\ changes < MaxChanges
    /\ Fails(table, "ERROR") /\ changes' = changes + 1
    /\ UNCHANGED <<server, identity>>

-----------------------------------------------------------------------------
\* The world.
Changed == changes < MaxChanges /\ changes' = changes + 1
Locals == <<options, shadow, table, plan, scan, code, created>>

ServerDown ==
    /\ Changed /\ server.up /\ server' = [server EXCEPT !.up = FALSE]
    /\ call' = [call EXCEPT !.alive = FALSE]
    /\ UNCHANGED identity /\ UNCHANGED Locals

ServerUp ==
    /\ ~server.up /\ server' = [server EXCEPT !.up = TRUE]
    /\ UNCHANGED <<identity, call, changes>> /\ UNCHANGED Locals

\* Another client alters the relation, its key, or drops and recreates it.
Ddl ==
    /\ Changed
    /\ \/ \E l \in Layouts \ {server.layout} : server' = [server EXCEPT !.layout = l]
       \/ \E k \in 0..2 \ {server.keys} : server' = [server EXCEPT !.keys = k]
       \/ server.oid < MaxOid /\ server' = [server EXCEPT !.oid = @ + 1]
    /\ UNCHANGED <<identity, call>> /\ UNCHANGED Locals

\* The query profile gets a new revision.
Republish ==
    /\ Changed /\ server.revision < MaxRevision
    /\ server' = [server EXCEPT !.revision = @ + 1]
    /\ UNCHANGED <<identity, call>> /\ UNCHANGED Locals

\* The configuration names another server or role at the next connect.
Reconfigure ==
    /\ Changed /\ identity' = 3 - identity
    /\ UNCHANGED <<server, call>> /\ UNCHANGED Locals

\* The process stops; what SQLite committed stays.
Crash ==
    /\ Changed /\ (call.op # "NONE" \/ table # NULL)
    /\ table' = NULL /\ plan' = NULL /\ scan' = NULL /\ call' = NoCall /\ code' = "OK"
    /\ UNCHANGED <<server, identity, options, shadow, created>>

Step == DescribeFields \/ DescribeRelation \/ DescribeKeys \/ DescribeSpatial
            \/ DescribeFails \/ Store
Environment == ServerDown \/ ServerUp \/ Ddl \/ Republish \/ Reconfigure \/ Crash
                   \/ StoreFails
Next == \/ \E o \in Options : Create(o)
        \/ Connect \/ Refused \/ Disconnect \/ Destroy \/ Prepare \/ Filter \/ EndScan
        \/ Step
        \/ Environment

Spec == Init /\ [][Next]_vars

-----------------------------------------------------------------------------
\* Properties.

\* Types of the table, of the shadow rows and of the callback in progress.
TypeOK ==
    /\ server \in Servers /\ identity \in 1..2
    /\ options \in Options \cup {NULL}
    /\ shadow \in Shadows
    /\ table \in TableStates \cup {NULL}
    /\ call \in Calls
    /\ plan \in Fingerprints \cup {NULL}
    /\ scan \in Snapshots \cup {NULL}
    /\ code \in {"OK", "ROW", "ERROR", "AUTH", "SCHEMA", "CORRUPT", "CORRUPT_VTAB"}
    /\ changes \in 0..MaxChanges
    /\ created \in Snapshots \cup {NULL}

\* A scan serves rows of the columns SQLite was told about: whatever happened to the
\* catalog between describing, declaring, validating and running the query, rows are only
\* produced when the fields on the server are the declared ones.
RowsFitDeclaration ==
    scan # NULL => scan.layout = table.declared.layout

\* A scan is backed by the stored snapshot: the relation, fields, keys and connection it
\* uses are those of a loadable shadow snapshot, so a cached declaration never serves a row
\* before vps_table_validate_cached_metadata compared it with the live catalog, and the
\* description the validation rebuilds counts every key once.
ServedIsStored ==
    scan # NULL => /\ Loads(shadow)
                   /\ \A f \in {"layout", "origin", "relation", "keys", "identity"} :
                        scan[f] = shadow.metadata[f]

\* schema_policy=refresh rewrites the shadow tables only with a compatible snapshot: over
\* any number of refreshes, interrupted or not, what loads has the fields, relation, keys
\* and connection identity of the snapshot xCreate stored.
RefreshKeepsLayout ==
    options # NULL /\ Loads(shadow) =>
        \A f \in {"layout", "origin", "relation", "keys", "identity"} :
            shadow.metadata[f] = created[f]

\* metadata_mode=cached declares only what was captured under the same connection identity
\* and only for a table that asked for it.
FallbackIsOurs ==
    table # NULL /\ table.fallback =>
        /\ table.options.cached /\ ~table.options.rw
        /\ table.identity = created.identity
        /\ table.declared # NULL => table.declared.layout = created.layout

\* SQLite finishes a callback it started, and an application that wants rows connects,
\* prepares and runs its query.
FairSpec == Spec /\ WF_vars(Step) /\ WF_vars(Connect) /\ WF_vars(Prepare)
                 /\ WF_vars(Filter)

\* The server is up and holds what the shadow tables say.
Undrifted ==
    /\ options # NULL /\ server.up /\ Loads(shadow)
    /\ shadow.metadata.identity = identity
    /\ shadow.metadata.layout = server.layout
    /\ shadow.metadata.origin = server.oid
    /\ IF options.source = "query" THEN shadow.metadata.fingerprint.revision = server.revision
       ELSE shadow.metadata.keys = server.keys /\ shadow.metadata.relation = server.oid

\* Whatever failed before, a live-mode table is served again once the server is back and
\* agrees with the stored snapshot: no failed connect or scan leaves it unusable.
LiveTableServes ==
    <>[](Undrifted /\ ~options.cached) => []<>(scan # NULL)
=============================================================================
