---------------------------- MODULE TablesProofs ----------------------------
(***************************************************************************)
(* What Tables guarantees for any number of relations created under the    *)
(* table's name, of profile revisions and of changes of the world, with    *)
(* the process stopping between any two statements: what is stored, what a *)
(* cached declaration may promise and what a scan may serve.               *)
(***************************************************************************)
EXTENDS Tables, TLAPS

Compared == {"layout", "origin", "relation", "keys", "identity"}

\* Two snapshots agree in what vps_metadata_snapshot_compare calls incompatible.
Same(s, u) == \A f \in Compared : s[f] = u[f]

\* A description from which a snapshot can be built.
Whole(t) == /\ t.layout \in Described
            /\ t.origin \in 1..MaxOid

Describing == call.step \in {"prepare", "relation", "keys", "spatial"}
Connected == table # NULL /\ call.op = "NONE"

\* Snapshots are captured from descriptions that start without keys, so a stored one has
\* two keys at most; a table hydrated from it may add a key of its own.
KeysInv ==
    /\ shadow.schema # NULL => shadow.schema.keys \in 0..2
    /\ shadow.metadata # NULL => shadow.metadata.keys \in 0..2
    /\ call.op # "NONE" => table.keys \in 0..2
    /\ Describing => table.keys = 0
    /\ table # NULL => table.keys \in 0..3

\* A callback in progress has a table; only validations work on a cached declaration.
CallInv ==
    /\ call.op = "NONE" <=> call.step = "none"
    /\ call.op # "NONE" => table # NULL /\ scan = NULL
    /\ call.op \in {"CREATE", "CONNECT"} => ~table.fallback
    /\ call.op = "FILTER" => table.fallback
    /\ call.step \in {"relation", "keys", "spatial", "store"} => Whole(table)
    /\ call.step # "store" => call.at = 1
    /\ table # NULL /\ call.op # "CREATE" => options # NULL

\* A validation starts from rows that load, and only its store changes them.  A store was
\* decided on a compatible snapshot; from its first statement to its last the rows do not
\* load.
StoreInv ==
    /\ Describing /\ call.op = "FILTER" => Loads(shadow)
    /\ call.step = "store" =>
           /\ call.op \in {"CONNECT", "FILTER"}
           /\ table.fingerprint \in Fingerprints
           /\ Same(SnapshotOf(table), created)
           /\ call.at \in {2, 3} => shadow.schema = NULL
           /\ call.at \in {3, 4} => shadow.metadata = NULL
           /\ call.at = 4 => shadow.schema = SnapshotOf(table)

\* A connected table that does not live on a cached declaration is backed by rows that load
\* and is declared as described.
ServedInv ==
    /\ Connected /\ ~table.fallback =>
           /\ Whole(table)
           /\ table.fingerprint \in Fingerprints
           /\ table.declared.layout = table.layout
           /\ Loads(shadow)
           /\ Same(SnapshotOf(table), shadow.metadata)
    /\ scan # NULL => table # NULL /\ ~table.fallback /\ scan = SnapshotOf(table)

\* A table on a cached declaration: as FallbackIsOurs.
FallbackInv ==
    table # NULL /\ table.fallback =>
        /\ table.options.cached /\ ~table.options.rw
        /\ table.identity = created.identity
        /\ table.declared.layout = created.layout

\* The part of the invariant that the world outside the process cannot touch.
CoreInv == KeysInv /\ CallInv /\ StoreInv /\ ServedInv /\ FallbackInv /\ RefreshKeepsLayout

IInv == TypeOK /\ CoreInv

-----------------------------------------------------------------------------
(* What the operations on a table return *)

\* The rest of the table that describing leaves alone.
Rest(t) == <<t.options, t.identity, t.fallback, t.declared, t.revision>>

\* vps_table_initialize_runtime.
LEMMA NewTableType ==
    ASSUME TypeOK, NEW o \in Options
    PROVE  /\ NewTable(o) \in TableStates
           /\ NewTable(o).keys = 0 /\ ~NewTable(o).fallback
<1>1. identity \in 1..2 /\ server.revision \in 0..MaxRevision /\ MaxOid \in Nat /\ MaxRevision \in Nat
  BY MetadataAssumption DEF TypeOK, Servers
<1>2. NewTable(o).keys = 0 /\ ~NewTable(o).fallback
  BY DEF NewTable
<1>3. (IF o.source = "query" THEN server.revision ELSE 0) \in 0..MaxRevision
  BY <1>1
<1>4. NewTable(o) \in TableStates
  BY <1>1, <1>3 DEF NewTable, TableStates, Modes
<1> QED BY <1>2, <1>4

\* vps_table_description_reset.
LEMMA ResetType ==
    ASSUME NEW t \in TableStates
    PROVE  LET r == DescriptionReset(t)
           IN  /\ r \in TableStates
               /\ r.keys = 0 /\ r.relation = 0
               /\ Rest(r) = Rest(t) /\ r.fingerprint = t.fingerprint
<1>1. MaxOid \in Nat
  BY MetadataAssumption
<1> DEFINE r == DescriptionReset(t)
<1>2. r \in TableStates
  <2> DEFINE a == [t EXCEPT !.layout = NULL]
             b == [a EXCEPT !.origin = 0]
             c == [b EXCEPT !.relation = 0]
             d == [c EXCEPT !.catalogKeys = 0]
  <2>1. r = [d EXCEPT !.keys = 0]
    BY DEF DescriptionReset
  <2> HIDE DEF r
  <2>2. a \in TableStates
    BY DEF TableStates
  <2> HIDE DEF a
  <2>3. b \in TableStates
    BY <1>1, <2>2 DEF TableStates
  <2> HIDE DEF b
  <2>4. c \in TableStates
    BY <1>1, <2>3 DEF TableStates
  <2> HIDE DEF c
  <2>5. d \in TableStates
    BY <2>4 DEF TableStates
  <2> HIDE DEF d
  <2> QED BY <2>1, <2>5 DEF TableStates
<1>3. r.keys = 0 /\ r.relation = 0 /\ r.fingerprint = t.fingerprint
  BY DEF DescriptionReset, TableStates
<1>4. Rest(r) = Rest(t)
  BY DEF DescriptionReset, TableStates, Rest
<1> QED BY <1>2, <1>3, <1>4

\* vps_table_integrate_spatial.
LEMMA SpatialType ==
    ASSUME NEW t \in TableStates
    PROVE  LET r == SpatialIntegrated(t)
           IN  /\ r \in TableStates
               /\ r.layout = t.layout /\ r.origin = t.origin /\ r.relation = t.relation
               /\ r.keys = t.keys
               /\ Rest(r) = Rest(t) /\ r.fingerprint = t.fingerprint
BY DEF SpatialIntegrated, TableStates, Rest

\* vps_resolve_row_identity adds at most the keys of the catalog, or the one the options name.
LEMMA RowIdentityType ==
    ASSUME NEW t \in TableStates, t.keys \in 0..2, t.relation # 0 => t.keys = 0
    PROVE  LET r == RowIdentity(t)
           IN  /\ r \in TableStates
               /\ r.layout = t.layout /\ r.origin = t.origin /\ r.relation = t.relation
               /\ r.keys \in 0..3
               /\ t.keys = 0 => r.keys \in 0..2
               /\ Rest(r) = Rest(t) /\ r.fingerprint = t.fingerprint
<1> DEFINE added == IF t.relation # 0 THEN t.catalogKeys ELSE t.options.keys
           keys == t.keys + added
           token == keys # 1 \/ t.layout = "texts"
           r == RowIdentity(t)
<1>1. t.catalogKeys \in 0..2 /\ t.options.keys \in {0, 1}
  BY DEF TableStates, Options
<1>2. keys \in 0..3 /\ (t.keys = 0 => keys \in 0..2) /\ token \in BOOLEAN
  BY <1>1
<1>3. \/ r = [t EXCEPT !.mode = "SCAN_LOCAL"]
      \/ r = [t EXCEPT !.keys = keys, !.hidden = token,
                       !.mode = IF token THEN "HIDDEN_TOKEN" ELSE "STABLE_INTEGER"]
  BY DEF RowIdentity
<1> HIDE DEF added, keys, token, r
<1>4. CASE r = [t EXCEPT !.mode = "SCAN_LOCAL"]
  BY <1>4 DEF r, TableStates, Modes, Rest
<1>5. CASE r = [t EXCEPT !.keys = keys, !.hidden = token,
                         !.mode = IF token THEN "HIDDEN_TOKEN" ELSE "STABLE_INTEGER"]
  <2>1. r \in TableStates
    <3> DEFINE a == [t EXCEPT !.keys = keys]
               b == [a EXCEPT !.hidden = token]
    <3>1. r = [b EXCEPT !.mode = IF token THEN "HIDDEN_TOKEN" ELSE "STABLE_INTEGER"]
      BY <1>5
    <3>2. a \in TableStates
      BY <1>2 DEF TableStates
    <3> HIDE DEF a
    <3>3. b \in TableStates
      BY <1>2, <3>2 DEF TableStates
    <3> HIDE DEF b
    <3> QED BY <3>1, <3>3 DEF TableStates, Modes
  <2>2. /\ r.layout = t.layout /\ r.origin = t.origin /\ r.relation = t.relation
        /\ r.keys = keys /\ r.fingerprint = t.fingerprint
    BY <1>5 DEF TableStates
  <2>3. Rest(r) = Rest(t)
    BY <1>5 DEF TableStates, Rest
  <2> QED BY <1>2, <2>1, <2>2, <2>3 DEF r
<1> QED BY <1>3, <1>4, <1>5

\* vps_vtab_source_fingerprint.
LEMMA FingerprintedType ==
    ASSUME NEW t \in TableStates, t.layout \in Described
    PROVE  LET r == Fingerprinted(t)
           IN  /\ r \in TableStates
               /\ r.layout = t.layout /\ r.origin = t.origin /\ r.relation = t.relation
               /\ r.keys = t.keys
               /\ Rest(r) = Rest(t)
               /\ r.fingerprint \in Fingerprints
<1> DEFINE f == [revision |-> t.revision, wrapped |-> t.wrapped,
                 layout |-> t.layout, mixed |-> FALSE]
<1>1. f \in Fingerprints
  BY DEF TableStates, Fingerprints
<1>2. Fingerprinted(t) = [t EXCEPT !.fingerprint = f]
  BY DEF Fingerprinted
<1> HIDE DEF f
<1> QED BY <1>1, <1>2 DEF TableStates, Rest

\* The tail of every live describe.
LEMMA CompletedType ==
    ASSUME NEW t \in TableStates, t.keys = 0, Whole(t)
    PROVE  LET r == Completed(t)
           IN  /\ r \in TableStates
               /\ Whole(r) /\ r.keys \in 0..2
               /\ Rest(r) = Rest(t)
               /\ r.fingerprint \in Fingerprints
<1> DEFINE a == SpatialIntegrated(t)
           b == RowIdentity(a)
           r == Completed(t)
<1>1. /\ a \in TableStates /\ Whole(a) /\ a.keys = 0 /\ Rest(a) = Rest(t)
  BY SpatialType DEF Whole
<1>2. /\ b \in TableStates /\ Whole(b) /\ b.keys \in 0..2 /\ Rest(b) = Rest(t)
  <2> HIDE DEF a
  <2> QED BY <1>1, RowIdentityType DEF Whole
<1>3. r = Fingerprinted(b)
  BY DEF Completed
<1> HIDE DEF a, b
<1> QED BY <1>2, <1>3, FingerprintedType DEF Whole

\* vps_table_snapshot_build.
LEMMA SnapshotType ==
    ASSUME NEW t \in TableStates, Whole(t), t.fingerprint \in Fingerprints
    PROVE  /\ SnapshotOf(t) \in Snapshots /\ SnapshotOf(t) # NULL
           /\ SnapshotOf(t).keys = t.keys /\ SnapshotOf(t).layout = t.layout
           /\ SnapshotOf(t).identity = t.identity
<1>1. SnapshotOf(t) \in Snapshots
  BY DEF SnapshotOf, Snapshots, TableStates, Whole
<1>2. /\ SnapshotOf(t).keys = t.keys /\ SnapshotOf(t).layout = t.layout
      /\ SnapshotOf(t).identity = t.identity
  BY DEF SnapshotOf
<1> QED BY <1>1, <1>2, MetadataAssumption

\* vps_table_materialization_init and vps_declare_schema.
LEMMA DeclaredType ==
    ASSUME NEW t \in TableStates, t.layout \in Described, t.fingerprint \in Fingerprints
    PROVE  LET r == Declared(t)
           IN  /\ r \in TableStates
               /\ r.layout = t.layout /\ r.origin = t.origin /\ r.relation = t.relation
               /\ r.keys = t.keys /\ r.identity = t.identity /\ r.options = t.options
               /\ r.fallback = t.fallback
               /\ r.fingerprint \in Fingerprints
               /\ r.declared.layout = t.layout
<1> DEFINE f == [t.fingerprint EXCEPT !.mixed = Mixes]
           d == [layout |-> t.layout, mode |-> t.mode, hidden |-> t.hidden]
<1>1. f \in Fingerprints
  BY TablesAssumption DEF Fingerprints
<1>2. d \in [layout : Described, mode : Modes, hidden : BOOLEAN] /\ d.layout = t.layout
  BY DEF TableStates
<1>3. Declared(t) = [t EXCEPT !.fingerprint = f, !.declared = d]
  BY DEF Declared
<1> HIDE DEF f, d
<1> QED BY <1>1, <1>2, <1>3 DEF TableStates

\* vps_module_connect_common with a snapshot from the shadow tables.
LEMMA CachedType ==
    ASSUME NEW t \in TableStates, NEW s \in Snapshots, s.keys \in 0..2
    PROVE  LET r == Declared([RowIdentity(Hydrated(DescriptionReset(t), s))
                                EXCEPT !.fallback = TRUE])
           IN  /\ r \in TableStates
               /\ r.keys \in 0..3
               /\ r.options = t.options /\ r.identity = t.identity /\ r.fallback
               /\ r.declared.layout = s.layout
<1> DEFINE a == DescriptionReset(t)
           h == Hydrated(a, s)
           b == RowIdentity(h)
           c == [b EXCEPT !.fallback = TRUE]
<1>1. a \in TableStates /\ a.relation = 0 /\ Rest(a) = Rest(t)
  BY ResetType
<1>2. /\ s.layout \in Described /\ s.origin \in 0..MaxOid
      /\ s.fingerprint \in Fingerprints /\ s.keys \in 0..4
  BY MetadataAssumption DEF Snapshots
<1> HIDE DEF a
<1>3. /\ h \in TableStates /\ h.relation = 0 /\ h.layout = s.layout /\ h.keys = s.keys
      /\ h.fingerprint = s.fingerprint /\ Rest(h) = Rest(a)
  <2> DEFINE x == [a EXCEPT !.layout = s.layout]
             y == [x EXCEPT !.origin = s.origin]
             z == [y EXCEPT !.keys = s.keys]
  <2>1. h = [z EXCEPT !.fingerprint = s.fingerprint]
    BY DEF Hydrated
  <2> HIDE DEF h
  <2>2. x \in TableStates /\ x.relation = 0 /\ Rest(x) = Rest(a) /\ x.layout = s.layout
    BY <1>1, <1>2 DEF TableStates, Rest
  <2> HIDE DEF x
  <2>3. y \in TableStates /\ y.relation = 0 /\ Rest(y) = Rest(x) /\ y.layout = x.layout
    BY <1>2, <2>2 DEF TableStates, Rest
  <2> HIDE DEF y
  <2>4. /\ z \in TableStates /\ z.relation = 0 /\ Rest(z) = Rest(y) /\ z.layout = y.layout
        /\ z.keys = s.keys
    BY <1>2, <2>3 DEF TableStates, Rest
  <2> HIDE DEF z
  <2>5. /\ h \in TableStates /\ h.relation = 0 /\ Rest(h) = Rest(z) /\ h.layout = z.layout
        /\ h.keys = z.keys /\ h.fingerprint = s.fingerprint
    BY <1>2, <2>1, <2>4 DEF TableStates, Rest
  <2> QED BY <2>2, <2>3, <2>4, <2>5
<1> HIDE DEF h
<1>4. /\ b \in TableStates /\ b.keys \in 0..3 /\ b.layout = s.layout
      /\ b.fingerprint = s.fingerprint /\ Rest(b) = Rest(h)
  BY <1>3, RowIdentityType
<1> HIDE DEF b
<1>5. /\ c \in TableStates /\ c.keys \in 0..3 /\ c.layout = s.layout /\ c.fallback
      /\ c.fingerprint = s.fingerprint /\ c.options = b.options /\ c.identity = b.identity
  BY <1>4 DEF TableStates
<1> HIDE DEF c
<1>6. b.options = t.options /\ b.identity = t.identity
  BY <1>1, <1>3, <1>4 DEF Rest
<1>7. LET r == Declared(c)
      IN  /\ r \in TableStates /\ r.keys = c.keys /\ r.options = c.options
          /\ r.identity = c.identity /\ r.fallback = c.fallback
          /\ r.declared.layout = c.layout
  BY <1>2, <1>5, DeclaredType
<1>8. Declared(c) = Declared([RowIdentity(Hydrated(DescriptionReset(t), s))
                                EXCEPT !.fallback = TRUE])
  BY DEF a, h, b, c
<1> QED BY <1>5, <1>6, <1>7, <1>8

-----------------------------------------------------------------------------
(* How the callbacks end *)

\* The core reads six variables only, and of the call not whether its connection lives.
LEMMA CoreKept ==
    ASSUME CoreInv, UNCHANGED <<options, shadow, table, created>>,
           call'.op = call.op, call'.step = call.step, call'.at = call.at,
           scan' = scan \/ scan' = NULL
    PROVE  CoreInv'
<1>1. KeysInv' /\ CallInv'
  BY DEF CoreInv, KeysInv, CallInv, Describing, Whole
<1>2. StoreInv'
  BY DEF CoreInv, StoreInv, Describing, Loads, Same, SnapshotOf
<1>3. ServedInv'
  BY DEF CoreInv, ServedInv, Connected, Whole, Loads, Same, SnapshotOf
<1>4. FallbackInv' /\ RefreshKeepsLayout'
  BY DEF CoreInv, FallbackInv, RefreshKeepsLayout, Loads
<1> QED BY <1>1, <1>2, <1>3, <1>4 DEF CoreInv

\* A callback that fails: a table that was not connected before is gone, a validated one is
\* still on its cached declaration.
LEMMA FailsInv ==
    ASSUME IInv, call.op # "NONE", NEW t \in TableStates, t.keys \in 0..3,
           Rest(t) = Rest(table), NEW rc, Fails(t, rc)
    PROVE  CoreInv' /\ table' \in TableStates \cup {NULL}
<1>1. /\ CoreInv /\ table' = IF call.op = "FILTER" THEN t ELSE NULL
      /\ UNCHANGED <<options, shadow, scan, created>>
      /\ call' = NoCall
  BY DEF IInv, Fails, Returns
<1>2. call'.op = "NONE" /\ call'.step = "none" /\ call'.at = 1
  BY <1>1 DEF NoCall
<1>3. scan = NULL /\ table # NULL
  BY <1>1 DEF CoreInv, CallInv
<1>4. /\ t.options = table.options /\ t.identity = table.identity
      /\ t.fallback = table.fallback /\ t.declared = table.declared
  BY DEF Rest
<1>5. call.op = "FILTER" => table.fallback /\ options # NULL
  BY <1>1, <1>3 DEF CoreInv, CallInv
<1>6. KeysInv'
  BY <1>1, <1>2 DEF CoreInv, KeysInv, Describing
<1>7. CallInv'
  BY <1>1, <1>2, <1>3, <1>5 DEF CallInv
<1>8. StoreInv'
  BY <1>2 DEF StoreInv, Describing
<1>9. ServedInv'
  BY <1>1, <1>3, <1>4, <1>5 DEF ServedInv, Connected
<1>10. FallbackInv'
  BY <1>1, <1>3, <1>4 DEF CoreInv, FallbackInv
<1>11. RefreshKeepsLayout'
  BY <1>1 DEF CoreInv, RefreshKeepsLayout, Loads
<1> QED BY <1>1, <1>6, <1>7, <1>8, <1>9, <1>10, <1>11 DEF CoreInv

\* What the comparison of a table's snapshot with another says, field by field.
LEMMA SameFields ==
    ASSUME NEW t, NEW u
    PROVE  Same(SnapshotOf(t), u) <=>
               /\ t.layout = u.layout /\ t.origin = u.origin /\ t.relation = u.relation
               /\ t.keys = u.keys /\ t.identity = u.identity
BY DEF Same, SnapshotOf, Compared

\* A description that is accepted or stored agrees with the stored snapshot.
LEMMA AgreedIsSame ==
    ASSUME NEW t, Decision(t) \in {"accept", "store"}
    PROVE  Same(SnapshotOf(t), shadow.metadata)
<1>1. Drift(shadow.metadata, SnapshotOf(t)) # "INCOMPATIBLE"
  BY DEF Decision, Decide
<1> QED BY <1>1 DEF Drift, Same, Compared

\* A callback that succeeds and declares the live description t to SQLite.
LEMMA DeclaresInv ==
    ASSUME NEW t \in TableStates, Whole(t), t.fingerprint \in Fingerprints,
           t.keys \in 0..2, ~t.fallback,
           table' = Declared(t), call' = NoCall, scan' = NULL, options' # NULL,
           Loads(shadow)', Same(SnapshotOf(t), shadow.metadata'),
           RefreshKeepsLayout',
           shadow'.schema.keys \in 0..2, shadow'.metadata.keys \in 0..2
    PROVE  CoreInv' /\ table' \in TableStates
<1>1. /\ table' \in TableStates /\ ~table'.fallback /\ table'.keys = t.keys
      /\ table'.layout = t.layout /\ table'.origin = t.origin
      /\ table'.relation = t.relation /\ table'.identity = t.identity
      /\ table'.fingerprint \in Fingerprints
      /\ table'.declared.layout = table'.layout
  BY DeclaredType DEF Whole
<1>2. call'.op = "NONE" /\ call'.step = "none" /\ call'.at = 1
  BY DEF NoCall
<1>3. KeysInv'
  BY <1>1, <1>2 DEF KeysInv, Describing
<1>4. CallInv' /\ StoreInv'
  BY <1>2 DEF CallInv, StoreInv, Describing
<1>5. ServedInv'
  <2>1. Whole(table)'
    BY <1>1 DEF Whole
  <2>2. Same(SnapshotOf(table), shadow.metadata)'
    BY <1>1, SameFields
  <2> QED BY <1>1, <2>1, <2>2 DEF ServedInv
<1>6. FallbackInv'
  BY <1>1 DEF FallbackInv
<1> QED BY <1>1, <1>3, <1>4, <1>5, <1>6 DEF CoreInv

\* The end of xFilter: the scan starts on a table that is backed, or does not start.
LEMMA ScansInv ==
    ASSUME IInv, scan = NULL, options # NULL, NEW t \in TableStates, t.keys \in 0..3,
           ~t.fallback, Whole(t), t.fingerprint \in Fingerprints,
           t.declared.layout = t.layout,
           Loads(shadow), Same(SnapshotOf(t), shadow.metadata), Scans(t)
    PROVE  /\ CoreInv' /\ table' \in TableStates /\ scan' \in Snapshots \cup {NULL}
           /\ code' \in {"CORRUPT_VTAB", "ERROR", "ROW"}
<1>1. /\ CoreInv /\ table' = t /\ call' = NoCall
      /\ UNCHANGED <<options, shadow, created>>
      /\ scan' \in {NULL, SnapshotOf(t)}
      /\ code' \in {"CORRUPT_VTAB", "ERROR", "ROW"}
  BY DEF IInv, Scans
<1>2. call'.op = "NONE" /\ call'.step = "none" /\ call'.at = 1
  BY <1>1 DEF NoCall
<1>3. KeysInv'
  BY <1>1, <1>2 DEF CoreInv, KeysInv, Describing
<1>4. CallInv' /\ StoreInv'
  BY <1>1, <1>2 DEF CallInv, StoreInv, Describing
<1>5. ServedInv'
  <2>1. Whole(table)' /\ Loads(shadow)' /\ Same(SnapshotOf(table), shadow.metadata)'
    BY <1>1 DEF Whole, Loads
  <2>2. scan' # NULL => scan' = SnapshotOf(table)' /\ table' # NULL
    BY <1>1, TablesAssumption
  <2> QED BY <1>1, <2>1, <2>2 DEF ServedInv
<1>6. FallbackInv' /\ RefreshKeepsLayout'
  BY <1>1 DEF CoreInv, FallbackInv, RefreshKeepsLayout, Loads
<1>7. scan' \in Snapshots \cup {NULL}
  BY <1>1, SnapshotType
<1> QED BY <1>1, <1>3, <1>4, <1>5, <1>6, <1>7 DEF CoreInv

\* A refresh is decided.
LEMMA StoresInv ==
    ASSUME IInv, call.op \in {"CONNECT", "FILTER"}, call.step = "spatial",
           NEW t \in TableStates, t.keys \in 0..2,
           Rest(t) = Rest(table), Whole(t), t.fingerprint \in Fingerprints,
           Loads(shadow), Same(SnapshotOf(t), shadow.metadata), Stores(t)
    PROVE  CoreInv'
<1>1. /\ CoreInv /\ table' = t
      /\ UNCHANGED <<options, shadow, scan, created>>
      /\ call' = [call EXCEPT !.step = "store"]
  BY DEF IInv, Stores
<1>2. call'.op = call.op /\ call'.step = "store" /\ call'.at = 1
  <2>1. call \in Calls /\ call.at = 1
    BY <1>1 DEF IInv, TypeOK, CoreInv, CallInv
  <2> QED BY <1>1, <2>1 DEF Calls
<1>3. /\ t.options = table.options /\ t.identity = table.identity
      /\ t.fallback = table.fallback /\ t.declared = table.declared
  BY DEF Rest
<1>4. table # NULL /\ scan = NULL /\ options # NULL
  BY <1>1 DEF CoreInv, CallInv
<1>5. Same(SnapshotOf(t), created)
  <2>1. \A f \in Compared : shadow.metadata[f] = created[f]
    BY <1>1, <1>4 DEF CoreInv, RefreshKeepsLayout, Compared
  <2> QED BY <2>1 DEF Same
<1>6. KeysInv'
  BY <1>1, <1>2 DEF CoreInv, KeysInv, Describing
<1>7. CallInv'
  BY <1>1, <1>2, <1>3, <1>4, TablesAssumption DEF CoreInv, CallInv, Whole
<1>8. StoreInv'
  <2>1. Same(SnapshotOf(table), created)'
    BY <1>1, <1>5
  <2> QED BY <1>1, <1>2, <2>1 DEF StoreInv, Describing
<1>9. ServedInv'
  BY <1>1, <1>2, <1>4 DEF ServedInv, Connected
<1>10. FallbackInv' /\ RefreshKeepsLayout'
  BY <1>1, <1>3, <1>4 DEF CoreInv, FallbackInv, RefreshKeepsLayout, Loads
<1> QED BY <1>6, <1>7, <1>8, <1>9, <1>10 DEF CoreInv

\* A connect that the server does not answer takes the stored snapshot, or fails.
LEMMA FallsBackInv ==
    ASSUME IInv, call.op = "CONNECT", table.options.cached, FallsBack
    PROVE  CoreInv' /\ table' \in TableStates \cup {NULL}
<1>1. /\ CoreInv /\ table # NULL /\ options # NULL /\ scan = NULL
      /\ table \in TableStates /\ shadow \in Shadows /\ table.keys \in 0..3
  BY DEF IInv, TypeOK, CoreInv, CallInv, KeysInv
<1>2. ASSUME NEW rc, Fails(table, rc)
      PROVE  CoreInv' /\ table' \in TableStates \cup {NULL}
  BY <1>1, <1>2, FailsInv
<1> DEFINE m == shadow.metadata
           t == Declared([RowIdentity(Hydrated(DescriptionReset(table), m))
                            EXCEPT !.fallback = TRUE])
<1>3. CASE /\ Loads(shadow) /\ m.identity = table.identity
           /\ PolicyBuilds(DescriptionReset(table))
           /\ table' = t /\ call' = NoCall
           /\ UNCHANGED <<options, shadow, scan, created>>
  <2>1. m # NULL
    BY <1>3 DEF Loads
  <2>2. m \in Snapshots /\ m.keys \in 0..2
    BY <1>1, <2>1 DEF Shadows, CoreInv, KeysInv
  <2>3. /\ t \in TableStates /\ t.keys \in 0..3
        /\ t.options = table.options /\ t.identity = table.identity /\ t.fallback
        /\ t.declared.layout = m.layout
    <3> HIDE DEF m
    <3> QED BY <1>1, <2>2, CachedType
  <2>4. ~table.options.rw
    <3> DEFINE d == DescriptionReset(table)
    <3>1. d.relation = 0 /\ d.options = table.options
      BY <1>1, ResetType DEF Rest
    <3> HIDE DEF d
    <3>2. PolicyBuilds(d)
      BY <1>3 DEF d
    <3>3. table.options.rw \in BOOLEAN
      BY <1>1 DEF TableStates, Options
    <3> QED BY <3>1, <3>2, <3>3 DEF PolicyBuilds
  <2>5. m.layout = created.layout /\ m.identity = created.identity
    BY <1>1, <1>3 DEF CoreInv, RefreshKeepsLayout
  <2> HIDE DEF t, m
  <2>6. call'.op = "NONE" /\ call'.step = "none" /\ call'.at = 1
    BY <1>3 DEF NoCall
  <2>7. KeysInv'
    BY <1>1, <1>3, <2>3, <2>6 DEF CoreInv, KeysInv, Describing
  <2>8. CallInv' /\ StoreInv'
    BY <1>1, <1>3, <2>6 DEF CallInv, StoreInv, Describing
  <2>9. ServedInv'
    BY <1>1, <1>3, <2>3 DEF ServedInv
  <2>10. FallbackInv'
    BY <1>3, <2>3, <2>4, <2>5 DEF FallbackInv
  <2>11. RefreshKeepsLayout'
    BY <1>1, <1>3 DEF CoreInv, RefreshKeepsLayout, Loads
  <2> QED BY <1>3, <2>3, <2>7, <2>8, <2>9, <2>10, <2>11 DEF CoreInv
<1> QED BY <1>2, <1>3 DEF FallsBack, Returns

-----------------------------------------------------------------------------
(* One lemma per step *)

\* Types of the variables that are not the table's own.
Outside ==
    /\ server \in Servers /\ identity \in 1..2
    /\ options \in Options \cup {NULL}
    /\ shadow \in Shadows
    /\ call \in Calls
    /\ plan \in Fingerprints \cup {NULL}
    /\ code \in {"OK", "ROW", "ERROR", "AUTH", "SCHEMA", "CORRUPT", "CORRUPT_VTAB"}
    /\ changes \in 0..MaxChanges
    /\ created \in Snapshots \cup {NULL}

\* What the type invariant says of them, and the calls that begin and end a callback.
LEMMA TypeHalves ==
    /\ TypeOK => Outside
    /\ NoCall \in Calls
    /\ \A op \in {"CREATE", "CONNECT", "FILTER"} : Describes(op) \in Calls
BY DEF TypeOK, Outside, NoCall, Calls, Describes

\* xCreate and xConnect start.
LEMMA StartInv ==
    ASSUME IInv, (\E o \in Options : Create(o)) \/ Connect
    PROVE  IInv'
<1>1. /\ CoreInv /\ TypeOK /\ Outside /\ scan = NULL /\ call.op = "NONE"
      /\ UNCHANGED <<server, identity, changes, options, shadow, plan, scan, code, created>>
  BY TypeHalves DEF IInv, Create, Connect, Idle, World
<1>2. PICK o \in Options, op \in {"CREATE", "CONNECT"} :
          /\ table' = NewTable(o) /\ call' = Describes(op)
          /\ op = "CONNECT" => options # NULL
  BY <1>1 DEF Create, Connect, Outside
<1>3. /\ table' \in TableStates /\ table'.keys = 0 /\ ~table'.fallback /\ table' # NULL
  BY <1>1, <1>2, NewTableType, TablesAssumption
<1>4. /\ call'.op = op /\ call'.step = "prepare" /\ call'.at = 1 /\ call' \in Calls
  BY <1>2, TypeHalves DEF Describes
<1>5. KeysInv'
  BY <1>1, <1>3, <1>4 DEF CoreInv, KeysInv
<1>6. CallInv' /\ StoreInv'
  BY <1>1, <1>2, <1>3, <1>4 DEF CallInv, StoreInv
<1>7. ServedInv' /\ FallbackInv'
  BY <1>1, <1>3, <1>4 DEF ServedInv, FallbackInv, Connected
<1>8. RefreshKeepsLayout'
  BY <1>1 DEF CoreInv, RefreshKeepsLayout, Loads
<1>9. TypeOK'
  <2>1. Outside'
    BY <1>1, <1>4 DEF Outside
  <2> QED BY <1>1, <1>3, <2>1 DEF TypeOK, Outside
<1> QED BY <1>5, <1>6, <1>7, <1>8, <1>9 DEF IInv, CoreInv

\* xDisconnect, xDestroy and the end of the process leave no table.
LEMMA GoneInv ==
    ASSUME IInv, Disconnect \/ Destroy \/ Crash
    PROVE  IInv'
<1>1. CoreInv /\ TypeOK /\ Outside
  BY TypeHalves DEF IInv
<1>2. /\ table' = NULL /\ plan' = NULL /\ scan' = NULL /\ code' = "OK"
      /\ call'.op = "NONE" /\ call'.step = "none" /\ call'.at = 1 /\ call' \in Calls
  <2>1. CASE Disconnect \/ Destroy
    <3>1. /\ table' = NULL /\ plan' = NULL /\ scan' = NULL /\ code' = "OK"
          /\ call' = call /\ call.op = "NONE"
      BY <2>1 DEF Disconnect, Destroy, Idle
    <3>2. call.step = "none" /\ call.at = 1 /\ call \in Calls
      BY <1>1, <3>1 DEF CoreInv, CallInv, Outside
    <3> QED BY <3>1, <3>2
  <2>2. CASE Crash
    BY <2>2, TypeHalves DEF Crash, NoCall
  <2> QED BY <2>1, <2>2
<1>3. /\ UNCHANGED <<server, identity>>
      /\ changes' \in 0..MaxChanges
      /\ \/ UNCHANGED <<options, shadow, created>>
         \/ options' = NULL /\ shadow' = EmptyShadow /\ created' = NULL
  BY <1>1, TablesAssumption DEF Disconnect, Destroy, Crash, World, Changed, Outside
<1>4. EmptyShadow \in Shadows /\ EmptyShadow.schema = NULL /\ EmptyShadow.metadata = NULL
  BY DEF EmptyShadow, Shadows
<1>5. KeysInv' /\ RefreshKeepsLayout'
  <2>1. CASE UNCHANGED <<options, shadow, created>>
    BY <1>1, <1>2, <2>1 DEF CoreInv, KeysInv, RefreshKeepsLayout, Loads, Describing
  <2>2. CASE options' = NULL /\ shadow' = EmptyShadow
    BY <1>2, <1>4, <2>2 DEF KeysInv, RefreshKeepsLayout, Describing
  <2> QED BY <1>3, <2>1, <2>2
<1>6. CallInv' /\ StoreInv' /\ ServedInv' /\ FallbackInv'
  BY <1>2 DEF CallInv, StoreInv, ServedInv, FallbackInv, Describing, Connected
<1>7. TypeOK'
  <2>1. Outside'
    BY <1>1, <1>2, <1>3, <1>4 DEF Outside
  <2> QED BY <1>2, <2>1 DEF TypeOK, Outside
<1> QED BY <1>5, <1>6, <1>7 DEF IInv, CoreInv

\* Callbacks and events that touch neither the table nor what is stored.
LEMMA QuietInv ==
    ASSUME IInv,
           \/ Refused \/ Prepare \/ EndScan
           \/ ServerDown \/ ServerUp \/ Ddl \/ Republish \/ Reconfigure
    PROVE  IInv'
<1>1. /\ CoreInv /\ Outside
      /\ table \in TableStates \cup {NULL} /\ scan \in Snapshots \cup {NULL}
  BY TypeHalves DEF IInv, TypeOK
<1>2. /\ UNCHANGED <<options, shadow, table, created>>
      /\ scan' = scan \/ scan' = NULL
  BY DEF Refused, Prepare, EndScan, ServerDown, ServerUp, Ddl, Republish, Reconfigure, Locals
<1>3. /\ call'.op = call.op /\ call'.step = call.step /\ call'.at = call.at
      /\ call' \in Calls
  <2>1. CASE call' = call
    BY <1>1, <2>1 DEF Outside
  <2>2. CASE call' = [call EXCEPT !.alive = FALSE]
    BY <1>1, <2>2 DEF Outside, Calls
  <2> QED BY <2>1, <2>2 DEF Refused, Prepare, EndScan, ServerDown, ServerUp, Ddl,
                            Republish, Reconfigure
<1>4. CoreInv'
  BY <1>1, <1>2, <1>3, CoreKept
<1>5. server' \in Servers /\ identity' \in 1..2
  <2>1. server \in Servers /\ identity \in 1..2 /\ MaxOid \in Nat /\ MaxRevision \in Nat
    BY <1>1, MetadataAssumption DEF Outside
  <2>2. CASE Refused \/ Prepare \/ EndScan
    BY <2>1, <2>2 DEF Refused, Prepare, EndScan, World
  <2>3. CASE ServerDown
    BY <2>1, <2>3 DEF ServerDown, Servers
  <2>4. CASE ServerUp
    BY <2>1, <2>4 DEF ServerUp, Servers
  <2>5. CASE Reconfigure
    BY <2>1, <2>5 DEF Reconfigure
  <2>6. CASE Republish
    BY <2>1, <2>6 DEF Republish, Servers
  <2>7. CASE Ddl
    <3>1. ASSUME NEW l \in Layouts, server' = [server EXCEPT !.layout = l]
          PROVE  server' \in Servers
      BY <2>1, <3>1 DEF Servers
    <3>2. ASSUME NEW k \in 0..2, server' = [server EXCEPT !.keys = k]
          PROVE  server' \in Servers
      BY <2>1, <3>2 DEF Servers
    <3>3. ASSUME server.oid < MaxOid, server' = [server EXCEPT !.oid = server.oid + 1]
          PROVE  server' \in Servers
      <4>1. server.oid + 1 \in 1..MaxOid
        BY <2>1, <3>3 DEF Servers
      <4> QED BY <2>1, <3>3, <4>1 DEF Servers
    <3> QED BY <2>1, <2>7, <3>1, <3>2, <3>3 DEF Ddl
  <2> QED BY <2>2, <2>3, <2>4, <2>5, <2>6, <2>7
<1>6. changes' \in 0..MaxChanges
  BY <1>1, TablesAssumption DEF Outside, Refused, Prepare, EndScan, ServerDown, ServerUp, Ddl,
        Republish, Reconfigure, Changed, World
<1>7. plan' \in Fingerprints \cup {NULL}
  <2>1. CASE Prepare
    BY <1>1, <2>1 DEF Prepare, TableStates
  <2>2. CASE plan' = plan
    BY <1>1, <2>2 DEF Outside
  <2> QED BY <2>1, <2>2 DEF Refused, EndScan, ServerDown, ServerUp, Ddl, Republish,
                            Reconfigure, Locals
<1>8. code' \in {"OK", "ROW", "ERROR", "AUTH", "SCHEMA", "CORRUPT", "CORRUPT_VTAB"}
  BY <1>1 DEF Outside, Refused, Prepare, EndScan, ServerDown, ServerUp, Ddl, Republish,
        Reconfigure, Locals
<1>9. TypeOK'
  BY <1>1, <1>2, <1>3, <1>5, <1>6, <1>7, <1>8 DEF TypeOK, Outside
<1> QED BY <1>4, <1>9 DEF IInv

\* vps_module_filter: straight to the scan, or to the validation of a cached declaration.
LEMMA FilterInv ==
    ASSUME IInv, Filter
    PROVE  IInv'
<1>1. /\ CoreInv /\ Outside /\ World /\ scan = NULL /\ call.op = "NONE"
      /\ table # NULL /\ table \in TableStates /\ options # NULL
  BY TypeHalves DEF IInv, TypeOK, Filter, Idle, CoreInv, CallInv
<1>2. CASE ~table.fallback /\ Scans(table)
  <2>1. /\ Whole(table) /\ table.fingerprint \in Fingerprints /\ table.keys \in 0..3
        /\ table.declared.layout = table.layout
        /\ Loads(shadow) /\ Same(SnapshotOf(table), shadow.metadata)
    BY <1>1, <1>2 DEF CoreInv, ServedInv, Connected, KeysInv
  <2>2. /\ CoreInv' /\ table' \in TableStates /\ scan' \in Snapshots \cup {NULL}
        /\ code' \in {"CORRUPT_VTAB", "ERROR", "ROW"}
    BY <1>1, <1>2, <2>1, ScansInv
  <2>3. call' \in Calls /\ UNCHANGED <<options, shadow, plan, created>>
    BY <1>2, TypeHalves DEF Scans
  <2>4. TypeOK'
    BY <1>1, <2>2, <2>3 DEF TypeOK, Outside, World
  <2> QED BY <2>2, <2>4 DEF IInv
<1>3. CASE /\ code' = "CORRUPT"
           /\ UNCHANGED <<options, shadow, table, call, plan, scan, created>>
  <2>1. CoreInv'
    BY <1>1, <1>3, CoreKept
  <2>2. TypeOK'
    BY <1>1, <1>3 DEF TypeOK, Outside, World
  <2> QED BY <2>1, <2>2 DEF IInv
<1>4. CASE /\ table.fallback /\ Loads(shadow)
           /\ table' = DescriptionReset(table) /\ call' = Describes("FILTER")
           /\ UNCHANGED <<options, shadow, plan, scan, code, created>>
  <2>1. /\ table' \in TableStates /\ table'.keys = 0 /\ Rest(table') = Rest(table)
    BY <1>1, <1>4, ResetType
  <2>2. /\ table'.options = table.options /\ table'.identity = table.identity
        /\ table'.fallback = table.fallback /\ table'.declared = table.declared
        /\ table' # NULL
    BY <2>1, TablesAssumption DEF Rest
  <2>3. /\ call'.op = "FILTER" /\ call'.step = "prepare" /\ call'.at = 1 /\ call' \in Calls
    BY <1>4, TypeHalves DEF Describes
  <2>4. KeysInv'
    BY <1>1, <1>4, <2>1, <2>3 DEF CoreInv, KeysInv
  <2>5. CallInv'
    BY <1>1, <1>4, <2>2, <2>3 DEF CallInv
  <2>6. StoreInv'
    BY <1>4, <2>3 DEF StoreInv, Loads
  <2>7. ServedInv'
    BY <1>1, <1>4, <2>3 DEF ServedInv, Connected
  <2>8. FallbackInv' /\ RefreshKeepsLayout'
    BY <1>1, <1>4, <2>2 DEF CoreInv, FallbackInv, RefreshKeepsLayout, Loads
  <2>9. TypeOK'
    BY <1>1, <1>4, <2>1, <2>3 DEF TypeOK, Outside, World
  <2> QED BY <2>4, <2>5, <2>6, <2>7, <2>8, <2>9 DEF IInv, CoreInv
<1>5. table.fallback \in BOOLEAN
  BY <1>1 DEF TableStates
<1> QED BY <1>2, <1>3, <1>4, <1>5 DEF Filter

\* A statement of the describe succeeds.
LEMMA ProceedsInv ==
    ASSUME IInv, Describing, NEW t \in TableStates, t.keys = 0, Rest(t) = Rest(table),
           Whole(t), NEW step \in {"relation", "keys", "spatial"}, Proceeds(t, step)
    PROVE  IInv'
<1>1. /\ CoreInv /\ Outside /\ World /\ table' = t
      /\ call' = [call EXCEPT !.step = step, !.alive = TRUE]
      /\ UNCHANGED <<options, shadow, plan, scan, code, created>>
  BY TypeHalves DEF IInv, Proceeds
<1>2. /\ call'.op = call.op /\ call'.step = step /\ call'.at = call.at /\ call' \in Calls
  <2>1. call \in Calls
    BY <1>1 DEF Outside
  <2> QED BY <1>1, <2>1 DEF Calls
<1>3. call.op # "NONE" /\ call.step # "store" /\ call.step # "none"
  BY <1>1 DEF CoreInv, CallInv, Describing
<1>4. /\ t.options = table.options /\ t.identity = table.identity
      /\ t.fallback = table.fallback /\ t.declared = table.declared /\ t # NULL
  BY TablesAssumption DEF Rest
<1>5. KeysInv'
  BY <1>1, <1>2 DEF CoreInv, KeysInv
<1>6. CallInv'
  <2>1. Whole(table)'
    BY <1>1 DEF Whole
  <2> QED BY <1>1, <1>2, <1>3, <1>4, <2>1 DEF CoreInv, CallInv
<1>7. StoreInv'
  BY <1>1, <1>2 DEF CoreInv, StoreInv, Loads, Describing
<1>8. ServedInv'
  <2>1. scan' = NULL
    BY <1>1, <1>3 DEF CoreInv, CallInv
  <2> QED BY <1>2, <1>3, <2>1 DEF ServedInv, Connected
<1>9. FallbackInv' /\ RefreshKeepsLayout'
  <2>1. table # NULL
    BY <1>1, <1>3 DEF CoreInv, CallInv
  <2> QED BY <1>1, <1>4, <2>1 DEF CoreInv, FallbackInv, RefreshKeepsLayout, Loads
<1>10. TypeOK'
  BY <1>1, <1>2 DEF TypeOK, Outside, World, IInv
<1> QED BY <1>5, <1>6, <1>7, <1>8, <1>9, <1>10 DEF IInv, CoreInv

\* vps_table_describe up to the keys.
LEMMA DescribeInv ==
    ASSUME IInv, DescribeFields \/ DescribeRelation \/ DescribeKeys
    PROVE  IInv'
<1>1. /\ CoreInv /\ server \in Servers /\ MaxOid \in Nat
      /\ call.step \in {"prepare", "relation", "keys"}
  BY MetadataAssumption DEF IInv, TypeOK, DescribeFields, DescribeRelation, DescribeKeys, At
<1>2. /\ Describing /\ table # NULL /\ table \in TableStates /\ table.keys = 0
  BY <1>1 DEF IInv, TypeOK, CoreInv, CallInv, KeysInv, Describing
<1>3. /\ server.layout \in Described /\ server.oid \in 1..MaxOid /\ server.oid \in 0..MaxOid
      /\ server.keys \in 0..2
  BY <1>1 DEF Servers, Described
<1>4. CASE DescribeFields
  <2> DEFINE l == IF table.wrapped THEN "rendered" ELSE server.layout
             a == [table EXCEPT !.layout = l]
             t == [a EXCEPT !.origin = server.oid]
             step == IF table.options.source = "table" THEN "relation" ELSE "spatial"
  <2>1. l \in Described /\ step \in {"relation", "keys", "spatial"}
    BY <1>3 DEF Described
  <2>2. Proceeds(t, step)
    BY <1>4 DEF DescribeFields
  <2> HIDE DEF l, step
  <2>3. a \in TableStates /\ a.keys = 0 /\ Rest(a) = Rest(table) /\ a.layout = l
    BY <1>2, <2>1 DEF TableStates, Rest
  <2> HIDE DEF a
  <2>4. /\ t \in TableStates /\ t.keys = 0 /\ Rest(t) = Rest(a)
        /\ t.layout = l /\ t.origin = server.oid
    BY <1>3, <2>3 DEF TableStates, Rest
  <2> HIDE DEF t
  <2>5. Whole(t) /\ Rest(t) = Rest(table)
    BY <1>3, <2>1, <2>3, <2>4 DEF Whole
  <2> QED BY <1>2, <2>1, <2>2, <2>4, <2>5, ProceedsInv
<1>5. CASE DescribeRelation
  <2> DEFINE t == [table EXCEPT !.relation = server.oid]
  <2>1. Proceeds(t, "keys") /\ Whole(table)
    BY <1>1, <1>5 DEF DescribeRelation, At, CoreInv, CallInv
  <2>2. t \in TableStates /\ t.keys = 0 /\ Rest(t) = Rest(table) /\ Whole(t)
    BY <1>2, <1>3, <2>1 DEF TableStates, Rest, Whole
  <2> HIDE DEF t
  <2> QED BY <1>2, <2>1, <2>2, ProceedsInv
<1>6. CASE DescribeKeys
  <2> DEFINE t == [table EXCEPT !.catalogKeys = server.keys]
  <2>1. Proceeds(t, "spatial") /\ Whole(table)
    BY <1>1, <1>6 DEF DescribeKeys, At, CoreInv, CallInv
  <2>2. t \in TableStates /\ t.keys = 0 /\ Rest(t) = Rest(table) /\ Whole(t)
    BY <1>2, <1>3, <2>1 DEF TableStates, Rest, Whole
  <2> HIDE DEF t
  <2> QED BY <1>2, <2>1, <2>2, ProceedsInv
<1> QED BY <1>4, <1>5, <1>6

\* The server is gone, or its answer does not fit.
LEMMA DescribeFailsInv ==
    ASSUME IInv, DescribeFails
    PROVE  IInv'
<1>1. /\ CoreInv /\ Outside /\ World /\ Describing
      /\ \/ FallsBack /\ call.op = "CONNECT" /\ table.options.cached
         \/ Fails(table, "ERROR")
  BY TypeHalves DEF IInv, DescribeFails, FailedDescribe, Describing, At
<1>2. call.op # "NONE" /\ table # NULL
  BY <1>1 DEF CoreInv, CallInv, Describing
<1>3. table \in TableStates /\ table.keys \in 0..3
  BY <1>1, <1>2 DEF IInv, TypeOK, CoreInv, KeysInv
<1>4. CoreInv' /\ table' \in TableStates \cup {NULL}
  BY <1>1, <1>2, <1>3, FallsBackInv, FailsInv
<1>5. /\ call' = NoCall /\ code' \in {"OK", "ERROR", "CORRUPT", "AUTH"}
      /\ UNCHANGED <<options, shadow, plan, scan, created>>
  BY <1>1 DEF FallsBack, Fails, Returns
<1>6. TypeOK'
  BY <1>1, <1>4, <1>5, TypeHalves DEF TypeOK, Outside, World, IInv
<1> QED BY <1>4, <1>6 DEF IInv

\* The end of a live describe: xCreate stores, xConnect and the validation compare.
LEMMA DescribeSpatialInv ==
    ASSUME IInv, DescribeSpatial
    PROVE  IInv'
<1> DEFINE t == Completed(table)
<1>1. /\ CoreInv /\ Outside /\ World /\ Describing /\ call.step = "spatial"
  BY TypeHalves DEF IInv, DescribeSpatial, Describing, At
<1>2. /\ call.op \in {"CREATE", "CONNECT", "FILTER"} /\ table # NULL /\ scan = NULL
      /\ Whole(table) /\ table.keys = 0
      /\ call.op # "CREATE" => options # NULL
      /\ call.op \in {"CREATE", "CONNECT"} => ~table.fallback
      /\ call.op = "FILTER" => Loads(shadow) /\ table.fallback
  BY <1>1 DEF Outside, Calls, CoreInv, CallInv, KeysInv, StoreInv, Describing
<1>3. table \in TableStates
  BY <1>2 DEF IInv, TypeOK
<1>4. /\ t \in TableStates /\ Whole(t) /\ t.keys \in 0..2
      /\ Rest(t) = Rest(table) /\ t.fingerprint \in Fingerprints
  BY <1>2, <1>3, CompletedType
<1>5. /\ t.options = table.options /\ t.identity = table.identity
      /\ t.fallback = table.fallback /\ t.declared = table.declared
  BY <1>4 DEF Rest
<1>6. ASSUME NEW x \in TableStates, x.keys \in 0..2, Rest(x) = Rest(table),
             NEW rc \in {"ERROR", "CORRUPT", "SCHEMA"}, Fails(x, rc)
      PROVE  IInv'
  <2>1. CoreInv' /\ table' \in TableStates \cup {NULL}
    BY <1>2, <1>6, FailsInv
  <2>2. /\ call' = NoCall /\ code' = rc /\ UNCHANGED <<options, shadow, plan, scan, created>>
    BY <1>6 DEF Fails, Returns
  <2>3. TypeOK'
    BY <1>1, <2>1, <2>2, TypeHalves DEF TypeOK, Outside, World, IInv
  <2> QED BY <2>1, <2>3 DEF IInv
<1>7. SpatialIntegrated(table) \in TableStates /\ SpatialIntegrated(table).keys = 0
      /\ Rest(SpatialIntegrated(table)) = Rest(table)
  BY <1>2, <1>3, SpatialType
<1>8. /\ SnapshotOf(t) \in Snapshots /\ SnapshotOf(t) # NULL /\ SnapshotOf(t).keys \in 0..2
  BY <1>4, SnapshotType
<1> HIDE DEF t
<1>9. CASE call.op = "CREATE" /\ Creates(t)
  <2>1. /\ table' = Declared(t) /\ call' = NoCall /\ code' = "OK" /\ scan' = NULL
        /\ options' = t.options /\ created' = SnapshotOf(t) /\ plan' = plan
        /\ shadow' = [schema |-> SnapshotOf(t), metadata |-> SnapshotOf(t)]
    BY <1>2, <1>9 DEF Creates, Returns
  <2>2. /\ shadow'.schema = SnapshotOf(t) /\ shadow'.metadata = SnapshotOf(t)
        /\ shadow' \in Shadows
    BY <1>8, <2>1 DEF Shadows
  <2>3. options' \in Options /\ options' # NULL
    BY <1>4, <2>1, TablesAssumption DEF TableStates
  <2>4. Loads(shadow)'
    BY <1>8, <2>2 DEF Loads
  <2>5. Same(SnapshotOf(t), shadow'.metadata) /\ RefreshKeepsLayout'
    BY <2>1, <2>2 DEF Same, RefreshKeepsLayout
  <2>6. CoreInv' /\ table' \in TableStates
    BY <1>2, <1>4, <1>5, <1>8, <1>9, <2>1, <2>2, <2>3, <2>4, <2>5, DeclaresInv
  <2>7. TypeOK'
    BY <1>1, <1>8, <2>1, <2>2, <2>3, <2>6, TypeHalves DEF TypeOK, Outside, World
  <2> QED BY <2>6, <2>7 DEF IInv
<1>10. CASE call.op \in {"CONNECT", "FILTER"} /\ Loads(shadow) /\ Decision(t) = "store"
            /\ Stores(t)
  <2>1. Same(SnapshotOf(t), shadow.metadata)
    BY <1>10, AgreedIsSame
  <2>2. CoreInv'
    BY <1>1, <1>4, <1>10, <2>1, StoresInv
  <2>3. /\ table' = t /\ call' = [call EXCEPT !.step = "store"]
        /\ UNCHANGED <<options, shadow, plan, scan, code, created>>
    BY <1>10 DEF Stores
  <2>4. call' \in Calls
    BY <1>1, <2>3 DEF Outside, Calls
  <2>5. TypeOK'
    BY <1>1, <1>4, <2>3, <2>4 DEF TypeOK, Outside, World, IInv
  <2> QED BY <2>2, <2>5 DEF IInv
<1>11. CASE call.op = "CONNECT" /\ Connects(t)
  <2>1. CASE ~Loads(shadow) /\ Fails(t, "CORRUPT")
    BY <1>4, <1>6, <2>1
  <2>2. CASE Decision(t) = "refuse" /\ Fails(t, "SCHEMA")
    BY <1>4, <1>6, <2>2
  <2>3. CASE /\ Loads(shadow) /\ Decision(t) = "accept"
             /\ table' = Declared(t) /\ call' = NoCall /\ code' = "OK"
             /\ UNCHANGED <<options, shadow, plan, scan, created>>
    <3>1. Same(SnapshotOf(t), shadow.metadata)
      BY <2>3, AgreedIsSame
    <3>2. Loads(shadow)' /\ Same(SnapshotOf(t), shadow'.metadata) /\ RefreshKeepsLayout'
      BY <1>1, <2>3, <3>1 DEF Loads, CoreInv, RefreshKeepsLayout
    <3>3. shadow'.schema.keys \in 0..2 /\ shadow'.metadata.keys \in 0..2
      BY <1>1, <2>3 DEF Loads, CoreInv, KeysInv
    <3>4. CoreInv' /\ table' \in TableStates
      BY <1>2, <1>4, <1>5, <1>11, <2>3, <3>2, <3>3, DeclaresInv
    <3>5. TypeOK'
      BY <1>1, <2>3, <3>4, TypeHalves DEF TypeOK, Outside, World, IInv
    <3> QED BY <3>4, <3>5 DEF IInv
  <2> QED BY <1>10, <1>11, <2>1, <2>2, <2>3 DEF Connects, Returns, Decision, Decide
<1>12. CASE call.op = "FILTER" /\ Validates(t)
  <2>1. CASE Decision(t) = "refuse" /\ Fails(t, "SCHEMA")
    BY <1>4, <1>6, <2>1
  <2>2. CASE Decision(t) = "accept" /\ Scans([t EXCEPT !.fallback = FALSE])
    <3> DEFINE x == [t EXCEPT !.fallback = FALSE]
    <3>1. /\ x \in TableStates /\ ~x.fallback /\ Whole(x) /\ x.keys \in 0..3
          /\ x.fingerprint \in Fingerprints /\ x.declared = t.declared
          /\ x.layout = t.layout /\ x.origin = t.origin /\ x.relation = t.relation
          /\ x.keys = t.keys /\ x.identity = t.identity
      <4>1. /\ x \in TableStates /\ x.fallback = FALSE
            /\ x.fingerprint = t.fingerprint /\ x.declared = t.declared
            /\ x.layout = t.layout /\ x.origin = t.origin /\ x.relation = t.relation
            /\ x.keys = t.keys /\ x.identity = t.identity
        BY <1>4 DEF TableStates
      <4> QED BY <1>4, <4>1 DEF Whole
    <3> HIDE DEF x
    <3>2. Scans(x) /\ Same(SnapshotOf(t), shadow.metadata)
      BY <2>2, AgreedIsSame DEF x
    <3>3. Same(SnapshotOf(x), shadow.metadata)
      BY <3>1, <3>2, SameFields
    <3>4. x.declared.layout = x.layout
      <4>1. table.declared.layout = created.layout
        BY <1>1, <1>2, <1>12 DEF CoreInv, FallbackInv
      <4>2. shadow.metadata.layout = created.layout
        BY <1>1, <1>2, <1>12 DEF CoreInv, RefreshKeepsLayout
      <4>3. x.layout = shadow.metadata.layout
        BY <3>3, SameFields
      <4> QED BY <1>5, <3>1, <4>1, <4>2, <4>3
    <3>5. /\ CoreInv' /\ table' \in TableStates /\ scan' \in Snapshots \cup {NULL}
          /\ code' \in {"CORRUPT_VTAB", "ERROR", "ROW"}
      BY <1>2, <1>12, <3>1, <3>2, <3>3, <3>4, ScansInv
    <3>6. call' \in Calls /\ UNCHANGED <<options, shadow, plan, created>>
      BY <3>2, TypeHalves DEF Scans
    <3>7. TypeOK'
      BY <1>1, <3>5, <3>6 DEF TypeOK, Outside, World
    <3> QED BY <3>5, <3>7 DEF IInv
  <2> QED BY <1>2, <1>10, <1>12, <2>1, <2>2 DEF Validates, Decision, Decide
<1>13. CASE Fails(SpatialIntegrated(table), "ERROR")
  BY <1>6, <1>7, <1>13
<1> QED BY <1>2, <1>9, <1>11, <1>12, <1>13 DEF DescribeSpatial, t

\* One statement of vps_shadow_store: the rows load again only after the last one, and then
\* they hold the snapshot the store was decided on.
LEMMA StoreStatement ==
    ASSUME IInv, Store
    PROVE  /\ shadow' \in Shadows
           /\ shadow'.schema \in {shadow.schema, NULL, SnapshotOf(table)}
           /\ shadow'.metadata \in {shadow.metadata, NULL, SnapshotOf(table)}
           /\ call.at \in {1, 2} => shadow'.schema = NULL
           /\ call.at \in {2, 3} => shadow'.metadata = NULL
           /\ call.at \in {3, 4} => shadow'.schema = SnapshotOf(table)
           /\ call.at = 4 => shadow'.metadata = SnapshotOf(table)
           /\ SnapshotOf(table) \in Snapshots /\ SnapshotOf(table) # NULL
           /\ SnapshotOf(table).keys \in 0..2
<1>1. /\ CoreInv /\ shadow \in Shadows /\ call.at \in 1..4 /\ call.step = "store"
      /\ shadow' = StoreStep(shadow, call.at, SnapshotOf(table))
  BY DEF IInv, TypeOK, Calls, Store, At
<1>2. /\ table # NULL /\ Whole(table) /\ table.fingerprint \in Fingerprints
      /\ table.keys \in 0..2
      /\ call.at = 2 => shadow.schema = NULL
      /\ call.at = 3 => shadow.metadata = NULL
      /\ call.at = 4 => shadow.schema = SnapshotOf(table)
  BY <1>1 DEF CoreInv, CallInv, StoreInv, KeysInv
<1>3. table \in TableStates
  BY <1>2 DEF IInv, TypeOK
<1> DEFINE s == SnapshotOf(table)
<1>4. s \in Snapshots /\ s # NULL /\ s.keys \in 0..2
  BY <1>2, <1>3, SnapshotType
<1> HIDE DEF s
<1>5. /\ call.at = 1 => shadow' = [shadow EXCEPT !.schema = NULL]
      /\ call.at = 2 => shadow' = [shadow EXCEPT !.metadata = NULL]
      /\ call.at = 3 => shadow' = [shadow EXCEPT !.schema = s]
      /\ call.at = 4 => shadow' = [shadow EXCEPT !.metadata = s]
  BY <1>1 DEF StoreStep, s
<1>6. /\ shadow' \in Shadows
      /\ shadow'.schema = CASE call.at = 1 -> NULL [] call.at = 3 -> s [] OTHER -> shadow.schema
      /\ shadow'.metadata = CASE call.at = 2 -> NULL [] call.at = 4 -> s
                              [] OTHER -> shadow.metadata
  BY <1>1, <1>4, <1>5 DEF Shadows
<1> QED BY <1>1, <1>2, <1>4, <1>6 DEF s

\* vps_shadow_store outside xCreate, and the end of the callback after its last statement.
LEMMA StoreKeeps ==
    ASSUME IInv, Store
    PROVE  IInv'
<1> DEFINE s == SnapshotOf(table)
<1>1. /\ CoreInv /\ Outside /\ World /\ call \in Calls /\ call.at \in 1..4
      /\ call.step = "store" /\ UNCHANGED <<options, plan, scan, created>>
  BY TypeHalves DEF IInv, TypeOK, Calls, Store, At
<1>2. /\ call.op \in {"CONNECT", "FILTER"} /\ table # NULL /\ options # NULL /\ scan = NULL
      /\ Whole(table) /\ table.fingerprint \in Fingerprints /\ table.keys \in 0..2
      /\ Same(s, created)
      /\ call.op = "CONNECT" => ~table.fallback
      /\ call.op = "FILTER" => table.fallback
  BY <1>1 DEF CoreInv, CallInv, StoreInv, KeysInv
<1>3. table \in TableStates
  BY <1>2 DEF IInv, TypeOK
<1>4. /\ shadow' \in Shadows
      /\ shadow'.schema # NULL => shadow'.schema.keys \in 0..2
      /\ shadow'.metadata # NULL => shadow'.metadata.keys \in 0..2
  BY <1>1, StoreStatement DEF CoreInv, KeysInv
<1>5. RefreshKeepsLayout'
  <2>1. call.at # 4 => ~Loads(shadow)'
    BY <1>1, StoreStatement DEF Loads
  <2>2. call.at = 4 => Same(shadow'.metadata, created')
    BY <1>1, <1>2, StoreStatement
  <2> QED BY <1>1, <2>1, <2>2 DEF RefreshKeepsLayout, Same, Compared
<1>6. CASE call.at < 4
  <2>1. call' = [call EXCEPT !.at = call.at + 1] /\ UNCHANGED <<table, code>>
    BY <1>6 DEF Store, StoreSteps
  <2>2. /\ call'.op = call.op /\ call'.step = "store" /\ call'.at = call.at + 1
        /\ call' \in Calls
    BY <1>1, <1>6, <2>1 DEF Calls
  <2>3. KeysInv'
    BY <1>1, <1>2, <1>4, <2>1, <2>2 DEF CoreInv, KeysInv, Describing
  <2>4. CallInv'
    BY <1>1, <1>2, <2>1, <2>2 DEF CallInv, Whole
  <2>5. StoreInv'
    <3>1. SnapshotOf(table)' = s
      BY <2>1 DEF SnapshotOf
    <3>2. /\ call'.at \in {2, 3} => shadow'.schema = NULL
          /\ call'.at \in {3, 4} => shadow'.metadata = NULL
          /\ call'.at = 4 => shadow'.schema = s
      BY <1>1, <1>6, <2>2, StoreStatement
    <3> QED BY <1>1, <1>2, <2>1, <2>2, <3>1, <3>2 DEF StoreInv, Describing, Same
  <2>6. ServedInv' /\ FallbackInv'
    BY <1>1, <1>2, <2>1, <2>2 DEF CoreInv, ServedInv, FallbackInv, Connected
  <2>7. TypeOK'
    BY <1>1, <1>3, <1>4, <2>1, <2>2 DEF TypeOK, Outside, World, IInv
  <2> QED BY <1>5, <2>3, <2>4, <2>5, <2>6, <2>7 DEF IInv, CoreInv
<1>7. CASE call.at = 4 /\ call.op = "CONNECT"
  <2>1. table' = Declared(table) /\ call' = NoCall /\ code' = "OK"
    BY <1>7 DEF Store, StoreSteps, Returns
  <2>2. shadow'.schema = s /\ shadow'.metadata = s /\ s # NULL /\ s.keys \in 0..2
    BY <1>7, StoreStatement
  <2> HIDE DEF s
  <2>3. Loads(shadow)' /\ Same(s, shadow'.metadata)
    BY <2>2 DEF Loads, Same
  <2>4. CoreInv' /\ table' \in TableStates
    BY <1>1, <1>2, <1>3, <1>5, <1>7, <2>1, <2>2, <2>3, DeclaresInv DEF s
  <2>5. TypeOK'
    BY <1>1, <1>4, <2>1, <2>4, TypeHalves DEF TypeOK, Outside, World, IInv
  <2> QED BY <2>4, <2>5 DEF IInv
<1>8. CASE call.at = 4 /\ call.op = "FILTER"
  <2>1. table' = table /\ call' = NoCall /\ code' = "SCHEMA"
    BY <1>8 DEF Store, StoreSteps, Returns
  <2>2. call'.op = "NONE" /\ call'.step = "none" /\ call'.at = 1 /\ call' \in Calls
    BY <2>1, TypeHalves DEF NoCall
  <2>3. KeysInv'
    BY <1>2, <1>4, <2>1, <2>2 DEF KeysInv, Describing
  <2>4. CallInv' /\ StoreInv'
    BY <1>1, <1>2, <2>1, <2>2 DEF CallInv, StoreInv, Describing
  <2>5. ServedInv' /\ FallbackInv'
    BY <1>1, <1>2, <1>8, <2>1, <2>2 DEF CoreInv, ServedInv, FallbackInv, Connected
  <2>6. TypeOK'
    BY <1>1, <1>3, <1>4, <2>1, <2>2 DEF TypeOK, Outside, World, IInv
  <2> QED BY <1>5, <2>3, <2>4, <2>5, <2>6 DEF IInv, CoreInv
<1> QED BY <1>1, <1>2, <1>6, <1>7, <1>8

\* A statement of the store fails.
LEMMA StoreFailsInv ==
    ASSUME IInv, StoreFails
    PROVE  IInv'
<1>1. /\ CoreInv /\ Outside /\ call.step = "store" /\ Fails(table, "ERROR")
      /\ changes < MaxChanges /\ changes' = changes + 1 /\ UNCHANGED <<server, identity>>
  BY TypeHalves DEF IInv, StoreFails, At
<1>2. call.op # "NONE" /\ table # NULL /\ table.keys \in 0..3
  BY <1>1 DEF CoreInv, CallInv, KeysInv
<1>3. table \in TableStates
  BY <1>2 DEF IInv, TypeOK
<1>4. CoreInv' /\ table' \in TableStates \cup {NULL}
  BY <1>1, <1>2, <1>3, FailsInv
<1>5. /\ call' = NoCall /\ code' = "ERROR"
      /\ UNCHANGED <<options, shadow, plan, scan, created>>
  BY <1>1 DEF Fails, Returns
<1>6. changes' \in 0..MaxChanges
  BY <1>1, TablesAssumption DEF Outside
<1>7. TypeOK'
  BY <1>1, <1>4, <1>5, <1>6, TypeHalves DEF TypeOK, Outside, IInv
<1> QED BY <1>4, <1>7 DEF IInv

-----------------------------------------------------------------------------
(* The theorems *)

\* No table, empty shadow tables and no callback in progress.
LEMMA InitInv ==
    Init => IInv
<1> SUFFICES ASSUME Init PROVE IInv
  OBVIOUS
<1>1. MaxOid \in Nat \ {0} /\ MaxRevision \in Nat /\ MaxChanges \in Nat
  BY MetadataAssumption, TablesAssumption
<1>2. server \in Servers
  <2>1. PICK l \in Layouts :
            server = [up |-> TRUE, oid |-> 1, layout |-> l, keys |-> 1, revision |-> 0]
    BY DEF Init, Layouts
  <2>2. 1 \in 1..MaxOid /\ 0 \in 0..MaxRevision /\ 1 \in 0..2
    BY <1>1
  <2> QED BY <2>1, <2>2 DEF Servers
<1>3. call.op = "NONE" /\ call.step = "none" /\ call.at = 1 /\ call \in Calls
  BY TypeHalves DEF Init, NoCall
<1>4. shadow \in Shadows /\ shadow.schema = NULL /\ shadow.metadata = NULL
  BY DEF Init, EmptyShadow, Shadows
<1>5. TypeOK
  BY <1>1, <1>2, <1>3, <1>4 DEF Init, TypeOK
<1>6. KeysInv /\ CallInv /\ StoreInv /\ ServedInv /\ FallbackInv
  BY <1>3, <1>4 DEF Init, KeysInv, CallInv, StoreInv, ServedInv, FallbackInv, Describing,
                    Connected
<1>7. RefreshKeepsLayout
  BY DEF Init, RefreshKeepsLayout
<1> QED BY <1>5, <1>6, <1>7 DEF IInv, CoreInv

\* Every callback, every statement of one and every change of the world.
LEMMA NextInv ==
    IInv /\ [Next]_vars => IInv'
<1> SUFFICES ASSUME IInv, [Next]_vars PROVE IInv'
  OBVIOUS
<1>1. CASE (\E o \in Options : Create(o)) \/ Connect
  BY <1>1, StartInv
<1>2. CASE Disconnect \/ Destroy \/ Crash
  BY <1>2, GoneInv
<1>3. CASE \/ Refused \/ Prepare \/ EndScan
           \/ ServerDown \/ ServerUp \/ Ddl \/ Republish \/ Reconfigure
  BY <1>3, QuietInv
<1>4. CASE Filter
  BY <1>4, FilterInv
<1>5. CASE DescribeFields \/ DescribeRelation \/ DescribeKeys
  BY <1>5, DescribeInv
<1>6. CASE DescribeSpatial
  BY <1>6, DescribeSpatialInv
<1>7. CASE DescribeFails
  BY <1>7, DescribeFailsInv
<1>8. CASE Store
  BY <1>8, StoreKeeps
<1>9. CASE StoreFails
  BY <1>9, StoreFailsInv
<1>10. CASE UNCHANGED vars
  <2>1. CoreInv'
    BY <1>10, CoreKept DEF IInv, vars
  <2>2. TypeOK'
    BY <1>10 DEF IInv, TypeOK, vars
  <2> QED BY <2>1, <2>2 DEF IInv
<1> QED BY <1>1, <1>2, <1>3, <1>4, <1>5, <1>6, <1>7, <1>8, <1>9, <1>10
        DEF Next, Step, Environment

\* The inductive invariant, for any number of relations, revisions and changes.
THEOREM TablesInvariant ==
    Spec => []IInv
<1>1. Init => IInv
  BY InitInv
<1>2. IInv /\ [Next]_vars => IInv'
  BY NextInv
<1> QED BY <1>1, <1>2, PTL DEF Spec

\* A scan serves rows of the columns SQLite was told about in sqlite3_declare_vtab.
THEOREM RowsFit ==
    Spec => []RowsFitDeclaration
<1>1. IInv => RowsFitDeclaration
  <2> SUFFICES ASSUME IInv, scan # NULL
               PROVE  scan.layout = table.declared.layout
    BY DEF RowsFitDeclaration
  <2>1. Connected /\ ~table.fallback /\ scan = SnapshotOf(table)
    BY DEF IInv, CoreInv, ServedInv, CallInv, Connected
  <2>2. table.declared.layout = table.layout
    BY <2>1 DEF IInv, CoreInv, ServedInv
  <2> QED BY <2>1, <2>2 DEF SnapshotOf
<1> QED BY <1>1, TablesInvariant, PTL

\* A scan is backed by a snapshot that loads from the shadow tables, so a cached declaration
\* serves no row before vps_table_validate_cached_metadata has accepted it.
THEOREM ServedAreStored ==
    Spec => []ServedIsStored
<1>1. IInv => ServedIsStored
  <2> SUFFICES ASSUME IInv, scan # NULL
               PROVE  Loads(shadow) /\ Same(scan, shadow.metadata)
    BY DEF ServedIsStored, Same, Compared
  <2>1. Connected /\ ~table.fallback /\ scan = SnapshotOf(table)
    BY DEF IInv, CoreInv, ServedInv, CallInv, Connected
  <2> QED BY <2>1 DEF IInv, CoreInv, ServedInv
<1> QED BY <1>1, TablesInvariant, PTL

\* Refreshes, finished, interrupted or failed, keep the fields, relation, keys and identity
\* of the snapshot xCreate stored, in whatever vps_shadow_load accepts.
THEOREM RefreshIsCompatible ==
    Spec => []RefreshKeepsLayout
<1>1. IInv => RefreshKeepsLayout
  BY DEF IInv, CoreInv
<1> QED BY <1>1, TablesInvariant, PTL

\* A cached declaration was asked for, is read-only, and was captured under the connection
\* identity of the table that uses it.
THEOREM FallbackIsOwn ==
    Spec => []FallbackIsOurs
<1>1. IInv => FallbackIsOurs
  BY DEF IInv, CoreInv, FallbackInv, FallbackIsOurs
<1> QED BY <1>1, TablesInvariant, PTL

\* Types, and the code a callback returns to SQLite.
THEOREM TablesTypeCorrect ==
    Spec => []TypeOK
<1>1. IInv => TypeOK
  BY DEF IInv
<1> QED BY <1>1, TablesInvariant, PTL
=============================================================================
