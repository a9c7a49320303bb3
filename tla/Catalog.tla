------------------------------ MODULE Catalog -------------------------------
(***************************************************************************)
(* What the extension makes of the catalog rows of one relation: the       *)
(* relation's kind (src/src/vps_metadata.c), its columns and their codecs  *)
(* (vps_type_registry.c), the key that identifies a row                    *)
(* (vps_metadata_key.c), and whether the relation may be written           *)
(* (vps_metadata_policy.c).                                                *)
(*                                                                         *)
(* A catalog is a record                                                   *)
(*   oid, relkind, partition, children   of pg_class and pg_inherits       *)
(*   columns     sequence of [attnum, type, notNull, dropped, generated,   *)
(*               identity]                                                 *)
(*   indexes     set of [oid, primary, unique, valid, ready, immediate,    *)
(*               partial, expression, nullsNotDistinct, deferrable,        *)
(*               attributes, keyCount]; attribute 0 is an expression       *)
(*   partitioned sequence of the partition key's attributes                *)
(* Cells that do not parse are left out: the server formats them.          *)
(***************************************************************************)
EXTENDS Integers, Sequences, FiniteSets, Functions

\* VpsRelationKind for a pg_class.relkind
KindNames ==
    [r |-> "TABLE", p |-> "PARTITIONED_TABLE", v |-> "VIEW", m |-> "MATERIALIZED_VIEW",
     f |-> "FOREIGN_TABLE", S |-> "SEQUENCE", c |-> "COMPOSITE", t |-> "TOAST",
     i |-> "INDEX", I |-> "INDEX"]

\* vps_relation_kind_from_catalog
RelationKind(catalog) ==
    IF catalog.partition THEN "PARTITION"
    ELSE IF catalog.relkind \notin DOMAIN KindNames THEN "UNSUPPORTED"
    ELSE IF catalog.relkind = "r" /\ catalog.children THEN "INHERITANCE_PARENT"
    ELSE KindNames[catalog.relkind]

WritableKinds == {"TABLE", "PARTITIONED_TABLE", "PARTITION"}
ReadableKinds ==
    WritableKinds \cup {"VIEW", "MATERIALIZED_VIEW", "FOREIGN_TABLE", "INHERITANCE_PARENT"}

\* vps_relation_metadata_resolve, for the one row the relation query returns
Resolves(catalog) == RelationKind(catalog) \in ReadableKinds

\* vps_column_set_build keeps every column; the dropped ones are not visible.
Visible(columns) == SelectSeq(columns, LAMBDA c : ~c.dropped)

Exact == {"READ", "EQUALITY", "ORDER", "DML", "EXACT"}
TextOnly == {"READ", "DML"}

\* vps_type_registry_select: codec and capabilities of a column's type, or of the base type
\* of its domain.  A type the registry does not know is read as text.
TypeSelection ==
    [bool      |-> [codec |-> "BOOLEAN",        capabilities |-> Exact],
     int4      |-> [codec |-> "INTEGER",        capabilities |-> Exact],
     uuid      |-> [codec |-> "UUID_TEXT",      capabilities |-> Exact],
     bytea     |-> [codec |-> "BYTEA",
                    capabilities |-> {"READ", "EQUALITY", "DML", "EXACT", "BINARY"}],
     timestamp |-> [codec |-> "DATETIME_TEXT",  capabilities |-> Exact \ {"EXACT"}],
     enum      |-> [codec |-> "ENUM_TEXT",      capabilities |-> {"READ", "EQUALITY", "DML"}],
     range     |-> [codec |-> "RANGE_TEXT",     capabilities |-> TextOnly],
     array     |-> [codec |-> "ARRAY_TEXT",     capabilities |-> TextOnly],
     float8    |-> [codec |-> "FLOAT",          capabilities |-> TextOnly],
     numeric   |-> [codec |-> "NUMERIC_TEXT",   capabilities |-> TextOnly],
     money     |-> [codec |-> "MONEY_TEXT",     capabilities |-> TextOnly],
     json      |-> [codec |-> "JSON_TEXT",      capabilities |-> TextOnly],
     text      |-> [codec |-> "TEXT",           capabilities |-> TextOnly],
     composite |-> [codec |-> "COMPOSITE_TEXT", capabilities |-> {"READ"}],
     other     |-> [codec |-> "USER_TEXT",      capabilities |-> {"READ"}]]

\* vps_type_codec_for_oid: the codec of a result field, from its built-in type alone
CodecForOid(type) ==
    LET codec == TypeSelection[type].codec
    IN IF codec \in {"BOOLEAN", "INTEGER", "FLOAT", "NUMERIC_TEXT", "MONEY_TEXT", "BYTEA",
                     "DATETIME_TEXT", "UUID_TEXT", "JSON_TEXT"}
       THEN codec ELSE "TEXT"

\* vps_key_column, and what vps_key_discover asks of it.  domain_not_null counts as notNull.
KeyColumnNotNull(columns, attnum) ==
    \E n \in DOMAIN columns :
        /\ columns[n].attnum = attnum /\ ~columns[n].dropped /\ columns[n].notNull

\* vps_key_attribute_list: the key attributes; INCLUDE columns follow them in indkey.
KeyAttributes(index) == SubSeq(index.attributes, 1, index.keyCount)

\* Faulty: a partial unique index is taken for a key.
IdentifiesPartially(index, columns) ==
    /\ index.unique /\ index.valid /\ index.ready /\ index.immediate
    /\ ~index.expression /\ ~index.deferrable
    /\ 0 \notin Range(index.attributes)
    /\ \/ \A a \in Range(KeyAttributes(index)) : KeyColumnNotNull(columns, a)
       \/ index.nullsNotDistinct

\* vps_key_discover, the tests that skip an index: a key must tell any two rows apart at
\* any moment.
Identifies(index, columns) ==
    /\ index.unique /\ index.valid /\ index.ready /\ index.immediate
    /\ ~index.partial /\ ~index.expression /\ ~index.deferrable
    /\ 0 \notin Range(index.attributes)
    /\ \/ \A a \in Range(KeyAttributes(index)) : KeyColumnNotNull(columns, a)
       \/ index.nullsNotDistinct

KeyRank(index) == IF index.primary THEN 2 ELSE 1

\* vps_key_discover without an explicit key, as vps_table_metadata_load calls it: the primary
\* key first, the oldest index among equals, <<>> if the relation has none.
KeyDiscover(catalog) ==
    LET keys == {i \in catalog.indexes : Identifies(i, catalog.columns)}
        best(i) == \A j \in keys : \/ KeyRank(i) > KeyRank(j)
                                   \/ KeyRank(i) = KeyRank(j) /\ i.oid <= j.oid
    IN IF keys = {} THEN <<>> ELSE KeyAttributes(CHOOSE i \in keys : best(i))

\* vps_policy_attributes refuses a partition key that holds an expression, and the load of
\* the relation's metadata fails with it.
PolicyLoads(catalog) == 0 \notin Range(catalog.partitioned)

\* vps_relation_policy_build, for the rows of the relation just resolved
WritePolicy(catalog, key) ==
    LET kind == RelationKind(catalog) IN
    IF key = <<>> THEN "NO_KEY"
    ELSE IF kind = "INHERITANCE_PARENT" THEN "INHERITANCE_UNSAFE"
    ELSE IF kind \notin WritableKinds THEN "SOURCE_READ_ONLY"
    ELSE IF kind = "PARTITIONED_TABLE" /\
            (catalog.partitioned = <<>> \/ ~(Range(catalog.partitioned) \subseteq Range(key)))
         THEN "PARTITION_KEY_UNPROVEN"
    ELSE "ALLOWED"
=============================================================================
