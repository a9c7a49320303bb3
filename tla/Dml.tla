-------------------------------- MODULE Dml ---------------------------------
(***************************************************************************)
(* Keyed writes: the DML policy of a table, the statement built for one    *)
(* xUpdate and the judgement of its row count (src/src/vps_dml.c), and the *)
(* token that carries a row's identity through SQLite                      *)
(* (src/src/vps_row_identity.c).  SQL text is abstracted to its effect:    *)
(* which columns it sets and which rows its predicate matches.  Geometry   *)
(* columns and the limits on columns and parameters are left out.          *)
(***************************************************************************)
EXTENDS Catalog, SequencesExt

CONSTANT NULL

Selections(column) == TypeSelection[column.type].capabilities

\* vps_dml_find_visible_by_attribute
VisibleByAttribute(columns, attnum) == {n \in DOMAIN columns : columns[n].attnum = attnum}

\* The columns an UPDATE and an INSERT may name
Updatable(columns) ==
    {n \in DOMAIN columns : /\ "DML" \in Selections(columns[n]) /\ ~columns[n].generated
                            /\ columns[n].identity = "none"}
Insertable(columns) ==
    {n \in DOMAIN columns : /\ "DML" \in Selections(columns[n]) /\ ~columns[n].generated
                            /\ columns[n].identity # "always"}

\* A version column must be set in every row and be written by its writers.
VersionUsable(column) ==
    column.notNull /\ ~column.generated /\ "DML" \in Selections(column)

\* vps_dml_policy_build of a rw table: what it answers
PolicyResult(catalog, optimistic, version) ==
    LET columns == Visible(catalog.columns)
        key == KeyDiscover(catalog)
        policy == WritePolicy(catalog, key)
        keyColumn(a) == {n \in VisibleByAttribute(columns, a) : "DML" \in Selections(columns[n])}
    IN IF RelationKind(catalog) \notin WritableKinds THEN "UNSUPPORTED_RELATION"
       ELSE IF policy = "NO_KEY" THEN "NO_KEY"
       ELSE IF policy # "ALLOWED" THEN "UNSUPPORTED_RELATION"
       ELSE IF optimistic = "COLUMN" /\ ~(version \in DOMAIN columns
                                          /\ VersionUsable(columns[version]))
            THEN "OPTIMISTIC_INVALID"
       ELSE IF \E a \in Range(key) : keyColumn(a) = {} THEN "UNSUPPORTED_TYPE"
       ELSE "OK"

\* VpsDmlPolicy, when that is OK
Policy(catalog, optimistic, version) ==
    LET columns == Visible(catalog.columns)
        key == KeyDiscover(catalog)
    IN [relation |-> catalog.oid, optimistic |-> optimistic, version |-> version,
        columns |-> columns, updatable |-> Updatable(columns),
        insertable |-> Insertable(columns),
        keys |-> [n \in DOMAIN key |->
                    CHOOSE c \in VisibleByAttribute(columns, key[n]) : TRUE]]

-----------------------------------------------------------------------------
\* Identity tokens.

\* VpsRowIdentityField of a column as the server sent it
Field(type, wire) ==
    [kind |-> IF wire = NULL THEN "NULL" ELSE IF type = "bytea" THEN "BLOB" ELSE "TEXT",
     type |-> type, value |-> wire]

\* vps_identity_append_field: kind, type and length, and the bytes of all but NULL
AppendField(token, field) ==
    Append(token, [kind |-> field.kind, type |-> field.type,
                   length |-> IF field.kind = "NULL" THEN 0 ELSE 1,
                   value |-> IF field.kind = "NULL" THEN NULL ELSE field.value])

\* vps_row_identity_encode: a header of flag, field count, relation and length, then the key
\* fields and, with optimistic locking, the version or xmin the row was read with.
Encode(relation, keys, optimistic) ==
    LET fields == IF optimistic = NULL THEN keys ELSE Append(keys, optimistic)
        header == <<optimistic # NULL, Len(keys), relation, Len(fields) + 4>>
    IN FoldLeft(AppendField, header, fields)

\* vps_row_identity_token: of rows that belong to no relation and cannot be written
Token(keys) == Encode(0, keys, NULL)

\* vps_identity_decode_field
FieldDecodes(f) == f.kind \in {"NULL", "INTEGER", "TEXT", "BLOB"} /\ (f.kind = "NULL" => f.length = 0)
DecodedField(f) == [kind |-> f.kind, type |-> f.type, value |-> f.value]

\* vps_row_identity_decode
Decodable(token) ==
    /\ Len(token) >= 4 /\ token[4] = Len(token) /\ token[2] > 0
    /\ Len(token) = 4 + token[2] + (IF token[1] THEN 1 ELSE 0)
    /\ \A n \in 5..Len(token) : FieldDecodes(token[n])
Decode(token) ==
    [relation |-> token[3], keys |-> [n \in 1..token[2] |-> DecodedField(token[4 + n])],
     optimistic |-> IF token[1] THEN DecodedField(token[5 + token[2]]) ELSE NULL]

\* vps_row_identity_stable_integer parses the text of the key; NULL (no text) is refused.
StableIntegerFails(column) == column = NULL
StableInteger(column) == column[2]

\* vps_row_identity_scan_next
ScanNext(counter) == counter + 1

-----------------------------------------------------------------------------
\* The statement of one xUpdate.

\* vps_dml_original_predicate accepts the identity.
IdentityFits(policy, identity) ==
    LET typeOf(n) == policy.columns[n].type IN
    /\ identity.relation = policy.relation
    /\ Len(identity.keys) = Len(policy.keys)
    /\ \A n \in DOMAIN policy.keys : identity.keys[n].type = typeOf(policy.keys[n])
    /\ policy.optimistic # "OFF" =>
          /\ identity.optimistic # NULL
          /\ identity.optimistic.type = IF policy.optimistic = "XMIN" THEN "xid"
                                        ELSE typeOf(policy.version)

\* vps_dml_plan_build, over the columns SQLite gave values for
PlanResult(policy, operation, included, identity) ==
    LET allowed == IF operation = "INSERT" THEN policy.insertable ELSE policy.updatable
        refused == included \ allowed
        first == CHOOSE n \in refused : \A m \in refused : n <= m
    IN IF operation # "DELETE" /\ refused # {}
       THEN IF policy.columns[first].generated THEN "GENERATED_COLUMN" ELSE "IDENTITY_ALWAYS"
       ELSE IF operation = "UPDATE" /\ included = {} THEN "INVALID_ARGUMENT"
       ELSE IF operation # "INSERT" /\ ~IdentityFits(policy, identity)
            THEN "MALFORMED_IDENTITY"
       ELSE "OK"

\* vps_dml_returning: the key columns, then the version column or xmin (0)
Returning(policy) ==
    policy.keys \o (IF policy.optimistic = "COLUMN" THEN <<policy.version>>
                    ELSE IF policy.optimistic = "XMIN" THEN <<0>> ELSE <<>>)

\* Faulty: the predicate of optimistic locking is left out.
PredicateByKeyAlone(policy, keys, optimistic, row) ==
    \A n \in DOMAIN policy.keys : row.values[policy.keys[n]] = keys[n]

\* vps_dml_original_predicate: the rows the statement matches, with the values its parameters
\* hold on the server.  IS NOT DISTINCT FROM takes two NULLs for equal.
Predicate(policy, keys, optimistic, row) ==
    /\ \A n \in DOMAIN policy.keys : row.values[policy.keys[n]] = keys[n]
    /\ policy.optimistic = "XMIN" => row.xmin = optimistic
    /\ policy.optimistic = "COLUMN" => row.values[policy.version] = optimistic

\* vps_dml_classify_count
ClassifyCount(operation, optimistic, count) ==
    IF count = 1 THEN "OK"
    ELSE IF count > 1 THEN "INVARIANT"
    ELSE IF optimistic # "OFF" THEN "CONFLICT"
    ELSE IF operation = "INSERT" THEN "INVARIANT" ELSE "NOT_FOUND"
=============================================================================
