----------------------------- MODULE Statements -----------------------------
(***************************************************************************)
(* One SQL statement over one virtual table, from xConnect to its last     *)
(* callback: xBestIndex plans it, xFilter and xNext fetch rows from the    *)
(* server or from a materialized snapshot, SQLite finishes a SELECT or     *)
(* calls xUpdate for every row an UPDATE or DELETE found, while other      *)
(* sessions change the table (src/src/vps_module.c with Planner, Dml and   *)
(* Catalog; the scan of a snapshot in src/src/vps_embedded_sqlite.c).      *)
(*                                                                         *)
(* SQLite and the server are external: SQLite as an oldest supported host  *)
(* (3.44) uses a virtual table, the server as it evaluates the statements  *)
(* the code builds, committed row by row (READ COMMITTED).  Here a         *)
(* statement that fails undoes its writes; VtabTransaction is about that.  *)
(* Columns are numbered from 1; the hidden identity column comes last.     *)
(*                                                                         *)
(* A case is a table, its rows and a statement:                            *)
(*   source "table", "query" or "snapshot"; rw, optimistic, version (the   *)
(*   version column); catalog; keys (the argument key_columns); indexes    *)
(*   (query indexes of a snapshot); rows; statement [op, where, order,     *)
(*   limit, offset, used, set, omit].                                      *)
(* A term of WHERE is [column, op, rhs, class, value, items, usable].      *)
(* Left out: geometry columns, triggers and row security of the relation.  *)
(***************************************************************************)
EXTENDS Planner, Dml

CONSTANTS
    IsCase(_),    \* the cases to run
    MaxChanges    \* changes other sessions make during the statement

ASSUME StatementsAssumption == MaxChanges \in Nat

Ids == 1..4       \* rows the table ever holds at once

VARIABLES
    case,      \* the case, fixed
    phase,     \* what SQLite does next
    table,     \* the connected VpsTable, or NULL
    plan,      \* the plan of xBestIndex as xFilter reads it back, or NULL
    rows,      \* the relation on the server: [values, xmin] or NULL
    found,     \* the rows of the scan SQLite kept, as xColumn and xRowid gave them
    undo,      \* the rows this statement changed, as they were
    last,      \* the last xUpdate: its row, what it changed, its code (history)
    code,      \* SQLite result of the statement so far
    changes,   \* changes by other sessions so far
    dropped,   \* another session dropped the table's indexes
    clock      \* the next transaction id

vars == <<case, phase, table, plan, rows, found, undo, last, code, changes, dropped, clock>>

Statement == case.statement
Columns == Visible(case.catalog.columns)
Hidden == Len(Columns) + 1

\* The constraints the server enforces (external): NOT NULL, and the unique indexes that
\* check every row at once
Enforced(index) ==
    /\ ~dropped /\ ~case.catalog.children
    /\ index.unique /\ index.valid /\ index.ready /\ index.immediate
    /\ ~index.partial /\ ~index.expression /\ ~index.deferrable
Respects(content) ==
    LET cell(id, a) == content[id].values[CHOOSE c \in VisibleByAttribute(Columns, a) : TRUE]
        same(index, x, y) ==
            \A a \in Range(KeyAttributes(index)) :
                /\ cell(x, a) = cell(y, a)
                /\ index.nullsNotDistinct \/ cell(x, a) # NULL
        used == {id \in Ids : content[id] # NULL}
    IN /\ \A id \in used, c \in DOMAIN Columns :
             Columns[c].notNull => content[id].values[c] # NULL
       /\ \A index \in case.catalog.indexes : Enforced(index) =>
             \A x, y \in used : x # y => ~same(index, x, y)

Init ==
    /\ IsCase(case)
    /\ phase = "connect" /\ table = NULL /\ plan = NULL /\ code = "OK"
    /\ rows = [id \in Ids |-> IF id \in DOMAIN case.rows
                              THEN [values |-> case.rows[id], xmin |-> 1] ELSE NULL]
    /\ found = <<>> /\ undo = <<>> /\ last = NULL
    /\ changes = 0 /\ dropped = FALSE /\ clock = 2
    /\ Respects(rows)

Fails(rc) ==
    /\ phase' = "failed" /\ code' = rc
    /\ rows' = undo @@ rows
    /\ UNCHANGED <<table, plan, found, undo>>

-----------------------------------------------------------------------------
\* Connecting.

\* vps_resolve_row_identity, the key columns: of a table by attribute number, of a query by
\* the key_columns argument.
KeyColumns ==
    IF case.source # "table" THEN case.keys
    ELSE LET key == KeyDiscover(case.catalog)
         IN [n \in DOMAIN key |-> CHOOSE c \in VisibleByAttribute(Columns, key[n]) : TRUE]

\* vps_resolve_row_identity, the mode
IdentityMode(keys) ==
    IF keys = <<>> THEN "SCAN_LOCAL"
    ELSE IF /\ Len(keys) = 1 /\ case.optimistic = "OFF"
            /\ CodecForOid(Columns[keys[1]].type) = "INTEGER"
         THEN "STABLE_INTEGER"
    ELSE "HIDDEN_TOKEN"

\* xConnect of a reachable server: describe, policy, identity
Connect ==
    /\ phase = "connect"
    /\ UNCHANGED <<case, last, changes, dropped, clock>>
    /\ IF case.source = "table" /\ ~(Resolves(case.catalog) /\ PolicyLoads(case.catalog))
       THEN Fails("ERROR")
       ELSE IF case.rw /\ PolicyResult(case.catalog, case.optimistic, case.version) # "OK"
       THEN Fails("ERROR")
       ELSE /\ table' = [keys |-> KeyColumns, mode |-> IdentityMode(KeyColumns),
                         policy |-> IF case.rw
                                    THEN Policy(case.catalog, case.optimistic, case.version)
                                    ELSE NULL]
            /\ phase' = IF Statement.op = "INSERT" THEN "insert" ELSE "prepare"
            /\ UNCHANGED <<plan, rows, found, undo, code>>

-----------------------------------------------------------------------------
\* xBestIndex.

\* vps_vtab_plan_capabilities
PlanCapabilities(type) ==
    LET codec == CodecForOid(type) IN
    IF codec \in {"BOOLEAN", "INTEGER", "UUID_TEXT"} THEN {"EQUALITY", "ORDER", "EXACT"}
    ELSE IF codec = "BYTEA" THEN {"EQUALITY", "EXACT", "BINARY"}
    ELSE {}

\* vps_vtab_expected_value_class
ExpectedClass(type) ==
    LET codec == CodecForOid(type) IN
    IF codec = "BYTEA" THEN "BLOB"
    ELSE IF codec = "UUID_TEXT" THEN "TEXT"
    ELSE IF codec \in {"BOOLEAN", "INTEGER"} THEN "INTEGER"
    ELSE "UNKNOWN"

\* vps_vtab_constraint_operation; an operator outside its domain is not passed on.
ConstraintOperation ==
    [EQ |-> "EQ", NE |-> "NE", LT |-> "LT", LE |-> "LE", GT |-> "GT", GE |-> "GE",
     ISNULL |-> "IS_NULL", ISNOTNULL |-> "IS_NOT_NULL", IS |-> "EQ", INLIST |-> "EQ",
     LIMIT |-> "LIMIT", OFFSET |-> "OFFSET"]

\* vps_vtab_uuid_canonical: the lower-case spelling
Canonical(value) == value \in {"p", "q"}

\* The class xBestIndex gives a literal: UNKNOWN unless the server will read it as SQLite does
LiteralClass(type, term) ==
    IF term.class = "NULL" THEN "NULL"
    ELSE IF term.class # ExpectedClass(type) THEN "UNKNOWN"
    ELSE IF type = "bool" /\ term.value \notin {0, 1} THEN "UNKNOWN"
    ELSE IF type = "uuid" /\ ~Canonical(term.value) THEN "UNKNOWN"
    ELSE term.class

IsInList(term) ==
    /\ term.op = "INLIST" /\ term.usable /\ term.column \in DOMAIN Columns
    /\ {"EQUALITY", "EXACT"} \subseteq PlanCapabilities(Columns[term.column].type)

\* The constraints SQLite offers: WHERE, and LIMIT and OFFSET when every term is usable
Offered ==
    LET slice(op, v) == [column |-> 0, op |-> op, rhs |-> "parameter", class |-> "INTEGER",
                         value |-> v, items |-> {}, usable |-> TRUE]
    IN Statement.where
       \o (IF Statement.limit = NULL THEN <<>> ELSE <<slice("LIMIT", Statement.limit)>>)
       \o (IF Statement.offset = NULL THEN <<>> ELSE <<slice("OFFSET", Statement.offset)>>)

\* VpsPlannerConstraintInput of the n-th offered constraint
Input(n) ==
    LET term == Offered[n]
        visible == term.column \in DOMAIN Columns
        type == Columns[term.column].type
    IN [column |-> term.column, operation |-> ConstraintOperation[term.op], source |-> n,
        usable |-> term.usable, in |-> IsInList(term), nullSafe |-> term.op = "IS",
        class |-> IF term.op \in {"ISNULL", "ISNOTNULL", "LIMIT", "OFFSET"} THEN "INTEGER"
                  ELSE IF ~visible THEN "UNKNOWN"
                  ELSE IF IsInList(term) THEN ExpectedClass(type)
                  ELSE IF term.rhs = "literal" THEN LiteralClass(type, term)
                  ELSE "UNKNOWN"]

\* The longest prefix of a query index that equality and IS NULL tests fix
IndexPrefix(inputs, index) ==
    LET fixed(column) ==
            \E n \in DOMAIN inputs : /\ inputs[n].usable /\ ~inputs[n].in
                                     /\ inputs[n].column = column
                                     /\ inputs[n].operation \in {"EQ", "IS_NULL"}
    IN CHOOSE p \in 0..Len(index) : /\ \A k \in 1..p : fixed(index[k])
                                    /\ p = Len(index) \/ ~fixed(index[p + 1])

\* vps_module_best_index up to vps_planner_compile
PlannerRequest ==
    LET known == SelectSeq([n \in DOMAIN Offered |-> n],
                           LAMBDA n : Offered[n].op \in DOMAIN ConstraintOperation)
        inputs == [n \in DOMAIN known |-> Input(known[n])]
        prefix(i) == IndexPrefix(inputs, case.indexes[i])
        best == {i \in DOMAIN case.indexes : /\ \A j \in DOMAIN case.indexes : prefix(i) >= prefix(j)
                                             /\ \A j \in 1..(i - 1) : prefix(i) > prefix(j)}
        index == IF case.source = "snapshot" /\ best # {} THEN CHOOSE i \in best : TRUE ELSE 0
    IN [fingerprint |-> case.source, used |-> Statement.used, keys |-> table.keys,
        columns |-> [c \in DOMAIN Columns |-> PlanCapabilities(Columns[c].type)],
        constraints |-> inputs,
        order |-> SelectSeq(Statement.order, LAMBDA t : t.column \in DOMAIN Columns),
        baseRows |-> 1000000, index |-> index,
        indexPrefix |-> IF index = 0 THEN 0 ELSE prefix(index)]

\* Faulty: the version column is fetched only if SQLite uses it.
BestIndexWithoutVersion(compiled) == compiled

\* vps_module_best_index after vps_planner_compile
BestIndex(compiled) ==
    IF case.optimistic = "COLUMN"
    THEN [compiled EXCEPT !.projection = AddProjection(@, case.version)]
    ELSE compiled

Prepare ==
    /\ phase = "prepare"
    /\ plan' = DecodePlan(EncodePlan(BestIndex(Compile(PlannerRequest))))
    /\ phase' = "filter"
    /\ UNCHANGED <<case, table, rows, found, undo, last, code, changes, dropped, clock>>

\* SQLite drops its own test of a constraint only for an argument it was told to omit.
Omitted(n) ==
    \E i \in DOMAIN plan.constraints :
        LET c == plan.constraints[i]
        IN c.source = n /\ c.argument # 0 /\ "RECHECK" \notin c.flags

-----------------------------------------------------------------------------
\* Values on their way between SQLite and the server.  A value of SQLite is [class, value];
\* on the wire it is <<format, bytes>>; the server stores booleans, and bytea as <<"raw", n>>.

\* The server's text output (external)
Wire(type, v) ==
    IF v = NULL THEN NULL
    ELSE <<"text", IF type = "bool" THEN IF v THEN "t" ELSE "f"
                   ELSE IF type = "bytea" THEN <<"hex", v[2]>> ELSE v>>

\* The server's input of a parameter (external)
ServerInput(type, p) ==
    IF p = NULL THEN NULL
    ELSE IF type = "bool" THEN p[2] \in {"t", "true"}
    ELSE IF type = "uuid" /\ p[2] = "P" THEN "p"
    ELSE p[2]

\* vps_type_codec_decode: what xColumn hands to SQLite
Decoded(type, wire) ==
    IF wire = NULL THEN NULL
    ELSE IF type = "bool" THEN IF wire[2] = "t" THEN 1 ELSE 0
    ELSE IF type = "bytea" THEN <<"raw", wire[2][2]>>
    ELSE wire[2]

\* vps_vtab_value_compatible
ValueCompatible(type, expected, v) ==
    \/ v.class = "NULL"
    \/ IF expected = "BLOB" THEN v.class = "BLOB"
       ELSE IF type = "bool" THEN v.class = "INTEGER" /\ v.value \in {0, 1}
       ELSE IF expected = "INTEGER" THEN v.class = "INTEGER"
       ELSE v.class = "TEXT" /\ IF type = "uuid" THEN Canonical(v.value) ELSE expected = "TEXT"

\* vps_vtab_add_parameter
ScanParameter(type, expected, v) ==
    IF v.class = "NULL" THEN NULL
    ELSE IF expected = "BLOB" THEN <<"binary", v.value>>
    ELSE <<"text", IF type = "bool" THEN IF v.value = 0 THEN "false" ELSE "true" ELSE v.value>>

\* How two engines order values: SQLite's BINARY, and a server collation that is not
TextRank(engine) ==
    IF engine = "sqlite" THEN [P |-> 1, p |-> 2, q |-> 3, z |-> 4]
    ELSE [q |-> 1, P |-> 2, p |-> 3, z |-> 4]

\* NULL sorts first in both: SQLite's rule, and what NULLS FIRST / NULLS LAST asks for.
Rank(engine, type, v) ==
    IF v = NULL THEN -1000
    ELSE IF type = "text" THEN TextRank(engine)[v]
    ELSE IF type = "uuid" THEN TextRank("sqlite")[v]
    ELSE IF type = "bytea" THEN v[2]
    ELSE IF type = "bool" /\ engine = "server" THEN IF v THEN 1 ELSE 0
    ELSE v

Compare(op, x, y) ==
    CASE op \in {"EQ", "IS"} -> x = y
      [] op = "NE" -> x # y
      [] op = "LT" -> x < y
      [] op = "LE" -> x <= y
      [] op = "GT" -> x > y
      [] op = "GE" -> x >= y

\* Ranks x before ranks y by the order terms; "first" says who comes first in a tie
Before(order, x, y, first) ==
    LET less(n) == IF order[n].descending THEN x[n] > y[n] ELSE x[n] < y[n]
    IN \/ \E n \in DOMAIN order : less(n) /\ \A m \in 1..(n - 1) : x[m] = y[m]
       \/ x = y /\ first

\* LIMIT and OFFSET; a negative or absent limit is none, a negative offset is 0
Slice(s, limit, offset) ==
    LET from == IF offset = NULL \/ offset < 0 THEN 0 ELSE offset
        rest == SubSeq(s, from + 1, Len(s))
    IN IF limit = NULL \/ limit < 0 \/ limit >= Len(rest) THEN rest ELSE SubSeq(rest, 1, limit)

-----------------------------------------------------------------------------
\* xFilter and xNext.

Live == {id \in Ids : rows[id] # NULL}
Stored(id, column) == rows[id].values[column]
Local(id, column) == Decoded(Columns[column].type, Wire(Columns[column].type, Stored(id, column)))
Argument(c) == Offered[c.source]
Projected(column) == column \in Range(plan.projection)
SliceOf(op) ==
    LET ns == {n \in DOMAIN plan.constraints : plan.constraints[n].operation = op}
    IN IF ns = {} THEN NULL ELSE Argument(plan.constraints[CHOOSE n \in ns : TRUE]).value

\* An IN list in the remote query: left out when one of its items does not fit
RemoteListHolds(c, type, x) ==
    \/ \E item \in Argument(c).items : ~ValueCompatible(type, c.class, item)
    \/ /\ x # NULL
       /\ \E item \in Argument(c).items :
             ServerInput(type, ScanParameter(type, c.class, item)) = x

\* vps_vtab_build_execution, one constraint, as the server evaluates it on a row
RemoteHolds(c, id) ==
    LET type == Columns[c.column].type
        x == Stored(id, c.column)
        y == ServerInput(type, ScanParameter(type, c.class, Argument(c)))
    IN CASE c.operation \in Slices -> TRUE
         [] c.operation = "IS_NULL" -> x = NULL
         [] c.operation = "IS_NOT_NULL" -> x # NULL
         [] c.operation = "IN" -> RemoteListHolds(c, type, x)
         [] OTHER -> \/ ~ValueCompatible(type, c.class, Argument(c))
                     \/ IF "NULL_SAFE" \in c.flags
                        THEN Rank("server", type, x) = Rank("server", type, y)
                        ELSE /\ x # NULL /\ y # NULL
                             /\ Compare(c.operation, Rank("server", type, x),
                                        Rank("server", type, y))

\* vps_vtab_build_execution and the stream it starts: the rows in the server's order; the
\* server is free in the order of ties.
RemoteScan(tie) ==
    LET matching == {id \in Live : \A n \in DOMAIN plan.constraints :
                                       RemoteHolds(plan.constraints[n], id)}
        ranks(id) == [n \in DOMAIN plan.order |->
                         LET c == plan.order[n].column
                         IN Rank("server", Columns[c].type, Stored(id, c))]
    IN Slice(SetToSortSeq(matching, LAMBDA x, y :
                 Before(plan.order, ranks(x), ranks(y), tie * x < tie * y)),
             SliceOf("LIMIT"), SliceOf("OFFSET"))

-----------------------------------------------------------------------------
\* The scan of a snapshot, a table of the embedded SQLite.

\* vps_snapshot_operator: what a snapshot can test; the rest is left to the host.
SnapshotOperators == {"EQ", "NE", "LT", "LE", "GT", "GE"} \cup NullTests

\* vps_snapshot_value_from_host
SnapshotArgument(c) == IF Argument(c).class = "NULL" THEN NULL ELSE Argument(c).value

\* vps_embedded_sqlite_scan_column: a snapshot holds the decoded values.
SnapshotColumn(id, column) == Local(id, column)

\* vps_embedded_operator_sql; a comparison with NULL is not true, also that of an IS.
EmbeddedHolds(operation, type, x, y) ==
    CASE operation = "IS_NULL" -> x = NULL
      [] operation = "IS_NOT_NULL" -> x # NULL
      [] OTHER -> /\ x # NULL /\ y # NULL
                  /\ Compare(operation, Rank("sqlite", type, x), Rank("sqlite", type, y))

\* vps_snapshot_filter, one constraint on a snapshot's row
SnapshotHolds(c, id) ==
    \/ c.operation \notin SnapshotOperators
    \/ EmbeddedHolds(c.operation, Columns[c.column].type, SnapshotColumn(id, c.column),
                     IF c.operation \in NullTests THEN NULL ELSE SnapshotArgument(c))

\* vps_embedded_sqlite_scan_open and the steps of the scan: in the order of the request, and
\* among equals in the order the rows were fetched, which is the server's choice
SnapshotScan(tie) ==
    LET matching == {id \in Live : \A n \in DOMAIN plan.constraints :
                                       SnapshotHolds(plan.constraints[n], id)}
        ranks(id) == [n \in DOMAIN plan.order |->
                         LET c == plan.order[n].column
                         IN Rank("sqlite", Columns[c].type, SnapshotColumn(id, c))]
    IN Slice(SetToSortSeq(matching, LAMBDA x, y :
                 Before(plan.order, ranks(x), ranks(y), tie * x < tie * y)),
             SliceOf("LIMIT"), SliceOf("OFFSET"))

\* vps_embedded_build_scan_sql cuts " DESC" to four characters, and SQLite refuses the text.
SnapshotSqlParses == \A n \in DOMAIN plan.order : ~plan.order[n].descending

\* vps_snapshot_advance, the identity: rowid of an integer key, and a token of untyped fields
\* for any other key
SnapshotKeyFails(id) == SnapshotColumn(id, table.keys[1]) = NULL
SnapshotIdentity(id, n) ==
    LET field(c) == Field("none", IF SnapshotColumn(id, c) = NULL THEN NULL
                                  ELSE <<"text", SnapshotColumn(id, c)>>)
    IN IF table.mode = "STABLE_INTEGER" THEN SnapshotColumn(id, table.keys[1])
       ELSE IF table.mode = "HIDDEN_TOKEN"
       THEN Token([k \in DOMAIN table.keys |-> field(table.keys[k])])
       ELSE ScanNext(n - 1)

-----------------------------------------------------------------------------
\* vps_cursor_build_identity
BuildIdentity(id) ==
    LET keyField(c) == Field(Columns[c].type, Wire(Columns[c].type, Stored(id, c)))
        relation == IF case.source = "table" THEN case.catalog.oid ELSE 0
    IN Encode(relation, [n \in DOMAIN table.keys |-> keyField(table.keys[n])],
              IF case.optimistic = "OFF" THEN NULL
              ELSE IF case.optimistic = "XMIN" THEN Field("xid", <<"text", rows[id].xmin>>)
              ELSE keyField(case.version))

KeyWire(id) == Wire(Columns[table.keys[1]].type, Stored(id, table.keys[1]))

\* What xFilter and xNext refuse: the plan, the text of the scan, a column that was not
\* fetched, a row whose key is not an integer
ScanCode(ids) ==
    IF ~Decodes(EncodePlan(plan), case.source) THEN "CORRUPT_VTAB"
    ELSE IF case.source = "snapshot" /\ ~SnapshotSqlParses THEN "ERROR"
    ELSE IF case.optimistic = "COLUMN" /\ ~Projected(case.version) THEN "CORRUPT_VTAB"
    ELSE IF \E c \in Statement.used \cap DOMAIN Columns : ~Projected(c) THEN "CORRUPT_VTAB"
    ELSE IF table.mode = "STABLE_INTEGER"
            /\ \E id \in Range(ids) : IF case.source = "snapshot" THEN SnapshotKeyFails(id)
                                       ELSE StableIntegerFails(KeyWire(id))
         THEN "ERROR"
    ELSE "OK"

\* The n-th row of the scan, as SQLite sees it and with what it was read from (history)
Item(ids, n) ==
    [id |-> ids[n], read |-> rows[ids[n]],
     identity |-> IF case.source = "snapshot" THEN SnapshotIdentity(ids[n], n)
                  ELSE IF table.mode = "STABLE_INTEGER" THEN StableInteger(KeyWire(ids[n]))
                  ELSE IF table.mode = "HIDDEN_TOKEN" THEN BuildIdentity(ids[n])
                  ELSE ScanNext(n - 1)]

\* A term of WHERE as SQLite evaluates it (external)
SqliteHolds(term, id) ==
    IF term.column = Hidden THEN id = term.value
    ELSE LET type == Columns[term.column].type
             x == Local(id, term.column)
             equal(v) == /\ x # NULL /\ v.class = (IF type \in {"int4", "bool"} THEN "INTEGER"
                                                   ELSE IF type = "bytea" THEN "BLOB" ELSE "TEXT")
                         /\ x = v.value
         IN CASE term.op = "ISNULL" -> x = NULL
              [] term.op = "ISNOTNULL" -> x # NULL
              [] term.op = "INLIST" -> \E item \in term.items : equal(item)
              [] term.op \in {"EQ", "LIKE"} -> equal(term)
              [] term.op = "IS" -> equal(term) \/ (x = NULL /\ term.class = "NULL")
              [] OTHER -> /\ x # NULL
                          /\ Compare(term.op, Rank("sqlite", type, x),
                                     Rank("sqlite", type, term.value))

\* vps_module_filter and the xNext calls to the end of the scan; SQLite tests what it was not
\* told to omit.  An UPDATE or DELETE collects the rows it will write, but stops at the
\* first one of a scan that promised a unique row.
Filter ==
    /\ phase = "filter"
    /\ UNCHANGED <<case, last, changes, dropped, clock>>
    /\ \E tie \in {1, -1} :
          LET ids == IF case.source = "snapshot" THEN SnapshotScan(tie) ELSE RemoteScan(tie)
              kept == SelectSeq([n \in DOMAIN ids |-> Item(ids, n)],
                                LAMBDA i : \A n \in DOMAIN Statement.where :
                                    Omitted(n) \/ SqliteHolds(Statement.where[n], i.id))
          IN IF ScanCode(ids) # "OK" THEN Fails(ScanCode(ids))
             ELSE /\ found' = IF Statement.op # "SELECT" /\ plan.unique THEN Slice(kept, 1, 0)
                              ELSE kept
                  /\ phase' = IF Statement.op = "SELECT" THEN "answer" ELSE "write"
                  /\ UNCHANGED <<table, plan, rows, undo, code>>

\* SQLite ends a SELECT (external): it sorts unless the order was consumed, skips the offset
\* unless it was told to omit it, and always counts the limit.
Answer ==
    /\ phase = "answer"
    /\ LET ranks(row) == [n \in DOMAIN Statement.order |->
                             LET c == Statement.order[n].column
                             IN IF c = Hidden THEN row.id
                                ELSE Rank("sqlite", Columns[c].type, Local(row.id, c))]
           sorted == SetToSortSeq(DOMAIN found, LAMBDA x, y :
                         Before(Statement.order, ranks(found[x]), ranks(found[y]), x < y))
           offset == Len(Statement.where) + (IF Statement.limit = NULL THEN 1 ELSE 2)
       IN found' = Slice(IF plan.orderConsumed THEN found
                         ELSE [n \in DOMAIN sorted |-> found[sorted[n]]],
                         Statement.limit, IF Omitted(offset) THEN NULL ELSE Statement.offset)
    /\ phase' = "done"
    /\ UNCHANGED <<case, table, plan, rows, undo, last, code, changes, dropped, clock>>

-----------------------------------------------------------------------------
\* xUpdate.

\* vps_dml_append_parameter: the value classes a column takes, and what is sent
DmlFits(type, v) ==
    \/ v.class = "NULL"
    \/ IF type = "bytea" THEN v.class = "BLOB"
       ELSE IF type = "bool" THEN v.class = "INTEGER" ELSE v.class # "BLOB"
DmlParameter(type, v) ==
    IF v.class = "NULL" THEN NULL
    ELSE IF type = "bytea" THEN <<"binary", v.value>>
    ELSE <<"text", IF type = "bool" THEN IF v.value # 0 THEN "t" ELSE "f" ELSE v.value>>

\* vps_dml_append_identity_parameter: the bytes of the token's field, for bytea as binary
IdentityParameter(type, field) ==
    IF field.value = NULL THEN NULL
    ELSE <<IF type = "bytea" THEN "binary" ELSE "text", field.value[2]>>

\* vps_dml_identity_from_sqlite
IdentityReadable(value) == table.mode = "HIDDEN_TOKEN" => Decodable(value)
IdentityFromSqlite(value) ==
    IF table.mode = "HIDDEN_TOKEN" THEN Decode(value)
    ELSE [relation |-> case.catalog.oid, optimistic |-> NULL,
          keys |-> <<Field(Columns[table.keys[1]].type, <<"text", value>>)>>]

\* The values of the columns a statement sets, as they reach the server
NewValues(set) ==
    [c \in DOMAIN set |-> ServerInput(Columns[c].type, DmlParameter(Columns[c].type, set[c]))]

\* The rows an UPDATE or DELETE matches on the server
Matched(identity) ==
    LET policy == table.policy
        input(type, field) == ServerInput(type, IdentityParameter(type, field))
        keys == [n \in DOMAIN policy.keys |-> input(Columns[policy.keys[n]].type, identity.keys[n])]
        optimistic == IF policy.optimistic = "OFF" THEN NULL
                      ELSE input(identity.optimistic.type, identity.optimistic)
    IN {id \in Live : Predicate(policy, keys, optimistic, rows[id])}

\* The relation once the statement has changed the rows in "ids" (external)
Written(ids) ==
    [id \in Ids |->
        IF id \notin ids THEN rows[id]
        ELSE IF Statement.op = "DELETE" THEN NULL
        ELSE [values |-> NewValues(Statement.set) @@ rows[id].values, xmin |-> clock]]

\* Faulty: the first returned row settles the matter.
UpdateCodeAtFirstRow(operation, affected) ==
    LET count == Cardinality(affected)
        verdict == ClassifyCount(operation, case.optimistic, count)
    IN IF count = 0
       THEN IF verdict = "CONFLICT" THEN "BUSY"
            ELSE IF verdict = "NOT_FOUND" THEN "CONSTRAINT" ELSE "ERROR"
       ELSE "OK"

\* vps_module_update after execution: no row, or one row, the end of the result and a count
\* of one
UpdateCode(operation, affected) ==
    LET count == Cardinality(affected)
        verdict == ClassifyCount(operation, case.optimistic, count)
    IN IF count = 0
       THEN IF verdict = "CONFLICT" THEN "BUSY"
            ELSE IF verdict = "NOT_FOUND" THEN "CONSTRAINT" ELSE "ERROR"
       ELSE IF count = 1 /\ verdict = "OK" THEN "OK"
       ELSE "ERROR"

\* vps_dml_find_visible: columns are known by their number, of which 9 is the name of none.
FindVisible(name) == name \in DOMAIN Columns

\* vps_dml_insert_included: the columns an INSERT sends.  __vps_omit is NULL, "*" (here <<0>>)
\* or a list of names; the columns it names take their defaults.
IncludedFails(omit) ==
    /\ omit.class # "NULL"
    /\ omit.class # "TEXT" \/ (omit.value # <<0>> /\ \E n \in Range(omit.value) : ~FindVisible(n))
Included(omit) ==
    IF omit.class = "NULL" THEN DOMAIN Columns
    ELSE IF omit.value = <<0>> THEN {} ELSE DOMAIN Columns \ Range(omit.value)

\* The values xUpdate sends: of an INSERT for every included column, of an UPDATE for those
\* SQLite does not mark as unchanged
Given(operation) ==
    IF operation = "DELETE" THEN <<>>
    ELSE IF operation = "UPDATE" THEN Statement.set
    ELSE [c \in Included(Statement.omit) |-> Statement.set[c]]

\* What vps_module_update answers before it executes anything
RefusedCode(operation, value) ==
    LET set == Given(operation)
        planned == PlanResult(table.policy, operation, DOMAIN set,
                              IF operation = "INSERT" THEN NULL ELSE IdentityFromSqlite(value))
    IN IF table.policy = NULL THEN "READONLY"
       ELSE IF operation = "INSERT" /\ IncludedFails(Statement.omit) THEN "MISMATCH"
       ELSE IF operation # "INSERT" /\ ~IdentityReadable(value) THEN "CORRUPT_VTAB"
       ELSE IF planned \in {"GENERATED_COLUMN", "IDENTITY_ALWAYS"} THEN "CONSTRAINT"
       ELSE IF planned # "OK" THEN "ERROR"
       ELSE IF \E c \in DOMAIN set : ~DmlFits(Columns[c].type, set[c]) THEN "MISMATCH"
       ELSE "OK"

\* The end of one xUpdate: SQLite goes on after OK and otherwise ends the statement.
Settles(item, affected, content, rc) ==
    /\ last' = [item |-> item, affected |-> affected, before |-> rows, code |-> rc,
                own |-> DOMAIN undo,
                legal |-> item.id \in Live /\ Respects(Written({item.id}))]
    /\ clock' = clock + 1
    /\ UNCHANGED <<case, changes, dropped>>
    /\ IF rc # "OK" THEN Fails(rc)
       ELSE /\ rows' = content
            /\ undo' = undo @@ [id \in affected |-> rows[id]]
            /\ UNCHANGED <<table, plan, code>>

\* vps_module_update for the next row an UPDATE or DELETE found
Update ==
    /\ phase = "write" /\ found # <<>>
    /\ LET item == Head(found)
           refused == RefusedCode(Statement.op, item.identity)
           affected == Matched(IdentityFromSqlite(item.identity))
           content == Written(affected)
       IN IF refused # "OK" THEN Settles(item, {}, rows, refused)
          ELSE IF ~Respects(content) THEN Settles(item, {}, rows, "CONSTRAINT")
          ELSE /\ Settles(item, affected, content, UpdateCode(Statement.op, affected))
               /\ UpdateCode(Statement.op, affected) = "OK" =>
                     found' = Tail(found) /\ phase' = "write"

\* vps_module_update for an INSERT; RETURNING gives SQLite the new rowid.
Insert ==
    /\ phase = "insert"
    /\ LET id == CHOOSE n \in Ids : rows[n] = NULL /\ \A m \in Live : n > m
           absent(c) == IF Columns[c].identity = "none" THEN NULL ELSE clock
           row == [values |-> NewValues(Given("INSERT"))
                              @@ [c \in DOMAIN Columns |-> absent(c)],
                   xmin |-> clock]
           content == [rows EXCEPT ![id] = row]
           refused == RefusedCode("INSERT", NULL)
           item == [id |-> id, read |-> NULL, identity |-> NULL]
           noRowid == /\ table.mode = "STABLE_INTEGER"
                      /\ StableIntegerFails(Wire("int4", row.values[Returning(table.policy)[1]]))
           rc == IF refused # "OK" THEN refused
                 ELSE IF ~Respects(content) THEN "CONSTRAINT"
                 ELSE IF noRowid THEN "ERROR"
                 ELSE UpdateCode("INSERT", {id})
       IN /\ Settles(item, {id}, content, rc)
          /\ rc = "OK" => phase' = "done" /\ UNCHANGED found

Done ==
    /\ phase = "write" /\ found = <<>>
    /\ phase' = "done"
    /\ UNCHANGED <<case, table, plan, rows, found, undo, last, code, changes, dropped, clock>>

-----------------------------------------------------------------------------
\* Other sessions, between the scan and the writes.  They change no row this statement has
\* written and hold to the constraints; a writer bumps the version column.

Interferes ==
    /\ phase = "write" /\ changes < MaxChanges
    /\ changes' = changes + 1 /\ clock' = clock + 1
    /\ UNCHANGED <<case, phase, table, plan, found, undo, last, code>>

Stamped(values) ==
    IF case.optimistic = "COLUMN" THEN [values EXCEPT ![case.version] = clock] ELSE values

OtherUpdates ==
    /\ Interferes /\ UNCHANGED dropped
    /\ \E id \in Live \ DOMAIN undo, values \in Range(case.rows) :
          LET row == [values |-> Stamped(values), xmin |-> clock]
          IN /\ Respects([rows EXCEPT ![id] = row])
             /\ rows' = [rows EXCEPT ![id] = row]

OtherDeletes ==
    /\ Interferes /\ UNCHANGED dropped
    /\ \E id \in Live \ DOMAIN undo : rows' = [rows EXCEPT ![id] = NULL]

OtherInserts ==
    /\ Interferes /\ UNCHANGED dropped
    /\ \E id \in Ids \ (Live \cup DOMAIN undo), values \in Range(case.rows) :
          LET row == [values |-> Stamped(values), xmin |-> clock]
          IN /\ \A n \in 1..(id - 1) : n \in Live \cup DOMAIN undo
             /\ Respects([rows EXCEPT ![id] = row])
             /\ rows' = [rows EXCEPT ![id] = row]

OtherDropsIndexes ==
    /\ Interferes /\ ~dropped /\ dropped' = TRUE
    /\ UNCHANGED rows

Finished == phase \in {"done", "failed"} /\ UNCHANGED vars

Next ==
    \/ Connect \/ Prepare \/ Filter \/ Answer \/ Update \/ Insert \/ Done
    \/ OtherUpdates \/ OtherDeletes \/ OtherInserts \/ OtherDropsIndexes
    \/ Finished

Spec == Init /\ [][Next]_vars

-----------------------------------------------------------------------------
\* Properties.

Matches(id) == \A n \in DOMAIN Statement.where : SqliteHolds(Statement.where[n], id)

\* LIMIT is handed to the server although a term on the hidden column, or one xBestIndex does
\* not know, is left to SQLite, or although SQLite sorts by the hidden column.
SlicedTooEarly ==
    /\ Statement.limit # NULL \/ Statement.offset # NULL
    /\ \/ \E n \in DOMAIN Statement.where :
             Statement.where[n].column = Hidden \/ Statement.where[n].op = "LIKE"
       \/ \E n \in DOMAIN Statement.order : Statement.order[n].column = Hidden

\* The hidden column is dropped from an order that is then reported as consumed.
OrderCut == \E n \in DOMAIN Statement.order : Statement.order[n].column = Hidden

\* A SELECT gives the rows SQLite alone would give: whatever was pushed to the server or to a
\* snapshot (xBestIndex and vps_planner_compile), omitted, rechecked or sorted remotely, the
\* answer is a slice of the matching rows in the order asked for.
AnswerIsRight ==
    phase = "done" /\ Statement.op = "SELECT" /\ ~SlicedTooEarly /\ ~OrderCut =>
        LET matching == {id \in Live : Matches(id)}
            keys(id) == [n \in DOMAIN Statement.order |->
                            LET c == Statement.order[n].column
                            IN Rank("sqlite", Columns[c].type, Local(id, c))]
            right == Slice(SetToSortSeq(matching, LAMBDA x, y :
                               Before(Statement.order, keys(x), keys(y), x < y)),
                           Statement.limit, Statement.offset)
        IN /\ Len(found) = Len(right)
           /\ Cardinality({found[n].id : n \in DOMAIN found}) = Len(found)
           /\ \A n \in DOMAIN found : /\ found[n].id \in matching
                                      /\ keys(found[n].id) = keys(right[n])

ScanFailed == phase = "failed" /\ plan # NULL /\ last = NULL

\* A key of one integer column that admits NULL: xNext refuses the row that has it.
NullRowid ==
    table.mode = "STABLE_INTEGER" /\ \E id \in Live : Stored(id, table.keys[1]) = NULL

\* Every plan xBestIndex makes can be executed: xFilter reads it back, builds the query, and
\* xColumn and the row identity find their columns in the projection.
PlanServes ==
    ScanFailed => NullRowid \/ (case.source = "snapshot" /\ ~SnapshotSqlParses)

\* "Subsequent cursors obtain a reference-counted lease and evaluate exact predicates,
\* projection, compatible ordering, and consumed limit/offset locally": a snapshot serves
\* every order it consumed (vps_embedded_build_scan_sql).
SnapshotServes == ScanFailed => NullRowid

Key(row) == [n \in DOMAIN table.keys |-> row.values[table.keys[n]]]

\* An UPDATE or DELETE that SQLite is told succeeded changed exactly one row, one with the key
\* xNext read; also after the index that made the key unique is gone (vps_module_update).
OneRowPerWrite ==
    last # NULL /\ last.code = "OK" /\ last.item.read # NULL =>
        /\ Cardinality(last.affected) = 1
        /\ \A id \in last.affected : Key(last.before[id]) = Key(last.item.read)

\* With optimistic locking no acknowledged write overwrites or removes a row that another
\* session changed after it was read (vps_dml_original_predicate).  A row this statement has
\* itself written before is not meant: nothing bumps its version.
NoLostUpdate ==
    last # NULL /\ last.code = "OK" /\ last.item.read # NULL /\ case.optimistic # "OFF" =>
        \A id \in last.affected \ last.own : last.before[id] = last.item.read

\* The statement asks for nothing the catalog forbids.
Permitted ==
    LET set == IF Statement.op = "DELETE" THEN <<>> ELSE Statement.set IN
    /\ table.policy # NULL
    /\ \A c \in DOMAIN set : /\ ~Columns[c].generated /\ DmlFits(Columns[c].type, set[c])
                             /\ Columns[c].identity = "none"
                             /\ Columns[c].type \notin {"composite", "other"}
ByteaKey == \E n \in DOMAIN table.keys : Columns[table.keys[n]].type = "bytea"

\* A row nobody else touched can be written: its identity survives xColumn, SQLite and
\* vps_dml_identity_from_sqlite, and the statement finds it, NULLs in its key included.
WriteReaches ==
    last # NULL /\ last.item.read # NULL /\ changes = 0 /\ last.legal /\ Permitted /\ ~ByteaKey =>
        last.code = "OK"

\* "bytea uses binary format": rows keyed by bytea are written like the others
\* (vps_dml_append_identity_parameter).
ByteaKeyReaches ==
    last # NULL /\ last.item.read # NULL /\ changes = 0 /\ last.legal /\ Permitted =>
        last.code = "OK"

\* The same key column twice in WHERE makes a plan "unique" over a key of two columns.
RepeatedKey ==
    \E m, n \in DOMAIN Statement.where :
        m # n /\ Statement.where[m] = Statement.where[n]

\* Undisturbed, an UPDATE or DELETE that ends well has changed exactly the rows its WHERE
\* holds of, also when xBestIndex promised SQLite a single row.
AffectsMatching ==
    /\ phase = "done" /\ Statement.op \in {"UPDATE", "DELETE"} /\ changes = 0 /\ ~RepeatedKey
    => LET were == undo @@ rows
       IN DOMAIN undo = {id \in Ids : /\ were[id] # NULL
                                      /\ \A n \in DOMAIN Statement.where :
                                            LET t == Statement.where[n] IN
                                            Decoded(Columns[t.column].type,
                                                    Wire(Columns[t.column].type,
                                                         were[id].values[t.column])) = t.value}
=============================================================================
