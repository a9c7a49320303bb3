---------------------------- MODULE MCStatements ----------------------------
(***************************************************************************)
(* Cases for Statements: SELECTs that combine the constraints, orders and  *)
(* limits the planner tells apart, over a table with a hidden identity, a  *)
(* remote query and a snapshot; and UPDATE, DELETE and INSERT over         *)
(* relations whose catalogs differ in all the planner of writes looks at.  *)
(***************************************************************************)
EXTENDS Statements

Column(attnum, type, notNull) ==
    [attnum |-> attnum, type |-> type, notNull |-> notNull, dropped |-> FALSE,
     generated |-> FALSE, identity |-> "none"]

Unique(attributes, keyCount) ==
    [oid |-> 1, primary |-> FALSE, unique |-> TRUE, valid |-> TRUE, ready |-> TRUE,
     immediate |-> TRUE, partial |-> FALSE, expression |-> FALSE, nullsNotDistinct |-> FALSE,
     deferrable |-> FALSE, attributes |-> attributes, keyCount |-> keyCount]

Relation(columns, indexes) ==
    [oid |-> 7, relkind |-> "r", partition |-> FALSE, children |-> FALSE, columns |-> columns,
     indexes |-> indexes, partitioned |-> <<>>]

Term(column, op, rhs, class, value) ==
    [column |-> column, op |-> op, rhs |-> rhs, class |-> class, value |-> value,
     items |-> {}, usable |-> TRUE]
Value(class, value) == [class |-> class, value |-> value]
Ascending(column) == [column |-> column, descending |-> FALSE]
Descending(column) == [column |-> column, descending |-> TRUE]

-----------------------------------------------------------------------------
\* SELECT over columns a, b (nullable), t, keyed by (a, b).

ColumnTypes == {<<"int4", "int4", "text">>, <<"int4", "bool", "uuid">>}
SelectRows(types) ==
    LET b(n) == IF types[2] = "bool" THEN n = 1 ELSE n
    IN <<<<0, NULL, "p">>, <<0, b(1), "q">>, <<1, b(0), "p">>, <<1, b(1), "q">>>>

\* The terms of WHERE the planner tells apart
Terms ==
    <<Term(1, "EQ", "literal", "INTEGER", 1),
      Term(1, "EQ", "parameter", "INTEGER", 1),
      Term(1, "EQ", "literal", "TEXT", "z"),
      [Term(1, "INLIST", "list", "INTEGER", 0) EXCEPT
           !.items = {Value("INTEGER", 0), Value("INTEGER", 2)}],
      [Term(1, "INLIST", "list", "INTEGER", 0) EXCEPT
           !.items = {Value("INTEGER", 1), Value("TEXT", "z"), Value("NULL", 0)}],
      Term(2, "GT", "literal", "INTEGER", 0),
      Term(2, "NE", "literal", "INTEGER", 1),
      Term(2, "EQ", "literal", "INTEGER", 2),
      Term(2, "EQ", "literal", "NULL", 0),
      Term(2, "ISNULL", "none", "NULL", 0),
      Term(2, "ISNOTNULL", "none", "NULL", 0),
      Term(2, "IS", "literal", "INTEGER", 1),
      Term(2, "IS", "parameter", "NULL", 0),
      Term(3, "EQ", "literal", "TEXT", "p"),
      Term(3, "EQ", "literal", "TEXT", "P"),
      Term(3, "LT", "literal", "TEXT", "q"),
      Term(3, "LIKE", "literal", "TEXT", "p"),
      Term(4, "EQ", "parameter", "BLOB", 2),
      [Term(1, "EQ", "join", "INTEGER", 1) EXCEPT !.usable = FALSE]>>
Wheres ==
    {<<>>} \cup {<<Terms[m]>> : m \in DOMAIN Terms}
    \cup {<<Terms[m], Terms[n]>> : <<m, n>> \in {p \in (1..Len(Terms)) \X (1..Len(Terms)) : p[1] < p[2]}}

Orders ==
    {<<>>, <<Ascending(1)>>, <<Descending(2)>>, <<Ascending(2), Descending(1)>>,
     <<Ascending(3)>>, <<Ascending(1), Ascending(3)>>, <<Ascending(4), Ascending(1)>>}

\* LIMIT and OFFSET
Windows == {<<NULL, NULL>>, <<1, NULL>>, <<2, 1>>, <<-1, 1>>, <<1, -1>>}

\* SQLite offers neither an order nor a limit next to an unusable term, and no limit next to
\* one with other prerequisites.
Offerable(where, order, window) ==
    (\E n \in DOMAIN where : ~where[n].usable) => order = <<>> /\ window[1] = NULL

Select(where, order, window) ==
    [op |-> "SELECT", where |-> where, order |-> order, limit |-> window[1],
     offset |-> window[2], set |-> <<>>, omit |-> Value("NULL", <<>>),
     used |-> {3} \cup {where[n].column : n \in DOMAIN where}
                 \cup {order[n].column : n \in DOMAIN order}]

\* The table and the snapshot are keyed by (a, b) and have a hidden column, the query has not.
HasHidden(where, order) ==
    \/ \E n \in DOMAIN where : where[n].column = 4
    \/ \E n \in DOMAIN order : order[n].column = 4

SelectCase(c) ==
    \E source \in {"table", "query", "snapshot"}, types \in ColumnTypes, where \in Wheres,
       order \in Orders, window \in Windows :
        /\ Offerable(where, order, window)
        /\ HasHidden(where, order) => source # "query"
        /\ c = [source |-> source, rw |-> FALSE, optimistic |-> "OFF", version |-> 0,
                catalog |-> Relation(<<Column(1, types[1], FALSE), Column(2, types[2], FALSE),
                                       Column(3, types[3], FALSE)>>,
                                     {[Unique(<<1, 2>>, 2) EXCEPT !.nullsNotDistinct = TRUE]}),
                keys |-> IF source = "snapshot" THEN <<1, 2>> ELSE <<>>,
                indexes |-> IF source = "snapshot" THEN <<<<3>>, <<1, 2>>>> ELSE <<>>,
                rows |-> SelectRows(types), statement |-> Select(where, order, window)]

-----------------------------------------------------------------------------
\* Writes over columns a (the key), b, t and a version v.

KeyTypes == {"int4", "text", "bytea"}
KeyValue(type, n) ==
    IF type = "int4" THEN n ELSE IF type = "text" THEN IF n = 0 THEN "p" ELSE "q" ELSE <<"raw", n>>
KeyClass(type) == IF type = "int4" THEN "INTEGER" ELSE IF type = "text" THEN "TEXT" ELSE "BLOB"

Contents(type) ==
    LET k(n) == KeyValue(type, n) IN
    {<<<<k(0), 0, "p", 1>>, <<k(1), 0, "q", 1>>>>,
     <<<<k(1), 0, "p", 1>>, <<k(1), 1, "q", 1>>>>,
     <<<<k(1), NULL, "p", 1>>, <<k(1), 1, "q", 1>>>>,
     <<<<NULL, 0, "p", 1>>, <<k(1), 1, "q", 1>>>>}

WriteColumns(type, notNull) ==
    <<Column(1, type, notNull), Column(2, "int4", FALSE), Column(3, "text", FALSE),
      Column(4, "int4", TRUE)>>

\* Indexes that are a key, or fail to be one in one way
IndexMenu ==
    {Unique(<<1>>, 1), Unique(<<1, 2>>, 2), Unique(<<1, 3>>, 1),
     [Unique(<<1>>, 1) EXCEPT !.primary = TRUE],
     [Unique(<<1>>, 1) EXCEPT !.nullsNotDistinct = TRUE],
     [Unique(<<1, 2>>, 2) EXCEPT !.nullsNotDistinct = TRUE],
     [Unique(<<1>>, 1) EXCEPT !.unique = FALSE],
     [Unique(<<1>>, 1) EXCEPT !.valid = FALSE],
     [Unique(<<1>>, 1) EXCEPT !.ready = FALSE],
     [Unique(<<1>>, 1) EXCEPT !.immediate = FALSE],
     [Unique(<<1>>, 1) EXCEPT !.partial = TRUE],
     [Unique(<<1>>, 1) EXCEPT !.expression = TRUE],
     [Unique(<<1>>, 1) EXCEPT !.deferrable = TRUE]}
Second == [Unique(<<1, 2>>, 2) EXCEPT !.oid = 2, !.nullsNotDistinct = TRUE]

\* An ordinary relation
Plain(type, notNull, indexes) == Relation(WriteColumns(type, notNull), indexes)
Keyed == Plain("int4", TRUE, {Unique(<<1>>, 1)})

\* Relations of other kinds and with columns of other kinds
OddRelations ==
    {[Keyed EXCEPT !.children = TRUE], [Keyed EXCEPT !.partition = TRUE],
     [Keyed EXCEPT !.relkind = "v"], [Keyed EXCEPT !.relkind = "S"],
     [Keyed EXCEPT !.relkind = "p", !.partitioned = <<1>>],
     [Keyed EXCEPT !.relkind = "p", !.partitioned = <<2>>],
     [Keyed EXCEPT !.relkind = "p", !.partitioned = <<0>>],
     [Keyed EXCEPT !.columns[2].generated = TRUE],
     [Keyed EXCEPT !.columns[2].identity = "always"],
     [Keyed EXCEPT !.columns[2].identity = "default"],
     [Keyed EXCEPT !.columns[3].type = "composite"],
     [Keyed EXCEPT !.columns = <<[Column(1, "text", FALSE) EXCEPT !.dropped = TRUE],
                                 Column(2, "int4", TRUE), Column(3, "int4", FALSE),
                                 Column(4, "text", FALSE), Column(5, "int4", TRUE)>>,
                   !.indexes = {Unique(<<2>>, 1)}]}

Write(op, where, set, omit) ==
    [op |-> op, where |-> where, order |-> <<>>, limit |-> NULL, offset |-> NULL, set |-> set,
     omit |-> omit, used |-> {where[n].column : n \in DOMAIN where}]

ByKey(type) == Term(1, "EQ", "literal", KeyClass(type), KeyValue(type, 1))
WriteWheres(type) ==
    {<<>>, <<ByKey(type)>>, <<ByKey(type), ByKey(type)>>,
     <<ByKey(type), Term(2, "EQ", "literal", "INTEGER", 1)>>}

Sets(type) ==
    {3 :> Value("TEXT", "z"), 2 :> Value("INTEGER", 5), 1 :> Value("NULL", 0),
     1 :> Value(KeyClass(type), KeyValue(type, 0))}

Full(type) == <<Value(KeyClass(type), KeyValue(type, 0)), Value("INTEGER", 1),
                Value("TEXT", "z"), Value("INTEGER", 1)>>
\* The values of __vps_omit: nothing, "b", "a,b", "*", a name no column has, a number
Omits ==
    {Value("NULL", <<>>), Value("TEXT", <<2>>), Value("TEXT", <<1, 2>>), Value("TEXT", <<0>>),
     Value("TEXT", <<9>>), Value("INTEGER", <<1>>)}
Writes(type) ==
    LET none == Value("NULL", <<>>) IN
    {Write("DELETE", where, <<>>, none) : where \in WriteWheres(type)}
    \cup {Write("UPDATE", where, set, none) : where \in {<<>>, <<ByKey(type)>>}, set \in Sets(type)}
    \cup {Write("INSERT", <<>>, Full(type), omit) : omit \in Omits}

Modes == {"OFF", "XMIN", "COLUMN"}

\* Writes with a given catalog
WriteOver(c, catalog, type, rw, modes) ==
    \E mode \in modes, content \in Contents(type), statement \in Writes(type) :
        c = [source |-> "table", rw |-> rw, optimistic |-> mode,
             version |-> IF mode = "COLUMN" THEN 4 ELSE 0, catalog |-> catalog, keys |-> <<>>,
             indexes |-> <<>>, rows |-> content, statement |-> statement]

\* Every index, alone and next to a second key; every key type; every kind of relation,
\* read-only too
WriteCase(c) ==
    \/ \E notNull \in BOOLEAN, index \in IndexMenu, second \in {{}, {Second}} :
          WriteOver(c, Plain("int4", notNull, {index} \cup second), "int4", TRUE, Modes)
    \/ \E type \in KeyTypes :
          WriteOver(c, Plain(type, TRUE, {Unique(<<1>>, 1)}), type, TRUE, Modes)
    \/ \E catalog \in OddRelations, rw \in BOOLEAN :
          WriteOver(c, catalog, "int4", rw, IF rw THEN {"OFF", "XMIN"} ELSE {"OFF"})

AnyCase(c) == SelectCase(c) \/ WriteCase(c)
=============================================================================
