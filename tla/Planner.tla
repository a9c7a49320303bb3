------------------------------ MODULE Planner -------------------------------
(***************************************************************************)
(* The query planner of src/src/vps_planner.c: from the constraints and    *)
(* the order SQLite offers to xBestIndex to a plan, and the checks a plan  *)
(* passes when xFilter reads it back.  Columns are numbered from 1 (the    *)
(* code counts from 0).  Left out: the limits on columns, constraints and  *)
(* order terms, the cost, and columns past the 63rd.                       *)
(***************************************************************************)
EXTENDS Integers, Sequences, FiniteSets, Functions, SequencesExt

NullTests == {"IS_NULL", "IS_NOT_NULL"}
Slices == {"LIMIT", "OFFSET"}

\* vps_plan_value_exact: the server decides the constraint exactly as SQLite would.
ValueExact(capabilities, operation, class) ==
    \/ operation \in NullTests
    \/ /\ {"EQUALITY", "EXACT"} \subseteq capabilities
       /\ operation \in {"EQ", "NE", "IN"} \/ "ORDER" \in capabilities
       /\ class \in IF "BINARY" \in capabilities THEN {"BLOB"} ELSE {"INTEGER", "TEXT"}

PlanOperation(input) == IF input.in THEN "IN" ELSE input.operation

\* The constraints vps_planner_compile looks at; it passes over the others silently.
Considered(request, input) ==
    /\ input.usable /\ input.operation \notin Slices
    /\ input.column \in DOMAIN request.columns

\* A constraint the plan evaluates remotely
Pushed(request, input) ==
    /\ Considered(request, input)
    /\ \/ input.nullSafe /\ input.class = "NULL"
       \/ ValueExact(request.columns[input.column], PlanOperation(input), input.class)

\* order_exact
OrderExact(request) ==
    \A n \in DOMAIN request.order :
        /\ request.order[n].column \in DOMAIN request.columns
        /\ {"ORDER", "EXACT"} \subseteq request.columns[request.order[n].column]

\* Faulty: an IN list evaluated remotely needs no second look.
HasRecheckTrustingLists(request) ==
    \/ \E n \in DOMAIN request.constraints :
          LET input == request.constraints[n]
          IN Considered(request, input) /\ ~Pushed(request, input)
    \/ ~OrderExact(request)

\* has_recheck: SQLite still has to look at rows, or to sort them.
HasRecheck(request) ==
    \/ \E n \in DOMAIN request.constraints :
          LET input == request.constraints[n]
          IN Considered(request, input) /\ (~Pushed(request, input) \/ input.in)
    \/ ~OrderExact(request)

\* The plan's form of an input, before arguments are numbered
PlanConstraint(request, input) ==
    LET slice == input.operation \in Slices IN
    [column |-> IF slice THEN 0 ELSE input.column,
     operation |-> PlanOperation(input), source |-> input.source,
     class |-> IF slice THEN "INTEGER" ELSE input.class, argument |-> 0,
     flags |-> {"EXACT"} \cup (IF input.in THEN {"IN", "RECHECK"} ELSE {})
               \cup (IF ~slice /\ input.nullSafe THEN {"NULL_SAFE"} ELSE {})
               \cup (IF ~slice /\ input.column \in Range(request.keys) THEN {"KEY"} ELSE {})]

\* argument_index: constraints with a value are numbered in plan order.
TakesArgument(c) == c.operation \notin NullTests
Numbered(constraints) ==
    [n \in DOMAIN constraints |->
        [constraints[n] EXCEPT !.argument =
            IF TakesArgument(constraints[n])
            THEN Cardinality({m \in 1..n : TakesArgument(constraints[m])}) ELSE 0]]

\* vps_plan_add_projection
AddProjection(projection, column) ==
    IF Contains(projection, column) THEN projection ELSE Append(projection, column)

\* vps_planner_compile, the columns to fetch: used and key columns in table order, then those
\* of pushed constraints and of a consumed order.
Projection(request, pushed, order) ==
    LET wanted == request.used \cup Range(request.keys)
        first == SetToSortSeq(wanted \cap DOMAIN request.columns, LAMBDA x, y : x < y)
        base == IF first = <<>> THEN <<1>> ELSE first
        more == [n \in DOMAIN pushed |-> pushed[n].column]
                \o [n \in DOMAIN order |-> order[n].column]
    IN FoldLeft(AddProjection, base, more)

\* Faulty: one column of the key is taken for all of it.
ExactKeyPartsOfAny(request, pushed) ==
    IF \E n \in DOMAIN pushed : "KEY" \in pushed[n].flags /\ pushed[n].operation = "EQ"
    THEN Len(request.keys) ELSE 0

\* exact_key_parts counts constraints, not columns.
ExactKeyParts(request, pushed) ==
    Cardinality({n \in DOMAIN pushed : "KEY" \in pushed[n].flags /\ pushed[n].operation = "EQ"})

\* vps_planner_compile
Compile(request) ==
    LET inputs == request.constraints
        pushed == [n \in DOMAIN SelectSeq(inputs, LAMBDA c : Pushed(request, c)) |->
                     PlanConstraint(request, SelectSeq(inputs, LAMBDA c : Pushed(request, c))[n])]
        slices == SelectSeq(inputs, LAMBDA c : /\ c.usable /\ c.operation \in Slices
                                               /\ ~HasRecheck(request))
        order  == IF OrderExact(request) THEN request.order ELSE <<>>
        all    == Numbered(pushed \o [n \in DOMAIN slices |-> PlanConstraint(request, slices[n])])
        unique == request.keys # <<>> /\ ExactKeyParts(request, pushed) = Len(request.keys)
        divisor == 1 + 8 * Len(all) + (IF request.indexPrefix # 0 THEN 16 ELSE 0)
    IN [fingerprint |-> request.fingerprint,
        projection |-> Projection(request, pushed, order), constraints |-> all, order |-> order,
        arguments |-> Cardinality({n \in DOMAIN all : TakesArgument(all[n])}),
        orderConsumed |-> order # <<>>, unique |-> unique, recheck |-> HasRecheck(request),
        rows |-> IF unique \/ request.baseRows < divisor THEN 1
                 ELSE request.baseRows \div divisor,
        indexPrefix |-> request.indexPrefix, index |-> request.index]

\* vps_plan_encode, the idxStr: a header with the flags and the counts, then the projection,
\* the constraints and the order terms
EncodePlan(plan) ==
    <<[plan EXCEPT !.projection = Len(@), !.constraints = Len(@), !.order = Len(@)]>>
    \o plan.projection \o plan.constraints \o plan.order

\* vps_plan_decode, the fields: the counts say where each list begins and ends.
DecodePlan(wire) ==
    LET header == Head(wire)
        part(from, count) == SubSeq(wire, from + 1, from + count)
        constraints == 1 + header.projection
    IN [header EXCEPT !.projection = part(1, @),
                      !.constraints = part(constraints, @),
                      !.order = part(constraints + header.constraints, @)]

\* vps_plan_decode, what a damaged or stale plan fails on
Decodes(wire, fingerprint) ==
    LET plan == DecodePlan(wire) IN
    /\ Head(wire).fingerprint = fingerprint
    /\ Len(wire) = 1 + Head(wire).projection + Head(wire).constraints + Head(wire).order
    /\ IsInjective(plan.projection)
    /\ \A n \in DOMAIN plan.constraints :
          /\ plan.constraints[n].argument <= plan.arguments
          /\ plan.constraints[n].column >= 1 \/ plan.constraints[n].operation \in Slices
    /\ plan.rows # 0
    /\ plan.orderConsumed <=> plan.order # <<>>
=============================================================================
