----------------------------- MODULE ScanStack ------------------------------
(***************************************************************************)
(* One connection and everything the extension stacks on it: the virtual   *)
(* table's callbacks and drive loops (src/src/vps_module.c), the cursor's  *)
(* state machine and row budget (vps_cursor.c), its cancel token           *)
(* (vps_cancel.c), the client (module Client), the libpq adapter (modules  *)
(* LibpqConnection, LibpqStatement), and, outside, libpq, the network and  *)
(* the session (module Libpq).                                             *)
(*                                                                         *)
(* A callback runs in turns: a turn of a poll loop, a wait, or a blocking  *)
(* PQgetResult.  Between two turns the session, the network, the clock and *)
(* the thread that calls virtualpostgresql_cancel may move.  `call' is the *)
(* callback that runs: what it does, the operation it drives, where it     *)
(* stands, and its VpsError.                                               *)
(*                                                                         *)
(* The pool holds at most this one connection (ConnectionPool has the pool,*)
(* VtabTransaction the coordinator).  SQLite closes the cursors of a       *)
(* failed statement before it ends the transaction.                        *)
(***************************************************************************)
EXTENDS Client, LibpqStatement

CONSTANT MaxResultRows   \* max_result_rows of the cursor's budget

VARIABLES conn,       \* VpsClientConnection
          stmt,       \* VpsClientStatement
          backend,    \* the adapter, libpq and the session
          cursor,     \* VpsCursor: machine, budget, and whose connection it uses
          call,       \* the callback that runs
          lease,      \* who holds the connection: none (there is none), pool, scan, tx
          tx,         \* the coordinator: none, active, failed
          token,      \* the cursor's VpsCancelToken
          code        \* what the last callback returned

vars == <<conn, stmt, backend, cursor, call, lease, tx, token, code>>

CursorStates == {"OPEN", "FILTERING", "WAITING", "ROW_READY", "CANCELLING", "EOF",
                 "FAILED", "CLOSED", "REFUSED"}
Cursors == [state : CursorStates, from : CursorStates, on : {"none", "lease", "tx"},
            delivered : 0..MaxRows, budget : 0..MaxResultRows]
ClosedCursor == [state |-> "CLOSED", from |-> "CLOSED", on |-> "none", delivered |-> 0,
                 budget |-> 0]

Callbacks == {"none", "filter", "next", "close", "begin", "commit", "rollback",
              "command", "returning", "describe", "maintain"}
Errors == {"NONE", "CONNECTION", "AUTH", "TLS", "CONFIG", "TIMEOUT", "CANCEL", "SQL",
           "SCHEMA", "INVARIANT", "57014"}
Calls == [for : Callbacks, stage : ConnectionOperations \cup StatementOperations \cup {"NONE"},
          at : {"idle", "poll", "wait", "block"}, turn : 0..MaxInternalPolls,
          interest : Waits, err : Errors]
NoCall == [for |-> "none", stage |-> "NONE", at |-> "idle", turn |-> 0,
           interest |-> "READ", err |-> "NONE"]

NoToken == [registered |-> FALSE, requested |-> FALSE]

\* vps_libpq_connection_destroy: what is left of a connection
NoBackend == [pg |-> CreatedConnection, ps |-> NoStatement, wire |-> FreshWire, dl |-> "off"]

\* The state a callback works on, as one record.
Now == [conn |-> conn, stmt |-> stmt, b |-> backend, cursor |-> cursor, call |-> call,
        lease |-> lease, tx |-> tx, token |-> token, code |-> code]

Becomes(s) ==
    /\ conn' = s.conn
    /\ stmt' = s.stmt
    /\ backend' = s.b
    /\ cursor' = s.cursor
    /\ call' = s.call
    /\ lease' = s.lease
    /\ tx' = s.tx
    /\ token' = s.token
    /\ code' = s.code

Init == /\ conn = NewConnection
        /\ stmt = NewStatement
        /\ backend = NoBackend
        /\ cursor = ClosedCursor
        /\ call = NoCall
        /\ lease = "none"
        /\ tx = "none"
        /\ token = NoToken
        /\ code = "OK"

-----------------------------------------------------------------------------
\* vps_error_set_local, vps_error_set_sqlstate: the SQLite code of an error.
SqliteCode(err, stage) ==
    CASE err \in {"57014", "CANCEL", "TIMEOUT"} -> "INTERRUPT"
      [] err = "CONNECTION" -> IF stage = "CONNECT" THEN "CANTOPEN" ELSE "IOERR"
      [] err \in {"AUTH", "TLS"} -> "AUTH"
      [] err = "SCHEMA" -> "SCHEMA"
      [] OTHER -> "ERROR"
SqliteCodes == {"OK", "INTERRUPT", "CANTOPEN", "IOERR", "AUTH", "SCHEMA", "ERROR", "ABORT",
                "TOOBIG"}

\* Which events vps_cursor_next_state accepts.
Accepts(state, event) ==
    state \in [FILTER |-> {"OPEN", "EOF"}, WAIT |-> {"FILTERING", "CANCELLING"},
        ROW |-> {"FILTERING"}, COMPLETE |-> {"FILTERING", "CANCELLING"},
        CANCEL |-> {"FILTERING", "WAITING", "ROW_READY"}, RESUME |-> {"WAITING"},
        FETCH |-> {"ROW_READY"}, FAIL |-> CursorStates \ {"CLOSED"}][event]

\* vps_cursor_transition; REFUSED stands for the error the callers turn a refusal into.
Machine(c, event) ==
    CASE ~Accepts(c.state, event) -> [c EXCEPT !.state = "REFUSED"]
      [] Accepts(c.state, event) /\ event = "WAIT" ->
            [c EXCEPT !.state = "WAITING", !.from = c.state]
      [] Accepts(c.state, event) /\ event = "RESUME" -> [c EXCEPT !.state = c.from]
      [] OTHER -> [c EXCEPT !.state =
            [FILTER |-> "FILTERING", FETCH |-> "FILTERING", ROW |-> "ROW_READY",
             COMPLETE |-> "EOF", CANCEL |-> "CANCELLING", FAIL |-> "FAILED"][event]]

Returns(s, rc) == [s EXCEPT !.call = NoCall, !.code = rc]

ScanCalls == {"filter", "next", "close"}   \* the ones that drive with a cursor machine

-----------------------------------------------------------------------------
\* vps_client_statement_close
StatementClosed(s) ==
    LET released == IF s.stmt.state = "ROW_READY" THEN StatementRowRelease(s.b) ELSE s.b
    IN IF s.conn.statements = 0 THEN s
       ELSE [s EXCEPT !.b = StatementDestroy(released), !.stmt = NewStatement,
                      !.conn.statements = 0]

\* vps_client_connection_close, vps_vtab_pool_destroy
ConnectionClosed(s) ==
    [s EXCEPT !.conn = NewConnection, !.b = NoBackend, !.lease = "none"]

\* vps_connection_lease_release; vps_vtab_pool_ready
LeaseReleased(s, clean) ==
    IF clean /\ s.conn.state = "READY" THEN [s EXCEPT !.lease = "pool"] ELSE ConnectionClosed(s)

\* The tail of vps_cursor_release; drained: the machine is in EOF.
CursorReleased(s, clean) ==
    LET closed == StatementClosed(s)
        drained == s.cursor.state = "EOF"
        back == IF s.cursor.on = "lease" THEN LeaseReleased(closed, clean /\ drained) ELSE closed
    IN [back EXCEPT !.cursor.on = "none"]

\* vps_cancel_token_register, vps_cancel_token_unregister: a token starts and ends unrequested.
TokenRegister(t) == [t EXCEPT !.registered = TRUE, !.requested = FALSE]
TokenUnregister(t) == IF t.registered THEN NoToken ELSE t

\* The tail of vps_module_close.
CursorClosed(s, clean) ==
    Returns([CursorReleased(s, clean) EXCEPT !.cursor = ClosedCursor,
                                             !.token = TokenUnregister(@)],
            IF clean THEN "OK" ELSE "ERROR")

\* `failed:' of vps_cursor_advance, and the error paths of vps_module_filter.
ScanFailed(s, rc) ==
    Returns([s EXCEPT !.cursor = Machine(@, "FAIL"),
                      !.tx = IF s.cursor.on = "tx" THEN "failed" ELSE @], rc)

\* The callback's operation ended with an error.
Failing(s) ==
    CASE s.call.for \in {"filter", "next"} ->
            IF s.call.stage = "CONNECT"
            THEN ScanFailed([ConnectionClosed(s) EXCEPT !.cursor.on = "none"], "ERROR")
            ELSE ScanFailed(s, SqliteCode(s.call.err, s.call.stage))
      [] s.call.for = "close" -> CursorClosed(s, FALSE)
      [] s.call.for \in {"command", "returning"} ->
            Returns([StatementClosed(s) EXCEPT !.tx = "failed"],
                    SqliteCode(s.call.err, s.call.stage))
      [] s.call.for \in {"begin", "commit", "rollback", "describe", "maintain"} ->
            Returns([ConnectionClosed(StatementClosed(s)) EXCEPT !.tx = "none"],
                    SqliteCode(s.call.err, s.call.stage))

Driving(s, stage) == [s EXCEPT !.call.stage = stage, !.call.at = "poll", !.call.turn = 0]
WithError(s, err) == IF err = "NONE" THEN s ELSE [s EXCEPT !.call.err = err]

\* vps_client_connection_start, then vps_drive_connection.
StartConnection(s, op) ==
    IF ~ConnectionStartAllowed(s.conn, op) THEN {Failing(WithError(s, ErrorClass("INVALID_STATE")))}
    ELSE {LET t == WithError([s EXCEPT !.b = a.b, !.call.stage = op,
                                       !.conn = ConnectionStarted(s.conn, op, a.rc)], a.err)
          IN IF a.rc = "OK" THEN Driving(t, op) ELSE Failing(t)
            : a \in ConnectionStart(s.b, op)}

\* vps_client_statement_start, then vps_drive_statement.
StartStatement(s, op, stage) ==
    IF ~StatementStartAllowed(s.stmt, op) THEN {Failing(WithError(s, ErrorClass("INVALID_STATE")))}
    ELSE {LET t == WithError([s EXCEPT !.b = a.b, !.stmt = StatementStarted(s.stmt, op, a.rc)],
                             a.err)
          IN IF a.rc = "OK" THEN Driving(t, stage) ELSE Failing(t)
            : a \in StatementStart(s.b, op)}

\* vps_client_statement_open, then the first operation.
OpenStatement(s, kind, op) ==
    LET a == StatementCreate(s.b, kind)
        t == [s EXCEPT !.call.stage = op]
    IN IF ~StatementOpenAllowed(s.conn) THEN {Failing(WithError(t, ErrorClass("INVALID_STATE")))}
       ELSE IF a.rc # "OK" THEN {Failing(t)}
       ELSE StartStatement([t EXCEPT !.b = a.b, !.stmt = NewStatement, !.conn.statements = 1],
                           op, op)

-----------------------------------------------------------------------------
\* Faulty: the row is released as soon as it is decoded.
RowDeliveredReleasing(s) ==
    IF s.cursor.budget = MaxResultRows THEN ScanFailed(s, "TOOBIG")
    ELSE Returns([s EXCEPT !.cursor = [Machine(s.cursor, "ROW") EXCEPT !.budget = s.cursor.budget + 1,
                                                                     !.delivered = s.b.ps.result],
                           !.b = StatementRowRelease(@)],
                 "OK")

\* vps_cursor_budget_observe_row, then the row becomes SQLite's.
RowDelivered(s) ==
    IF s.cursor.budget = MaxResultRows THEN ScanFailed(s, "TOOBIG")
    ELSE Returns([s EXCEPT !.cursor = [Machine(s.cursor, "ROW") EXCEPT !.budget = s.cursor.budget + 1,
                                                                     !.delivered = s.b.ps.result]],
                 "OK")

\* Faulty: a cancelled scan that was drained looks like one that ended.
AdvancedIgnoringCancel(s) ==
    IF s.stmt.state = "COMPLETE"
    THEN {Returns([StatementClosed([s EXCEPT !.cursor = Machine(@, "COMPLETE")])
                     EXCEPT !.cursor.on = IF @ = "tx" THEN "none" ELSE @], "OK")}
    ELSE {RowDelivered(s), ScanFailed(s, "ERROR")}

\* Faulty: a cancelled scan fails with whatever error comes to hand.
AdvancedForgettingCode(s) ==
    LET cancelled == s.cursor.state = "CANCELLING" /\ s.stmt.state = "COMPLETE"
    IN IF cancelled THEN {ScanFailed(s, "ERROR")}
       ELSE IF s.stmt.state = "COMPLETE"
       THEN {Returns([StatementClosed([s EXCEPT !.cursor = Machine(@, "COMPLETE")])
                        EXCEPT !.cursor.on = IF @ = "tx" THEN "none" ELSE @], "OK")}
       ELSE {RowDelivered(s), ScanFailed(s, "ERROR")}

\* vps_cursor_advance after its drive loop; the row is read through the client, and may fail
\* to decode.
Advanced(s) ==
    LET cancelled == s.cursor.state = "CANCELLING" /\ s.stmt.state = "COMPLETE"
        t == WithError(s, IF cancelled THEN "57014" ELSE "NONE")
    IN IF SqliteCode(t.call.err, t.call.stage) = "INTERRUPT"
       THEN {ScanFailed(t, "INTERRUPT")}
       ELSE IF t.stmt.state = "COMPLETE"
       THEN {Returns([StatementClosed([t EXCEPT !.cursor = Machine(@, "COMPLETE")])
                        EXCEPT !.cursor.on = IF @ = "tx" THEN "none" ELSE @], "OK")}
       ELSE IF ~CurrentRowAllowed(t.stmt) \/ ~RowColumnAllowed(t.stmt) \/ ~StatementColumn(t.b)
       THEN {Failing(WithError(t, ErrorClass("INVALID_STATE")))}
       ELSE {RowDelivered(t), ScanFailed(t, "ERROR")}

\* vps_cursor_advance up to its drive loop.
Advance(s) ==
    IF s.cursor.state # "ROW_READY" THEN StartStatement(s, "FETCH", "FETCH")
    ELSE LET t == [s EXCEPT !.cursor = Machine(@, "FETCH"), !.stmt = RowConsumed(@)]
         IN IF t.stmt.state = "FAILED" THEN {Failing(WithError(t, ErrorClass("LIMIT_EXCEEDED")))}
            ELSE StartStatement([t EXCEPT !.b = StatementRowRelease(@)], "FETCH", "FETCH")

\* A statement without a cursor: EXECUTE, then FETCH until it is complete.
FetchOn(s) ==
    IF s.stmt.state = "COMPLETE" THEN {Returns(StatementClosed(s), "OK")}
    ELSE LET t == [s EXCEPT !.stmt = RowConsumed(@)]
         IN IF t.stmt.state = "FAILED" THEN {Failing(WithError(t, ErrorClass("LIMIT_EXCEEDED")))}
            ELSE StartStatement([t EXCEPT !.b = StatementRowRelease(@)], "FETCH", "FETCH")

\* vps_query_validation_collect reads the fields of the prepared statement.
Described(s) ==
    IF MetadataAllowed(s.stmt) /\ StatementMetadata(s.b) /\ StatementResultField(s.b)
    THEN Returns(ConnectionClosed(StatementClosed(s)), "OK")
    ELSE Failing(WithError(s, ErrorClass("INVALID_STATE")))

\* The connection is there: the callback's own work.
Proceed(s) ==
    CASE s.call.for = "filter" ->
            OpenStatement([s EXCEPT !.lease = "scan", !.cursor.on = "lease"], "scan", "EXECUTE")
      [] s.call.for = "begin" -> StartConnection([s EXCEPT !.lease = "tx"], "BEGIN")
      [] s.call.for = "describe" -> OpenStatement(s, "prepare", "PREPARE")

\* The callback's operation succeeded.
Succeeding(s) ==
    CASE s.call.stage = "CONNECT" -> Proceed(s)
      [] s.call.stage = "BEGIN" -> {Returns([s EXCEPT !.tx = "active"], "OK")}
      [] s.call.stage \in {"COMMIT", "ROLLBACK"} ->
            {Returns([LeaseReleased(s, TRUE) EXCEPT !.tx = "none"], "OK")}
      [] s.call.stage \in {"RESET", "PING"} -> {Returns(LeaseReleased(s, TRUE), "OK")}
      [] s.call.stage = "PREPARE" -> {Described(s)}
      [] s.call.stage = "EXECUTE" -> IF s.call.for = "filter" THEN Advance(s)
                                     ELSE StartStatement(s, "FETCH", "FETCH")
      [] s.call.stage = "FETCH" -> IF s.call.for \in ScanCalls THEN Advanced(s) ELSE FetchOn(s)
      [] s.call.stage = "CANCEL" ->
            {CursorClosed([s EXCEPT !.cursor = Machine(@, "COMPLETE")], TRUE)}

-----------------------------------------------------------------------------
\* Callbacks start.
Idle == call.for = "none"
Starting(for) == [Now EXCEPT !.call = [NoCall EXCEPT !.for = for]]

\* vps_connection_pool_acquire: the idle connection, or a new one (vps_vtab_pool_create).
Acquire(s) == IF s.lease = "pool" THEN Proceed(s) ELSE StartConnection(s, "CONNECT")

\* vps_module_open, vps_cancel_token_register
Open == /\ Idle
        /\ cursor.state = "CLOSED"
        /\ cursor' = [ClosedCursor EXCEPT !.state = "OPEN"]
        /\ token' = TokenRegister(token)
        /\ code' = "OK"
        /\ UNCHANGED <<conn, stmt, backend, call, lease, tx>>

\* vps_module_filter
Filter == /\ Idle
          /\ cursor.state \in {"OPEN", "EOF"}
          /\ LET s == CursorReleased(Starting("filter"), TRUE)
                 t == [s EXCEPT !.cursor = [Machine(@, "FILTER") EXCEPT !.budget = 0,
                                                                        !.delivered = 0]]
             IN \E r \in CASE tx = "failed" -> {Returns(t, "ABORT")}
                           [] tx = "active" -> OpenStatement([t EXCEPT !.cursor.on = "tx"],
                                                             "scan", "EXECUTE")
                           [] tx = "none" -> Acquire(t) : Becomes(r)

\* vps_module_next
NextRow == /\ Idle
           /\ cursor.state = "ROW_READY"
           /\ \E r \in Advance(Starting("next")) : Becomes(r)

\* vps_module_close, vps_cancel_token_unregister
Close == /\ Idle
         /\ cursor.state # "CLOSED"
         /\ LET s == Starting("close")
            IN \E r \in IF conn.statements = 1 /\ cursor.state = "ROW_READY"
                        THEN StartStatement([s EXCEPT !.cursor = Machine(@, "CANCEL")],
                                            "CANCEL", "CANCEL")
                        ELSE {CursorClosed(s, TRUE)} : Becomes(r)

\* xBegin's first write, xCommit and xRollback, DML and savepoint statements
Begin == /\ Idle
         /\ tx = "none"
         /\ lease \in {"none", "pool"}
         /\ \E r \in Acquire(Starting("begin")) : Becomes(r)

End(for, op) ==
    /\ Idle
    /\ tx = "active" \/ (tx = "failed" /\ op = "ROLLBACK")
    /\ conn.statements = 0
    /\ \E r \in StartConnection(Starting(for), op) : Becomes(r)
Commit == End("commit", "COMMIT")
Rollback == End("rollback", "ROLLBACK")

Command(for, kind) ==
    /\ Idle
    /\ tx = "active"
    /\ conn.statements = 0
    /\ \E r \in OpenStatement(Starting(for), kind, "EXECUTE") : Becomes(r)
Execute == Command("command", "command")
Returning == Command("returning", "scan")

\* vps_table_describe, on a connection of its own
Describe == /\ Idle
            /\ lease = "none"
            /\ cursor.state = "CLOSED"
            /\ \E r \in StartConnection(Starting("describe"), "CONNECT") : Becomes(r)

\* The client's RESET and PING, on an idle connection; no callback issues them.
Maintain == /\ Idle
            /\ lease = "pool"
            /\ \E op \in {"RESET", "PING"} :
                    \E r \in StartConnection(Starting("maintain"), op) : Becomes(r)

-----------------------------------------------------------------------------
\* The drive loops.
OnConnection == call.stage \in ConnectionOperations

Outcome(a) == IF a.out \in Waits THEN "WAIT" ELSE a.out

\* What vps_client_connection_poll and the loop do with an answer.
ConnectionAnswered(a) ==
    LET s == [Now EXCEPT !.b = a.b]
        t == WithError([s EXCEPT !.conn = ConnectionPolled(conn, a.rc, Outcome(a))], a.err)
    IN IF a.rc # "OK" THEN {Failing(t)}
       ELSE CASE a.out = "CONTINUE" -> {[s EXCEPT !.call.turn = 1]}
              [] a.out \in Waits -> {[t EXCEPT !.call.at = "wait", !.call.interest = a.out]}
              [] a.out = "COMPLETE" -> Succeeding(t)

\* What vps_client_statement_poll and the loop do with an answer.
StatementAnswered(a) ==
    LET s == [Now EXCEPT !.b = a.b]
        rc == IF a.out = "ROW_READY" /\ ~StatementRow(a.b) THEN "INVALID_STATE" ELSE a.rc
        t == WithError([s EXCEPT !.stmt = StatementPolled(stmt, rc, Outcome(a)),
                                 !.conn = ConnectionAfterPoll(conn, rc, Outcome(a))], a.err)
    IN IF rc # "OK" THEN {Failing(t)}
       ELSE CASE a.out = "CONTINUE" ->
                    {[s EXCEPT !.call.at = "poll", !.call.turn = @ + 1]}
              [] a.out = "BLOCKED" -> {[s EXCEPT !.call.at = "block"]}
              [] a.out \in Waits ->
                    {[t EXCEPT !.call.at = "wait", !.call.interest = a.out,
                               !.cursor = IF call.for \in ScanCalls THEN Machine(@, "WAIT")
                                          ELSE @]}
              [] a.out \in {"COMPLETE", "ROW_READY"} ->
                    IF t.stmt.state = "FAILED" THEN {Failing(WithError(t, ErrorClass("LIMIT_EXCEEDED")))}
                    ELSE Succeeding(t)

Poll == /\ call.at = "poll"
        /\ \E r \in UNION {IF OnConnection THEN ConnectionAnswered(a) ELSE StatementAnswered(a)
                             : a \in IF OnConnection THEN ConnectionPoll(backend, call.turn)
                                     ELSE StatementPoll(backend, call.turn)} : Becomes(r)

\* A blocking PQgetResult returns.
Unblock == /\ call.at = "block"
           /\ ResultAvailable(backend.wire)
           /\ \E r \in StatementAnswered(AwaitedResult(backend)) : Becomes(r)

ConnectionWaitReturns(outcome) ==
    LET a == ConnectionWait(backend, outcome)
        t == WithError([Now EXCEPT !.b = a.b, !.conn = ConnectionWaited(conn, a.rc)], a.err)
    IN {IF a.rc = "OK" THEN Driving(t, call.stage) ELSE Failing(t)}

\* Faulty: a wait that ends well does not resume the cursor.
StatementWaitUnresumed(outcome) ==
    LET a == StatementWait(backend, outcome)
        t == WithError([Now EXCEPT !.b = a.b, !.stmt = StatementWaited(stmt, a.rc)], a.err)
    IN IF call.for \in ScanCalls /\ a.rc = "CONTROL_SIGNAL"
       THEN StartStatement([t EXCEPT !.cursor = Machine(@, "CANCEL")], "CANCEL", call.stage)
       ELSE {IF a.rc = "OK" THEN Driving(t, call.stage) ELSE Failing(t)}

\* vps_drive_statement after its wait: a scan that timed out or was cancelled asks the
\* server to stop, and goes on polling.
StatementWaitReturns(outcome) ==
    LET a == StatementWait(backend, outcome)
        t == WithError([Now EXCEPT !.b = a.b, !.stmt = StatementWaited(stmt, a.rc)], a.err)
    IN IF call.for \notin ScanCalls
       THEN {IF a.rc = "OK" THEN Driving(t, call.stage) ELSE Failing(t)}
       ELSE IF a.rc = "CONTROL_SIGNAL"
       THEN StartStatement([t EXCEPT !.cursor = Machine(@, "CANCEL")], "CANCEL", call.stage)
       ELSE LET u == [t EXCEPT !.cursor = Machine(@, "RESUME")]
            IN {IF a.rc = "OK" THEN Driving(u, call.stage) ELSE Failing(u)}

WaitReturns(outcome) ==
    \E r \in IF OnConnection THEN ConnectionWaitReturns(outcome)
             ELSE StatementWaitReturns(outcome) : Becomes(r)

\* vps_cursor_interrupt_probe is asked in every wait of a scan but the ones of a cancel.
Interrupted == token.requested /\ call.for \in ScanCalls /\ stmt.op # "CANCEL"

Wait == /\ call.at = "wait"
        /\ \E outcome \in SocketWait(backend,
                IF OnConnection THEN ConnectionSocketReady(backend, call.interest)
                ELSE StatementSocketReady(backend, call.interest), Interrupted) :
                    WaitReturns(outcome)

WaitFails == call.at = "wait" /\ WaitReturns("FAILED")

-----------------------------------------------------------------------------
\* The rest of the world.
World(w) == /\ backend' = [backend EXCEPT !.wire = w]
            /\ UNCHANGED <<conn, stmt, cursor, call, lease, tx, token, code>>

SessionSends == \E w \in SendsRow(backend.wire) : World(w)
SessionEnds == \E w \in Finishes(backend.wire) \cup Refuses(backend.wire) : World(w)
SessionIsReady == \E w \in Readies(backend.wire) : World(w)
SessionTakesCancel == \E w \in TakesCancel(backend.wire) : World(w)
ConnectionDies == backend.pg.phase # "CREATED" /\ \E w \in Dies(backend.wire) : World(w)

\* The deadline passes.
Tick == /\ backend.dl = "running"
        /\ backend' = [backend EXCEPT !.dl = "expired"]
        /\ UNCHANGED <<conn, stmt, cursor, call, lease, tx, token, code>>

\* virtualpostgresql_cancel, vps_cancel_registry_request_all: another thread.
RequestAll == /\ token.registered
              /\ token' = [token EXCEPT !.requested = TRUE]
              /\ UNCHANGED <<conn, stmt, backend, cursor, call, lease, tx, code>>

Callback == \/ Open \/ Filter \/ NextRow \/ Close \/ Begin \/ Commit \/ Rollback
            \/ Execute \/ Returning \/ Describe \/ Maintain
Drive == Poll \/ Unblock \/ Wait
Session == SessionSends \/ SessionEnds \/ SessionIsReady \/ SessionTakesCancel

Next == Callback \/ Drive \/ Session \/ WaitFails \/ ConnectionDies \/ Tick \/ RequestAll

Spec == Init /\ [][Next]_vars

-----------------------------------------------------------------------------
\* Types of the handles on every layer and of what the callbacks keep between turns.
TypeOK == /\ conn \in Connections
          /\ stmt \in Statements
          /\ backend.pg \in AdapterConnections
          /\ backend.ps \in AdapterStatements
          /\ backend.wire \in Wires
          /\ backend.dl \in Deadlines
          /\ cursor \in Cursors
          /\ call \in Calls
          /\ lease \in {"none", "pool", "scan", "tx"}
          /\ tx \in {"none", "active", "failed"}
          /\ token \in [registered : BOOLEAN, requested : BOOLEAN]
          /\ code \in SqliteCodes

\* A connection that waits in the pool can be handed to anybody: its session is idle,
\* outside a transaction, nothing of an earlier command is unread, and no cancel request
\* for an earlier command is still under way.  (Or it is dead, and the next use says so.)
PooledIsQuiescent ==
    lease = "pool" /\ Idle =>
        \/ backend.wire.status = "BAD"
        \/ /\ backend.pg.phase = "READY" /\ backend.pg.statements = 0
           /\ ~backend.wire.busy /\ backend.wire.in = <<>> /\ backend.wire.out = "none"
           /\ backend.wire.cmd = "none"
           /\ backend.wire.stx = "IDLE" /\ backend.wire.tx = "IDLE"
           /\ backend.wire.sig # "sent"

\* While SQLite looks at a row (xColumn, xRowid), the client's row view is the current
\* one and the adapter still holds the result the view points into: the very row that
\* was delivered.
RowIsBacked ==
    Idle /\ cursor.state = "ROW_READY" =>
        /\ RowIsCurrent(stmt)
        /\ backend.ps.phase = "ROW_READY"
        /\ backend.ps.result = cursor.delivered
        /\ cursor.delivered # 0

\* No callback asks the cursor machine for a transition it refuses, whatever the
\* interleaving of waits, cancellations, timeouts and failures.
MachineNeverRefuses == cursor.state # "REFUSED"

\* A cancel that the server confirmed with 57014 reaches SQLite as SQLITE_INTERRUPT.
ConfirmedCancelInterrupts ==
    cursor.state = "FAILED" /\ backend.ps.sqlstateSeen /\ backend.ps.phase = "COMPLETE"
        => code = "INTERRUPT"
=============================================================================
