------------------------------- MODULE Client -------------------------------
(***************************************************************************)
(* The client contract of src/src/vps_client.c: the states of a connection *)
(* and of its one statement, which operation may start in which state, and *)
(* what an answer of the backend does to them.  Operators map a record and *)
(* the backend's answer to the record afterwards, as the functions do.     *)
(*                                                                         *)
(* Abstracted: argument and capability checks (the backend offers every    *)
(* capability), logging, the allocation of the handles.                    *)
(***************************************************************************)
EXTENDS Naturals

CONSTANT MaxGeneration   \* UINT64_MAX of row_generation

ConnectionOperations == {"CONNECT", "BEGIN", "COMMIT", "ROLLBACK", "RESET", "PING"}
StatementOperations == {"PREPARE", "EXECUTE", "FETCH", "CANCEL"}

ConnectionStates == {"NEW", "CONNECTING", "READY", "TRANSACTION_STARTING",
    "TRANSACTION_ACTIVE", "TRANSACTION_ENDING", "RESETTING", "PINGING", "FAILED"}

StatementStates == {"NEW", "PREPARING", "PREPARED", "EXECUTING", "FETCHING",
    "ROW_READY", "CANCELLING", "COMPLETE", "FAILED"}

Connections == [state : ConnectionStates, op : ConnectionOperations \cup {"NONE"},
                statements : 0..1]
Statements == [state : StatementStates, op : StatementOperations \cup {"NONE"},
               generation : 0..MaxGeneration, row : 0..MaxGeneration]

\* vps_client_error_class: the class of an error that the client itself raises
ErrorClass(status) ==
    CASE status = "LIMIT_EXCEEDED" -> "CONFIG"
      [] status = "ERROR" -> "CONNECTION"
      [] OTHER -> "INVARIANT"

NewConnection == [state |-> "NEW", op |-> "NONE", statements |-> 0]
NewStatement == [state |-> "NEW", op |-> "NONE", generation |-> 0, row |-> 0]

-----------------------------------------------------------------------------
\* Connections.
StartsFrom == [CONNECT |-> {"NEW"}, BEGIN |-> {"READY"}, RESET |-> {"READY"},
    PING |-> {"READY"}, COMMIT |-> {"TRANSACTION_ACTIVE"},
    ROLLBACK |-> {"TRANSACTION_ACTIVE", "FAILED"}]

ConnectionStartAllowed(c, op) ==
    c.op = "NONE" /\ c.statements = 0 /\ c.state \in StartsFrom[op]

ConnectionRunningState == [CONNECT |-> "CONNECTING", BEGIN |-> "TRANSACTION_STARTING",
    COMMIT |-> "TRANSACTION_ENDING", ROLLBACK |-> "TRANSACTION_ENDING",
    RESET |-> "RESETTING", PING |-> "PINGING"]

ConnectionTerminalState(op) == IF op = "BEGIN" THEN "TRANSACTION_ACTIVE" ELSE "READY"

ConnectionFailed(c) == [c EXCEPT !.state = "FAILED", !.op = "NONE"]

\* vps_client_connection_start, of an allowed operation.
ConnectionStarted(c, op, rc) ==
    IF rc = "OK" THEN [c EXCEPT !.op = op, !.state = ConnectionRunningState[op]]
    ELSE ConnectionFailed(c)

\* vps_client_connection_poll; the adapter asks for waits of the right phase only.
ConnectionPolled(c, rc, outcome) ==
    IF rc # "OK" THEN ConnectionFailed(c)
    ELSE IF outcome = "WAIT" THEN c
    ELSE [c EXCEPT !.op = "NONE", !.state = ConnectionTerminalState(c.op)]

\* vps_client_connection_wait
ConnectionWaited(c, rc) == IF rc = "OK" THEN c ELSE ConnectionFailed(c)

-----------------------------------------------------------------------------
\* Statements.
StatementOpenAllowed(c) ==
    /\ c.state \in {"READY", "TRANSACTION_ACTIVE", "FAILED"}
    /\ c.op = "NONE"
    /\ c.statements = 0

StatementStartAllowed(s, op) ==
    IF op = "CANCEL" THEN s.state \in {"PREPARING", "EXECUTING", "FETCHING", "ROW_READY"}
    ELSE s.op = "NONE" /\ s.state \in
        [PREPARE |-> {"NEW"}, EXECUTE |-> {"NEW", "PREPARED"}, FETCH |-> {"FETCHING"}][op]

StatementRunningState == [PREPARE |-> "PREPARING", EXECUTE |-> "EXECUTING",
    FETCH |-> "FETCHING", CANCEL |-> "CANCELLING"]

StatementFailed(s) == [s EXCEPT !.state = "FAILED", !.op = "NONE"]

\* vps_client_statement_start, of an allowed operation.
StatementStarted(s, op, rc) ==
    IF rc = "OK" THEN [s EXCEPT !.op = op, !.state = StatementRunningState[op]]
    ELSE StatementFailed(s)

\* vps_client_statement_publish_row
RowPublished(s) ==
    IF s.generation = MaxGeneration THEN StatementFailed(s)
    ELSE [s EXCEPT !.generation = @ + 1, !.op = "NONE", !.state = "ROW_READY",
                   !.row = s.generation + 1]

\* vps_client_statement_poll: the statement.
StatementPolled(s, rc, outcome) ==
    IF rc # "OK" \/ (outcome = "ROW_READY" /\ s.op # "FETCH") THEN StatementFailed(s)
    ELSE IF outcome = "WAIT" THEN s
    ELSE IF outcome = "ROW_READY" THEN RowPublished(s)
    ELSE [s EXCEPT !.op = "NONE",
            !.state = [PREPARE |-> "PREPARED", EXECUTE |-> "FETCHING",
                       FETCH |-> "COMPLETE", CANCEL |-> "COMPLETE"][s.op]]

\* vps_client_statement_poll: its connection, which a completed operation revives.
ConnectionAfterPoll(c, rc, outcome) ==
    IF rc = "OK" /\ outcome = "COMPLETE" /\ c.state = "FAILED"
    THEN [c EXCEPT !.state = "TRANSACTION_ACTIVE"] ELSE c

\* vps_client_statement_wait: a timeout or a cancellation is the caller's to act on.
StatementWaited(s, rc) == IF rc \in {"OK", "CONTROL_SIGNAL"} THEN s ELSE StatementFailed(s)

\* vps_client_statement_row_is_current
RowIsCurrent(s) == s.state = "ROW_READY" /\ s.row # 0 /\ s.row = s.generation

\* vps_client_statement_current_row, vps_client_row_column: when they give the row
CurrentRowAllowed(s) == s.state = "ROW_READY" /\ s.row = s.generation
RowColumnAllowed(s) == RowIsCurrent(s)

\* vps_client_statement_metadata, vps_client_statement_result_field: when they answer
MetadataAllowed(s) == s.state \notin {"NEW", "PREPARING", "FAILED", "CANCELLING"}

\* vps_client_statement_row_consumed, in ROW_READY with no operation running.
RowConsumed(s) ==
    IF s.generation = MaxGeneration THEN StatementFailed(s)
    ELSE [s EXCEPT !.generation = @ + 1, !.state = "FETCHING", !.row = 0]
=============================================================================
