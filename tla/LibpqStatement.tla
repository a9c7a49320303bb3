--------------------------- MODULE LibpqStatement ---------------------------
(***************************************************************************)
(* The statement half of the libpq adapter,                                *)
(* src/src/vps_libpq_client_statement.c: prepare and describe, execute,    *)
(* fetch row by row, cancel and drain.                                     *)
(*                                                                         *)
(* PQgetResult is called in two ways.  After PQisBusy said no it returns   *)
(* at once.  Where the code calls it again to see the end of a command,    *)
(* or to drain after a server error, it blocks until the session answers,  *)
(* without a deadline: `await' marks those calls.                          *)
(*                                                                         *)
(* A result whose fields are not the declared ones stands for every way a  *)
(* result can be unusable: types, formats, lengths, counts.                *)
(***************************************************************************)
EXTENDS LibpqConnection

CONSTANT MaxInternalPolls   \* VPS_LIBPQ_STATEMENT_MAX_INTERNAL_POLLS

Flushing == [PREPARE_FLUSH |-> "PREPARE_WAIT", DESCRIBE_FLUSH |-> "DESCRIBE_WAIT",
             EXECUTE_FLUSH |-> "EXECUTE_WAIT"]
Receiving == [PREPARE_WAIT |-> "PREPARE_RESULT", DESCRIBE_WAIT |-> "DESCRIBE_RESULT",
              EXECUTE_WAIT |-> "EXECUTE_RESULT"]
Settled == {"CREATED", "PREPARED", "COMPLETE", "FAILED"}
StatementPhases ==
    DOMAIN Flushing \cup DOMAIN Receiving \cup Settled
        \cup {Receiving[p] : p \in DOMAIN Receiving}
        \cup {"NONE", "FETCH_WAIT", "ROW_READY", "CANCEL_POLL", "CANCEL_DRAIN"}

StatementKinds == {"scan", "command", "prepare"}
AdapterStatements ==
    [phase : StatementPhases, kind : StatementKinds, result : 0..MaxRows,
     described : BOOLEAN, sqlstateSeen : BOOLEAN, terminalSeen : BOOLEAN, await : {"none", "end", "drain"}]
NoStatement == [phase |-> "NONE", kind |-> "scan", result |-> 0, described |-> FALSE,
                sqlstateSeen |-> FALSE, terminalSeen |-> FALSE, await |-> "none"]

-----------------------------------------------------------------------------
\* vps_libpq_statement_error: only a server error leaves the connection usable.
StatementError(b, err) ==
    Answer([b EXCEPT !.ps.phase = "FAILED", !.ps.result = 0, !.ps.await = "none",
                     !.pg.phase = IF err = "SQL" THEN "READY" ELSE "FAILED",
                     !.wire.sig = IF @ = "delivered" THEN "none" ELSE @],
           "ERROR", "NONE", err)

\* vps_libpq_statement_deadline
UnlessLate(b, answers) ==
    IF b.dl = "expired" THEN {StatementError(b, "TIMEOUT")} ELSE answers

\* vps_libpq_statement_check_metadata: the fields are the declared ones.
CheckMetadata(b, r, checked) == IF r.fit THEN checked ELSE StatementError(b, "SCHEMA")

\* vps_libpq_statement_capture_metadata
Captured(b) == [b EXCEPT !.ps.described = TRUE]

Completed(b, phase) ==
    Answer([b EXCEPT !.ps.phase = phase, !.ps.await = "none"], "OK", "COMPLETE", "NONE")

\* vps_libpq_statement_create
StatementCreate(b, kind) ==
    IF b.pg.phase # "READY" \/ b.pg.statements # 0
    THEN Answer(b, "INVALID_STATE", "NONE", "NONE")
    ELSE Going([b EXCEPT !.pg.statements = 1,
                         !.ps = [NoStatement EXCEPT !.phase = "CREATED", !.kind = kind]])

FlushOf == [PREPARE |-> "PREPARE_FLUSH", EXECUTE |-> "EXECUTE_FLUSH"]

StatementStartLegal(b, op) ==
    LET ps == b.ps
    IN CASE op = "PREPARE" -> ps.kind = "prepare" /\ ps.phase = "CREATED"
         [] op = "EXECUTE" -> ps.phase = IF ps.kind = "prepare" THEN "PREPARED" ELSE "CREATED"
         [] op = "FETCH" -> ps.phase = IF ps.kind = "scan" THEN "FETCH_WAIT" ELSE "COMPLETE"
         [] op = "CANCEL" -> ps.phase \notin Settled \cup {"CANCEL_POLL", "CANCEL_DRAIN"}

\* vps_libpq_statement_start; a cancel opens a connection of its own and has its own deadline.
StatementStart(b, op) ==
    IF b.pg.phase # "READY" \/ ~StatementStartLegal(b, op)
    THEN {Answer(b, "INVALID_STATE", "NONE", "NONE")}
    ELSE CASE op = "FETCH" -> {Going(b)}
      [] op = "CANCEL" ->
            {Going([DeadlineStarted(b) EXCEPT !.wire.sig = "sent", !.ps.result = 0,
                                              !.ps.sqlstateSeen = FALSE,
                                              !.ps.terminalSeen = FALSE,
                                              !.ps.phase = "CANCEL_POLL"]),
             StatementError(b, "CONNECTION")}
      [] OTHER ->
            LET started == DeadlineStarted(b)
            IN IF b.wire.status = "BAD" THEN {StatementError(started, "CONNECTION")}
               ELSE {Going([started EXCEPT !.wire = Send(@, b.ps.kind),
                                           !.ps.phase = FlushOf[op]])}

-----------------------------------------------------------------------------
\* PREPARE_FLUSH, DESCRIBE_FLUSH, EXECUTE_FLUSH; a row stream is executed once it is sent.
PollFlush(b) ==
    IF b.wire.status = "BAD" THEN {StatementError(b, "CONNECTION")}
    ELSE LET sent == [b EXCEPT !.wire = Flushed(@)]
         IN {Waiting(b, "WRITE"),
             IF b.ps.phase = "EXECUTE_FLUSH" /\ b.ps.kind = "scan"
             THEN Completed(sent, "FETCH_WAIT")
             ELSE Going([sent EXCEPT !.ps.phase = Flushing[@]])}

\* PREPARE_WAIT, DESCRIBE_WAIT, EXECUTE_WAIT
PollWait(b) ==
    IF b.wire.status = "BAD" THEN StatementError(b, "CONNECTION")
    ELSE IF IsBusy(b.wire) THEN Waiting(b, "READ")
    ELSE Going([b EXCEPT !.ps.phase = Receiving[@]])

Blocking(b, what) == Answer([b EXCEPT !.ps.await = what], "OK", "BLOCKED", "NONE")

\* The error is set, then the rest of the command's results is read (drain_results).
ServerError(b) == Blocking(StatementError(b, "SQL").b, "drain")

\* vps_libpq_statement_finish_result, up to its second PQgetResult.
FinishResult(b) ==
    LET r == NextResult(b.wire)
        c == [b EXCEPT !.wire = AfterResult(@)]
    IN IF r.k = "READY" THEN StatementError(c, "CONNECTION")
       ELSE IF r.k \notin (IF b.ps.phase = "EXECUTE_RESULT" THEN {"TUPLES_OK", "COMMAND_OK"}
                           ELSE {"COMMAND_OK"})
       THEN ServerError(c)
       ELSE IF b.ps.phase = "PREPARE_RESULT" THEN Blocking(c, "end")
       ELSE CheckMetadata(c, r, Blocking(IF b.ps.phase = "DESCRIBE_RESULT" THEN Captured(c) ELSE c,
                                         "end"))

\* vps_libpq_statement_fetch_result, up to its second PQgetResult.
FetchResult(b) ==
    LET r == NextResult(b.wire)
        c == [b EXCEPT !.wire = AfterResult(@)]
    IN CASE r.k = "READY" -> StatementError(c, "INVARIANT")
         [] r.k = "SINGLE_TUPLE" ->
                CheckMetadata(c, r, Answer([c EXCEPT !.ps.phase = "ROW_READY",
                                                     !.ps.result = r.n],
                                           "OK", "ROW_READY", "NONE"))
         [] r.k = "TUPLES_OK" -> CheckMetadata(c, r, Blocking(c, "end"))
         [] OTHER -> ServerError(c)

PollFetch(b) ==
    IF b.wire.status = "BAD" THEN StatementError(b, "CONNECTION")
    ELSE IF IsBusy(b.wire) THEN Waiting(b, "READ")
    ELSE FetchResult(b)

\* CANCEL_POLL: PQcancelPoll is done when the session took the request.
PollCancel(b) ==
    {StatementError(b, "CANCEL")}
        \cup (IF b.wire.sig = "delivered"
              THEN {Going([b EXCEPT !.wire.sig = "none", !.ps.phase = "CANCEL_DRAIN"])}
              ELSE {Waiting(b, "READ"), Waiting(b, "WRITE")})

\* Faulty: the first result of the cancelled command ends the drain.
PollDrainFirst(b) ==
    LET w == Flushed(b.wire)
        c == [b EXCEPT !.wire = AfterResult(w)]
    IN IF w.status = "BAD" THEN StatementError(b, "CONNECTION")
       ELSE IF IsBusy(w) THEN Waiting([b EXCEPT !.wire = w], "READ")
       ELSE Completed([c EXCEPT !.ps.sqlstateSeen = NextResult(w).k = "57014"], "COMPLETE")

\* CANCEL_DRAIN: every result up to NULL; reading also flushes what was not yet sent.
PollDrain(b) ==
    LET w == Flushed(b.wire)
        r == NextResult(w)
        c == [b EXCEPT !.wire = AfterResult(w)]
    IN IF w.status = "BAD" THEN StatementError(b, "CONNECTION")
       ELSE IF IsBusy(w) THEN Waiting([b EXCEPT !.wire = w], "READ")
       ELSE IF r.k # "READY"
       THEN Going([c EXCEPT !.ps.sqlstateSeen = @ \/ r.k = "57014",
                            !.ps.terminalSeen = @ \/ r.k = "TUPLES_OK"])
       ELSE IF b.ps.sqlstateSeen THEN [Completed(c, "COMPLETE") EXCEPT !.err = "57014"]
       ELSE IF b.ps.terminalSeen THEN Completed(c, "COMPLETE")
       ELSE StatementError(c, "INVARIANT")

\* vps_libpq_statement_poll, one turn of its loop.
StatementPoll(b, turn) ==
    LET p == b.ps.phase
    IN IF b.pg.phase # "READY" THEN {Answer(b, "INVALID_STATE", "NONE", "NONE")}
       ELSE UnlessLate(b,
            IF turn = MaxInternalPolls THEN {Waiting(b, "READ_WRITE")}
            ELSE CASE p = "COMPLETE" -> {Completed(b, "COMPLETE")}
              [] p = "CANCEL_POLL" -> PollCancel(b)
              [] p = "CANCEL_DRAIN" -> {PollDrain(b)}
              [] p \in DOMAIN Flushing -> PollFlush(b)
              [] p = "FETCH_WAIT" -> {PollFetch(b)}
              [] p \in DOMAIN Receiving -> {PollWait(b)}
              [] OTHER -> {FinishResult(b)})

\* What a blocking PQgetResult does when it returns.
AwaitedResult(b) ==
    LET r == NextResult(b.wire)
        c == [b EXCEPT !.wire = AfterResult(@)]
        next == [c EXCEPT !.ps.await = "none"]
    IN IF b.ps.await = "drain"
       THEN IF r.k # "READY" THEN Blocking(c, "drain") ELSE Answer(next, "ERROR", "NONE", "SQL")
       ELSE IF r.k # "READY" THEN StatementError(c, "INVARIANT")
       ELSE IF b.ps.phase # "PREPARE_RESULT"
       THEN Completed(c, IF b.ps.phase = "DESCRIBE_RESULT" THEN "PREPARED" ELSE "COMPLETE")
       ELSE IF b.wire.status = "BAD" THEN StatementError(next, "CONNECTION")
       ELSE Going([next EXCEPT !.wire = Send(@, "describe"), !.ps.phase = "DESCRIBE_FLUSH"])

-----------------------------------------------------------------------------
StatementSocketReady(b, interest) ==
    \/ interest # "READ"
    \/ IF b.ps.phase = "CANCEL_POLL" THEN b.wire.sig = "delivered"
       ELSE b.wire.in # <<>> \/ b.wire.status = "BAD"

\* vps_libpq_statement_wait: a timeout and an interruption change nothing, they are reported.
StatementWait(b, outcome) ==
    CASE outcome = "READY" -> Answer(b, "OK", "NONE", "NONE")
      [] outcome = "DEADLINE_EXPIRED" -> Answer(b, "CONTROL_SIGNAL", "NONE", "TIMEOUT")
      [] outcome = "INTERRUPTED" -> Answer(b, "CONTROL_SIGNAL", "NONE", "CANCEL")
      [] OTHER -> StatementError(b, "CONNECTION")

\* vps_libpq_statement_row, vps_libpq_statement_column: the result that holds the row is there.
StatementRow(b) == b.ps.phase = "ROW_READY" /\ b.ps.result # 0
StatementColumn(b) == StatementRow(b)

\* vps_libpq_statement_metadata, vps_libpq_statement_result_field: a statement that discovers
\* its fields has been described.
StatementMetadata(b) == b.ps.kind = "prepare" => b.ps.described
StatementResultField(b) == b.ps.kind = "prepare" /\ b.ps.described

\* vps_libpq_statement_row_release
StatementRowRelease(b) ==
    IF b.ps.phase # "ROW_READY" THEN b
    ELSE [b EXCEPT !.ps.result = 0, !.ps.phase = "FETCH_WAIT"]

\* vps_libpq_statement_destroy: a statement that was not settled spoils its connection.
StatementDestroy(b) ==
    [b EXCEPT !.ps = NoStatement, !.pg.statements = 0, !.dl = "off",
              !.wire.sig = IF @ = "delivered" THEN "none" ELSE @,
              !.pg.phase = IF b.ps.phase \in Settled THEN @ ELSE "FAILED"]
=============================================================================
