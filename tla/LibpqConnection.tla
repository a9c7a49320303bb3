-------------------------- MODULE LibpqConnection ---------------------------
(***************************************************************************)
(* The connection half of the libpq adapter: src/src/vps_libpq_client.c    *)
(* and src/src/vps_libpq_client_health.c.                                  *)
(*                                                                         *)
(* The backend b is a record: pg, the adapter's connection; ps, its        *)
(* statement; wire, libpq and the session; dl, the deadline of the running *)
(* operation.  A call of the adapter is an operator from b to the set of   *)
(* answers it can give: the backend afterwards, the status, the poll       *)
(* outcome or the interest to wait for, and the class of the error.        *)
(* CONTINUE is the next turn of a poll loop: other processes move between  *)
(* two turns.                                                              *)
(*                                                                         *)
(* Abstracted: keywords and passwords, the bytes of session values, poll   *)
(* and wait counters, logging.                                             *)
(***************************************************************************)
EXTENDS Libpq

CONSTANT Settings   \* number of session settings of the session plan

Phases == {"CREATED", "CONNECTING", "HEALTH", "READY", "FAILED"}
HealthPhases == {"IDLE", "SEND", "FLUSH", "RECEIVE"}
AdapterConnections ==
    [phase : Phases, health : HealthPhases,
     op : {"NONE", "CONNECT", "BEGIN", "COMMIT", "ROLLBACK", "RESET", "PING"},
     index : 0..Settings, seen : BOOLEAN, discarded : BOOLEAN, statements : 0..1]

Deadlines == {"off", "running", "expired"}
Waits == {"READ", "WRITE", "READ_WRITE"}

Answer(b, rc, out, err) == [b |-> b, rc |-> rc, out |-> out, err |-> err]
Going(b) == Answer(b, "OK", "CONTINUE", "NONE")
Waiting(b, interest) == Answer(b, "OK", interest, "NONE")

\* vps_libpq_connection_create
CreatedConnection == [phase |-> "CREATED", health |-> "IDLE", op |-> "NONE", index |-> 0,
                      seen |-> FALSE, discarded |-> FALSE, statements |-> 0]

\* vps_libpq_set_error with phase FAILED, vps_health_fail
ConnectionError(b, err) ==
    Answer([b EXCEPT !.pg.phase = "FAILED", !.pg.health = "IDLE"], "ERROR", "NONE", err)

\* vps_deadline_start; the clock that passes the deadline is an action of its own.
DeadlineStarted(b) == [b EXCEPT !.dl = "running"]

\* vps_libpq_deadline_expired: the operation fails, or goes on as it would.
UnlessExpired(b, answers) ==
    IF b.dl = "expired" THEN {ConnectionError(b, "TIMEOUT")} ELSE answers

-----------------------------------------------------------------------------
\* vps_health_preflight
Preflight(b, op) ==
    /\ b.wire.status = "OK"
    /\ b.pg.statements = 0
    /\ ~IsBusy(b.wire)
    /\ op \in {"BEGIN", "RESET", "PING"} => b.wire.tx = "IDLE"
    /\ op \in {"COMMIT", "ROLLBACK"} => b.wire.tx \in {"ACTIVE", "INERROR"}
    /\ NextResult(b.wire).k = "READY"

\* vps_libpq_health_begin
HealthBegin(b, op) ==
    IF op # "CONNECT" /\ ~Preflight(b, op) THEN ConnectionError(b, "CONNECTION")
    ELSE Going([b EXCEPT !.pg = [@ EXCEPT !.op = op, !.index = 0, !.seen = FALSE,
                                 !.discarded = FALSE, !.health = "SEND", !.phase = "HEALTH"]])

\* vps_libpq_connection_start
ConnectionStart(b, op) ==
    IF op # "CONNECT" /\ b.pg.phase = "READY"
    THEN {HealthBegin(DeadlineStarted(b), op)}
    ELSE IF op = "CONNECT" /\ b.pg.phase = "CREATED"
    THEN {Going([DeadlineStarted(b) EXCEPT !.pg.phase = "CONNECTING", !.wire = FreshWire]),
          ConnectionError(b, "CONNECTION")}
    ELSE {Answer(b, "INVALID_STATE", "NONE", "NONE")}

\* What vps_health_send sends next; "none": every setting is in place.
HealthCommand(pg) ==
    IF pg.op \in {"BEGIN", "COMMIT", "ROLLBACK"} THEN pg.op
    ELSE IF pg.op = "RESET" /\ ~pg.discarded THEN "discard"
    ELSE IF pg.op = "PING" THEN "ping"
    ELSE IF pg.index < Settings THEN "setting" ELSE "none"

HealthDone(b) ==
    Answer([b EXCEPT !.pg.phase = "READY", !.pg.health = "IDLE", !.pg.op = "NONE", !.dl = "off"],
           "OK", "COMPLETE", "NONE")

\* vps_health_send
HealthSend(b) ==
    IF HealthCommand(b.pg) = "none" THEN HealthDone(b)
    ELSE IF b.wire.status = "BAD" THEN ConnectionError(b, "CONNECTION")
    ELSE Going([b EXCEPT !.wire = Send(@, HealthCommand(b.pg)), !.pg.seen = FALSE,
                         !.pg.health = "FLUSH"])

\* vps_health_result_valid; `fit': the value the session reports is the one asked for.
HealthResultValid(pg, r) ==
    IF HealthCommand(pg) \in {"BEGIN", "COMMIT", "ROLLBACK", "discard"} THEN r.k = "COMMAND_OK"
    ELSE r.k = "TUPLES_OK" /\ (pg.op = "PING" \/ r.fit)

\* vps_health_command_complete
HealthCommandComplete(b) ==
    IF b.pg.op \in {"BEGIN", "COMMIT", "ROLLBACK", "PING"} THEN HealthDone(b)
    ELSE IF b.pg.op = "RESET" /\ ~b.pg.discarded
    THEN Going([b EXCEPT !.pg.discarded = TRUE, !.pg.health = "SEND"])
    ELSE Going([b EXCEPT !.pg.index = @ + 1, !.pg.health = "SEND"])

\* One result of vps_libpq_health_poll.
HealthResult(b) ==
    LET r == NextResult(b.wire)
        c == [b EXCEPT !.wire = AfterResult(@)]
    IN IF r.k = "READY"
       THEN IF b.pg.seen THEN HealthCommandComplete(c) ELSE ConnectionError(c, "CONNECTION")
       ELSE IF b.pg.seen \/ ~HealthResultValid(b.pg, r)
       THEN ConnectionError(c, IF b.pg.op = "PING" THEN "CONNECTION" ELSE "CONFIG")
       ELSE Going([c EXCEPT !.pg.seen = TRUE])

\* vps_libpq_health_poll, one turn of its loop.
HealthPoll(b) ==
    CASE b.pg.health = "SEND" -> {HealthSend(b)}
      [] b.pg.health # "SEND" /\ b.wire.status = "BAD" -> {ConnectionError(b, "CONNECTION")}
      [] b.pg.health = "FLUSH" /\ b.wire.status = "OK" ->
            {Waiting(b, "WRITE"),
             Going([b EXCEPT !.wire = Flushed(@), !.pg.health = "RECEIVE"])}
      [] OTHER -> IF IsBusy(b.wire) THEN {Waiting(b, "READ")} ELSE {HealthResult(b)}

\* vps_libpq_readiness, after PQconnectPoll said OK: TLS, identity, then the session.
Readiness(b) ==
    IF b.wire.status = "BAD" THEN {Answer(b, "ERROR", "NONE", "CONNECTION")}
    ELSE {HealthBegin(b, "CONNECT"), ConnectionError(b, "TLS"), ConnectionError(b, "CONFIG")}

\* vps_libpq_connection_poll, one turn; health_poll's loop reads no clock of its own.
ConnectionPoll(b, turn) ==
    IF b.pg.phase \notin {"CONNECTING", "HEALTH"} THEN {Answer(b, "INVALID_STATE", "NONE", "NONE")}
    ELSE IF b.pg.phase = "HEALTH"
    THEN IF turn = 0 THEN UnlessExpired(b, HealthPoll(b)) ELSE HealthPoll(b)
    ELSE UnlessExpired(b,
            {Waiting(b, interest) : interest \in Waits} \cup Readiness(b)
                \cup {ConnectionError(b, err) : err \in {"CONNECTION", "AUTH", "TLS", "CONFIG"}})

\* Faulty: the probe is not asked.
SocketWaitDeaf(b, ready, requested) ==
    IF b.dl = "expired" THEN {"DEADLINE_EXPIRED"} ELSE IF ready THEN {"READY"} ELSE {}

\* Faulty: the clock is not read.
SocketWaitTimeless(b, ready, requested) ==
    IF requested THEN {"INTERRUPTED"} ELSE IF ready THEN {"READY"} ELSE {}

\* vps_socket_wait_execute as its callers see it: the probe first, then the deadline,
\* then the socket.  No outcome: the loop goes on.  Any wait may also fail.
SocketWait(b, ready, requested) ==
    IF requested THEN {"INTERRUPTED"}
    ELSE IF b.dl = "expired" THEN {"DEADLINE_EXPIRED"}
    ELSE IF ready THEN {"READY"} ELSE {}

ConnectionSocketReady(b, interest) ==
    \/ interest # "READ"
    \/ b.pg.phase = "CONNECTING"
    \/ b.wire.in # <<>>
    \/ b.wire.status = "BAD"

\* vps_libpq_connection_wait: nothing can interrupt it, its probe is never set.
ConnectionWait(b, outcome) ==
    CASE outcome = "READY" -> Answer(b, "OK", "NONE", "NONE")
      [] outcome = "DEADLINE_EXPIRED" -> ConnectionError(b, "TIMEOUT")
      [] OTHER -> ConnectionError(b, "CONNECTION")
=============================================================================
