-------------------------- MODULE VtabTransaction ---------------------------
(***************************************************************************)
(* Transactions of the virtual tables of one SQLite connection, end to     *)
(* end: SQLite calls the transaction, write and scan callbacks of          *)
(* src/src/vps_module.c; the callbacks consult the coordinator             *)
(* (Transaction) and send commands over the one pinned connection of the   *)
(* transaction; the PostgreSQL session answers.                            *)
(*                                                                         *)
(* SQLite serialises the callbacks, so each callback is one step; what     *)
(* interleaves is the order SQLite chooses and what the server and the     *)
(* network answer.  SQLite is external: `todo' holds the callbacks that    *)
(* the running SQL statement still has to make and each one's entry says   *)
(* what SQLite does when it fails.                                         *)
(*                                                                         *)
(* Data are abstracted to write numbers: each row change has its own, so   *)
(* the properties can follow it to the server and to the application.      *)
(***************************************************************************)
EXTENDS Transaction

CONSTANTS
    Tables,          \* writable virtual tables
    Identities,      \* PostgreSQL connection identities
    IdentityOf,      \* table -> its connection identity
    Cursors,         \* cursors an application may open
    CursorTable,     \* cursor -> its table
    MaxDepth,        \* bound: nested savepoints of the application
    MaxWrites        \* bound: row changes in a behaviour

ASSUME VtabAssumption ==
    /\ IdentityOf \in [Tables -> Identities]
    /\ CursorTable \in [Cursors -> Tables]
    /\ NoIdentity \notin Identities
    /\ MaxDepth \in Nat
    /\ MaxWrites \in Nat

VARIABLES
    tx,         \* context->transaction
    pinned,     \* identity of context->transaction_connection, or NoIdentity
    phase,      \* VpsLibpqPhase of the pinned connection between callbacks
    session,    \* the server session behind the pinned connection
    cursor,     \* cursor -> machine state and transaction_stream
    sql,        \* SQLite's view of the transaction
    todo,       \* callbacks the running SQL statement has still to make
    nextWrite,  \* number of the next row change
    acked,      \* changes whose commit was reported to SQLite as done
    undone,     \* changes SQLite took back
    committed   \* changes the server has committed

ghosts == <<acked, undone, committed>>
remote == <<tx, pinned, phase, session>>
vars == <<remote, cursor, sql, todo, nextWrite, ghosts>>

Writes == 1..MaxWrites
Levels == 0..MaxDepth

-----------------------------------------------------------------------------
(* The PostgreSQL session (external) *)

NoSession == [state |-> "none", writes |-> {}, savepoints |-> <<>>]
NewSession == [NoSession EXCEPT !.state = "active"]
GoneSession == [NoSession EXCEPT !.state = "gone"]

Sessions ==
    [state : {"none", "active", "inerror", "gone"},
     writes : SUBSET Writes,
     savepoints : Seq([level : Levels, mark : SUBSET Writes])]

\* A later savepoint hides an earlier one of the same name.
ServerHas(level) ==
    \E i \in DOMAIN session.savepoints : session.savepoints[i].level = level

ServerFind(level) ==
    CHOOSE i \in DOMAIN session.savepoints :
        /\ session.savepoints[i].level = level
        /\ \A j \in DOMAIN session.savepoints :
               j > i => session.savepoints[j].level # level

AfterSavepoint(level) ==
    [session EXCEPT !.savepoints = Append(@, [level |-> level, mark |-> session.writes])]

AfterRelease(level) ==
    [session EXCEPT !.savepoints = SubSeq(@, 1, ServerFind(level) - 1)]

AfterRollbackTo(level) ==
    [session EXCEPT !.savepoints = SubSeq(@, 1, ServerFind(level)),
                    !.writes = session.savepoints[ServerFind(level)].mark,
                    !.state = "active"]

\* A statement on the pinned connection: open, execute, fetch, close.
\*   ok      the server did it;
\*   error   the server refused it and the transaction is in error;
\*   fatal   the server ended the session with an error result;
\*   broken  send, receive, timeout or protocol failure: the libpq connection
\*           is FAILED from here on.  A connection that is missing, FAILED or
\*           whose session is gone gives this at once.
Outcomes == {"ok", "error", "fatal", "broken"}

Command(outcome, possible, done) ==
    /\ outcome = "ok" => phase = "READY" /\ possible
    /\ outcome \in {"error", "fatal"} => /\ phase = "READY"
                                         /\ session.state \in {"active", "inerror"}
    /\ session' = IF outcome = "ok" THEN done
                  ELSE IF outcome = "error" THEN [session EXCEPT !.state = "inerror"]
                  ELSE IF session.state = "none" THEN session ELSE GoneSession
    /\ phase' = IF outcome = "broken" /\ session.state # "none" THEN "FAILED" ELSE phase

\* state: VpsCursorMachine; stream: cursor->transaction_stream; undrained: the
\* statement of a failed cursor was left in the middle of its rows.
ClosedCursor == [state |-> "CLOSED", stream |-> 0, undrained |-> FALSE]

-----------------------------------------------------------------------------
(* SQLite (external) *)

\* A callback, or a step of SQLite itself (named in lower case).  orelse says what
\* SQLite does when the callback fails:
\*   abort     the writing statement fails and is undone;
\*   rollback  the whole transaction is rolled back;
\*   report    the statement fails, nothing else happens;
\*   busy      BUSY fails COMMIT and leaves the transaction open, other codes
\*             roll it back;
\*   ignore    the result code is not looked at;
\*   close     the scan fails and its cursor is closed.
Call(op, who, level, orelse) ==
    [op |-> op, who |-> who, level |-> level, orelse |-> orelse]

Step(op) == Call(op, "sqlite", 0, "ignore")

Each(op, tables, level, orelse) ==
    [i \in DOMAIN tables |-> Call(op, tables[i], level, orelse)]

IdleSql == [explicit |-> FALSE, begun |-> <<>>, seen |-> [t \in Tables |-> 0],
            depth |-> 0, marks |-> <<>>, stmt |-> 0, stmtMark |-> {},
            writes |-> {}, discard |-> {}]

\* sqlite3VtabSavepoint passes ROLLBACK TO and RELEASE on only to tables that
\* were told of a savepoint at this level or a deeper one.
Told(s, level) == SelectSeq(s.begun, LAMBDA t : s.seen[t] > level)

RollbackAll(s) == Each("xRollback", s.begun, 0, "ignore") \o <<Step("rolled back")>>

\* A failed writing statement.
AbortStatement(s) ==
    IF ~s.explicit THEN RollbackAll(s)
    ELSE IF s.stmt = 0 THEN <<>>
    ELSE Each("xRollbackTo", Told(s, s.depth), s.depth, "rollback")
         \o <<Step("statement undone")>>
         \o Each("xRelease", Told(s, s.depth), s.depth, "rollback")
         \o <<Step("statement closed")>>

\* SQLite, in state s, goes on after the callback at the head returned rc.
GoOn(s, rc, more) ==
    LET call == Head(todo)
        recovery == CASE call.orelse = "abort" -> AbortStatement(s)
                      [] call.orelse = "rollback" -> RollbackAll(s)
                      [] call.orelse = "report" -> <<>>
                      [] call.orelse = "busy" ->
                             IF rc = "BUSY" THEN <<>> ELSE RollbackAll(s)
                      [] call.orelse = "close" ->
                             <<Call("xClose", call.who, 0, "ignore")>>
    IN IF rc = "OK" \/ call.orelse = "ignore" THEN more \o Tail(todo) ELSE recovery

Return(rc) == todo' = GoOn(sql, rc, <<>>)

Calling(op, who) == todo # <<>> /\ Head(todo).op = op /\ Head(todo).who = who

\* The code a callback returns for a coordinator result other than OK.
Refusal(rc) == IF rc = "BUSY" THEN "BUSY" ELSE "ABORT"

Init ==
    /\ tx = ResetActive
    /\ pinned = NoIdentity
    /\ phase = "READY"
    /\ session = NoSession
    /\ cursor = [c \in Cursors |-> ClosedCursor]
    /\ sql = IdleSql
    /\ todo = <<>>
    /\ nextWrite = 1
    /\ acked = {}
    /\ undone = {}
    /\ committed = {}

-----------------------------------------------------------------------------
(* What the application asks of SQLite; each request starts a statement *)

Request(s, program) ==
    /\ todo = <<>>
    /\ sql' = s
    /\ todo' = program
    /\ UNCHANGED <<remote, cursor, nextWrite, ghosts>>

AppBegin == ~sql.explicit /\ Request([sql EXCEPT !.explicit = TRUE], <<>>)

\* One or two row changes of table t.  A statement that changes several rows
\* inside an explicit transaction runs under a savepoint of its own.
AppWrite(t, rows) ==
    LET stmt == IF sql.explicit /\ rows > 1 THEN 1 ELSE 0
        opening == IF stmt = 1 THEN Each("xSavepoint", sql.begun, sql.depth, "abort")
                               ELSE <<>>
        begin == IF \E i \in DOMAIN sql.begun : sql.begun[i] = t THEN <<>>
                 ELSE <<Call("xBegin", t, 0, "abort")>>
        changes == [i \in 1..rows |-> Call("xUpdate", t, 0, "abort")]
    IN /\ nextWrite + rows <= MaxWrites + 1
       /\ Request([sql EXCEPT !.stmt = stmt,
                             !.stmtMark = IF stmt = 1 THEN sql.writes ELSE {}],
                  opening \o begin \o changes \o <<Step("statement done")>>)

AppSavepoint ==
    /\ sql.explicit
    /\ sql.depth < MaxDepth
    /\ Request(sql, Each("xSavepoint", sql.begun, sql.depth, "report")
                    \o <<Step("savepoint opened")>>)

\* SQLite forgets the deeper savepoints before it tells the tables.
AppRollbackTo(level) ==
    /\ level < sql.depth
    /\ Request([sql EXCEPT !.depth = level + 1,
                           !.marks = SubSeq(@, 1, level + 1),
                           !.writes = sql.marks[level + 1],
                           !.discard = sql.writes \ sql.marks[level + 1]],
               Each("xRollbackTo", Told(sql, level), level, "report")
               \o <<Step("rolled back to")>>)

AppRelease(level) ==
    /\ level < sql.depth
    /\ Request([sql EXCEPT !.depth = level, !.marks = SubSeq(@, 1, level)],
               Each("xRelease", Told(sql, level), level, "report"))

AppCommit ==
    /\ sql.explicit
    /\ Request(sql, Each("xSync", sql.begun, 0, "busy")
                    \o Each("xCommit", sql.begun, 0, "ignore")
                    \o <<Step("committed")>>)

AppRollback == sql.explicit /\ Request(sql, RollbackAll(sql))

\* A scan starts, steps, starts over or is abandoned.
AppScan(c) ==
    /\ cursor[c].state = "CLOSED"
    /\ todo = <<>>
    /\ todo' = <<Call("xOpen", c, 0, "report"), Call("xFilter", c, 0, "close")>>
    /\ UNCHANGED <<remote, cursor, sql, nextWrite, ghosts>>

AppStep(c) ==
    /\ cursor[c].state = "ROW_READY"
    /\ Request(sql, <<Call("xNext", c, 0, "close")>>)

AppRescan(c) ==
    /\ cursor[c].state \in {"ROW_READY", "EOF"}
    /\ Request(sql, <<Call("xFilter", c, 0, "close")>>)

AppFinish(c) ==
    /\ cursor[c].state \in {"ROW_READY", "EOF"}
    /\ Request(sql, <<Call("xClose", c, 0, "ignore")>>)

Application ==
    \/ AppBegin
    \/ \E t \in Tables, rows \in 1..2 : AppWrite(t, rows)
    \/ AppSavepoint
    \/ \E level \in Levels : AppRollbackTo(level) \/ AppRelease(level)
    \/ AppCommit
    \/ AppRollback
    \/ \E c \in Cursors : AppScan(c) \/ AppStep(c) \/ AppRescan(c) \/ AppFinish(c)

\* SQLite's own steps between the callbacks.
StatementDone ==
    /\ Calling("statement done", "sqlite")
    /\ todo' = IF ~sql.explicit
               THEN Each("xSync", sql.begun, 0, "rollback")
                    \o Each("xCommit", sql.begun, 0, "ignore")
                    \o <<Step("committed")>>
               ELSE IF sql.stmt = 0 THEN <<>>
               ELSE Each("xRelease", Told(sql, sql.depth), sql.depth, "rollback")
                    \o <<Step("statement closed")>>
    /\ UNCHANGED <<sql, undone>>

SavepointOpened ==
    /\ Calling("savepoint opened", "sqlite")
    /\ sql' = [sql EXCEPT !.depth = @ + 1, !.marks = Append(@, sql.writes)]
    /\ todo' = Tail(todo)
    /\ UNCHANGED undone

RolledBackTo ==
    /\ Calling("rolled back to", "sqlite")
    /\ sql' = [sql EXCEPT !.discard = {}]
    /\ undone' = undone \cup sql.discard
    /\ todo' = Tail(todo)

StatementUndone ==
    /\ Calling("statement undone", "sqlite")
    /\ sql' = [sql EXCEPT !.writes = sql.stmtMark]
    /\ undone' = undone \cup (sql.writes \ sql.stmtMark)
    /\ todo' = Tail(todo)

StatementClosed ==
    /\ Calling("statement closed", "sqlite")
    /\ sql' = [sql EXCEPT !.stmt = 0, !.stmtMark = {}]
    /\ todo' = Tail(todo)
    /\ UNCHANGED undone

TransactionOver ==
    /\ Calling("committed", "sqlite") \/ Calling("rolled back", "sqlite")
    /\ sql' = IdleSql
    /\ undone' = IF Head(todo).op = "committed" THEN undone ELSE undone \cup sql.writes
    /\ todo' = Tail(todo)

Sqlite ==
    /\ \/ StatementDone \/ SavepointOpened \/ RolledBackTo \/ StatementUndone
       \/ StatementClosed \/ TransactionOver
    /\ UNCHANGED <<remote, cursor, nextWrite, acked, committed>>

-----------------------------------------------------------------------------
(* Transaction callbacks of the module *)

\* vps_module_begin.  The first table takes a connection from its pool, starts the
\* remote transaction on it and sets its characteristics; any failure on the way
\* gives the connection back and leaves the coordinator idle.
Begin(t) ==
    LET r == TxBegin(tx, IdentityOf[t], t)
        joined == [sql EXCEPT !.begun = Append(@, t)]
        level == sql.depth + sql.stmt
        announce == IF level = 0 THEN <<>>
                    ELSE <<Call("xSavepoint", t, level - 1, "abort")>>
    IN /\ Calling("xBegin", t)
       /\ \/ /\ r.rc = "OK"
             /\ tx' = r.tx
             /\ sql' = joined
             /\ todo' = GoOn(joined, "OK", announce)
             /\ UNCHANGED <<pinned, phase, session>>
          \/ /\ r.rc \notin {"OK", "COMMAND_REQUIRED"}
             /\ Return(IF r.rc = "IDENTITY_MISMATCH" THEN "CONSTRAINT"
                                                     ELSE Refusal(r.rc))
             /\ UNCHANGED <<remote, sql>>
          \/ /\ r.rc = "COMMAND_REQUIRED"
             /\ tx' = TxBeginComplete(r.tx, TRUE)
             /\ pinned' = IdentityOf[t]
             /\ session' = NewSession
             /\ sql' = joined
             /\ todo' = GoOn(joined, "OK", announce)
             /\ UNCHANGED phase
          \/ /\ r.rc = "COMMAND_REQUIRED"
             /\ tx' = TxBeginComplete(r.tx, FALSE)
             /\ Return("ERROR")
             /\ UNCHANGED <<pinned, phase, session, sql>>
       /\ UNCHANGED <<cursor, nextWrite, ghosts>>

\* vps_module_sync
Sync(t) ==
    LET rc == TxCommandAllowed(tx)
    IN /\ Calling("xSync", t)
       /\ Return(IF tx.state = "IDLE" \/ rc = "OK" THEN "OK" ELSE Refusal(rc))
       /\ UNCHANGED <<remote, cursor, sql, nextWrite, ghosts>>

\* How COMMIT or ROLLBACK on the pinned connection ends.
\*   ok       the server answered COMMAND_OK; the tag is not looked at, and COMMIT
\*            of a transaction in error is a rollback that answers so too;
\*   refused  the server answered with an error and the transaction is gone: an
\*            error class that does not count as a lost connection;
\*   lost     connection, timeout or cancel class: the command may have been done;
\*   unsent   no connection or a FAILED one: INVALID_STATE without an error class.
Ends == {"ok", "refused", "lost", "unsent"}

EndPossible(end) ==
    /\ end = "unsent" <=> pinned = NoIdentity \/ phase = "FAILED"
    /\ end \in {"ok", "refused"} => session.state \in {"active", "inerror"}

\* Whatever the outcome, the lease is released and the connection forgotten.
ReleaseLease(end) ==
    /\ end \in Ends
    /\ pinned' = NoIdentity
    /\ phase' = "READY"
    /\ session' = NoSession

\* vps_module_end when the coordinator answers without a command.
EndWithoutCommand(op) ==
    LET rc == TxEnd(tx, op).rc
    IN /\ rc # "COMMAND_REQUIRED"
       /\ Return(IF rc = "OK" THEN "OK" ELSE Refusal(rc))
       /\ acked' = IF op = "COMMIT" /\ rc = "OK" THEN acked \cup sql.writes ELSE acked
       /\ UNCHANGED <<remote, committed>>

\* vps_module_end when a command is sent or should be.
EndWithCommand(op, end) ==
    LET r == TxEnd(tx, op)
        commits == op = "COMMIT" /\ session.state = "active"
        outcomes == IF ~commits \/ end \in {"refused", "unsent"} THEN {{}}
                    ELSE IF end = "ok" THEN {session.writes}
                    ELSE {{}, session.writes}
    IN /\ r.rc = "COMMAND_REQUIRED"
       /\ EndPossible(end)
       /\ tx' = TxEndComplete(r.tx, end = "ok", end = "lost")
       /\ \E done \in outcomes : committed' = committed \cup done
       /\ ReleaseLease(end)
       /\ acked' = IF op = "COMMIT" /\ end = "ok" THEN acked \cup sql.writes ELSE acked
       /\ Return(IF end = "ok" THEN "OK" ELSE "ERROR")

EndTransaction(t, callback, op) ==
    /\ Calling(callback, t)
    /\ EndWithoutCommand(op) \/ \E end \in Ends : EndWithCommand(op, end)
    /\ UNCHANGED <<cursor, sql, nextWrite, undone>>

Commit(t) == EndTransaction(t, "xCommit", "COMMIT")

\* Faulty: the wrong operation is passed on.
RollbackCommits(t) == EndTransaction(t, "xRollback", "COMMIT")

Rollback(t) == EndTransaction(t, "xRollback", "ROLLBACK")

\* vps_module_savepoint_action with the coordinator's answer r: the command, and
\* mark_failed when it does not succeed.  SQLite is in state s afterwards.
SavepointAction(s, r, possible, done) ==
    /\ \/ /\ r.rc = "COMMAND_REQUIRED"
          /\ \E outcome \in Outcomes :
                 /\ Command(outcome, possible, done)
                 /\ tx' = IF outcome = "ok" THEN r.tx ELSE TxMarkFailed(r.tx)
                 /\ todo' = GoOn(s, IF outcome = "ok" THEN "OK" ELSE "ERROR", <<>>)
       \/ /\ r.rc # "COMMAND_REQUIRED"
          /\ todo' = GoOn(s, IF r.rc = "OK" THEN "OK" ELSE Refusal(r.rc), <<>>)
          /\ UNCHANGED <<tx, phase, session>>
    /\ sql' = s
    /\ UNCHANGED <<pinned, cursor, nextWrite, ghosts>>

\* SQLite notes the level as told before the callback runs.
Savepoint(t) ==
    LET level == Head(todo).level
    IN /\ Calling("xSavepoint", t)
       /\ SavepointAction([sql EXCEPT !.seen[t] = level + 1], TxSavepoint(tx, level),
                          session.state = "active", AfterSavepoint(level))

Release(t) ==
    LET level == Head(todo).level
    IN /\ Calling("xRelease", t)
       /\ SavepointAction(sql, TxRelease(tx, level),
                          session.state = "active" /\ ServerHas(level),
                          AfterRelease(level))

RollbackTo(t) ==
    LET level == Head(todo).level
    IN /\ Calling("xRollbackTo", t)
       /\ SavepointAction(sql, TxRollbackTo(tx, level),
                          session.state \in {"active", "inerror"} /\ ServerHas(level),
                          AfterRollbackTo(level))

-----------------------------------------------------------------------------
(* vps_module_update inside a transaction *)

\* A read-only table, an unsupported key, a value that does not fit its column:
\* the row change fails before the coordinator is asked.
UpdateRejected(t) ==
    /\ Calling("xUpdate", t)
    /\ Return("MISMATCH")
    /\ UNCHANGED <<remote, cursor, sql, nextWrite, ghosts>>

\* The row change is refused by the gate.
UpdateRefused(t) ==
    /\ Calling("xUpdate", t)
    /\ tx.state # "IDLE"
    /\ TxCommandAllowed(tx) # "OK"
    /\ Return(Refusal(TxCommandAllowed(tx)))
    /\ UNCHANGED <<remote, cursor, sql, nextWrite, ghosts>>

\* EXECUTE and the first FETCH run; their failure marks the transaction failed.
UpdateRuns(t) ==
    /\ Calling("xUpdate", t)
    /\ TxCommandAllowed(tx) = "OK"
    /\ \E outcome \in Outcomes :
           /\ Command(outcome, session.state = "active",
                      [session EXCEPT !.writes = @ \cup {nextWrite}])
           /\ tx' = IF outcome = "ok" THEN tx ELSE TxMarkFailed(tx)
           /\ sql' = IF outcome = "ok" THEN [sql EXCEPT !.writes = @ \cup {nextWrite}]
                                       ELSE sql
           /\ Return(IF outcome = "ok" THEN "OK" ELSE "ERROR")
    /\ nextWrite' = nextWrite + 1
    /\ UNCHANGED <<pinned, cursor, ghosts>>

\* No row was changed: an optimistic conflict or a row that is not there.
UpdateFindsNoRow(t) ==
    /\ Calling("xUpdate", t)
    /\ TxCommandAllowed(tx) = "OK"
    /\ phase = "READY"
    /\ session.state = "active"
    /\ \E rc \in {"BUSY", "CONSTRAINT", "ERROR"} : Return(rc)
    /\ UNCHANGED <<remote, cursor, sql, nextWrite, ghosts>>

\* The row came back and reading it, or the terminal FETCH, failed: the result is
\* an error, but `status' is still OK, so the transaction is not marked failed.
UpdateLosesTail(t) ==
    /\ Calling("xUpdate", t)
    /\ TxCommandAllowed(tx) = "OK"
    /\ phase = "READY"
    /\ session.state = "active"
    /\ phase' = "FAILED"
    /\ session' = GoneSession
    /\ Return("ERROR")
    /\ UNCHANGED <<tx, pinned, cursor, sql, nextWrite, ghosts>>

Update(t) ==
    \/ UpdateRejected(t) \/ UpdateRefused(t) \/ UpdateRuns(t)
    \/ UpdateFindsNoRow(t) \/ UpdateLosesTail(t)

-----------------------------------------------------------------------------
(* Scan callbacks: vps_module_open, _filter, _next and _close *)

\* vps_module_open allocates: c stands for a cursor that is not in use.
OpenCursor(c) ==
    /\ Calling("xOpen", c)
    /\ cursor[c].state = "CLOSED"
    /\ cursor' = [cursor EXCEPT ![c].state = "OPEN"]
    /\ Return("OK")
    /\ UNCHANGED <<remote, sql, nextWrite, ghosts>>

\* vps_cursor_advance on a cursor that streams from the pinned connection:
\*   row        a row was fetched;
\*   complete   the rows are exhausted: the stream gate opens;
\*   cancelled  interrupt or deadline: the query was cancelled and drained; it may
\*              have ended before the cancel request reached it;
\*   local      a fetched row could not be decoded, identified or afforded;
\*   error, fatal, broken as for every command.
\* All but the first two mark the transaction failed and open the gate.
AdvanceStream(c, gated, result) ==
    LET failed == TxStreamEnd(TxMarkFailed(gated))
        fail(undrained) == [state |-> "FAILED", stream |-> 0, undrained |-> undrained]
    IN \/ /\ result = "row"
          /\ Command("ok", session.state = "active", session)
          /\ tx' = gated
          /\ cursor' = [cursor EXCEPT ![c].state = "ROW_READY", ![c].stream = 1]
          /\ Return("OK")
       \/ /\ result = "complete"
          /\ Command("ok", session.state = "active", session)
          /\ tx' = TxStreamEnd(gated)
          /\ cursor' = [cursor EXCEPT ![c].state = "EOF", ![c].stream = 0]
          /\ Return("OK")
       \/ /\ result \in {"error", "fatal", "broken"}
          /\ Command(result, FALSE, session)
          /\ tx' = failed
          /\ cursor' = [cursor EXCEPT ![c] = fail(FALSE)]
          /\ Return("ERROR")
       \/ /\ result = "cancelled"
          /\ \/ Command("error", FALSE, session)
             \/ Command("ok", session.state = "active", session)
          /\ tx' = failed
          /\ cursor' = [cursor EXCEPT ![c] = fail(FALSE)]
          /\ Return("INTERRUPT")
       \/ /\ result = "local"
          /\ Command("ok", session.state = "active", session)
          /\ tx' = failed
          /\ cursor' = [cursor EXCEPT ![c] = fail(TRUE)]
          /\ Return("ERROR")

Results == {"row", "complete", "cancelled", "local", "error", "fatal", "broken"}

\* Outside a transaction the cursor reads from a pool lease of its own.
AdvanceAlone(c) ==
    /\ \E s \in {"ROW_READY", "EOF", "FAILED"} :
           /\ cursor' = [cursor EXCEPT ![c].state = s]
           /\ Return(IF s = "FAILED" THEN "ERROR" ELSE "OK")
    /\ UNCHANGED <<tx, phase, session>>

\* vps_transaction_begin joins the table, then vps_transaction_stream_begin takes
\* the gate.
StreamGate(t) ==
    LET join == TxBegin(tx, IdentityOf[t], t)
    IN IF join.rc = "OK" THEN TxStreamBegin(join.tx) ELSE join

Filter(c) ==
    LET gate == StreamGate(CursorTable[c])
    IN /\ Calling("xFilter", c)
       /\ \/ /\ cursor[c].state \notin {"OPEN", "EOF"}
             /\ Return("MISUSE")
             /\ UNCHANGED <<tx, phase, session, cursor>>
          \/ /\ cursor[c].state \in {"OPEN", "EOF"}
             \* The cached schema, the plan or the size of the query is rejected.
             /\ \/ /\ \E s \in {cursor[c].state, "FAILED"} :
                          cursor' = [cursor EXCEPT ![c].state = s]
                   /\ Return("CORRUPT")
                   /\ UNCHANGED <<tx, phase, session>>
                \/ /\ tx.state = "IDLE"
                   /\ AdvanceAlone(c)
                \/ /\ tx.state # "IDLE"
                   /\ gate.rc # "OK"
                   /\ tx' = gate.tx
                   /\ cursor' = [cursor EXCEPT ![c].state = "FILTERING"]
                   /\ Return(Refusal(gate.rc))
                   /\ UNCHANGED <<phase, session>>
                \/ /\ tx.state # "IDLE"
                   /\ gate.rc = "OK"
                   /\ \E result \in Results : AdvanceStream(c, gate.tx, result)
                \* EXECUTE cannot be sent: the cursor fails and keeps the gate.
                \/ /\ tx.state # "IDLE"
                   /\ gate.rc = "OK"
                   /\ Command("broken", FALSE, session)
                   /\ tx' = gate.tx
                   /\ cursor' = [cursor EXCEPT ![c].state = "FAILED", ![c].stream = 1]
                   /\ Return("ERROR")
       /\ UNCHANGED <<pinned, sql, nextWrite, ghosts>>

NextRow(c) ==
    /\ Calling("xNext", c)
    /\ cursor[c].state = "ROW_READY"
    /\ IF cursor[c].stream = 1
       THEN \E result \in Results : AdvanceStream(c, tx, result)
       ELSE AdvanceAlone(c)
    /\ UNCHANGED <<pinned, sql, nextWrite, ghosts>>

\* Faulty: the gate stays taken.
OpenGateNot(c) == UNCHANGED tx /\ c \in Cursors

\* The stream gate opens when the cursor had taken it.
OpenGate(c) == tx' = IF cursor[c].stream = 1 THEN TxStreamEnd(tx) ELSE tx

\* vps_module_close with vps_cursor_release.  A stream with rows left is cancelled
\* and drained; the server answers 57014, which puts its transaction in error, or
\* the query had already ended, or the cancel fails and the connection with it.
\* The statement of a failed cursor that still has rows is destroyed in flight.
CloseCursor(c) ==
    LET streaming == cursor[c].state = "ROW_READY" /\ cursor[c].stream = 1
    IN /\ Calling("xClose", c)
       /\ \/ /\ streaming
             /\ \/ Command("error", FALSE, session)
                \/ Command("ok", session.state = "active", session)
                \/ Command("broken", FALSE, session)
          \/ /\ cursor[c].undrained
             /\ Command("broken", FALSE, session)
          \/ /\ ~streaming
             /\ ~cursor[c].undrained
             /\ UNCHANGED <<phase, session>>
       /\ OpenGate(c)
       /\ cursor' = [cursor EXCEPT ![c] = ClosedCursor]
       /\ Return("OK")
       /\ UNCHANGED <<pinned, sql, nextWrite, ghosts>>

Callback ==
    \/ \E t \in Tables : \/ Begin(t) \/ Sync(t) \/ Commit(t) \/ Rollback(t)
                        \/ Savepoint(t) \/ Release(t) \/ RollbackTo(t) \/ Update(t)
    \/ \E c \in Cursors : OpenCursor(c) \/ Filter(c) \/ NextRow(c) \/ CloseCursor(c)

Next == Application \/ Sqlite \/ Callback

Spec == Init /\ [][Next]_vars

-----------------------------------------------------------------------------
(* Properties *)

\* Types; between two callbacks the coordinator is never half way through BEGIN or
\* the end of a transaction (vps_module_begin and vps_module_end complete both).
TypeOK ==
    /\ tx \in Coordinators(Identities, Tables, Levels)
    /\ tx.state \notin {"BEGINNING", "ENDING"}
    /\ pinned \in Identities \cup {NoIdentity}
    /\ phase \in {"READY", "FAILED"}
    /\ session \in Sessions
    /\ nextWrite \in 1..(MaxWrites + 1)
    /\ acked \subseteq Writes
    /\ undone \subseteq Writes
    /\ committed \subseteq Writes

\* A transaction that xCommit reported as committed is committed on the server, all
\* of it: no change is lost behind a successful COMMIT (vps_module_end).
AckedIsCommitted == acked \subseteq committed

\* What SQLite rolled back, as a statement, to a savepoint or as a transaction, is
\* never committed on the server ("xRollback | ROLLBACK on the pinned connection").
RolledBackStaysOut == undone \cap committed = {}

\* While both sides are healthy the coordinator tracks exactly the savepoints that
\* exist on the server, in order; else a later ROLLBACK TO names the wrong point.
SavepointsMirrored ==
    tx.state = "ACTIVE" /\ session.state = "active" =>
        tx.savepoints = [i \in DOMAIN session.savepoints |-> session.savepoints[i].level]

\* The stream gate is taken exactly while one cursor holds it, so it is neither
\* leaked (every later command BUSY) nor opened under a live stream.
GateHasOneOwner ==
    tx.stream = Cardinality({c \in Cursors : cursor[c].stream = 1})

\* "a live cursor makes conflicting DML, savepoint, sync, commit, and second-cursor
\* work return deterministic busy": while a cursor streams, the changes and the
\* savepoints of its session stay as they are until the session is gone.
StreamIsolated ==
    [][tx.stream = 1 /\ session'.state \notin {"gone", "none"} =>
           session'.writes = session.writes /\ session'.savepoints = session.savepoints]_vars

\* An unknown outcome is final: the coordinator stays ambiguous, no connection is
\* pinned for it again and nothing more is committed ("never retried").
AmbiguousIsFinal ==
    [][tx.state = "AMBIGUOUS" =>
           tx'.state = "AMBIGUOUS" /\ pinned' = NoIdentity /\ committed' = committed]_vars
=============================================================================
