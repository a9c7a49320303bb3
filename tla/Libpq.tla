------------------------------- MODULE Libpq --------------------------------
(***************************************************************************)
(* External: libpq's asynchronous interface and the PostgreSQL session     *)
(* behind it, as src/src/vps_libpq_client*.c use them.                     *)
(*                                                                         *)
(* One record holds a connection: what libpq knows, the messages on the    *)
(* wire and the session's state.                                           *)
(*   status  what PQstatus answers                                         *)
(*   out     a command handed to PQsend... and not yet flushed             *)
(*   busy    PQgetResult has not yet returned NULL for the last command    *)
(*   in      results that arrived and PQgetResult has not yet returned     *)
(*   tx      what PQtransactionStatus answers between commands             *)
(*   cmd     what the session executes; "ending": ReadyForQuery is due     *)
(*   rows    rows the session sent for the last command                    *)
(*   full    the session sent all rows of the last command                 *)
(*   stx     the session's own transaction status                          *)
(*   sig     a cancel request: on its way, or taken by the session         *)
(* A result is a record: its kind, the number of its row, whether its      *)
(* fields are the ones the statement declared, and the transaction status  *)
(* that comes with ReadyForQuery.                                          *)
(***************************************************************************)
EXTENDS Naturals, Sequences

CONSTANT MaxRows   \* bound: rows of a query
ASSUME LibpqAssumption == MaxRows \in Nat

Commands == {"scan", "command", "prepare", "describe", "setting", "ping",
             "discard", "BEGIN", "COMMIT", "ROLLBACK"}
TxStatus == {"IDLE", "ACTIVE", "INERROR"}
Result(k, n, fit, tx) == [k |-> k, n |-> n, fit |-> fit, tx |-> tx]
Kinds == {"SINGLE_TUPLE", "TUPLES_OK", "COMMAND_OK", "FATAL_ERROR", "57014", "READY"}
Results == [k : Kinds, n : 0..MaxRows, fit : BOOLEAN, tx : TxStatus]
NULL == Result("READY", 0, TRUE, "IDLE")

Wires == [status : {"OK", "BAD"}, out : Commands \cup {"none"}, busy : BOOLEAN,
          in : Seq(Results), tx : TxStatus, cmd : Commands \cup {"none", "ending"},
          rows : 0..MaxRows, full : BOOLEAN, stx : TxStatus,
          sig : {"none", "sent", "delivered"}]

FreshWire == [status |-> "OK", out |-> "none", busy |-> FALSE, in |-> <<>>,
              tx |-> "IDLE", cmd |-> "none", rows |-> 0, full |-> FALSE,
              stx |-> "IDLE", sig |-> "none"]

-----------------------------------------------------------------------------
\* Calls of libpq.
Send(w, command) == [w EXCEPT !.out = command, !.busy = TRUE]

\* PQflush that emptied the buffer: the session takes the command.
Flushed(w) == IF w.out = "none" THEN w ELSE [w EXCEPT !.out = "none", !.cmd = w.out]

IsBusy(w) == w.busy /\ w.in = <<>>

\* PQgetResult would return without waiting for the network.
ResultAvailable(w) == ~w.busy \/ w.in # <<>> \/ w.status = "BAD"

\* PQgetResult: the result, or a READY record for NULL.
NextResult(w) ==
    IF ~w.busy THEN NULL
    ELSE IF w.in # <<>> THEN Head(w.in)
    ELSE Result("FATAL_ERROR", 0, TRUE, w.tx)

\* With NULL the command is over and its rows are forgotten.
AfterResult(w) ==
    LET over == [w EXCEPT !.busy = FALSE, !.rows = 0, !.full = FALSE]
    IN IF ~w.busy THEN w
       ELSE IF w.in = <<>> THEN over
       ELSE IF Head(w.in).k = "READY"
            THEN [over EXCEPT !.in = Tail(@), !.tx = Head(w.in).tx]
       ELSE [w EXCEPT !.in = Tail(@)]

-----------------------------------------------------------------------------
\* Steps of the session and of the network.
Executing(w) == w.status = "OK" /\ w.cmd \notin {"none", "ending"}
Failed(tx) == IF tx = "ACTIVE" THEN "INERROR" ELSE tx
Reply(w, k, n, fit) == [w EXCEPT !.in = Append(@, Result(k, n, fit, "IDLE"))]

SendsRow(w) ==
    IF Executing(w) /\ w.cmd = "scan" /\ w.rows < MaxRows /\ w.stx # "INERROR"
    THEN {[Reply(w, "SINGLE_TUPLE", w.rows + 1, fit) EXCEPT !.rows = @ + 1] : fit \in BOOLEAN}
    ELSE {}

\* COMMIT and ROLLBACK end a failed transaction; everything else is refused in one.
Finishes(w) ==
    IF ~Executing(w) \/ (w.stx = "INERROR" /\ w.cmd \notin {"COMMIT", "ROLLBACK"}) THEN {}
    ELSE LET k == IF w.cmd \in {"scan", "setting", "ping"} THEN "TUPLES_OK" ELSE "COMMAND_OK"
             tx == CASE w.cmd = "BEGIN" -> "ACTIVE"
                     [] w.cmd \in {"COMMIT", "ROLLBACK"} -> "IDLE"
                     [] OTHER -> w.stx
         IN {[Reply(w, k, 0, fit) EXCEPT !.cmd = "ending", !.full = TRUE, !.stx = tx]
                : fit \in BOOLEAN}

Refuses(w) ==
    IF Executing(w)
    THEN {[Reply(w, "FATAL_ERROR", 0, TRUE) EXCEPT !.cmd = "ending", !.stx = Failed(@)]}
    ELSE {}

Readies(w) ==
    IF w.status = "OK" /\ w.cmd = "ending"
    THEN {[w EXCEPT !.in = Append(@, Result("READY", 0, TRUE, w.stx)), !.cmd = "none"]}
    ELSE {}

\* A cancel request stops the running command and is without effect otherwise.
TakesCancel(w) ==
    IF w.sig # "sent" \/ w.status # "OK" THEN {}
    ELSE IF Executing(w)
    THEN {[Reply(w, "57014", 0, TRUE) EXCEPT !.cmd = "ending", !.stx = Failed(@),
                                             !.sig = "delivered"]}
    ELSE {[w EXCEPT !.sig = "delivered"]}

\* The network or the session dies: what was not received is gone.
Dies(w) == IF w.status = "OK" THEN {[w EXCEPT !.status = "BAD", !.cmd = "none"]} ELSE {}
=============================================================================
