----------------------------- MODULE ScanStream -----------------------------
(***************************************************************************)
(* What a scan promises on top of the invariants of ScanStack: it          *)
(* implements RowStream, a cancel request ends it, and only a blocking     *)
(* PQgetResult outlives a deadline.                                        *)
(***************************************************************************)
EXTENDS ScanStack

\* The abstract stream: from the moment xFilter has a statement until the scan ends,
\* fails, or is cancelled.
Streaming ==
    /\ cursor.state \in {"FILTERING", "ROW_READY"}
          \/ (cursor.state = "WAITING" /\ cursor.from = "FILTERING")
    /\ cursor.on # "none" /\ conn.statements = 1
    /\ backend.ps.phase # "FAILED"

Stream == INSTANCE RowStream WITH
    status <- IF Streaming THEN "streaming"
              ELSE IF cursor.state = "EOF" THEN "ended"
              ELSE IF cursor.state \in {"OPEN", "CLOSED"}
                      \/ (cursor.state = "FILTERING" /\ (cursor.on = "none" \/ conn.statements = 0))
                   THEN "closed"
              ELSE "stopped",
    produced <- IF Streaming THEN backend.wire.rows ELSE 0,
    complete <- Streaming /\ backend.wire.full,
    delivered <- IF Streaming THEN cursor.delivered ELSE 0

\* A scan is a row stream: rows in order and without a gap, end of file only after the
\* last row of a query that was not cancelled.
ImplementsRowStream == Stream!StreamSpec

-----------------------------------------------------------------------------
\* The thread that runs a callback is scheduled.  What else moves is each property's premise.
FairSpec == Spec /\ WF_vars(Drive)

\* A session that would never end its command stops when it is told to: a cancel request
\* ends a scan that waits for rows, without the help of any deadline.
CancelEndsScan ==
    WF_vars(SessionTakesCancel) /\ WF_vars(SessionIsReady) =>
        (token.requested /\ call.for \in {"filter", "next"} /\ call.at = "wait" /\ stmt.op = "FETCH"
            ~> Idle \/ backend.wire.status = "BAD")

\* Without the session's help a callback ends by its deadline, unless it comes to sit in
\* one of the PQgetResult calls that have none, waiting for an answer the session owes it.
OnlyGetResultBlocks ==
    WF_vars(Tick) => (~Idle ~> Idle \/ (call.at = "block" /\ ~ResultAvailable(backend.wire)))
=============================================================================
