----------------------------- MODULE ScanTurns ------------------------------
(***************************************************************************)
(* The turns of the drive loops keep the invariant of ScanLemmas: what the *)
(* callbacks do with the answer of an operation, poll by poll and wait by  *)
(* wait.                                                                   *)
(***************************************************************************)
EXTENDS ScanLemmas

-----------------------------------------------------------------------------
(* An operation succeeds *)

\* A callback returns and leaves no statement behind.
LEMMA ParkedReturns ==
    ASSUME NEW c, Sound(c), Leased(c), c.b.pg.statements = 0,
           c.cursor.state \in Parked, c.cursor.on # "lease", NEW rc
    PROVE  Good(Returns(c, rc))
<1>1. Resting(c)
  BY DEF Resting, Parked
<1>2. ~Confirmed(c)
  BY NoStatementFacts DEF Confirmed, Sound, Layers
<1> QED BY <1>1, <1>2, ReturnsGood

\* The callback's operation on the connection succeeded.
LEMMA LinkSucceeds ==
    ASSUME NEW s, Sound(s), Links(s, s.call.stage), Holds(s, s.call.stage),
           s.b.pg.statements = 0, s.b.ps.await = "none", s.b.pg.phase = "READY",
           s.call.stage \in {"COMMIT", "ROLLBACK"} => Outside(s.b.wire),
           NEW r \in Succeeding(s)
    PROVE  Good(r)
<1>1. Shape(s) /\ Held(s) /\ Layers(s) /\ s.cursor.state \in Parked
  BY DEF Sound, Holds
<1>2. CASE s.call.stage = "CONNECT"
  <2>1. r \in Proceed(s)
    BY <1>2 DEF Succeeding
  <2>2. s.lease = "none" /\ s.call.for \in {"filter", "begin", "describe"}
    BY <1>2 DEF Links, Holds
  <2>3. s.tx = "none"
    BY <1>1, <2>2 DEF Held
  <2>4. s.call.for = "filter" => s.cursor.state = "FILTERING" /\ s.cursor.on = "none"
    BY DEF Holds
  <2> QED BY <1>1, <2>1, <2>2, <2>3, <2>4, ProceedGood
<1>3. CASE s.call.stage = "BEGIN"
  <2> DEFINE c == [s EXCEPT !.tx = "active"]
  <2>1. r = Returns(c, "OK")
    BY <1>3 DEF Succeeding
  <2>2. /\ DOMAIN c = DOMAIN s /\ c.conn = s.conn /\ c.stmt = s.stmt /\ c.b = s.b
        /\ c.cursor = s.cursor /\ c.call = s.call /\ c.lease = s.lease /\ c.tx = "active"
    BY <1>1 DEF Shape
  <2> HIDE DEF c
  <2>3. s.lease = "tx"
    BY <1>3 DEF Holds
  <2>4. Sound(c)
    BY <1>1, <2>2, <2>3 DEF Sound, Shape, Held, Layers
  <2>5. Leased(c)
    BY <2>2, <2>3 DEF Leased
  <2>6. c.cursor.on # "lease"
    BY <1>1, <2>2, <2>3 DEF Held
  <2> QED BY <1>1, <2>1, <2>2, <2>4, <2>5, <2>6, ParkedReturns
<1>4. CASE s.call.stage \in {"COMMIT", "ROLLBACK", "RESET", "PING"}
  <2> DEFINE d == LeaseReleased(s, TRUE)
             c == IF s.call.stage \in {"COMMIT", "ROLLBACK"} THEN [d EXCEPT !.tx = "none"] ELSE d
  <2>1. r = Returns(c, "OK")
    BY <1>4 DEF Succeeding
  <2>2. s.lease \in {"tx", "pool"} /\ (s.call.stage \in {"RESET", "PING"} => s.lease = "pool")
    BY <1>4 DEF Holds
  <2>3. Outside(s.b.wire)
    BY <1>1, <1>4, <2>2 DEF Layers
  <2>4. /\ Shape(d) /\ Layers(d) /\ d.lease \in {"pool", "none"}
        /\ d.b.pg.statements = 0 /\ d.b.ps.await = "none"
        /\ d.lease = "pool" => d.b.pg.phase = "READY"
        /\ d.lease = "none" => d.b.pg.phase = "CREATED"
        /\ d.cursor = s.cursor /\ d.tx = s.tx
    BY <1>1, <2>3, LeaseReleasedGood
  <2> HIDE DEF d
  <2>5. /\ DOMAIN c = DOMAIN d /\ c.conn = d.conn /\ c.stmt = d.stmt /\ c.b = d.b
        /\ c.cursor = d.cursor /\ c.call = d.call /\ c.lease = d.lease
        /\ c.tx = IF s.call.stage \in {"COMMIT", "ROLLBACK"} THEN "none" ELSE d.tx
    BY <2>4 DEF Shape
  <2> HIDE DEF c
  <2>6. c.tx = "none" /\ s.cursor.on # "lease"
    BY <1>1, <1>4, <2>2, <2>4, <2>5 DEF Held
  <2>7. Sound(c)
    BY <2>4, <2>5, <2>6 DEF Sound, Shape, Held, Layers
  <2>8. Leased(c)
    BY <2>4, <2>5 DEF Leased
  <2> QED BY <1>1, <2>1, <2>4, <2>5, <2>6, <2>7, <2>8, ParkedReturns
<1> QED BY <1>2, <1>3, <1>4 DEF Links

\* vps_cursor_advance's row: the statement has it, and the cursor points at it.
LEMMA RowDeliveredGood ==
    ASSUME NEW s, Sound(s), Leased(s), ~Confirmed(s), s.b.pg.statements = 1,
           s.cursor.state = "FILTERING", s.cursor.on = "tx" => s.lease = "tx",
           RowIsCurrent(s.stmt), s.b.ps.phase = "ROW_READY", s.b.ps.result # 0
    PROVE  Good(RowDelivered(s))
<1>1. CASE s.cursor.budget = MaxResultRows
  <2>1. RowDelivered(s) = ScanFailed(s, "TOOBIG")
    BY <1>1 DEF RowDelivered
  <2>2. s.cursor.state \in CursorStates
    BY DEF CursorStates
  <2>3. Good(ScanFailed(s, "TOOBIG"))
    BY <2>2, ScanFailedGood
  <2> QED BY <2>1, <2>3
<1>2. CASE s.cursor.budget # MaxResultRows
  <2> DEFINE m == Machine(s.cursor, "ROW")
             n == [m EXCEPT !.budget = s.cursor.budget + 1, !.delivered = s.b.ps.result]
             c == [s EXCEPT !.cursor = n]
  <2>1. RowDelivered(s) = Returns(c, "OK")
    BY <1>2 DEF RowDelivered
  <2>2. m = [s.cursor EXCEPT !.state = "ROW_READY"]
    BY DEF Machine, Accepts
  <2> HIDE DEF m, n
  <2>3. /\ DOMAIN c = DOMAIN s /\ c.conn = s.conn /\ c.stmt = s.stmt /\ c.b = s.b
        /\ c.cursor = n
        /\ c.call = s.call /\ c.lease = s.lease /\ c.tx = s.tx
    BY DEF Sound, Shape
  <2> HIDE DEF c
  <2>4. /\ DOMAIN m = DOMAIN s.cursor /\ m.state = "ROW_READY" /\ m.on = s.cursor.on
    BY <2>2 DEF Sound, Shape
  <2>5. /\ DOMAIN c.cursor = DOMAIN s.cursor /\ c.cursor.state = "ROW_READY"
        /\ c.cursor.on = s.cursor.on /\ c.cursor.delivered = s.b.ps.result
    BY <2>3, <2>4 DEF Sound, Shape, n
  <2>6. Sound(c)
    BY <2>3, <2>5 DEF Sound, Shape, Held, Layers
  <2>7. Leased(c)
    BY <2>3 DEF Leased
  <2>8. Resting(c)
    BY <2>3, <2>5, <2>7 DEF Resting
  <2>9. Good(Returns(c, "OK"))
    BY <2>5, <2>6, <2>8, ReturnsGood
  <2> QED BY <2>1, <2>9
<1> QED BY <1>1, <1>2

\* A scan's statement answered with a row, or with its end.
Fetched(s) ==
    /\ Sound(s) /\ Serves(s) /\ s.b.pg.statements = 1 /\ s.b.ps.await = "none"
    /\ s.b.pg.phase = "READY" /\ s.b.ps.kind = "scan"
    /\ s.call.for \in {"filter", "next"} /\ s.call.stage = "FETCH"
    /\ s.cursor.state \in {"FILTERING", "CANCELLING"}
    /\ s.stmt.state = "COMPLETE" => s.b.ps.phase = "COMPLETE"
    /\ s.stmt.state # "COMPLETE" => s.cursor.state = "FILTERING"
    /\ Confirmed(s) => s.cursor.state = "CANCELLING" /\ s.stmt.state = "COMPLETE"

\* vps_cursor_advance after its drive loop.
LEMMA AdvancedGood ==
    ASSUME NEW s, Fetched(s), NEW r \in Advanced(s)
    PROVE  Good(r)
<1> DEFINE cancelled == s.cursor.state = "CANCELLING" /\ s.stmt.state = "COMPLETE"
           t == WithError(s, IF cancelled THEN "57014" ELSE "NONE")
           c == [t EXCEPT !.cursor = Machine(@, "COMPLETE")]
           d == StatementClosed(c)
           e == [d EXCEPT !.cursor.on = IF @ = "tx" THEN "none" ELSE @]
           stop == SqliteCode(t.call.err, t.call.stage) = "INTERRUPT"
<1>1. /\ Sound(s) /\ Shape(s) /\ Held(s) /\ Layers(s) /\ Serves(s)
      /\ s.call.for \in {"filter", "next"}
  BY DEF Fetched, Sound
<1>2. cancelled => stop
  <2>1. cancelled => t.call.err = "57014"
    BY <1>1 DEF WithError, Shape
  <2> HIDE DEF cancelled, t
  <2> QED BY <2>1 DEF SqliteCode
<1>3. Alike(s, t)
  BY <1>1, WithErrorAlike
<1>4. \/ stop /\ r = ScanFailed(t, "INTERRUPT")
      \/ ~stop /\ t.stmt.state = "COMPLETE" /\ r = Returns(e, "OK")
      \/ ~stop /\ t.stmt.state # "COMPLETE" /\ r = Failing(WithError(t, ErrorClass("INVALID_STATE")))
      \/ /\ ~stop /\ t.stmt.state # "COMPLETE" /\ RowColumnAllowed(t.stmt) /\ StatementColumn(t.b)
         /\ r = RowDelivered(t) \/ r = ScanFailed(t, "ERROR")
  BY DEF Advanced
<1> HIDE DEF t, stop
<1>5. /\ Sound(t) /\ Shape(t) /\ Held(t) /\ Layers(t) /\ (Confirmed(t) <=> Confirmed(s))
      /\ t.b = s.b /\ t.cursor = s.cursor /\ t.stmt = s.stmt /\ t.lease = s.lease /\ t.tx = s.tx
      /\ t.call.for = s.call.for /\ t.call.stage = s.call.stage
  BY <1>1, <1>3, AlikeKeeps DEF Alike, Sound
<1>6. /\ s.lease \in {"scan", "tx"} /\ (s.lease = "tx" => s.tx # "none")
  BY <1>1 DEF Serves, ScanCalls
<1>7. Leased(t)
  BY <1>5, <1>6 DEF Leased, Fetched
<1>8. t.cursor.state \in CursorStates /\ t.cursor.state # "CLOSED"
  BY <1>5 DEF Fetched, CursorStates
<1>9. t.cursor.on = "tx" => t.lease = "tx"
  BY <1>1, <1>5, <1>6 DEF Held
<1>10. ~stop => ~cancelled /\ ~Confirmed(s)
  BY <1>2 DEF Fetched
<1>11. CASE stop /\ r = ScanFailed(t, "INTERRUPT")
  BY <1>5, <1>7, <1>8, <1>9, <1>11, ScanFailedGood
<1>12. CASE ~stop /\ t.stmt.state = "COMPLETE" /\ r = Returns(e, "OK")
  <2>1. s.cursor.state = "FILTERING" /\ s.b.ps.phase = "COMPLETE" /\ s.b.pg.phase = "READY"
    BY <1>5, <1>10, <1>12 DEF Fetched
  <2>2. Machine(t.cursor, "COMPLETE") = [s.cursor EXCEPT !.state = "EOF"]
    BY <1>5, <2>1 DEF Machine, Accepts
  <2>3. /\ DOMAIN c = DOMAIN t /\ c.conn = t.conn /\ c.stmt = t.stmt /\ c.b = s.b
        /\ c.cursor = [s.cursor EXCEPT !.state = "EOF"]
        /\ c.call = t.call /\ c.lease = s.lease /\ c.tx = s.tx
    BY <1>5, <2>2 DEF Shape
  <2> HIDE DEF c
  <2>4. /\ DOMAIN c.cursor = DOMAIN s.cursor /\ c.cursor.state = "EOF"
        /\ c.cursor.on = s.cursor.on
    BY <1>1, <2>3 DEF Shape
  <2>5. Shape(c) /\ Layers(c)
    BY <1>1, <1>5, <2>3, <2>4 DEF Shape, Layers
  <2>6. c.b.ps.await = "none" /\ c.b.pg.statements = 1
    BY <2>3 DEF Fetched
  <2>7. /\ Shape(d) /\ Layers(d) /\ d.b.pg.statements = 0 /\ d.b.ps.await = "none"
        /\ d.cursor = c.cursor /\ d.call = c.call /\ d.lease = c.lease /\ d.tx = c.tx
        /\ c.b.pg.phase = "READY" /\ c.b.ps.phase \in Settled => d.b.pg.phase = "READY"
    BY <2>1, <2>3, <2>5, <2>6, StatementClosedGood
  <2>8. d.b.pg.phase = "READY"
    BY <2>1, <2>3, <2>7 DEF Settled
  <2> HIDE DEF d
  <2>9. /\ DOMAIN e = DOMAIN d /\ e.conn = d.conn /\ e.stmt = d.stmt /\ e.b = d.b
        /\ e.cursor = [d.cursor EXCEPT !.on = IF @ = "tx" THEN "none" ELSE @]
        /\ e.call = d.call /\ e.lease = d.lease /\ e.tx = d.tx
    BY <2>7 DEF Shape
  <2> HIDE DEF e
  <2>10. /\ DOMAIN e.cursor = DOMAIN d.cursor /\ e.cursor.state = "EOF"
         /\ e.cursor.on = IF s.cursor.on = "tx" THEN "none" ELSE s.cursor.on
    BY <2>4, <2>7, <2>9 DEF Shape
  <2>11. Held(e)
    BY <1>1, <2>3, <2>7, <2>9, <2>10 DEF Held
  <2>12. Sound(e)
    BY <2>7, <2>9, <2>10, <2>11 DEF Sound, Shape, Layers
  <2>13. Leased(e)
    BY <1>6, <2>3, <2>7, <2>8, <2>9 DEF Leased
  <2>14. Resting(e)
    BY <2>7, <2>8, <2>9, <2>10, <2>13 DEF Resting, Parked
  <2> QED BY <1>12, <2>10, <2>12, <2>14, ReturnsGood
<1>13. CASE ~stop /\ t.stmt.state # "COMPLETE" /\ r = Failing(WithError(t, ErrorClass("INVALID_STATE")))
  <2>1. Serves(t)
    BY <1>1, <1>5 DEF Serves
  <2>2. Failable(t)
    BY <1>5, <1>8, <1>10, <1>13, <2>1 DEF Failable, Fetched, ScanCalls
  <2>3. Alike(t, WithError(t, ErrorClass("INVALID_STATE")))
    BY <1>5, WithErrorAlike
  <2> QED BY <1>13, <2>2, <2>3, FailStatement
<1>14. CASE /\ ~stop /\ t.stmt.state # "COMPLETE" /\ RowColumnAllowed(t.stmt) /\ StatementColumn(t.b)
            /\ r = RowDelivered(t) \/ r = ScanFailed(t, "ERROR")
  <2>1. /\ RowIsCurrent(t.stmt) /\ t.b.ps.phase = "ROW_READY" /\ t.b.ps.result # 0
    BY <1>14 DEF RowColumnAllowed, StatementColumn, StatementRow
  <2>2. t.cursor.state = "FILTERING" /\ t.b.pg.statements = 1 /\ ~Confirmed(t)
    BY <1>5, <1>10, <1>14 DEF Fetched
  <2>3. CASE r = RowDelivered(t)
    BY <1>5, <1>7, <1>9, <2>1, <2>2, <2>3, RowDeliveredGood
  <2>4. CASE r = ScanFailed(t, "ERROR")
    BY <1>5, <1>7, <1>8, <1>9, <2>2, <2>4, ScanFailedGood
  <2> QED BY <1>14, <2>3, <2>4
<1> QED BY <1>4, <1>11, <1>12, <1>13, <1>14

\* The next row is asked for: the last one is released, and the next FETCH starts.
LEMMA FetchAgain ==
    ASSUME NEW s, Failable(s), s.b.pg.statements = 1, Runs(s, "FETCH"), ~s.b.ps.sqlstateSeen,
           s.call.for \in ScanCalls => s.cursor.state = "FILTERING",
           NEW r \in StartStatement([s EXCEPT !.b = StatementRowRelease(@)], "FETCH", "FETCH")
    PROVE  Good(r)
<1> DEFINE d == StatementRowRelease(s.b)
           c == [s EXCEPT !.b = d]
<1>1. /\ Sound(s) /\ Shape(s) /\ Held(s) /\ Layers(s) /\ Serves(s) /\ GoodBackend(s.b)
  BY DEF Failable, Sound, Layers
<1>2. /\ GoodBackend(d) /\ d.pg = s.b.pg /\ d.wire = s.b.wire /\ d.ps.kind = s.b.ps.kind
      /\ d.ps.await = s.b.ps.await /\ d.ps.sqlstateSeen = s.b.ps.sqlstateSeen
  BY <1>1, ReleaseKeeps
<1>3. r \in StartStatement(c, "FETCH", "FETCH")
  OBVIOUS
<1> HIDE DEF d
<1>4. /\ DOMAIN c = DOMAIN s /\ c.conn = s.conn /\ c.stmt = s.stmt /\ c.b = d
      /\ c.cursor = s.cursor /\ c.call = s.call /\ c.lease = s.lease /\ c.tx = s.tx
  BY <1>1 DEF Shape
<1> HIDE DEF c
<1>5. Sound(c)
  BY <1>1, <1>2, <1>4 DEF Sound, Shape, Held, Layers
<1>6. Serves(c) /\ Runs(c, "FETCH")
  BY <1>1, <1>4 DEF Serves, Runs
<1>7. ~Confirmed(c)
  BY <1>2, <1>4 DEF Confirmed
<1>8. Failable(c)
  BY <1>2, <1>4, <1>5, <1>6, <1>7 DEF Failable
<1>9. Startable(c, "FETCH", "FETCH")
  BY <1>2, <1>4, <1>6, <1>8 DEF Startable, Operations
<1> QED BY <1>3, <1>9, StartStatementGood

\* An operation of a statement is complete, or has a row.
Done(s, op) ==
    /\ Sound(s) /\ Serves(s) /\ Runs(s, s.call.stage)
    /\ op = s.call.stage \/ (op = "CANCEL" /\ s.call.for \in ScanCalls)
    /\ s.b.pg.statements = 1 /\ s.b.pg.phase = "READY" /\ s.b.ps.await = "none"
    /\ s.call.for \in ScanCalls =>
         /\ s.b.ps.kind = "scan"
         /\ s.cursor.state = IF op = "CANCEL" THEN "CANCELLING" ELSE "FILTERING"
    /\ op # "CANCEL" \/ s.call.stage = "EXECUTE" => ~s.b.ps.sqlstateSeen
    /\ op = "CANCEL" => s.stmt.state = "COMPLETE"
    /\ s.stmt.state = "COMPLETE" => s.b.ps.phase = "COMPLETE"

\* Unless a 57014 ended it, the callback may still fail.
LEMMA DoneFailable ==
    ASSUME NEW s, NEW op, Done(s, op), ~s.b.ps.sqlstateSeen
    PROVE  Failable(s)
<1>1. s.call.for \in ScanCalls => s.cursor.state \in CursorStates \ {"CLOSED"}
  BY DEF Done, CursorStates
<1>2. s.call.for \in ScanCalls \cup {"command", "returning", "describe"}
          /\ s.call.stage # "CONNECT"
  BY DEF Done, Runs, ScanCalls
<1>3. ~Confirmed(s)
  BY DEF Confirmed
<1> QED BY <1>1, <1>2, <1>3 DEF Done, Failable

\* vps_query_validation_collect.
LEMMA DescribedGood ==
    ASSUME NEW s, Done(s, "PREPARE"), s.call.for = "describe"
    PROVE  Good(Described(s))
<1>1. /\ Sound(s) /\ Shape(s) /\ Held(s) /\ Layers(s) /\ s.lease = "none"
      /\ s.cursor.state \in Parked
  BY DEF Done, Sound, Serves, ScanCalls
<1>2. CASE MetadataAllowed(s.stmt) /\ StatementMetadata(s.b) /\ StatementResultField(s.b)
  <2> DEFINE d == StatementClosed(s)
             c == ConnectionClosed(d)
  <2>1. Described(s) = Returns(c, "OK")
    BY <1>2 DEF Described
  <2>2. /\ s.b.ps.await = "none" /\ s.b.pg.phase \in {"READY", "FAILED"}
    BY DEF Done
  <2>3. Shape(d) /\ d.cursor = s.cursor /\ d.tx = s.tx
    BY <1>1, <2>2, StatementClosedGood
  <2> HIDE DEF d
  <2>4. /\ Shape(c) /\ Layers(c) /\ c.lease = "none"
        /\ c.b.pg.statements = 0 /\ c.b.ps.await = "none" /\ c.b.pg.phase = "CREATED"
        /\ c.cursor = d.cursor /\ c.tx = d.tx
    BY <2>3, ConnectionClosedGood
  <2> HIDE DEF c
  <2>5. Held(c) /\ c.cursor.on # "lease"
    BY <1>1, <2>3, <2>4 DEF Held
  <2>6. Sound(c) /\ Leased(c)
    BY <2>4, <2>5 DEF Sound, Leased
  <2>7. Good(Returns(c, "OK"))
    BY <1>1, <2>3, <2>4, <2>5, <2>6, ParkedReturns
  <2> QED BY <2>1, <2>7
<1>3. CASE ~(MetadataAllowed(s.stmt) /\ StatementMetadata(s.b) /\ StatementResultField(s.b))
  <2> DEFINE c == WithError(s, ErrorClass("INVALID_STATE"))
  <2>1. Described(s) = Failing(c)
    BY <1>3 DEF Described
  <2>2. Alike(s, c)
    BY <1>1, WithErrorAlike
  <2>3. Failable(s)
    <3>1. ~s.b.ps.sqlstateSeen
      BY DEF Done
    <3> QED BY <3>1, DoneFailable
  <2> HIDE DEF c
  <2> QED BY <2>1, <2>2, <2>3, FailStatement
<1> QED BY <1>2, <1>3

\* EXECUTE is complete: the rows are asked for, unless the statement was cancelled.
LEMMA ExecutedGood ==
    ASSUME NEW s, NEW op, Done(s, op), s.call.stage = "EXECUTE",
           NEW r \in StartStatement(s, "FETCH", "FETCH")
    PROVE  Good(r)
<1>1. Failable(s) /\ ~s.b.ps.sqlstateSeen
  BY DoneFailable DEF Done
<1>2. Runs(s, "FETCH")
  BY DEF Done, Runs
<1>3. StatementStartAllowed(s.stmt, "FETCH") => s.stmt.state = "FETCHING"
  BY DEF StatementStartAllowed
<1>4. s.stmt.state = "FETCHING" => op # "CANCEL"
  BY DEF Done
<1>5. StatementStartAllowed(s.stmt, "FETCH") /\ s.call.for \in ScanCalls =>
          s.cursor.state = "FILTERING"
  BY <1>3, <1>4 DEF Done
<1>6. Startable(s, "FETCH", "FETCH")
  BY <1>1, <1>2, <1>5 DEF Startable, Operations, Done
<1> QED BY <1>6, StartStatementGood

\* A statement without a cursor: the next row, or the end.
LEMMA FetchOnGood ==
    ASSUME NEW s, Done(s, "FETCH"), s.call.for \in {"command", "returning"},
           NEW r \in FetchOn(s)
    PROVE  Good(r)
<1>1. /\ Sound(s) /\ Shape(s) /\ Held(s) /\ Layers(s) /\ Serves(s)
      /\ s.lease = "tx" /\ s.tx # "none" /\ s.cursor.state \in Parked
      /\ s.call.for \notin ScanCalls /\ ~s.b.ps.sqlstateSeen
      /\ s.b.ps.await = "none" /\ s.b.pg.phase = "READY" /\ s.b.pg.statements = 1
  BY DEF Done, Sound, Serves, ScanCalls
<1>2. CASE s.stmt.state = "COMPLETE"
  <2> DEFINE c == StatementClosed(s)
  <2>1. r = Returns(c, "OK")
    BY <1>2 DEF FetchOn
  <2>2. s.b.ps.phase \in Settled
    BY <1>2 DEF Done, Settled
  <2>3. /\ Shape(c) /\ Layers(c) /\ c.b.pg.statements = 0 /\ c.b.ps.await = "none"
        /\ c.cursor = s.cursor /\ c.lease = s.lease /\ c.tx = s.tx /\ c.b.pg.phase = "READY"
    BY <1>1, <2>2, StatementClosedGood
  <2> HIDE DEF c
  <2>4. Held(c) /\ c.cursor.on # "lease"
    BY <1>1, <2>3 DEF Held
  <2>5. Sound(c) /\ Leased(c)
    BY <1>1, <2>3, <2>4 DEF Sound, Leased
  <2> QED BY <1>1, <2>1, <2>3, <2>4, <2>5, ParkedReturns
<1>3. CASE s.stmt.state # "COMPLETE"
  <2> DEFINE t == [s EXCEPT !.stmt = RowConsumed(@)]
             e == WithError(t, ErrorClass("LIMIT_EXCEEDED"))
  <2>1. IF t.stmt.state = "FAILED" THEN r = Failing(e)
        ELSE r \in StartStatement([t EXCEPT !.b = StatementRowRelease(@)], "FETCH", "FETCH")
    BY <1>3 DEF FetchOn
  <2>2. /\ DOMAIN t = DOMAIN s /\ t.conn = s.conn /\ t.stmt = RowConsumed(s.stmt) /\ t.b = s.b
        /\ t.cursor = s.cursor /\ t.call = s.call /\ t.lease = s.lease /\ t.tx = s.tx
    BY <1>1 DEF Shape
  <2> HIDE DEF t
  <2>3. DOMAIN t.stmt = DOMAIN s.stmt
    BY <2>2 DEF RowConsumed, StatementFailed
  <2>4. Sound(t) /\ Shape(t)
    BY <1>1, <2>2, <2>3 DEF Sound, Shape, Held, Layers
  <2>5. Serves(t) /\ Runs(t, "FETCH")
    BY <1>1, <2>2 DEF Serves, Runs
  <2>6. Failable(t)
    BY <1>1, <2>2, <2>4, <2>5 DEF Failable
  <2>7. Alike(t, e)
    BY <2>4, WithErrorAlike
  <2> HIDE DEF e
  <2>8. CASE t.stmt.state = "FAILED"
    BY <2>1, <2>6, <2>7, <2>8, FailStatement
  <2>9. CASE t.stmt.state # "FAILED"
    <3>1. r \in StartStatement([t EXCEPT !.b = StatementRowRelease(@)], "FETCH", "FETCH")
      BY <2>1, <2>9
    <3> QED BY <1>1, <2>2, <2>5, <2>6, <3>1, FetchAgain
  <2> QED BY <2>8, <2>9
<1> QED BY <1>2, <1>3

\* xClose's cancel is complete.
LEMMA CancelledGood ==
    ASSUME NEW s, Done(s, "CANCEL"), s.call.for = "close"
    PROVE  Good(CursorClosed([s EXCEPT !.cursor = Machine(@, "COMPLETE")], TRUE))
<1> DEFINE c == [s EXCEPT !.cursor = Machine(@, "COMPLETE")]
<1>1. /\ Sound(s) /\ Shape(s) /\ Held(s) /\ Layers(s) /\ s.call.for \in ScanCalls
      /\ s.lease \in {"scan", "tx"} /\ (s.lease = "tx" => s.tx # "none")
      /\ s.cursor.state = "CANCELLING" /\ s.b.ps.kind = "scan" /\ s.b.ps.phase = "COMPLETE"
      /\ s.b.ps.await = "none" /\ s.b.pg.phase = "READY" /\ s.b.pg.statements = 1
  BY DEF Done, Sound, Serves, ScanCalls
<1>2. Machine(s.cursor, "COMPLETE") = [s.cursor EXCEPT !.state = "EOF"]
  BY <1>1 DEF Machine, Accepts
<1>3. /\ DOMAIN c = DOMAIN s /\ c.conn = s.conn /\ c.stmt = s.stmt /\ c.b = s.b
      /\ c.cursor = [s.cursor EXCEPT !.state = "EOF"]
      /\ c.call = s.call /\ c.lease = s.lease /\ c.tx = s.tx
  BY <1>1, <1>2 DEF Shape
<1> HIDE DEF c
<1>4. DOMAIN c.cursor = DOMAIN s.cursor /\ c.cursor.on = s.cursor.on
  BY <1>1, <1>3 DEF Shape
<1>5. Sound(c)
  BY <1>1, <1>3, <1>4 DEF Sound, Shape, Held, Layers
<1>6. Leased(c)
  BY <1>1, <1>3 DEF Leased
<1>7. c.b.pg.phase = "READY" /\ c.b.ps.phase \in Settled
  BY <1>1, <1>3 DEF Settled
<1>8. Good(CursorClosed(c, TRUE))
  BY <1>5, <1>6, <1>7, CursorClosedGood
<1> QED BY <1>8 DEF c

\* The callback's operation on its statement succeeded.
LEMMA WorkSucceeds ==
    ASSUME NEW s, NEW op, Done(s, op), NEW r \in Succeeding(s)
    PROVE  Good(r)
<1>1. CASE s.call.stage = "PREPARE"
  <2>1. r = Described(s)
    BY <1>1 DEF Succeeding
  <2>2. s.call.for = "describe" /\ op = "PREPARE"
    BY <1>1 DEF Done, Runs, ScanCalls
  <2> QED BY <2>1, <2>2, DescribedGood
<1>2. CASE s.call.stage = "EXECUTE"
  <2>1. r \in IF s.call.for = "filter" THEN Advance(s) ELSE StartStatement(s, "FETCH", "FETCH")
    BY <1>2 DEF Succeeding
  <2>2. s.call.for = "filter" => s.cursor.state # "ROW_READY"
    BY DEF Done, ScanCalls
  <2>3. r \in StartStatement(s, "FETCH", "FETCH")
    BY <2>1, <2>2 DEF Advance
  <2> QED BY <1>2, <2>3, ExecutedGood
<1>3. CASE s.call.stage = "FETCH"
  <2>1. r \in IF s.call.for \in ScanCalls THEN Advanced(s) ELSE FetchOn(s)
    BY <1>3 DEF Succeeding
  <2>2. CASE s.call.for \in ScanCalls
    <3>1. s.call.for \in {"filter", "next"}
      BY <1>3, <2>2 DEF Done, Runs, ScanCalls
    <3>2. /\ s.cursor.state \in {"FILTERING", "CANCELLING"}
          /\ s.stmt.state # "COMPLETE" => s.cursor.state = "FILTERING"
          /\ s.b.ps.sqlstateSeen => s.cursor.state = "CANCELLING" /\ s.stmt.state = "COMPLETE"
      BY <2>2 DEF Done
    <3>3. Fetched(s)
      BY <1>3, <2>2, <3>1, <3>2 DEF Done, Fetched, Confirmed
    <3> QED BY <2>1, <2>2, <3>3, AdvancedGood
  <2>3. CASE s.call.for \notin ScanCalls
    <3>1. s.call.for \in {"command", "returning"} /\ op = "FETCH"
      BY <1>3, <2>3 DEF Done, Runs, ScanCalls
    <3> QED BY <2>1, <2>3, <3>1, FetchOnGood
  <2> QED BY <2>2, <2>3
<1>4. CASE s.call.stage = "CANCEL"
  <2>1. r = CursorClosed([s EXCEPT !.cursor = Machine(@, "COMPLETE")], TRUE)
    BY <1>4 DEF Succeeding
  <2>2. s.call.for = "close" /\ op = "CANCEL"
    BY <1>4 DEF Done, Runs
  <2> QED BY <2>1, <2>2, CancelledGood
<1> QED BY <1>1, <1>2, <1>3, <1>4 DEF Done, Runs

-----------------------------------------------------------------------------
(* The drive loops *)

\* The record of the variables.
LEMMA NowFields ==
    /\ DOMAIN Now = {"conn", "stmt", "b", "cursor", "call", "lease", "tx", "token", "code"}
    /\ Now.conn = conn /\ Now.stmt = stmt /\ Now.b = backend /\ Now.cursor = cursor
    /\ Now.call = call /\ Now.lease = lease /\ Now.tx = tx /\ Now.token = token
    /\ Now.code = code
BY DEF Now

\* What the world does to the wire, and the clock to the deadline, disturbs nobody.
LEMMA MovesGood ==
    ASSUME NEW s, Good(s), NEW r, DOMAIN r = DOMAIN s, r.conn = s.conn, r.stmt = s.stmt,
           r.cursor = s.cursor, r.call = s.call, r.lease = s.lease, r.tx = s.tx,
           r.code = s.code, r.b.pg = s.b.pg, r.b.ps = s.b.ps, GoodBackend(r.b),
           Outside(s.b.wire) => Outside(r.b.wire), Harmless(s.b) => Harmless(r.b)
    PROVE  Good(r)
<1>1. Sound(r)
  BY DEF Good, Sound, Shape, Held, Layers
<1>2. ASSUME AtIdle(s) PROVE AtIdle(r)
  <2>1. Leased(r)
    BY <1>2 DEF AtIdle, Resting, Leased
  <2>2. Resting(r)
    BY <1>2, <2>1 DEF AtIdle, Resting
  <2> QED BY <1>2, <2>2 DEF AtIdle, Confirmed
<1>3. ASSUME AtLink(s) PROVE AtLink(r)
  <2>1. Links(r, r.call.stage) /\ Holds(r, r.call.stage)
    BY <1>3 DEF AtLink, Links, Holds
  <2>2. Connecting(r.b, r.call.stage)
    BY <1>3 DEF AtLink, Connecting
  <2> QED BY <1>3, <2>1, <2>2 DEF AtLink
<1>4. ASSUME AtWork(s) PROVE AtWork(r)
  <2>1. Runs(r, r.call.stage) /\ Serves(r)
    BY <1>4 DEF AtWork, Runs, Serves
  <2>2. Driven(r.b, r.stmt.op)
    BY <1>4 DEF AtWork, Driven
  <2> QED BY <1>4, <2>1, <2>2 DEF AtWork
<1> QED BY <1>1, <1>2, <1>3, <1>4 DEF Good

\* The callback's operation on the connection failed.
LEMMA LinkFails ==
    ASSUME NEW s, Held(s), Links(s, s.call.stage), Holds(s, s.call.stage),
           NEW c, Shape(c), c.cursor = s.cursor, c.tx = s.tx, c.call.for = s.call.for,
           c.call.stage = s.call.stage
    PROVE  Good(Failing(c))
<1>1. s.lease \in {"none", "tx", "pool"} /\ s.cursor.state \in Parked
  BY DEF Links, Holds
<1>2. s.cursor.on # "lease"
  BY <1>1 DEF Held
<1>3. CASE s.call.for = "filter"
  <2>1. s.call.stage = "CONNECT" /\ s.lease = "none" /\ s.cursor.state = "FILTERING"
    BY <1>3 DEF Links, Holds
  <2>2. s.tx = "none"
    BY <2>1 DEF Held
  <2> QED BY <1>3, <2>1, <2>2, FailConnect
<1>4. CASE s.call.for # "filter"
  <2>1. s.call.for \in {"begin", "commit", "rollback", "describe", "maintain"}
    BY <1>4 DEF Links
  <2> QED BY <1>1, <1>2, <2>1, FailLink
<1> QED BY <1>3, <1>4

\* The callback goes on driving the connection.
LEMMA LinkGoesOn ==
    ASSUME NEW s, Sound(s), AtLink(s), NEW r, Shape(r), r.cursor = s.cursor,
           r.lease = s.lease, r.tx = s.tx, r.call.for = s.call.for,
           r.call.stage = s.call.stage, r.call.at \in {"poll", "wait"},
           r.conn.op = s.conn.op, r.conn.statements = s.conn.statements,
           GoodBackend(r.b), r.b.pg.statements = 0, r.b.ps = s.b.ps,
           s.call.stage # "BEGIN" /\ Outside(s.b.wire) => Outside(r.b.wire),
           Connecting(r.b, s.call.stage)
    PROVE  Good(r)
<1>1. Held(s) /\ Layers(s) /\ Links(s, s.call.stage) /\ Holds(s, s.call.stage)
      /\ s.b.pg.statements = 0
  BY DEF Sound, AtLink, Connecting
<1>2. Held(r)
  BY <1>1 DEF Held
<1>3. s.lease # "tx" => s.call.stage # "BEGIN"
  BY <1>1 DEF Holds
<1>4. Layers(r)
  BY <1>1, <1>3 DEF Layers
<1>5. Links(r, s.call.stage) /\ Holds(r, s.call.stage)
  BY <1>1 DEF Links, Holds
<1>6. AtLink(r)
  BY <1>5 DEF AtLink
<1> QED BY <1>2, <1>4, <1>6 DEF Good, Sound

\* vps_drive_connection: what a poll answers.
LEMMA ConnectionAnsweredGood ==
    ASSUME Sound(Now), AtLink(Now), NEW a, Reported(backend, a, call.stage),
           NEW r \in ConnectionAnswered(a)
    PROVE  Good(r)
<1> DEFINE n == Now
           s == [n EXCEPT !.b = a.b]
           v == [s EXCEPT !.conn = ConnectionPolled(conn, a.rc, Outcome(a))]
           t == WithError(v, a.err)
<1>1. r \in IF a.rc # "OK" THEN {Failing(t)}
            ELSE CASE a.out = "CONTINUE" -> {[s EXCEPT !.call.turn = 1]}
                   [] a.out \in Waits -> {[t EXCEPT !.call.at = "wait", !.call.interest = a.out]}
                   [] a.out = "COMPLETE" -> Succeeding(t)
  BY DEF ConnectionAnswered
<1>2. /\ n.conn = conn /\ n.stmt = stmt /\ n.b = backend /\ n.cursor = cursor
      /\ n.call = call /\ n.lease = lease /\ n.tx = tx /\ Sound(n) /\ AtLink(n)
  BY NowFields
<1> HIDE DEF n
<1>3. /\ Shape(n) /\ Held(n) /\ Layers(n) /\ Links(n, call.stage) /\ Holds(n, call.stage)
      /\ n.conn.op = call.stage /\ Connecting(n.b, call.stage) /\ call.at \in {"poll", "wait"}
  BY <1>2 DEF Sound, AtLink
<1>4. /\ DOMAIN s = DOMAIN n /\ s.conn = conn /\ s.stmt = stmt /\ s.b = a.b
      /\ s.cursor = cursor /\ s.call = call /\ s.lease = lease /\ s.tx = tx
  BY <1>2, <1>3 DEF Shape
<1> HIDE DEF s
<1>5. Shape(s)
  BY <1>2, <1>3, <1>4 DEF Shape
<1>6. /\ DOMAIN v = DOMAIN n /\ v.conn = ConnectionPolled(conn, a.rc, Outcome(a))
      /\ v.stmt = stmt /\ v.b = a.b /\ v.cursor = cursor /\ v.call = call /\ v.lease = lease
      /\ v.tx = tx
  BY <1>3, <1>4 DEF Shape
<1> HIDE DEF v
<1>7. /\ DOMAIN v.conn = DOMAIN conn /\ v.conn.statements = conn.statements
      /\ a.rc = "OK" /\ a.out \in Waits => v.conn = conn
  BY <1>2, <1>3, <1>6 DEF Shape, ConnectionPolled, ConnectionFailed, Outcome
<1>8. Shape(v)
  BY <1>2, <1>3, <1>6, <1>7 DEF Shape
<1>9. Alike(v, t)
  BY <1>8, WithErrorAlike
<1> HIDE DEF t
<1>10. /\ Shape(t) /\ DOMAIN t = DOMAIN v /\ t.conn = v.conn /\ t.stmt = stmt /\ t.b = a.b
       /\ t.cursor = cursor /\ t.lease = lease /\ t.tx = tx /\ t.call.for = call.for
       /\ t.call.stage = call.stage /\ t.call.at = call.at
  BY <1>6, <1>8, <1>9, AlikeKeeps DEF Alike
<1>11. CASE a.rc # "OK"
  <2>1. r = Failing(t)
    BY <1>1, <1>11
  <2> QED BY <1>2, <1>3, <1>10, <2>1, LinkFails
<1>12. CASE a.rc = "OK"
  <2>1. /\ GoodBackend(a.b) /\ a.b.pg.statements = 0 /\ a.b.ps = backend.ps
        /\ call.stage # "BEGIN" /\ Outside(backend.wire) => Outside(a.b.wire)
        /\ \/ a.out \in Waits \cup {"CONTINUE"} /\ Connecting(a.b, call.stage)
           \/ /\ a.out = "COMPLETE" /\ a.b.pg.phase = "READY"
              /\ call.stage \in {"COMMIT", "ROLLBACK"} => Outside(a.b.wire)
    BY <1>12 DEF Reported
  <2>2. r \in CASE a.out = "CONTINUE" -> {[s EXCEPT !.call.turn = 1]}
                [] a.out \in Waits -> {[t EXCEPT !.call.at = "wait", !.call.interest = a.out]}
                [] a.out = "COMPLETE" -> Succeeding(t)
    BY <1>1, <1>12
  <2>3. CASE a.out = "CONTINUE"
    <3>1. r = [s EXCEPT !.call.turn = 1]
      BY <2>2, <2>3 DEF Waits
    <3>2. /\ DOMAIN r = DOMAIN s /\ r.conn = conn /\ r.stmt = stmt /\ r.b = a.b
          /\ r.cursor = cursor /\ r.call = [call EXCEPT !.turn = 1] /\ r.lease = lease
          /\ r.tx = tx
      BY <1>4, <1>5, <3>1 DEF Shape
    <3>3. /\ DOMAIN r.call = DOMAIN call /\ r.call.for = call.for
          /\ r.call.stage = call.stage /\ r.call.at = call.at
      BY <1>4, <1>5, <3>2 DEF Shape
    <3>4. Shape(r)
      BY <1>4, <1>5, <3>2, <3>3 DEF Shape
    <3>5. Connecting(a.b, call.stage)
      BY <2>1, <2>3 DEF Waits
    <3>6. /\ r.cursor = n.cursor /\ r.lease = n.lease /\ r.tx = n.tx
          /\ r.call.for = n.call.for /\ r.call.stage = n.call.stage
          /\ r.call.at \in {"poll", "wait"} /\ r.conn.op = n.conn.op
          /\ r.conn.statements = n.conn.statements
      BY <1>2, <1>3, <3>2, <3>3
    <3>7. /\ GoodBackend(r.b) /\ r.b.pg.statements = 0 /\ r.b.ps = n.b.ps
          /\ n.call.stage # "BEGIN" /\ Outside(n.b.wire) => Outside(r.b.wire)
          /\ Connecting(r.b, n.call.stage)
      BY <1>2, <2>1, <3>2, <3>5
    <3> QED BY <1>2, <3>4, <3>6, <3>7, LinkGoesOn
  <2>4. CASE a.out \in Waits
    <3>1. r = [t EXCEPT !.call.at = "wait", !.call.interest = a.out]
      BY <2>2, <2>4 DEF Waits
    <3>2. /\ DOMAIN r = DOMAIN t /\ r.conn = conn /\ r.stmt = stmt /\ r.b = a.b
          /\ r.cursor = cursor /\ r.call = [t.call EXCEPT !.at = "wait", !.interest = a.out]
          /\ r.lease = lease /\ r.tx = tx
      BY <1>7, <1>10, <1>12, <2>4, <3>1 DEF Shape
    <3>3. /\ DOMAIN r.call = DOMAIN t.call /\ r.call.for = call.for
          /\ r.call.stage = call.stage /\ r.call.at = "wait"
      BY <1>10, <3>2 DEF Shape
    <3>4. Shape(r)
      BY <1>4, <1>5, <1>10, <3>2, <3>3 DEF Shape
    <3>5. Connecting(a.b, call.stage)
      BY <2>1, <2>4 DEF Waits
    <3>6. /\ r.cursor = n.cursor /\ r.lease = n.lease /\ r.tx = n.tx
          /\ r.call.for = n.call.for /\ r.call.stage = n.call.stage
          /\ r.call.at \in {"poll", "wait"} /\ r.conn.op = n.conn.op
          /\ r.conn.statements = n.conn.statements
      BY <1>2, <1>3, <3>2, <3>3
    <3>7. /\ GoodBackend(r.b) /\ r.b.pg.statements = 0 /\ r.b.ps = n.b.ps
          /\ n.call.stage # "BEGIN" /\ Outside(n.b.wire) => Outside(r.b.wire)
          /\ Connecting(r.b, n.call.stage)
      BY <1>2, <2>1, <3>2, <3>5
    <3> QED BY <1>2, <3>4, <3>6, <3>7, LinkGoesOn
  <2>5. CASE a.out = "COMPLETE"
    <3>1. r \in Succeeding(t)
      BY <2>2, <2>5 DEF Waits
    <3>2. /\ a.b.pg.phase = "READY"
          /\ call.stage \in {"COMMIT", "ROLLBACK"} => Outside(a.b.wire)
      BY <2>1, <2>5 DEF Waits
    <3>3. Held(t)
      BY <1>2, <1>3, <1>10 DEF Held
    <3>4. lease # "tx" => call.stage # "BEGIN"
      BY <1>2, <1>3 DEF Holds
    <3>5. conn.statements = 0
      BY <1>2, <1>3 DEF Layers, Connecting
    <3>6. Layers(t)
      BY <1>2, <1>3, <1>7, <1>10, <2>1, <3>4, <3>5 DEF Layers
    <3>7. Links(t, t.call.stage) /\ Holds(t, t.call.stage)
      BY <1>2, <1>3, <1>10 DEF Links, Holds
    <3>8. t.b.ps.await = "none"
      BY <1>2, <1>10, <2>1 DEF AtLink
    <3>9. Sound(t)
      BY <1>10, <3>3, <3>6 DEF Sound
    <3> QED BY <1>10, <2>1, <3>1, <3>2, <3>7, <3>8, <3>9, LinkSucceeds
  <2> QED BY <2>1, <2>3, <2>4, <2>5
<1> QED BY <1>11, <1>12

\* vps_drive_connection after its wait.
LEMMA ConnectionWaitGood ==
    ASSUME Sound(Now), AtLink(Now), NEW outcome, NEW r \in ConnectionWaitReturns(outcome)
    PROVE  Good(r)
<1> DEFINE n == Now
           a == ConnectionWait(backend, outcome)
           v == [n EXCEPT !.b = a.b, !.conn = ConnectionWaited(conn, a.rc)]
           t == WithError(v, a.err)
<1>1. r = IF a.rc = "OK" THEN Driving(t, call.stage) ELSE Failing(t)
  BY DEF ConnectionWaitReturns
<1>2. /\ n.conn = conn /\ n.stmt = stmt /\ n.b = backend /\ n.cursor = cursor
      /\ n.call = call /\ n.lease = lease /\ n.tx = tx /\ Sound(n) /\ AtLink(n)
  BY NowFields
<1> HIDE DEF n
<1>3. /\ Shape(n) /\ Held(n) /\ Layers(n) /\ Links(n, call.stage) /\ Holds(n, call.stage)
      /\ Connecting(n.b, call.stage)
  BY <1>2 DEF Sound, AtLink
<1>4. a.rc # "OK" \/ (a.rc = "OK" /\ a.b = backend)
  BY ConnectionWaitReports
<1> HIDE DEF a
<1>5. /\ DOMAIN v = DOMAIN n /\ v.conn = ConnectionWaited(conn, a.rc) /\ v.stmt = stmt
      /\ v.b = a.b /\ v.cursor = cursor /\ v.call = call /\ v.lease = lease /\ v.tx = tx
  BY <1>2, <1>3 DEF Shape
<1> HIDE DEF v
<1>6. DOMAIN v.conn = DOMAIN conn /\ (a.rc = "OK" => v.conn = conn)
  BY <1>5 DEF ConnectionWaited, ConnectionFailed
<1>7. Shape(v)
  BY <1>2, <1>3, <1>5, <1>6 DEF Shape
<1>8. Alike(v, t)
  BY <1>7, WithErrorAlike
<1> HIDE DEF t
<1>9. /\ Shape(t) /\ t.conn = v.conn /\ t.stmt = stmt /\ t.b = a.b
      /\ t.cursor = cursor /\ t.lease = lease /\ t.tx = tx /\ t.call.for = call.for
      /\ t.call.stage = call.stage
  BY <1>5, <1>7, <1>8, AlikeKeeps DEF Alike
<1>10. CASE a.rc # "OK"
  <2>1. r = Failing(t)
    BY <1>1, <1>10
  <2> QED BY <1>2, <1>3, <1>9, <2>1, LinkFails
<1>11. CASE a.rc = "OK"
  <2>1. r = Driving(t, call.stage)
    BY <1>1, <1>11
  <2>2. /\ DOMAIN r = DOMAIN t /\ r.conn = t.conn /\ r.stmt = t.stmt /\ r.b = t.b
        /\ r.cursor = t.cursor /\ r.lease = t.lease /\ r.tx = t.tx
        /\ r.call = [t.call EXCEPT !.stage = call.stage, !.at = "poll", !.turn = 0]
    BY <1>9, <2>1 DEF Driving, Shape
  <2>3. /\ DOMAIN r.call = DOMAIN t.call /\ r.call.stage = call.stage /\ r.call.at = "poll"
        /\ r.call.for = call.for
    BY <1>9, <2>2 DEF Shape
  <2>4. Shape(r)
    BY <1>9, <2>2, <2>3 DEF Shape
  <2>5. r.b = backend /\ r.conn = conn
    BY <1>4, <1>6, <1>9, <1>11, <2>2
  <2>6. GoodBackend(backend) /\ backend.pg.statements = 0
    BY <1>2, <1>3 DEF Layers, Connecting
  <2>7. /\ r.cursor = n.cursor /\ r.lease = n.lease /\ r.tx = n.tx
        /\ r.call.for = n.call.for /\ r.call.stage = n.call.stage
        /\ r.call.at \in {"poll", "wait"} /\ r.conn.op = n.conn.op
        /\ r.conn.statements = n.conn.statements
    BY <1>2, <1>9, <2>2, <2>3, <2>5
  <2>8. /\ GoodBackend(r.b) /\ r.b.pg.statements = 0 /\ r.b.ps = n.b.ps
        /\ n.call.stage # "BEGIN" /\ Outside(n.b.wire) => Outside(r.b.wire)
        /\ Connecting(r.b, n.call.stage)
    BY <1>2, <1>3, <2>5, <2>6
  <2> QED BY <1>2, <2>4, <2>7, <2>8, LinkGoesOn
<1> QED BY <1>10, <1>11

\* The callback goes on driving its statement.
LEMMA WorkGoesOn ==
    ASSUME NEW s, Sound(s), AtWork(s), NEW r, Shape(r), r.stmt = s.stmt,
           r.conn.statements = s.conn.statements, r.lease = s.lease, r.tx = s.tx,
           r.call.for = s.call.for, r.call.stage = s.call.stage,
           Kept(s.b, r.b), Driven(r.b, s.stmt.op),
           r.call.at \in {"poll", "wait", "block"},
           r.call.at = "block" <=> r.b.ps.await # "none",
           r.cursor.on = s.cursor.on, Stands(r.cursor) = Stands(s.cursor),
           s.call.for \in ScanCalls => (r.cursor.state = "WAITING" <=> r.call.at = "wait"),
           s.call.for \notin ScanCalls => r.cursor = s.cursor
    PROVE  Good(r)
<1>1. Held(r)
  BY DEF Sound, Held
<1>2. Layers(r)
  BY DEF Sound, Layers, Kept
<1>3. Runs(r, r.call.stage)
  BY DEF AtWork, Runs
<1>4. Serves(r)
  BY DEF AtWork, Serves
<1>5. r.stmt.op # "CANCEL" \/ r.call.stage = "EXECUTE" => Harmless(r.b)
  BY DEF AtWork, Kept
<1>6. r.b.ps.kind = s.b.ps.kind
  BY DEF Kept
<1>7. s.call.for \in ScanCalls =>
        /\ s.b.ps.kind = "scan"
        /\ Stands(s.cursor) = IF s.stmt.op = "CANCEL" THEN "CANCELLING" ELSE "FILTERING"
  BY DEF AtWork
<1>8. /\ s.stmt.op = s.call.stage \/ (s.stmt.op = "CANCEL" /\ s.call.for \in ScanCalls)
      /\ s.stmt.state = StatementRunningState[s.stmt.op]
  BY DEF AtWork
<1>9. AtWork(r)
  BY <1>3, <1>4, <1>5, <1>6, <1>7, <1>8 DEF AtWork
<1> QED BY <1>1, <1>2, <1>9 DEF Good, Sound

\* The facts a turn of a statement starts from.
LEMMA WorkFacts ==
    ASSUME NEW s, Sound(s), AtWork(s)
    PROVE  /\ Shape(s) /\ Held(s) /\ Layers(s) /\ Serves(s) /\ Runs(s, s.call.stage)
           /\ Turn(s.b, s.stmt.op) /\ s.b.pg.phase = "READY" /\ s.b.pg.statements = 1
           /\ s.call.for \in ScanCalls \cup {"command", "returning", "describe"}
           /\ s.call.stage # "CONNECT"
           /\ s.call.for \in ScanCalls =>
                /\ s.b.ps.kind = "scan"
                /\ s.cursor.state = "WAITING" => s.cursor.from \in CursorStates \ {"CLOSED"}
                /\ s.cursor.state \in CursorStates \ {"CLOSED"}
<1>1. s.stmt.op \in Operations
  BY DEF AtWork, Runs, Operations
<1>2. GoodBackend(s.b) /\ Driven(s.b, s.stmt.op)
  BY DEF Sound, Layers, AtWork
<1>3. s.b.pg.phase = "READY" /\ s.b.pg.statements = 1
  BY <1>2 DEF Driven
<1>4. /\ s.call.for \in ScanCalls \cup {"command", "returning", "describe"}
      /\ s.call.stage # "CONNECT"
  BY DEF AtWork, Runs, ScanCalls
<1>5. s.call.for \in ScanCalls =>
        /\ s.b.ps.kind = "scan" /\ Stands(s.cursor) \in {"CANCELLING", "FILTERING"}
  BY DEF AtWork
<1>6. s.call.for \in ScanCalls =>
        /\ s.cursor.state = "WAITING" => s.cursor.from \in CursorStates \ {"CLOSED"}
        /\ s.cursor.state \in CursorStates \ {"CLOSED"}
  BY <1>5 DEF Stands, CursorStates
<1> QED BY <1>1, <1>2, <1>3, <1>4, <1>5, <1>6 DEF Sound, AtWork, Turn

\* vps_drive_statement: what a poll, or a PQgetResult, answers.
LEMMA StatementAnsweredGood ==
    ASSUME Sound(Now), AtWork(Now), call.at # "wait", NEW a, Told(a, stmt.op),
           Kept(backend, a.b), NEW r \in StatementAnswered(a)
    PROVE  Good(r)
<1> DEFINE n == Now
           op == stmt.op
           s == [n EXCEPT !.b = a.b]
           rc == IF a.out = "ROW_READY" /\ ~StatementRow(a.b) THEN "INVALID_STATE" ELSE a.rc
           v == [s EXCEPT !.stmt = StatementPolled(stmt, rc, Outcome(a)),
                          !.conn = ConnectionAfterPoll(conn, rc, Outcome(a))]
           t == WithError(v, a.err)
           e == WithError(t, ErrorClass("LIMIT_EXCEEDED"))
           w == [t EXCEPT !.call.at = "wait", !.call.interest = a.out,
                          !.cursor = IF call.for \in ScanCalls THEN Machine(@, "WAIT") ELSE @]
<1>1. r \in IF rc # "OK" THEN {Failing(t)}
            ELSE CASE a.out = "CONTINUE" ->
                         {[s EXCEPT !.call.at = "poll", !.call.turn = @ + 1]}
                   [] a.out = "BLOCKED" -> {[s EXCEPT !.call.at = "block"]}
                   [] a.out \in Waits -> {w}
                   [] a.out \in {"COMPLETE", "ROW_READY"} ->
                         IF t.stmt.state = "FAILED" THEN {Failing(e)} ELSE Succeeding(t)
  BY DEF StatementAnswered
<1>2. /\ n.conn = conn /\ n.stmt = stmt /\ n.b = backend /\ n.cursor = cursor
      /\ n.call = call /\ n.lease = lease /\ n.tx = tx /\ Sound(n) /\ AtWork(n)
  BY NowFields
<1> HIDE DEF n
<1>3. /\ Shape(n) /\ Held(n) /\ Layers(n) /\ Serves(n) /\ Runs(n, call.stage)
      /\ Turn(backend, op) /\ backend.pg.statements = 1
      /\ call.for \in ScanCalls \cup {"command", "returning", "describe"}
      /\ call.stage # "CONNECT"
      /\ call.for \in ScanCalls =>
           backend.ps.kind = "scan" /\ cursor.state \in CursorStates \ {"CLOSED"}
  BY <1>2, WorkFacts
<1>4. /\ DOMAIN s = DOMAIN n /\ s.conn = conn /\ s.stmt = stmt /\ s.b = a.b
      /\ s.cursor = cursor /\ s.call = call /\ s.lease = lease /\ s.tx = tx
  BY <1>2, <1>3 DEF Shape
<1> HIDE DEF s
<1>5. Shape(s)
  BY <1>2, <1>3, <1>4 DEF Shape
<1>6. /\ DOMAIN v = DOMAIN n /\ v.conn = ConnectionAfterPoll(conn, rc, Outcome(a))
      /\ v.stmt = StatementPolled(stmt, rc, Outcome(a)) /\ v.b = a.b /\ v.cursor = cursor
      /\ v.call = call /\ v.lease = lease /\ v.tx = tx
  BY <1>3, <1>4 DEF Shape
<1> HIDE DEF v, rc
<1>7. DOMAIN v.conn = DOMAIN conn /\ v.conn.statements = conn.statements
  BY <1>2, <1>3, <1>6 DEF Shape, ConnectionAfterPoll
<1>8. DOMAIN v.stmt = DOMAIN stmt
  BY <1>6 DEF StatementPolled, StatementFailed, RowPublished
<1>9. Shape(v)
  BY <1>2, <1>3, <1>6, <1>7, <1>8 DEF Shape
<1>10. Alike(v, t)
  BY <1>9, WithErrorAlike
<1> HIDE DEF t
<1>11. /\ Shape(t) /\ DOMAIN t = DOMAIN v /\ t.conn = v.conn /\ t.stmt = v.stmt /\ t.b = a.b
       /\ t.cursor = cursor /\ t.lease = lease /\ t.tx = tx /\ t.call.for = call.for
       /\ t.call.stage = call.stage /\ t.call.at = call.at
  BY <1>6, <1>9, <1>10, AlikeKeeps DEF Alike
<1>12. /\ GoodBackend(a.b) /\ a.b.pg.statements = 1 /\ a.b.ps.kind = backend.ps.kind
       /\ Outside(backend.wire) => Outside(a.b.wire)
  BY <1>3 DEF Kept
<1>13. Sound(t)
  <2>1. Held(t)
    BY <1>2, <1>3, <1>11 DEF Held
  <2>2. Layers(t)
    BY <1>2, <1>3, <1>7, <1>11, <1>12 DEF Layers
  <2> QED BY <1>11, <2>1, <2>2 DEF Sound
<1>14. Serves(t) /\ Runs(t, t.call.stage)
  BY <1>2, <1>3, <1>11 DEF Serves, Runs
<1>15. ASSUME a.b.ps.await = "none", a.b.pg.phase \in {"READY", "FAILED"},
              a.b.ps.phase # "COMPLETE"
       PROVE  Failable(t)
  <2>1. ~Confirmed(t)
    BY <1>11, <1>15 DEF Confirmed
  <2> QED BY <1>3, <1>11, <1>12, <1>13, <1>14, <1>15, <2>1 DEF Failable
<1>16. call.for \in ScanCalls =>
         cursor.state = IF op = "CANCEL" THEN "CANCELLING" ELSE "FILTERING"
  BY <1>2 DEF AtWork, Stands
<1>17. CASE rc # "OK"
  <2>1. r = Failing(t)
    BY <1>1, <1>17
  <2>2. a.rc = "ERROR" \/ a.out = "ROW_READY"
    BY <1>17 DEF Told, rc
  <2>3. /\ a.b.ps.await = "none" /\ a.b.pg.phase \in {"READY", "FAILED"}
        /\ a.b.ps.phase # "COMPLETE"
    BY <2>2 DEF Told, Waits
  <2>4. Alike(t, t)
    BY DEF Alike
  <2> QED BY <1>15, <2>1, <2>3, <2>4, FailStatement
<1>18. CASE rc = "OK"
  <2>1. a.rc = "OK" /\ (a.out = "ROW_READY" => StatementRow(a.b))
    BY <1>18 DEF rc
  <2>2. r \in CASE a.out = "CONTINUE" ->
                         {[s EXCEPT !.call.at = "poll", !.call.turn = @ + 1]}
                   [] a.out = "BLOCKED" -> {[s EXCEPT !.call.at = "block"]}
                   [] a.out \in Waits -> {w}
                   [] a.out \in {"COMPLETE", "ROW_READY"} ->
                         IF t.stmt.state = "FAILED" THEN {Failing(e)} ELSE Succeeding(t)
    BY <1>1, <1>18
  <2>3. CASE a.out = "CONTINUE" \/ a.out = "BLOCKED"
    <3> DEFINE at == IF a.out = "CONTINUE" THEN "poll" ELSE "block"
    <3>1. r = IF a.out = "CONTINUE" THEN [s EXCEPT !.call.at = "poll", !.call.turn = @ + 1]
              ELSE [s EXCEPT !.call.at = "block"]
      BY <2>2, <2>3 DEF Waits
    <3>2. /\ DOMAIN r = DOMAIN s /\ r.conn = conn /\ r.stmt = stmt /\ r.b = a.b
          /\ r.cursor = cursor /\ r.lease = lease /\ r.tx = tx
          /\ r.call = IF a.out = "CONTINUE" THEN [call EXCEPT !.at = "poll", !.turn = @ + 1]
                      ELSE [call EXCEPT !.at = "block"]
      BY <1>4, <1>5, <3>1 DEF Shape
    <3>3. /\ DOMAIN r.call = DOMAIN call /\ r.call.for = call.for
          /\ r.call.stage = call.stage /\ r.call.at = at
      BY <1>4, <1>5, <3>2 DEF Shape
    <3>4. Shape(r)
      BY <1>4, <1>5, <3>2, <3>3 DEF Shape
    <3>5. Driven(a.b, op) /\ (at = "block" <=> a.b.ps.await # "none")
      BY <2>1, <2>3 DEF Told, Waits
    <3>6. at \in {"poll", "block"}
      OBVIOUS
    <3> HIDE DEF at
    <3>7. call.for \in ScanCalls => cursor.state # "WAITING"
      BY <1>16
    <3>8. /\ r.stmt = n.stmt /\ r.conn.statements = n.conn.statements /\ r.lease = n.lease
          /\ r.tx = n.tx /\ r.call.for = n.call.for /\ r.call.stage = n.call.stage
          /\ Kept(n.b, r.b) /\ Driven(r.b, n.stmt.op) /\ r.call.at \in {"poll", "wait", "block"}
          /\ r.call.at = "block" <=> r.b.ps.await # "none"
          /\ r.cursor = n.cursor
      BY <1>2, <3>2, <3>3, <3>5, <3>6
    <3>9. n.call.for \in ScanCalls => (r.cursor.state = "WAITING" <=> r.call.at = "wait")
      BY <1>2, <3>2, <3>3, <3>6, <3>7
    <3> QED BY <1>2, <3>4, <3>8, <3>9, WorkGoesOn
  <2>4. CASE a.out \in Waits
    <3>1. r = w
      BY <2>2, <2>4 DEF Waits
    <3>2. t.stmt = stmt
      BY <1>6, <1>11, <1>18, <2>4 DEF StatementPolled, Outcome
    <3>3. /\ DOMAIN r = DOMAIN t /\ r.conn = t.conn /\ r.stmt = stmt /\ r.b = a.b
          /\ r.cursor = IF call.for \in ScanCalls THEN Machine(cursor, "WAIT") ELSE cursor
          /\ r.lease = lease /\ r.tx = tx
          /\ r.call = [t.call EXCEPT !.at = "wait", !.interest = a.out]
      BY <1>11, <3>1, <3>2 DEF Shape
    <3>4. /\ DOMAIN r.call = DOMAIN t.call /\ r.call.for = call.for
          /\ r.call.stage = call.stage /\ r.call.at = "wait"
      BY <1>11, <3>3 DEF Shape
    <3>5. call.for \in ScanCalls =>
            Machine(cursor, "WAIT") = [cursor EXCEPT !.state = "WAITING", !.from = cursor.state]
      BY <1>16 DEF Machine, Accepts
    <3>6. /\ DOMAIN r.cursor = DOMAIN cursor /\ r.cursor.on = cursor.on
          /\ call.for \in ScanCalls =>
               r.cursor.state = "WAITING" /\ r.cursor.from = cursor.state
          /\ call.for \notin ScanCalls => r.cursor = cursor
      <4>1. DOMAIN cursor = {"state", "from", "on", "delivered", "budget"}
        BY <1>4, <1>5 DEF Shape
      <4>2. CASE call.for \in ScanCalls
        <5>1. r.cursor = [cursor EXCEPT !.state = "WAITING", !.from = cursor.state]
          BY <3>3, <3>5, <4>2
        <5> QED BY <4>1, <4>2, <5>1
      <4>3. CASE call.for \notin ScanCalls
        BY <3>3, <4>3
      <4> QED BY <4>2, <4>3
    <3>7. Shape(r)
      BY <1>4, <1>5, <1>11, <3>3, <3>4, <3>6 DEF Shape
    <3>8. Driven(a.b, op) /\ a.b.ps.await = "none"
      BY <2>1, <2>4 DEF Told, Waits
    <3>9. Stands(r.cursor) = Stands(cursor)
      BY <1>16, <3>6 DEF Stands
    <3>10. /\ r.stmt = n.stmt /\ r.conn.statements = n.conn.statements /\ r.lease = n.lease
           /\ r.tx = n.tx /\ r.call.for = n.call.for /\ r.call.stage = n.call.stage
           /\ Kept(n.b, r.b) /\ Driven(r.b, n.stmt.op) /\ r.call.at \in {"poll", "wait", "block"}
           /\ r.call.at = "block" <=> r.b.ps.await # "none"
      BY <1>2, <1>7, <1>11, <3>3, <3>4, <3>8
    <3>11. /\ r.cursor.on = n.cursor.on /\ Stands(r.cursor) = Stands(n.cursor)
           /\ n.call.for \in ScanCalls => (r.cursor.state = "WAITING" <=> r.call.at = "wait")
           /\ n.call.for \notin ScanCalls => r.cursor = n.cursor
      BY <1>2, <3>4, <3>6, <3>9
    <3> QED BY <1>2, <3>7, <3>10, <3>11, WorkGoesOn
  <2>5. CASE a.out \in {"COMPLETE", "ROW_READY"}
    <3>1. r \in IF t.stmt.state = "FAILED" THEN {Failing(e)} ELSE Succeeding(t)
      BY <2>2, <2>5 DEF Waits
    <3>2. /\ a.b.ps.await = "none" /\ a.b.pg.phase = "READY"
          /\ a.out = "ROW_READY" => op = "FETCH" /\ a.b.ps.phase = "ROW_READY"
          /\ a.out = "COMPLETE" => a.b.ps.phase = DonePhase(op, a.b.ps.kind)
      BY <2>1, <2>5 DEF Told, Waits
    <3>3. op \in Operations
      BY <1>3 DEF Turn
    <3>4. a.out = "COMPLETE" =>
            t.stmt.state = [PREPARE |-> "PREPARED", EXECUTE |-> "FETCHING",
                            FETCH |-> "COMPLETE", CANCEL |-> "COMPLETE"][op]
      BY <1>2, <1>3, <1>6, <1>11, <1>18 DEF StatementPolled, Outcome, Waits, Shape
    <3>5. a.out = "COMPLETE" => t.stmt.state \in {"PREPARED", "FETCHING", "COMPLETE"}
      BY <3>3, <3>4 DEF Operations
    <3>6. a.out = "ROW_READY" => t.stmt.state \in {"ROW_READY", "FAILED"}
      BY <1>2, <1>3, <1>6, <1>11, <1>18
        DEF StatementPolled, StatementFailed, RowPublished, Outcome, Waits, Shape
    <3>7. CASE t.stmt.state = "FAILED"
      <4>1. a.b.ps.phase # "COMPLETE"
        BY <2>5, <3>2, <3>5, <3>7
      <4>2. Alike(t, e)
        BY <1>11, WithErrorAlike
      <4> HIDE DEF e
      <4> QED BY <1>15, <3>1, <3>2, <3>7, <4>1, <4>2, FailStatement
    <3>8. CASE t.stmt.state # "FAILED"
      <4>1. op = "CANCEL" => t.stmt.state = "COMPLETE"
        BY <2>5, <3>2, <3>4
      <4>2. t.stmt.state = "COMPLETE" => a.out = "COMPLETE" /\ op \in {"FETCH", "CANCEL"}
        BY <2>5, <3>3, <3>4, <3>6 DEF Operations
      <4>3. t.stmt.state = "COMPLETE" => a.b.ps.phase = "COMPLETE"
        BY <3>2, <4>2 DEF DonePhase
      <4>4. op # "CANCEL" \/ call.stage = "EXECUTE" => ~a.b.ps.sqlstateSeen
        BY <1>2 DEF AtWork, Kept, Harmless
      <4>5. op = call.stage \/ (op = "CANCEL" /\ call.for \in ScanCalls)
        BY <1>2 DEF AtWork
      <4>6. call.for \in ScanCalls => a.b.ps.kind = "scan"
        BY <1>3, <1>12
      <4> HIDE DEF op
      <4>7. Done(t, op)
        BY <1>11, <1>12, <1>13, <1>14, <1>16, <3>2, <4>1, <4>3, <4>4, <4>5, <4>6 DEF Done
      <4> QED BY <3>1, <3>8, <4>7, WorkSucceeds
    <3> QED BY <3>7, <3>8
  <2> QED BY <2>1, <2>3, <2>4, <2>5 DEF Told
<1> QED BY <1>17, <1>18

\* vps_drive_statement after its wait: it goes on, fails, or asks the server to stop.
LEMMA StatementWaitGood ==
    ASSUME Sound(Now), AtWork(Now), call.at = "wait", NEW outcome,
           NEW r \in StatementWaitReturns(outcome)
    PROVE  Good(r)
<1> DEFINE n == Now
           op == stmt.op
           a == StatementWait(backend, outcome)
           v == [n EXCEPT !.b = a.b, !.stmt = StatementWaited(stmt, a.rc)]
           t == WithError(v, a.err)
           c == [t EXCEPT !.cursor = Machine(@, "CANCEL")]
           u == [t EXCEPT !.cursor = Machine(@, "RESUME")]
<1>1. r \in IF call.for \notin ScanCalls
            THEN {IF a.rc = "OK" THEN Driving(t, call.stage) ELSE Failing(t)}
            ELSE IF a.rc = "CONTROL_SIGNAL" THEN StartStatement(c, "CANCEL", call.stage)
            ELSE {IF a.rc = "OK" THEN Driving(u, call.stage) ELSE Failing(u)}
  BY DEF StatementWaitReturns
<1>2. /\ n.conn = conn /\ n.stmt = stmt /\ n.b = backend /\ n.cursor = cursor
      /\ n.call = call /\ n.lease = lease /\ n.tx = tx /\ Sound(n) /\ AtWork(n)
  BY NowFields
<1> HIDE DEF n
<1>3. /\ Shape(n) /\ Held(n) /\ Layers(n) /\ Serves(n) /\ Runs(n, call.stage)
      /\ Turn(backend, op) /\ backend.pg.statements = 1 /\ backend.pg.phase = "READY"
      /\ call.for \in ScanCalls \cup {"command", "returning", "describe"}
      /\ call.stage # "CONNECT"
      /\ call.for \in ScanCalls =>
           /\ backend.ps.kind = "scan"
           /\ cursor.state = "WAITING" => cursor.from \in CursorStates \ {"CLOSED"}
  BY <1>2, WorkFacts
<1>4. backend.ps.await = "none" /\ (call.for \in ScanCalls => cursor.state = "WAITING")
  BY <1>2 DEF AtWork
<1>5. \/ a.rc \in {"OK", "CONTROL_SIGNAL"} /\ a.b = backend
      \/ a.rc = "ERROR" /\ Told(a, op) /\ Kept(backend, a.b)
  BY <1>3, <1>4, WaitKeeps
<1> HIDE DEF a
<1>6. GoodBackend(backend) /\ Driven(backend, op) /\ op \in Operations
  BY <1>3 DEF Turn
<1>7. Kept(backend, a.b)
  BY <1>5, <1>6 DEF Kept
<1>8. /\ DOMAIN v = DOMAIN n /\ v.conn = conn /\ v.stmt = StatementWaited(stmt, a.rc)
      /\ v.b = a.b /\ v.cursor = cursor /\ v.call = call /\ v.lease = lease /\ v.tx = tx
  BY <1>2, <1>3 DEF Shape
<1> HIDE DEF v
<1>9. /\ DOMAIN v.stmt = DOMAIN stmt
      /\ a.rc \in {"OK", "CONTROL_SIGNAL"} => v.stmt = stmt
  BY <1>8 DEF StatementWaited, StatementFailed
<1>10. Shape(v)
  <2>1. /\ DOMAIN v = {"conn", "stmt", "b", "cursor", "call", "lease", "tx", "token", "code"}
        /\ DOMAIN conn = {"state", "op", "statements"}
        /\ DOMAIN stmt = {"state", "op", "generation", "row"}
        /\ DOMAIN cursor = {"state", "from", "on", "delivered", "budget"}
        /\ DOMAIN call = {"for", "stage", "at", "turn", "interest", "err"}
    BY <1>2, <1>3, <1>8 DEF Shape
  <2> QED BY <1>8, <1>9, <2>1 DEF Shape
<1>11. Alike(v, t)
  BY <1>10, WithErrorAlike
<1> HIDE DEF t
<1>12. /\ Shape(t) /\ DOMAIN t = DOMAIN v /\ t.conn = conn /\ t.stmt = v.stmt /\ t.b = a.b
       /\ t.cursor = cursor /\ t.lease = lease /\ t.tx = tx /\ t.call.for = call.for
       /\ t.call.stage = call.stage
  BY <1>8, <1>10, <1>11, AlikeKeeps DEF Alike
<1>13. /\ GoodBackend(a.b) /\ a.b.pg.statements = 1 /\ a.b.ps.kind = backend.ps.kind
       /\ Outside(backend.wire) => Outside(a.b.wire)
  BY <1>3, <1>7 DEF Kept
<1>14. /\ a.b.ps.await = "none" /\ a.b.pg.phase \in {"READY", "FAILED"}
       /\ call.for \in ScanCalls => a.b.ps.phase # "COMPLETE"
  <2>1. CASE a.b = backend
    <3>1. backend.ps.phase \in PhasesOf(op, backend.ps.kind)
      BY <1>4, <1>6 DEF Driven
    <3>2. call.for \in ScanCalls => backend.ps.phase # "COMPLETE"
      BY <1>3, <1>6, <3>1 DEF PhasesOf, Operations
    <3> QED BY <1>3, <1>4, <2>1, <3>2
  <2>2. CASE a.rc = "ERROR" /\ Told(a, op)
    BY <2>2 DEF Told
  <2> QED BY <1>5, <2>1, <2>2
<1>15. ASSUME NEW x, Shape(x), x.conn = conn, x.b = a.b, x.lease = lease,
              x.tx = tx, x.call.for = call.for, x.call.stage = call.stage,
              x.cursor.on = cursor.on,
              call.for \notin ScanCalls => x.cursor = cursor,
              call.for \in ScanCalls => x.cursor.state \in CursorStates \ {"CLOSED"}
       PROVE  Failable(x) /\ Runs(x, call.stage)
  <2>1. Held(x)
    BY <1>2, <1>3, <1>15 DEF Held
  <2>2. Layers(x)
    BY <1>2, <1>3, <1>13, <1>15 DEF Layers
  <2>3. Sound(x)
    BY <1>15, <2>1, <2>2 DEF Sound
  <2>4. Serves(x)
    BY <1>2, <1>3, <1>15 DEF Serves
  <2>5. Runs(x, call.stage)
    BY <1>2, <1>3, <1>15 DEF Runs
  <2>6. call.for \in ScanCalls => ~Confirmed(x)
    BY <1>14, <1>15 DEF Confirmed
  <2>7. Failable(x)
    BY <1>3, <1>13, <1>14, <1>15, <2>3, <2>4, <2>6 DEF Failable
  <2> QED BY <2>5, <2>7
<1>16. ASSUME NEW x, Shape(x), x.conn = conn, x.stmt = t.stmt, x.b = a.b, x.lease = lease,
              x.tx = tx, x.call.for = call.for, x.call.stage = call.stage,
              x.cursor.on = cursor.on, Stands(x.cursor) = Stands(cursor),
              call.for \notin ScanCalls => x.cursor = cursor,
              call.for \in ScanCalls => x.cursor.state # "WAITING",
              a.rc = "OK", r = Driving(x, call.stage)
       PROVE  Good(r)
  <2>1. /\ DOMAIN r = DOMAIN x /\ r.conn = x.conn /\ r.stmt = x.stmt /\ r.b = x.b
        /\ r.cursor = x.cursor /\ r.lease = x.lease /\ r.tx = x.tx
        /\ r.call = [x.call EXCEPT !.stage = call.stage, !.at = "poll", !.turn = 0]
    BY <1>16 DEF Driving, Shape
  <2>2. /\ DOMAIN r.call = DOMAIN x.call /\ r.call.stage = call.stage /\ r.call.at = "poll"
        /\ r.call.for = call.for
    BY <1>16, <2>1 DEF Shape
  <2>3. Shape(r)
    BY <1>16, <2>1, <2>2 DEF Shape
  <2>4. a.b = backend /\ r.stmt = stmt
    BY <1>5, <1>9, <1>12, <1>16, <2>1
  <2>5. /\ r.stmt = n.stmt /\ r.conn.statements = n.conn.statements /\ r.lease = n.lease
        /\ r.tx = n.tx /\ r.call.for = n.call.for /\ r.call.stage = n.call.stage
        /\ Kept(n.b, r.b) /\ Driven(r.b, n.stmt.op) /\ r.call.at \in {"poll", "wait", "block"}
        /\ r.call.at = "block" <=> r.b.ps.await # "none"
    BY <1>2, <1>4, <1>6, <1>7, <1>16, <2>1, <2>2, <2>4
  <2>6. /\ r.cursor.on = n.cursor.on /\ Stands(r.cursor) = Stands(n.cursor)
        /\ n.call.for \in ScanCalls => (r.cursor.state = "WAITING" <=> r.call.at = "wait")
        /\ n.call.for \notin ScanCalls => r.cursor = n.cursor
    BY <1>2, <1>16, <2>1, <2>2
  <2> QED BY <1>2, <2>3, <2>5, <2>6, WorkGoesOn
<1>17. ASSUME NEW x PROVE Alike(x, x)
  BY DEF Alike
<1>18. CASE call.for \notin ScanCalls
  <2>1. r = IF a.rc = "OK" THEN Driving(t, call.stage) ELSE Failing(t)
    BY <1>1, <1>18
  <2>2. CASE a.rc = "OK"
    BY <1>12, <1>16, <1>18, <2>1, <2>2
  <2>3. CASE a.rc # "OK"
    <3>1. Failable(t)
      BY <1>12, <1>15, <1>18
    <3> QED BY <1>17, <2>1, <2>3, <3>1, FailStatement
  <2> QED BY <2>2, <2>3
<1>19. CASE call.for \in ScanCalls /\ a.rc = "CONTROL_SIGNAL"
  <2>1. r \in StartStatement(c, "CANCEL", call.stage)
    BY <1>1, <1>19
  <2>2. Machine(cursor, "CANCEL") = [cursor EXCEPT !.state = "CANCELLING"]
    BY <1>4, <1>19 DEF Machine, Accepts
  <2>3. /\ DOMAIN c = DOMAIN t /\ c.conn = conn /\ c.stmt = stmt /\ c.b = a.b
        /\ c.cursor = [cursor EXCEPT !.state = "CANCELLING"]
        /\ c.call = t.call /\ c.lease = lease /\ c.tx = tx
    BY <1>9, <1>12, <1>19, <2>2 DEF Shape
  <2> HIDE DEF c
  <2>4. /\ DOMAIN c.cursor = DOMAIN cursor /\ c.cursor.state = "CANCELLING"
        /\ c.cursor.on = cursor.on
    BY <1>12, <2>3 DEF Shape
  <2>5. Shape(c)
    BY <1>2, <1>3, <1>12, <2>3, <2>4 DEF Shape
  <2>6. Failable(c) /\ Runs(c, call.stage)
    <3>1. c.cursor.state \in CursorStates \ {"CLOSED"}
      BY <2>4 DEF CursorStates
    <3> QED BY <1>12, <1>15, <1>19, <2>3, <2>4, <2>5, <3>1
  <2>7. ASSUME StatementStartAllowed(stmt, "CANCEL"), call.stage = "EXECUTE"
        PROVE  ~a.b.ps.sqlstateSeen /\ a.b.ps.phase = "EXECUTE_FLUSH"
    <3>1. stmt.state # "CANCELLING" /\ stmt.state = StatementRunningState[op]
      BY <1>2, <2>7 DEF StatementStartAllowed, AtWork
    <3>2. op = "EXECUTE"
      <4>1. op = call.stage \/ op = "CANCEL"
        BY <1>2 DEF AtWork
      <4>2. op # "CANCEL"
        BY <3>1 DEF StatementRunningState
      <4> QED BY <2>7, <4>1, <4>2
    <3>3. a.b = backend
      BY <1>5, <1>19
    <3>4. backend.ps.phase = "EXECUTE_FLUSH"
      BY <1>3, <1>4, <1>6, <1>19, <3>2 DEF Driven, PhasesOf
    <3>5. ~backend.ps.sqlstateSeen
      BY <1>2, <3>2 DEF AtWork, Harmless
    <3> QED BY <3>3, <3>4, <3>5
  <2>8. Startable(c, "CANCEL", call.stage)
    BY <1>12, <1>13, <1>19, <2>3, <2>4, <2>6, <2>7 DEF Startable, Operations
  <2> QED BY <2>1, <2>8, StartStatementGood
<1>20. CASE call.for \in ScanCalls /\ a.rc # "CONTROL_SIGNAL"
  <2>1. r = IF a.rc = "OK" THEN Driving(u, call.stage) ELSE Failing(u)
    BY <1>1, <1>20
  <2>2. Machine(cursor, "RESUME") = [cursor EXCEPT !.state = cursor.from]
    BY <1>4, <1>20 DEF Machine, Accepts
  <2>3. /\ DOMAIN u = DOMAIN t /\ u.conn = conn /\ u.stmt = t.stmt /\ u.b = a.b
        /\ u.cursor = [cursor EXCEPT !.state = cursor.from]
        /\ u.call = t.call /\ u.lease = lease /\ u.tx = tx
    BY <1>12, <2>2 DEF Shape
  <2> HIDE DEF u
  <2>4. /\ DOMAIN u.cursor = DOMAIN cursor /\ u.cursor.state = cursor.from
        /\ u.cursor.on = cursor.on
    BY <1>12, <2>3 DEF Shape
  <2>5. Shape(u)
    BY <1>12, <2>3, <2>4 DEF Shape
  <2>6. cursor.from \in {"CANCELLING", "FILTERING"}
    BY <1>2, <1>4, <1>20 DEF AtWork, Stands
  <2>7. CASE a.rc = "OK"
    <3>1. Stands(u.cursor) = Stands(cursor) /\ u.cursor.state # "WAITING"
      BY <1>4, <1>20, <2>4, <2>6 DEF Stands
    <3> QED BY <1>12, <1>16, <1>20, <2>1, <2>3, <2>4, <2>5, <2>7, <3>1
  <2>8. CASE a.rc # "OK"
    <3>1. u.cursor.state \in CursorStates \ {"CLOSED"}
      BY <2>4, <2>6 DEF CursorStates
    <3>2. Failable(u)
      BY <1>12, <1>15, <1>20, <2>3, <2>4, <2>5, <3>1
    <3> QED BY <1>17, <2>1, <2>8, <3>2, FailStatement
  <2> QED BY <2>7, <2>8
<1> QED BY <1>18, <1>19, <1>20
=============================================================================
