----------------------------- MODULE ScanProofs -----------------------------
(***************************************************************************)
(* Every step of ScanStack keeps the invariant of ScanLemmas, and the four *)
(* safety properties that follow from it, for any number of rows,          *)
(* settings, row generations and polls.                                    *)
(***************************************************************************)
EXTENDS ScanTurns

-----------------------------------------------------------------------------
(* The steps *)

\* A callback's result becomes the state.
LEMMA BecomesGood ==
    ASSUME NEW r, Good(r), Becomes(r)
    PROVE  Good(Now)'
<1> DEFINE c == Now'
<1>1. /\ DOMAIN c = {"conn", "stmt", "b", "cursor", "call", "lease", "tx", "token", "code"}
      /\ c.conn = r.conn /\ c.stmt = r.stmt /\ c.b = r.b /\ c.cursor = r.cursor
      /\ c.call = r.call /\ c.lease = r.lease /\ c.tx = r.tx /\ c.code = r.code
  BY DEF Becomes, Now
<1> HIDE DEF c
<1>2. GoodBackend(r.b) /\ DOMAIN c = DOMAIN r
  BY <1>1 DEF Good, Sound, Shape, Layers
<1>3. Good(c)
  BY <1>1, <1>2, MovesGood
<1> QED BY <1>3 DEF c

\* No callback runs.
LEMMA IdleRests ==
    ASSUME Good(Now), Idle
    PROVE  AtIdle(Now)
<1>1. Now.call.for = "none"
  BY NowFields DEF Idle
<1>2. ~AtLink(Now)
  BY <1>1 DEF AtLink, Links
<1>3. ~AtWork(Now)
  BY <1>1 DEF AtWork, Runs
<1> QED BY <1>2, <1>3 DEF Good

\* A callback starts.
LEMMA StartingGood ==
    ASSUME Good(Now), Idle, NEW for
    PROVE  LET s == Starting(for)
           IN  /\ Sound(s) /\ Resting(s) /\ s.call.for = for /\ s.call.stage = "NONE"
               /\ s.conn = conn /\ s.b = backend /\ s.cursor = cursor /\ s.lease = lease
               /\ s.tx = tx /\ s.stmt = stmt
<1> DEFINE n == Now
           k == [NoCall EXCEPT !.for = for]
           s == [n EXCEPT !.call = k]
<1>1. /\ Sound(n) /\ AtIdle(n) /\ n.conn = conn /\ n.stmt = stmt /\ n.b = backend
      /\ n.cursor = cursor /\ n.lease = lease /\ n.tx = tx
  BY IdleRests, NowFields DEF Good
<1>2. s = Starting(for)
  BY DEF Starting
<1>3. /\ DOMAIN k = {"for", "stage", "at", "turn", "interest", "err"}
      /\ k.for = for /\ k.stage = "NONE"
  BY DEF NoCall
<1> HIDE DEF n, k
<1>4. /\ DOMAIN s = DOMAIN n /\ s.conn = n.conn /\ s.stmt = n.stmt /\ s.b = n.b
      /\ s.cursor = n.cursor /\ s.call = k /\ s.lease = n.lease /\ s.tx = n.tx
  BY <1>1 DEF Sound, Shape
<1> HIDE DEF s
<1>5. Shape(s)
  BY <1>1, <1>3, <1>4 DEF Sound, Shape
<1>6. Sound(s)
  BY <1>1, <1>4, <1>5 DEF Sound, Held, Layers
<1>7. Leased(s)
  BY <1>1, <1>4 DEF AtIdle, Resting, Leased
<1>8. Resting(s)
  BY <1>1, <1>4, <1>7 DEF AtIdle, Resting
<1> QED BY <1>1, <1>2, <1>3, <1>4, <1>6, <1>8

\* A cursor is parked while nobody's statement is on the connection.
LEMMA RestingParked ==
    ASSUME NEW s, Sound(s), Resting(s),
           s.b.pg.statements = 0 \/ s.lease \in {"none", "pool"}
    PROVE  /\ s.b.pg.statements = 0 /\ s.cursor.state \in Parked
           /\ s.b.ps.await = "none" /\ s.b.pg.phase \in {"CREATED", "READY", "FAILED"}
           /\ s.lease = "pool" => s.b.pg.phase = "READY"
           /\ s.lease = "none" => s.b.pg.phase = "CREATED"
<1>1. s.b.pg.statements = 0
  BY DEF Resting, Leased, Sound, Layers
<1>2. s.cursor.state \in Parked
  BY <1>1 DEF Resting
<1> QED BY <1>1, <1>2 DEF Resting, Leased

\* vps_module_open
LEMMA OpenKeeps ==
    ASSUME Good(Now), Open
    PROVE  Good(Now)'
<1> DEFINE n == Now
           c == Now'
<1>1. /\ Sound(n) /\ AtIdle(n) /\ n.cursor.state = "CLOSED"
  BY IdleRests, NowFields DEF Good, Open
<1>2. /\ DOMAIN c = DOMAIN n /\ c.conn = n.conn /\ c.stmt = n.stmt /\ c.b = n.b
      /\ c.cursor = [ClosedCursor EXCEPT !.state = "OPEN"] /\ c.call = n.call
      /\ c.lease = n.lease /\ c.tx = n.tx
  BY DEF Now, Open
<1> HIDE DEF n, c
<1>3. /\ DOMAIN c.cursor = {"state", "from", "on", "delivered", "budget"}
      /\ c.cursor.state = "OPEN" /\ c.cursor.on = "none"
  BY <1>2 DEF ClosedCursor
<1>4. n.cursor.on # "lease" /\ n.b.pg.statements = 0
  BY <1>1 DEF AtIdle, Resting, Parked, Sound, Layers
<1>5. Sound(c)
  BY <1>1, <1>2, <1>3, <1>4 DEF Sound, Shape, Held, Layers
<1>6. Leased(c)
  BY <1>1, <1>2 DEF AtIdle, Resting, Leased
<1>7. Resting(c)
  BY <1>2, <1>3, <1>4, <1>6 DEF Resting, Parked
<1>8. AtIdle(c)
  BY <1>1, <1>2, <1>3, <1>7 DEF AtIdle
<1>9. Good(c)
  BY <1>5, <1>8 DEF Good
<1> QED BY <1>9 DEF c

\* vps_module_filter: what the cursor held is released, then a statement is opened on the
\* coordinator's connection, or one is acquired.
LEMMA FilterKeeps ==
    ASSUME Good(Now), Filter
    PROVE  Good(Now)'
<1> DEFINE a == Starting("filter")
           s == CursorReleased(a, TRUE)
           m == Machine(s.cursor, "FILTER")
           k == [m EXCEPT !.budget = 0, !.delivered = 0]
           t == [s EXCEPT !.cursor = k]
           u == [t EXCEPT !.cursor.on = "tx"]
<1>1. Idle /\ cursor.state \in {"OPEN", "EOF"}
  BY DEF Filter
<1>2. PICK r \in CASE tx = "failed" -> {Returns(t, "ABORT")}
                   [] tx = "active" -> OpenStatement(u, "scan", "EXECUTE")
                   [] tx = "none" -> Acquire(t) : Becomes(r)
  BY DEF Filter
<1>3. /\ Sound(a) /\ Resting(a) /\ a.call.for = "filter" /\ a.call.stage = "NONE"
      /\ a.b = backend /\ a.cursor = cursor /\ a.lease = lease /\ a.tx = tx
  BY <1>1, StartingGood
<1> HIDE DEF a
<1>4. /\ Leased(a)
      /\ a.cursor.state = "EOF" /\ a.cursor.on = "lease" =>
           a.b.pg.phase = "READY" /\ a.b.pg.statements = 0
  BY <1>3 DEF Resting
<1>5. /\ Sound(s) /\ Free(s) /\ s.cursor = [a.cursor EXCEPT !.on = "none"]
      /\ s.call = a.call /\ s.tx = a.tx
  BY <1>3, <1>4, CursorReleasedGood
<1> HIDE DEF s
<1>6. /\ DOMAIN s.cursor = DOMAIN a.cursor /\ s.cursor.state = a.cursor.state
      /\ s.cursor.on = "none" /\ Shape(s) /\ Shape(a) /\ Held(s) /\ Layers(s)
  BY <1>3, <1>5 DEF Sound, Shape
<1>7. m = [s.cursor EXCEPT !.state = "FILTERING"]
  BY <1>1, <1>3, <1>6 DEF Machine, Accepts
<1> HIDE DEF m
<1>8. DOMAIN m = DOMAIN s.cursor /\ m.state = "FILTERING" /\ m.on = "none"
  BY <1>6, <1>7 DEF Shape
<1>9. DOMAIN k = DOMAIN s.cursor /\ k.state = "FILTERING" /\ k.on = "none"
  BY <1>6, <1>8 DEF Shape
<1> HIDE DEF k
<1>10. /\ DOMAIN t = DOMAIN s /\ t.conn = s.conn /\ t.stmt = s.stmt /\ t.b = s.b
       /\ t.cursor = k /\ t.call = s.call /\ t.lease = s.lease /\ t.tx = s.tx
  BY <1>6 DEF Shape
<1> HIDE DEF t
<1>11. Sound(t)
  BY <1>6, <1>9, <1>10 DEF Sound, Shape, Held, Layers
<1>12. /\ t.b.pg.statements = 0 /\ t.b.ps.await = "none"
       /\ t.b.pg.phase \in {"CREATED", "READY", "FAILED"}
       /\ t.lease \in {"none", "pool", "tx"} /\ (t.lease = "tx" => t.tx # "none")
       /\ (t.lease = "pool" => t.b.pg.phase = "READY")
       /\ (t.lease = "none" => t.b.pg.phase = "CREATED")
       /\ t.call.for = "filter" /\ t.tx = tx
       /\ t.cursor.state = "FILTERING" /\ t.cursor.on = "none"
  BY <1>3, <1>5, <1>9, <1>10 DEF Free
<1>13. t.cursor.state \in Parked
  BY <1>12 DEF Parked
<1>14. tx \in {"none", "active", "failed"} /\ (tx # "none" => t.lease = "tx")
  BY <1>11, <1>12 DEF Sound, Held
<1>15. CASE tx = "failed"
  <2>1. r = Returns(t, "ABORT")
    BY <1>2, <1>15
  <2>2. Leased(t)
    BY <1>12 DEF Leased
  <2>3. Good(r)
    BY <1>11, <1>12, <1>13, <2>1, <2>2, ParkedReturns
  <2> QED BY <1>2, <2>3, BecomesGood
<1>16. CASE tx = "active"
  <2>1. r \in OpenStatement(u, "scan", "EXECUTE")
    BY <1>2, <1>16
  <2>2. /\ DOMAIN u = DOMAIN t /\ u.conn = t.conn /\ u.stmt = t.stmt /\ u.b = t.b
        /\ u.cursor = [t.cursor EXCEPT !.on = "tx"] /\ u.call = t.call
        /\ u.lease = t.lease /\ u.tx = t.tx
    BY <1>11 DEF Sound, Shape
  <2> HIDE DEF u
  <2>3. /\ DOMAIN u.cursor = DOMAIN t.cursor /\ u.cursor.state = "FILTERING"
        /\ u.cursor.on = "tx"
    BY <1>11, <1>12, <2>2 DEF Sound, Shape
  <2>4. Sound(u)
    BY <1>11, <1>14, <1>16, <2>2, <2>3 DEF Sound, Shape, Held, Layers
  <2>5. Serves(u)
    BY <1>12, <1>14, <1>16, <2>2 DEF Serves, ScanCalls
  <2>6. Openable(u, "scan", "EXECUTE")
    BY <1>12, <2>2, <2>3, <2>4, <2>5 DEF Openable
  <2>7. Good(r)
    BY <2>1, <2>6, OpenStatementGood
  <2> QED BY <1>2, <2>7, BecomesGood
<1>17. CASE tx = "none"
  <2>1. r \in Acquire(t)
    BY <1>2, <1>17
  <2>2. Good(r)
    BY <1>11, <1>12, <1>13, <1>17, <2>1, AcquireGood
  <2> QED BY <1>2, <2>2, BecomesGood
<1> QED BY <1>14, <1>15, <1>16, <1>17

\* vps_module_next
LEMMA NextRowKeeps ==
    ASSUME Good(Now), NextRow
    PROVE  Good(Now)'
<1> DEFINE s == Starting("next")
           t == [s EXCEPT !.cursor = Machine(@, "FETCH"), !.stmt = RowConsumed(@)]
           e == WithError(t, ErrorClass("LIMIT_EXCEEDED"))
<1>1. Idle /\ cursor.state = "ROW_READY"
  BY DEF NextRow
<1>2. PICK r \in Advance(s) : Becomes(r)
  BY DEF NextRow
<1>3. /\ Sound(s) /\ Resting(s) /\ s.call.for = "next" /\ s.call.stage = "NONE"
      /\ s.cursor = cursor
  BY <1>1, StartingGood
<1> HIDE DEF s
<1>4. /\ Leased(s) /\ s.cursor.state = "ROW_READY" /\ s.b.pg.statements = 1
      /\ s.b.ps.phase = "ROW_READY" /\ Shape(s) /\ Held(s) /\ Layers(s)
  BY <1>1, <1>3 DEF Resting, Sound
<1>5. ~s.b.ps.sqlstateSeen
  BY <1>4 DEF Layers, GoodBackend, AdapterInv
<1>6. IF t.stmt.state = "FAILED" THEN r = Failing(e)
      ELSE r \in StartStatement([t EXCEPT !.b = StatementRowRelease(@)], "FETCH", "FETCH")
  BY <1>2, <1>4 DEF Advance
<1>7. Machine(s.cursor, "FETCH") = [s.cursor EXCEPT !.state = "FILTERING"]
  BY <1>4 DEF Machine, Accepts
<1>8. /\ DOMAIN t = DOMAIN s /\ t.conn = s.conn /\ t.stmt = RowConsumed(s.stmt) /\ t.b = s.b
      /\ t.cursor = [s.cursor EXCEPT !.state = "FILTERING"]
      /\ t.call = s.call /\ t.lease = s.lease /\ t.tx = s.tx
  BY <1>4, <1>7 DEF Shape
<1> HIDE DEF t
<1>9. /\ DOMAIN t.stmt = DOMAIN s.stmt
      /\ DOMAIN t.cursor = DOMAIN s.cursor /\ t.cursor.state = "FILTERING"
      /\ t.cursor.on = s.cursor.on
  <2>1. DOMAIN t.stmt = DOMAIN s.stmt
    BY <1>8 DEF RowConsumed, StatementFailed
  <2> QED BY <1>4, <1>8, <2>1 DEF Shape
<1>10. Sound(t) /\ Shape(t)
  BY <1>4, <1>8, <1>9 DEF Sound, Shape, Held, Layers
<1>11. t.lease \in {"scan", "tx"} /\ (t.lease = "tx" => t.tx # "none")
  BY <1>4, <1>8 DEF Leased
<1>12. Serves(t) /\ Runs(t, "FETCH")
  BY <1>3, <1>8, <1>11 DEF Serves, Runs, ScanCalls
<1>13. Failable(t)
  <2>1. ~Confirmed(t)
    BY <1>5, <1>8 DEF Confirmed
  <2>2. t.cursor.state \in CursorStates \ {"CLOSED"}
    BY <1>9 DEF CursorStates
  <2>3. /\ t.b.ps.await = "none" /\ t.b.pg.phase \in {"READY", "FAILED"}
        /\ t.b.ps.kind = "scan"
    BY <1>4, <1>8 DEF Leased
  <2> QED BY <1>3, <1>8, <1>10, <1>12, <2>1, <2>2, <2>3 DEF Failable, ScanCalls
<1>14. Alike(t, e)
  BY <1>10, WithErrorAlike
<1> HIDE DEF e
<1>15. CASE t.stmt.state = "FAILED"
  <2>1. Good(r)
    BY <1>6, <1>13, <1>14, <1>15, FailStatement
  <2> QED BY <1>2, <2>1, BecomesGood
<1>16. CASE t.stmt.state # "FAILED"
  <2>1. r \in StartStatement([t EXCEPT !.b = StatementRowRelease(@)], "FETCH", "FETCH")
    BY <1>6, <1>16
  <2>2. t.b.pg.statements = 1 /\ ~t.b.ps.sqlstateSeen
    BY <1>4, <1>5, <1>8
  <2>3. Good(r)
    BY <1>9, <1>12, <1>13, <2>1, <2>2, FetchAgain
  <2> QED BY <1>2, <2>3, BecomesGood
<1> QED BY <1>15, <1>16

\* vps_module_close: a statement that still has rows is cancelled first.
LEMMA CloseKeeps ==
    ASSUME Good(Now), Close
    PROVE  Good(Now)'
<1> DEFINE s == Starting("close")
           c == [s EXCEPT !.cursor = Machine(@, "CANCEL")]
<1>1. Idle /\ cursor.state # "CLOSED"
  BY DEF Close
<1>2. PICK r \in IF conn.statements = 1 /\ cursor.state = "ROW_READY"
                 THEN StartStatement(c, "CANCEL", "CANCEL") ELSE {CursorClosed(s, TRUE)} :
            Becomes(r)
  BY DEF Close
<1>3. /\ Sound(s) /\ Resting(s) /\ s.call.for = "close" /\ s.call.stage = "NONE"
      /\ s.cursor = cursor
  BY <1>1, StartingGood
<1> HIDE DEF s
<1>4. CASE conn.statements = 1 /\ cursor.state = "ROW_READY"
  <2>1. r \in StartStatement(c, "CANCEL", "CANCEL")
    BY <1>2, <1>4
  <2>2. /\ Leased(s) /\ s.cursor.state = "ROW_READY" /\ s.b.pg.statements = 1
        /\ s.b.ps.phase = "ROW_READY" /\ Shape(s) /\ Held(s) /\ Layers(s)
    BY <1>3, <1>4 DEF Resting, Sound
  <2>3. Machine(s.cursor, "CANCEL") = [s.cursor EXCEPT !.state = "CANCELLING"]
    BY <2>2 DEF Machine, Accepts
  <2>4. /\ DOMAIN c = DOMAIN s /\ c.conn = s.conn /\ c.stmt = s.stmt /\ c.b = s.b
        /\ c.cursor = [s.cursor EXCEPT !.state = "CANCELLING"]
        /\ c.call = s.call /\ c.lease = s.lease /\ c.tx = s.tx
    BY <2>2, <2>3 DEF Shape
  <2> HIDE DEF c
  <2>5. /\ DOMAIN c.cursor = DOMAIN s.cursor /\ c.cursor.state = "CANCELLING"
        /\ c.cursor.on = s.cursor.on
    BY <2>2, <2>4 DEF Shape
  <2>6. Sound(c)
    BY <2>2, <2>4, <2>5 DEF Sound, Shape, Held, Layers
  <2>7. /\ c.lease \in {"scan", "tx"} /\ (c.lease = "tx" => c.tx # "none")
        /\ c.b.ps.await = "none" /\ c.b.pg.phase \in {"READY", "FAILED"}
        /\ c.b.ps.kind = "scan"
    BY <2>2, <2>4 DEF Leased
  <2>8. Serves(c) /\ Runs(c, "CANCEL")
    BY <1>3, <2>4, <2>7 DEF Serves, Runs, ScanCalls
  <2>9. ~Confirmed(c) /\ c.cursor.state \in CursorStates \ {"CLOSED"}
    BY <2>2, <2>4, <2>5 DEF Confirmed, CursorStates
  <2>10. Failable(c)
    BY <1>3, <2>4, <2>6, <2>7, <2>8, <2>9 DEF Failable, ScanCalls
  <2>11. Startable(c, "CANCEL", "CANCEL")
    BY <2>2, <2>4, <2>5, <2>8, <2>10 DEF Startable, Operations
  <2>12. Good(r)
    BY <2>1, <2>11, StartStatementGood
  <2> QED BY <1>2, <2>12, BecomesGood
<1>5. CASE ~(conn.statements = 1 /\ cursor.state = "ROW_READY")
  <2>1. r = CursorClosed(s, TRUE)
    BY <1>2, <1>5
  <2>2. /\ Leased(s)
        /\ s.cursor.state = "EOF" /\ s.cursor.on = "lease" =>
             s.b.pg.phase = "READY" /\ s.b.pg.statements = 0
    BY <1>3 DEF Resting
  <2>3. Good(r)
    BY <1>3, <2>1, <2>2, CursorClosedGood
  <2> QED BY <1>2, <2>3, BecomesGood
<1> QED BY <1>4, <1>5

\* The coordinator acquires a connection and begins.
LEMMA BeginKeeps ==
    ASSUME Good(Now), Begin
    PROVE  Good(Now)'
<1> DEFINE s == Starting("begin")
<1>1. Idle /\ tx = "none" /\ lease \in {"none", "pool"}
  BY DEF Begin
<1>2. PICK r \in Acquire(s) : Becomes(r)
  BY DEF Begin
<1>3. /\ Sound(s) /\ Resting(s) /\ s.call.for = "begin" /\ s.lease = lease /\ s.tx = tx
  BY <1>1, StartingGood
<1> HIDE DEF s
<1>4. /\ s.b.pg.statements = 0 /\ s.cursor.state \in Parked /\ s.b.ps.await = "none"
      /\ s.lease = "pool" => s.b.pg.phase = "READY"
      /\ s.lease = "none" => s.b.pg.phase = "CREATED"
  BY <1>1, <1>3, RestingParked
<1>5. Good(r)
  BY <1>1, <1>2, <1>3, <1>4, AcquireGood
<1> QED BY <1>2, <1>5, BecomesGood

\* The coordinator commits or rolls back.
LEMMA EndKeeps ==
    ASSUME Good(Now), Commit \/ Rollback
    PROVE  Good(Now)'
<1>1. PICK for \in {"commit", "rollback"}, op \in {"COMMIT", "ROLLBACK"} :
        End(for, op) /\ (for = "commit" <=> op = "COMMIT")
  BY DEF Commit, Rollback
<1> DEFINE s == Starting(for)
<1>2. Idle /\ tx # "none" /\ conn.statements = 0
  BY <1>1 DEF End
<1>3. PICK r \in StartConnection(s, op) : Becomes(r)
  BY <1>1 DEF End
<1>4. /\ Sound(s) /\ Resting(s) /\ s.call.for = for /\ s.conn = conn /\ s.tx = tx
  BY <1>2, StartingGood
<1> HIDE DEF s
<1>5. s.b.pg.statements = 0 /\ s.lease = "tx"
  BY <1>2, <1>4 DEF Sound, Held, Layers
<1>6. s.cursor.state \in Parked /\ s.b.ps.await = "none"
  BY <1>4, <1>5, RestingParked
<1>7. Links(s, op) /\ Holds(s, op)
  BY <1>1, <1>4, <1>5, <1>6 DEF Links, Holds
<1>8. Good(r)
  BY <1>1, <1>3, <1>4, <1>5, <1>6, <1>7, StartConnectionGood
<1> QED BY <1>3, <1>8, BecomesGood

\* A statement of the coordinator.
LEMMA CommandKeeps ==
    ASSUME Good(Now), Execute \/ Returning
    PROVE  Good(Now)'
<1>1. PICK for \in {"command", "returning"}, kind \in {"command", "scan"} :
        Command(for, kind) /\ (for = "command" <=> kind = "command")
  BY DEF Execute, Returning
<1> DEFINE s == Starting(for)
<1>2. Idle /\ tx = "active" /\ conn.statements = 0
  BY <1>1 DEF Command
<1>3. PICK r \in OpenStatement(s, kind, "EXECUTE") : Becomes(r)
  BY <1>1 DEF Command
<1>4. /\ Sound(s) /\ Resting(s) /\ s.call.for = for /\ s.conn = conn /\ s.tx = tx
  BY <1>2, StartingGood
<1> HIDE DEF s
<1>5. s.b.pg.statements = 0 /\ s.lease = "tx"
  BY <1>2, <1>4 DEF Sound, Held, Layers
<1>6. /\ s.cursor.state \in Parked /\ s.b.ps.await = "none"
      /\ s.b.pg.phase \in {"CREATED", "READY", "FAILED"}
  BY <1>4, <1>5, RestingParked
<1>7. Serves(s)
  BY <1>1, <1>2, <1>4, <1>5, <1>6 DEF Serves, ScanCalls
<1>8. Openable(s, kind, "EXECUTE")
  BY <1>1, <1>4, <1>5, <1>6, <1>7 DEF Openable
<1>9. Good(r)
  BY <1>3, <1>8, OpenStatementGood
<1> QED BY <1>3, <1>9, BecomesGood

\* vps_table_describe
LEMMA DescribeKeeps ==
    ASSUME Good(Now), Describe
    PROVE  Good(Now)'
<1> DEFINE s == Starting("describe")
<1>1. Idle /\ lease = "none"
  BY DEF Describe
<1>2. PICK r \in StartConnection(s, "CONNECT") : Becomes(r)
  BY DEF Describe
<1>3. /\ Sound(s) /\ Resting(s) /\ s.call.for = "describe" /\ s.lease = lease
  BY <1>1, StartingGood
<1> HIDE DEF s
<1>4. s.b.pg.statements = 0 /\ s.cursor.state \in Parked /\ s.b.ps.await = "none"
  BY <1>1, <1>3, RestingParked
<1>5. Links(s, "CONNECT") /\ Holds(s, "CONNECT")
  BY <1>1, <1>3, <1>4 DEF Links, Holds
<1>6. Good(r)
  BY <1>2, <1>3, <1>4, <1>5, StartConnectionGood
<1> QED BY <1>2, <1>6, BecomesGood

\* RESET and PING.
LEMMA MaintainKeeps ==
    ASSUME Good(Now), Maintain
    PROVE  Good(Now)'
<1> DEFINE s == Starting("maintain")
<1>1. Idle /\ lease = "pool"
  BY DEF Maintain
<1>2. PICK op \in {"RESET", "PING"} : \E r \in StartConnection(s, op) : Becomes(r)
  BY DEF Maintain
<1>3. PICK r \in StartConnection(s, op) : Becomes(r)
  BY <1>2
<1>4. /\ Sound(s) /\ Resting(s) /\ s.call.for = "maintain" /\ s.lease = lease
  BY <1>1, StartingGood
<1> HIDE DEF s
<1>5. s.b.pg.statements = 0 /\ s.cursor.state \in Parked /\ s.b.ps.await = "none"
  BY <1>1, <1>4, RestingParked
<1>6. Links(s, op) /\ Holds(s, op)
  BY <1>1, <1>2, <1>4, <1>5 DEF Links, Holds
<1>7. Good(r)
  BY <1>3, <1>4, <1>5, <1>6, StartConnectionGood
<1> QED BY <1>3, <1>7, BecomesGood

\* Which loop runs.
LEMMA DrivesOne ==
    ASSUME Good(Now), call.at # "idle"
    PROVE  /\ Sound(Now)
           /\ OnConnection => AtLink(Now)
           /\ ~OnConnection => AtWork(Now)
<1>1. Now.call = call
  BY NowFields
<1>2. ~AtIdle(Now)
  BY <1>1 DEF AtIdle, NoCall
<1>3. AtLink(Now) => OnConnection
  BY <1>1 DEF AtLink, Links, OnConnection, ConnectionOperations
<1>4. AtWork(Now) => ~OnConnection
  BY <1>1 DEF AtWork, Runs, OnConnection, ConnectionOperations
<1> QED BY <1>2, <1>3, <1>4 DEF Good

\* A turn of a poll loop.
LEMMA PollKeeps ==
    ASSUME Good(Now), Poll
    PROVE  Good(Now)'
<1>1. call.at = "poll"
  BY DEF Poll
<1>2. /\ Sound(Now) /\ (OnConnection => AtLink(Now)) /\ (~OnConnection => AtWork(Now))
      /\ Now.b = backend /\ Now.call = call /\ Now.stmt = stmt
  BY <1>1, DrivesOne, NowFields
<1>3. CASE OnConnection
  <2>1. PICK a \in ConnectionPoll(backend, call.turn) :
            \E r \in ConnectionAnswered(a) : Becomes(r)
    BY <1>3 DEF Poll
  <2>2. PICK r \in ConnectionAnswered(a) : Becomes(r)
    BY <2>1
  <2>3. GoodBackend(backend) /\ Connecting(backend, call.stage)
    BY <1>2, <1>3 DEF Sound, Layers, AtLink
  <2>4. Reported(backend, a, call.stage)
    BY <2>1, <2>3, ConnectionPollReports
  <2>5. Good(r)
    BY <1>2, <1>3, <2>2, <2>4, ConnectionAnsweredGood
  <2> QED BY <2>2, <2>5, BecomesGood
<1>4. CASE ~OnConnection
  <2>1. PICK a \in StatementPoll(backend, call.turn) :
            \E r \in StatementAnswered(a) : Becomes(r)
    BY <1>4 DEF Poll
  <2>2. PICK r \in StatementAnswered(a) : Becomes(r)
    BY <2>1
  <2>3. Turn(backend, stmt.op)
    BY <1>2, <1>4, WorkFacts
  <2>4. backend.ps.await = "none"
    BY <1>1, <1>2, <1>4 DEF AtWork
  <2>5. Told(a, stmt.op) /\ Kept(backend, a.b)
    BY <2>1, <2>3, <2>4, PollAnswers
  <2>6. Good(r)
    BY <1>1, <1>2, <1>4, <2>2, <2>5, StatementAnsweredGood
  <2> QED BY <2>2, <2>6, BecomesGood
<1> QED BY <1>3, <1>4

\* A blocking PQgetResult returns.
LEMMA UnblockKeeps ==
    ASSUME Good(Now), Unblock
    PROVE  Good(Now)'
<1> DEFINE a == AwaitedResult(backend)
<1>1. call.at = "block" /\ ResultAvailable(backend.wire)
  BY DEF Unblock
<1>2. PICK r \in StatementAnswered(a) : Becomes(r)
  BY DEF Unblock
<1>3. /\ Sound(Now) /\ (OnConnection => AtLink(Now)) /\ (~OnConnection => AtWork(Now))
      /\ Now.b = backend /\ Now.call = call /\ Now.stmt = stmt
  BY <1>1, DrivesOne, NowFields
<1>4. AtWork(Now)
  BY <1>1, <1>3 DEF AtLink
<1>5. Turn(backend, stmt.op)
  BY <1>3, <1>4, WorkFacts
<1>6. backend.ps.await # "none"
  BY <1>1, <1>3, <1>4 DEF AtWork
<1>7. Told(a, stmt.op) /\ Kept(backend, a.b)
  BY <1>1, <1>5, <1>6, AwaitedAnswers
<1> HIDE DEF a
<1>8. Good(r)
  BY <1>1, <1>2, <1>3, <1>4, <1>7, StatementAnsweredGood
<1> QED BY <1>2, <1>8, BecomesGood

\* A wait returns, whatever its outcome.
LEMMA WaitKeepsGood ==
    ASSUME Good(Now), Wait \/ WaitFails
    PROVE  Good(Now)'
<1>1. call.at = "wait" /\ \E outcome : WaitReturns(outcome)
  BY DEF Wait, WaitFails
<1>2. PICK outcome : WaitReturns(outcome)
  BY <1>1
<1>3. Sound(Now) /\ (OnConnection => AtLink(Now)) /\ (~OnConnection => AtWork(Now))
  BY <1>1, DrivesOne
<1>4. PICK r \in IF OnConnection THEN ConnectionWaitReturns(outcome)
                 ELSE StatementWaitReturns(outcome) : Becomes(r)
  BY <1>2 DEF WaitReturns
<1>5. CASE OnConnection
  <2>1. Good(r)
    BY <1>3, <1>4, <1>5, ConnectionWaitGood
  <2> QED BY <1>4, <2>1, BecomesGood
<1>6. CASE ~OnConnection
  <2>1. Good(r)
    BY <1>1, <1>3, <1>4, <1>6, StatementWaitGood
  <2> QED BY <1>4, <2>1, BecomesGood
<1> QED BY <1>5, <1>6

\* The session and the network.
LEMMA WorldKeepsGood ==
    ASSUME Good(Now), Session \/ ConnectionDies
    PROVE  Good(Now)'
<1>1. PICK w \in SendsRow(backend.wire) \cup Finishes(backend.wire) \cup Refuses(backend.wire)
                   \cup Readies(backend.wire) \cup TakesCancel(backend.wire)
                   \cup Dies(backend.wire) : World(w)
  BY DEF Session, SessionSends, SessionEnds, SessionIsReady, SessionTakesCancel,
         ConnectionDies
<1> DEFINE d == [backend EXCEPT !.wire = w]
           r == [Now EXCEPT !.b = d]
<1>2. GoodBackend(backend)
  BY NowFields DEF Good, Sound, Layers
<1>3. Moved(backend.wire, w)
  BY <1>1, <1>2, SessionMoves DEF GoodBackend
<1>4. Kept(backend, d)
  BY <1>2, <1>3, WorldKeeps
<1>5. d.pg = backend.pg /\ d.ps = backend.ps
  BY <1>2 DEF GoodBackend, IsBackend
<1>6. backend' = d
  BY <1>1 DEF World
<1> HIDE DEF d
<1>7. /\ DOMAIN r = DOMAIN Now /\ r.conn = conn /\ r.stmt = stmt /\ r.b = d
      /\ r.cursor = cursor /\ r.call = call /\ r.lease = lease /\ r.tx = tx
      /\ r.token = token /\ r.code = code
  BY DEF Now
<1> HIDE DEF r
<1>8. Good(r)
  BY <1>4, <1>5, <1>7, NowFields, MovesGood DEF Kept
<1>9. Becomes(r)
  BY <1>1, <1>6, <1>7 DEF Becomes, World
<1> QED BY <1>8, <1>9, BecomesGood

\* The deadline, and the thread that cancels.
LEMMA ClockKeeps ==
    ASSUME Good(Now), Tick \/ RequestAll \/ UNCHANGED vars
    PROVE  Good(Now)'
<1> DEFINE c == Now'
<1>1. GoodBackend(backend)
  BY NowFields DEF Good, Sound, Layers
<1>2. /\ DOMAIN c = DOMAIN Now /\ c.conn = conn /\ c.stmt = stmt /\ c.b = backend'
      /\ c.cursor = cursor /\ c.call = call /\ c.lease = lease /\ c.tx = tx /\ c.code = code
  BY DEF Now, Tick, RequestAll, vars
<1>3. \/ backend' = backend
      \/ backend' = [backend EXCEPT !.dl = "expired"]
  BY DEF Tick, RequestAll, vars
<1>4. /\ DOMAIN backend' = DOMAIN backend /\ backend'.pg = backend.pg
      /\ backend'.ps = backend.ps /\ backend'.wire = backend.wire
  BY <1>1, <1>3 DEF GoodBackend, IsBackend
<1>5. HealthInv(backend) => HealthInv(backend')
  BY <1>4 DEF HealthInv
<1>6. GoodBackend(backend')
  BY <1>1, <1>4, <1>5 DEF GoodBackend, IsBackend, AdapterInv
<1>7. Harmless(backend) => Harmless(backend')
  BY <1>4 DEF Harmless
<1> HIDE DEF c
<1>8. Good(c)
  BY <1>2, <1>4, <1>6, <1>7, NowFields, MovesGood
<1> QED BY <1>8 DEF c

-----------------------------------------------------------------------------
(* The theorems *)

\* Before the first callback there is no connection.
LEMMA InitGood == Init => ScanInv
<1> SUFFICES ASSUME Init PROVE Good(Now)
  BY DEF ScanInv
<1> DEFINE n == Now
<1>1. /\ DOMAIN n = {"conn", "stmt", "b", "cursor", "call", "lease", "tx", "token", "code"}
      /\ n.conn = NewConnection /\ n.stmt = NewStatement /\ n.b = NoBackend
      /\ n.cursor = ClosedCursor /\ n.call = NoCall /\ n.lease = "none" /\ n.tx = "none"
  BY NowFields DEF Init
<1> HIDE DEF n
<1>2. /\ DOMAIN n.conn = {"state", "op", "statements"} /\ n.conn.statements = 0
      /\ DOMAIN n.stmt = {"state", "op", "generation", "row"}
  BY <1>1 DEF NewConnection, NewStatement
<1>3. /\ DOMAIN n.cursor = {"state", "from", "on", "delivered", "budget"}
      /\ n.cursor.state = "CLOSED" /\ n.cursor.on = "none"
      /\ DOMAIN n.call = {"for", "stage", "at", "turn", "interest", "err"}
  BY <1>1 DEF ClosedCursor, NoCall
<1>4. Sound(n)
  BY <1>1, <1>2, <1>3, NoBackendGood DEF Sound, Shape, Held, Layers
<1>5. Leased(n)
  BY <1>1, NoBackendGood DEF Leased
<1>6. Resting(n)
  BY <1>1, <1>3, <1>5, NoBackendGood DEF Resting, Parked
<1>7. AtIdle(n)
  BY <1>1, <1>3, <1>6 DEF AtIdle
<1> QED BY <1>4, <1>7 DEF Good, n

\* Every callback, every turn of a drive loop and every move of the session, the network,
\* the clock and the cancelling thread keeps the invariant.
LEMMA NextKeeps == ScanInv /\ [Next]_vars => ScanInv'
<1> SUFFICES ASSUME ScanInv, [Next]_vars PROVE ScanInv'
  OBVIOUS
<1>1. Good(Now)
  BY DEF ScanInv
<1>2. CASE Open
  BY <1>1, <1>2, OpenKeeps DEF ScanInv
<1>3. CASE Filter
  BY <1>1, <1>3, FilterKeeps DEF ScanInv
<1>4. CASE NextRow
  BY <1>1, <1>4, NextRowKeeps DEF ScanInv
<1>5. CASE Close
  BY <1>1, <1>5, CloseKeeps DEF ScanInv
<1>6. CASE Begin
  BY <1>1, <1>6, BeginKeeps DEF ScanInv
<1>7. CASE Commit \/ Rollback
  BY <1>1, <1>7, EndKeeps DEF ScanInv
<1>8. CASE Execute \/ Returning
  BY <1>1, <1>8, CommandKeeps DEF ScanInv
<1>9. CASE Describe
  BY <1>1, <1>9, DescribeKeeps DEF ScanInv
<1>10. CASE Maintain
  BY <1>1, <1>10, MaintainKeeps DEF ScanInv
<1>11. CASE Poll
  BY <1>1, <1>11, PollKeeps DEF ScanInv
<1>12. CASE Unblock
  BY <1>1, <1>12, UnblockKeeps DEF ScanInv
<1>13. CASE Wait \/ WaitFails
  BY <1>1, <1>13, WaitKeepsGood DEF ScanInv
<1>14. CASE Session \/ ConnectionDies
  BY <1>1, <1>14, WorldKeepsGood DEF ScanInv
<1>15. CASE Tick \/ RequestAll \/ UNCHANGED vars
  BY <1>1, <1>15, ClockKeeps DEF ScanInv
<1> QED
  BY <1>2, <1>3, <1>4, <1>5, <1>6, <1>7, <1>8, <1>9, <1>10, <1>11, <1>12, <1>13, <1>14, <1>15
    DEF Next, Callback, Drive

\* The layers stay in step: callback, cursor machine, client, adapter and session agree
\* on who holds the connection, which operation runs and whether there is a row, in every
\* state the callbacks, the drive loops, the session and the cancelling thread can reach.
THEOREM ScanInvariant == Spec => []ScanInv
<1>1. Init => ScanInv
  BY InitGood
<1>2. ScanInv /\ [Next]_vars => ScanInv'
  BY NextKeeps
<1> QED BY <1>1, <1>2, PTL DEF Spec

\* vps_cursor_transition never refuses: WAITING, CANCELLING and FAILED are only ever left
\* and entered the way its table allows.
THEOREM MachineIsObeyed == Spec => []MachineNeverRefuses
<1>1. ScanInv => MachineNeverRefuses
  <2> SUFFICES ASSUME Good(Now) PROVE cursor.state # "REFUSED"
    BY DEF ScanInv, MachineNeverRefuses
  <2>1. Now.cursor = cursor
    BY NowFields
  <2>2. CASE AtIdle(Now)
    BY <2>1, <2>2 DEF AtIdle, Resting, Parked
  <2>3. CASE AtLink(Now)
    BY <2>1, <2>3 DEF AtLink, Holds, Parked
  <2>4. CASE AtWork(Now)
    BY <2>1, <2>4 DEF AtWork, Serves, Parked, Stands
  <2> QED BY <2>2, <2>3, <2>4 DEF Good
<1> QED BY <1>1, ScanInvariant, PTL

\* The row SQLite reads is the one the adapter still holds: nothing that runs between
\* xFilter or xNext and xColumn releases it or replaces it.
THEOREM RowStaysBacked == Spec => []RowIsBacked
<1>1. ScanInv => RowIsBacked
  <2> SUFFICES ASSUME Good(Now), Idle, cursor.state = "ROW_READY"
               PROVE  /\ RowIsCurrent(stmt) /\ backend.ps.phase = "ROW_READY"
                      /\ backend.ps.result = cursor.delivered /\ cursor.delivered # 0
    BY DEF ScanInv, RowIsBacked
  <2>1. Resting(Now)
    BY IdleRests DEF AtIdle
  <2> QED BY <2>1, NowFields DEF Resting
<1> QED BY <1>1, ScanInvariant, PTL

\* vps_connection_lease_release pools a connection only when its session is idle and
\* nothing of an earlier command, or of its cancel request, is under way.
THEOREM PoolIsQuiescent == Spec => []PooledIsQuiescent
<1>1. ScanInv => PooledIsQuiescent
  <2> SUFFICES ASSUME Good(Now), lease = "pool", Idle, backend.wire.status # "BAD"
               PROVE  /\ backend.pg.phase = "READY" /\ backend.pg.statements = 0
                      /\ ~backend.wire.busy /\ backend.wire.in = <<>>
                      /\ backend.wire.out = "none" /\ backend.wire.cmd = "none"
                      /\ backend.wire.stx = "IDLE" /\ backend.wire.tx = "IDLE"
                      /\ backend.wire.sig # "sent"
    BY DEF ScanInv, PooledIsQuiescent
  <2>1. Leased(Now) /\ Layers(Now)
    BY IdleRests DEF AtIdle, Resting, Good, Sound
  <2>2. /\ backend.pg.phase = "READY" /\ backend.pg.statements = 0
        /\ backend.ps.await = "none" /\ GoodBackend(backend) /\ Outside(backend.wire)
    BY <2>1, NowFields DEF Leased, Layers
  <2>3. /\ GoodWire(backend.wire) /\ AdapterInv(backend) /\ backend.ps.phase = "NONE"
        /\ backend.wire.sig # "sent"
    BY <2>2, NoStatementFacts
  <2>4. AtRest(backend.wire) /\ ~Lost(backend.wire)
    BY <2>2, <2>3 DEF AdapterInv, GoodWire, IsWire, Lost
  <2> QED BY <2>2, <2>3, <2>4 DEF AtRest, Quiet, Outside
<1> QED BY <1>1, ScanInvariant, PTL

\* vps_cursor_advance: a scan that fails after the server confirmed its cancel with 57014
\* fails with SQLITE_INTERRUPT, and with nothing else.
THEOREM CancelInterrupts == Spec => []ConfirmedCancelInterrupts
<1>1. ScanInv => ConfirmedCancelInterrupts
  <2> SUFFICES ASSUME Good(Now), cursor.state = "FAILED", Confirmed(Now)
               PROVE  code = "INTERRUPT"
    BY NowFields DEF ScanInv, ConfirmedCancelInterrupts, Confirmed
  <2>1. Now.cursor = cursor /\ Now.code = code /\ Layers(Now)
    BY NowFields DEF Good, Sound
  <2>2. CASE AtIdle(Now)
    BY <2>1, <2>2 DEF AtIdle
  <2>3. ~AtLink(Now)
    BY <2>1, NoStatementFacts DEF AtLink, Connecting, Layers, Confirmed
  <2>4. ~AtWork(Now)
    <3> SUFFICES ASSUME AtWork(Now) PROVE FALSE
      OBVIOUS
    <3>1. Now.call.for \notin ScanCalls
      BY <2>1 DEF AtWork, Stands
    <3>2. Now.stmt.op # "CANCEL"
      BY <3>1 DEF AtWork, Runs, ScanCalls
    <3> QED BY <3>2 DEF AtWork, Harmless, Confirmed
  <2> QED BY <2>2, <2>3, <2>4 DEF Good
<1> QED BY <1>1, ScanInvariant, PTL
=============================================================================
