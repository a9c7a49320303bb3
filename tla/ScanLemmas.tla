----------------------------- MODULE ScanLemmas -----------------------------
(***************************************************************************)
(* The callbacks, the cursor machine, the client and the adapter together: *)
(* an inductive invariant of ScanStack, and what it says when a callback   *)
(* gives back its handles, when an operation fails, and when one starts.   *)
(***************************************************************************)
EXTENDS ScanStack, LibpqProofs

Shape(s) ==
    /\ DOMAIN s = {"conn", "stmt", "b", "cursor", "call", "lease", "tx", "token", "code"}
    /\ DOMAIN s.conn = {"state", "op", "statements"}
    /\ DOMAIN s.stmt = {"state", "op", "generation", "row"}
    /\ DOMAIN s.cursor = {"state", "from", "on", "delivered", "budget"}
    /\ DOMAIN s.call = {"for", "stage", "at", "turn", "interest", "err"}

\* Who holds the connection: the scan's lease, the coordinator, the pool, or nobody.
Held(s) ==
    /\ s.lease \in {"none", "pool", "scan", "tx"}
    /\ s.lease = "scan" <=> s.cursor.on = "lease"
    /\ s.tx \in {"none", "active", "failed"}
    /\ s.tx # "none" => s.lease = "tx"

\* The layers agree on the statement, and only the coordinator's connection is in a
\* transaction.
Layers(s) ==
    /\ GoodBackend(s.b)
    /\ s.b.pg.statements \in {0, 1}
    /\ s.conn.statements = s.b.pg.statements
    /\ s.lease # "tx" => Outside(s.b.wire)

Sound(s) == Shape(s) /\ Held(s) /\ Layers(s)

\* Where a cursor is while a callback of another kind runs.
Parked == {"OPEN", "FILTERING", "EOF", "FAILED", "CLOSED"}

\* No operation runs: the connection is in nobody's way, or its holder's statement is on it.
Leased(s) ==
    /\ s.b.ps.await = "none"
    /\ s.b.pg.phase \in {"CREATED", "READY", "FAILED"}
    /\ s.lease = "tx" => s.tx # "none"
    /\ s.lease = "pool" => s.b.pg.phase = "READY" /\ s.b.pg.statements = 0
    /\ s.lease = "none" => s.b.pg.phase = "CREATED"
    /\ s.b.pg.statements = 1 =>
         /\ s.lease \in {"scan", "tx"}
         /\ s.b.pg.phase \in {"READY", "FAILED"} /\ s.b.ps.kind = "scan"

\* Between two callbacks.
Resting(s) ==
    /\ Leased(s)
    /\ s.cursor.state \in Parked \cup {"ROW_READY"}
    /\ s.b.pg.statements = 1 => s.cursor.state \in {"ROW_READY", "FAILED"}
    /\ s.cursor.state = "ROW_READY" =>
         /\ s.b.pg.statements = 1 /\ RowIsCurrent(s.stmt)
         /\ s.b.ps.phase = "ROW_READY" /\ s.b.ps.result = s.cursor.delivered
         /\ s.cursor.delivered # 0
    /\ s.cursor.state = "EOF" /\ s.cursor.on = "lease" =>
         s.b.pg.phase = "READY" /\ s.b.pg.statements = 0
    /\ s.cursor.state = "CLOSED" => s.cursor.on # "lease"

\* The statement was cancelled, and the server said so.
Confirmed(s) == s.b.ps.sqlstateSeen /\ s.b.ps.phase = "COMPLETE"

AtIdle(s) ==
    /\ s.call = NoCall
    /\ Resting(s)
    /\ s.cursor.state = "FAILED" /\ Confirmed(s) => s.code = "INTERRUPT"

\* Which callback drives which operation of a connection, and who holds it meanwhile.
Links(s, op) ==
    \/ s.call.for = "filter" /\ op = "CONNECT"
    \/ s.call.for = "begin" /\ op \in {"CONNECT", "BEGIN"}
    \/ s.call.for = "commit" /\ op = "COMMIT"
    \/ s.call.for = "rollback" /\ op = "ROLLBACK"
    \/ s.call.for = "describe" /\ op = "CONNECT"
    \/ s.call.for = "maintain" /\ op \in {"RESET", "PING"}

Holds(s, op) ==
    /\ op = "CONNECT" => s.lease = "none"
    /\ op \in {"BEGIN", "COMMIT", "ROLLBACK"} => s.lease = "tx"
    /\ op \in {"RESET", "PING"} => s.lease = "pool"
    /\ s.cursor.state \in Parked
    /\ s.call.for = "filter" => s.cursor.state = "FILTERING" /\ s.cursor.on = "none"

\* A callback drives the connection.
AtLink(s) ==
    /\ Links(s, s.call.stage) /\ Holds(s, s.call.stage)
    /\ s.call.at \in {"poll", "wait"}
    /\ s.conn.op = s.call.stage
    /\ s.b.ps.await = "none"
    /\ Connecting(s.b, s.call.stage)

\* Which callback drives which operation of a statement.
Runs(s, stage) ==
    \/ s.call.for = "filter" /\ stage \in {"EXECUTE", "FETCH"}
    \/ s.call.for = "next" /\ stage = "FETCH"
    \/ s.call.for = "close" /\ stage = "CANCEL"
    \/ s.call.for \in {"command", "returning"} /\ stage \in {"EXECUTE", "FETCH"}
    \/ s.call.for = "describe" /\ stage = "PREPARE"

\* Who a statement works for.
Serves(s) ==
    /\ s.call.for \in ScanCalls =>
         /\ s.lease \in {"scan", "tx"} /\ (s.lease = "tx" => s.tx # "none")
    /\ s.call.for \in {"command", "returning"} => s.lease = "tx" /\ s.tx # "none"
    /\ s.call.for = "describe" => s.lease = "none"
    /\ s.call.for \notin ScanCalls => s.cursor.state \in Parked

\* Where the cursor is when it does not wait.
Stands(c) == IF c.state = "WAITING" THEN c.from ELSE c.state

\* A callback drives a statement.  A 57014 can only reach a scan whose rows were being read
\* when it was cancelled.
AtWork(s) ==
    /\ Runs(s, s.call.stage) /\ Serves(s)
    /\ s.call.at \in {"poll", "wait", "block"}
    /\ s.call.at = "block" <=> s.b.ps.await # "none"
    /\ s.stmt.op = s.call.stage \/ (s.stmt.op = "CANCEL" /\ s.call.for \in ScanCalls)
    /\ s.stmt.state = StatementRunningState[s.stmt.op]
    /\ Driven(s.b, s.stmt.op)
    /\ s.call.for \in ScanCalls =>
         /\ s.b.ps.kind = "scan"
         /\ s.cursor.state = "WAITING" <=> s.call.at = "wait"
         /\ Stands(s.cursor) = IF s.stmt.op = "CANCEL" THEN "CANCELLING" ELSE "FILTERING"
    /\ s.stmt.op # "CANCEL" \/ s.call.stage = "EXECUTE" => Harmless(s.b)

Good(s) == Sound(s) /\ (AtIdle(s) \/ AtLink(s) \/ AtWork(s))

\* The inductive invariant.
ScanInv == Good(Now)

-----------------------------------------------------------------------------
(* The connection and the statement are given back *)

\* A callback returns.
LEMMA ReturnsGood ==
    ASSUME NEW s, Sound(s), Resting(s), NEW rc,
           s.cursor.state = "FAILED" /\ Confirmed(s) => rc = "INTERRUPT"
    PROVE  Good(Returns(s, rc))
<1> DEFINE r == Returns(s, rc)
<1>1. /\ DOMAIN r = DOMAIN s /\ r.conn = s.conn /\ r.stmt = s.stmt /\ r.b = s.b
      /\ r.cursor = s.cursor /\ r.call = NoCall /\ r.lease = s.lease /\ r.tx = s.tx
      /\ r.code = rc
  BY DEF Returns, Sound, Shape
<1> HIDE DEF r
<1>2. Shape(r)
  BY <1>1 DEF Sound, Shape, NoCall
<1>3. Sound(r)
  BY <1>1, <1>2 DEF Sound, Held, Layers
<1>4. Leased(r)
  BY <1>1 DEF Resting, Leased
<1>5. Resting(r)
  BY <1>1, <1>4 DEF Resting
<1>6. AtIdle(r)
  BY <1>1, <1>5 DEF AtIdle, Confirmed
<1> QED BY <1>3, <1>6 DEF Good, r

\* What is left of a connection that was closed.
LEMMA NoBackendGood ==
    /\ GoodBackend(NoBackend) /\ Outside(NoBackend.wire)
    /\ NoBackend.pg.phase = "CREATED" /\ NoBackend.pg.statements = 0
    /\ NoBackend.ps.await = "none" /\ NoBackend.ps.phase = "NONE"
<1> DEFINE b == NoBackend
<1>1. /\ DOMAIN b = {"pg", "ps", "wire", "dl"} /\ b.pg = CreatedConnection
      /\ b.ps = NoStatement /\ b.wire = FreshWire
  BY DEF NoBackend
<1> HIDE DEF b
<1>2. /\ b.pg.phase = "CREATED" /\ b.pg.statements = 0
      /\ DOMAIN b.pg = {"phase", "health", "op", "index", "seen", "discarded", "statements"}
  BY <1>1 DEF CreatedConnection
<1>3. /\ b.ps.phase = "NONE" /\ b.ps.await = "none" /\ ~b.ps.sqlstateSeen
      /\ DOMAIN b.ps = {"phase", "kind", "result", "described", "sqlstateSeen", "terminalSeen",
                        "await"}
      /\ b.ps.kind \in StatementKinds
  BY <1>1 DEF NoStatement, StatementKinds
<1>4. /\ GoodWire(b.wire) /\ b.wire.sig = "none" /\ AtRest(b.wire) /\ Outside(b.wire)
  BY <1>1, FreshWireGood DEF AtRest, Outside, Quiet
<1>5. AdapterInv(b)
  BY <1>2, <1>3, <1>4 DEF AdapterInv, Resulting, Flushing
<1>6. GoodBackend(b)
  BY <1>1, <1>2, <1>3, <1>4, <1>5 DEF GoodBackend, IsBackend
<1> QED BY <1>2, <1>3, <1>4, <1>6 DEF b

\* vps_client_statement_close leaves the connection usable if the statement was settled.
LEMMA StatementClosedGood ==
    ASSUME NEW s, Shape(s), Layers(s), s.b.ps.await = "none",
           s.b.pg.statements = 0 \/ s.b.pg.phase \in {"READY", "FAILED"}
    PROVE  LET c == StatementClosed(s)
           IN  /\ Shape(c) /\ Layers(c) /\ c.b.pg.statements = 0 /\ c.b.ps.await = "none"
               /\ c.cursor = s.cursor /\ c.call = s.call /\ c.lease = s.lease /\ c.tx = s.tx
               /\ c.conn.state = s.conn.state
               /\ s.b.pg.statements = 0 => c.b = s.b
               /\ s.b.pg.statements # 0 => c.b.pg.phase \in {"READY", "FAILED"}
               /\ s.b.pg.phase = "READY" /\ s.b.ps.phase \in Settled => c.b.pg.phase = "READY"
               /\ Outside(s.b.wire) => Outside(c.b.wire)
<1> DEFINE c == StatementClosed(s)
           d == IF s.stmt.state = "ROW_READY" THEN StatementRowRelease(s.b) ELSE s.b
           e == StatementDestroy(d)
<1>0. GoodBackend(s.b) /\ s.conn.statements = s.b.pg.statements
  BY DEF Layers
<1>1. CASE s.b.pg.statements = 0
  <2>1. c = s
    BY <1>0, <1>1 DEF StatementClosed
  <2> QED BY <1>1, <2>1
<1>2. CASE s.b.pg.statements # 0
  <2>1. /\ GoodBackend(d) /\ d.pg = s.b.pg /\ d.wire = s.b.wire /\ d.ps.await = "none"
        /\ s.b.ps.phase \in Settled => d.ps.phase = s.b.ps.phase
    BY <1>0, ReleaseKeeps DEF Settled
  <2>2. /\ DOMAIN c = DOMAIN s /\ c.b = e /\ c.stmt = NewStatement
        /\ c.conn = [s.conn EXCEPT !.statements = 0] /\ c.cursor = s.cursor
        /\ c.call = s.call /\ c.lease = s.lease /\ c.tx = s.tx
    BY <1>0, <1>2 DEF StatementClosed, Shape
  <2> HIDE DEF d
  <2>3. /\ GoodBackend(e) /\ e.pg.statements = 0 /\ e.ps = NoStatement
        /\ e.pg.phase = IF d.ps.phase \in Settled THEN d.pg.phase ELSE "FAILED"
        /\ Outside(d.wire) => Outside(e.wire)
    BY <1>2, <2>1, DestroyKeeps
  <2> HIDE DEF c, e
  <2>4. c.conn.statements = 0 /\ c.conn.state = s.conn.state
    BY <2>2 DEF Shape
  <2>5. Shape(c)
    BY <2>2 DEF Shape, NewStatement
  <2>6. e.ps.await = "none"
    BY <2>3 DEF NoStatement
  <2>7. e.pg.phase \in {"READY", "FAILED"}
    BY <1>2, <2>1, <2>3
  <2>8. Outside(s.b.wire) => Outside(c.b.wire)
    BY <2>1, <2>2, <2>3
  <2>9. Layers(c)
    BY <2>2, <2>3, <2>4, <2>8 DEF Layers
  <2>10. s.b.pg.phase = "READY" /\ s.b.ps.phase \in Settled => c.b.pg.phase = "READY"
    BY <2>1, <2>2, <2>3
  <2> QED BY <1>2, <2>2, <2>3, <2>4, <2>5, <2>6, <2>7, <2>8, <2>9, <2>10 DEF c
<1> QED BY <1>1, <1>2

\* vps_client_connection_close, of the connection of a closed statement.
LEMMA ConnectionClosedGood ==
    ASSUME NEW s, Shape(s)
    PROVE  LET c == ConnectionClosed(s)
           IN  /\ Shape(c) /\ Layers(c) /\ c.lease = "none"
               /\ c.b.pg.statements = 0 /\ c.b.ps.await = "none" /\ c.b.pg.phase = "CREATED"
               /\ c.b.ps.phase = "NONE"
               /\ c.cursor = s.cursor /\ c.call = s.call /\ c.tx = s.tx
<1> DEFINE c == ConnectionClosed(s)
<1>1. /\ DOMAIN c = DOMAIN s /\ c.conn = NewConnection /\ c.b = NoBackend /\ c.lease = "none"
      /\ c.stmt = s.stmt /\ c.cursor = s.cursor /\ c.call = s.call /\ c.tx = s.tx
  BY DEF ConnectionClosed, Shape
<1> HIDE DEF c
<1>2. c.conn.statements = 0 /\ DOMAIN c.conn = {"state", "op", "statements"}
  BY <1>1 DEF NewConnection
<1>3. Shape(c)
  BY <1>1, <1>2 DEF Shape
<1>4. Layers(c)
  BY <1>1, <1>2, NoBackendGood DEF Layers
<1> QED BY <1>1, <1>3, <1>4, NoBackendGood DEF c

\* vps_connection_lease_release: only a usable connection goes back to the pool.
LEMMA LeaseReleasedGood ==
    ASSUME NEW s, Shape(s), Layers(s), s.b.pg.statements = 0, s.b.ps.await = "none",
           NEW clean, clean => s.b.pg.phase = "READY" /\ Outside(s.b.wire)
    PROVE  LET c == LeaseReleased(s, clean)
           IN  /\ Shape(c) /\ Layers(c) /\ c.lease \in {"pool", "none"}
               /\ c.b.pg.statements = 0 /\ c.b.ps.await = "none"
               /\ c.lease = "pool" => c.b.pg.phase = "READY"
               /\ c.lease = "none" => c.b.pg.phase = "CREATED"
               /\ c.cursor = s.cursor /\ c.call = s.call /\ c.tx = s.tx
<1> DEFINE c == LeaseReleased(s, clean)
<1>1. CASE clean /\ s.conn.state = "READY"
  <2>1. /\ DOMAIN c = DOMAIN s /\ c.conn = s.conn /\ c.b = s.b /\ c.lease = "pool"
        /\ c.stmt = s.stmt /\ c.cursor = s.cursor /\ c.call = s.call /\ c.tx = s.tx
    BY <1>1 DEF LeaseReleased, Shape
  <2> HIDE DEF c
  <2>2. Shape(c)
    BY <2>1 DEF Shape
  <2>3. Layers(c)
    BY <1>1, <2>1 DEF Layers
  <2> QED BY <1>1, <2>1, <2>2, <2>3 DEF c
<1>2. CASE ~(clean /\ s.conn.state = "READY")
  <2>1. c = ConnectionClosed(s)
    BY <1>2 DEF LeaseReleased
  <2> QED BY <2>1, ConnectionClosedGood
<1> QED BY <1>1, <1>2

\* A connection that no scan holds.
Free(s) ==
    /\ s.b.pg.statements = 0 /\ s.b.ps.await = "none"
    /\ s.b.pg.phase \in {"CREATED", "READY", "FAILED"}
    /\ s.cursor.on = "none"
    /\ s.lease \in {"none", "pool", "tx"}
    /\ s.lease = "tx" => s.tx # "none"
    /\ s.lease = "pool" => s.b.pg.phase = "READY"
    /\ s.lease = "none" => s.b.pg.phase = "CREATED"

\* vps_cursor_release: a scan's connection goes back to the pool only after its last row.
LEMMA CursorReleasedGood ==
    ASSUME NEW s, Sound(s), Leased(s), NEW clean,
           s.cursor.state = "EOF" /\ s.cursor.on = "lease" /\ clean =>
               s.b.pg.phase = "READY" /\ (s.b.pg.statements = 0 \/ s.b.ps.phase \in Settled)
    PROVE  LET c == CursorReleased(s, clean)
           IN  /\ Sound(c) /\ Free(c)
               /\ c.cursor = [s.cursor EXCEPT !.on = "none"]
               /\ c.call = s.call /\ c.tx = s.tx
<1> DEFINE c == CursorReleased(s, clean)
           d == StatementClosed(s)
           drained == s.cursor.state = "EOF"
           e == IF s.cursor.on = "lease" THEN LeaseReleased(d, clean /\ drained) ELSE d
<1>1. Shape(s) /\ Held(s) /\ Layers(s)
  BY DEF Sound
<1>2. s.b.pg.statements \in {0, 1}
  BY <1>1 DEF Layers
<1>3. /\ Shape(d) /\ Layers(d) /\ d.b.pg.statements = 0 /\ d.b.ps.await = "none"
      /\ d.cursor = s.cursor /\ d.call = s.call /\ d.lease = s.lease /\ d.tx = s.tx
      /\ s.b.pg.statements = 0 => d.b = s.b
      /\ s.b.pg.statements # 0 => d.b.pg.phase \in {"READY", "FAILED"}
      /\ s.b.pg.phase = "READY" /\ s.b.ps.phase \in Settled => d.b.pg.phase = "READY"
  BY <1>1, <1>2, StatementClosedGood DEF Leased
<1>4. c = [e EXCEPT !.cursor.on = "none"]
  BY DEF CursorReleased
<1> HIDE DEF d, c
<1>5. /\ Shape(e) /\ Layers(e) /\ e.b.pg.statements = 0 /\ e.b.ps.await = "none"
      /\ e.cursor = s.cursor /\ e.call = s.call /\ e.tx = s.tx
      /\ e.lease \in {"none", "pool", "tx"}
      /\ e.lease = "tx" => e.tx # "none"
      /\ e.tx # "none" => e.lease = "tx"
      /\ e.lease = "pool" => e.b.pg.phase = "READY"
      /\ e.lease = "none" => e.b.pg.phase = "CREATED"
      /\ e.b.pg.phase \in {"CREATED", "READY", "FAILED"}
  <2>1. CASE s.cursor.on = "lease"
    <3>1. s.lease = "scan" /\ s.tx = "none"
      BY <1>1, <2>1 DEF Held
    <3>2. d.lease # "tx" /\ Outside(d.b.wire)
      BY <1>3, <3>1 DEF Layers
    <3> DEFINE over == clean /\ drained
    <3>3. over => d.b.pg.phase = "READY" /\ Outside(d.b.wire)
      <4>1. over => s.b.pg.phase = "READY" /\ (s.b.pg.statements = 0 \/ s.b.ps.phase \in Settled)
        BY <2>1
      <4> HIDE DEF over
      <4> QED BY <1>3, <3>2, <4>1
    <3>4. e = LeaseReleased(d, over)
      BY <2>1
    <3> HIDE DEF e, over
    <3>5. /\ Shape(e) /\ Layers(e) /\ e.lease \in {"pool", "none"}
          /\ e.b.pg.statements = 0 /\ e.b.ps.await = "none"
          /\ e.lease = "pool" => e.b.pg.phase = "READY"
          /\ e.lease = "none" => e.b.pg.phase = "CREATED"
          /\ e.cursor = d.cursor /\ e.call = d.call /\ e.tx = d.tx
      BY <1>3, <3>3, <3>4, LeaseReleasedGood
    <3> QED BY <1>3, <3>1, <3>5
  <2>2. CASE s.cursor.on # "lease"
    <3>1. e = d
      BY <2>2
    <3> HIDE DEF e
    <3>2. s.lease \in {"none", "pool", "tx"}
      BY <1>1, <2>2 DEF Held
    <3>3. s.b.pg.statements = 1 => s.lease = "tx"
      BY <3>2 DEF Leased
    <3>4. /\ s.lease = "tx" => s.tx # "none"
          /\ s.tx # "none" => s.lease = "tx"
          /\ s.lease = "pool" => s.b.pg.phase = "READY"
          /\ s.lease = "none" => s.b.pg.phase = "CREATED"
          /\ s.b.pg.phase \in {"CREATED", "READY", "FAILED"}
      BY <1>1 DEF Leased, Held
    <3> QED BY <1>2, <1>3, <3>1, <3>2, <3>3, <3>4
  <2> QED BY <2>1, <2>2
<1> HIDE DEF e
<1>6. /\ DOMAIN c = DOMAIN e /\ c.conn = e.conn /\ c.stmt = e.stmt /\ c.b = e.b
      /\ c.cursor = [s.cursor EXCEPT !.on = "none"] /\ c.call = e.call
      /\ c.lease = e.lease /\ c.tx = e.tx
  BY <1>4, <1>5 DEF Shape
<1>7. c.cursor.on = "none" /\ DOMAIN c.cursor = DOMAIN s.cursor
  BY <1>1, <1>6 DEF Shape
<1>8. Shape(c)
  BY <1>1, <1>5, <1>6, <1>7 DEF Shape
<1>9. Held(c)
  BY <1>1, <1>5, <1>6, <1>7 DEF Held
<1>10. Layers(c)
  BY <1>5, <1>6 DEF Layers
<1>11. Free(c)
  BY <1>5, <1>6, <1>7 DEF Free
<1> QED BY <1>5, <1>6, <1>8, <1>9, <1>10, <1>11 DEF Sound, c

\* vps_module_close.
LEMMA CursorClosedGood ==
    ASSUME NEW s, Sound(s), Leased(s), NEW clean,
           s.cursor.state = "EOF" /\ s.cursor.on = "lease" /\ clean =>
               s.b.pg.phase = "READY" /\ (s.b.pg.statements = 0 \/ s.b.ps.phase \in Settled)
    PROVE  Good(CursorClosed(s, clean))
<1> DEFINE d == CursorReleased(s, clean)
           c == [d EXCEPT !.cursor = ClosedCursor, !.token = TokenUnregister(@)]
<1>1. Sound(d) /\ Free(d)
  BY CursorReleasedGood
<1> HIDE DEF d
<1>2. /\ DOMAIN c = DOMAIN d /\ c.conn = d.conn /\ c.stmt = d.stmt /\ c.b = d.b
      /\ c.cursor = ClosedCursor /\ c.call = d.call /\ c.lease = d.lease /\ c.tx = d.tx
  BY <1>1 DEF Sound, Shape
<1> HIDE DEF c
<1>3. c.cursor.state = "CLOSED" /\ c.cursor.on = "none"
  BY <1>2 DEF ClosedCursor
<1>4. Shape(c)
  BY <1>1, <1>2 DEF Sound, Shape, ClosedCursor
<1>5. Sound(c)
  BY <1>1, <1>2, <1>3, <1>4 DEF Sound, Held, Layers, Free
<1>6. Leased(c)
  BY <1>1, <1>2 DEF Leased, Free
<1>7. Resting(c)
  BY <1>1, <1>2, <1>3, <1>6 DEF Resting, Parked, Free
<1>8. \A rc : Good(Returns(c, rc))
  BY <1>3, <1>5, <1>7, ReturnsGood
<1> QED BY <1>8 DEF CursorClosed, c, d

\* The cursor machine fails.
LEMMA ScanFailedGood ==
    ASSUME NEW s, Sound(s), Leased(s), s.cursor.state # "CLOSED",
           s.cursor.state \in CursorStates,
           s.cursor.on = "tx" => s.lease = "tx",
           NEW rc, Confirmed(s) => rc = "INTERRUPT"
    PROVE  Good(ScanFailed(s, rc))
<1> DEFINE c == [s EXCEPT !.cursor = Machine(@, "FAIL"),
                          !.tx = IF s.cursor.on = "tx" THEN "failed" ELSE @]
<1>1. Shape(s) /\ Held(s) /\ Layers(s)
  BY DEF Sound
<1>2. Machine(s.cursor, "FAIL") = [s.cursor EXCEPT !.state = "FAILED"]
  BY DEF Machine, Accepts
<1>3. /\ DOMAIN c = DOMAIN s /\ c.conn = s.conn /\ c.stmt = s.stmt /\ c.b = s.b
      /\ c.cursor = [s.cursor EXCEPT !.state = "FAILED"] /\ c.call = s.call
      /\ c.lease = s.lease
      /\ c.tx = IF s.cursor.on = "tx" THEN "failed" ELSE s.tx
  BY <1>1, <1>2 DEF Shape
<1> HIDE DEF c
<1>4. /\ DOMAIN c.cursor = DOMAIN s.cursor /\ c.cursor.state = "FAILED"
      /\ c.cursor.on = s.cursor.on
  BY <1>1, <1>3 DEF Shape
<1>5. Sound(c)
  BY <1>1, <1>3, <1>4 DEF Sound, Shape, Held, Layers
<1>6. Leased(c)
  BY <1>3, <1>4 DEF Leased
<1>7. Resting(c)
  BY <1>3, <1>4, <1>6 DEF Resting, Parked
<1>8. Confirmed(c) => rc = "INTERRUPT"
  BY <1>3 DEF Confirmed
<1>9. Good(Returns(c, rc))
  BY <1>5, <1>7, <1>8, ReturnsGood
<1> QED BY <1>9 DEF ScanFailed, c

-----------------------------------------------------------------------------
(* An operation fails *)

\* The same state, but for what the callback remembers of its error and of its waits.
Alike(s, c) ==
    /\ DOMAIN c = DOMAIN s /\ c.conn = s.conn /\ c.stmt = s.stmt /\ c.b = s.b
    /\ c.cursor = s.cursor /\ c.lease = s.lease /\ c.tx = s.tx
    /\ DOMAIN c.call = DOMAIN s.call /\ c.call.for = s.call.for
    /\ c.call.stage = s.call.stage /\ c.call.at = s.call.at

\* An error is recorded.
LEMMA WithErrorAlike ==
    ASSUME NEW s, Shape(s), NEW err
    PROVE  Alike(s, WithError(s, err))
<1>1. CASE err = "NONE"
  BY <1>1 DEF WithError, Alike
<1>2. CASE err # "NONE"
  <2> DEFINE c == WithError(s, err)
  <2>1. /\ DOMAIN c = DOMAIN s /\ c.conn = s.conn /\ c.stmt = s.stmt /\ c.b = s.b
        /\ c.cursor = s.cursor /\ c.lease = s.lease /\ c.tx = s.tx
        /\ c.call = [s.call EXCEPT !.err = err]
    BY <1>2 DEF WithError, Shape
  <2> HIDE DEF c
  <2>2. /\ DOMAIN c.call = DOMAIN s.call /\ c.call.for = s.call.for
        /\ c.call.stage = s.call.stage /\ c.call.at = s.call.at
    BY <2>1 DEF Shape
  <2> QED BY <2>1, <2>2 DEF Alike, c
<1> QED BY <1>1, <1>2

\* What the invariant says of a state it says of the ones alike.
LEMMA AlikeKeeps ==
    ASSUME NEW s, NEW c, Alike(s, c)
    PROVE  /\ Shape(s) => Shape(c)
           /\ Sound(s) => Sound(c)
           /\ Leased(s) => Leased(c)
           /\ Confirmed(c) <=> Confirmed(s)
<1>1. Shape(s) => Shape(c)
  BY DEF Alike, Shape
<1>2. Held(s) => Held(c)
  BY DEF Alike, Held
<1>3. Layers(s) => Layers(c)
  BY DEF Alike, Layers
<1>4. Leased(s) => Leased(c)
  BY DEF Alike, Leased
<1>5. Confirmed(c) <=> Confirmed(s)
  BY DEF Alike, Confirmed
<1> QED BY <1>1, <1>2, <1>3, <1>4, <1>5 DEF Sound

\* A scan fails with its statement, or without one.
LEMMA FailScan ==
    ASSUME NEW s, Sound(s), Leased(s), s.call.for \in ScanCalls, s.call.stage # "CONNECT",
           s.cursor.state \in CursorStates \ {"CLOSED"},
           s.cursor.on = "tx" => s.lease = "tx", ~Confirmed(s)
    PROVE  Good(Failing(s))
<1>1. CASE s.call.for \in {"filter", "next"}
  <2>1. Failing(s) = ScanFailed(s, SqliteCode(s.call.err, s.call.stage))
    BY <1>1 DEF Failing
  <2> DEFINE rc == SqliteCode(s.call.err, s.call.stage)
  <2> HIDE DEF rc
  <2>2. Good(ScanFailed(s, rc))
    BY ScanFailedGood
  <2> QED BY <2>1, <2>2 DEF rc
<1>2. CASE s.call.for = "close"
  <2>1. Failing(s) = CursorClosed(s, FALSE)
    BY <1>2 DEF Failing
  <2>2. Good(CursorClosed(s, FALSE))
    BY CursorClosedGood
  <2> QED BY <2>1, <2>2
<1> QED BY <1>1, <1>2 DEF ScanCalls

\* xFilter did not get a connection.
LEMMA FailConnect ==
    ASSUME NEW s, Shape(s), s.tx = "none", s.call.for = "filter", s.call.stage = "CONNECT",
           s.cursor.state = "FILTERING"
    PROVE  Good(Failing(s))
<1> DEFINE d == ConnectionClosed(s)
           c == [d EXCEPT !.cursor.on = "none"]
<1>1. /\ Shape(d) /\ Layers(d) /\ d.lease = "none"
      /\ d.b.pg.statements = 0 /\ d.b.ps.await = "none" /\ d.b.pg.phase = "CREATED"
      /\ d.b.ps.phase = "NONE" /\ d.cursor = s.cursor /\ d.call = s.call /\ d.tx = s.tx
  BY ConnectionClosedGood
<1>2. Failing(s) = ScanFailed(c, "ERROR")
  BY DEF Failing
<1> HIDE DEF d
<1>3. /\ DOMAIN c = DOMAIN d /\ c.conn = d.conn /\ c.stmt = d.stmt /\ c.b = d.b
      /\ c.cursor = [s.cursor EXCEPT !.on = "none"] /\ c.call = d.call
      /\ c.lease = "none" /\ c.tx = "none"
  BY <1>1 DEF Shape
<1> HIDE DEF c
<1>4. /\ c.cursor.on = "none" /\ c.cursor.state = "FILTERING"
      /\ DOMAIN c.cursor = DOMAIN d.cursor
  BY <1>1, <1>3 DEF Shape
<1>5. Sound(c)
  BY <1>1, <1>3, <1>4 DEF Sound, Shape, Held, Layers
<1>6. Leased(c)
  BY <1>1, <1>3 DEF Leased
<1>7. ~Confirmed(c)
  BY <1>1, <1>3 DEF Confirmed
<1>8. c.cursor.state \in CursorStates /\ c.cursor.state # "CLOSED"
  BY <1>4 DEF CursorStates
<1>9. Good(ScanFailed(c, "ERROR"))
  BY <1>4, <1>5, <1>6, <1>7, <1>8, ScanFailedGood
<1> QED BY <1>2, <1>9

\* A command inside the transaction fails, and the transaction with it.
LEMMA FailCommand ==
    ASSUME NEW s, Sound(s), s.b.ps.await = "none", s.b.pg.phase \in {"CREATED", "READY", "FAILED"},
           s.b.pg.statements = 0 \/ s.b.pg.phase \in {"READY", "FAILED"},
           s.call.for \in {"command", "returning"}, s.lease = "tx", s.cursor.state \in Parked
    PROVE  Good(Failing(s))
<1> DEFINE d == StatementClosed(s)
           c == [d EXCEPT !.tx = "failed"]
           rc == SqliteCode(s.call.err, s.call.stage)
<1>1. Shape(s) /\ Held(s) /\ Layers(s)
  BY DEF Sound
<1>2. /\ Shape(d) /\ Layers(d) /\ d.b.pg.statements = 0 /\ d.b.ps.await = "none"
      /\ d.cursor = s.cursor /\ d.lease = s.lease
      /\ s.b.pg.statements = 0 => d.b = s.b
      /\ s.b.pg.statements # 0 => d.b.pg.phase \in {"READY", "FAILED"}
  BY <1>1, StatementClosedGood
<1>3. Failing(s) = Returns(c, rc)
  BY DEF Failing
<1> HIDE DEF d, rc
<1>4. /\ DOMAIN c = DOMAIN d /\ c.conn = d.conn /\ c.stmt = d.stmt /\ c.b = d.b
      /\ c.cursor = d.cursor /\ c.call = d.call /\ c.lease = d.lease /\ c.tx = "failed"
  BY <1>2 DEF Shape
<1> HIDE DEF c
<1>5. Sound(c)
  BY <1>1, <1>2, <1>4 DEF Sound, Shape, Held, Layers
<1>6. Leased(c)
  BY <1>2, <1>4 DEF Leased
<1>7. s.cursor.on # "lease"
  BY <1>1 DEF Held
<1>8. Resting(c)
  BY <1>2, <1>4, <1>6, <1>7 DEF Resting, Parked
<1>9. ~Confirmed(c)
  BY <1>2, <1>4 DEF Layers, GoodBackend, AdapterInv, Confirmed
<1>10. Good(Returns(c, rc))
  BY <1>5, <1>8, <1>9, ReturnsGood
<1> QED BY <1>3, <1>10

\* BEGIN, COMMIT, ROLLBACK, a description or maintenance fails: the connection is closed,
\* whatever its state.
LEMMA FailLink ==
    ASSUME NEW s, Shape(s),
           s.call.for \in {"begin", "commit", "rollback", "describe", "maintain"},
           s.cursor.on # "lease", s.cursor.state \in Parked
    PROVE  Good(Failing(s))
<1> DEFINE e == StatementClosed(s)
           d == ConnectionClosed(e)
           c == [d EXCEPT !.tx = "none"]
           rc == SqliteCode(s.call.err, s.call.stage)
<1>1. Shape(e) /\ e.cursor = s.cursor
  <2>1. CASE s.conn.statements = 0
    BY <2>1 DEF StatementClosed
  <2>2. CASE s.conn.statements # 0
    <3>1. /\ DOMAIN e = DOMAIN s /\ e.stmt = NewStatement
          /\ e.conn = [s.conn EXCEPT !.statements = 0] /\ e.cursor = s.cursor
          /\ e.call = s.call
      BY <2>2 DEF StatementClosed, Shape
    <3> HIDE DEF e
    <3> QED BY <3>1 DEF Shape, NewStatement
  <2> QED BY <2>1, <2>2
<1>2. Failing(s) = Returns(c, rc)
  BY DEF Failing
<1> HIDE DEF e
<1>3. /\ Shape(d) /\ Layers(d) /\ d.lease = "none"
      /\ d.b.pg.statements = 0 /\ d.b.ps.await = "none" /\ d.b.pg.phase = "CREATED"
      /\ d.b.ps.phase = "NONE" /\ d.cursor = s.cursor
  BY <1>1, ConnectionClosedGood
<1> HIDE DEF d, rc
<1>4. /\ DOMAIN c = DOMAIN d /\ c.conn = d.conn /\ c.stmt = d.stmt /\ c.b = d.b
      /\ c.cursor = d.cursor /\ c.call = d.call /\ c.lease = d.lease /\ c.tx = "none"
  BY <1>3 DEF Shape
<1> HIDE DEF c
<1>5. Sound(c)
  BY <1>3, <1>4 DEF Sound, Shape, Held, Layers
<1>6. Leased(c)
  BY <1>3, <1>4 DEF Leased
<1>7. Resting(c)
  BY <1>3, <1>4, <1>6 DEF Resting, Parked
<1>8. ~Confirmed(c)
  BY <1>3, <1>4 DEF Confirmed
<1>9. Good(Returns(c, rc))
  BY <1>5, <1>7, <1>8, ReturnsGood
<1> QED BY <1>2, <1>9

\* The state in which an operation of a statement may fail.
Failable(s) ==
    /\ Sound(s) /\ Serves(s) /\ s.b.ps.await = "none"
    /\ s.b.pg.phase \in {"CREATED", "READY", "FAILED"}
    /\ s.b.pg.statements = 0 \/ s.b.pg.phase \in {"READY", "FAILED"}
    /\ s.call.for \in ScanCalls \cup {"command", "returning", "describe"}
    /\ s.call.for \in ScanCalls =>
         /\ s.b.pg.statements = 0 \/ s.b.ps.kind = "scan"
         /\ s.call.stage # "CONNECT"
         /\ s.cursor.state \in CursorStates \ {"CLOSED"}
         /\ ~Confirmed(s)

\* Any operation of a statement fails.
LEMMA FailStatement ==
    ASSUME NEW s, Failable(s), NEW c, Alike(s, c)
    PROVE  Good(Failing(c))
<1>1. /\ Sound(c) /\ Sound(s) /\ (Confirmed(c) <=> Confirmed(s))
      /\ c.b = s.b /\ c.cursor = s.cursor /\ c.lease = s.lease /\ c.tx = s.tx
      /\ c.call.for = s.call.for /\ c.call.stage = s.call.stage
  BY AlikeKeeps DEF Failable, Alike
<1>2. Shape(c) /\ Held(s)
  BY <1>1 DEF Sound
<1>3. CASE s.call.for \in ScanCalls
  <2>1. /\ s.lease \in {"scan", "tx"} /\ (s.lease = "tx" => s.tx # "none")
    BY <1>3 DEF Failable, Serves
  <2>2. s.cursor.on = "tx" => s.lease = "tx"
    BY <1>2, <2>1 DEF Held
  <2>3. /\ s.b.pg.statements = 0 \/ s.b.ps.kind = "scan"
        /\ s.call.stage # "CONNECT"
        /\ s.cursor.state \in CursorStates \ {"CLOSED"}
        /\ ~Confirmed(s)
    BY <1>3 DEF Failable
  <2>4. Leased(c)
    BY <1>1, <2>1, <2>3 DEF Leased, Failable
  <2> QED BY <1>1, <1>3, <2>2, <2>3, <2>4, FailScan
<1>4. CASE s.call.for \in {"command", "returning"}
  <2>1. s.lease = "tx" /\ s.cursor.state \in Parked
    BY <1>4 DEF Failable, Serves, ScanCalls
  <2>2. /\ s.b.ps.await = "none" /\ s.b.pg.phase \in {"CREATED", "READY", "FAILED"}
        /\ s.b.pg.statements = 0 \/ s.b.pg.phase \in {"READY", "FAILED"}
    BY DEF Failable
  <2> QED BY <1>1, <1>4, <2>1, <2>2, FailCommand
<1>5. CASE s.call.for = "describe"
  <2>1. s.lease = "none" /\ s.cursor.state \in Parked
    BY <1>5 DEF Failable, Serves, ScanCalls
  <2>2. s.cursor.on # "lease"
    BY <1>2, <2>1 DEF Held
  <2> QED BY <1>1, <1>2, <1>5, <2>1, <2>2, FailLink
<1> QED BY <1>3, <1>4, <1>5 DEF Failable

-----------------------------------------------------------------------------
(* An operation starts *)

\* The state in which a callback starts an operation of its statement.
Startable(s, op, stage) ==
    /\ Failable(s) /\ s.b.pg.statements = 1
    /\ Runs(s, stage) /\ op \in Operations
    /\ op = stage \/ (op = "CANCEL" /\ s.call.for \in ScanCalls)
    /\ StatementStartAllowed(s.stmt, op) =>
         /\ s.call.for \in ScanCalls =>
              s.cursor.state = IF op = "CANCEL" THEN "CANCELLING" ELSE "FILTERING"
         /\ op # "CANCEL" \/ stage = "EXECUTE" =>
              ~s.b.ps.sqlstateSeen /\ (op # "CANCEL" \/ s.b.ps.phase = "EXECUTE_FLUSH")

\* vps_client_statement_start.
LEMMA StartStatementGood ==
    ASSUME NEW s, NEW op, NEW stage, Startable(s, op, stage),
           NEW r \in StartStatement(s, op, stage)
    PROVE  Good(r)
<1>1. /\ Failable(s) /\ Sound(s) /\ Shape(s) /\ Held(s) /\ Layers(s) /\ Serves(s)
      /\ s.b.pg.statements = 1 /\ op \in Operations /\ s.b.ps.await = "none"
      /\ s.b.pg.phase \in {"READY", "FAILED"}
  BY DEF Startable, Failable, Sound
<1>2. CASE ~StatementStartAllowed(s.stmt, op)
  <2> DEFINE c == WithError(s, ErrorClass("INVALID_STATE"))
  <2>1. r = Failing(c)
    BY <1>2 DEF StartStatement
  <2>2. Alike(s, c)
    BY <1>1, WithErrorAlike
  <2> HIDE DEF c
  <2> QED BY <1>1, <2>1, <2>2, FailStatement
<1>3. CASE StatementStartAllowed(s.stmt, op)
  <2>1. PICK a \in StatementStart(s.b, op) :
            LET t == WithError([s EXCEPT !.b = a.b, !.stmt = StatementStarted(s.stmt, op, a.rc)],
                               a.err)
            IN  r = IF a.rc = "OK" THEN Driving(t, stage) ELSE Failing(t)
    BY <1>3 DEF StartStatement
  <2> DEFINE u == [s EXCEPT !.b = a.b, !.stmt = StatementStarted(s.stmt, op, a.rc)]
             t == WithError(u, a.err)
  <2>2. r = IF a.rc = "OK" THEN Driving(t, stage) ELSE Failing(t)
    BY <2>1
  <2>3. /\ DOMAIN u = DOMAIN s /\ u.conn = s.conn /\ u.b = a.b
        /\ u.stmt = StatementStarted(s.stmt, op, a.rc)
        /\ u.cursor = s.cursor /\ u.call = s.call /\ u.lease = s.lease /\ u.tx = s.tx
    BY <1>1 DEF Shape
  <2> HIDE DEF u
  <2>4. DOMAIN u.stmt = DOMAIN s.stmt
    BY <2>3 DEF StatementStarted, StatementFailed
  <2>5. Begun(s.b, a, op)
    BY <1>1, StartKeeps DEF Layers
  <2>6. Shape(u)
    BY <1>1, <2>3, <2>4 DEF Shape
  <2>7. Sound(u)
    BY <1>1, <2>3, <2>5, <2>6 DEF Sound, Held, Layers, Begun
  <2>8. Alike(u, t)
    BY <2>6, WithErrorAlike
  <2> HIDE DEF t
  <2>9. Serves(u)
    BY <1>1, <2>3 DEF Serves
  <2>10. CASE a.rc # "OK"
    <3>1. /\ a.b = s.b \/ (a.b.ps.phase = "FAILED" /\ a.b.pg.phase = "FAILED")
          /\ a.b.ps.kind = s.b.ps.kind /\ a.b.ps.await = "none" /\ a.b.pg.statements = 1
      BY <2>5, <2>10 DEF Begun
    <3>2. Confirmed(u) => Confirmed(s)
      BY <2>3, <3>1 DEF Confirmed
    <3>3. a.b.pg.phase \in {"READY", "FAILED"}
      BY <1>1, <3>1
    <3>4. Failable(u)
      BY <1>1, <2>3, <2>7, <2>9, <3>1, <3>2, <3>3 DEF Failable
    <3>5. r = Failing(t)
      BY <2>2, <2>10
    <3> QED BY <2>8, <3>4, <3>5, FailStatement
  <2>11. CASE a.rc = "OK"
    <3>1. r = Driving(t, stage)
      BY <2>2, <2>11
    <3>2. Sound(t) /\ Shape(t)
      BY <2>7, <2>8, AlikeKeeps DEF Sound
    <3>3. /\ DOMAIN r = DOMAIN t /\ r.conn = t.conn /\ r.stmt = t.stmt /\ r.b = t.b
          /\ r.cursor = t.cursor /\ r.lease = t.lease /\ r.tx = t.tx
          /\ r.call = [t.call EXCEPT !.stage = stage, !.at = "poll", !.turn = 0]
      BY <3>1, <3>2 DEF Driving, Shape
    <3>4. /\ DOMAIN r.call = DOMAIN t.call /\ r.call.stage = stage /\ r.call.at = "poll"
          /\ r.call.for = t.call.for
      BY <3>2, <3>3 DEF Shape
    <3>5. /\ t.stmt = u.stmt /\ t.b = a.b /\ t.cursor = s.cursor /\ t.lease = s.lease
          /\ t.tx = s.tx /\ t.call.for = s.call.for
      BY <2>3, <2>8 DEF Alike
    <3>6. Sound(r)
      BY <3>2, <3>3, <3>4 DEF Sound, Shape, Held, Layers
    <3>7. r.stmt.op = op /\ r.stmt.state = StatementRunningState[op]
      BY <1>1, <2>3, <2>11, <3>3, <3>5 DEF StatementStarted, Shape
    <3>8. Driven(r.b, op) /\ r.b.ps.await = "none" /\ r.b.ps.kind = s.b.ps.kind
      BY <2>5, <2>11, <3>3, <3>5 DEF Begun
    <3>9. Runs(r, stage)
      BY <3>4, <3>5 DEF Runs, Startable
    <3>10. Serves(r)
      BY <1>1, <3>3, <3>4, <3>5 DEF Serves
    <3>11. op # "CANCEL" \/ stage = "EXECUTE" => Harmless(r.b)
      BY <1>3, <2>5, <2>11, <3>3, <3>5 DEF Begun, Startable
    <3>12. s.call.for \in ScanCalls =>
             /\ r.b.ps.kind = "scan"
             /\ r.cursor.state = IF op = "CANCEL" THEN "CANCELLING" ELSE "FILTERING"
      BY <1>1, <1>3, <3>3, <3>5, <3>8 DEF Startable, Failable
    <3>13. op = stage \/ (op = "CANCEL" /\ s.call.for \in ScanCalls)
      BY DEF Startable
    <3>14. AtWork(r)
      BY <3>4, <3>5, <3>7, <3>8, <3>9, <3>10, <3>11, <3>12, <3>13 DEF AtWork, Stands
    <3> QED BY <3>6, <3>14 DEF Good
  <2> QED BY <2>10, <2>11
<1> QED BY <1>2, <1>3

\* The state in which a callback opens its statement.
Openable(s, kind, op) ==
    /\ Sound(s) /\ Serves(s) /\ s.b.pg.statements = 0 /\ s.b.ps.await = "none"
    /\ s.b.pg.phase \in {"CREATED", "READY", "FAILED"}
    /\ \/ s.call.for = "filter" /\ s.cursor.state = "FILTERING" /\ kind = "scan" /\ op = "EXECUTE"
       \/ s.call.for = "command" /\ kind = "command" /\ op = "EXECUTE"
       \/ s.call.for = "returning" /\ kind = "scan" /\ op = "EXECUTE"
       \/ s.call.for = "describe" /\ kind = "prepare" /\ op = "PREPARE"

\* vps_client_statement_open.
LEMMA OpenStatementGood ==
    ASSUME NEW s, NEW kind, NEW op, Openable(s, kind, op), NEW r \in OpenStatement(s, kind, op)
    PROVE  Good(r)
<1> DEFINE a == StatementCreate(s.b, kind)
           t == [s EXCEPT !.call.stage = op]
           u == [t EXCEPT !.b = a.b, !.stmt = NewStatement, !.conn.statements = 1]
<1>1. /\ Sound(s) /\ Shape(s) /\ Held(s) /\ Layers(s) /\ Serves(s) /\ GoodBackend(s.b)
      /\ s.b.pg.statements = 0 /\ s.b.ps.await = "none"
      /\ s.b.pg.phase \in {"CREATED", "READY", "FAILED"}
      /\ s.call.for \in {"filter", "command", "returning", "describe"}
      /\ kind \in StatementKinds /\ op \in {"EXECUTE", "PREPARE"}
      /\ s.call.for = "filter" => s.cursor.state = "FILTERING" /\ kind = "scan"
  BY DEF Openable, Sound, Layers, StatementKinds
<1>2. /\ DOMAIN t = DOMAIN s /\ t.conn = s.conn /\ t.stmt = s.stmt /\ t.b = s.b
      /\ t.cursor = s.cursor /\ t.lease = s.lease /\ t.tx = s.tx
      /\ t.call = [s.call EXCEPT !.stage = op]
  BY <1>1 DEF Shape
<1> HIDE DEF t
<1>3. DOMAIN t.call = DOMAIN s.call /\ t.call.for = s.call.for /\ t.call.stage = op
  BY <1>1, <1>2 DEF Shape
<1>4. Sound(t) /\ Shape(t)
  BY <1>1, <1>2, <1>3 DEF Sound, Shape, Held, Layers
<1>5. Serves(t)
  BY <1>1, <1>2, <1>3 DEF Serves
<1>6. s.b.ps.phase = "NONE"
  BY <1>1, NoStatementFacts
<1>7. Failable(t)
  <2>1. t.cursor.state \in CursorStates \ {"CLOSED"} \/ t.call.for # "filter"
    BY <1>1, <1>2, <1>3 DEF CursorStates
  <2>2. ~Confirmed(t)
    BY <1>2, <1>6 DEF Confirmed
  <2> QED BY <1>1, <1>2, <1>3, <1>4, <1>5, <2>1, <2>2 DEF Failable, ScanCalls
<1>8. \/ r \in {Failing(WithError(t, ErrorClass("INVALID_STATE"))), Failing(t)}
      \/ a.rc = "OK" /\ r \in StartStatement(u, op, op)
  BY DEF OpenStatement, t
<1>9. CASE r \in {Failing(WithError(t, ErrorClass("INVALID_STATE"))), Failing(t)}
  <2>1. Alike(t, WithError(t, ErrorClass("INVALID_STATE"))) /\ Alike(t, t)
    BY <1>4, WithErrorAlike DEF Alike
  <2> QED BY <1>7, <1>9, <2>1, FailStatement
<1>10. CASE a.rc = "OK" /\ r \in StartStatement(u, op, op)
  <2>1. /\ GoodBackend(a.b) /\ a.b.pg.phase = "READY" /\ a.b.pg.statements = 1
        /\ a.b.ps.phase = "CREATED" /\ a.b.ps.kind = kind
        /\ a.b.ps.await = "none" /\ ~a.b.ps.sqlstateSeen /\ a.b.wire = s.b.wire
    BY <1>1, <1>10, CreateKeeps
  <2> HIDE DEF a
  <2>2. /\ DOMAIN u = DOMAIN t /\ u.b = a.b /\ u.stmt = NewStatement
        /\ u.conn = [t.conn EXCEPT !.statements = 1]
        /\ u.cursor = s.cursor /\ u.call = t.call /\ u.lease = s.lease /\ u.tx = s.tx
    BY <1>2, <1>4 DEF Shape
  <2> HIDE DEF u
  <2>3. u.conn.statements = 1 /\ DOMAIN u.conn = DOMAIN t.conn
    BY <1>4, <2>2 DEF Shape
  <2>4. Shape(u)
    BY <1>1, <1>4, <2>2, <2>3 DEF Shape, NewStatement
  <2>5. Sound(u)
    BY <1>1, <2>1, <2>2, <2>3, <2>4 DEF Sound, Held, Layers
  <2>6. Serves(u)
    BY <1>1, <1>3, <2>2 DEF Serves
  <2>7. ~Confirmed(u)
    BY <2>1, <2>2 DEF Confirmed
  <2>8. Failable(u)
    <3>1. u.cursor.state \in CursorStates \ {"CLOSED"} \/ u.call.for # "filter"
      BY <1>1, <1>3, <2>2 DEF CursorStates
    <3> QED BY <1>1, <1>3, <2>1, <2>2, <2>5, <2>6, <2>7, <3>1 DEF Failable, ScanCalls
  <2>9. Runs(u, op)
    BY <1>3, <2>2 DEF Runs, Openable
  <2>10. Startable(u, op, op)
    BY <1>1, <1>3, <2>1, <2>2, <2>8, <2>9 DEF Startable, Operations, ScanCalls
  <2> QED BY <1>10, <2>10, StartStatementGood
<1> QED BY <1>8, <1>9, <1>10

\* vps_client_connection_start.
LEMMA StartConnectionGood ==
    ASSUME NEW s, NEW op, Sound(s), s.b.pg.statements = 0, s.b.ps.await = "none",
           Links(s, op), Holds(s, op),
           s.call.for = "filter" => s.b.pg.phase = "CREATED",
           NEW r \in StartConnection(s, op)
    PROVE  Good(r)
<1>1. /\ Shape(s) /\ Held(s) /\ Layers(s) /\ GoodBackend(s.b)
      /\ s.call.for \in {"filter", "begin", "commit", "rollback", "describe", "maintain"}
      /\ s.cursor.state \in Parked
      /\ s.call.for = "filter" =>
            op = "CONNECT" /\ s.cursor.state = "FILTERING" /\ s.cursor.on = "none"
      /\ s.lease \in {"none", "tx", "pool"}
      /\ op = "CONNECT" => s.lease = "none"
  BY DEF Sound, Layers, Links, Holds
<1>2. s.cursor.on # "lease" /\ (s.call.for = "filter" => s.tx = "none" /\ s.lease = "none")
  BY <1>1 DEF Held
<1>3. s.b.ps.phase = "NONE"
  BY <1>1, NoStatementFacts
<1>4. ASSUME NEW u, Shape(u), u.cursor = s.cursor, u.tx = s.tx, u.call.for = s.call.for,
             u.call.stage = "CONNECT" \/ s.call.for # "filter"
      PROVE  Good(Failing(u))
  <2>1. CASE s.call.for = "filter"
    BY <1>1, <1>2, <1>4, <2>1, FailConnect
  <2>2. CASE s.call.for # "filter"
    BY <1>1, <1>2, <1>4, <2>2, FailLink
  <2> QED BY <2>1, <2>2
<1>5. CASE ~ConnectionStartAllowed(s.conn, op)
  <2> DEFINE c == WithError(s, ErrorClass("INVALID_STATE"))
  <2>1. r = Failing(c)
    BY <1>5 DEF StartConnection
  <2>2. Alike(s, c)
    BY <1>1, WithErrorAlike
  <2> HIDE DEF c
  <2>3. /\ Sound(c) /\ Shape(c) /\ c.cursor = s.cursor /\ c.tx = s.tx /\ c.call.for = s.call.for
        /\ c.b = s.b /\ c.lease = s.lease
    BY <2>2, AlikeKeeps DEF Alike, Sound
  <2>4. CASE c.call.stage = "CONNECT" \/ s.call.for # "filter"
    BY <1>4, <2>1, <2>3, <2>4
  <2>5. CASE c.call.stage # "CONNECT" /\ s.call.for = "filter"
    <3>1. Leased(c)
      BY <1>2, <2>3, <2>5 DEF Leased
    <3>2. ~Confirmed(c)
      BY <1>3, <2>3 DEF Confirmed
    <3>3. c.cursor.state \in CursorStates \ {"CLOSED"} /\ c.cursor.on # "tx"
      BY <1>1, <2>3, <2>5 DEF CursorStates
    <3>4. c.call.for \in ScanCalls
      BY <2>3, <2>5 DEF ScanCalls
    <3> QED BY <2>1, <2>3, <2>5, <3>1, <3>2, <3>3, <3>4, FailScan
  <2> QED BY <2>4, <2>5
<1>6. CASE ConnectionStartAllowed(s.conn, op)
  <2>1. PICK a \in ConnectionStart(s.b, op) :
            LET t == WithError([s EXCEPT !.b = a.b, !.call.stage = op,
                                         !.conn = ConnectionStarted(s.conn, op, a.rc)], a.err)
            IN  r = IF a.rc = "OK" THEN Driving(t, op) ELSE Failing(t)
    BY <1>6 DEF StartConnection
  <2> DEFINE u == [s EXCEPT !.b = a.b, !.call.stage = op,
                            !.conn = ConnectionStarted(s.conn, op, a.rc)]
             t == WithError(u, a.err)
  <2>2. r = IF a.rc = "OK" THEN Driving(t, op) ELSE Failing(t)
    BY <2>1
  <2>3. /\ DOMAIN u = DOMAIN s /\ u.stmt = s.stmt /\ u.b = a.b
        /\ u.conn = ConnectionStarted(s.conn, op, a.rc)
        /\ u.cursor = s.cursor /\ u.call = [s.call EXCEPT !.stage = op]
        /\ u.lease = s.lease /\ u.tx = s.tx
    BY <1>1 DEF Shape
  <2> HIDE DEF u
  <2>4. /\ DOMAIN u.call = DOMAIN s.call /\ u.call.stage = op /\ u.call.for = s.call.for
        /\ DOMAIN u.conn = DOMAIN s.conn /\ u.conn.statements = s.conn.statements
        /\ a.rc = "OK" => u.conn.op = op
    BY <1>1, <2>3 DEF Shape, ConnectionStarted, ConnectionFailed
  <2>5. Shape(u)
    BY <1>1, <2>3, <2>4 DEF Shape
  <2>6. Alike(u, t)
    BY <2>5, WithErrorAlike
  <2> HIDE DEF t
  <2>7. /\ Shape(t) /\ t.cursor = s.cursor /\ t.tx = s.tx /\ t.lease = s.lease
        /\ t.call.for = s.call.for /\ t.call.stage = op /\ t.conn = u.conn /\ t.b = a.b
    BY <2>3, <2>4, <2>5, <2>6, AlikeKeeps DEF Alike
  <2>8. CASE a.rc # "OK"
    <3>1. r = Failing(t)
      BY <2>2, <2>8
    <3> QED BY <1>1, <1>4, <2>7, <3>1
  <2>9. CASE a.rc = "OK"
    <3>1. r = Driving(t, op)
      BY <2>2, <2>9
    <3>2. Reported(s.b, a, op) /\ Connecting(a.b, op)
      BY <1>1, <2>9, ConnectionStartReports
    <3>3. /\ GoodBackend(a.b) /\ a.b.pg.statements = 0 /\ a.b.ps = s.b.ps
          /\ op # "BEGIN" /\ Outside(s.b.wire) => Outside(a.b.wire)
      BY <2>9, <3>2 DEF Reported
    <3>4. /\ DOMAIN r = DOMAIN t /\ r.conn = t.conn /\ r.stmt = t.stmt /\ r.b = t.b
          /\ r.cursor = t.cursor /\ r.lease = t.lease /\ r.tx = t.tx
          /\ r.call = [t.call EXCEPT !.stage = op, !.at = "poll", !.turn = 0]
      BY <2>7, <3>1 DEF Driving, Shape
    <3>5. /\ DOMAIN r.call = DOMAIN t.call /\ r.call.stage = op /\ r.call.at = "poll"
          /\ r.call.for = s.call.for
      BY <2>7, <3>4 DEF Shape
    <3>6. Shape(r)
      BY <2>7, <3>4, <3>5 DEF Shape
    <3>7. Held(r)
      BY <1>1, <2>7, <3>4 DEF Held
    <3>8. s.lease # "tx" => op # "BEGIN"
      BY DEF Holds
    <3>9. Layers(r)
      BY <1>1, <2>4, <2>7, <3>3, <3>4, <3>8 DEF Layers
    <3>10. Links(r, op) /\ Holds(r, op)
      BY <2>7, <3>4, <3>5 DEF Links, Holds
    <3>11. AtLink(r)
      BY <2>4, <2>7, <2>9, <3>2, <3>3, <3>4, <3>5, <3>10 DEF AtLink
    <3> QED BY <3>6, <3>7, <3>9, <3>11 DEF Good, Sound
  <2> QED BY <2>8, <2>9
<1> QED BY <1>5, <1>6

\* The connection is there.
LEMMA ProceedGood ==
    ASSUME NEW s, Sound(s), s.b.pg.statements = 0, s.b.ps.await = "none",
           s.b.pg.phase \in {"CREATED", "READY", "FAILED"}, s.tx = "none",
           s.lease \in {"none", "pool"}, s.call.for \in {"filter", "begin", "describe"},
           s.call.for = "describe" => s.lease = "none",
           s.cursor.state \in Parked,
           s.call.for = "filter" => s.cursor.state = "FILTERING" /\ s.cursor.on = "none",
           NEW r \in Proceed(s)
    PROVE  Good(r)
<1>1. Shape(s) /\ Held(s) /\ Layers(s) /\ s.cursor.on # "lease" /\ Outside(s.b.wire)
  BY DEF Sound, Held, Layers
<1>2. CASE s.call.for = "filter"
  <2> DEFINE c == [s EXCEPT !.lease = "scan", !.cursor.on = "lease"]
  <2>1. r \in OpenStatement(c, "scan", "EXECUTE")
    BY <1>2 DEF Proceed
  <2>2. /\ DOMAIN c = DOMAIN s /\ c.conn = s.conn /\ c.stmt = s.stmt /\ c.b = s.b
        /\ c.cursor = [s.cursor EXCEPT !.on = "lease"] /\ c.call = s.call
        /\ c.lease = "scan" /\ c.tx = s.tx
    BY <1>1 DEF Shape
  <2> HIDE DEF c
  <2>3. /\ DOMAIN c.cursor = DOMAIN s.cursor /\ c.cursor.on = "lease"
        /\ c.cursor.state = "FILTERING"
    BY <1>1, <1>2, <2>2 DEF Shape
  <2>4. Sound(c)
    BY <1>1, <2>2, <2>3 DEF Sound, Shape, Held, Layers
  <2>5. Serves(c)
    BY <1>2, <2>2 DEF Serves, ScanCalls
  <2>6. Openable(c, "scan", "EXECUTE")
    BY <1>2, <2>2, <2>3, <2>4, <2>5 DEF Openable
  <2> QED BY <2>1, <2>6, OpenStatementGood
<1>3. CASE s.call.for = "begin"
  <2> DEFINE c == [s EXCEPT !.lease = "tx"]
  <2>1. r \in StartConnection(c, "BEGIN")
    BY <1>3 DEF Proceed
  <2>2. /\ DOMAIN c = DOMAIN s /\ c.conn = s.conn /\ c.stmt = s.stmt /\ c.b = s.b
        /\ c.cursor = s.cursor /\ c.call = s.call /\ c.lease = "tx" /\ c.tx = s.tx
    BY <1>1 DEF Shape
  <2> HIDE DEF c
  <2>3. Sound(c)
    BY <1>1, <2>2 DEF Sound, Shape, Held, Layers
  <2>4. Links(c, "BEGIN") /\ Holds(c, "BEGIN")
    BY <1>3, <2>2 DEF Links, Holds
  <2> QED BY <1>3, <2>1, <2>2, <2>3, <2>4, StartConnectionGood
<1>4. CASE s.call.for = "describe"
  <2>1. r \in OpenStatement(s, "prepare", "PREPARE")
    BY <1>4 DEF Proceed
  <2>2. Serves(s)
    BY <1>4 DEF Serves, ScanCalls
  <2>3. Openable(s, "prepare", "PREPARE")
    BY <1>4, <2>2 DEF Openable
  <2> QED BY <2>1, <2>3, OpenStatementGood
<1> QED BY <1>2, <1>3, <1>4

\* vps_connection_pool_acquire.
LEMMA AcquireGood ==
    ASSUME NEW s, Sound(s), s.b.pg.statements = 0, s.b.ps.await = "none", s.tx = "none",
           s.lease \in {"none", "pool"},
           s.lease = "pool" => s.b.pg.phase = "READY",
           s.lease = "none" => s.b.pg.phase = "CREATED",
           s.call.for \in {"filter", "begin"}, s.cursor.state \in Parked,
           s.call.for = "filter" => s.cursor.state = "FILTERING" /\ s.cursor.on = "none",
           NEW r \in Acquire(s)
    PROVE  Good(r)
<1>1. CASE s.lease = "pool"
  BY <1>1, ProceedGood DEF Acquire
<1>2. CASE s.lease = "none"
  <2>1. r \in StartConnection(s, "CONNECT")
    BY <1>2 DEF Acquire
  <2>2. Links(s, "CONNECT") /\ Holds(s, "CONNECT")
    BY <1>2 DEF Links, Holds
  <2> QED BY <1>2, <2>1, <2>2, StartConnectionGood
<1> QED BY <1>1, <1>2
=============================================================================
