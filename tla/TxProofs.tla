------------------------------ MODULE TxProofs ------------------------------
(***************************************************************************)
(* What VtabTransaction guarantees for any number of tables, identities,   *)
(* cursors and savepoints, in whatever order SQLite makes its calls: the   *)
(* stream gate, the savepoints of coordinator and server, the isolation of *)
(* a stream and the finality of an unknown outcome.  The invariant says    *)
(* nothing of `todo' and `sql': the guarantees do not rest on SQLite.      *)
(***************************************************************************)
EXTENDS VtabTransaction, SequenceTheorems, FiniteSetTheorems, TLAPS

Owners == {c \in Cursors : cursor[c].stream = 1}

CursorRecords ==
    [state : {"CLOSED", "OPEN", "FILTERING", "ROW_READY", "EOF", "FAILED"},
     stream : {0, 1}, undrained : BOOLEAN]

IsSequence(s) == s \in Seq({s[i] : i \in DOMAIN s})

\* The records that the callbacks update; the coordinator tracks no level twice.
ShapeInv ==
    /\ DOMAIN tx = {"state", "identity", "participants", "savepoints", "stream"}
    /\ tx.state \in {"IDLE", "ACTIVE", "FAILED", "AMBIGUOUS"}
    /\ tx.stream \in {0, 1}
    /\ IsSequence(tx.savepoints)
    /\ \A i, j \in DOMAIN tx.savepoints : tx.savepoints[i] = tx.savepoints[j] => i = j
    /\ DOMAIN session = {"state", "writes", "savepoints"}
    /\ session.state \in {"none", "active", "inerror", "gone"}
    /\ IsSequence(session.savepoints)
    /\ cursor \in [Cursors -> CursorRecords]

\* The gate is taken exactly while some cursor owns it, and one cursor only; an owner
\* has a row or has failed, so a cursor that xFilter accepts is none.
GateInv ==
    /\ tx.stream = 1 <=> \E c \in Cursors : c \in Owners
    /\ \A c, d \in Owners : c = d
    /\ \A c \in Owners : cursor[c].state \in {"ROW_READY", "FAILED"}

\* A coordinator that is idle or does not know the outcome has no connection.
EndedInv ==
    tx.state \in {"IDLE", "AMBIGUOUS"} =>
        /\ tx.stream = 0
        /\ pinned = NoIdentity
        /\ session.state = "none"
        /\ tx.state = "IDLE" => tx.savepoints = <<>>

\* While the server has a transaction, coordinator and server name the same level at
\* each depth that both have, the server no level twice.  A command that failed leaves the
\* coordinator FAILED and shorter, or longer by the savepoint that was not made.
MirrorInv ==
    session.state \in {"active", "inerror"} =>
        /\ \A i, j \in DOMAIN session.savepoints :
               session.savepoints[i].level = session.savepoints[j].level => i = j
        /\ \A i \in DOMAIN tx.savepoints \cap DOMAIN session.savepoints :
               tx.savepoints[i] = session.savepoints[i].level
        /\ Len(tx.savepoints) <= Len(session.savepoints) + 1
        /\ tx.state = "ACTIVE" => Len(tx.savepoints) = Len(session.savepoints)

IInv == ShapeInv /\ GateInv /\ EndedInv /\ MirrorInv

-----------------------------------------------------------------------------
(* Sequences of whatever elements *)

\* Appending: what SAVEPOINT does to the levels of the coordinator and of the server.
LEMMA Appended ==
    ASSUME NEW s, IsSequence(s), NEW e
    PROVE  /\ IsSequence(Append(s, e))
           /\ Len(s) \in Nat /\ DOMAIN s = 1..Len(s)
           /\ Len(Append(s, e)) = Len(s) + 1
           /\ DOMAIN Append(s, e) = 1..(Len(s) + 1)
           /\ \A i \in 1..Len(s) : Append(s, e)[i] = s[i]
           /\ Append(s, e)[Len(s) + 1] = e
<1> DEFINE R == {s[i] : i \in DOMAIN s}
           a == Append(s, e)
<1>1. s \in Seq(R)
  BY DEF IsSequence
<1>2. s \in Seq(R \cup {e})
  BY <1>1, SeqMonotonic, Zenon
<1>3. Len(s) \in Nat /\ DOMAIN s = 1..Len(s)
  BY <1>1, LenProperties, Zenon
<1>4. /\ a \in Seq(R \cup {e})
      /\ Len(a) = Len(s) + 1
      /\ \A i \in 1..Len(s) : a[i] = s[i]
      /\ a[Len(s) + 1] = e
  BY <1>2, AppendProperties
<1>5. DOMAIN a = 1..(Len(s) + 1)
  BY <1>4, LenProperties
<1>6. \A i \in 1..Len(a) : a[i] \in {a[j] : j \in DOMAIN a}
  BY <1>4, <1>5
<1>7. IsSequence(a)
  BY <1>3, <1>4, <1>5, <1>6, SeqDef DEF IsSequence
<1> QED BY <1>3, <1>4, <1>5, <1>7

\* Cutting: what RELEASE and ROLLBACK TO do to the levels.
LEMMA Prefix ==
    ASSUME NEW s, IsSequence(s), NEW n \in 0..Len(s)
    PROVE  /\ IsSequence(SubSeq(s, 1, n))
           /\ Len(s) \in Nat /\ DOMAIN s = 1..Len(s)
           /\ Len(SubSeq(s, 1, n)) = n
           /\ DOMAIN SubSeq(s, 1, n) = 1..n
           /\ \A i \in 1..n : SubSeq(s, 1, n)[i] = s[i]
<1> DEFINE a == SubSeq(s, 1, n)
<1>1. s \in Seq({s[i] : i \in DOMAIN s})
  BY DEF IsSequence
<1>3. Len(s) \in Nat /\ DOMAIN s = 1..Len(s)
  BY <1>1, LenProperties, Zenon
<1>4. /\ a = [i \in 1..n |-> s[i]]
  BY <1>1, <1>3
<1>5. DOMAIN a = 1..n /\ \A i \in 1..n : a[i] = s[i]
  BY <1>4
<1>6. a \in Seq({a[j] : j \in DOMAIN a})
  BY <1>3, <1>4, <1>5
<1>7. IsSequence(a)
  BY <1>6 DEF IsSequence
<1>8. Len(a) = n
  <2>1. Len(a) \in Nat /\ DOMAIN a = 1..Len(a)
    BY <1>6, LenProperties, Zenon
  <2>2. n \in Nat
    BY <1>3
  <2>3. \A m, k \in Nat : 1..m = 1..k => m = k
    OBVIOUS
  <2> HIDE DEF a
  <2> QED BY <1>5, <2>1, <2>2, <2>3
<1> QED BY <1>3, <1>5, <1>7, <1>8

-----------------------------------------------------------------------------
(* Parts of the invariant that many callbacks leave alone *)

\* A step that touches none of the four keeps the invariant: SQLite's own steps, and
\* callbacks that the coordinator or an argument check turns away.
LEMMA Untouched ==
    ASSUME IInv, UNCHANGED <<tx, pinned, session, cursor>>
    PROVE  IInv'
BY DEF IInv, ShapeInv, GateInv, EndedInv, MirrorInv, Owners

\* Levels that stay as they are stay mirrored, unless the coordinator becomes active
\* again or the server begins a transaction.
LEMMA MirrorKept ==
    ASSUME MirrorInv,
           tx'.savepoints = tx.savepoints,
           session'.savepoints = session.savepoints \/ session'.state \in {"none", "gone"},
           tx'.state = "ACTIVE" => tx.state = "ACTIVE",
           session'.state \in {"active", "inerror"} =>
               session.state \in {"active", "inerror"}
    PROVE  MirrorInv'
<1>1. CASE session'.state \in {"none", "gone"}
  BY <1>1 DEF MirrorInv
<1>2. CASE session'.savepoints = session.savepoints
  <2> SUFFICES ASSUME session'.state \in {"active", "inerror"}
               PROVE  MirrorInv'
    BY DEF MirrorInv
  <2> QED BY <1>2 DEF MirrorInv
<1> QED BY <1>1, <1>2

\* The sessions that an ended transaction, a new one and a lost connection leave.
LEMMA FreshSessions ==
    /\ NoSession.state = "none" /\ NewSession.state = "active" /\ GoneSession.state = "gone"
    /\ \A s \in {NoSession, NewSession, GoneSession} :
           /\ DOMAIN s = {"state", "writes", "savepoints"}
           /\ s.writes = {}
           /\ s.savepoints = <<>>
    /\ IsSequence(<<>>) /\ Len(<<>>) = 0 /\ DOMAIN <<>> = {}
<1>1. IsSequence(<<>>)
  BY EmptySeq, Zenon DEF IsSequence
<1>2. Len(<<>>) = 0 /\ DOMAIN <<>> = {}
  OBVIOUS
<1> QED BY <1>1, <1>2 DEF NewSession, GoneSession, NoSession

\* What a command on the pinned connection may do to the session.
LEMMA CommandEffect ==
    ASSUME ShapeInv, NEW outcome \in Outcomes, NEW possible, NEW done,
           Command(outcome, possible, done)
    PROVE  \/ outcome = "ok" /\ possible /\ session' = done
           \/ /\ outcome # "ok"
              /\ DOMAIN session' = {"state", "writes", "savepoints"}
              /\ IsSequence(session'.savepoints)
              /\ \/ /\ session'.state = "inerror"
                    /\ session.state \in {"active", "inerror"}
                    /\ session'.writes = session.writes
                    /\ session'.savepoints = session.savepoints
                 \/ session'.state = "gone" /\ session' = GoneSession
                 \/ session' = session /\ session.state = "none"
<1>2. /\ DOMAIN session = {"state", "writes", "savepoints"}
      /\ IsSequence(session.savepoints)
  BY DEF ShapeInv
<1>3. CASE outcome = "ok"
  BY <1>3 DEF Command
<1>4. CASE outcome = "error"
  <2>1. /\ session' = [session EXCEPT !.state = "inerror"]
        /\ session.state \in {"active", "inerror"}
    BY <1>4 DEF Command
  <2>2. /\ DOMAIN session' = {"state", "writes", "savepoints"}
        /\ session'.state = "inerror"
        /\ session'.writes = session.writes
        /\ session'.savepoints = session.savepoints
    BY <1>2, <2>1
  <2> QED BY <1>2, <1>4, <2>1, <2>2
<1>5. CASE outcome \in {"fatal", "broken"}
  <2>1. session' = IF session.state = "none" THEN session ELSE GoneSession
    BY <1>5 DEF Command
  <2> QED BY <1>2, <1>5, <2>1, FreshSessions
<1> QED BY <1>3, <1>4, <1>5 DEF Outcomes

-----------------------------------------------------------------------------
(* One lemma per callback *)

\* vps_module_begin.
LEMMA BeginInv ==
    ASSUME IInv, NEW t \in Tables, Begin(t)
    PROVE  IInv'
<1> DEFINE r == TxBegin(tx, IdentityOf[t], t)
<1>1. ShapeInv /\ GateInv /\ EndedInv /\ MirrorInv /\ cursor' = cursor
  BY DEF IInv, Begin
<1>2. CASE r.rc \notin {"OK", "COMMAND_REQUIRED"} /\ UNCHANGED remote
  BY <1>1, <1>2, Untouched DEF remote
<1>3. CASE r.rc = "OK" /\ tx' = r.tx /\ UNCHANGED <<pinned, session>>
  <2>1. /\ tx.state \in {"ACTIVE", "FAILED"}
        /\ \/ tx' = tx
           \/ tx' = [tx EXCEPT !.participants = @ \cup {t}]
    BY <1>1, <1>3 DEF TxBegin, Reply, ShapeInv
  <2>2. /\ DOMAIN tx' = DOMAIN tx
        /\ tx'.state = tx.state /\ tx'.stream = tx.stream
        /\ tx'.savepoints = tx.savepoints
    BY <1>1, <2>1 DEF ShapeInv
  <2>3. ShapeInv' /\ GateInv' /\ EndedInv'
    BY <1>1, <1>3, <2>2 DEF ShapeInv, GateInv, EndedInv, Owners
  <2>4. MirrorInv'
    BY <1>1, <1>3, <2>2, MirrorKept
  <2> QED BY <2>3, <2>4 DEF IInv
<1>4. CASE r.rc = "COMMAND_REQUIRED" /\ tx' = TxBeginComplete(r.tx, TRUE)
           /\ session' = NewSession
  <2>1. /\ tx.state = "IDLE"
        /\ r.tx = [tx EXCEPT !.state = "BEGINNING", !.identity = IdentityOf[t],
                             !.participants = {t}]
    BY <1>1, <1>4 DEF TxBegin, Reply, ShapeInv
  <2>2. /\ DOMAIN r.tx = DOMAIN tx
        /\ r.tx.savepoints = tx.savepoints /\ r.tx.stream = tx.stream
    BY <1>1, <2>1 DEF ShapeInv
  <2>3. /\ DOMAIN tx' = DOMAIN tx
        /\ tx'.state = "ACTIVE" /\ tx'.stream = tx.stream
        /\ tx'.savepoints = tx.savepoints
    BY <1>1, <1>4, <2>2 DEF ShapeInv, TxBeginComplete
  <2>4. tx.savepoints = <<>> /\ tx.stream = 0
    BY <1>1, <2>1 DEF EndedInv
  <2>fresh. /\ DOMAIN session' = {"state", "writes", "savepoints"}
        /\ session'.state = "active" /\ session'.savepoints = <<>>
    BY <1>4, FreshSessions
  <2>5. ShapeInv'
    <3>1. IsSequence(session'.savepoints)
      BY <2>fresh, FreshSessions, Zenon
    <3> QED BY <1>1, <2>3, <2>fresh, <3>1 DEF ShapeInv
  <2>6. GateInv' /\ EndedInv'
    BY <1>1, <2>3 DEF GateInv, EndedInv, Owners
  <2>7. MirrorInv'
    <3>1. /\ DOMAIN tx'.savepoints = {} /\ DOMAIN session'.savepoints = {}
          /\ Len(tx'.savepoints) = 0 /\ Len(session'.savepoints) = 0
      BY <2>3, <2>4, <2>fresh, FreshSessions
    <3> QED BY <3>1 DEF MirrorInv
  <2> QED BY <2>5, <2>6, <2>7 DEF IInv
<1>5. CASE r.rc = "COMMAND_REQUIRED" /\ tx' = TxBeginComplete(r.tx, FALSE)
           /\ UNCHANGED <<pinned, session>>
  <2>1. tx' = ResetActive /\ tx.state = "IDLE"
    BY <1>1, <1>5 DEF TxBegin, Reply, TxBeginComplete, ShapeInv
  <2>2. /\ DOMAIN tx' = {"state", "identity", "participants", "savepoints", "stream"}
        /\ tx'.state = "IDLE" /\ tx'.stream = 0 /\ tx'.savepoints = <<>>
    BY <2>1 DEF ResetActive
  <2>3. tx.stream = 0 /\ pinned = NoIdentity /\ session.state = "none"
        /\ tx.savepoints = <<>>
    BY <1>1, <2>1 DEF EndedInv
  <2>4. ShapeInv'
    <3>1. tx'.savepoints = tx.savepoints
      BY <2>2, <2>3
    <3>2. /\ DOMAIN tx' = DOMAIN tx
          /\ tx'.state = "IDLE" /\ tx'.stream = 0
      BY <1>1, <2>2 DEF ShapeInv
    <3>3. session' = session
      BY <1>5
    <3> QED BY <1>1, <3>1, <3>2, <3>3 DEF ShapeInv
  <2>5. GateInv' /\ EndedInv' /\ MirrorInv'
    BY <1>1, <1>5, <2>2, <2>3 DEF GateInv, EndedInv, MirrorInv, Owners
  <2> QED BY <2>4, <2>5 DEF IInv
<1> QED BY <1>2, <1>3, <1>4, <1>5 DEF Begin

\* vps_module_end, for xCommit and xRollback.
LEMMA EndInv ==
    ASSUME IInv, NEW t \in Tables, NEW callback, NEW op, EndTransaction(t, callback, op)
    PROVE  IInv'
<1>1. ShapeInv /\ GateInv /\ EndedInv /\ MirrorInv /\ cursor' = cursor
  BY DEF IInv, EndTransaction
<1>2. CASE EndWithoutCommand(op)
  BY <1>1, <1>2, Untouched DEF EndWithoutCommand, remote
<1>3. ASSUME NEW end \in Ends, EndWithCommand(op, end)
      PROVE  IInv'
  <2> DEFINE r == TxEnd(tx, op)
  <2>1. /\ r.rc = "COMMAND_REQUIRED"
        /\ tx' = TxEndComplete(r.tx, end = "ok", end = "lost")
        /\ pinned' = NoIdentity /\ session' = NoSession
    BY <1>3 DEF EndWithCommand, ReleaseLease
  <2>2. tx.stream = 0 /\ r.tx = [tx EXCEPT !.state = "ENDING"]
    BY <2>1 DEF TxEnd, Reply
  <2>3. /\ DOMAIN r.tx = DOMAIN tx
        /\ r.tx.savepoints = tx.savepoints /\ r.tx.stream = 0
    BY <1>1, <2>2 DEF ShapeInv
  <2>4. /\ DOMAIN session' = {"state", "writes", "savepoints"}
        /\ session'.state = "none" /\ session'.savepoints = <<>>
    BY <2>1, FreshSessions
  <2>5. \/ tx' = ResetActive
        \/ tx' = [r.tx EXCEPT !.state = "AMBIGUOUS", !.stream = 0]
        \/ tx' = [r.tx EXCEPT !.state = "FAILED"]
    BY <2>1 DEF TxEndComplete
  <2>6. /\ DOMAIN tx' = {"state", "identity", "participants", "savepoints", "stream"}
        /\ tx'.stream = 0
        /\ tx'.state \in {"IDLE", "AMBIGUOUS", "FAILED"}
        /\ \/ tx'.savepoints = tx.savepoints /\ tx'.state # "IDLE"
           \/ tx'.savepoints = <<>>
    <3> HIDE DEF r
    <3>1. CASE tx' = ResetActive
      BY <3>1 DEF ResetActive
    <3>2. CASE tx' = [r.tx EXCEPT !.state = "AMBIGUOUS", !.stream = 0]
      BY <1>1, <2>3, <3>2 DEF ShapeInv
    <3>3. CASE tx' = [r.tx EXCEPT !.state = "FAILED"]
      BY <1>1, <2>3, <3>3 DEF ShapeInv
    <3> QED BY <2>5, <3>1, <3>2, <3>3
  <2>7. /\ IsSequence(tx'.savepoints) /\ IsSequence(session'.savepoints)
        /\ \A i, j \in DOMAIN tx'.savepoints :
               tx'.savepoints[i] = tx'.savepoints[j] => i = j
    <3>1. IsSequence(session'.savepoints)
      BY <2>4, FreshSessions, Zenon
    <3>2. CASE tx'.savepoints = tx.savepoints
      BY <1>1, <3>1, <3>2 DEF ShapeInv
    <3>3. CASE tx'.savepoints = <<>>
      BY <3>1, <3>3, FreshSessions
    <3> QED BY <2>6, <3>2, <3>3
  <2>8. ShapeInv'
    BY <1>1, <2>4, <2>6, <2>7 DEF ShapeInv
  <2>9. GateInv'
    BY <1>1, <2>2, <2>6 DEF GateInv, Owners
  <2>10. EndedInv' /\ MirrorInv'
    BY <2>1, <2>4, <2>6 DEF EndedInv, MirrorInv
  <2> QED BY <2>8, <2>9, <2>10 DEF IInv
<1> QED BY <1>2, <1>3 DEF EndTransaction

\* vps_module_update.
LEMMA UpdateInv ==
    ASSUME IInv, NEW t \in Tables, Update(t)
    PROVE  IInv'
<1>1. ShapeInv /\ GateInv /\ EndedInv /\ MirrorInv
  BY DEF IInv
<1>2. CASE UpdateRejected(t) \/ UpdateRefused(t) \/ UpdateFindsNoRow(t)
  BY <1>2, Untouched DEF UpdateRejected, UpdateRefused, UpdateFindsNoRow, remote
<1>3. ASSUME TxCommandAllowed(tx) = "OK", UNCHANGED <<pinned, cursor>>,
             \/ tx' = tx
             \/ tx' = TxMarkFailed(tx),
             DOMAIN session' = DOMAIN session,
             IsSequence(session'.savepoints),
             session'.state \in {"none", "active", "inerror", "gone"},
             session'.savepoints = session.savepoints \/ session'.state \in {"none", "gone"},
             session'.state \in {"active", "inerror"} =>
                 session.state \in {"active", "inerror"}
      PROVE  IInv'
  <2>1. tx.state = "ACTIVE" /\ tx.stream = 0
    BY <1>3 DEF TxCommandAllowed
  <2>2. /\ DOMAIN tx' = DOMAIN tx
        /\ tx'.savepoints = tx.savepoints /\ tx'.stream = tx.stream
        /\ tx'.state \in {"ACTIVE", "FAILED"}
    BY <1>1, <1>3, <2>1 DEF TxMarkFailed, ShapeInv
  <2>3. ShapeInv'
    BY <1>1, <1>3, <2>2 DEF ShapeInv
  <2>4. GateInv' /\ EndedInv'
    BY <1>1, <1>3, <2>2 DEF GateInv, EndedInv, Owners
  <2>5. MirrorInv'
    BY <1>1, <1>3, <2>1, <2>2, MirrorKept
  <2> QED BY <2>3, <2>4, <2>5 DEF IInv
<1>4. CASE UpdateRuns(t)
  <2> DEFINE done == [session EXCEPT !.writes = @ \cup {nextWrite}]
  <2>1. TxCommandAllowed(tx) = "OK" /\ UNCHANGED <<pinned, cursor>>
    BY <1>4 DEF UpdateRuns
  <2>2. PICK outcome \in Outcomes :
            /\ Command(outcome, session.state = "active", done)
            /\ tx' = IF outcome = "ok" THEN tx ELSE TxMarkFailed(tx)
    BY <1>4 DEF UpdateRuns
  <2>3. CASE outcome = "ok"
    <3>1. session.state = "active" /\ session' = done
      BY <2>2, <2>3 DEF Command
    <3>2. /\ DOMAIN session' = DOMAIN session
          /\ session'.savepoints = session.savepoints /\ session'.state = "active"
      BY <1>1, <3>1 DEF ShapeInv
    <3>3. IsSequence(session'.savepoints)
      BY <1>1, <3>2 DEF ShapeInv
    <3>4. tx' = tx
      BY <2>2, <2>3
    <3> QED BY <1>3, <2>1, <3>1, <3>2, <3>3, <3>4
  <2>4. CASE outcome # "ok"
    <3> HIDE DEF done
    <3>1. /\ DOMAIN session' = {"state", "writes", "savepoints"}
          /\ IsSequence(session'.savepoints)
          /\ \/ /\ session'.state = "inerror"
                /\ session.state \in {"active", "inerror"}
                /\ session'.savepoints = session.savepoints
             \/ session'.state = "gone"
             \/ session' = session /\ session.state = "none"
      BY <1>1, <2>2, <2>4, CommandEffect
    <3>2. DOMAIN session' = DOMAIN session
      BY <1>1, <3>1 DEF ShapeInv
    <3>3. tx' = TxMarkFailed(tx)
      BY <2>2, <2>4
    <3> QED BY <1>3, <2>1, <3>1, <3>2, <3>3
  <2> QED BY <2>3, <2>4
<1>5. CASE UpdateLosesTail(t)
  <2>1. /\ TxCommandAllowed(tx) = "OK" /\ UNCHANGED <<tx, pinned, cursor>>
        /\ session' = GoneSession
    BY <1>5 DEF UpdateLosesTail
  <2>2. /\ DOMAIN session' = {"state", "writes", "savepoints"}
        /\ session'.state = "gone" /\ session'.savepoints = <<>>
    BY <2>1, FreshSessions
  <2>3. IsSequence(session'.savepoints)
    BY <2>2, FreshSessions, Zenon
  <2>4. DOMAIN session' = DOMAIN session
    BY <1>1, <2>2 DEF ShapeInv
  <2> QED BY <1>3, <2>1, <2>2, <2>3, <2>4
<1> QED BY <1>2, <1>4, <1>5 DEF Update

\* vps_transaction_find_savepoint finds a level that is tracked.
LEMMA FindsSavepoint ==
    ASSUME ShapeInv, NEW level, Tracked(tx, level)
    PROVE  /\ FindSavepoint(tx, level) \in 1..Len(tx.savepoints)
           /\ tx.savepoints[FindSavepoint(tx, level)] = level
<1> DEFINE s == tx.savepoints
<1>1. IsSequence(s) /\ \A i, j \in DOMAIN s : s[i] = s[j] => i = j
  BY DEF ShapeInv
<1>2. Len(s) \in Nat /\ DOMAIN s = 1..Len(s)
  BY <1>1, Appended
<1>3. PICK k \in DOMAIN s : s[k] = level
  BY DEF Tracked
<1>4. k \in DOMAIN s /\ s[k] = level /\ \A j \in 1..(k - 1) : s[j] # level
  BY <1>1, <1>2, <1>3
<1> QED BY <1>2, <1>4 DEF FindSavepoint

\* The server finds a savepoint that it has.
LEMMA FindsOnServer ==
    ASSUME MirrorInv, ShapeInv, session.state \in {"active", "inerror"},
           NEW level, ServerHas(level)
    PROVE  /\ ServerFind(level) \in 1..Len(session.savepoints)
           /\ session.savepoints[ServerFind(level)].level = level
<1> DEFINE s == session.savepoints
<1>1. IsSequence(s) /\ \A i, j \in DOMAIN s : s[i].level = s[j].level => i = j
  BY DEF ShapeInv, MirrorInv
<1>2. Len(s) \in Nat /\ DOMAIN s = 1..Len(s)
  BY <1>1, Appended
<1>3. PICK k \in DOMAIN s : s[k].level = level
  BY DEF ServerHas
<1>4. k \in DOMAIN s /\ s[k].level = level /\ \A j \in DOMAIN s : j > k => s[j].level # level
  BY <1>1, <1>2, <1>3
<1> QED BY <1>2, <1>4 DEF ServerFind

\* Coordinator and server find the same level at the same depth.
LEMMA FindsTheSame ==
    ASSUME MirrorInv, ShapeInv, session.state \in {"active", "inerror"},
           NEW level, Tracked(tx, level), ServerHas(level)
    PROVE  FindSavepoint(tx, level) = ServerFind(level)
<1> DEFINE c == tx.savepoints
           s == session.savepoints
           i == FindSavepoint(tx, level)
           j == ServerFind(level)
<1>1. i \in 1..Len(c) /\ c[i] = level
  BY FindsSavepoint, Zenon
<1>2. j \in 1..Len(s) /\ s[j].level = level
  BY FindsOnServer, Zenon
<1>3. /\ Len(c) \in Nat /\ DOMAIN c = 1..Len(c)
      /\ Len(s) \in Nat /\ DOMAIN s = 1..Len(s)
  <2>1. IsSequence(c) /\ IsSequence(s)
    BY DEF ShapeInv
  <2> HIDE DEF c, s
  <2> QED BY <2>1, Appended
<1>4. /\ \A m, n \in DOMAIN c : c[m] = c[n] => m = n
      /\ \A m, n \in DOMAIN s : s[m].level = s[n].level => m = n
      /\ \A n \in DOMAIN c \cap DOMAIN s : c[n] = s[n].level
      /\ Len(c) <= Len(s) + 1
  BY DEF ShapeInv, MirrorInv
<1> HIDE DEF c, s, i, j
<1>5. i <= Len(s) => i = j
  BY <1>1, <1>2, <1>3, <1>4
<1>6. i > Len(s) => i = j
  BY <1>1, <1>2, <1>3, <1>4
<1>7. i = j
  BY <1>1, <1>3, <1>5, <1>6
<1> QED BY <1>7 DEF i, j

\* The answer `after' of the coordinator to a savepoint callback that needs a command.
Answer(after) ==
    /\ tx.stream = 0 /\ tx.state \in {"ACTIVE", "FAILED"}
    /\ DOMAIN after = DOMAIN tx
    /\ after.state = "ACTIVE" /\ after.stream = 0
    /\ IsSequence(after.savepoints)
    /\ \A i, j \in DOMAIN after.savepoints :
           after.savepoints[i] = after.savepoints[j] => i = j

\* The levels q are those of the savepoints s, as far as s goes and at most one deeper.
Follows(q, s) ==
    /\ \A i \in DOMAIN q \cap DOMAIN s : q[i] = s[i].level
    /\ Len(q) <= Len(s) + 1

\* The session `done' of a server that obeyed has exactly the levels q.
Obeyed(q, done) ==
    /\ DOMAIN done = {"state", "writes", "savepoints"}
    /\ done.state = "active"
    /\ IsSequence(done.savepoints)
    /\ Len(done.savepoints) = Len(q)
    /\ \A i \in DOMAIN q \cap DOMAIN done.savepoints : q[i] = done.savepoints[i].level

\* vps_module_savepoint_action: the coordinator's levels change before the command is
\* sent; they mirror the server's whether or not the server obeys.
LEMMA SavepointCommand ==
    ASSUME IInv, UNCHANGED <<pinned, cursor>>,
           NEW after, Answer(after),
           session.state \in {"active", "inerror"} =>
               Follows(after.savepoints, session.savepoints),
           NEW outcome \in Outcomes, NEW possible, NEW done,
           Command(outcome, possible, done),
           tx' = IF outcome = "ok" THEN after ELSE TxMarkFailed(after),
           outcome = "ok" => Obeyed(after.savepoints, done)
    PROVE  IInv'
<1> DEFINE q == after.savepoints
<1>1. ShapeInv /\ GateInv /\ EndedInv /\ MirrorInv
  BY DEF IInv
<1>2. /\ DOMAIN tx' = DOMAIN tx
      /\ tx'.savepoints = q /\ tx'.stream = 0 /\ tx.stream = 0
      /\ tx'.state = IF outcome = "ok" THEN "ACTIVE" ELSE "FAILED"
      /\ tx.state \in {"ACTIVE", "FAILED"}
  <2>1. CASE outcome = "ok"
    BY <2>1 DEF Answer
  <2>2. CASE outcome # "ok"
    <3>1. tx' = [after EXCEPT !.state = "FAILED"]
      BY <2>2 DEF TxMarkFailed, Answer
    <3> QED BY <1>1, <2>2, <3>1 DEF ShapeInv, Answer
  <2> QED BY <2>1, <2>2
<1>3. GateInv' /\ EndedInv'
  BY <1>1, <1>2 DEF GateInv, EndedInv, Owners
<1>levels. /\ IsSequence(q) /\ Len(q) \in Nat /\ DOMAIN q = 1..Len(q)
      /\ \A i, j \in DOMAIN q : q[i] = q[j] => i = j
  BY Appended DEF Answer
<1> HIDE DEF q
<1>4. ASSUME DOMAIN session' = DOMAIN session, IsSequence(session'.savepoints),
             session'.state \in {"none", "active", "inerror", "gone"}
      PROVE  ShapeInv'
  BY <1>1, <1>2, <1>4, <1>levels DEF ShapeInv
<1>5. CASE outcome = "ok"
  <2>1. session' = done
    BY <1>5 DEF Command
  <2>2. Obeyed(q, done)
    BY <1>5 DEF q
  <2>3. ShapeInv'
    <3>1. DOMAIN session' = DOMAIN session
      BY <1>1, <2>1, <2>2 DEF ShapeInv, Obeyed
    <3> QED BY <1>4, <2>1, <2>2, <3>1 DEF Obeyed
  <2>4. MirrorInv'
    <3> DEFINE d == session'.savepoints
    <3>1. IsSequence(d) /\ Len(d) = Len(q) /\ \A i \in DOMAIN q \cap DOMAIN d : q[i] = d[i].level
      BY <2>1, <2>2 DEF Obeyed
    <3>2. DOMAIN d = 1..Len(d)
      <4> HIDE DEF d
      <4> QED BY <3>1, Appended
    <3>3. \A i, j \in DOMAIN d : d[i].level = d[j].level => i = j
      BY <1>levels, <3>1, <3>2
    <3> QED BY <1>2, <1>levels, <3>1, <3>3 DEF MirrorInv
  <2> QED BY <1>3, <2>3, <2>4 DEF IInv
<1>6. CASE outcome # "ok"
  <2>1. /\ DOMAIN session' = {"state", "writes", "savepoints"}
        /\ IsSequence(session'.savepoints)
        /\ \/ /\ session'.state = "inerror"
              /\ session.state \in {"active", "inerror"}
              /\ session'.savepoints = session.savepoints
           \/ session'.state = "gone"
           \/ session' = session /\ session.state = "none"
    BY <1>1, <1>6, CommandEffect
  <2>2. DOMAIN session' = DOMAIN session
    BY <1>1, <2>1 DEF ShapeInv
  <2>3. ShapeInv'
    BY <1>4, <2>1, <2>2
  <2>4. MirrorInv'
    <3>1. CASE session'.state \in {"none", "gone"}
      BY <3>1 DEF MirrorInv
    <3>2. CASE session'.state = "inerror" /\ session.state \in {"active", "inerror"}
               /\ session'.savepoints = session.savepoints
      <4>1. Follows(q, session.savepoints)
        BY <3>2 DEF q
      <4> QED BY <1>1, <1>2, <1>6, <3>2, <4>1 DEF MirrorInv, Follows
    <3> QED BY <2>1, <3>1, <3>2
  <2> QED BY <1>3, <2>3, <2>4 DEF IInv
<1> QED BY <1>5, <1>6

\* vps_module_savepoint.
LEMMA SavepointInv ==
    ASSUME IInv, NEW t \in Tables, Savepoint(t)
    PROVE  IInv'
<1> DEFINE level == Head(todo).level
           r == TxSavepoint(tx, level)
           c == tx.savepoints
           s == session.savepoints
<1>1. ShapeInv /\ MirrorInv /\ UNCHANGED <<pinned, cursor>>
  BY DEF IInv, Savepoint, SavepointAction
<1>2. CASE UNCHANGED <<tx, session>>
  BY <1>1, <1>2, Untouched
<1>3. ASSUME r.rc = "COMMAND_REQUIRED",
             NEW outcome \in Outcomes,
             Command(outcome, session.state = "active", AfterSavepoint(level)),
             tx' = IF outcome = "ok" THEN r.tx ELSE TxMarkFailed(r.tx)
      PROVE  IInv'
  <2> DEFINE q == Append(c, level)
             e == [level |-> level, mark |-> session.writes]
             d == Append(s, e)
             done == AfterSavepoint(level)
  <2>1. /\ tx.state = "ACTIVE" /\ tx.stream = 0 /\ ~Tracked(tx, level)
        /\ r.tx = [tx EXCEPT !.savepoints = q]
    BY <1>3 DEF TxSavepoint, TxCommandAllowed, Reply
  <2>2. /\ DOMAIN r.tx = DOMAIN tx /\ r.tx.savepoints = q
        /\ r.tx.state = "ACTIVE" /\ r.tx.stream = 0
    BY <1>1, <2>1 DEF ShapeInv
  <2>3. IsSequence(c) /\ IsSequence(s)
    BY <1>1 DEF ShapeInv
  <2>4. /\ IsSequence(q) /\ Len(c) \in Nat /\ DOMAIN c = 1..Len(c)
        /\ Len(q) = Len(c) + 1 /\ DOMAIN q = 1..(Len(c) + 1)
        /\ (\A i \in 1..Len(c) : q[i] = c[i]) /\ q[Len(c) + 1] = level
    <3> HIDE DEF c, level
    <3> QED BY <2>3, Appended
  <2>5. /\ IsSequence(d) /\ Len(s) \in Nat /\ DOMAIN s = 1..Len(s)
        /\ Len(d) = Len(s) + 1 /\ DOMAIN d = 1..(Len(s) + 1)
        /\ (\A i \in 1..Len(s) : d[i] = s[i]) /\ d[Len(s) + 1] = e
    <3> HIDE DEF s, e
    <3> QED BY <2>3, Appended
  <2>6. /\ \A i \in DOMAIN c : c[i] # level
        /\ \A i, j \in DOMAIN c : c[i] = c[j] => i = j
    BY <1>1, <2>1 DEF Tracked, ShapeInv
  <2>7. /\ DOMAIN done = {"state", "writes", "savepoints"} /\ done.state = session.state
        /\ done.savepoints = d
    BY <1>1 DEF ShapeInv, AfterSavepoint
  <2>8. session.state \in {"active", "inerror"} =>
            Len(c) = Len(s) /\ \A i \in 1..Len(s) : c[i] = s[i].level
    BY <1>1, <2>1, <2>4, <2>5 DEF MirrorInv
  <2>9. e.level = level
    OBVIOUS
  <2>10. outcome = "ok" => session.state = "active"
    BY <1>3 DEF Command
  <2>11. Command(outcome, session.state = "active", done)
    BY <1>3
  <2> HIDE DEF level, r, c, s, q, d, e, done
  <2>12. Answer(r.tx)
    <3>1. \A i, j \in DOMAIN q : q[i] = q[j] => i = j
      BY <2>4, <2>6
    <3> QED BY <2>1, <2>2, <2>4, <3>1 DEF Answer
  <2>13. session.state \in {"active", "inerror"} => Follows(q, s)
    <3> SUFFICES ASSUME session.state \in {"active", "inerror"}
                 PROVE  Follows(q, s)
      OBVIOUS
    <3>1. Len(c) = Len(s) /\ \A i \in 1..Len(s) : c[i] = s[i].level
      BY <2>8
    <3> QED BY <2>4, <2>5, <3>1 DEF Follows
  <2>14. outcome = "ok" => Obeyed(q, done)
    <3> SUFFICES ASSUME outcome = "ok" PROVE Obeyed(q, done)
      OBVIOUS
    <3>1. Len(c) = Len(s) /\ \A i \in 1..Len(s) : c[i] = s[i].level
      BY <2>8, <2>10
    <3>2. Len(d) = Len(q) /\ \A i \in DOMAIN q \cap DOMAIN d : q[i] = d[i].level
      BY <2>4, <2>5, <2>9, <3>1
    <3> QED BY <2>5, <2>7, <2>10, <3>2 DEF Obeyed
  <2>15. /\ session.state \in {"active", "inerror"} =>
                Follows(r.tx.savepoints, session.savepoints)
         /\ outcome = "ok" => Obeyed(r.tx.savepoints, done)
    BY <2>2, <2>13, <2>14 DEF s
  <2> QED BY <1>1, <1>3, <2>11, <2>12, <2>15, SavepointCommand
<1> QED BY <1>1, <1>2, <1>3 DEF Savepoint, SavepointAction

\* Levels cut at the same depth: what the coordinator keeps is still without repetition
\* and follows the server's savepoints, cut or not.
LEMMA CutLevels ==
    ASSUME ShapeInv, MirrorInv, NEW n \in 0..Len(tx.savepoints)
    PROVE  LET q == SubSeq(tx.savepoints, 1, n)
               d == SubSeq(session.savepoints, 1, n)
           IN  /\ IsSequence(q)
               /\ \A i, j \in DOMAIN q : q[i] = q[j] => i = j
               /\ session.state \in {"active", "inerror"} =>
                      /\ Follows(q, session.savepoints)
                      /\ n <= Len(session.savepoints) =>
                             /\ IsSequence(d)
                             /\ Len(d) = Len(q)
                             /\ \A i \in DOMAIN q \cap DOMAIN d : q[i] = d[i].level
<1> DEFINE c == tx.savepoints
           s == session.savepoints
           q == SubSeq(c, 1, n)
           d == SubSeq(s, 1, n)
<1>1. IsSequence(c) /\ IsSequence(s) /\ n \in 0..Len(c)
  BY DEF ShapeInv
<1>2. \A i, j \in DOMAIN c : c[i] = c[j] => i = j
  BY DEF ShapeInv
<1>3. session.state \in {"active", "inerror"} =>
          /\ \A i \in DOMAIN c \cap DOMAIN s : c[i] = s[i].level
          /\ Len(c) <= Len(s) + 1
  BY DEF MirrorInv
<1>4. SUFFICES /\ IsSequence(q)
               /\ \A i, j \in DOMAIN q : q[i] = q[j] => i = j
               /\ session.state \in {"active", "inerror"} =>
                      /\ Follows(q, s)
                      /\ n <= Len(s) =>
                             /\ IsSequence(d)
                             /\ Len(d) = Len(q)
                             /\ \A i \in DOMAIN q \cap DOMAIN d : q[i] = d[i].level
  OBVIOUS
<1> HIDE DEF c, s
<1>5. /\ IsSequence(q) /\ Len(c) \in Nat /\ DOMAIN c = 1..Len(c)
      /\ Len(q) = n /\ DOMAIN q = 1..n /\ \A i \in 1..n : q[i] = c[i]
  BY <1>1, Prefix
<1>6. Len(s) \in Nat /\ DOMAIN s = 1..Len(s)
  BY <1>1, Appended
<1>7. n <= Len(s) =>
          /\ IsSequence(d) /\ Len(d) = n /\ DOMAIN d = 1..n
          /\ \A i \in 1..n : d[i] = s[i]
  <2> SUFFICES ASSUME n <= Len(s)
               PROVE  /\ IsSequence(d) /\ Len(d) = n /\ DOMAIN d = 1..n
                      /\ \A i \in 1..n : d[i] = s[i]
    OBVIOUS
  <2>1. n \in 0..Len(s)
    BY <1>1, <1>5, <1>6
  <2> QED BY <1>1, <2>1, Prefix
<1> HIDE DEF q, d
<1>8. \A i, j \in DOMAIN q : q[i] = q[j] => i = j
  BY <1>1, <1>2, <1>5
<1>9. ASSUME session.state \in {"active", "inerror"}
      PROVE  Follows(q, s)
  BY <1>1, <1>3, <1>5, <1>6, <1>9 DEF Follows
<1>10. ASSUME session.state \in {"active", "inerror"}, n <= Len(s)
       PROVE  /\ IsSequence(d)
              /\ Len(d) = Len(q)
              /\ \A i \in DOMAIN q \cap DOMAIN d : q[i] = d[i].level
  <2>1. \A i \in 1..n : c[i] = s[i].level
    BY <1>1, <1>3, <1>5, <1>6, <1>10
  <2> QED BY <1>5, <1>7, <1>10, <2>1
<1> QED BY <1>5, <1>8, <1>9, <1>10

\* vps_module_release.
LEMMA ReleaseInv ==
    ASSUME IInv, NEW t \in Tables, Release(t)
    PROVE  IInv'
<1> DEFINE level == Head(todo).level
           r == TxRelease(tx, level)
           possible == session.state = "active" /\ ServerHas(level)
           done == AfterRelease(level)
           n == FindSavepoint(tx, level) - 1
           q == SubSeq(tx.savepoints, 1, n)
           d == SubSeq(session.savepoints, 1, n)
<1>1. ShapeInv /\ MirrorInv /\ UNCHANGED <<pinned, cursor>>
  BY DEF IInv, Release, SavepointAction
<1>2. CASE UNCHANGED <<tx, session>>
  BY <1>1, <1>2, Untouched
<1>3. ASSUME r.rc = "COMMAND_REQUIRED",
             NEW outcome \in Outcomes,
             Command(outcome, possible, done),
             tx' = IF outcome = "ok" THEN r.tx ELSE TxMarkFailed(r.tx)
      PROVE  IInv'
  <2>1. /\ tx.state = "ACTIVE" /\ tx.stream = 0 /\ Tracked(tx, level)
        /\ r.tx = [tx EXCEPT !.savepoints = q]
    BY <1>3 DEF TxRelease, TxCommandAllowed, Reply
  <2>2. /\ DOMAIN r.tx = DOMAIN tx /\ r.tx.savepoints = q
        /\ r.tx.state = "ACTIVE" /\ r.tx.stream = 0
    BY <1>1, <2>1 DEF ShapeInv
  <2>3. FindSavepoint(tx, level) \in 1..Len(tx.savepoints) /\ IsSequence(tx.savepoints)
    BY <1>1, <2>1, FindsSavepoint DEF ShapeInv
  <2>4. n \in 0..Len(tx.savepoints)
    <3>1. Len(tx.savepoints) \in Nat
      BY <2>3, Appended
    <3> QED BY <2>3, <3>1
  <2>5. /\ IsSequence(q)
        /\ \A i, j \in DOMAIN q : q[i] = q[j] => i = j
        /\ session.state \in {"active", "inerror"} => Follows(q, session.savepoints)
    <3> HIDE DEF n
    <3> QED BY <1>1, <2>4, CutLevels
  <2>6. Answer(r.tx)
    <3> HIDE DEF q, r
    <3> QED BY <2>1, <2>2, <2>5 DEF Answer
  <2>7. ASSUME outcome = "ok"
        PROVE  Obeyed(q, done)
    <3>1. session.state = "active" /\ ServerHas(level)
      BY <1>3, <2>7 DEF Command
    <3>2. /\ ServerFind(level) = FindSavepoint(tx, level)
          /\ ServerFind(level) \in 1..Len(session.savepoints)
      BY <1>1, <2>1, <3>1, FindsTheSame, FindsOnServer
    <3>3. /\ DOMAIN done = {"state", "writes", "savepoints"} /\ done.state = "active"
          /\ done.savepoints = d
      BY <1>1, <3>1, <3>2 DEF ShapeInv, AfterRelease
    <3>4. n <= Len(session.savepoints)
      <4>1. Len(session.savepoints) \in Nat
        BY <1>1, Appended DEF ShapeInv
      <4> QED BY <3>2, <4>1
    <3>5. /\ IsSequence(d) /\ Len(d) = Len(q)
          /\ \A i \in DOMAIN q \cap DOMAIN d : q[i] = d[i].level
      <4> HIDE DEF n
      <4> QED BY <1>1, <2>4, <3>1, <3>4, CutLevels
    <3> HIDE DEF q, d, done
    <3> QED BY <3>3, <3>5 DEF Obeyed
  <2>8. /\ session.state \in {"active", "inerror"} =>
               Follows(r.tx.savepoints, session.savepoints)
        /\ outcome = "ok" => Obeyed(r.tx.savepoints, done)
    BY <2>2, <2>5, <2>7
  <2> HIDE DEF r, possible, done
  <2> QED BY <1>1, <1>3, <2>6, <2>8, SavepointCommand
<1> QED BY <1>1, <1>2, <1>3 DEF Release, SavepointAction

\* vps_module_rollback_to.
LEMMA RollbackToInv ==
    ASSUME IInv, NEW t \in Tables, RollbackTo(t)
    PROVE  IInv'
<1> DEFINE level == Head(todo).level
           r == TxRollbackTo(tx, level)
           possible == session.state \in {"active", "inerror"} /\ ServerHas(level)
           done == AfterRollbackTo(level)
           n == FindSavepoint(tx, level)
           q == SubSeq(tx.savepoints, 1, n)
           d == SubSeq(session.savepoints, 1, n)
<1>1. ShapeInv /\ MirrorInv /\ UNCHANGED <<pinned, cursor>>
  BY DEF IInv, RollbackTo, SavepointAction
<1>2. CASE UNCHANGED <<tx, session>>
  BY <1>1, <1>2, Untouched
<1>3. ASSUME r.rc = "COMMAND_REQUIRED",
             NEW outcome \in Outcomes,
             Command(outcome, possible, done),
             tx' = IF outcome = "ok" THEN r.tx ELSE TxMarkFailed(r.tx)
      PROVE  IInv'
  <2>1. /\ tx.state \in {"ACTIVE", "FAILED"} /\ tx.stream = 0 /\ Tracked(tx, level)
        /\ r.tx = [tx EXCEPT !.savepoints = q, !.state = "ACTIVE"]
    BY <1>3 DEF TxRollbackTo, Reply
  <2>2. /\ DOMAIN r.tx = DOMAIN tx /\ r.tx.savepoints = q
        /\ r.tx.state = "ACTIVE" /\ r.tx.stream = 0
    BY <1>1, <2>1 DEF ShapeInv
  <2>3. FindSavepoint(tx, level) \in 1..Len(tx.savepoints) /\ IsSequence(tx.savepoints)
    BY <1>1, <2>1, FindsSavepoint DEF ShapeInv
  <2>4. n \in 0..Len(tx.savepoints)
    <3>1. Len(tx.savepoints) \in Nat
      BY <2>3, Appended
    <3> QED BY <2>3, <3>1
  <2>5. /\ IsSequence(q)
        /\ \A i, j \in DOMAIN q : q[i] = q[j] => i = j
        /\ session.state \in {"active", "inerror"} => Follows(q, session.savepoints)
    <3> HIDE DEF n
    <3> QED BY <1>1, <2>4, CutLevels
  <2>6. Answer(r.tx)
    <3> HIDE DEF q, r
    <3> QED BY <2>1, <2>2, <2>5 DEF Answer
  <2>7. ASSUME outcome = "ok"
        PROVE  Obeyed(q, done)
    <3>1. session.state \in {"active", "inerror"} /\ ServerHas(level)
      BY <1>3, <2>7 DEF Command
    <3>2. /\ ServerFind(level) = FindSavepoint(tx, level)
          /\ ServerFind(level) \in 1..Len(session.savepoints)
      BY <1>1, <2>1, <3>1, FindsTheSame, FindsOnServer
    <3>3. /\ DOMAIN done = {"state", "writes", "savepoints"} /\ done.state = "active"
          /\ done.savepoints = d
      BY <1>1, <3>1, <3>2 DEF ShapeInv, AfterRollbackTo
    <3>4. n <= Len(session.savepoints)
      <4>1. Len(session.savepoints) \in Nat
        BY <1>1, Appended DEF ShapeInv
      <4> QED BY <3>2, <4>1
    <3>5. /\ IsSequence(d) /\ Len(d) = Len(q)
          /\ \A i \in DOMAIN q \cap DOMAIN d : q[i] = d[i].level
      <4> HIDE DEF n
      <4> QED BY <1>1, <2>4, <3>1, <3>4, CutLevels
    <3> HIDE DEF q, d, done
    <3> QED BY <3>3, <3>5 DEF Obeyed
  <2>8. /\ session.state \in {"active", "inerror"} =>
               Follows(r.tx.savepoints, session.savepoints)
        /\ outcome = "ok" => Obeyed(r.tx.savepoints, done)
    BY <2>2, <2>5, <2>7
  <2> HIDE DEF r, possible, done
  <2> QED BY <1>1, <1>3, <2>6, <2>8, SavepointCommand
<1> QED BY <1>1, <1>2, <1>3 DEF RollbackTo, SavepointAction

-----------------------------------------------------------------------------
(* Scans *)

\* vps_cursor_advance on the pinned connection, with the gate taken in `gated' by c.
LEMMA AdvanceStreamInv ==
    ASSUME IInv, NEW c \in Cursors, NEW gated, NEW result \in Results,
           AdvanceStream(c, gated, result),
           DOMAIN gated = DOMAIN tx, gated.state = tx.state,
           gated.savepoints = tx.savepoints, gated.stream = 1,
           tx.state \in {"ACTIVE", "FAILED"},
           \A o \in Owners : o = c
    PROVE  IInv'
<1>1. ShapeInv /\ GateInv /\ MirrorInv
  BY DEF IInv
<1>2. /\ DOMAIN tx' = DOMAIN tx
      /\ tx'.savepoints = tx.savepoints
      /\ tx'.state \in {tx.state, "FAILED"}
      /\ tx'.stream = IF result = "row" THEN 1 ELSE 0
  <2> DEFINE failed == TxMarkFailed(gated)
  <2>1. /\ DOMAIN failed = DOMAIN gated /\ failed.state = "FAILED"
        /\ failed.savepoints = gated.savepoints
    BY <1>1 DEF TxMarkFailed, ShapeInv
  <2>2. \/ result = "row" /\ tx' = gated
        \/ result = "complete" /\ tx' = [gated EXCEPT !.stream = 0]
        \/ result \notin {"row", "complete"} /\ tx' = [failed EXCEPT !.stream = 0]
    BY DEF AdvanceStream, TxStreamEnd, Results
  <2> HIDE DEF failed
  <2>3. CASE result = "row" /\ tx' = gated
    BY <2>3
  <2>4. CASE result = "complete" /\ tx' = [gated EXCEPT !.stream = 0]
    BY <1>1, <2>4 DEF ShapeInv
  <2>5. CASE result \notin {"row", "complete"} /\ tx' = [failed EXCEPT !.stream = 0]
    BY <1>1, <2>1, <2>5 DEF ShapeInv
  <2> QED BY <2>2, <2>3, <2>4, <2>5
<1>3. /\ DOMAIN session' = {"state", "writes", "savepoints"}
      /\ IsSequence(session'.savepoints)
      /\ session'.savepoints = session.savepoints \/ session'.state \in {"none", "gone"}
      /\ session'.state \in {"none", "active", "inerror", "gone"}
      /\ session'.state \in {"active", "inerror"} => session.state \in {"active", "inerror"}
  <2>1. PICK outcome \in Outcomes, possible \in {session.state = "active", FALSE} :
            Command(outcome, possible, session)
    BY DEF AdvanceStream, Results, Outcomes
  <2>2. CASE session' = session
    BY <1>1, <2>2 DEF ShapeInv
  <2>3. CASE outcome # "ok"
    <3>1. /\ DOMAIN session' = {"state", "writes", "savepoints"}
          /\ IsSequence(session'.savepoints)
          /\ \/ /\ session'.state = "inerror"
                /\ session.state \in {"active", "inerror"}
                /\ session'.savepoints = session.savepoints
             \/ session'.state = "gone"
             \/ session' = session /\ session.state = "none"
      BY <1>1, <2>1, <2>3, CommandEffect
    <3> QED BY <3>1
  <2> QED BY <1>1, <2>1, <2>2, <2>3, CommandEffect
<1>4. /\ cursor' \in [Cursors -> CursorRecords]
      /\ \A o \in Cursors \ {c} : cursor'[o] = cursor[o]
      /\ cursor'[c].stream = IF result = "row" THEN 1 ELSE 0
      /\ result = "row" => cursor'[c].state = "ROW_READY"
  <2>1. cursor \in [Cursors -> CursorRecords]
    BY <1>1 DEF ShapeInv
  <2>2. CASE result = "row" /\ cursor' = [cursor EXCEPT ![c].state = "ROW_READY", ![c].stream = 1]
    BY <2>1, <2>2 DEF CursorRecords
  <2>3. CASE result = "complete" /\ cursor' = [cursor EXCEPT ![c].state = "EOF", ![c].stream = 0]
    BY <2>1, <2>3 DEF CursorRecords
  <2>4. ASSUME result \notin {"row", "complete"}, NEW u \in BOOLEAN,
               cursor' = [cursor EXCEPT ![c] = [state |-> "FAILED", stream |-> 0,
                                                undrained |-> u]]
        PROVE  <1>4
    BY <2>1, <2>4 DEF CursorRecords
  <2> QED BY <2>2, <2>3, <2>4 DEF AdvanceStream, Results
<1>5. ShapeInv'
  BY <1>1, <1>2, <1>3, <1>4 DEF ShapeInv
<1>6. GateInv'
  <2>1. \A o \in Cursors \ {c} : cursor'[o].stream # 1
    BY <1>4 DEF Owners
  <2> QED BY <1>2, <1>4, <2>1 DEF GateInv, Owners
<1>7. EndedInv'
  BY <1>2 DEF EndedInv
<1>8. MirrorInv'
  BY <1>1, <1>2, <1>3, MirrorKept
<1> QED BY <1>5, <1>6, <1>7, <1>8 DEF IInv

\* vps_transaction_begin and vps_transaction_stream_begin as xFilter uses them: the
\* gate is granted to an active transaction whose gate is free, and a refusal changes
\* no more than the participants.
LEMMA GateAnswer ==
    ASSUME ShapeInv, NEW t, tx.state # "IDLE"
    PROVE  LET gate == StreamGate(t)
           IN  /\ DOMAIN gate.tx = DOMAIN tx
               /\ gate.tx.state = tx.state
               /\ gate.tx.savepoints = tx.savepoints
               /\ IF gate.rc = "OK"
                  THEN tx.state = "ACTIVE" /\ tx.stream = 0 /\ gate.tx.stream = 1
                  ELSE gate.tx.stream = tx.stream
<1> DEFINE join == TxBegin(tx, IdentityOf[t], t)
           gate == StreamGate(t)
<1>1. /\ DOMAIN join.tx = DOMAIN tx /\ join.tx.state = tx.state
      /\ join.tx.savepoints = tx.savepoints /\ join.tx.stream = tx.stream
      /\ join.rc = "OK" => tx.state \in {"ACTIVE", "FAILED"}
  <2>1. /\ join.tx = tx \/ join.tx = [tx EXCEPT !.participants = @ \cup {t}]
        /\ join.rc = "OK" => tx.state \in {"ACTIVE", "FAILED"}
    BY DEF TxBegin, Reply, ShapeInv
  <2> HIDE DEF join
  <2> QED BY <2>1 DEF ShapeInv
<1>2. gate = IF join.rc = "OK" THEN TxStreamBegin(join.tx) ELSE join
  BY DEF StreamGate
<1> SUFFICES /\ DOMAIN gate.tx = DOMAIN tx
             /\ gate.tx.state = tx.state
             /\ gate.tx.savepoints = tx.savepoints
             /\ IF gate.rc = "OK"
                THEN tx.state = "ACTIVE" /\ tx.stream = 0 /\ gate.tx.stream = 1
                ELSE gate.tx.stream = tx.stream
  OBVIOUS
<1> HIDE DEF join, gate
<1>3. CASE join.rc # "OK"
  BY <1>1, <1>2, <1>3
<1>4. CASE join.rc = "OK"
  <2>1. gate = TxStreamBegin(join.tx)
    BY <1>2, <1>4
  <2>2. \/ /\ gate.rc = "OK" /\ join.tx.state = "ACTIVE" /\ join.tx.stream = 0
           /\ gate.tx = [join.tx EXCEPT !.stream = 1]
        \/ gate.rc # "OK" /\ gate.tx = join.tx
    BY <2>1 DEF TxStreamBegin, Reply
  <2> QED BY <1>1, <2>2 DEF ShapeInv
<1> QED BY <1>3, <1>4

\* A cursor that does not own the gate changes its machine state only.
LEMMA CursorMoves ==
    ASSUME IInv, NEW c \in Cursors, c \notin Owners,
           NEW s \in {"CLOSED", "OPEN", "FILTERING", "ROW_READY", "EOF", "FAILED"},
           cursor' = [cursor EXCEPT ![c].state = s],
           DOMAIN tx' = DOMAIN tx, tx'.state = tx.state, tx'.stream = tx.stream,
           tx'.savepoints = tx.savepoints,
           UNCHANGED <<pinned, session>>
    PROVE  IInv'
<1>1. ShapeInv /\ GateInv /\ EndedInv /\ MirrorInv
  BY DEF IInv
<1>2. cursor \in [Cursors -> CursorRecords]
  BY <1>1 DEF ShapeInv
<1>3. /\ cursor' \in [Cursors -> CursorRecords]
      /\ \A o \in Cursors : cursor'[o].stream = cursor[o].stream
      /\ \A o \in Cursors \ {c} : cursor'[o] = cursor[o]
  BY <1>2 DEF CursorRecords
<1>4. Owners' = Owners
  BY <1>3 DEF Owners
<1>5. ShapeInv'
  BY <1>1, <1>3 DEF ShapeInv
<1>6. GateInv'
  <2>1. \A o \in Owners : cursor'[o] = cursor[o]
    BY <1>3 DEF Owners
  <2> QED BY <1>1, <1>4, <2>1 DEF GateInv
<1>7. EndedInv'
  BY <1>1 DEF EndedInv
<1>8. MirrorInv'
  BY <1>1, MirrorKept
<1> QED BY <1>5, <1>6, <1>7, <1>8 DEF IInv

\* vps_module_open.
LEMMA OpenCursorInv ==
    ASSUME IInv, NEW c \in Cursors, OpenCursor(c)
    PROVE  IInv'
<1>1. c \notin Owners
  BY DEF OpenCursor, IInv, GateInv
<1> QED BY <1>1, CursorMoves DEF OpenCursor, remote

\* vps_cursor_advance outside a transaction.
LEMMA AdvanceAloneInv ==
    ASSUME IInv, NEW c \in Cursors, c \notin Owners, AdvanceAlone(c), pinned' = pinned
    PROVE  IInv'
BY CursorMoves DEF AdvanceAlone

\* vps_module_filter.
LEMMA FilterInv ==
    ASSUME IInv, NEW c \in Cursors, Filter(c)
    PROVE  IInv'
<1> DEFINE gate == StreamGate(CursorTable[c])
<1>1. ShapeInv /\ GateInv /\ EndedInv /\ MirrorInv /\ pinned' = pinned
  BY DEF IInv, Filter
<1>2. CASE UNCHANGED <<tx, session, cursor>>
  BY <1>1, <1>2, Untouched
<1>3. ASSUME cursor[c].state \in {"OPEN", "EOF"}
      PROVE  c \notin Owners
  BY <1>1, <1>3 DEF GateInv
<1>4. ASSUME cursor[c].state \in {"OPEN", "EOF"},
             NEW s \in {cursor[c].state, "FAILED"},
             cursor' = [cursor EXCEPT ![c].state = s], UNCHANGED <<tx, session>>
      PROVE  IInv'
  BY <1>1, <1>3, <1>4, CursorMoves
<1>5. CASE cursor[c].state \in {"OPEN", "EOF"} /\ AdvanceAlone(c)
  BY <1>1, <1>3, <1>5, AdvanceAloneInv
<1>6. ASSUME tx.state # "IDLE"
      PROVE  /\ DOMAIN gate.tx = DOMAIN tx
             /\ gate.tx.state = tx.state
             /\ gate.tx.savepoints = tx.savepoints
             /\ IF gate.rc = "OK"
                THEN tx.state = "ACTIVE" /\ tx.stream = 0 /\ gate.tx.stream = 1
                ELSE gate.tx.stream = tx.stream
  BY <1>1, <1>6, GateAnswer
<1>7. CASE /\ cursor[c].state \in {"OPEN", "EOF"} /\ tx.state # "IDLE" /\ gate.rc # "OK"
           /\ tx' = gate.tx /\ session' = session
           /\ cursor' = [cursor EXCEPT ![c].state = "FILTERING"]
  <2> HIDE DEF gate
  <2> QED BY <1>1, <1>3, <1>6, <1>7, CursorMoves
<1>8. ASSUME tx.state # "IDLE", gate.rc = "OK",
             NEW result \in Results, AdvanceStream(c, gate.tx, result)
      PROVE  IInv'
  <2> HIDE DEF gate
  <2>1. /\ DOMAIN gate.tx = DOMAIN tx /\ gate.tx.state = tx.state
        /\ gate.tx.savepoints = tx.savepoints /\ gate.tx.stream = 1
        /\ tx.state = "ACTIVE" /\ tx.stream = 0
    BY <1>6, <1>8
  <2>2. \A o \in Owners : o = c
    BY <1>1, <2>1 DEF GateInv, Owners
  <2> QED BY <1>8, <2>1, <2>2, AdvanceStreamInv
<1>9. CASE /\ cursor[c].state \in {"OPEN", "EOF"} /\ tx.state # "IDLE" /\ gate.rc = "OK"
           /\ Command("broken", FALSE, session) /\ tx' = gate.tx
           /\ cursor' = [cursor EXCEPT ![c].state = "FAILED", ![c].stream = 1]
  <2> HIDE DEF gate
  <2>1. /\ DOMAIN tx' = DOMAIN tx /\ tx'.state = "ACTIVE" /\ tx.state = "ACTIVE"
        /\ tx'.savepoints = tx.savepoints /\ tx'.stream = 1 /\ tx.stream = 0
    BY <1>6, <1>9
  <2>2. /\ DOMAIN session' = {"state", "writes", "savepoints"}
        /\ IsSequence(session'.savepoints)
        /\ session'.state \in {"none", "gone"}
    <3>1. "broken" \in Outcomes
      BY DEF Outcomes
    <3>2. session' = IF session.state = "none" THEN session ELSE GoneSession
      BY <1>9 DEF Command
    <3> QED BY <1>1, <3>2, FreshSessions DEF ShapeInv
  <2>3. /\ cursor' \in [Cursors -> CursorRecords]
        /\ cursor'[c].stream = 1 /\ cursor'[c].state = "FAILED"
        /\ \A o \in Cursors \ {c} : cursor'[o] = cursor[o]
    <3>1. cursor \in [Cursors -> CursorRecords]
      BY <1>1 DEF ShapeInv
    <3> QED BY <1>9, <3>1 DEF CursorRecords
  <2>4. ShapeInv'
    BY <1>1, <2>1, <2>2, <2>3 DEF ShapeInv
  <2>5. GateInv'
    <3>1. \A o \in Cursors : cursor[o].stream # 1
      BY <1>1, <2>1 DEF GateInv, Owners
    <3> QED BY <2>1, <2>3, <3>1 DEF GateInv, Owners
  <2>6. EndedInv' /\ MirrorInv'
    BY <2>1, <2>2 DEF EndedInv, MirrorInv
  <2> QED BY <2>4, <2>5, <2>6 DEF IInv
<1> QED BY <1>2, <1>4, <1>5, <1>7, <1>8, <1>9 DEF Filter

\* vps_module_next.
LEMMA NextRowInv ==
    ASSUME IInv, NEW c \in Cursors, NextRow(c)
    PROVE  IInv'
<1>1. ShapeInv /\ GateInv /\ EndedInv /\ pinned' = pinned
  BY DEF IInv, NextRow
<1>2. CASE cursor[c].stream = 1
  <2>1. tx.stream = 1 /\ \A o \in Owners : o = c
    BY <1>1, <1>2 DEF GateInv, Owners
  <2>2. tx.state \in {"ACTIVE", "FAILED"}
    <3>1. tx.state \in {"IDLE", "ACTIVE", "FAILED", "AMBIGUOUS"}
      BY <1>1 DEF ShapeInv
    <3> QED BY <1>1, <2>1, <3>1 DEF EndedInv
  <2>3. PICK result \in Results : AdvanceStream(c, tx, result)
    BY <1>2 DEF NextRow
  <2> QED BY <2>1, <2>2, <2>3, AdvanceStreamInv
<1>3. CASE cursor[c].stream # 1
  BY <1>1, <1>3, AdvanceAloneInv DEF NextRow, Owners
<1> QED BY <1>2, <1>3

\* vps_module_close.
LEMMA CloseCursorInv ==
    ASSUME IInv, NEW c \in Cursors, CloseCursor(c)
    PROVE  IInv'
<1>1. ShapeInv /\ GateInv /\ EndedInv /\ MirrorInv /\ pinned' = pinned
  BY DEF IInv, CloseCursor
<1>2. /\ DOMAIN session' = {"state", "writes", "savepoints"}
      /\ IsSequence(session'.savepoints)
      /\ session'.savepoints = session.savepoints \/ session'.state \in {"none", "gone"}
      /\ session'.state \in {"none", "active", "inerror", "gone"}
      /\ session'.state \in {"active", "inerror"} => session.state \in {"active", "inerror"}
  <2>1. CASE session' = session
    BY <1>1, <2>1 DEF ShapeInv
  <2>2. ASSUME NEW outcome \in Outcomes, NEW possible, outcome # "ok",
               Command(outcome, possible, session)
        PROVE  <1>2
    <3>1. /\ DOMAIN session' = {"state", "writes", "savepoints"}
          /\ IsSequence(session'.savepoints)
          /\ \/ /\ session'.state = "inerror"
                /\ session.state \in {"active", "inerror"}
                /\ session'.savepoints = session.savepoints
             \/ session'.state = "gone"
             \/ session' = session /\ session.state = "none"
      BY <1>1, <2>2, CommandEffect
    <3> QED BY <3>1
  <2>3. \/ session' = session
        \/ Command("error", FALSE, session)
        \/ Command("broken", FALSE, session)
    <3>1. Command("ok", session.state = "active", session) => session' = session
      BY DEF Command
    <3> QED BY <3>1 DEF CloseCursor
  <2>4. "error" \in Outcomes /\ "broken" \in Outcomes
    BY DEF Outcomes
  <2> QED BY <2>1, <2>2, <2>3, <2>4
<1>3. /\ DOMAIN tx' = DOMAIN tx /\ tx'.state = tx.state
      /\ tx'.savepoints = tx.savepoints
      /\ tx'.stream = IF cursor[c].stream = 1 THEN 0 ELSE tx.stream
  BY <1>1 DEF CloseCursor, OpenGate, TxStreamEnd, ShapeInv
<1>4. /\ cursor' \in [Cursors -> CursorRecords]
      /\ cursor'[c].stream = 0
      /\ \A o \in Cursors \ {c} : cursor'[o] = cursor[o]
  <2>1. cursor \in [Cursors -> CursorRecords] /\ cursor' = [cursor EXCEPT ![c] = ClosedCursor]
    BY <1>1 DEF ShapeInv, CloseCursor
  <2>2. ClosedCursor \in CursorRecords /\ ClosedCursor.stream = 0
    BY DEF ClosedCursor, CursorRecords
  <2> QED BY <2>1, <2>2
<1>5. ShapeInv'
  BY <1>1, <1>2, <1>3, <1>4 DEF ShapeInv
<1>6. GateInv'
  <2>1. Owners' = Owners \ {c}
    BY <1>4 DEF Owners
  <2>2. (c \in Owners) = (cursor[c].stream = 1)
    BY DEF Owners
  <2>3. \A o \in Owners' : cursor'[o] = cursor[o]
    BY <1>4, <2>1 DEF Owners
  <2>4. CASE c \in Owners
    <3>1. Owners' = {} /\ tx'.stream = 0
      BY <1>1, <1>3, <2>1, <2>2, <2>4 DEF GateInv
    <3> QED BY <3>1 DEF GateInv
  <2>5. CASE c \notin Owners
    <3>1. Owners' = Owners /\ tx'.stream = tx.stream
      BY <1>3, <2>1, <2>2, <2>5
    <3> QED BY <1>1, <2>3, <3>1 DEF GateInv
  <2> QED BY <2>4, <2>5
<1>7. EndedInv'
  <2> SUFFICES ASSUME tx'.state \in {"IDLE", "AMBIGUOUS"} PROVE EndedInv'
    BY DEF EndedInv
  <2>1. /\ tx.stream = 0 /\ pinned = NoIdentity /\ session.state = "none"
        /\ tx.state = "IDLE" => tx.savepoints = <<>>
    BY <1>1, <1>3 DEF EndedInv
  <2>2. session'.state \in {"none", "gone"}
    BY <1>2, <2>1
  <2>3. session' = session
    BY <2>1 DEF CloseCursor, Command
  <2> QED BY <1>1, <1>3, <2>1, <2>3 DEF EndedInv
<1>8. MirrorInv'
  BY <1>1, <1>2, <1>3, MirrorKept
<1> QED BY <1>5, <1>6, <1>7, <1>8 DEF IInv

-----------------------------------------------------------------------------
(* The theorems *)

\* The program starts without transaction, connection or cursor (vps_transaction_init).
LEMMA InitInv == Init => IInv
<1> SUFFICES ASSUME Init PROVE IInv
  OBVIOUS
<1>1. /\ DOMAIN tx = {"state", "identity", "participants", "savepoints", "stream"}
      /\ tx.state = "IDLE" /\ tx.stream = 0 /\ tx.savepoints = <<>>
  BY DEF Init, ResetActive
<1>2. /\ DOMAIN session = {"state", "writes", "savepoints"}
      /\ session.state = "none" /\ session.savepoints = <<>> /\ pinned = NoIdentity
  BY FreshSessions DEF Init
<1>3. cursor \in [Cursors -> CursorRecords] /\ \A c \in Cursors : cursor[c].stream = 0
  BY DEF Init, ClosedCursor, CursorRecords
<1>4. /\ IsSequence(tx.savepoints) /\ IsSequence(session.savepoints)
      /\ DOMAIN tx.savepoints = {}
  BY <1>1, <1>2, FreshSessions
<1>5. ShapeInv
  BY <1>1, <1>2, <1>3, <1>4 DEF ShapeInv
<1>6. GateInv
  BY <1>1, <1>3 DEF GateInv, Owners
<1>7. EndedInv /\ MirrorInv
  BY <1>1, <1>2 DEF EndedInv, MirrorInv
<1> QED BY <1>5, <1>6, <1>7 DEF IInv

\* Every step of the application, of SQLite and of the callbacks keeps the invariant.
LEMMA NextInv ==
    ASSUME IInv, [Next]_vars
    PROVE  IInv'
<1>1. CASE UNCHANGED vars
  BY <1>1, Untouched DEF vars, remote
<1>2. CASE Application
  BY <1>2, Untouched DEF Application, AppBegin, AppWrite, AppSavepoint, AppRollbackTo,
        AppRelease, AppCommit, AppRollback, AppScan, AppStep, AppRescan, AppFinish,
        Request, remote
<1>3. CASE Sqlite
  BY <1>3, Untouched DEF Sqlite, remote
<1>4. ASSUME NEW t \in Tables, Sync(t)
      PROVE  IInv'
  BY <1>4, Untouched DEF Sync, remote
<1>5. ASSUME NEW t \in Tables, Commit(t) \/ Rollback(t)
      PROVE  IInv'
  BY <1>5, EndInv DEF Commit, Rollback
<1>6. ASSUME NEW t \in Tables,
             Begin(t) \/ Savepoint(t) \/ Release(t) \/ RollbackTo(t) \/ Update(t)
      PROVE  IInv'
  BY <1>6, BeginInv, SavepointInv, ReleaseInv, RollbackToInv, UpdateInv
<1>7. ASSUME NEW c \in Cursors, OpenCursor(c) \/ Filter(c) \/ NextRow(c) \/ CloseCursor(c)
      PROVE  IInv'
  BY <1>7, OpenCursorInv, FilterInv, NextRowInv, CloseCursorInv
<1> QED BY <1>1, <1>2, <1>3, <1>4, <1>5, <1>6, <1>7 DEF Next, Callback

\* Throughout, the gate has an owner exactly while it is taken and coordinator and
\* server agree on the savepoints, as the four parts of the invariant say.
THEOREM TxInvariant == Spec => []IInv
BY InitInv, NextInv, PTL DEF Spec

\* The stream gate is taken exactly while one cursor holds it, for any number of cursors:
\* no path through xFilter, xNext and xClose leaks it or opens it under a live stream.
THEOREM GateIsOwned == Spec => []GateHasOneOwner
<1>1. IInv => GateHasOneOwner
  <2> SUFFICES ASSUME IInv PROVE tx.stream = Cardinality(Owners)
    BY DEF GateHasOneOwner, Owners
  <2>1. GateInv /\ tx.stream \in {0, 1}
    BY DEF IInv, ShapeInv
  <2>2. CASE tx.stream = 0
    <3>1. Owners = {}
      BY <2>1, <2>2 DEF GateInv, Owners
    <3> QED BY <2>2, <3>1, FS_EmptySet
  <2>3. CASE tx.stream = 1
    <3>1. PICK c \in Cursors : c \in Owners
      BY <2>1, <2>3 DEF GateInv
    <3>2. Owners = {c}
      BY <2>1, <3>1 DEF GateInv
    <3> QED BY <2>3, <3>2, FS_Singleton
  <2> QED BY <2>1, <2>2, <2>3
<1> QED BY <1>1, TxInvariant, PTL

\* While both sides are healthy they have the same savepoints in the same order, at any
\* depth: a ROLLBACK TO never names another point than SQLite means.
THEOREM SavepointsAgree == Spec => []SavepointsMirrored
<1>1. IInv => SavepointsMirrored
  <2> DEFINE c == tx.savepoints
             s == session.savepoints
  <2> SUFFICES ASSUME IInv, tx.state = "ACTIVE", session.state = "active"
               PROVE  c = [i \in DOMAIN s |-> s[i].level]
    BY DEF SavepointsMirrored
  <2>1. IsSequence(c) /\ IsSequence(s)
    BY DEF IInv, ShapeInv
  <2>2. /\ Len(c) = Len(s)
        /\ \A i \in DOMAIN c \cap DOMAIN s : c[i] = s[i].level
    BY DEF IInv, MirrorInv
  <2> HIDE DEF c, s
  <2>3. DOMAIN c = 1..Len(c) /\ DOMAIN s = 1..Len(s)
    BY <2>1, Appended
  <2>4. c = [i \in DOMAIN c |-> c[i]]
    <3>1. c \in [1..Len(c) -> {c[i] : i \in DOMAIN c}]
      BY <2>1, LenProperties DEF IsSequence
    <3> QED BY <2>3, <3>1
  <2> QED BY <2>2, <2>3, <2>4
<1> QED BY <1>1, TxInvariant, PTL

\* What a step keeps while a cursor streams.
StreamKept ==
    tx.stream = 1 /\ session'.state \notin {"gone", "none"} =>
        session'.writes = session.writes /\ session'.savepoints = session.savepoints

\* A command that is only there to fetch, cancel or drain changes no data.
LEMMA FetchChangesNothing ==
    ASSUME ShapeInv, NEW outcome \in Outcomes, NEW possible,
           Command(outcome, possible, session)
    PROVE  StreamKept
<1>1. CASE session' = session
  BY <1>1 DEF StreamKept
<1>2. CASE session'.state \in {"gone", "none"}
  BY <1>2 DEF StreamKept
<1>3. CASE session'.writes = session.writes /\ session'.savepoints = session.savepoints
  BY <1>3 DEF StreamKept
<1> QED BY <1>1, <1>2, <1>3, CommandEffect

\* Transaction and write callbacks find the gate taken.
LEMMA TransactionKeepsStream ==
    ASSUME IInv, NEW t \in Tables,
           \/ Begin(t) \/ Sync(t) \/ Commit(t) \/ Rollback(t)
           \/ Savepoint(t) \/ Release(t) \/ RollbackTo(t) \/ Update(t)
    PROVE  StreamKept
<1> SUFFICES ASSUME tx.stream = 1, session'.state \notin {"gone", "none"}
             PROVE  session' = session
  BY DEF StreamKept
<1>1. tx.state # "IDLE"
  BY DEF IInv, EndedInv
<1>2. CASE Begin(t)
  BY <1>1, <1>2 DEF Begin, TxBegin, Reply, remote
<1>3. CASE Sync(t)
  BY <1>3 DEF Sync, remote
<1>4. ASSUME NEW callback, NEW op, EndTransaction(t, callback, op)
      PROVE  session' = session
  <2>1. TxEnd(tx, op).rc # "COMMAND_REQUIRED"
    BY DEF TxEnd, Reply
  <2> QED BY <1>4, <2>1 DEF EndTransaction, EndWithoutCommand, EndWithCommand, remote
<1>5. TxCommandAllowed(tx) # "OK" /\ TxCommandAllowed(tx) # "COMMAND_REQUIRED"
  BY DEF TxCommandAllowed
<1>6. ASSUME NEW level
      PROVE  /\ TxSavepoint(tx, level).rc # "COMMAND_REQUIRED"
             /\ TxRelease(tx, level).rc # "COMMAND_REQUIRED"
             /\ TxRollbackTo(tx, level).rc # "COMMAND_REQUIRED"
  BY <1>5 DEF TxSavepoint, TxRelease, TxRollbackTo, Reply
<1>7. CASE Savepoint(t) \/ Release(t) \/ RollbackTo(t)
  BY <1>6, <1>7 DEF Savepoint, Release, RollbackTo, SavepointAction
<1>8. CASE Update(t)
  BY <1>5, <1>8 DEF Update, UpdateRejected, UpdateRefused, UpdateRuns, UpdateFindsNoRow,
        UpdateLosesTail, remote
<1> QED BY <1>2, <1>3, <1>4, <1>7, <1>8 DEF Commit, Rollback

\* Scan callbacks fetch, cancel and drain.
LEMMA ScanKeepsStream ==
    ASSUME IInv, NEW c \in Cursors,
           OpenCursor(c) \/ Filter(c) \/ NextRow(c) \/ CloseCursor(c)
    PROVE  StreamKept
<1>1. ShapeInv
  BY DEF IInv
<1>2. CASE session' = session
  BY <1>2 DEF StreamKept
<1>3. ASSUME NEW gated, NEW result, AdvanceStream(c, gated, result)
      PROVE  StreamKept
  <2>1. \E outcome \in Outcomes, possible \in BOOLEAN : Command(outcome, possible, session)
    BY <1>3 DEF AdvanceStream, Outcomes
  <2> QED BY <1>1, <2>1, FetchChangesNothing
<1>4. CASE OpenCursor(c)
  BY <1>2, <1>4 DEF OpenCursor, remote
<1>5. CASE Filter(c)
  <2>1. "broken" \in Outcomes
    BY DEF Outcomes
  <2>2. Command("broken", FALSE, session) => StreamKept
    BY <1>1, <2>1, FetchChangesNothing
  <2> QED BY <1>2, <1>3, <1>5, <2>2 DEF Filter, AdvanceAlone
<1>6. CASE NextRow(c)
  BY <1>2, <1>3, <1>6 DEF NextRow, AdvanceAlone
<1>7. CASE CloseCursor(c)
  <2>1. \/ session' = session
        \/ \E outcome \in Outcomes, possible \in BOOLEAN :
               Command(outcome, possible, session)
    BY <1>7 DEF CloseCursor, Outcomes
  <2> QED BY <1>1, <1>2, <2>1, FetchChangesNothing
<1> QED BY <1>4, <1>5, <1>6, <1>7

\* While a cursor streams from the pinned connection no callback of any table changes the
\* writes or the savepoints of its session, for any number of tables and cursors.
THEOREM StreamIsIsolated == Spec => StreamIsolated
<1>1. ASSUME IInv, [Next]_vars
      PROVE  StreamKept
  <2>1. CASE UNCHANGED remote
    BY <2>1 DEF StreamKept, remote
  <2>2. CASE UNCHANGED vars
    BY <2>1, <2>2 DEF vars
  <2>3. CASE Application
    BY <2>1, <2>3 DEF Application, AppBegin, AppWrite, AppSavepoint, AppRollbackTo,
          AppRelease, AppCommit, AppRollback, AppScan, AppStep, AppRescan, AppFinish, Request
  <2>4. CASE Sqlite
    BY <2>1, <2>4 DEF Sqlite
  <2>5. CASE Callback
    BY <1>1, <2>5, TransactionKeepsStream, ScanKeepsStream DEF Callback
  <2> QED BY <1>1, <2>2, <2>3, <2>4, <2>5 DEF Next
<1>2. IInv /\ [Next]_vars =>
          [tx.stream = 1 /\ session'.state \notin {"gone", "none"} =>
               session'.writes = session.writes
               /\ session'.savepoints = session.savepoints]_vars
  BY <1>1 DEF StreamKept
<1> QED BY <1>2, TxInvariant, PTL DEF Spec, StreamIsolated

\* An unknown outcome of COMMIT or ROLLBACK is final, whatever SQLite calls afterwards:
\* the coordinator stays ambiguous, pins no connection and nothing more is committed.
THEOREM AmbiguityIsFinal == Spec => AmbiguousIsFinal
<1> DEFINE Kept == tx'.state = "AMBIGUOUS" /\ pinned' = NoIdentity /\ committed' = committed
<1>1. ASSUME IInv, [Next]_vars, tx.state = "AMBIGUOUS"
      PROVE  Kept
  <2>1. ShapeInv /\ GateInv /\ tx.stream = 0 /\ pinned = NoIdentity
    BY <1>1 DEF IInv, EndedInv
  <2>2. CASE tx' = tx /\ pinned' = pinned /\ committed' = committed
    BY <1>1, <2>1, <2>2
  <2> HIDE DEF Kept
  <2>3. CASE UNCHANGED vars
    BY <2>2, <2>3 DEF vars, remote, ghosts
  <2>4. CASE Application
    BY <2>2, <2>4 DEF Application, AppBegin, AppWrite, AppSavepoint, AppRollbackTo,
          AppRelease, AppCommit, AppRollback, AppScan, AppStep, AppRescan, AppFinish,
          Request, remote, ghosts
  <2>5. CASE Sqlite
    BY <2>2, <2>5 DEF Sqlite, remote
  <2>6. ASSUME NEW t \in Tables, Begin(t) \/ Sync(t)
        PROVE  Kept
    BY <1>1, <2>2, <2>6 DEF Begin, Sync, TxBegin, Reply, remote, ghosts
  <2>7. ASSUME NEW t \in Tables, NEW callback, NEW op, EndTransaction(t, callback, op)
        PROVE  Kept
    <3>1. TxEnd(tx, op).rc # "COMMAND_REQUIRED"
      BY <1>1 DEF TxEnd, Reply
    <3> QED BY <2>2, <2>7, <3>1 DEF EndTransaction, EndWithoutCommand, EndWithCommand, remote
  <2>8. ASSUME NEW t \in Tables,
               Savepoint(t) \/ Release(t) \/ RollbackTo(t) \/ Update(t)
        PROVE  Kept
    <3>1. TxCommandAllowed(tx) = "AMBIGUOUS_OUTCOME"
      BY <1>1 DEF TxCommandAllowed
    <3>2. ASSUME NEW level
          PROVE  /\ TxSavepoint(tx, level).rc # "COMMAND_REQUIRED"
                 /\ TxRelease(tx, level).rc # "COMMAND_REQUIRED"
                 /\ TxRollbackTo(tx, level).rc # "COMMAND_REQUIRED"
      BY <1>1, <3>1 DEF TxSavepoint, TxRelease, TxRollbackTo, Reply
    <3>3. CASE Update(t)
      BY <2>2, <3>1, <3>3 DEF Update, UpdateRejected, UpdateRefused, UpdateRuns,
            UpdateFindsNoRow, UpdateLosesTail, remote, ghosts
    <3>4. CASE Savepoint(t) \/ Release(t) \/ RollbackTo(t)
      BY <2>2, <3>2, <3>4 DEF Savepoint, Release, RollbackTo, SavepointAction, ghosts
    <3> QED BY <2>8, <3>3, <3>4
  <2>9. ASSUME NEW c \in Cursors, OpenCursor(c) \/ Filter(c) \/ NextRow(c) \/ CloseCursor(c)
        PROVE  Kept
    <3>1. pinned' = pinned /\ committed' = committed
      BY <2>9 DEF OpenCursor, Filter, NextRow, CloseCursor, remote, ghosts
    <3>2. c \notin Owners /\ cursor[c].stream # 1
      BY <2>1 DEF GateInv, Owners
    <3>3. LET gate == StreamGate(CursorTable[c])
          IN  gate.rc # "OK" /\ gate.tx.state = "AMBIGUOUS"
      BY <1>1, <2>1, GateAnswer
    <3>4. tx' = tx \/ tx' = StreamGate(CursorTable[c]).tx
      BY <2>9, <3>2, <3>3 DEF OpenCursor, Filter, NextRow, CloseCursor, OpenGate,
            AdvanceAlone, remote
    <3> QED BY <1>1, <2>1, <3>1, <3>3, <3>4 DEF Kept
  <2> QED BY <1>1, <2>3, <2>4, <2>5, <2>6, <2>7, <2>8, <2>9
          DEF Next, Callback, Commit, Rollback
<1>2. IInv /\ [Next]_vars =>
          [tx.state = "AMBIGUOUS" =>
               tx'.state = "AMBIGUOUS" /\ pinned' = NoIdentity /\ committed' = committed]_vars
  BY <1>1
<1> QED BY <1>2, TxInvariant, PTL DEF Spec, AmbiguousIsFinal
=============================================================================
