---------------------------- MODULE LibpqProofs -----------------------------
(***************************************************************************)
(* What the libpq adapter keeps true of a connection, for any number of    *)
(* rows and of session settings: where the messages of a command are at    *)
(* each of its phases, and when the connection is at rest.                 *)
(***************************************************************************)
EXTENDS LibpqStatement, TLAPS

\* Nothing is under way and nothing is unread.
Quiet(w) == /\ ~w.busy /\ w.in = <<>> /\ w.out = "none" /\ w.cmd = "none"
            /\ w.tx = w.stx

Lost(w) == w.status # "OK"
AtRest(w) == Lost(w) \/ Quiet(w)

IsWire(w) ==
    /\ DOMAIN w = {"status", "out", "busy", "in", "tx", "cmd", "rows", "full", "stx", "sig"}
    /\ w.status \in {"OK", "BAD"}
    /\ w.busy \in BOOLEAN
    /\ w.in \in Seq(Results)
    /\ w.tx \in TxStatus /\ w.stx \in TxStatus
    /\ w.rows \in 0..MaxRows

\* One command at a time, and its messages in order: not yet sent, executed, ended; the
\* ReadyForQuery is the last message and carries the session's transaction status.
WireInv(w) ==
    /\ w.out # "none" => w.busy /\ w.cmd = "none" /\ w.in = <<>>
    /\ w.status = "OK" =>
         /\ ~w.busy => Quiet(w)
         /\ w.busy /\ w.out = "none" /\ w.cmd = "none" =>
                w.in # <<>> /\ w.in[Len(w.in)].k = "READY" /\ w.in[Len(w.in)].tx = w.stx
         /\ \A i \in 1..Len(w.in) :
                w.in[i].k = "READY" => i = Len(w.in) /\ w.out = "none" /\ w.cmd = "none"

GoodWire(w) == IsWire(w) /\ WireInv(w)

\* No unread result has this kind.
Without(w, kind) == \A i \in 1..Len(w.in) : w.in[i].k # kind

-----------------------------------------------------------------------------
(* Calls of libpq *)

\* A new connection.
LEMMA FreshWireGood ==
    GoodWire(FreshWire) /\ Quiet(FreshWire) /\ FreshWire.stx = "IDLE" /\ FreshWire.sig = "none"
<1>1. MaxRows \in Nat
  BY LibpqAssumption
<1>2. <<>> \in Seq(Results) /\ Len(<<>>) = 0
  OBVIOUS
<1> QED BY <1>1, <1>2 DEF FreshWire, GoodWire, IsWire, WireInv, Quiet, TxStatus

\* PQsend... on a connection at rest.
LEMMA SendGood ==
    ASSUME NEW w, GoodWire(w), Quiet(w), NEW command, command # "none"
    PROVE  LET v == Send(w, command)
           IN  /\ GoodWire(v)
               /\ v.busy /\ v.out = command /\ v.cmd = "none" /\ v.in = <<>>
               /\ v.stx = w.stx /\ v.sig = w.sig /\ v.status = w.status
<1> DEFINE v == Send(w, command)
<1>1. /\ DOMAIN v = DOMAIN w /\ v.busy = TRUE /\ v.out = command
      /\ v.cmd = w.cmd /\ v.in = w.in /\ v.stx = w.stx /\ v.sig = w.sig
      /\ v.status = w.status /\ v.tx = w.tx /\ v.rows = w.rows
  BY DEF Send, GoodWire, IsWire
<1> HIDE DEF v
<1>2. IsWire(v)
  BY <1>1 DEF GoodWire, IsWire
<1>3. WireInv(v)
  <2>1. Len(w.in) = 0
    BY DEF Quiet
  <2> QED BY <1>1, <2>1 DEF Quiet, WireInv
<1> QED BY <1>1, <1>2, <1>3 DEF GoodWire, Quiet, v

\* PQflush.
LEMMA FlushedGood ==
    ASSUME NEW w, GoodWire(w)
    PROVE  LET v == Flushed(w)
           IN  /\ GoodWire(v)
               /\ v.out = "none"
               /\ v.cmd = IF w.out = "none" THEN w.cmd ELSE w.out
               /\ v.busy = w.busy /\ v.in = w.in /\ v.tx = w.tx /\ v.stx = w.stx
               /\ v.sig = w.sig /\ v.status = w.status /\ v.rows = w.rows
<1>1. CASE w.out = "none"
  BY <1>1 DEF Flushed
<1>2. CASE w.out # "none"
  <2> DEFINE v == Flushed(w)
  <2>1. /\ DOMAIN v = DOMAIN w /\ v.out = "none" /\ v.cmd = w.out
        /\ v.busy = w.busy /\ v.in = w.in /\ v.stx = w.stx /\ v.sig = w.sig
        /\ v.status = w.status /\ v.tx = w.tx /\ v.rows = w.rows
    BY <1>2 DEF Flushed, GoodWire, IsWire
  <2> HIDE DEF v
  <2>2. IsWire(v)
    BY <2>1 DEF GoodWire, IsWire
  <2>3. w.busy /\ w.in = <<>> /\ Len(w.in) = 0
    BY <1>2 DEF GoodWire, WireInv
  <2>4. WireInv(v)
    BY <1>2, <2>1, <2>3 DEF WireInv
  <2> QED BY <1>2, <2>1, <2>2, <2>4 DEF GoodWire, v
<1> QED BY <1>1, <1>2

\* The first message of a sequence, and the rest.
LEMMA HeadTail ==
    ASSUME NEW q \in Seq(Results), q # <<>>
    PROVE  /\ Len(q) \in Nat \ {0} /\ Head(q) = q[1]
           /\ Tail(q) \in Seq(Results) /\ Len(Tail(q)) = Len(q) - 1
           /\ \A i \in 1..Len(Tail(q)) : Tail(q)[i] = q[i + 1]
           /\ Len(q) = 1 => Tail(q) = <<>>
<1>1. Len(q) \in Nat \ {0}
  OBVIOUS
<1>2. Head(q) = q[1]
  OBVIOUS
<1>3. /\ Tail(q) \in Seq(Results) /\ Len(Tail(q)) = Len(q) - 1
      /\ \A i \in 1..Len(Tail(q)) : Tail(q)[i] = q[i + 1]
  OBVIOUS
<1>4. \A s \in Seq(Results) : s # <<>> => Len(s) \in Nat \ {0}
  OBVIOUS
<1>5. Len(q) = 1 => Tail(q) = <<>>
  <2>1. Len(q) = 1 => Len(Tail(q)) = 0
    BY <1>3
  <2>2. 0 \notin Nat \ {0}
    OBVIOUS
  <2> QED BY <1>3, <1>4, <2>1, <2>2
<1> QED BY <1>1, <1>2, <1>3, <1>5

\* PQgetResult when it does not wait: after NULL the connection is at rest, before it is
\* not, and no result is made up but the error of a connection that was lost.
LEMMA TakenGood ==
    ASSUME NEW w, GoodWire(w), ResultAvailable(w), w.out = "none"
    PROVE  LET v == AfterResult(w)
               r == NextResult(w)
           IN  /\ GoodWire(v)
               /\ v.status = w.status /\ v.out = "none" /\ v.cmd = w.cmd
               /\ v.stx = w.stx /\ v.sig = w.sig
               /\ r.k = "READY" => AtRest(v)
               /\ r.k # "READY" => Lost(v) \/ v.busy
               /\ \A kind : Without(w, kind) => Without(v, kind)
               /\ \A kind : Without(w, kind) => r.k \in {"READY", "FATAL_ERROR"} \/ r.k # kind
<1> DEFINE v == AfterResult(w)
           r == NextResult(w)
           over == [w EXCEPT !.busy = FALSE, !.rows = 0, !.full = FALSE]
<1>1. /\ DOMAIN over = DOMAIN w /\ over.busy = FALSE /\ over.rows = 0
      /\ over.in = w.in /\ over.out = w.out /\ over.cmd = w.cmd /\ over.stx = w.stx
      /\ over.sig = w.sig /\ over.status = w.status /\ over.tx = w.tx
  BY DEF GoodWire, IsWire
<1>2. 0 \in 0..MaxRows
  BY LibpqAssumption
<1> HIDE DEF over
<1>3. CASE ~w.busy
  <2>1. v = w /\ r.k = "READY"
    BY <1>3 DEF AfterResult, NextResult, NULL, Result
  <2> QED BY <1>3, <2>1 DEF GoodWire, WireInv, AtRest, Lost
<1>4. CASE w.busy /\ w.in = <<>>
  <2>1. v = over /\ r.k = "FATAL_ERROR" /\ w.status # "OK"
    BY <1>4 DEF AfterResult, NextResult, Result, over, ResultAvailable, GoodWire, IsWire
  <2> HIDE DEF v, r
  <2>2. IsWire(v)
    BY <1>1, <1>2, <2>1 DEF GoodWire, IsWire
  <2>3. WireInv(v)
    BY <1>1, <2>1 DEF WireInv
  <2> QED BY <1>1, <2>1, <2>2, <2>3 DEF GoodWire, Lost, Without, v, r
<1>5. CASE w.busy /\ w.in # <<>> /\ Head(w.in).k = "READY"
  <2>1. v = [over EXCEPT !.in = Tail(w.in), !.tx = Head(w.in).tx] /\ r = Head(w.in)
    BY <1>1, <1>5 DEF AfterResult, NextResult, over
  <2> HIDE DEF v, r
  <2>2. w.in \in Seq(Results)
    BY DEF GoodWire, IsWire
  <2>3. /\ Len(w.in) \in Nat \ {0} /\ Head(w.in) = w.in[1] /\ Head(w.in) \in Results
        /\ Tail(w.in) \in Seq(Results) /\ Len(Tail(w.in)) = Len(w.in) - 1
        /\ \A i \in 1..Len(Tail(w.in)) : Tail(w.in)[i] = w.in[i + 1]
        /\ Len(w.in) = 1 => Tail(w.in) = <<>>
    BY <1>5, <2>2, HeadTail
  <2>4. /\ DOMAIN v = DOMAIN w /\ v.busy = FALSE /\ v.rows = 0 /\ v.in = Tail(w.in)
        /\ v.tx = w.in[1].tx /\ v.out = w.out /\ v.cmd = w.cmd /\ v.stx = w.stx
        /\ v.sig = w.sig /\ v.status = w.status
    BY <1>1, <2>1, <2>3 DEF GoodWire, IsWire
  <2>5. IsWire(v)
    <3>1. w.in[1].tx \in TxStatus
      BY <2>3 DEF Results
    <3> QED BY <1>2, <2>3, <2>4, <3>1 DEF GoodWire, IsWire
  <2>6. w.status = "OK" => Quiet(v)
    <3> SUFFICES ASSUME w.status = "OK" PROVE Quiet(v)
      OBVIOUS
    <3>0. 1 \in 1..Len(w.in) /\ w.in[1].k = "READY"
      BY <1>5, <2>3
    <3>1. Len(w.in) = 1 /\ w.cmd = "none"
      BY <3>0 DEF GoodWire, WireInv
    <3>2. w.in[1].tx = w.stx
      BY <1>5, <2>3, <3>1 DEF GoodWire, WireInv
    <3> QED BY <2>3, <2>4, <3>1, <3>2 DEF Quiet
  <2>7. WireInv(v)
    <3>1. w.status = "OK" => Len(v.in) = 0
      BY <2>6 DEF Quiet
    <3> QED BY <2>4, <2>6, <3>1 DEF WireInv, Quiet
  <2>8. \A kind : Without(w, kind) => Without(v, kind)
    BY <2>3, <2>4 DEF Without
  <2> QED BY <1>5, <2>1, <2>4, <2>5, <2>6, <2>7, <2>8 DEF GoodWire, AtRest, Lost, v, r
<1>6. CASE w.busy /\ w.in # <<>> /\ Head(w.in).k # "READY"
  <2>1. v = [w EXCEPT !.in = Tail(w.in)] /\ r = Head(w.in)
    BY <1>6 DEF AfterResult, NextResult
  <2> HIDE DEF v, r
  <2>2. w.in \in Seq(Results)
    BY DEF GoodWire, IsWire
  <2>3. /\ Len(w.in) \in Nat \ {0} /\ Head(w.in) = w.in[1]
        /\ Tail(w.in) \in Seq(Results) /\ Len(Tail(w.in)) = Len(w.in) - 1
        /\ \A i \in 1..Len(Tail(w.in)) : Tail(w.in)[i] = w.in[i + 1]
    BY <1>6, <2>2, HeadTail
  <2>4. /\ DOMAIN v = DOMAIN w /\ v.busy = w.busy /\ v.rows = w.rows /\ v.in = Tail(w.in)
        /\ v.tx = w.tx /\ v.out = w.out /\ v.cmd = w.cmd /\ v.stx = w.stx
        /\ v.sig = w.sig /\ v.status = w.status
    BY <2>1 DEF GoodWire, IsWire
  <2>5. IsWire(v)
    BY <2>3, <2>4 DEF GoodWire, IsWire
  <2>6. WireInv(v)
    <3> SUFFICES ASSUME w.status = "OK"
                 PROVE  /\ w.cmd = "none" =>
                             v.in # <<>> /\ v.in[Len(v.in)].k = "READY"
                                /\ v.in[Len(v.in)].tx = v.stx
                        /\ \A i \in 1..Len(v.in) :
                             v.in[i].k = "READY" => i = Len(v.in) /\ v.cmd = "none"
      BY <1>6, <2>4 DEF WireInv
    <3>1. ASSUME w.cmd = "none"
          PROVE  v.in # <<>> /\ v.in[Len(v.in)].k = "READY" /\ v.in[Len(v.in)].tx = v.stx
      <4>1. w.in[Len(w.in)].k = "READY" /\ w.in[Len(w.in)].tx = w.stx
        BY <1>6, <3>1 DEF GoodWire, WireInv
      <4>2. Len(w.in) # 1
        BY <1>6, <2>3, <4>1
      <4>3. Len(v.in) \in 1..Len(v.in) /\ Len(v.in) # 0
        <5>1. Len(Tail(w.in)) = Len(w.in) - 1 /\ Len(w.in) \in Nat \ {0}
          BY <2>3
        <5>2. \A n \in Nat \ {0} : n # 1 => n - 1 \in 1..(n - 1) /\ n - 1 # 0
          OBVIOUS
        <5>3. Len(Tail(w.in)) \in 1..Len(Tail(w.in)) /\ Len(Tail(w.in)) # 0
          BY <4>2, <5>1, <5>2
        <5> QED BY <2>4, <5>3
      <4>4. v.in[Len(v.in)] = w.in[Len(w.in)]
        BY <2>3, <2>4, <4>3
      <4>5. v.in # <<>>
        <5>1. Len(<<>>) = 0
          OBVIOUS
        <5> QED BY <4>3, <5>1
      <4> QED BY <2>4, <4>1, <4>4, <4>5
    <3>2. ASSUME NEW i \in 1..Len(v.in), v.in[i].k = "READY"
          PROVE  i = Len(v.in) /\ v.cmd = "none"
      <4>1. w.in[i + 1].k = "READY" /\ i + 1 \in 1..Len(w.in)
        BY <2>3, <2>4, <3>2
      <4>2. i + 1 = Len(w.in) /\ w.cmd = "none"
        BY <4>1 DEF GoodWire, WireInv
      <4> QED BY <2>3, <2>4, <4>2
    <3> QED BY <3>1, <3>2
  <2>7. \A kind : Without(w, kind) => Without(v, kind) /\ r.k # kind
    <3>1. 1 \in 1..Len(w.in) /\ \A i \in 1..Len(v.in) : i + 1 \in 1..Len(w.in)
      BY <2>3, <2>4
    <3> QED BY <2>1, <2>3, <2>4, <3>1 DEF Without
  <2> QED BY <1>6, <2>1, <2>4, <2>5, <2>6, <2>7 DEF GoodWire, Lost, v, r
<1> QED BY <1>3, <1>4, <1>5, <1>6

-----------------------------------------------------------------------------
(* Steps of the session and of the network *)

\* COMMIT or ROLLBACK is over, and with it the transaction.
Ended(w) == w.stx = "IDLE" /\ w.cmd \in {"ending", "none"}

\* A COMMIT or ROLLBACK that the session confirmed ended the transaction.
Ending(w, op) ==
    /\ w.cmd \in {op, "ending", "none"}
    /\ Without(w, "COMMAND_OK") \/ Ended(w)

\* What the world may do to a connection between two turns of a callback.
Moved(w, v) ==
    /\ GoodWire(v)
    /\ v.status = "OK" \/ Lost(v)
    /\ v.out = w.out /\ v.busy = w.busy
    /\ AtRest(w) => AtRest(v)
    /\ w.in # <<>> => v.in # <<>>
    /\ v.sig = "sent" => w.sig = "sent"
    /\ w.sig # "sent" /\ Without(w, "57014") => Without(v, "57014")
    /\ w.stx = "IDLE" /\ w.cmd # "BEGIN" => v.stx = "IDLE"
    /\ v.cmd \in {w.cmd, "ending", "none"}
    /\ Lost(w) => Lost(v)
    /\ Ended(w) => Ended(v)
    /\ \A op \in {"COMMIT", "ROLLBACK"} : Ending(w, op) => Ending(v, op)

\* The session answers: one more message, ReadyForQuery only as the last one.
Replied(w, v, r) ==
    /\ DOMAIN v = DOMAIN w
    /\ v.in = Append(w.in, r)
    /\ v.status = w.status /\ v.busy = w.busy /\ v.out = w.out /\ v.tx = w.tx
    /\ v.stx \in TxStatus
    /\ v.rows \in 0..MaxRows
    /\ IF r.k = "READY" THEN v.cmd = "none" /\ r.tx = v.stx ELSE v.cmd # "none"

\* A message of the session leaves libpq's queue in order: ReadyForQuery is the last
\* one, and no other kind of message appears in it than the one that was sent.
LEMMA ReplyGood ==
    ASSUME NEW w, GoodWire(w), w.status = "OK", w.cmd # "none",
           NEW r \in Results, NEW v, Replied(w, v, r)
    PROVE  /\ GoodWire(v)
           /\ v.in # <<>> /\ w.busy /\ w.out = "none"
           /\ \A kind : Without(w, kind) /\ kind # r.k => Without(v, kind)
<1>1. w.busy /\ w.out = "none"
  BY DEF GoodWire, WireInv, Quiet, IsWire
<1>2. w.in \in Seq(Results) /\ Len(w.in) \in Nat
  BY DEF GoodWire, IsWire
<1>3. /\ Append(w.in, r) \in Seq(Results) /\ Append(w.in, r) # <<>>
      /\ Len(Append(w.in, r)) = Len(w.in) + 1
      /\ \A i \in 1..Len(w.in) : Append(w.in, r)[i] = w.in[i]
      /\ Append(w.in, r)[Len(w.in) + 1] = r
  BY <1>2
<1>4. \A i \in 1..Len(w.in) + 1 : i = Len(w.in) + 1 \/ i \in 1..Len(w.in)
  BY <1>2
<1>5. /\ v.in \in Seq(Results) /\ v.in # <<>> /\ Len(v.in) = Len(w.in) + 1
      /\ \A i \in 1..Len(w.in) : v.in[i] = w.in[i]
      /\ v.in[Len(v.in)] = r
  BY <1>3 DEF Replied
<1>6. IsWire(v)
  BY <1>5 DEF Replied, GoodWire, IsWire
<1>7. \A i \in 1..Len(w.in) : w.in[i].k # "READY"
  BY DEF GoodWire, WireInv
<1>8. \A i \in 1..Len(v.in) : v.in[i].k = "READY" => i = Len(v.in)
  BY <1>4, <1>5, <1>7
<1>9. WireInv(v)
  <2>1. r.k = "READY" => r.tx = v.stx /\ v.cmd = "none"
    BY DEF Replied
  <2>2. r.k # "READY" => v.cmd # "none"
    BY DEF Replied
  <2>3. \A i \in 1..Len(v.in) : v.in[i].k = "READY" => i = Len(v.in) /\ v.cmd = "none"
    BY <1>5, <1>8, <2>1
  <2> QED BY <1>1, <1>5, <2>1, <2>2, <2>3 DEF Replied, WireInv
<1>10. \A kind : Without(w, kind) /\ kind # r.k => Without(v, kind)
  BY <1>4, <1>5 DEF Without
<1> QED BY <1>1, <1>5, <1>6, <1>9, <1>10 DEF GoodWire

\* A message that is not COMMAND_OK, 57014 or ReadyForQuery, or one of the last two when
\* the session may send it.
LEMMA ReplyMoves ==
    ASSUME NEW w, GoodWire(w), w.status = "OK", w.cmd # "none",
           NEW r \in Results, NEW v, Replied(w, v, r),
           v.cmd \in {w.cmd, "ending", "none"},
           w.cmd = "ending" => v.cmd # "ending",
           v.sig = "sent" => w.sig = "sent",
           r.k = "57014" => w.sig = "sent",
           w.stx = "IDLE" /\ w.cmd # "BEGIN" => v.stx = "IDLE",
           r.k = "COMMAND_OK" =>
               v.cmd = "ending" /\ (w.cmd \in {"COMMIT", "ROLLBACK"} => v.stx = "IDLE")
    PROVE  Moved(w, v)
<1>1. /\ GoodWire(v) /\ v.in # <<>> /\ w.busy /\ w.out = "none"
      /\ \A kind : Without(w, kind) /\ kind # r.k => Without(v, kind)
  BY ReplyGood
<1>2. v.status = w.status /\ v.busy = w.busy /\ v.out = w.out
  BY DEF Replied
<1>3. ~AtRest(w) /\ ~Lost(w)
  BY <1>1 DEF AtRest, Lost, Quiet
<1>4. Ended(w) => Ended(v)
  BY DEF Ended
<1>5. ASSUME NEW op \in {"COMMIT", "ROLLBACK"}, Ending(w, op) PROVE Ending(v, op)
  <2>1. v.cmd \in {op, "ending", "none"}
    BY <1>5 DEF Ending
  <2>2. CASE Ended(w)
    BY <1>4, <2>1, <2>2 DEF Ending
  <2>3. CASE Without(w, "COMMAND_OK") /\ r.k # "COMMAND_OK"
    BY <1>1, <2>1, <2>3 DEF Ending
  <2>4. CASE r.k = "COMMAND_OK"
    BY <1>5, <2>1, <2>4 DEF Ending, Ended
  <2> QED BY <1>5, <2>2, <2>3, <2>4 DEF Ending
<1> QED BY <1>1, <1>2, <1>3, <1>4, <1>5 DEF Moved

\* Rows, answers, errors, ReadyForQuery, a cancelled command, and the end of the connection.
LEMMA SessionMoves ==
    ASSUME NEW w, GoodWire(w),
           NEW v \in SendsRow(w) \cup Finishes(w) \cup Refuses(w) \cup Readies(w)
                        \cup TakesCancel(w) \cup Dies(w)
    PROVE  Moved(w, v)
<1> USE DEF Result
<1>a. MaxRows \in Nat /\ 0 \in 0..MaxRows /\ "IDLE" \in TxStatus
  BY LibpqAssumption DEF TxStatus
<1>b. \A k \in Kinds, n \in 0..MaxRows, fit \in BOOLEAN, tx \in TxStatus :
          Result(k, n, fit, tx) \in Results
  BY DEF Results
<1>c. /\ DOMAIN w = {"status", "out", "busy", "in", "tx", "cmd", "rows", "full", "stx", "sig"}
      /\ w.stx \in TxStatus /\ w.rows \in 0..MaxRows /\ Failed(w.stx) \in TxStatus
      /\ w.stx = "IDLE" => Failed(w.stx) = "IDLE"
  BY DEF GoodWire, IsWire, Failed, TxStatus
<1>1. CASE v \in SendsRow(w)
  <2>1. Executing(w) /\ w.rows < MaxRows
    BY <1>1 DEF SendsRow
  <2>2. PICK fit \in BOOLEAN :
            v = [Reply(w, "SINGLE_TUPLE", w.rows + 1, fit) EXCEPT !.rows = @ + 1]
    BY <1>1 DEF SendsRow
  <2> DEFINE r == Result("SINGLE_TUPLE", w.rows + 1, fit, "IDLE")
  <2>3. w.rows + 1 \in 0..MaxRows
    BY <1>a, <1>c, <2>1
  <2>4. r \in Results /\ r.k = "SINGLE_TUPLE"
    BY <1>a, <1>b, <2>3 DEF Kinds
  <2>5. /\ DOMAIN v = DOMAIN w /\ v.in = Append(w.in, r) /\ v.status = w.status
        /\ v.busy = w.busy /\ v.out = w.out /\ v.tx = w.tx /\ v.stx = w.stx
        /\ v.rows = w.rows + 1 /\ v.cmd = w.cmd /\ v.sig = w.sig
    BY <1>c, <2>2 DEF Reply
  <2>6. w.status = "OK" /\ w.cmd \notin {"none", "ending"}
    BY <2>1 DEF Executing
  <2> HIDE DEF r
  <2>7. Replied(w, v, r)
    BY <1>c, <2>3, <2>4, <2>5, <2>6 DEF Replied
  <2> QED BY <2>4, <2>5, <2>6, <2>7, ReplyMoves
<1>2. CASE v \in Finishes(w)
  <2> DEFINE k == IF w.cmd \in {"scan", "setting", "ping"} THEN "TUPLES_OK" ELSE "COMMAND_OK"
             tx == CASE w.cmd = "BEGIN" -> "ACTIVE"
                     [] w.cmd \in {"COMMIT", "ROLLBACK"} -> "IDLE"
                     [] OTHER -> w.stx
  <2>1. Executing(w)
    BY <1>2 DEF Finishes
  <2>2. PICK fit \in BOOLEAN :
            v = [Reply(w, k, 0, fit) EXCEPT !.cmd = "ending", !.full = TRUE, !.stx = tx]
    BY <1>2 DEF Finishes
  <2>3. /\ tx \in TxStatus
        /\ w.cmd \in {"COMMIT", "ROLLBACK"} => tx = "IDLE"
        /\ w.stx = "IDLE" /\ w.cmd # "BEGIN" => tx = "IDLE"
    BY <1>c DEF TxStatus
  <2>4. k \in Kinds /\ k # "READY" /\ k # "57014"
    BY DEF Kinds
  <2> HIDE DEF k, tx
  <2> DEFINE r == Result(k, 0, fit, "IDLE")
  <2>5. r \in Results /\ r.k = k
    BY <1>a, <1>b, <2>4
  <2>6. /\ DOMAIN v = DOMAIN w /\ v.in = Append(w.in, r) /\ v.status = w.status
        /\ v.busy = w.busy /\ v.out = w.out /\ v.tx = w.tx /\ v.stx = tx
        /\ v.rows = w.rows /\ v.cmd = "ending" /\ v.sig = w.sig
    BY <1>c, <2>2 DEF Reply
  <2>7. w.status = "OK" /\ w.cmd \notin {"none", "ending"}
    BY <2>1 DEF Executing
  <2> HIDE DEF r
  <2>8. r.k # "READY" /\ r.k # "57014"
    BY <2>4, <2>5
  <2>9. Replied(w, v, r)
    <3>1. IF r.k = "READY" THEN v.cmd = "none" /\ r.tx = v.stx ELSE v.cmd # "none"
      BY <2>6, <2>8
    <3> QED BY <1>c, <2>3, <2>6, <3>1 DEF Replied
  <2>10. /\ v.cmd \in {w.cmd, "ending", "none"} /\ w.cmd # "ending"
         /\ v.sig = "sent" => w.sig = "sent"
         /\ w.stx = "IDLE" /\ w.cmd # "BEGIN" => v.stx = "IDLE"
         /\ v.cmd = "ending" /\ (w.cmd \in {"COMMIT", "ROLLBACK"} => v.stx = "IDLE")
    BY <2>3, <2>6, <2>7
  <2> QED BY <2>5, <2>7, <2>8, <2>9, <2>10, ReplyMoves
<1>3. CASE v \in Refuses(w)
  <2> DEFINE r == Result("FATAL_ERROR", 0, TRUE, "IDLE")
  <2>1. Executing(w) /\ v = [Reply(w, "FATAL_ERROR", 0, TRUE) EXCEPT !.cmd = "ending",
                                                                    !.stx = Failed(@)]
    BY <1>3 DEF Refuses
  <2>2. r \in Results /\ r.k = "FATAL_ERROR"
    BY <1>a, <1>b DEF Kinds
  <2>3. /\ DOMAIN v = DOMAIN w /\ v.in = Append(w.in, r) /\ v.status = w.status
        /\ v.busy = w.busy /\ v.out = w.out /\ v.tx = w.tx /\ v.stx = Failed(w.stx)
        /\ v.rows = w.rows /\ v.cmd = "ending" /\ v.sig = w.sig
    BY <1>c, <2>1 DEF Reply
  <2>4. w.status = "OK" /\ w.cmd \notin {"none", "ending"}
    BY <2>1 DEF Executing
  <2> HIDE DEF r
  <2>5. Replied(w, v, r)
    BY <1>c, <2>2, <2>3 DEF Replied
  <2> QED BY <1>c, <2>2, <2>3, <2>4, <2>5, ReplyMoves
<1>4. CASE v \in Readies(w)
  <2> DEFINE r == Result("READY", 0, TRUE, w.stx)
  <2>1. w.status = "OK" /\ w.cmd = "ending"
    BY <1>4 DEF Readies
  <2>2. v = [w EXCEPT !.in = Append(@, r), !.cmd = "none"]
    BY <1>4 DEF Readies
  <2>3. r \in Results /\ r.k = "READY" /\ r.tx = w.stx
    BY <1>a, <1>b, <1>c DEF Kinds
  <2> HIDE DEF r
  <2>4. /\ DOMAIN v = DOMAIN w /\ v.in = Append(w.in, r) /\ v.status = w.status
        /\ v.busy = w.busy /\ v.out = w.out /\ v.tx = w.tx /\ v.stx = w.stx
        /\ v.rows = w.rows /\ v.cmd = "none" /\ v.sig = w.sig
    BY <1>c, <2>2
  <2>5. Replied(w, v, r)
    BY <1>c, <2>3, <2>4 DEF Replied
  <2> QED BY <2>1, <2>3, <2>4, <2>5, ReplyMoves
<1>5. CASE v \in TakesCancel(w) /\ Executing(w)
  <2> DEFINE r == Result("57014", 0, TRUE, "IDLE")
  <2>1. /\ w.sig = "sent"
        /\ v = [Reply(w, "57014", 0, TRUE) EXCEPT !.cmd = "ending", !.stx = Failed(@),
                                                  !.sig = "delivered"]
    BY <1>5 DEF TakesCancel
  <2>2. r \in Results /\ r.k = "57014"
    BY <1>a, <1>b DEF Kinds
  <2>3. /\ DOMAIN v = DOMAIN w /\ v.in = Append(w.in, r) /\ v.status = w.status
        /\ v.busy = w.busy /\ v.out = w.out /\ v.tx = w.tx /\ v.stx = Failed(w.stx)
        /\ v.rows = w.rows /\ v.cmd = "ending"
    BY <1>c, <2>1 DEF Reply
  <2>4. w.status = "OK" /\ w.cmd \notin {"none", "ending"}
    BY <1>5 DEF Executing
  <2> HIDE DEF r
  <2>5. Replied(w, v, r)
    BY <1>c, <2>2, <2>3 DEF Replied
  <2> QED BY <1>c, <2>1, <2>2, <2>3, <2>4, <2>5, ReplyMoves
<1>6. CASE v \in TakesCancel(w) /\ ~Executing(w)
  <2>1. w.sig = "sent" /\ v = [w EXCEPT !.sig = "delivered"]
    BY <1>6 DEF TakesCancel
  <2>2. /\ DOMAIN v = DOMAIN w /\ v.in = w.in /\ v.status = w.status
        /\ v.busy = w.busy /\ v.out = w.out /\ v.tx = w.tx /\ v.stx = w.stx
        /\ v.rows = w.rows /\ v.cmd = w.cmd /\ v.sig = "delivered"
    BY <1>c, <2>1
  <2>3. GoodWire(v)
    <3>1. IsWire(v)
      BY <2>2 DEF GoodWire, IsWire
    <3>2. WireInv(v)
      BY <2>2 DEF GoodWire, WireInv, Quiet
    <3> QED BY <3>1, <3>2 DEF GoodWire
  <2> QED BY <2>1, <2>2, <2>3
      DEF Moved, AtRest, Lost, Quiet, Without, Ended, Ending
<1>7. CASE v \in Dies(w)
  <2>1. w.status = "OK" /\ v = [w EXCEPT !.status = "BAD", !.cmd = "none"]
    BY <1>7 DEF Dies
  <2>2. /\ DOMAIN v = DOMAIN w /\ v.in = w.in /\ v.status = "BAD"
        /\ v.busy = w.busy /\ v.out = w.out /\ v.tx = w.tx /\ v.stx = w.stx
        /\ v.rows = w.rows /\ v.cmd = "none" /\ v.sig = w.sig
    BY <1>c, <2>1
  <2>3. GoodWire(v)
    <3>1. IsWire(v)
      BY <2>2 DEF GoodWire, IsWire
    <3>2. WireInv(v)
      BY <2>2 DEF GoodWire, WireInv
    <3> QED BY <3>1, <3>2 DEF GoodWire
  <2> QED BY <2>1, <2>2, <2>3
      DEF Moved, AtRest, Lost, Without, Ended, Ending
<1> QED BY <1>1, <1>2, <1>3, <1>4, <1>5, <1>6, <1>7

-----------------------------------------------------------------------------
(* The adapter *)

IsBackend(b) ==
    /\ DOMAIN b = {"pg", "ps", "wire", "dl"}
    /\ DOMAIN b.pg = {"phase", "health", "op", "index", "seen", "discarded", "statements"}
    /\ DOMAIN b.ps = {"phase", "kind", "result", "described", "sqlstateSeen", "terminalSeen",
                      "await"}
    /\ b.ps.kind \in StatementKinds

\* A command of the health machine: a COMMIT or ROLLBACK whose result was seen is over.
HealthInv(b) ==
    /\ b.pg.health \in {"SEND", "FLUSH", "RECEIVE"}
    /\ b.pg.health = "SEND" => AtRest(b.wire)
    /\ b.pg.health = "FLUSH" => b.wire.out = HealthCommand(b.pg) /\ ~b.pg.seen
    /\ b.pg.health = "RECEIVE" =>
         /\ b.wire.out = "none"
         /\ ~Lost(b.wire) /\ b.pg.op \in {"COMMIT", "ROLLBACK"} =>
               Ending(b.wire, b.pg.op) /\ (b.pg.seen => Ended(b.wire))

Resulting == {"PREPARE_RESULT", "DESCRIBE_RESULT", "EXECUTE_RESULT"}

\* Where the connection is when the statement is in a phase.
AdapterInv(b) ==
    /\ b.pg.phase \in {"CREATED", "CONNECTING"} => AtRest(b.wire)
    /\ b.pg.phase = "READY" /\ b.ps.phase \in Settled \cup {"NONE"} /\ b.ps.await = "none"
         => AtRest(b.wire)
    /\ b.pg.phase = "HEALTH" => HealthInv(b)
    /\ b.pg.phase # "FAILED" /\ b.wire.sig = "sent" => b.ps.phase = "CANCEL_POLL"
    /\ b.pg.phase = "READY" /\ b.ps.phase \in DOMAIN Flushing => b.wire.out # "none"
    /\ b.ps.phase \in Resulting /\ b.ps.await = "none" =>
         ResultAvailable(b.wire) /\ b.wire.out = "none"
    /\ b.ps.await # "none" =>
         /\ b.wire.out = "none"
         /\ b.ps.phase \in Resulting \cup {"FETCH_WAIT", "FAILED"}
         /\ b.ps.await = "drain" <=> b.ps.phase = "FAILED"
    /\ b.ps.sqlstateSeen => b.ps.phase \in {"CANCEL_DRAIN", "COMPLETE", "FAILED"}
    /\ b.ps.phase = "NONE" <=> b.pg.statements = 0

GoodBackend(b) == IsBackend(b) /\ GoodWire(b.wire) /\ AdapterInv(b)

\* The session is outside a transaction and nothing is on its way that would begin one.
Outside(w) == w.stx = "IDLE" /\ w.out # "BEGIN" /\ w.cmd # "BEGIN"

\* A statement that no 57014 can reach: it was cancelled, if at all, before it was sent.
Harmless(b) ==
    /\ ~b.ps.sqlstateSeen
    /\ b.ps.phase = "CANCEL_POLL" => b.wire.out # "none"
    /\ b.ps.phase = "CANCEL_DRAIN" => b.wire.sig # "sent" /\ Without(b.wire, "57014")

\* A step of the adapter: good again, the same statement, and no transaction begun.
Kept(b, c) ==
    /\ GoodBackend(c)
    /\ c.pg.statements = b.pg.statements
    /\ c.ps.kind = b.ps.kind
    /\ Outside(b.wire) => Outside(c.wire)
    /\ Harmless(b) => Harmless(c)

\* The world keeps the adapter's invariant: it was written to withstand it.
LEMMA WorldKeeps ==
    ASSUME NEW b, GoodBackend(b), NEW w, Moved(b.wire, w)
    PROVE  Kept(b, [b EXCEPT !.wire = w])
<1> DEFINE c == [b EXCEPT !.wire = w]
<1>1. DOMAIN c = DOMAIN b /\ c.pg = b.pg /\ c.ps = b.ps /\ c.wire = w
  BY DEF GoodBackend, IsBackend
<1> HIDE DEF c
<1>2. IsBackend(c)
  BY <1>1 DEF GoodBackend, IsBackend
<1>3. HealthInv(b) => HealthInv(c)
  BY <1>1 DEF HealthInv, Moved, Lost
<1>4. ResultAvailable(b.wire) => ResultAvailable(w)
  BY DEF ResultAvailable, Moved, Lost, GoodBackend, GoodWire, IsWire
<1>5. AdapterInv(c)
  BY <1>1, <1>3, <1>4 DEF GoodBackend, AdapterInv, Moved
<1>6. Outside(b.wire) => Outside(w)
  BY DEF Outside, Moved
<1>7. Harmless(b) => Harmless(c)
  BY <1>1 DEF Harmless, Moved
<1> QED BY <1>1, <1>2, <1>5, <1>6, <1>7 DEF Kept, GoodBackend, Moved, c

\* A cancel request changes nothing but itself.
LEMMA SignalGood ==
    ASSUME NEW w, GoodWire(w), NEW x
    PROVE  LET v == [w EXCEPT !.sig = x]
           IN  /\ GoodWire(v) /\ v.sig = x
               /\ v.in = w.in /\ v.status = w.status /\ v.busy = w.busy /\ v.out = w.out
               /\ v.tx = w.tx /\ v.stx = w.stx /\ v.cmd = w.cmd
               /\ AtRest(w) => AtRest(v)
               /\ Outside(w) => Outside(v)
               /\ \A kind : Without(w, kind) => Without(v, kind)
<1> DEFINE v == [w EXCEPT !.sig = x]
<1>1. /\ DOMAIN v = DOMAIN w /\ v.sig = x /\ v.in = w.in /\ v.status = w.status
      /\ v.busy = w.busy /\ v.out = w.out /\ v.tx = w.tx /\ v.stx = w.stx /\ v.cmd = w.cmd
      /\ v.rows = w.rows
  BY DEF GoodWire, IsWire
<1> HIDE DEF v
<1>2. IsWire(v)
  BY <1>1 DEF GoodWire, IsWire
<1>3. WireInv(v)
  BY <1>1 DEF GoodWire, WireInv, Quiet
<1>4. (AtRest(w) => AtRest(v)) /\ (Outside(w) => Outside(v))
  BY <1>1 DEF AtRest, Lost, Quiet, Outside
<1>5. \A kind : Without(w, kind) => Without(v, kind)
  BY <1>1 DEF Without
<1> QED BY <1>1, <1>2, <1>3, <1>4, <1>5 DEF GoodWire, v

\* vps_libpq_statement_error: what it changes, and what that leaves.
LEMMA ErrorKeeps ==
    ASSUME NEW b, IsBackend(b), GoodWire(b.wire), b.pg.statements # 0, NEW err
    PROVE  LET a == StatementError(b, err)
               c == StatementError(b, err).b
           IN  /\ a.rc = "ERROR"
               /\ IsBackend(c) /\ GoodWire(c.wire)
               /\ c.ps.phase = "FAILED" /\ c.ps.await = "none" /\ c.ps.kind = b.ps.kind
               /\ c.ps.sqlstateSeen = b.ps.sqlstateSeen
               /\ c.pg.phase = IF err = "SQL" THEN "READY" ELSE "FAILED"
               /\ c.pg.statements = b.pg.statements
               /\ c.wire.out = b.wire.out
               /\ c.wire.sig = "sent" => b.wire.sig = "sent"
               /\ Outside(b.wire) => Outside(c.wire)
               /\ ~b.ps.sqlstateSeen => Harmless(c)
               /\ err # "SQL" => GoodBackend(c)
<1> DEFINE a == StatementError(b, err)
           c == StatementError(b, err).b
           v == [b.wire EXCEPT !.sig = IF b.wire.sig = "delivered" THEN "none" ELSE b.wire.sig]
<1>1. /\ a.rc = "ERROR" /\ a.b = c
      /\ c = [b EXCEPT !.ps.phase = "FAILED", !.ps.result = 0, !.ps.await = "none",
                       !.pg.phase = IF err = "SQL" THEN "READY" ELSE "FAILED",
                       !.wire.sig = IF @ = "delivered" THEN "none" ELSE @]
  BY DEF StatementError, Answer
<1> HIDE DEF a, c
<1>2. /\ DOMAIN c = DOMAIN b /\ DOMAIN c.pg = DOMAIN b.pg /\ DOMAIN c.ps = DOMAIN b.ps
      /\ c.ps.phase = "FAILED" /\ c.ps.await = "none" /\ c.ps.kind = b.ps.kind
      /\ c.ps.sqlstateSeen = b.ps.sqlstateSeen
      /\ c.pg.phase = IF err = "SQL" THEN "READY" ELSE "FAILED"
      /\ c.pg.statements = b.pg.statements
      /\ c.wire = v
  <2>1. /\ DOMAIN c = DOMAIN b /\ c.wire = v
        /\ c.pg = [b.pg EXCEPT !.phase = IF err = "SQL" THEN "READY" ELSE "FAILED"]
        /\ c.ps = [b.ps EXCEPT !.phase = "FAILED", !.result = 0, !.await = "none"]
    BY <1>1 DEF IsBackend
  <2>2. DOMAIN c.pg = DOMAIN b.pg /\ c.pg.statements = b.pg.statements
          /\ c.pg.phase = IF err = "SQL" THEN "READY" ELSE "FAILED"
    BY <2>1 DEF IsBackend
  <2>3. /\ DOMAIN c.ps = DOMAIN b.ps /\ c.ps.phase = "FAILED" /\ c.ps.await = "none"
        /\ c.ps.kind = b.ps.kind /\ c.ps.sqlstateSeen = b.ps.sqlstateSeen
    BY <2>1 DEF IsBackend
  <2> QED BY <2>1, <2>2, <2>3
<1>3. /\ GoodWire(v) /\ v.out = b.wire.out
      /\ v.sig = "sent" => b.wire.sig = "sent"
      /\ Outside(b.wire) => Outside(v)
  BY SignalGood
<1> HIDE DEF v
<1>4. IsBackend(c)
  BY <1>2 DEF IsBackend
<1>5. ~b.ps.sqlstateSeen => Harmless(c)
  BY <1>2 DEF Harmless
<1>6. err # "SQL" => AdapterInv(c)
  BY <1>2 DEF AdapterInv, Flushing, Resulting
<1> QED BY <1>1, <1>2, <1>3, <1>4, <1>5, <1>6 DEF GoodBackend, a, c

-----------------------------------------------------------------------------
(* Statements *)

Operations == {"PREPARE", "EXECUTE", "FETCH", "CANCEL"}

\* The phases of an operation while it runs, and the one it completes in.
PhasesOf(op, kind) ==
    CASE op = "PREPARE" -> {"PREPARE_FLUSH", "PREPARE_WAIT", "PREPARE_RESULT",
                            "DESCRIBE_FLUSH", "DESCRIBE_WAIT", "DESCRIBE_RESULT"}
      [] op = "EXECUTE" -> IF kind = "scan" THEN {"EXECUTE_FLUSH"}
                           ELSE {"EXECUTE_FLUSH", "EXECUTE_WAIT", "EXECUTE_RESULT"}
      [] op = "FETCH" -> IF kind = "scan" THEN {"FETCH_WAIT"} ELSE {"COMPLETE"}
      [] op = "CANCEL" -> {"CANCEL_POLL", "CANCEL_DRAIN"}

DonePhase(op, kind) ==
    CASE op = "PREPARE" -> "PREPARED"
      [] op = "EXECUTE" -> IF kind = "scan" THEN "FETCH_WAIT" ELSE "COMPLETE"
      [] op \in {"FETCH", "CANCEL"} -> "COMPLETE"

\* An operation runs; after a server error the rest of its results is read.
Driven(b, op) ==
    /\ b.pg.phase = "READY" /\ b.pg.statements = 1
    /\ \/ b.ps.phase \in PhasesOf(op, b.ps.kind)
       \/ b.ps.phase = "FAILED" /\ b.ps.await # "none"

\* What an answer says of the statement.
Told(a, op) ==
    \/ /\ a.rc = "ERROR"
       /\ a.b.ps.phase = "FAILED" /\ a.b.ps.await = "none"
       /\ a.b.pg.phase \in {"READY", "FAILED"}
    \/ /\ a.rc = "OK" /\ a.out \in Waits \cup {"CONTINUE"}
       /\ Driven(a.b, op) /\ a.b.ps.await = "none"
    \/ /\ a.rc = "OK" /\ a.out = "BLOCKED"
       /\ Driven(a.b, op) /\ a.b.ps.await # "none"
    \/ /\ a.rc = "OK" /\ a.out = "COMPLETE"
       /\ a.b.pg.phase = "READY" /\ a.b.ps.await = "none"
       /\ a.b.ps.phase = DonePhase(op, a.b.ps.kind)
    \/ /\ a.rc = "OK" /\ a.out = "ROW_READY" /\ op = "FETCH"
       /\ a.b.pg.phase = "READY" /\ a.b.ps.await = "none"
       /\ a.b.ps.phase = "ROW_READY"

Turn(b, op) ==
    /\ GoodBackend(b) /\ op \in Operations
    /\ Driven(b, op)

\* An error ends a turn.
LEMMA ErrorAnswers ==
    ASSUME NEW b, IsBackend(b), GoodWire(b.wire), b.pg.statements # 0,
           NEW err, err # "SQL", NEW op
    PROVE  LET a == StatementError(b, err)
           IN  Told(a, op) /\ GoodBackend(a.b) /\ a.b.pg.statements = b.pg.statements
                 /\ a.b.ps.kind = b.ps.kind
                 /\ (Outside(b.wire) => Outside(a.b.wire))
                 /\ (~b.ps.sqlstateSeen => Harmless(a.b))
<1> DEFINE a == StatementError(b, err)
<1>1. /\ a.rc = "ERROR" /\ a.b.ps.phase = "FAILED" /\ a.b.ps.await = "none"
      /\ a.b.pg.phase = "FAILED" /\ GoodBackend(a.b)
      /\ a.b.pg.statements = b.pg.statements /\ a.b.ps.kind = b.ps.kind
      /\ Outside(b.wire) => Outside(a.b.wire)
      /\ ~b.ps.sqlstateSeen => Harmless(a.b)
  BY ErrorKeeps
<1> HIDE DEF a
<1>2. Told(a, op)
  BY <1>1 DEF Told
<1> QED BY <1>1, <1>2 DEF a

\* PREPARE_FLUSH, DESCRIBE_FLUSH, EXECUTE_FLUSH.
LEMMA FlushAnswers ==
    ASSUME NEW b, NEW op, Turn(b, op), b.ps.await = "none",
           b.ps.phase \in DOMAIN Flushing, NEW a \in PollFlush(b)
    PROVE  Told(a, op) /\ Kept(b, a.b)
<1>1. /\ IsBackend(b) /\ GoodWire(b.wire) /\ AdapterInv(b)
      /\ b.pg.phase = "READY" /\ b.pg.statements = 1 /\ op \in Operations
      /\ b.ps.phase \in PhasesOf(op, b.ps.kind)
      /\ b.ps.phase \in {"PREPARE_FLUSH", "DESCRIBE_FLUSH", "EXECUTE_FLUSH"}
  BY DEF Turn, Driven, GoodBackend, Flushing
<1>2. CASE b.wire.status = "BAD"
  <2>1. a = StatementError(b, "CONNECTION")
    BY <1>2 DEF PollFlush
  <2>2. Harmless(b) => ~b.ps.sqlstateSeen
    BY DEF Harmless
  <2> QED BY <1>1, <2>1, <2>2, ErrorAnswers DEF Kept
<1>3. CASE a = Waiting(b, "WRITE")
  <2>1. a.b = b /\ a.rc = "OK" /\ a.out = "WRITE"
    BY <1>3 DEF Waiting, Answer
  <2> QED BY <1>1, <2>1 DEF Told, Kept, Turn, Waits
<1>4. CASE b.wire.status # "BAD" /\ a # Waiting(b, "WRITE")
  <2> DEFINE v == Flushed(b.wire)
             done == b.ps.phase = "EXECUTE_FLUSH" /\ b.ps.kind = "scan"
             p == IF done THEN "FETCH_WAIT" ELSE Flushing[b.ps.phase]
             c == a.b
  <2>1. /\ GoodWire(v) /\ v.out = "none" /\ v.sig = b.wire.sig /\ v.stx = b.wire.stx
        /\ v.cmd = b.wire.out \/ v.cmd = b.wire.cmd
    BY <1>1, FlushedGood
  <2> HIDE DEF v
  <2>2. /\ a.rc = "OK" /\ a.out = (IF done THEN "COMPLETE" ELSE "CONTINUE")
        /\ DOMAIN c = DOMAIN b /\ c.pg = b.pg /\ c.wire = v
        /\ DOMAIN c.ps = DOMAIN b.ps /\ c.ps.phase = p /\ c.ps.await = "none"
        /\ c.ps.kind = b.ps.kind /\ c.ps.sqlstateSeen = b.ps.sqlstateSeen
    <3>1. CASE done
      <4>1. a = Completed([b EXCEPT !.wire = v], "FETCH_WAIT")
        BY <1>1, <1>4, <3>1 DEF PollFlush, v
      <4>2. /\ a.rc = "OK" /\ a.out = "COMPLETE"
            /\ c = [[b EXCEPT !.wire = v] EXCEPT !.ps.phase = "FETCH_WAIT", !.ps.await = "none"]
        BY <4>1 DEF Completed, Answer
      <4>3. /\ DOMAIN c = DOMAIN b /\ c.pg = b.pg /\ c.wire = v
            /\ c.ps = [b.ps EXCEPT !.phase = "FETCH_WAIT", !.await = "none"]
        BY <1>1, <4>2 DEF IsBackend
      <4> QED BY <1>1, <3>1, <4>2, <4>3 DEF IsBackend
    <3>2. CASE ~done
      <4>1. a = Going([[b EXCEPT !.wire = v] EXCEPT !.ps.phase = Flushing[@]])
        BY <1>1, <1>4, <3>2 DEF PollFlush, v
      <4>2. /\ a.rc = "OK" /\ a.out = "CONTINUE"
            /\ c = [[b EXCEPT !.wire = v] EXCEPT !.ps.phase = Flushing[@]]
        BY <4>1 DEF Going, Answer
      <4>3. /\ DOMAIN c = DOMAIN b /\ c.pg = b.pg /\ c.wire = v
            /\ c.ps = [b.ps EXCEPT !.phase = Flushing[b.ps.phase]]
        BY <1>1, <4>2 DEF IsBackend
      <4> QED BY <1>1, <3>2, <4>2, <4>3 DEF IsBackend
    <3> QED BY <3>1, <3>2
  <2>3. p \in {"PREPARE_WAIT", "DESCRIBE_WAIT", "EXECUTE_WAIT", "FETCH_WAIT"}
    BY <1>1 DEF Flushing
  <2>4. /\ done => p = DonePhase(op, b.ps.kind)
        /\ ~done => p \in PhasesOf(op, b.ps.kind)
    BY <1>1 DEF Flushing, PhasesOf, DonePhase, Operations
  <2> HIDE DEF p, c, done
  <2>5. AdapterInv(c)
    <3>1. c.ps.phase \notin Settled \cup {"NONE"} \cup DOMAIN Flushing \cup Resulting
      BY <2>2, <2>3 DEF Settled, Flushing, Resulting
    <3>2. b.ps.phase \notin {"CANCEL_DRAIN", "COMPLETE", "FAILED", "NONE", "CANCEL_POLL"}
      BY <1>1
    <3> QED BY <1>1, <2>2, <2>1, <3>1, <3>2 DEF AdapterInv
  <2>6. Told(a, op)
    BY <1>1, <2>2, <2>4 DEF Told, Driven, c
  <2>7. Outside(b.wire) => Outside(c.wire)
    BY <2>1, <2>2 DEF Outside
  <2>8. Harmless(b) => Harmless(c)
    BY <2>2, <2>3 DEF Harmless
  <2>9. GoodBackend(c)
    BY <1>1, <2>1, <2>2, <2>5 DEF GoodBackend, IsBackend
  <2> QED BY <2>2, <2>6, <2>7, <2>8, <2>9 DEF Kept, c
<1> QED BY <1>2, <1>3, <1>4

\* The adapter between two PQgetResult calls of one turn.
Between(c) ==
    /\ IsBackend(c) /\ GoodWire(c.wire)
    /\ c.pg.phase = "READY" /\ c.pg.statements = 1
    /\ c.wire.out = "none" /\ c.wire.sig # "sent"

\* An answer that goes on from c.
From(c, a, op) ==
    /\ Told(a, op) /\ GoodBackend(a.b)
    /\ a.b.pg.statements = c.pg.statements /\ a.b.ps.kind = c.ps.kind
    /\ Outside(c.wire) => Outside(a.b.wire)
    /\ ~c.ps.sqlstateSeen => Harmless(a.b)

\* A blocking PQgetResult is called: to see the end of the command, or after an error.
LEMMA BlockingAnswers ==
    ASSUME NEW c, Between(c), NEW op, NEW what \in {"end", "drain"},
           IF what = "drain" THEN c.ps.phase = "FAILED"
           ELSE /\ c.ps.phase \in Resulting \cup {"FETCH_WAIT"}
                /\ c.ps.phase \in PhasesOf(op, c.ps.kind)
                /\ ~c.ps.sqlstateSeen
    PROVE  From(c, Blocking(c, what), op)
<1> DEFINE a == Blocking(c, what)
           d == a.b
<1>1. a.rc = "OK" /\ a.out = "BLOCKED" /\ d = [c EXCEPT !.ps.await = what]
  BY DEF Blocking, Answer
<1>2. /\ DOMAIN d = DOMAIN c /\ d.pg = c.pg /\ d.wire = c.wire
      /\ d.ps = [c.ps EXCEPT !.await = what]
  BY <1>1 DEF Between, IsBackend
<1>3. /\ DOMAIN d.ps = DOMAIN c.ps /\ d.ps.await = what /\ d.ps.phase = c.ps.phase
      /\ d.ps.kind = c.ps.kind /\ d.ps.sqlstateSeen = c.ps.sqlstateSeen
  BY <1>2 DEF Between, IsBackend
<1> HIDE DEF a, d
<1>4. /\ d.ps.phase \in Resulting \cup {"FETCH_WAIT", "FAILED"}
      /\ d.ps.await = "drain" <=> d.ps.phase = "FAILED"
      /\ d.ps.phase # "NONE" /\ d.ps.phase \notin DOMAIN Flushing
      /\ d.ps.sqlstateSeen => d.ps.phase = "FAILED"
  BY <1>3 DEF Resulting, Flushing
<1>5. AdapterInv(d)
  BY <1>2, <1>3, <1>4 DEF AdapterInv, Between
<1>6. GoodBackend(d)
  BY <1>2, <1>3, <1>5 DEF GoodBackend, Between, IsBackend
<1>7. Driven(d, op)
  BY <1>2, <1>3 DEF Driven, Between
<1>8. Told(a, op)
  BY <1>1, <1>3, <1>7 DEF Told, d
<1>9. ~c.ps.sqlstateSeen => Harmless(d)
  BY <1>3, <1>4 DEF Harmless, Resulting
<1> QED BY <1>2, <1>3, <1>6, <1>8, <1>9 DEF From, a, d

\* A server error: the error is set, the results are read, the connection stays.
LEMMA ServerErrorAnswers ==
    ASSUME NEW c, Between(c), NEW op
    PROVE  From(c, ServerError(c), op)
<1> DEFINE d == StatementError(c, "SQL").b
<1>1. /\ IsBackend(d) /\ GoodWire(d.wire) /\ d.pg.phase = "READY"
      /\ d.pg.statements = c.pg.statements /\ d.ps.phase = "FAILED"
      /\ d.ps.kind = c.ps.kind /\ d.ps.sqlstateSeen = c.ps.sqlstateSeen
      /\ d.wire.out = c.wire.out /\ (d.wire.sig = "sent" => c.wire.sig = "sent")
      /\ Outside(c.wire) => Outside(d.wire)
  BY ErrorKeeps DEF Between
<1>2. ServerError(c) = Blocking(d, "drain")
  BY DEF ServerError
<1> HIDE DEF d
<1>3. Between(d)
  BY <1>1 DEF Between
<1>4. From(d, Blocking(d, "drain"), op)
  BY <1>1, <1>3, BlockingAnswers
<1> QED BY <1>1, <1>2, <1>4 DEF From

\* Errors of the adapter itself.
LEMMA ErrorFrom ==
    ASSUME NEW c, IsBackend(c), GoodWire(c.wire), c.pg.statements # 0,
           NEW err, err # "SQL", NEW op
    PROVE  From(c, StatementError(c, err), op)
BY ErrorAnswers DEF From

\* The operation is complete: the command is over and the connection at rest.
LEMMA CompletedAnswers ==
    ASSUME NEW c, IsBackend(c), GoodWire(c.wire), c.pg.phase = "READY",
           c.pg.statements = 1, c.wire.sig # "sent", AtRest(c.wire),
           NEW op, NEW phase \in {"PREPARED", "COMPLETE"},
           phase = DonePhase(op, c.ps.kind), c.ps.sqlstateSeen => phase = "COMPLETE"
    PROVE  From(c, Completed(c, phase), op)
<1> DEFINE a == Completed(c, phase)
           d == a.b
<1>1. /\ a.rc = "OK" /\ a.out = "COMPLETE"
      /\ d = [c EXCEPT !.ps.phase = phase, !.ps.await = "none"]
  BY DEF Completed, Answer
<1>2. /\ DOMAIN d = DOMAIN c /\ d.pg = c.pg /\ d.wire = c.wire
      /\ d.ps = [c.ps EXCEPT !.phase = phase, !.await = "none"]
  BY <1>1 DEF IsBackend
<1>3. /\ DOMAIN d.ps = DOMAIN c.ps /\ d.ps.await = "none" /\ d.ps.phase = phase
      /\ d.ps.kind = c.ps.kind /\ d.ps.sqlstateSeen = c.ps.sqlstateSeen
  BY <1>2 DEF IsBackend
<1> HIDE DEF a, d
<1>4. d.ps.phase \notin Resulting \cup DOMAIN Flushing \cup {"NONE", "CANCEL_POLL", "CANCEL_DRAIN"}
  BY <1>3 DEF Resulting, Flushing
<1>5. AdapterInv(d)
  BY <1>2, <1>3, <1>4 DEF AdapterInv
<1>6. GoodBackend(d)
  BY <1>2, <1>3, <1>5 DEF GoodBackend, IsBackend
<1>7. Told(a, op)
  BY <1>1, <1>2, <1>3 DEF Told, d
<1>8. ~c.ps.sqlstateSeen => Harmless(d)
  BY <1>3, <1>4 DEF Harmless
<1> QED BY <1>2, <1>3, <1>6, <1>7, <1>8 DEF From, a, d

\* PQgetResult in a turn of the adapter.
LEMMA TakenBetween ==
    ASSUME NEW b, IsBackend(b), GoodWire(b.wire), b.pg.phase = "READY",
           b.pg.statements = 1, b.wire.sig # "sent",
           b.wire.out = "none", ResultAvailable(b.wire)
    PROVE  LET c == [b EXCEPT !.wire = AfterResult(@)]
               r == NextResult(b.wire)
           IN  /\ Between(c) /\ c.pg = b.pg /\ c.ps = b.ps
               /\ c.wire.status = b.wire.status
               /\ Outside(b.wire) => Outside(c.wire)
               /\ r.k = "READY" => AtRest(c.wire)
               /\ \A kind : Without(b.wire, kind) =>
                      Without(c.wire, kind) /\ (r.k \in {"READY", "FATAL_ERROR"} \/ r.k # kind)
<1> DEFINE c == [b EXCEPT !.wire = AfterResult(@)]
           v == AfterResult(b.wire)
           r == NextResult(b.wire)
<1>1. DOMAIN c = DOMAIN b /\ c.pg = b.pg /\ c.ps = b.ps /\ c.wire = v
  BY DEF IsBackend
<1>2. /\ GoodWire(v) /\ v.status = b.wire.status /\ v.out = "none" /\ v.cmd = b.wire.cmd
      /\ v.stx = b.wire.stx /\ v.sig = b.wire.sig
      /\ r.k = "READY" => AtRest(v)
      /\ \A kind : Without(b.wire, kind) => Without(v, kind)
      /\ \A kind : Without(b.wire, kind) => r.k \in {"READY", "FATAL_ERROR"} \/ r.k # kind
  BY TakenGood
<1> HIDE DEF c, v, r
<1>3. Between(c)
  BY <1>1, <1>2 DEF Between, IsBackend
<1>4. Outside(b.wire) => Outside(c.wire)
  BY <1>1, <1>2 DEF Outside
<1> QED BY <1>1, <1>2, <1>3, <1>4 DEF c, r

\* A turn of statement_poll that got from b to c without a new statement, transaction or
\* confirmed cancel, and goes on from c with an answer: the answer keeps what b had.
LEMMA FromKept ==
    ASSUME NEW b, NEW c, NEW a, NEW op, From(c, a, op),
           c.pg.statements = b.pg.statements, c.ps.kind = b.ps.kind,
           c.ps.sqlstateSeen => b.ps.sqlstateSeen,
           Outside(b.wire) => Outside(c.wire)
    PROVE  Told(a, op) /\ Kept(b, a.b)
BY DEF From, Kept, Harmless

\* What a turn of an operation may rely on.
LEMMA TurnFacts ==
    ASSUME NEW b, NEW op, Turn(b, op)
    PROVE  /\ IsBackend(b) /\ GoodWire(b.wire) /\ AdapterInv(b)
           /\ b.pg.phase = "READY" /\ b.pg.statements = 1 /\ op \in Operations
           /\ b.ps.await = "none" => b.ps.phase \in PhasesOf(op, b.ps.kind)
           /\ b.ps.phase # "CANCEL_POLL" => b.wire.sig # "sent"
BY DEF Turn, Driven, GoodBackend, AdapterInv

\* vps_libpq_statement_finish_result.
LEMMA FinishAnswers ==
    ASSUME NEW b, NEW op, Turn(b, op), b.ps.await = "none", b.ps.phase \in Resulting
    PROVE  Told(FinishResult(b), op) /\ Kept(b, FinishResult(b).b)
<1> DEFINE c == [b EXCEPT !.wire = AfterResult(@)]
           r == NextResult(b.wire)
           f == FinishResult(b)
<1>1. /\ IsBackend(b) /\ GoodWire(b.wire) /\ AdapterInv(b)
      /\ b.pg.phase = "READY" /\ b.pg.statements = 1 /\ op \in Operations
      /\ b.ps.phase \in PhasesOf(op, b.ps.kind) /\ b.wire.sig # "sent"
  BY TurnFacts DEF Resulting
<1>2. /\ ResultAvailable(b.wire) /\ b.wire.out = "none"
      /\ ~b.ps.sqlstateSeen
  BY <1>1 DEF AdapterInv, Resulting
<1>3. /\ Between(c) /\ c.pg = b.pg /\ c.ps = b.ps
      /\ Outside(b.wire) => Outside(c.wire)
  BY <1>1, <1>2, TakenBetween
<1>4. \/ f = StatementError(c, "CONNECTION")
      \/ f = ServerError(c)
      \/ f = StatementError(c, "SCHEMA")
      \/ f = Blocking(c, "end")
      \/ f = Blocking(Captured(c), "end")
  BY DEF FinishResult, CheckMetadata
<1> HIDE DEF c, f
<1>5. /\ From(c, StatementError(c, "CONNECTION"), op) /\ From(c, StatementError(c, "SCHEMA"), op)
      /\ From(c, ServerError(c), op)
  BY <1>3, ErrorFrom, ServerErrorAnswers DEF Between
<1>6. From(c, Blocking(c, "end"), op)
  BY <1>1, <1>2, <1>3, BlockingAnswers
<1>7. From(c, Blocking(Captured(c), "end"), op)
  <2> DEFINE d == Captured(c)
  <2>1. DOMAIN d = DOMAIN c /\ d.pg = c.pg /\ d.wire = c.wire
          /\ d.ps = [c.ps EXCEPT !.described = TRUE]
    BY <1>3 DEF Captured, Between, IsBackend
  <2>2. /\ DOMAIN d.ps = DOMAIN c.ps /\ d.ps.phase = c.ps.phase /\ d.ps.kind = c.ps.kind
        /\ d.ps.sqlstateSeen = c.ps.sqlstateSeen
    BY <1>3, <2>1 DEF Between, IsBackend
  <2> HIDE DEF d
  <2>3. Between(d)
    BY <1>3, <2>1, <2>2 DEF Between, IsBackend
  <2>4. From(d, Blocking(d, "end"), op)
    BY <1>1, <1>2, <1>3, <2>2, <2>3, BlockingAnswers
  <2> QED BY <2>1, <2>2, <2>4 DEF From, d
<1>8. From(c, f, op)
  BY <1>4, <1>5, <1>6, <1>7
<1> QED BY <1>3, <1>8, FromKept DEF f

\* FETCH_WAIT.
LEMMA FetchAnswers ==
    ASSUME NEW b, NEW op, Turn(b, op), b.ps.await = "none", b.ps.phase = "FETCH_WAIT"
    PROVE  Told(PollFetch(b), op) /\ Kept(b, PollFetch(b).b)
<1> DEFINE c == [b EXCEPT !.wire = AfterResult(@)]
           r == NextResult(b.wire)
           f == PollFetch(b)
           row == Answer([c EXCEPT !.ps.phase = "ROW_READY", !.ps.result = r.n],
                         "OK", "ROW_READY", "NONE")
<1>1. /\ IsBackend(b) /\ GoodWire(b.wire) /\ AdapterInv(b)
      /\ b.pg.phase = "READY" /\ b.pg.statements = 1 /\ op \in Operations
      /\ b.ps.phase \in PhasesOf(op, b.ps.kind) /\ b.wire.sig # "sent"
      /\ ~b.ps.sqlstateSeen
  BY TurnFacts DEF AdapterInv
<1>2. op = "FETCH" /\ b.ps.kind = "scan"
  BY <1>1 DEF PhasesOf, Operations
<1>3. CASE b.wire.status = "BAD"
  <2>1. f = StatementError(b, "CONNECTION")
    BY <1>3 DEF PollFetch
  <2> QED BY <1>1, <2>1, ErrorFrom, FromKept
<1>4. CASE b.wire.status # "BAD" /\ IsBusy(b.wire)
  <2>1. f.b = b /\ f.rc = "OK" /\ f.out = "READ"
    BY <1>4 DEF PollFetch, Waiting, Answer
  <2> QED BY <1>1, <2>1 DEF Told, Kept, Turn, Waits
<1>5. CASE b.wire.status # "BAD" /\ ~IsBusy(b.wire)
  <2>1. ResultAvailable(b.wire) /\ b.wire.out = "none"
    BY <1>1, <1>5 DEF ResultAvailable, IsBusy, GoodWire, WireInv
  <2>2. /\ Between(c) /\ c.pg = b.pg /\ c.ps = b.ps
        /\ Outside(b.wire) => Outside(c.wire)
    BY <1>1, <2>1, TakenBetween
  <2>3. \/ f = StatementError(c, "INVARIANT")
        \/ f = StatementError(c, "SCHEMA")
        \/ f = row
        \/ f = Blocking(c, "end")
        \/ f = ServerError(c)
    BY <1>5 DEF PollFetch, FetchResult, CheckMetadata
  <2> HIDE DEF c, f, r
  <2>4. /\ From(c, StatementError(c, "INVARIANT"), op)
        /\ From(c, StatementError(c, "SCHEMA"), op)
        /\ From(c, ServerError(c), op)
    BY <2>2, ErrorFrom, ServerErrorAnswers DEF Between
  <2>5. From(c, Blocking(c, "end"), op)
    BY <1>1, <2>2, BlockingAnswers
  <2>6. From(c, row, op)
    <3> DEFINE d == row.b
    <3>1. /\ row.rc = "OK" /\ row.out = "ROW_READY"
          /\ d = [c EXCEPT !.ps.phase = "ROW_READY", !.ps.result = r.n]
      BY DEF Answer
    <3>2. DOMAIN d = DOMAIN c /\ d.pg = c.pg /\ d.wire = c.wire
            /\ d.ps = [c.ps EXCEPT !.phase = "ROW_READY", !.result = r.n]
      BY <2>2, <3>1 DEF Between, IsBackend
    <3> HIDE DEF row, d
    <3>3. /\ DOMAIN d.ps = DOMAIN c.ps /\ d.ps.phase = "ROW_READY" /\ d.ps.kind = c.ps.kind
          /\ d.ps.sqlstateSeen = c.ps.sqlstateSeen /\ d.ps.await = "none"
      BY <2>2, <3>2 DEF Between, IsBackend
    <3>4. AdapterInv(d)
      BY <1>1, <2>2, <3>2, <3>3 DEF AdapterInv, Between, Settled, Flushing, Resulting
    <3>5. GoodBackend(d)
      BY <2>2, <3>2, <3>3, <3>4 DEF Between, IsBackend, GoodBackend
    <3>6. Told(row, op)
      BY <1>2, <2>2, <3>1, <3>2, <3>3 DEF Told, Between, d
    <3>7. Harmless(d)
      BY <1>1, <2>2, <3>3 DEF Harmless
    <3> QED BY <3>2, <3>3, <3>5, <3>6, <3>7 DEF From, d
  <2>7. From(c, f, op)
    BY <2>3, <2>4, <2>5, <2>6
  <2> QED BY <2>2, <2>7, FromKept DEF f
<1> QED BY <1>3, <1>4, <1>5

\* PREPARE_WAIT, DESCRIBE_WAIT, EXECUTE_WAIT.
LEMMA WaitAnswers ==
    ASSUME NEW b, NEW op, Turn(b, op), b.ps.await = "none", b.ps.phase \in DOMAIN Receiving
    PROVE  Told(PollWait(b), op) /\ Kept(b, PollWait(b).b)
<1> DEFINE f == PollWait(b)
<1>1. /\ IsBackend(b) /\ GoodWire(b.wire) /\ AdapterInv(b)
      /\ b.pg.phase = "READY" /\ b.pg.statements = 1 /\ op \in Operations
      /\ b.ps.phase \in PhasesOf(op, b.ps.kind) /\ b.wire.sig # "sent"
      /\ b.ps.phase \in {"PREPARE_WAIT", "DESCRIBE_WAIT", "EXECUTE_WAIT"}
      /\ ~b.ps.sqlstateSeen
  BY TurnFacts DEF AdapterInv, Receiving
<1>2. CASE b.wire.status = "BAD"
  <2>1. f = StatementError(b, "CONNECTION")
    BY <1>2 DEF PollWait
  <2> QED BY <1>1, <2>1, ErrorFrom, FromKept
<1>3. CASE b.wire.status # "BAD" /\ IsBusy(b.wire)
  <2>1. f.b = b /\ f.rc = "OK" /\ f.out = "READ"
    BY <1>3 DEF PollWait, Waiting, Answer
  <2> QED BY <1>1, <2>1 DEF Told, Kept, Turn, Waits
<1>4. CASE b.wire.status # "BAD" /\ ~IsBusy(b.wire)
  <2> DEFINE c == f.b
             p == Receiving[b.ps.phase]
  <2>1. ResultAvailable(b.wire) /\ b.wire.out = "none"
    BY <1>1, <1>4 DEF ResultAvailable, IsBusy, GoodWire, WireInv
  <2>2. f.rc = "OK" /\ f.out = "CONTINUE" /\ c = [b EXCEPT !.ps.phase = Receiving[@]]
    BY <1>4 DEF PollWait, Going, Answer
  <2>3. DOMAIN c = DOMAIN b /\ c.pg = b.pg /\ c.wire = b.wire /\ c.ps = [b.ps EXCEPT !.phase = p]
    BY <1>1, <2>2 DEF IsBackend
  <2>4. /\ DOMAIN c.ps = DOMAIN b.ps /\ c.ps.phase = p /\ c.ps.kind = b.ps.kind
        /\ c.ps.sqlstateSeen = b.ps.sqlstateSeen /\ c.ps.await = "none"
    BY <1>1, <2>3 DEF IsBackend
  <2>5. p \in Resulting /\ p \in PhasesOf(op, b.ps.kind)
    BY <1>1 DEF Receiving, Resulting, PhasesOf, Operations
  <2> HIDE DEF c, f, p
  <2>6. AdapterInv(c)
    BY <1>1, <2>1, <2>3, <2>4, <2>5 DEF AdapterInv, Settled, Flushing, Resulting
  <2>7. GoodBackend(c)
    BY <1>1, <2>3, <2>4, <2>6 DEF IsBackend, GoodBackend
  <2>8. Driven(c, op)
    BY <1>1, <2>3, <2>4, <2>5 DEF Driven
  <2>9. Told(f, op)
    BY <2>2, <2>4, <2>8 DEF Told, c
  <2>10. Harmless(c)
    BY <1>1, <2>4, <2>5 DEF Harmless, Resulting
  <2> QED BY <2>3, <2>4, <2>7, <2>9, <2>10 DEF Kept, c, f
<1> QED BY <1>2, <1>3, <1>4

\* CANCEL_POLL.
LEMMA CancelAnswers ==
    ASSUME NEW b, NEW op, Turn(b, op), b.ps.await = "none", b.ps.phase = "CANCEL_POLL",
           NEW a \in PollCancel(b)
    PROVE  Told(a, op) /\ Kept(b, a.b)
<1>1. /\ IsBackend(b) /\ GoodWire(b.wire) /\ AdapterInv(b)
      /\ b.pg.phase = "READY" /\ b.pg.statements = 1 /\ op \in Operations
      /\ b.ps.phase \in PhasesOf(op, b.ps.kind)
      /\ ~b.ps.sqlstateSeen
  BY TurnFacts DEF AdapterInv
<1>2. op = "CANCEL"
  BY <1>1 DEF PhasesOf, Operations
<1>3. CASE a = StatementError(b, "CANCEL")
  <2>1. From(b, a, op)
    BY <1>1, <1>3, ErrorFrom
  <2> QED BY <2>1, FromKept
<1>4. CASE a \in {Waiting(b, "READ"), Waiting(b, "WRITE")}
  <2>1. a.b = b /\ a.rc = "OK" /\ a.out \in Waits
    BY <1>4 DEF Waiting, Answer, Waits
  <2> QED BY <1>1, <2>1 DEF Told, Kept, Turn
<1>5. CASE a = Going([b EXCEPT !.wire.sig = "none", !.ps.phase = "CANCEL_DRAIN"])
  <2> DEFINE c == a.b
             v == [b.wire EXCEPT !.sig = "none"]
  <2>1. /\ a.rc = "OK" /\ a.out = "CONTINUE"
        /\ c = [b EXCEPT !.wire.sig = "none", !.ps.phase = "CANCEL_DRAIN"]
    BY <1>5 DEF Going, Answer
  <2>2. /\ DOMAIN c = DOMAIN b /\ c.pg = b.pg /\ c.wire = v
        /\ c.ps = [b.ps EXCEPT !.phase = "CANCEL_DRAIN"]
    BY <1>1, <2>1 DEF IsBackend
  <2>3. /\ DOMAIN c.ps = DOMAIN b.ps /\ c.ps.phase = "CANCEL_DRAIN" /\ c.ps.kind = b.ps.kind
        /\ c.ps.sqlstateSeen = b.ps.sqlstateSeen /\ c.ps.await = "none"
    BY <1>1, <2>2 DEF IsBackend
  <2>4. /\ GoodWire(v) /\ v.sig = "none" /\ v.out = b.wire.out /\ v.in = b.wire.in
        /\ Outside(b.wire) => Outside(v)
    BY <1>1, SignalGood
  <2> HIDE DEF c, v
  <2>5. AdapterInv(c)
    BY <1>1, <2>2, <2>3, <2>4 DEF AdapterInv, Settled, Flushing, Resulting
  <2>6. GoodBackend(c)
    BY <1>1, <2>2, <2>3, <2>4, <2>5 DEF IsBackend, GoodBackend
  <2>7. Driven(c, op)
    BY <1>1, <1>2, <2>2, <2>3 DEF Driven, PhasesOf
  <2>8. Told(a, op)
    BY <2>1, <2>3, <2>7 DEF Told, c
  <2>9. Harmless(b) => Harmless(c)
    <3> SUFFICES ASSUME b.wire.out # "none" PROVE Harmless(c)
      BY DEF Harmless
    <3>1. v.in = <<>> /\ Len(v.in) = 0
      BY <1>1, <2>4 DEF GoodWire, WireInv
    <3>2. Without(c.wire, "57014")
      BY <2>2, <3>1 DEF Without
    <3> QED BY <1>1, <2>2, <2>3, <2>4, <3>2 DEF Harmless
  <2> QED BY <2>2, <2>3, <2>4, <2>6, <2>8, <2>9 DEF Kept, c
<1> QED BY <1>3, <1>4, <1>5 DEF PollCancel

\* CANCEL_DRAIN: the drain ends with the connection at rest.
LEMMA DrainAnswers ==
    ASSUME NEW b, NEW op, Turn(b, op), b.ps.await = "none", b.ps.phase = "CANCEL_DRAIN"
    PROVE  Told(PollDrain(b), op) /\ Kept(b, PollDrain(b).b)
<1> DEFINE w == Flushed(b.wire)
           f == PollDrain(b)
<1>1. /\ IsBackend(b) /\ GoodWire(b.wire) /\ AdapterInv(b)
      /\ b.pg.phase = "READY" /\ b.pg.statements = 1 /\ op \in Operations
      /\ b.ps.phase \in PhasesOf(op, b.ps.kind) /\ b.wire.sig # "sent"
  BY TurnFacts
<1>2. op = "CANCEL"
  BY <1>1 DEF PhasesOf, Operations
<1>3. /\ GoodWire(w) /\ w.out = "none" /\ w.in = b.wire.in /\ w.sig = b.wire.sig
      /\ w.stx = b.wire.stx /\ (w.cmd = b.wire.cmd \/ w.cmd = b.wire.out)
      /\ w.status = b.wire.status
  BY <1>1, FlushedGood
<1>4. Outside(b.wire) => Outside(w)
  BY <1>3 DEF Outside
<1>5. \A kind : Without(b.wire, kind) => Without(w, kind)
  BY <1>3 DEF Without
<1> HIDE DEF w
<1>6. CASE w.status = "BAD"
  <2>1. f = StatementError(b, "CONNECTION")
    BY <1>6 DEF PollDrain, w
  <2>2. From(b, f, op)
    BY <1>1, <2>1, ErrorFrom
  <2> QED BY <2>2, FromKept
<1>7. CASE w.status # "BAD" /\ IsBusy(w)
  <2> DEFINE c == f.b
  <2>1. f.rc = "OK" /\ f.out = "READ" /\ c = [b EXCEPT !.wire = w]
    BY <1>7 DEF PollDrain, Waiting, Answer, w
  <2>2. DOMAIN c = DOMAIN b /\ c.pg = b.pg /\ c.wire = w /\ c.ps = b.ps
    BY <1>1, <2>1 DEF IsBackend
  <2> HIDE DEF c, f
  <2>3. AdapterInv(c)
    BY <1>1, <1>3, <2>2 DEF AdapterInv, Settled, Flushing, Resulting
  <2>4. GoodBackend(c)
    BY <1>1, <1>3, <2>2, <2>3 DEF IsBackend, GoodBackend
  <2>5. Driven(c, op)
    BY <1>1, <2>2 DEF Driven
  <2>6. Told(f, op)
    BY <2>1, <2>2, <2>5 DEF Told, c, Waits
  <2>7. Harmless(b) => Harmless(c)
    BY <1>3, <1>5, <2>2 DEF Harmless
  <2> QED BY <1>4, <2>2, <2>4, <2>6, <2>7 DEF Kept, c, f
<1>8. CASE w.status # "BAD" /\ ~IsBusy(w)
  <2> DEFINE e == [b EXCEPT !.wire = w]
             c == [e EXCEPT !.wire = AfterResult(@)]
             r == NextResult(e.wire)
  <2>1. DOMAIN e = DOMAIN b /\ e.pg = b.pg /\ e.wire = w /\ e.ps = b.ps
    BY <1>1 DEF IsBackend
  <2>2. c = [b EXCEPT !.wire = AfterResult(w)] /\ r = NextResult(w)
    BY <1>1, <2>1 DEF IsBackend
  <2> HIDE DEF e
  <2>3. ResultAvailable(e.wire) /\ IsBackend(e)
    BY <1>1, <1>8, <2>1 DEF ResultAvailable, IsBusy, IsBackend
  <2>4. /\ Between(c) /\ c.pg = e.pg /\ c.ps = e.ps
        /\ Outside(e.wire) => Outside(c.wire)
        /\ r.k = "READY" => AtRest(c.wire)
        /\ \A kind : Without(e.wire, kind) =>
               Without(c.wire, kind) /\ (r.k \in {"READY", "FATAL_ERROR"} \/ r.k # kind)
    BY <1>1, <1>3, <2>1, <2>3, TakenBetween
  <2> HIDE DEF c, r
  <2>5. CASE r.k # "READY"
    <3> DEFINE d == f.b
    <3>1. /\ f.rc = "OK" /\ f.out = "CONTINUE"
          /\ d = [c EXCEPT !.ps.sqlstateSeen = @ \/ r.k = "57014",
                           !.ps.terminalSeen = @ \/ r.k = "TUPLES_OK"]
      BY <1>8, <2>2, <2>5 DEF PollDrain, Going, Answer, w
    <3>2. /\ DOMAIN d = DOMAIN c /\ d.pg = c.pg /\ d.wire = c.wire
          /\ d.ps = [c.ps EXCEPT !.sqlstateSeen = c.ps.sqlstateSeen \/ r.k = "57014",
                                 !.terminalSeen = c.ps.terminalSeen \/ r.k = "TUPLES_OK"]
      BY <2>4, <3>1 DEF Between, IsBackend
    <3> HIDE DEF d, f
    <3>3. /\ DOMAIN d.ps = DOMAIN c.ps /\ d.ps.phase = c.ps.phase /\ d.ps.kind = c.ps.kind
          /\ d.ps.await = c.ps.await
          /\ d.ps.sqlstateSeen = (c.ps.sqlstateSeen \/ r.k = "57014")
      BY <2>4, <3>2 DEF Between, IsBackend
    <3>4. AdapterInv(d)
      BY <2>1, <2>4, <3>2, <3>3 DEF AdapterInv, Between, Settled, Flushing, Resulting
    <3>5. GoodBackend(d)
      BY <2>4, <3>2, <3>3, <3>4 DEF Between, IsBackend, GoodBackend
    <3>6. Driven(d, op)
      BY <1>1, <2>1, <2>4, <3>2, <3>3 DEF Driven
    <3>7. Told(f, op)
      BY <2>1, <2>4, <3>1, <3>3, <3>6 DEF Told, d
    <3>8. Harmless(b) => Harmless(d)
      <4> SUFFICES ASSUME ~b.ps.sqlstateSeen, Without(b.wire, "57014")
                   PROVE  Harmless(d)
        BY DEF Harmless
      <4>1. Without(c.wire, "57014") /\ r.k # "57014"
        BY <1>5, <2>1, <2>4, <2>5
      <4> QED BY <2>1, <2>4, <3>2, <3>3, <4>1 DEF Harmless, Between
    <3>9. Outside(b.wire) => Outside(d.wire)
      BY <1>4, <2>1, <2>4, <3>2
    <3> QED BY <2>1, <2>4, <3>2, <3>3, <3>5, <3>7, <3>8, <3>9 DEF Kept, d, f
  <2>6. CASE r.k = "READY"
    <3>1. From(c, Completed(c, "COMPLETE"), op)
      BY <1>2, <2>4, <2>6, CompletedAnswers DEF Between, DonePhase
    <3>2. From(c, [Completed(c, "COMPLETE") EXCEPT !.err = "57014"], op)
      <4> DEFINE x == Completed(c, "COMPLETE")
                 y == [x EXCEPT !.err = "57014"]
      <4>1. y.b = x.b /\ y.rc = x.rc /\ y.out = x.out
        BY DEF Completed, Answer
      <4> HIDE DEF x, y
      <4> QED BY <3>1, <4>1 DEF From, Told, x, y
    <3>3. From(c, StatementError(c, "INVARIANT"), op)
      BY <2>4, ErrorFrom DEF Between
    <3>4. \/ f = Completed(c, "COMPLETE")
          \/ f = [Completed(c, "COMPLETE") EXCEPT !.err = "57014"]
          \/ f = StatementError(c, "INVARIANT")
      BY <1>8, <2>2, <2>6 DEF PollDrain, w
    <3>5. From(c, f, op)
      BY <3>1, <3>2, <3>3, <3>4
    <3> HIDE DEF f
    <3>6. /\ c.pg.statements = b.pg.statements /\ c.ps.kind = b.ps.kind
          /\ c.ps.sqlstateSeen = b.ps.sqlstateSeen
          /\ Outside(b.wire) => Outside(c.wire)
      BY <1>4, <2>1, <2>4
    <3> QED BY <3>5, <3>6, FromKept DEF f
  <2> QED BY <2>5, <2>6
<1> QED BY <1>6, <1>7, <1>8

\* A blocking PQgetResult returns.
LEMMA AwaitedAnswers ==
    ASSUME NEW b, NEW op, Turn(b, op), b.ps.await # "none", ResultAvailable(b.wire)
    PROVE  Told(AwaitedResult(b), op) /\ Kept(b, AwaitedResult(b).b)
<1> DEFINE c == [b EXCEPT !.wire = AfterResult(@)]
           r == NextResult(b.wire)
           next == [c EXCEPT !.ps.await = "none"]
           f == AwaitedResult(b)
<1>1. /\ IsBackend(b) /\ GoodWire(b.wire) /\ AdapterInv(b)
      /\ b.pg.phase = "READY" /\ b.pg.statements = 1 /\ op \in Operations
      /\ b.ps.phase # "CANCEL_POLL" => b.wire.sig # "sent"
  BY TurnFacts
<1>2. /\ b.wire.out = "none"
      /\ b.ps.phase \in Resulting \cup {"FETCH_WAIT", "FAILED"}
      /\ b.ps.await = "drain" <=> b.ps.phase = "FAILED"
  BY <1>1 DEF AdapterInv
<1>3. b.wire.sig # "sent"
  BY <1>1, <1>2 DEF Resulting
<1>4. /\ Between(c) /\ c.pg = b.pg /\ c.ps = b.ps /\ c.wire.status = b.wire.status
      /\ Outside(b.wire) => Outside(c.wire)
      /\ r.k = "READY" => AtRest(c.wire)
  BY <1>1, <1>2, <1>3, TakenBetween
<1> HIDE DEF c, r
<1>5. /\ DOMAIN next = DOMAIN c /\ next.pg = c.pg /\ next.wire = c.wire
      /\ next.ps = [c.ps EXCEPT !.await = "none"]
  BY <1>4 DEF Between, IsBackend
<1> HIDE DEF next
<1>6. /\ DOMAIN next.ps = DOMAIN c.ps /\ next.ps.phase = c.ps.phase /\ next.ps.kind = c.ps.kind
      /\ next.ps.sqlstateSeen = c.ps.sqlstateSeen /\ next.ps.await = "none"
  BY <1>4, <1>5 DEF Between, IsBackend
<1>7. Between(next)
  BY <1>4, <1>5, <1>6 DEF Between, IsBackend
<1>8. CASE b.ps.await = "drain"
  <2>1. b.ps.phase = "FAILED"
    BY <1>2, <1>8
  <2>2. CASE r.k # "READY"
    <3>1. f = Blocking(c, "drain")
      BY <1>8, <2>2 DEF AwaitedResult, c, r
    <3>2. From(c, f, op)
      BY <1>4, <2>1, <3>1, BlockingAnswers
    <3> QED BY <1>4, <3>2, FromKept
  <2>3. CASE r.k = "READY"
    <3>1. f = Answer(next, "ERROR", "NONE", "SQL")
      BY <1>8, <2>3 DEF AwaitedResult, c, r, next
    <3>2. f.b = next /\ f.rc = "ERROR"
      BY <3>1 DEF Answer
    <3>3. AdapterInv(next)
      BY <1>1, <1>4, <1>5, <1>6, <1>7, <2>1, <2>3
      DEF AdapterInv, Between, Flushing, Resulting
    <3>4. GoodBackend(next)
      BY <1>7, <3>3 DEF Between, GoodBackend
    <3> HIDE DEF f
    <3>5. Told(f, op)
      <4>1. /\ f.b.ps.phase = "FAILED" /\ f.b.ps.await = "none"
            /\ f.b.pg.phase \in {"READY", "FAILED"}
        BY <1>4, <1>6, <1>7, <2>1, <3>2 DEF Between
      <4> QED BY <3>2, <4>1 DEF Told
    <3>6. Harmless(b) => Harmless(next)
      BY <1>4, <1>6, <2>1 DEF Harmless
    <3> QED BY <1>4, <1>5, <1>6, <3>2, <3>4, <3>5, <3>6 DEF Kept, f
  <2> QED BY <2>2, <2>3
<1>9. CASE b.ps.await # "drain"
  <2>1. /\ b.ps.phase \in Resulting \cup {"FETCH_WAIT"}
        /\ b.ps.phase \in PhasesOf(op, b.ps.kind)
        /\ ~b.ps.sqlstateSeen
    BY <1>1, <1>2, <1>9 DEF Turn, Driven, AdapterInv, Resulting
  <2>2. CASE r.k # "READY"
    <3>1. f = StatementError(c, "INVARIANT")
      BY <1>9, <2>2 DEF AwaitedResult, c, r
    <3>2. From(c, f, op)
      BY <1>4, <3>1, ErrorFrom DEF Between
    <3> QED BY <1>4, <3>2, FromKept
  <2>3. CASE r.k = "READY" /\ b.ps.phase # "PREPARE_RESULT"
    <3> DEFINE p == IF b.ps.phase = "DESCRIBE_RESULT" THEN "PREPARED" ELSE "COMPLETE"
    <3>1. f = Completed(c, p)
      BY <1>9, <2>3 DEF AwaitedResult, c, r
    <3>2. p \in {"PREPARED", "COMPLETE"} /\ p = DonePhase(op, b.ps.kind)
      BY <1>1, <2>1, <2>3 DEF DonePhase, PhasesOf, Operations, Resulting
    <3> HIDE DEF p
    <3>3. From(c, f, op)
      BY <1>4, <2>1, <2>3, <3>1, <3>2, CompletedAnswers DEF Between
    <3> QED BY <1>4, <3>3, FromKept
  <2>4. CASE r.k = "READY" /\ b.ps.phase = "PREPARE_RESULT" /\ b.wire.status = "BAD"
    <3>1. f = StatementError(next, "CONNECTION")
      BY <1>9, <2>4 DEF AwaitedResult, c, r, next
    <3>2. From(next, f, op)
      BY <1>7, <3>1, ErrorFrom DEF Between
    <3> QED BY <1>4, <1>5, <1>6, <3>2, FromKept
  <2>5. CASE r.k = "READY" /\ b.ps.phase = "PREPARE_RESULT" /\ b.wire.status # "BAD"
    <3> DEFINE d == f.b
               v == Send(next.wire, "describe")
    <3>1. /\ f.rc = "OK" /\ f.out = "CONTINUE"
          /\ d = [next EXCEPT !.wire = Send(@, "describe"), !.ps.phase = "DESCRIBE_FLUSH"]
      BY <1>9, <2>5 DEF AwaitedResult, Going, Answer, c, r, next
    <3>2. /\ DOMAIN d = DOMAIN next /\ d.pg = next.pg /\ d.wire = v
          /\ d.ps = [next.ps EXCEPT !.phase = "DESCRIBE_FLUSH"]
      BY <1>7, <3>1 DEF Between, IsBackend
    <3> HIDE DEF f, d
    <3>3. /\ DOMAIN d.ps = DOMAIN next.ps /\ d.ps.phase = "DESCRIBE_FLUSH"
          /\ d.ps.kind = next.ps.kind /\ d.ps.sqlstateSeen = next.ps.sqlstateSeen
          /\ d.ps.await = "none"
      BY <1>6, <1>7, <3>2 DEF Between, IsBackend
    <3>4. Quiet(next.wire)
      BY <1>4, <1>5, <1>7, <2>5 DEF AtRest, Lost, Between, GoodWire, IsWire
    <3>5. /\ GoodWire(v) /\ v.out = "describe" /\ v.cmd = "none" /\ v.stx = next.wire.stx
          /\ v.sig = next.wire.sig
      BY <1>7, <3>4, SendGood DEF Between
    <3> HIDE DEF v
    <3>6. AdapterInv(d)
      BY <1>4, <1>6, <1>7, <2>1, <3>2, <3>3, <3>5 DEF AdapterInv, Between, Settled, Resulting
    <3>7. GoodBackend(d)
      BY <1>7, <3>2, <3>3, <3>5, <3>6 DEF Between, IsBackend, GoodBackend
    <3>8. "DESCRIBE_FLUSH" \in PhasesOf(op, d.ps.kind)
      BY <1>1, <2>1, <2>5 DEF PhasesOf, Operations
    <3>9. Driven(d, op)
      BY <1>7, <3>2, <3>3, <3>8 DEF Driven, Between
    <3>10. Told(f, op)
      BY <3>1, <3>3, <3>9 DEF Told, d
    <3>11. Harmless(d)
      BY <1>4, <1>6, <2>1, <3>3 DEF Harmless
    <3>12. Outside(b.wire) => Outside(d.wire)
      BY <1>4, <1>5, <3>2, <3>5 DEF Outside
    <3> QED BY <1>4, <1>5, <1>6, <3>2, <3>3, <3>7, <3>10, <3>11, <3>12 DEF Kept, d, f
  <2> QED BY <2>2, <2>3, <2>4, <2>5
<1> QED BY <1>8, <1>9

\* vps_libpq_statement_poll.
LEMMA PollAnswers ==
    ASSUME NEW b, NEW op, Turn(b, op), b.ps.await = "none", NEW turn,
           NEW a \in StatementPoll(b, turn)
    PROVE  Told(a, op) /\ Kept(b, a.b)
<1>1. /\ IsBackend(b) /\ GoodWire(b.wire) /\ AdapterInv(b) /\ GoodBackend(b)
      /\ b.pg.phase = "READY" /\ b.pg.statements = 1 /\ op \in Operations
      /\ b.ps.phase \in PhasesOf(op, b.ps.kind)
  BY TurnFacts DEF Turn
<1>2. CASE a = StatementError(b, "TIMEOUT")
  <2>1. From(b, a, op)
    BY <1>1, <1>2, ErrorFrom
  <2> QED BY <2>1, FromKept
<1>3. CASE a = Waiting(b, "READ_WRITE")
  <2>1. a.b = b /\ a.rc = "OK" /\ a.out \in Waits
    BY <1>3 DEF Waiting, Answer, Waits
  <2> QED BY <1>1, <2>1 DEF Told, Kept, Turn
<1>4. CASE a = Completed(b, "COMPLETE") /\ b.ps.phase = "COMPLETE"
  <2>1. op = "FETCH" /\ DonePhase(op, b.ps.kind) = "COMPLETE"
    BY <1>1, <1>4 DEF PhasesOf, Operations, DonePhase
  <2>2. AtRest(b.wire) /\ b.wire.sig # "sent"
    BY <1>1, <1>4 DEF AdapterInv, Settled
  <2>3. From(b, a, op)
    BY <1>1, <1>4, <2>1, <2>2, CompletedAnswers
  <2> QED BY <2>3, FromKept
<1>5. CASE b.ps.phase = "CANCEL_POLL" /\ a \in PollCancel(b)
  BY <1>5, CancelAnswers
<1>6. CASE b.ps.phase = "CANCEL_DRAIN" /\ a = PollDrain(b)
  BY <1>6, DrainAnswers
<1>7. CASE b.ps.phase \in DOMAIN Flushing /\ a \in PollFlush(b)
  BY <1>7, FlushAnswers
<1>8. CASE b.ps.phase = "FETCH_WAIT" /\ a = PollFetch(b)
  BY <1>8, FetchAnswers
<1>9. CASE b.ps.phase \in DOMAIN Receiving /\ a = PollWait(b)
  BY <1>9, WaitAnswers
<1>10. CASE b.ps.phase \in Resulting /\ a = FinishResult(b)
  BY <1>10, FinishAnswers
<1>11. b.ps.phase \in {"COMPLETE", "CANCEL_POLL", "CANCEL_DRAIN", "FETCH_WAIT"}
          \cup DOMAIN Flushing \cup DOMAIN Receiving \cup Resulting
  BY <1>1 DEF PhasesOf, Operations, Flushing, Receiving, Resulting
<1>12. /\ {"COMPLETE", "CANCEL_POLL", "CANCEL_DRAIN", "FETCH_WAIT"} \cap DOMAIN Flushing = {}
       /\ {"COMPLETE", "CANCEL_POLL", "CANCEL_DRAIN", "FETCH_WAIT"} \cap DOMAIN Receiving = {}
       /\ DOMAIN Flushing \cap DOMAIN Receiving = {}
       /\ Resulting \cap ({"COMPLETE", "CANCEL_POLL", "CANCEL_DRAIN", "FETCH_WAIT"}
                            \cup DOMAIN Flushing \cup DOMAIN Receiving) = {}
  BY DEF Flushing, Receiving, Resulting
<1>13. CASE b.dl = "expired"
  BY <1>1, <1>2, <1>13 DEF StatementPoll, UnlessLate
<1>14. CASE b.dl # "expired" /\ turn = MaxInternalPolls
  <2>1. \/ a = Waiting(b, "READ_WRITE")
        \/ a = Completed(b, "COMPLETE") /\ b.ps.phase = "COMPLETE"
        \/ b.ps.phase = "CANCEL_POLL" /\ a \in PollCancel(b)
        \/ b.ps.phase = "CANCEL_DRAIN" /\ a = PollDrain(b)
        \/ b.ps.phase \in DOMAIN Flushing /\ a \in PollFlush(b)
        \/ b.ps.phase = "FETCH_WAIT" /\ a = PollFetch(b)
        \/ b.ps.phase \in DOMAIN Receiving /\ a = PollWait(b)
    BY <1>1, <1>14 DEF StatementPoll, UnlessLate
  <2> QED BY <1>3, <1>4, <1>5, <1>6, <1>7, <1>8, <1>9, <2>1
<1>15. CASE b.dl # "expired" /\ turn # MaxInternalPolls
  <2>1. \/ a = Completed(b, "COMPLETE") /\ b.ps.phase = "COMPLETE"
        \/ b.ps.phase = "CANCEL_POLL" /\ a \in PollCancel(b)
        \/ b.ps.phase = "CANCEL_DRAIN" /\ a = PollDrain(b)
        \/ b.ps.phase \in DOMAIN Flushing /\ a \in PollFlush(b)
        \/ b.ps.phase = "FETCH_WAIT" /\ a = PollFetch(b)
        \/ b.ps.phase \in DOMAIN Receiving /\ a = PollWait(b)
        \/ b.ps.phase \in Resulting /\ a = FinishResult(b)
    BY <1>1, <1>11, <1>12, <1>15 DEF StatementPoll, UnlessLate
  <2> QED BY <1>4, <1>5, <1>6, <1>7, <1>8, <1>9, <1>10, <2>1
<1> QED BY <1>13, <1>14, <1>15

\* vps_libpq_statement_create.
LEMMA CreateKeeps ==
    ASSUME NEW b, GoodBackend(b), NEW kind \in StatementKinds
    PROVE  LET a == StatementCreate(b, kind)
           IN  \/ a.rc # "OK" /\ a.b = b
               \/ /\ a.rc = "OK" /\ GoodBackend(a.b)
                  /\ a.b.pg.phase = "READY" /\ a.b.pg.statements = 1
                  /\ a.b.ps.phase = "CREATED" /\ a.b.ps.kind = kind
                  /\ a.b.ps.await = "none" /\ ~a.b.ps.sqlstateSeen
                  /\ a.b.wire = b.wire
<1> DEFINE a == StatementCreate(b, kind)
           c == a.b
<1>1. CASE b.pg.phase # "READY" \/ b.pg.statements # 0
  BY <1>1 DEF StatementCreate, Answer
<1>2. CASE b.pg.phase = "READY" /\ b.pg.statements = 0
  <2>1. /\ IsBackend(b) /\ GoodWire(b.wire) /\ AdapterInv(b)
    BY DEF GoodBackend
  <2>2. /\ a.rc = "OK"
        /\ c = [b EXCEPT !.pg.statements = 1,
                         !.ps = [NoStatement EXCEPT !.phase = "CREATED", !.kind = kind]]
    BY <1>2 DEF StatementCreate, Going, Answer
  <2>3. /\ DOMAIN c = DOMAIN b /\ c.wire = b.wire
        /\ c.pg = [b.pg EXCEPT !.statements = 1]
        /\ c.ps = [NoStatement EXCEPT !.phase = "CREATED", !.kind = kind]
    BY <2>1, <2>2 DEF IsBackend
  <2> HIDE DEF a, c
  <2>4. DOMAIN c.pg = DOMAIN b.pg /\ c.pg.statements = 1 /\ c.pg.phase = "READY"
    BY <1>2, <2>1, <2>3 DEF IsBackend
  <2>5. /\ DOMAIN c.ps = {"phase", "kind", "result", "described", "sqlstateSeen",
                          "terminalSeen", "await"}
        /\ c.ps.phase = "CREATED" /\ c.ps.kind = kind /\ c.ps.await = "none"
        /\ c.ps.sqlstateSeen = FALSE
    BY <2>3 DEF NoStatement
  <2>6. AtRest(b.wire) /\ b.wire.sig # "sent"
    BY <1>2, <2>1 DEF AdapterInv, Resulting
  <2>7. AdapterInv(c)
    BY <2>3, <2>4, <2>5, <2>6 DEF AdapterInv, Resulting, Flushing
  <2>8. GoodBackend(c)
    BY <2>1, <2>3, <2>4, <2>5, <2>7 DEF GoodBackend, IsBackend
  <2> QED BY <2>2, <2>3, <2>4, <2>5, <2>8 DEF a, c
<1> QED BY <1>1, <1>2

\* What vps_libpq_statement_start leaves.
Begun(b, a, op) ==
    /\ GoodBackend(a.b)
    /\ a.b.pg.statements = 1 /\ a.b.ps.kind = b.ps.kind
    /\ a.b.ps.await = "none"
    /\ Outside(b.wire) => Outside(a.b.wire)
    /\ \/ a.rc = "OK" /\ Driven(a.b, op)
       \/ a.rc # "OK" /\ a.b = b
       \/ a.rc # "OK" /\ a.b.ps.phase = "FAILED" /\ a.b.pg.phase = "FAILED"
    /\ ~b.ps.sqlstateSeen => ~a.b.ps.sqlstateSeen
    /\ ~b.ps.sqlstateSeen /\ a.rc = "OK" /\ (op # "CANCEL" \/ b.ps.phase = "EXECUTE_FLUSH")
         => Harmless(a.b)

\* vps_libpq_statement_start.
LEMMA StartKeeps ==
    ASSUME NEW b, GoodBackend(b), b.pg.statements = 1, b.ps.await = "none",
           NEW op \in Operations, NEW a \in StatementStart(b, op)
    PROVE  Begun(b, a, op)
<1>1. /\ IsBackend(b) /\ GoodWire(b.wire) /\ AdapterInv(b) /\ b.ps.phase # "NONE"
  BY DEF GoodBackend, AdapterInv
<1>2. CASE b.pg.phase # "READY" \/ ~StatementStartLegal(b, op)
  <2>1. a.b = b /\ a.rc = "INVALID_STATE"
    BY <1>2 DEF StatementStart, Answer
  <2> QED BY <2>1 DEF Begun
<1>3. ASSUME b.pg.phase = "READY", StatementStartLegal(b, op), op = "FETCH"
      PROVE  Begun(b, a, op)
  <2>1. a.b = b /\ a.rc = "OK"
    BY <1>3 DEF StatementStart, Going, Answer
  <2>2. b.ps.phase = IF b.ps.kind = "scan" THEN "FETCH_WAIT" ELSE "COMPLETE"
    BY <1>3 DEF StatementStartLegal
  <2>3. Driven(b, op)
    BY <1>3, <2>2 DEF Driven, PhasesOf
  <2>4. ~b.ps.sqlstateSeen => Harmless(b)
    BY <2>2 DEF Harmless
  <2> QED BY <2>1, <2>3, <2>4 DEF Begun
<1>4. ASSUME NEW d, IsBackend(d), GoodWire(d.wire), d.pg = b.pg, d.ps = b.ps, d.wire = b.wire,
             a = StatementError(d, "CONNECTION")
      PROVE  Begun(b, a, op)
  <2>1. /\ a.rc = "ERROR" /\ a.b.ps.phase = "FAILED" /\ a.b.ps.await = "none"
        /\ a.b.ps.kind = d.ps.kind /\ a.b.ps.sqlstateSeen = d.ps.sqlstateSeen
        /\ a.b.pg.phase = "FAILED" /\ a.b.pg.statements = d.pg.statements
        /\ Outside(d.wire) => Outside(a.b.wire)
        /\ GoodBackend(a.b)
    BY <1>4, ErrorKeeps
  <2> QED BY <1>4, <2>1 DEF Begun
<1>5. ASSUME b.pg.phase = "READY", StatementStartLegal(b, op), op = "CANCEL"
      PROVE  Begun(b, a, op)
  <2>1. CASE a = StatementError(b, "CONNECTION")
    BY <1>1, <1>4, <2>1
  <2>2. CASE a # StatementError(b, "CONNECTION")
    <3> DEFINE c == a.b
               v == [b.wire EXCEPT !.sig = "sent"]
    <3>1. /\ a.rc = "OK"
          /\ c = [[b EXCEPT !.dl = "running"] EXCEPT !.wire.sig = "sent", !.ps.result = 0,
                          !.ps.sqlstateSeen = FALSE, !.ps.terminalSeen = FALSE,
                          !.ps.phase = "CANCEL_POLL"]
      BY <1>5, <2>2 DEF StatementStart, Going, Answer, DeadlineStarted
    <3>2. /\ DOMAIN c = DOMAIN b /\ c.wire = v /\ c.pg = b.pg
          /\ c.ps = [b.ps EXCEPT !.result = 0, !.sqlstateSeen = FALSE, !.terminalSeen = FALSE,
                                 !.phase = "CANCEL_POLL"]
      BY <1>1, <3>1 DEF IsBackend
    <3> HIDE DEF c
    <3>3. /\ DOMAIN c.ps = DOMAIN b.ps /\ c.ps.phase = "CANCEL_POLL" /\ c.ps.kind = b.ps.kind
          /\ c.ps.await = b.ps.await /\ c.ps.sqlstateSeen = FALSE
      BY <1>1, <3>2 DEF IsBackend
    <3>4. /\ GoodWire(v) /\ v.out = b.wire.out
          /\ Outside(b.wire) => Outside(v)
      BY <1>1, SignalGood
    <3> HIDE DEF v
    <3>5. AdapterInv(c)
      BY <1>1, <1>5, <3>2, <3>3, <3>4 DEF AdapterInv, Settled, Flushing, Resulting
    <3>6. GoodBackend(c)
      BY <1>1, <3>2, <3>3, <3>4, <3>5 DEF GoodBackend, IsBackend
    <3>7. Driven(c, op)
      BY <1>5, <3>2, <3>3 DEF Driven, PhasesOf
    <3>8. b.ps.phase = "EXECUTE_FLUSH" => Harmless(c)
      BY <1>1, <1>5, <3>2, <3>3, <3>4 DEF Harmless, AdapterInv, Flushing
    <3> QED BY <1>5, <3>1, <3>2, <3>3, <3>4, <3>6, <3>7, <3>8 DEF Begun, c
  <2> QED BY <2>1, <2>2
<1>6. ASSUME b.pg.phase = "READY", StatementStartLegal(b, op), op \in {"PREPARE", "EXECUTE"}
      PROVE  Begun(b, a, op)
  <2> DEFINE d == [b EXCEPT !.dl = "running"]
  <2>1. DOMAIN d = DOMAIN b /\ d.pg = b.pg /\ d.ps = b.ps /\ d.wire = b.wire
    BY <1>1 DEF IsBackend
  <2>2. IsBackend(d)
    BY <1>1, <2>1 DEF IsBackend
  <2>3. b.ps.phase \in {"CREATED", "PREPARED"} /\ (op = "PREPARE" => b.ps.kind = "prepare")
    BY <1>6 DEF StatementStartLegal
  <2>4. AtRest(b.wire) /\ b.wire.sig # "sent"
    BY <1>1, <1>6, <2>3 DEF AdapterInv, Settled
  <2>5. CASE b.wire.status = "BAD"
    <3>1. a = StatementError(d, "CONNECTION")
      BY <1>6, <2>5 DEF StatementStart, DeadlineStarted
    <3> HIDE DEF d
    <3> QED BY <1>1, <1>4, <2>1, <2>2, <3>1
  <2>6. CASE b.wire.status # "BAD"
    <3> DEFINE c == a.b
               v == Send(b.wire, b.ps.kind)
               p == FlushOf[op]
    <3>1. /\ a.rc = "OK"
          /\ c = [d EXCEPT !.wire = Send(@, b.ps.kind), !.ps.phase = p]
      BY <1>6, <2>6 DEF StatementStart, Going, Answer, DeadlineStarted
    <3> HIDE DEF d
    <3>2. /\ DOMAIN c = DOMAIN b /\ c.wire = v /\ c.pg = b.pg
          /\ c.ps = [b.ps EXCEPT !.phase = p]
      BY <1>1, <2>1, <3>1 DEF IsBackend
    <3> HIDE DEF c
    <3>3. /\ DOMAIN c.ps = DOMAIN b.ps /\ c.ps.phase = p /\ c.ps.kind = b.ps.kind
          /\ c.ps.await = b.ps.await /\ c.ps.sqlstateSeen = b.ps.sqlstateSeen
      BY <1>1, <3>2 DEF IsBackend
    <3>4. Quiet(b.wire)
      BY <1>1, <2>4, <2>6 DEF AtRest, Lost, GoodWire, IsWire
    <3>5. b.ps.kind # "none" /\ b.ps.kind # "BEGIN"
      BY <1>1 DEF IsBackend, StatementKinds
    <3>6. /\ GoodWire(v) /\ v.out = b.ps.kind /\ v.cmd = "none" /\ v.stx = b.wire.stx
          /\ v.sig = b.wire.sig
      BY <1>1, <3>4, <3>5, SendGood
    <3>7. p \in {"PREPARE_FLUSH", "EXECUTE_FLUSH"} /\ p \in PhasesOf(op, b.ps.kind)
      BY <1>6 DEF FlushOf, PhasesOf
    <3> HIDE DEF v, p
    <3>8. ~b.ps.sqlstateSeen
      BY <1>1, <2>3 DEF AdapterInv
    <3>9. AdapterInv(c)
      BY <1>1, <1>6, <2>4, <3>2, <3>3, <3>5, <3>6, <3>7, <3>8
      DEF AdapterInv, Settled, Flushing, Resulting
    <3>10. GoodBackend(c)
      BY <1>1, <3>2, <3>3, <3>6, <3>9 DEF GoodBackend, IsBackend
    <3>11. Driven(c, op)
      BY <1>6, <3>2, <3>3, <3>7 DEF Driven
    <3>12. Harmless(c)
      BY <3>3, <3>7, <3>8 DEF Harmless
    <3>13. Outside(b.wire) => Outside(c.wire)
      BY <3>2, <3>5, <3>6 DEF Outside
    <3> QED BY <3>1, <3>2, <3>3, <3>8, <3>10, <3>11, <3>12, <3>13 DEF Begun, c
  <2> QED BY <2>5, <2>6
<1> QED BY <1>2, <1>3, <1>5, <1>6 DEF Operations

\* vps_libpq_statement_wait.
LEMMA WaitKeeps ==
    ASSUME NEW b, NEW op, Turn(b, op), b.ps.await = "none", NEW outcome
    PROVE  LET a == StatementWait(b, outcome)
           IN  \/ a.rc \in {"OK", "CONTROL_SIGNAL"} /\ a.b = b
               \/ a.rc = "ERROR" /\ Told(a, op) /\ Kept(b, a.b)
<1> DEFINE a == StatementWait(b, outcome)
<1>1. a = StatementError(b, "CONNECTION") \/ (a.rc \in {"OK", "CONTROL_SIGNAL"} /\ a.b = b)
  BY DEF StatementWait, Answer
<1>2. CASE a = StatementError(b, "CONNECTION")
  <2>1. IsBackend(b) /\ GoodWire(b.wire) /\ b.pg.statements # 0
    BY TurnFacts
  <2>2. From(b, a, op)
    BY <1>2, <2>1, ErrorFrom
  <2>3. a.rc = "ERROR"
    BY <1>2 DEF StatementError, Answer
  <2> QED BY <2>2, <2>3, FromKept
<1> QED BY <1>1, <1>2

\* vps_libpq_statement_row_release.
LEMMA ReleaseKeeps ==
    ASSUME NEW b, GoodBackend(b)
    PROVE  LET c == StatementRowRelease(b)
           IN  /\ GoodBackend(c) /\ c.pg = b.pg /\ c.wire = b.wire
               /\ c.ps.kind = b.ps.kind /\ c.ps.await = b.ps.await
               /\ c.ps.sqlstateSeen = b.ps.sqlstateSeen
               /\ c.ps.phase = IF b.ps.phase = "ROW_READY" THEN "FETCH_WAIT" ELSE b.ps.phase
<1> DEFINE c == StatementRowRelease(b)
<1>1. CASE b.ps.phase # "ROW_READY"
  BY <1>1 DEF StatementRowRelease
<1>2. CASE b.ps.phase = "ROW_READY"
  <2>1. IsBackend(b) /\ GoodWire(b.wire) /\ AdapterInv(b)
    BY DEF GoodBackend
  <2>2. /\ DOMAIN c = DOMAIN b /\ c.pg = b.pg /\ c.wire = b.wire
        /\ c.ps = [b.ps EXCEPT !.result = 0, !.phase = "FETCH_WAIT"]
    BY <1>2, <2>1 DEF StatementRowRelease, IsBackend
  <2> HIDE DEF c
  <2>3. /\ DOMAIN c.ps = DOMAIN b.ps /\ c.ps.phase = "FETCH_WAIT" /\ c.ps.kind = b.ps.kind
        /\ c.ps.await = b.ps.await /\ c.ps.sqlstateSeen = b.ps.sqlstateSeen
    BY <2>1, <2>2 DEF IsBackend
  <2>a. HealthInv(b) => HealthInv(c)
    BY <2>2 DEF HealthInv
  <2>4. AdapterInv(c)
    BY <1>2, <2>1, <2>2, <2>3, <2>a DEF AdapterInv, Settled, Flushing, Resulting
  <2>5. GoodBackend(c)
    BY <2>1, <2>2, <2>3, <2>4 DEF GoodBackend, IsBackend
  <2> QED BY <1>2, <2>2, <2>3, <2>5 DEF c
<1> QED BY <1>1, <1>2

\* vps_libpq_statement_destroy: a connection that is still usable afterwards is at rest.
LEMMA DestroyKeeps ==
    ASSUME NEW b, GoodBackend(b), b.pg.phase \in {"READY", "FAILED"}, b.ps.await = "none"
    PROVE  LET c == StatementDestroy(b)
           IN  /\ GoodBackend(c) /\ c.pg.statements = 0 /\ c.ps = NoStatement
               /\ c.pg.phase = IF b.ps.phase \in Settled THEN b.pg.phase ELSE "FAILED"
               /\ Outside(b.wire) => Outside(c.wire)
<1> DEFINE c == StatementDestroy(b)
           v == [b.wire EXCEPT !.sig = IF b.wire.sig = "delivered" THEN "none" ELSE b.wire.sig]
           q == IF b.ps.phase \in Settled THEN b.pg.phase ELSE "FAILED"
<1>1. IsBackend(b) /\ GoodWire(b.wire) /\ AdapterInv(b)
  BY DEF GoodBackend
<1>2. /\ DOMAIN c = DOMAIN b /\ c.ps = NoStatement /\ c.wire = v
      /\ c.pg = [b.pg EXCEPT !.statements = 0, !.phase = q]
  BY <1>1 DEF StatementDestroy, IsBackend
<1> HIDE DEF c
<1>3. DOMAIN c.pg = DOMAIN b.pg /\ c.pg.statements = 0 /\ c.pg.phase = q
  BY <1>1, <1>2 DEF IsBackend
<1>4. /\ GoodWire(v) /\ (Outside(b.wire) => Outside(v)) /\ (AtRest(b.wire) => AtRest(v))
      /\ v.sig = "sent" => b.wire.sig = "sent"
  BY <1>1, SignalGood
<1> HIDE DEF v
<1>5. /\ DOMAIN c.ps = {"phase", "kind", "result", "described", "sqlstateSeen",
                        "terminalSeen", "await"}
      /\ c.ps.phase = "NONE" /\ c.ps.kind = "scan" /\ c.ps.await = "none"
      /\ c.ps.sqlstateSeen = FALSE
  BY <1>2 DEF NoStatement
<1>6. q \in {"READY", "FAILED"} /\ (q = "READY" => AtRest(b.wire) /\ b.wire.sig # "sent")
  BY <1>1 DEF AdapterInv, Settled
<1> HIDE DEF q
<1>7. AdapterInv(c)
  BY <1>2, <1>3, <1>4, <1>5, <1>6 DEF AdapterInv, Resulting, Flushing
<1>8. IsBackend(c)
  BY <1>1, <1>2, <1>3, <1>5 DEF IsBackend, StatementKinds
<1> QED BY <1>2, <1>3, <1>4, <1>7, <1>8 DEF GoodBackend, c, q

-----------------------------------------------------------------------------
(* Connections *)

\* A connection operation runs.
Connecting(b, op) ==
    /\ b.pg.phase \in {"CONNECTING", "HEALTH"} /\ b.pg.statements = 0
    /\ b.pg.phase = "CONNECTING" => op = "CONNECT"
    /\ b.pg.phase = "HEALTH" => b.pg.op = op

\* What an answer says of the connection.  One that failed is closed, whatever its state.
Reported(b, a, op) ==
    \/ a.rc # "OK"
    \/ /\ a.rc = "OK" /\ GoodBackend(a.b)
       /\ a.b.pg.statements = 0 /\ a.b.ps = b.ps
       /\ op # "BEGIN" /\ Outside(b.wire) => Outside(a.b.wire)
       /\ \/ a.out \in Waits \cup {"CONTINUE"} /\ Connecting(a.b, op)
          \/ /\ a.out = "COMPLETE" /\ a.b.pg.phase = "READY"
             /\ op \in {"COMMIT", "ROLLBACK"} => Outside(a.b.wire)

\* Between two operations there is no statement to speak of.
LEMMA NoStatementFacts ==
    ASSUME NEW b, GoodBackend(b), b.pg.statements = 0
    PROVE  /\ IsBackend(b) /\ GoodWire(b.wire) /\ AdapterInv(b)
           /\ b.ps.phase = "NONE" /\ b.ps.await = "none" /\ ~b.ps.sqlstateSeen
           /\ b.pg.phase # "FAILED" => b.wire.sig # "sent"
           /\ b.pg.phase \in {"CREATED", "CONNECTING", "READY"} => AtRest(b.wire)
<1>1. IsBackend(b) /\ GoodWire(b.wire) /\ AdapterInv(b)
  BY DEF GoodBackend
<1>2. b.ps.phase = "NONE"
  BY <1>1 DEF AdapterInv
<1>3. b.ps.await = "none" /\ ~b.ps.sqlstateSeen
  BY <1>1, <1>2 DEF AdapterInv, Resulting
<1> QED BY <1>1, <1>2, <1>3 DEF AdapterInv

\* Without a statement the invariant is about the connection alone.
LEMMA ConnectionGood ==
    ASSUME NEW b, GoodBackend(b), b.pg.statements = 0,
           NEW c, DOMAIN c = DOMAIN b, DOMAIN c.pg = DOMAIN b.pg, c.ps = b.ps,
           c.pg.statements = 0, GoodWire(c.wire), c.wire.sig # "sent",
           c.pg.phase \in {"CREATED", "CONNECTING", "READY"} => AtRest(c.wire),
           c.pg.phase = "HEALTH" => HealthInv(c)
    PROVE  GoodBackend(c)
<1>1. /\ IsBackend(b) /\ b.ps.phase = "NONE" /\ b.ps.await = "none" /\ ~b.ps.sqlstateSeen
  BY NoStatementFacts
<1>2. IsBackend(c)
  BY <1>1 DEF IsBackend
<1>3. AdapterInv(c)
  BY <1>1 DEF AdapterInv, Resulting, Flushing
<1> QED BY <1>2, <1>3 DEF GoodBackend

\* vps_libpq_health_begin, on a connection that is at rest.
LEMMA HealthBeginReports ==
    ASSUME NEW b, GoodBackend(b), b.pg.statements = 0, NEW op,
           b.pg.phase \in {"CONNECTING", "READY"}
    PROVE  Reported(b, HealthBegin(b, op), op)
<1> DEFINE a == HealthBegin(b, op)
           c == a.b
<1>1. /\ IsBackend(b) /\ GoodWire(b.wire) /\ b.wire.sig # "sent" /\ AtRest(b.wire)
  BY NoStatementFacts
<1>2. CASE a = ConnectionError(b, "CONNECTION")
  <2>1. a.rc = "ERROR"
    BY <1>2 DEF ConnectionError, Answer
  <2> QED BY <2>1 DEF Reported
<1>3. CASE a # ConnectionError(b, "CONNECTION")
  <2>1. /\ a.rc = "OK" /\ a.out = "CONTINUE"
        /\ c = [b EXCEPT !.pg = [@ EXCEPT !.op = op, !.index = 0, !.seen = FALSE,
                                 !.discarded = FALSE, !.health = "SEND", !.phase = "HEALTH"]]
    BY <1>3 DEF HealthBegin, Going, Answer
  <2>2. /\ DOMAIN c = DOMAIN b /\ c.ps = b.ps /\ c.wire = b.wire
        /\ c.pg = [b.pg EXCEPT !.op = op, !.index = 0, !.seen = FALSE,
                               !.discarded = FALSE, !.health = "SEND", !.phase = "HEALTH"]
    BY <1>1, <2>1 DEF IsBackend
  <2> HIDE DEF a, c
  <2>3. /\ DOMAIN c.pg = DOMAIN b.pg /\ c.pg.op = op /\ c.pg.phase = "HEALTH"
        /\ c.pg.health = "SEND" /\ c.pg.statements = 0
    BY <1>1, <2>2 DEF IsBackend
  <2>4. HealthInv(c)
    BY <1>1, <2>2, <2>3 DEF HealthInv
  <2>a. GoodWire(c.wire) /\ c.wire.sig # "sent" /\ AtRest(c.wire)
    BY <1>1, <2>2
  <2>5. GoodBackend(c)
    BY <2>2, <2>3, <2>4, <2>a, ConnectionGood
  <2>6. Connecting(c, op)
    BY <2>3 DEF Connecting
  <2>7. Reported(b, a, op)
    BY <2>1, <2>2, <2>3, <2>5, <2>6 DEF Reported, c
  <2> QED BY <2>7 DEF a
<1> QED BY <1>2, <1>3

\* vps_libpq_connection_start.
LEMMA ConnectionStartReports ==
    ASSUME NEW b, GoodBackend(b), b.pg.statements = 0, NEW op, NEW a \in ConnectionStart(b, op)
    PROVE  Reported(b, a, op) /\ (a.rc = "OK" => Connecting(a.b, op))
<1>1. IsBackend(b) /\ GoodWire(b.wire) /\ b.ps.phase = "NONE"
  BY NoStatementFacts
<1>2. CASE op # "CONNECT" /\ b.pg.phase = "READY"
  <2> DEFINE d == [b EXCEPT !.dl = "running"]
  <2>1. a = HealthBegin(d, op)
    BY <1>2 DEF ConnectionStart, DeadlineStarted
  <2>2. DOMAIN d = DOMAIN b /\ d.pg = b.pg /\ d.ps = b.ps /\ d.wire = b.wire
    BY <1>1 DEF IsBackend
  <2> HIDE DEF d
  <2>3. b.wire.sig # "sent" /\ AtRest(b.wire)
    BY <1>2, NoStatementFacts
  <2>4. GoodBackend(d)
    BY <1>1, <1>2, <2>2, <2>3, ConnectionGood
  <2>5. Reported(d, a, op)
    BY <1>2, <2>1, <2>2, <2>4, HealthBeginReports
  <2>6. a.rc = "OK" => Connecting(a.b, op)
    <3>1. a.rc = "OK" => a.out = "CONTINUE"
      BY <2>1 DEF HealthBegin, Going, Answer, ConnectionError
    <3> QED BY <2>5, <3>1 DEF Reported
  <2> QED BY <2>2, <2>5, <2>6 DEF Reported
<1>3. CASE op = "CONNECT" /\ b.pg.phase = "CREATED"
  <2>1. CASE a = ConnectionError(b, "CONNECTION")
    <3>1. a.rc = "ERROR"
      BY <2>1 DEF ConnectionError, Answer
    <3> QED BY <3>1 DEF Reported
  <2>2. CASE a # ConnectionError(b, "CONNECTION")
    <3> DEFINE c == a.b
    <3>1. /\ a.rc = "OK" /\ a.out = "CONTINUE"
          /\ c = [[b EXCEPT !.dl = "running"] EXCEPT !.pg.phase = "CONNECTING",
                                                     !.wire = FreshWire]
      BY <1>3, <2>2 DEF ConnectionStart, Going, Answer, DeadlineStarted
    <3>2. /\ DOMAIN c = DOMAIN b /\ c.ps = b.ps /\ c.wire = FreshWire
          /\ c.pg = [b.pg EXCEPT !.phase = "CONNECTING"]
      BY <1>1, <3>1 DEF IsBackend
    <3> HIDE DEF c
    <3>3. /\ DOMAIN c.pg = DOMAIN b.pg /\ c.pg.phase = "CONNECTING" /\ c.pg.statements = 0
      BY <1>1, <3>2 DEF IsBackend
    <3>4. /\ GoodWire(FreshWire) /\ FreshWire.sig # "sent" /\ AtRest(FreshWire)
          /\ Outside(FreshWire)
      BY FreshWireGood DEF AtRest, Outside, Quiet
    <3>5. GoodBackend(c)
      BY <3>2, <3>3, <3>4, ConnectionGood
    <3>6. Connecting(c, op)
      BY <1>3, <3>3 DEF Connecting
    <3> QED BY <3>1, <3>2, <3>3, <3>4, <3>5, <3>6 DEF Reported, c
  <2> QED BY <2>1, <2>2
<1>4. CASE ~(op # "CONNECT" /\ b.pg.phase = "READY") /\ ~(op = "CONNECT" /\ b.pg.phase = "CREATED")
  <2>1. a.rc = "INVALID_STATE"
    BY <1>4 DEF ConnectionStart, Answer
  <2> QED BY <2>1 DEF Reported
<1> QED BY <1>2, <1>3, <1>4

\* The end of a connection operation.
LEMMA HealthDoneReports ==
    ASSUME NEW b, NEW c, GoodBackend(c), c.pg.statements = 0, c.ps = b.ps, c.pg.phase = "HEALTH",
           NEW op, AtRest(c.wire),
           op # "BEGIN" /\ Outside(b.wire) => Outside(c.wire),
           op \in {"COMMIT", "ROLLBACK"} => Outside(c.wire)
    PROVE  Reported(b, HealthDone(c), op)
<1> DEFINE a == HealthDone(c)
           d == a.b
<1>1. /\ IsBackend(c) /\ GoodWire(c.wire) /\ c.wire.sig # "sent"
  BY NoStatementFacts
<1>2. /\ a.rc = "OK" /\ a.out = "COMPLETE"
      /\ DOMAIN d = DOMAIN c /\ d.ps = c.ps /\ d.wire = c.wire
      /\ d.pg = [c.pg EXCEPT !.phase = "READY", !.health = "IDLE", !.op = "NONE"]
  BY <1>1 DEF HealthDone, Answer, IsBackend
<1> HIDE DEF d, a
<1>3. DOMAIN d.pg = DOMAIN c.pg /\ d.pg.phase = "READY" /\ d.pg.statements = 0
  BY <1>1, <1>2 DEF IsBackend
<1>4. GoodWire(d.wire) /\ d.wire.sig # "sent" /\ AtRest(d.wire)
  BY <1>1, <1>2
<1>5. GoodBackend(d)
  BY <1>2, <1>3, <1>4, ConnectionGood
<1>6. Reported(b, a, op)
  BY <1>2, <1>3, <1>5 DEF Reported, d
<1> QED BY <1>6 DEF a

\* vps_health_send: what it sends it sends on a connection at rest.
LEMMA HealthSendReports ==
    ASSUME NEW b, GoodBackend(b), b.pg.statements = 0, NEW op, Connecting(b, op),
           b.pg.phase = "HEALTH", b.pg.health = "SEND"
    PROVE  Reported(b, HealthSend(b), op)
<1> DEFINE a == HealthSend(b)
           c == a.b
           h == HealthCommand(b.pg)
<1>1. /\ IsBackend(b) /\ GoodWire(b.wire) /\ b.wire.sig # "sent" /\ HealthInv(b)
  BY NoStatementFacts DEF AdapterInv
<1>2. AtRest(b.wire) /\ b.pg.op = op
  BY <1>1 DEF HealthInv, Connecting
<1>3. op \in {"COMMIT", "ROLLBACK", "BEGIN"} => h = op
  BY <1>2 DEF HealthCommand
<1>4. h = "BEGIN" => op = "BEGIN"
  <2> DEFINE unset == b.pg.index < Settings
  <2>1. h = IF op \in {"BEGIN", "COMMIT", "ROLLBACK"} THEN op
            ELSE IF op = "RESET" /\ ~b.pg.discarded THEN "discard"
            ELSE IF op = "PING" THEN "ping"
            ELSE IF unset THEN "setting" ELSE "none"
    BY <1>2 DEF HealthCommand
  <2> HIDE DEF h, unset
  <2> QED BY <1>3, <2>1
<1> HIDE DEF h
<1>5. CASE h = "none"
  <2>1. a = HealthDone(b)
    BY <1>5 DEF HealthSend, h
  <2>2. op \notin {"COMMIT", "ROLLBACK"}
    BY <1>3, <1>5
  <2>3. Reported(b, HealthDone(b), op)
    BY <1>2, <2>2, HealthDoneReports
  <2> QED BY <2>1, <2>3
<1>6. CASE h # "none" /\ b.wire.status = "BAD"
  <2>1. a.rc = "ERROR"
    BY <1>6 DEF HealthSend, ConnectionError, Answer, h
  <2> QED BY <2>1 DEF Reported
<1>7. CASE h # "none" /\ b.wire.status # "BAD"
  <2> DEFINE v == Send(b.wire, h)
  <2>1. Quiet(b.wire)
    BY <1>1, <1>2, <1>7 DEF AtRest, Lost, GoodWire, IsWire
  <2>2. /\ GoodWire(v) /\ v.out = h /\ v.cmd = "none"
        /\ v.stx = b.wire.stx /\ v.sig = b.wire.sig
    BY <1>1, <1>7, <2>1, SendGood
  <2>3. /\ a.rc = "OK" /\ a.out = "CONTINUE"
        /\ DOMAIN c = DOMAIN b /\ c.ps = b.ps /\ c.wire = v
        /\ c.pg = [b.pg EXCEPT !.seen = FALSE, !.health = "FLUSH"]
    BY <1>1, <1>7 DEF HealthSend, Going, Answer, IsBackend, h
  <2> HIDE DEF a, c, v
  <2>4. /\ DOMAIN c.pg = DOMAIN b.pg /\ c.pg.op = op /\ c.pg.phase = "HEALTH"
        /\ c.pg.health = "FLUSH" /\ c.pg.statements = 0 /\ ~c.pg.seen
        /\ c.pg.discarded = b.pg.discarded /\ c.pg.index = b.pg.index
    BY <1>1, <1>2, <2>3 DEF IsBackend
  <2>5. HealthCommand(c.pg) = h
    BY <1>2, <2>4 DEF HealthCommand, h
  <2>6. HealthInv(c)
    BY <2>2, <2>3, <2>4, <2>5 DEF HealthInv
  <2>7. GoodWire(c.wire) /\ c.wire.sig # "sent"
    BY <1>1, <2>2, <2>3
  <2>8. GoodBackend(c)
    BY <2>3, <2>4, <2>6, <2>7, ConnectionGood
  <2>9. op # "BEGIN" /\ Outside(b.wire) => Outside(c.wire)
    BY <1>4, <2>2, <2>3 DEF Outside
  <2>10. Connecting(c, op)
    BY <2>4 DEF Connecting
  <2>11. Reported(b, a, op)
    BY <2>3, <2>4, <2>8, <2>9, <2>10 DEF Reported, c
  <2> QED BY <2>11 DEF a
<1> QED BY <1>5, <1>6, <1>7

\* The next command of a connection operation: the connection is at rest again.
LEMMA HealthGoesOn ==
    ASSUME NEW b, NEW c, GoodBackend(c), c.pg.statements = 0, c.ps = b.ps, c.pg.phase = "HEALTH",
           NEW op, c.pg.op = op, AtRest(c.wire),
           op # "BEGIN" /\ Outside(b.wire) => Outside(c.wire),
           NEW d, DOMAIN d = DOMAIN c, d.ps = c.ps, d.wire = c.wire, DOMAIN d.pg = DOMAIN c.pg,
           d.pg.op = op, d.pg.phase = "HEALTH", d.pg.health = "SEND", d.pg.statements = 0
    PROVE  Reported(b, Going(d), op)
<1>1. /\ IsBackend(c) /\ GoodWire(c.wire) /\ c.wire.sig # "sent"
  BY NoStatementFacts
<1>2. HealthInv(d)
  BY DEF HealthInv
<1>3. GoodBackend(d)
  BY <1>1, <1>2, ConnectionGood
<1>4. Connecting(d, op)
  BY DEF Connecting
<1>5. Going(d).rc = "OK" /\ Going(d).out = "CONTINUE" /\ Going(d).b = d
  BY DEF Going, Answer
<1> QED BY <1>3, <1>4, <1>5 DEF Reported

\* One result of a connection operation.
LEMMA HealthResultReports ==
    ASSUME NEW b, GoodBackend(b), b.pg.statements = 0, NEW op, Connecting(b, op),
           b.pg.phase = "HEALTH", b.pg.health = "RECEIVE", b.wire.status = "OK",
           ~IsBusy(b.wire)
    PROVE  Reported(b, HealthResult(b), op)
<1> DEFINE a == HealthResult(b)
           r == NextResult(b.wire)
           v == AfterResult(b.wire)
           c == [b EXCEPT !.wire = AfterResult(@)]
<1>1. /\ IsBackend(b) /\ GoodWire(b.wire) /\ b.wire.sig # "sent" /\ HealthInv(b)
  BY NoStatementFacts DEF AdapterInv
<1>2. /\ b.pg.op = op /\ b.wire.out = "none"
      /\ op \in {"COMMIT", "ROLLBACK"} =>
            Ending(b.wire, op) /\ (b.pg.seen => Ended(b.wire))
  BY <1>1 DEF HealthInv, Connecting, Lost
<1>3. ResultAvailable(b.wire)
  BY DEF ResultAvailable, IsBusy
<1>4. /\ GoodWire(v) /\ v.status = "OK" /\ v.out = "none" /\ v.cmd = b.wire.cmd
      /\ v.stx = b.wire.stx /\ v.sig = b.wire.sig
      /\ r.k = "READY" => AtRest(v)
      /\ Without(b.wire, "COMMAND_OK") => Without(v, "COMMAND_OK") /\ r.k # "COMMAND_OK"
  BY <1>1, <1>2, <1>3, TakenGood
<1>5. DOMAIN c = DOMAIN b /\ c.pg = b.pg /\ c.ps = b.ps /\ c.wire = v
  BY <1>1 DEF IsBackend
<1>6. a = IF r.k = "READY"
          THEN IF b.pg.seen THEN HealthCommandComplete(c) ELSE ConnectionError(c, "CONNECTION")
          ELSE IF b.pg.seen \/ ~HealthResultValid(b.pg, r)
          THEN ConnectionError(c, IF b.pg.op = "PING" THEN "CONNECTION" ELSE "CONFIG")
          ELSE Going([c EXCEPT !.pg.seen = TRUE])
  BY DEF HealthResult
<1>7. op \in {"COMMIT", "ROLLBACK"} => Ending(v, op) /\ (b.pg.seen => Ended(v))
  BY <1>2, <1>4 DEF Ending, Ended
<1>8. Outside(b.wire) => Outside(v)
  BY <1>4 DEF Outside
<1> HIDE DEF a, r, v, c
<1>9. \A err : ConnectionError(c, err).rc = "ERROR"
  BY DEF ConnectionError, Answer
<1>10. CASE r.k = "READY" /\ b.pg.seen
  <2>1. HealthInv(b) /\ AtRest(v)
    BY <1>1, <1>4, <1>10
  <2>2. HealthInv(c)
    BY <1>2, <1>4, <1>5, <1>7 DEF HealthInv, Lost
  <2>3. GoodBackend(c)
    BY <1>1, <1>4, <1>5, <2>2, ConnectionGood
  <2>4. op \in {"COMMIT", "ROLLBACK"} => Outside(c.wire)
    BY <1>4, <1>5, <1>7, <1>10 DEF Outside, Ended
  <2>5. a = HealthCommandComplete(c)
    BY <1>6, <1>10
  <2>6. CASE op \in {"BEGIN", "COMMIT", "ROLLBACK", "PING"}
    <3>1. a = HealthDone(c)
      BY <1>2, <1>5, <2>5, <2>6 DEF HealthCommandComplete
    <3>2. Reported(b, HealthDone(c), op)
      BY <1>5, <1>8, <2>1, <2>3, <2>4, HealthDoneReports
    <3> QED BY <3>1, <3>2 DEF a
  <2>7. CASE op \notin {"BEGIN", "COMMIT", "ROLLBACK", "PING"}
    <3>1. PICK d : /\ a = Going(d) /\ DOMAIN d = DOMAIN c /\ d.ps = c.ps /\ d.wire = c.wire
                   /\ DOMAIN d.pg = DOMAIN c.pg /\ d.pg.op = c.pg.op
                   /\ d.pg.phase = c.pg.phase /\ d.pg.health = "SEND"
                   /\ d.pg.statements = c.pg.statements
      <4>1. CASE op = "RESET" /\ ~c.pg.discarded
        <5> DEFINE d == [c EXCEPT !.pg.discarded = TRUE, !.pg.health = "SEND"]
        <5>1. a = Going(d)
          BY <1>2, <1>5, <2>5, <2>7, <4>1 DEF HealthCommandComplete
        <5>2. /\ DOMAIN d = DOMAIN c /\ d.ps = c.ps /\ d.wire = c.wire
              /\ d.pg = [c.pg EXCEPT !.discarded = TRUE, !.health = "SEND"]
          BY <1>1, <1>5 DEF IsBackend
        <5> HIDE DEF d
        <5>3. /\ DOMAIN d.pg = DOMAIN c.pg /\ d.pg.op = c.pg.op
              /\ d.pg.phase = c.pg.phase /\ d.pg.health = "SEND"
              /\ d.pg.statements = c.pg.statements
          BY <1>1, <1>5, <5>2 DEF IsBackend
        <5> QED BY <5>1, <5>2, <5>3
      <4>2. CASE ~(op = "RESET" /\ ~c.pg.discarded)
        <5> DEFINE d == [c EXCEPT !.pg.index = @ + 1, !.pg.health = "SEND"]
        <5>1. a = Going(d)
          BY <1>2, <1>5, <2>5, <2>7, <4>2 DEF HealthCommandComplete
        <5>2. /\ DOMAIN d = DOMAIN c /\ d.ps = c.ps /\ d.wire = c.wire
              /\ d.pg = [c.pg EXCEPT !.index = @ + 1, !.health = "SEND"]
          BY <1>1, <1>5 DEF IsBackend
        <5> HIDE DEF d
        <5>3. /\ DOMAIN d.pg = DOMAIN c.pg /\ d.pg.op = c.pg.op
              /\ d.pg.phase = c.pg.phase /\ d.pg.health = "SEND"
              /\ d.pg.statements = c.pg.statements
          BY <1>1, <1>5, <5>2 DEF IsBackend
        <5> QED BY <5>1, <5>2, <5>3
      <4> QED BY <4>1, <4>2
    <3>2. /\ DOMAIN d.pg = DOMAIN c.pg /\ d.pg.op = op /\ d.pg.phase = "HEALTH"
          /\ d.pg.health = "SEND" /\ d.pg.statements = 0
      BY <1>2, <1>5, <3>1
    <3>3. AtRest(c.wire) /\ (op # "BEGIN" /\ Outside(b.wire) => Outside(c.wire))
      BY <1>5, <1>8, <2>1
    <3>4. c.pg.statements = 0 /\ c.ps = b.ps /\ c.pg.phase = "HEALTH" /\ c.pg.op = op
      BY <1>2, <1>5
    <3>5. Reported(b, Going(d), op)
      BY <2>3, <3>1, <3>2, <3>3, <3>4, HealthGoesOn
    <3> QED BY <3>1, <3>5 DEF a
  <2> QED BY <2>6, <2>7
<1>11. CASE r.k # "READY" /\ ~b.pg.seen /\ HealthResultValid(b.pg, r)
  <2> DEFINE d == [c EXCEPT !.pg.seen = TRUE]
  <2>1. a = Going(d)
    BY <1>6, <1>11
  <2>2. /\ DOMAIN d = DOMAIN c /\ d.ps = c.ps /\ d.wire = c.wire
        /\ d.pg = [c.pg EXCEPT !.seen = TRUE]
    BY <1>1, <1>5 DEF IsBackend
  <2> HIDE DEF d
  <2>3. /\ DOMAIN d.pg = DOMAIN b.pg /\ d.pg.op = op /\ d.pg.phase = "HEALTH"
        /\ d.pg.health = "RECEIVE" /\ d.pg.statements = 0
    BY <1>1, <1>2, <1>5, <2>2 DEF IsBackend
  <2>4. op \in {"COMMIT", "ROLLBACK"} => r.k = "COMMAND_OK"
    BY <1>2, <1>11 DEF HealthResultValid, HealthCommand
  <2>5. op \in {"COMMIT", "ROLLBACK"} => Ended(v)
    <3>1. op \in {"COMMIT", "ROLLBACK"} => Ended(b.wire)
      BY <1>2, <1>4, <2>4 DEF Ending
    <3> QED BY <1>4, <3>1 DEF Ended
  <2>6. HealthInv(d)
    BY <1>4, <1>5, <1>7, <2>2, <2>3, <2>5 DEF HealthInv, Lost
  <2>7. GoodWire(d.wire) /\ d.wire.sig # "sent" /\ d.ps = b.ps /\ DOMAIN d = DOMAIN b
    BY <1>1, <1>4, <1>5, <2>2
  <2>8. GoodBackend(d)
    BY <2>3, <2>6, <2>7, ConnectionGood
  <2>9. Connecting(d, op)
    BY <2>3 DEF Connecting
  <2>10. Outside(b.wire) => Outside(d.wire)
    BY <1>5, <1>8, <2>2
  <2>11. Going(d).rc = "OK" /\ Going(d).out = "CONTINUE" /\ Going(d).b = d
    BY DEF Going, Answer
  <2>12. Reported(b, Going(d), op)
    BY <2>3, <2>7, <2>8, <2>9, <2>10, <2>11 DEF Reported
  <2> QED BY <2>1, <2>12 DEF a
<1>12. CASE a.rc = "ERROR"
  <2>1. Reported(b, a, op)
    BY <1>12 DEF Reported
  <2> QED BY <2>1 DEF a
<1>13. a.rc = "ERROR" \/ (r.k = "READY" /\ b.pg.seen)
          \/ (r.k # "READY" /\ ~b.pg.seen /\ HealthResultValid(b.pg, r))
  BY <1>6, <1>9
<1> QED BY <1>10, <1>11, <1>12, <1>13

\* vps_libpq_health_poll.
LEMMA HealthPollReports ==
    ASSUME NEW b, GoodBackend(b), b.pg.statements = 0, NEW op, Connecting(b, op),
           b.pg.phase = "HEALTH", NEW a \in HealthPoll(b)
    PROVE  Reported(b, a, op)
<1>1. /\ IsBackend(b) /\ GoodWire(b.wire) /\ b.wire.sig # "sent" /\ HealthInv(b)
  BY NoStatementFacts DEF AdapterInv
<1>2. /\ b.pg.health \in {"SEND", "FLUSH", "RECEIVE"} /\ b.wire.status \in {"OK", "BAD"}
      /\ b.pg.op = op
  BY <1>1 DEF HealthInv, GoodWire, IsWire, Connecting
<1>3. ASSUME NEW interest \in Waits, a = Waiting(b, interest)
      PROVE  Reported(b, a, op)
  <2>1. a.rc = "OK" /\ a.out \in Waits /\ a.b = b
    BY <1>3 DEF Waiting, Answer
  <2> QED BY <2>1 DEF Reported
<1>4. CASE b.pg.health = "SEND"
  <2>1. a = HealthSend(b)
    BY <1>4 DEF HealthPoll
  <2> QED BY <1>4, <2>1, HealthSendReports
<1>5. CASE b.pg.health # "SEND" /\ b.wire.status = "BAD"
  <2>1. a = ConnectionError(b, "CONNECTION")
    BY <1>5 DEF HealthPoll
  <2>2. a.rc = "ERROR"
    BY <2>1 DEF ConnectionError, Answer
  <2> QED BY <2>2 DEF Reported
<1>6. CASE b.pg.health = "FLUSH" /\ b.wire.status = "OK"
  <2> DEFINE c == [b EXCEPT !.wire = Flushed(@), !.pg.health = "RECEIVE"]
             v == Flushed(b.wire)
  <2>1. a = Waiting(b, "WRITE") \/ a = Going(c)
    BY <1>6 DEF HealthPoll
  <2>2. CASE a = Waiting(b, "WRITE")
    BY <1>3, <2>2 DEF Waits
  <2>3. CASE a = Going(c)
    <3>1. /\ DOMAIN c = DOMAIN b /\ c.ps = b.ps /\ c.wire = v
          /\ c.pg = [b.pg EXCEPT !.health = "RECEIVE"]
      BY <1>1 DEF IsBackend
    <3>2. /\ GoodWire(v) /\ v.out = "none" /\ v.stx = b.wire.stx /\ v.sig = b.wire.sig
          /\ v.cmd = (IF b.wire.out = "none" THEN b.wire.cmd ELSE b.wire.out)
          /\ v.in = b.wire.in
      BY <1>1, FlushedGood
    <3>3. b.wire.out = HealthCommand(b.pg) /\ ~b.pg.seen
      BY <1>1, <1>6 DEF HealthInv
    <3>4. /\ op \in {"COMMIT", "ROLLBACK"} => b.wire.out = op
      BY <1>2, <3>3 DEF HealthCommand
    <3>5. a.rc = "OK" /\ a.out = "CONTINUE" /\ a.b = c
      BY <2>3 DEF Going, Answer
    <3> HIDE DEF c, v
    <3>6. /\ DOMAIN c.pg = DOMAIN b.pg /\ c.pg.op = op /\ c.pg.phase = "HEALTH"
          /\ c.pg.health = "RECEIVE" /\ c.pg.statements = 0 /\ c.pg.seen = b.pg.seen
      BY <1>1, <1>2, <3>1 DEF IsBackend
    <3>7. op \in {"COMMIT", "ROLLBACK"} => Ending(v, op)
      <4>1. op \in {"COMMIT", "ROLLBACK"} => b.wire.in = <<>>
        BY <1>1, <3>4 DEF GoodWire, WireInv
      <4>2. op \in {"COMMIT", "ROLLBACK"} => Len(v.in) = 0
        BY <3>2, <4>1
      <4>3. op \in {"COMMIT", "ROLLBACK"} => Without(v, "COMMAND_OK")
        BY <4>2 DEF Without
      <4> QED BY <3>2, <3>4, <4>3 DEF Ending
    <3>8. HealthInv(c)
      BY <3>1, <3>2, <3>3, <3>6, <3>7 DEF HealthInv
    <3>9. GoodWire(c.wire) /\ c.wire.sig # "sent"
      BY <1>1, <3>1, <3>2
    <3>10. GoodBackend(c)
      BY <3>1, <3>6, <3>8, <3>9, ConnectionGood
    <3>11. Outside(b.wire) => Outside(c.wire)
      BY <3>1, <3>2 DEF Outside
    <3>12. Connecting(c, op)
      BY <3>6 DEF Connecting
    <3> QED BY <3>1, <3>5, <3>6, <3>10, <3>11, <3>12 DEF Reported
  <2> QED BY <2>1, <2>2, <2>3
<1>7. CASE b.pg.health = "RECEIVE" /\ b.wire.status = "OK"
  <2>1. a = Waiting(b, "READ") \/ (a = HealthResult(b) /\ ~IsBusy(b.wire))
    BY <1>7 DEF HealthPoll
  <2>2. CASE a = Waiting(b, "READ")
    BY <1>3, <2>2 DEF Waits
  <2>3. CASE a = HealthResult(b) /\ ~IsBusy(b.wire)
    BY <1>7, <2>3, HealthResultReports
  <2> QED BY <2>1, <2>2, <2>3
<1> QED BY <1>2, <1>4, <1>5, <1>6, <1>7

\* vps_libpq_connection_poll.
LEMMA ConnectionPollReports ==
    ASSUME NEW b, GoodBackend(b), NEW op, Connecting(b, op), NEW turn,
           NEW a \in ConnectionPoll(b, turn)
    PROVE  Reported(b, a, op)
<1>1. b.pg.phase \in {"CONNECTING", "HEALTH"} /\ b.pg.statements = 0
  BY DEF Connecting
<1>2. ASSUME NEW err, a = ConnectionError(b, err)
      PROVE  Reported(b, a, op)
  <2>1. a.rc = "ERROR"
    BY <1>2 DEF ConnectionError, Answer
  <2> QED BY <2>1 DEF Reported
<1>3. CASE b.pg.phase = "HEALTH"
  <2>1. a = ConnectionError(b, "TIMEOUT") \/ a \in HealthPoll(b)
    BY <1>3 DEF ConnectionPoll, UnlessExpired
  <2>2. CASE a \in HealthPoll(b)
    BY <1>1, <1>3, <2>2, HealthPollReports
  <2> QED BY <1>2, <2>1, <2>2
<1>4. CASE b.pg.phase = "CONNECTING"
  <2>1. \/ \E err : a = ConnectionError(b, err)
        \/ \E interest \in Waits : a = Waiting(b, interest)
        \/ a = Answer(b, "ERROR", "NONE", "CONNECTION")
        \/ a = HealthBegin(b, "CONNECT")
    BY <1>4 DEF ConnectionPoll, UnlessExpired, Readiness
  <2>2. CASE \E err : a = ConnectionError(b, err)
    BY <1>2, <2>2
  <2>3. CASE \E interest \in Waits : a = Waiting(b, interest)
    <3>1. a.rc = "OK" /\ a.out \in Waits /\ a.b = b
      BY <2>3 DEF Waiting, Answer
    <3> QED BY <1>1, <3>1 DEF Reported
  <2>4. CASE a = Answer(b, "ERROR", "NONE", "CONNECTION")
    <3>1. a.rc = "ERROR"
      BY <2>4 DEF Answer
    <3> QED BY <3>1 DEF Reported
  <2>5. CASE a = HealthBegin(b, "CONNECT")
    <3>1. op = "CONNECT"
      BY <1>4 DEF Connecting
    <3> QED BY <1>1, <1>4, <2>5, <3>1, HealthBeginReports
  <2> QED BY <2>1, <2>2, <2>3, <2>4, <2>5
<1> QED BY <1>1, <1>3, <1>4

\* vps_libpq_connection_wait.
LEMMA ConnectionWaitReports ==
    ASSUME NEW b, NEW outcome
    PROVE  LET a == ConnectionWait(b, outcome)
           IN  a.rc # "OK" \/ (a.rc = "OK" /\ a.b = b)
BY DEF ConnectionWait, ConnectionError, Answer
=============================================================================
