---------------------------- MODULE Transaction -----------------------------
(***************************************************************************)
(* The transaction coordinator of src/src/vps_transaction.c: one object    *)
(* per SQLite database connection, shared by all virtual tables of it.     *)
(*                                                                         *)
(* It holds no connection and sends nothing; each function looks at the    *)
(* coordinator and answers with a result code and a changed coordinator.   *)
(* The operators below do the same: they map a coordinator (a record) and  *)
(* the arguments to [rc, tx].  COMMAND_REQUIRED tells the caller to send   *)
(* the remote command and to report its outcome.                           *)
(*                                                                         *)
(* Abstracted: generation, transaction id, last SQLSTATE and logging, none *)
(* of which a decision reads; the bytes of the identity; argument checks.  *)
(***************************************************************************)
EXTENDS Naturals, Sequences, FiniteSets

CONSTANTS
    NoIdentity,       \* the identity of an idle coordinator
    MaxParticipants,  \* VPS_TRANSACTION_MAX_PARTICIPANTS
    MaxSavepoints     \* VPS_TRANSACTION_MAX_SAVEPOINTS

ASSUME TransactionAssumption ==
    /\ MaxParticipants \in Nat \ {0}
    /\ MaxSavepoints \in Nat \ {0}

States == {"IDLE", "BEGINNING", "ACTIVE", "FAILED", "ENDING", "AMBIGUOUS"}

Coordinators(Identities, Ids, Levels) ==
    [state : States,
     identity : Identities \cup {NoIdentity},
     participants : SUBSET Ids,
     savepoints : Seq(Levels),
     stream : {0, 1}]

Reply(code, c) == [rc |-> code, tx |-> c]

\* vps_transaction_reset_active; also what vps_transaction_init leaves.
ResetActive == [state |-> "IDLE", identity |-> NoIdentity, participants |-> {},
                savepoints |-> <<>>, stream |-> 0]

\* Faulty: an unknown outcome does not stop the next transaction.
TxBeginAfterAmbiguous(tx, identity, id) ==
    IF tx.state \in {"IDLE", "AMBIGUOUS"}
    THEN Reply("COMMAND_REQUIRED",
               [tx EXCEPT !.state = "BEGINNING", !.identity = identity,
                          !.participants = {id}])
    ELSE IF identity # tx.identity THEN Reply("IDENTITY_MISMATCH", tx)
    ELSE Reply("OK", [tx EXCEPT !.participants = @ \cup {id}])

\* vps_transaction_begin: start a remote transaction, or join the running one,
\* failed or not.
TxBegin(tx, identity, id) ==
    IF tx.state = "AMBIGUOUS" THEN Reply("AMBIGUOUS_OUTCOME", tx)
    ELSE IF tx.state = "IDLE"
         THEN Reply("COMMAND_REQUIRED",
                    [tx EXCEPT !.state = "BEGINNING", !.identity = identity,
                               !.participants = {id}])
    ELSE IF tx.state \notin {"ACTIVE", "FAILED"} THEN Reply("INVALID_STATE", tx)
    ELSE IF identity # tx.identity THEN Reply("IDENTITY_MISMATCH", tx)
    ELSE IF id \in tx.participants THEN Reply("OK", tx)
    ELSE IF Cardinality(tx.participants) >= MaxParticipants
         THEN Reply("LIMIT_EXCEEDED", tx)
    ELSE Reply("OK", [tx EXCEPT !.participants = @ \cup {id}])

\* vps_transaction_begin_complete, called in state BEGINNING.
TxBeginComplete(tx, success) ==
    IF success THEN [tx EXCEPT !.state = "ACTIVE"] ELSE ResetActive

\* vps_transaction_stream_begin
TxStreamBegin(tx) ==
    IF tx.state = "FAILED" THEN Reply("ABORTED", tx)
    ELSE IF tx.state # "ACTIVE" THEN Reply("INVALID_STATE", tx)
    ELSE IF tx.stream # 0 THEN Reply("BUSY", tx)
    ELSE Reply("OK", [tx EXCEPT !.stream = 1])

\* vps_transaction_stream_end; its complaint about an idle gate changes nothing.
TxStreamEnd(tx) == [tx EXCEPT !.stream = 0]

\* Faulty: a live stream does not close the gate.
TxCommandAllowedOverStream(tx) ==
    IF tx.state = "FAILED" THEN "ABORTED"
    ELSE IF tx.state = "AMBIGUOUS" THEN "AMBIGUOUS_OUTCOME"
    ELSE IF tx.state # "ACTIVE" THEN "INVALID_STATE"
    ELSE "OK"

\* vps_transaction_command_allowed
TxCommandAllowed(tx) ==
    IF tx.state = "FAILED" THEN "ABORTED"
    ELSE IF tx.state = "AMBIGUOUS" THEN "AMBIGUOUS_OUTCOME"
    ELSE IF tx.state # "ACTIVE" THEN "INVALID_STATE"
    ELSE IF tx.stream # 0 THEN "BUSY"
    ELSE "OK"


\* vps_transaction_mark_failed
TxMarkFailed(tx) ==
    IF tx.state \in {"ACTIVE", "FAILED"} THEN [tx EXCEPT !.state = "FAILED"] ELSE tx

Tracked(tx, level) == \E i \in DOMAIN tx.savepoints : tx.savepoints[i] = level

\* vps_transaction_find_savepoint, for a tracked level: its first position.
FindSavepoint(tx, level) ==
    CHOOSE i \in DOMAIN tx.savepoints :
        /\ tx.savepoints[i] = level
        /\ \A j \in 1..(i - 1) : tx.savepoints[j] # level

\* vps_transaction_savepoint: the level is tracked before the command is sent.
TxSavepoint(tx, level) ==
    IF TxCommandAllowed(tx) # "OK" THEN Reply(TxCommandAllowed(tx), tx)
    ELSE IF Tracked(tx, level) THEN Reply("OK", tx)
    ELSE IF Len(tx.savepoints) >= MaxSavepoints THEN Reply("LIMIT_EXCEEDED", tx)
    ELSE Reply("COMMAND_REQUIRED",
               [tx EXCEPT !.savepoints = Append(@, level)])

\* Faulty: the level rolled back to is forgotten, as a release would.
TxRollbackToDropping(tx, level) ==
    IF tx.stream # 0 THEN Reply("BUSY", tx)
    ELSE IF tx.state \notin {"ACTIVE", "FAILED"} \/ ~Tracked(tx, level)
         THEN Reply("INVALID_STATE", tx)
    ELSE Reply("COMMAND_REQUIRED",
               [tx EXCEPT !.savepoints = SubSeq(@, 1, FindSavepoint(tx, level) - 1),
                          !.state = "ACTIVE"])

\* Faulty: a level that is not tracked needs no command, as for a release.
TxRollbackToUntracked(tx, level) ==
    IF tx.stream # 0 THEN Reply("BUSY", tx)
    ELSE IF tx.state \notin {"ACTIVE", "FAILED"} THEN Reply("INVALID_STATE", tx)
    ELSE IF ~Tracked(tx, level) THEN Reply("OK", tx)
    ELSE Reply("COMMAND_REQUIRED",
               [tx EXCEPT !.savepoints = SubSeq(@, 1, FindSavepoint(tx, level)),
                          !.state = "ACTIVE"])

\* vps_transaction_rollback_to: active again before the command is sent.
TxRollbackTo(tx, level) ==
    IF tx.stream # 0 THEN Reply("BUSY", tx)
    ELSE IF tx.state \notin {"ACTIVE", "FAILED"} \/ ~Tracked(tx, level)
         THEN Reply("INVALID_STATE", tx)
    ELSE Reply("COMMAND_REQUIRED",
               [tx EXCEPT !.savepoints = SubSeq(@, 1, FindSavepoint(tx, level)),
                          !.state = "ACTIVE"])

\* vps_transaction_release: a level that is not tracked needs no command.
TxRelease(tx, level) ==
    IF TxCommandAllowed(tx) # "OK" THEN Reply(TxCommandAllowed(tx), tx)
    ELSE IF ~Tracked(tx, level) THEN Reply("OK", tx)
    ELSE Reply("COMMAND_REQUIRED",
               [tx EXCEPT !.savepoints = SubSeq(@, 1, FindSavepoint(tx, level) - 1)])

\* vps_transaction_end for operation "COMMIT" or "ROLLBACK".
TxEnd(tx, operation) ==
    IF tx.state = "IDLE" THEN Reply("OK", tx)
    ELSE IF tx.state = "AMBIGUOUS" THEN Reply("AMBIGUOUS_OUTCOME", tx)
    ELSE IF tx.stream # 0 THEN Reply("BUSY", tx)
    ELSE IF operation = "COMMIT" /\ tx.state = "FAILED" THEN Reply("ABORTED", tx)
    ELSE IF tx.state \notin {"ACTIVE", "FAILED"} THEN Reply("INVALID_STATE", tx)
    ELSE Reply("COMMAND_REQUIRED", [tx EXCEPT !.state = "ENDING"])

\* vps_transaction_end_complete, called in state ENDING.
TxEndComplete(tx, success, lost) ==
    IF success THEN ResetActive
    ELSE IF lost THEN [tx EXCEPT !.state = "AMBIGUOUS", !.stream = 0]
    ELSE [tx EXCEPT !.state = "FAILED"]
=============================================================================
