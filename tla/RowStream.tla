----------------------------- MODULE RowStream ------------------------------
(***************************************************************************)
(* What a scan promises SQLite: the rows of the query one by one, in the   *)
(* order the session produced them and without a gap, and an end of file   *)
(* only when the session said that there are no more and all of them were  *)
(* delivered.  A scan may fail, be cancelled or be closed at any time; it  *)
(* then delivers nothing more and never ends.                              *)
(***************************************************************************)
EXTENDS Naturals

VARIABLES status,     \* closed, streaming, stopped, ended
          produced,   \* rows the session produced
          complete,   \* the session produced them all
          delivered   \* rows SQLite has seen

stream == <<status, produced, complete, delivered>>

Closed == status = "closed" /\ produced = 0 /\ complete = FALSE /\ delivered = 0

Start == /\ status \in {"closed", "ended"}
         /\ status' = "streaming"
         /\ produced' = 0
         /\ complete' = FALSE
         /\ delivered' = 0

Produce == /\ status = "streaming"
           /\ ~complete
           /\ produced' = produced + 1
           /\ UNCHANGED <<status, complete, delivered>>

Complete == /\ status = "streaming"
            /\ complete' = TRUE
            /\ UNCHANGED <<status, produced, delivered>>

Deliver == /\ status = "streaming"
           /\ delivered < produced
           /\ delivered' = delivered + 1
           /\ UNCHANGED <<status, produced, complete>>

End == /\ status = "streaming"
       /\ complete
       /\ delivered = produced
       /\ status' = "ended"
       /\ produced' = 0
       /\ complete' = FALSE
       /\ delivered' = 0

Stop == /\ status' = "stopped"
        /\ produced' = 0
        /\ complete' = FALSE
        /\ delivered' = 0

Close == Closed'

StreamNext == Start \/ Produce \/ Complete \/ Deliver \/ End \/ Stop \/ Close
StreamSpec == Closed /\ [][StreamNext]_stream
=============================================================================
