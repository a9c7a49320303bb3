-------------------------- MODULE MCVtabTransaction --------------------------
(* VtabTransaction for TLC: tables a and b share a connection identity, table *)
(* f belongs to a foreign one; all cursors scan table a or b.                 *)
EXTENDS VtabTransaction

CONSTANTS a, b, f, here, there

TwoIdentities == [t \in Tables |-> IF t = f THEN there ELSE here]
ScansOfA == [c \in Cursors |-> a]
=============================================================================
