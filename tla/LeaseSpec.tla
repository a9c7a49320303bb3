----------------------------- MODULE LeaseSpec ------------------------------
(***************************************************************************)
(* What vps_connection_pool.h promises to the borrowers of a pool, without *)
(* slots, tokens, tickets or counters: at most Capacity connections are    *)
(* lent, each to one borrower, and a closed pool lends nothing.            *)
(***************************************************************************)
EXTENDS Naturals, FiniteSets

CONSTANTS Clients, Connections, NULL, Capacity

VARIABLES held,   \* borrower -> the connection lent to it, or NULL
          open    \* whether the pool still lends

Borrowers == {c \in Clients : held[c] # NULL}

Init ==
    /\ held = [c \in Clients |-> NULL]
    /\ open = TRUE

Lend(c, k) ==
    /\ open
    /\ held[c] = NULL
    /\ k \notin {held[d] : d \in Borrowers}
    /\ Cardinality(Borrowers) < Capacity
    /\ held' = [held EXCEPT ![c] = k]
    /\ UNCHANGED open

GiveBack(c) ==
    /\ held[c] # NULL
    /\ held' = [held EXCEPT ![c] = NULL]
    /\ UNCHANGED open

Shut ==
    /\ open' = FALSE
    /\ UNCHANGED held

Next ==
    \/ \E c \in Clients, k \in Connections : Lend(c, k)
    \/ \E c \in Clients : GiveBack(c)
    \/ Shut

Spec == Init /\ [][Next]_<<held, open>>
=============================================================================
