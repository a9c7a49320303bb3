----------------------------- MODULE PoolProofs -----------------------------
(***************************************************************************)
(* Safety of ConnectionPool, for every number of clients, slots and waiter *)
(* entries and every bound on the serial numbers, and its implementation   *)
(* of LeaseSpec: the inductive invariant, what the helpers of the pool do  *)
(* to its counters, its queue and its leases, the steps one by one, and    *)
(* the properties that follow.                                             *)
(***************************************************************************)
EXTENDS ConnectionPool, FiniteSetTheorems, TLAPS

\* Leases and slots.  A held lease is valid and holders have different slots; the
\* connections of different slots differ; a released copy carries a token that no
\* leased slot carries or will carry again.
LeaseInv ==
    /\ in_use \subseteq Present
    /\ \A c \in Holders : Valid(lease[c])
    /\ \A c, d \in Holders : lease[c].slot = lease[d].slot => c = d
    /\ \A s \in in_use : \E c \in Holders : lease[c].slot = s
    /\ \A r, s \in Present : connection[r] = connection[s] => r = s
    /\ \A s \in in_use : lease_token[s] <= next_token
    /\ \A r, s \in in_use : lease_token[r] = lease_token[s] => r = s
    /\ \A l \in stale : /\ l.token <= next_token
                        /\ \A s \in in_use : lease_token[s] # l.token
    /\ closed = 1 => Idle = {}

\* Tickets and waiter entries.  The queued clients and the active entries are in
\* one-to-one correspondence, entry and client agree on the ticket, tickets are
\* unique, and only a client that has waited and not yet returned has one.
QueueInv ==
    /\ \A c \in Clients : waiter_index[c] = 0 <=> ticket[c] = 0
    /\ \A c \in Clients : waiter_index[c] # 0 => waiters[waiter_index[c]] = ticket[c]
    /\ \A c, d \in Clients : waiter_index[c] = waiter_index[d] => waiter_index[c] = 0 \/ c = d
    /\ \A w \in ActiveWaiters : \E c \in Clients : waiter_index[c] = w
    /\ \A w \in Waiters : waiters[w] <= next_ticket
    /\ \A v, w \in ActiveWaiters : waiters[v] = waiters[w] => v = w
    /\ \A c \in Clients : ticket[c] = 0 <=> pc[c] \in {"out", "entered"}
    /\ \A c \in Clients : pc[c] # "out" => lease[c] = NoLease

\* A pool that is being destroyed is closed and entered by nobody; storage that was
\* freed had neither leases nor waiters.
DestroyInv ==
    /\ destroyer # "none" => closed = 1 /\ \A c \in Clients : pc[c] # "entered"
    /\ destroyer = "freed" => active = 0 /\ waiting = 0

IInv == TypeOK /\ Accounting /\ LeaseInv /\ QueueInv /\ DestroyInv

-----------------------------------------------------------------------------
(* Counting *)

\* The sets that the counters of the pool count are finite.
LEMMA FiniteSets ==
    ASSUME TypeOK
    PROVE  /\ IsFiniteSet(Present) /\ Cardinality(Present) \in Nat
           /\ IsFiniteSet(in_use) /\ Cardinality(in_use) \in Nat
           /\ IsFiniteSet(ActiveWaiters) /\ Cardinality(ActiveWaiters) \in Nat
<1>1. IsFiniteSet(Slots) /\ IsFiniteSet(Waiters)
  BY FS_Interval, PoolAssumption DEF Slots, Waiters
<1>2. Present \in SUBSET Slots /\ in_use \in SUBSET Slots /\ ActiveWaiters \in SUBSET Waiters
  BY DEF Present, ActiveWaiters, TypeOK
<1> QED
  BY <1>1, <1>2, FS_Subset, FS_CardinalityType

\* Destroying a set of present connections (vps_pool_destroy_slot for each of them)
\* takes as many off the count.
LEMMA DestroyedCount ==
    ASSUME TypeOK, total = Cardinality(Present), NEW D \in SUBSET Present,
           connection' = Destroyed(D)
    PROVE  /\ Present' = Present \ D
           /\ total - Cardinality(D) = Cardinality(Present')
           /\ total - Cardinality(D) \in Nat
           /\ Cardinality(D) \in Nat
           /\ \A s \in Present' : connection'[s] = connection[s]
           /\ connection' \in [Slots -> Connections \cup {NULL}]
<1>1. /\ Present' = Present \ D
      /\ \A s \in Present' : connection'[s] = connection[s]
      /\ connection' \in [Slots -> Connections \cup {NULL}]
  BY DEF Present, Destroyed, TypeOK
<1>2. IsFiniteSet(Present) /\ Cardinality(Present) \in Nat
  BY FiniteSets
<1>3. /\ IsFiniteSet(Present \ D)
      /\ Cardinality(Present \ D) = Cardinality(Present) - Cardinality(Present \cap D)
  BY <1>2, FS_Difference
<1>4. Present \cap D = D
  OBVIOUS
<1>5. Cardinality(Present \ D) \in Nat /\ Cardinality(D) \in Nat
  BY <1>2, <1>3, FS_CardinalityType, FS_Subset
<1> QED
  BY <1>1, <1>2, <1>3, <1>4, <1>5

\* vps_pool_waiter_remove takes the client's entry, if it has one, off the count.
LEMMA WaiterRemoved ==
    ASSUME IInv, NEW c \in Clients, WaiterRemove(c)
    PROVE  /\ waiters' \in [Waiters -> Nat]
           /\ waiting' \in Nat
           /\ ActiveWaiters' = ActiveWaiters \ {waiter_index[c]}
           /\ waiting' = Cardinality(ActiveWaiters')
<1>1. /\ waiters' \in [Waiters -> Nat]
      /\ ActiveWaiters' = ActiveWaiters \ {waiter_index[c]}
  BY DEF WaiterRemove, ActiveWaiters, IInv, TypeOK
<1>2. IsFiniteSet(ActiveWaiters) /\ Cardinality(ActiveWaiters) \in Nat
  BY FiniteSets DEF IInv
<1>3. /\ IsFiniteSet(ActiveWaiters \ {waiter_index[c]})
      /\ Cardinality(ActiveWaiters \ {waiter_index[c]}) =
            IF waiter_index[c] \in ActiveWaiters THEN Cardinality(ActiveWaiters) - 1
                                                 ELSE Cardinality(ActiveWaiters)
  BY <1>2, FS_RemoveElement
<1>4. Cardinality(ActiveWaiters \ {waiter_index[c]}) \in Nat
  BY <1>3, FS_CardinalityType
<1> QED
  BY <1>1, <1>2, <1>3, <1>4 DEF WaiterRemove, IInv, Accounting

-----------------------------------------------------------------------------
(* The invariant holds initially *)

\* A pool just created: no lease, no waiter, nobody in destroy.
LEMMA InitInv == Init => IInv
<1> SUFFICES ASSUME Init PROVE IInv
  OBVIOUS
<1> USE PoolAssumption
<1>1. TypeOK
  BY DEF Init, TypeOK, Leases, NoLease
<1>2. Accounting
  <2>1. Present = 1..MinimumSize
    BY DEF Init, Present, Slots
  <2>2. Cardinality(1..MinimumSize) = MinimumSize
    BY FS_Interval
  <2>3. in_use = {} /\ ActiveWaiters = {}
    BY DEF Init, ActiveWaiters
  <2> QED
    BY <2>1, <2>2, <2>3, FS_EmptySet DEF Init, Accounting
<1>3. Holders = {}
  BY DEF Init, Holders
<1>4. LeaseInv
  BY <1>3 DEF Init, LeaseInv, Present, Slots
<1>5. QueueInv
  BY DEF Init, QueueInv, ActiveWaiters
<1>6. DestroyInv
  BY DEF Init, DestroyInv
<1> QED
  BY <1>1, <1>2, <1>4, <1>5, <1>6 DEF IInv

-----------------------------------------------------------------------------
(* What the actions do to the queue *)

\* A call that returns leaves the queue in order.
LEMMA QueueAfterReturn ==
    ASSUME IInv, NEW c \in Clients, WaiterRemove(c), Return(c),
           next_ticket' \in Nat, next_ticket <= next_ticket',
           \/ pc' = [pc EXCEPT ![c] = "out"]
           \/ pc' = Broadcast([pc EXCEPT ![c] = "out"]),
           \A d \in Clients \ {c} : lease'[d] = lease[d]
    PROVE  QueueInv'
<1> USE DEF IInv, TypeOK
<1>1. \A d \in Clients : /\ pc'[d] \in {"out", "entered"} <=> d = c \/ pc[d] \in {"out", "entered"}
                         /\ pc'[d] = "out" <=> d = c \/ pc[d] = "out"
  BY DEF Broadcast
<1>2. \A d \in Clients : /\ waiter_index'[d] = IF d = c THEN 0 ELSE waiter_index[d]
                         /\ ticket'[d] = IF d = c THEN 0 ELSE ticket[d]
  BY DEF Return
<1>3. \A w \in Waiters : waiters'[w] = IF w = waiter_index[c] THEN 0 ELSE waiters[w]
  BY DEF WaiterRemove
<1>4. ActiveWaiters' = ActiveWaiters \ {waiter_index[c]}
  BY WaiterRemoved
<1>5. \A d \in Clients : waiter_index'[d] = 0 <=> ticket'[d] = 0
  BY <1>2 DEF QueueInv
<1>6. \A d \in Clients : waiter_index'[d] # 0 => waiters'[waiter_index'[d]] = ticket'[d]
  BY <1>2, <1>3 DEF QueueInv, Waiters
<1>7. \A d, e \in Clients : waiter_index'[d] = waiter_index'[e] => waiter_index'[d] = 0 \/ d = e
  BY <1>2 DEF QueueInv
<1>8. \A w \in ActiveWaiters' : \E d \in Clients : waiter_index'[d] = w
  BY <1>2, <1>4 DEF QueueInv
<1>9. \A w \in Waiters : waiters'[w] <= next_ticket'
  BY <1>3 DEF QueueInv
<1>10. \A v, w \in ActiveWaiters' : waiters'[v] = waiters'[w] => v = w
  BY <1>3, <1>4 DEF QueueInv, ActiveWaiters
<1>11. \A d \in Clients : ticket'[d] = 0 <=> pc'[d] \in {"out", "entered"}
  BY <1>1, <1>2 DEF QueueInv
<1>12. \A d \in Clients : pc'[d] # "out" => lease'[d] = NoLease
  BY <1>1 DEF QueueInv, NoLease
<1> QED
  BY <1>5, <1>6, <1>7, <1>8, <1>9, <1>10, <1>11, <1>12 DEF QueueInv

\* A step that leaves tickets and entries alone and lets nobody pass the wait.
LEMMA QueueUntouched ==
    ASSUME IInv, UNCHANGED <<waiters, next_ticket, waiter_index, ticket>>,
           \A c \in Clients : /\ pc'[c] \in {"out", "entered"} <=> pc[c] \in {"out", "entered"}
                              /\ pc'[c] # "out" => lease'[c] = NoLease
    PROVE  QueueInv' /\ ActiveWaiters' = ActiveWaiters
BY DEF IInv, QueueInv, ActiveWaiters, NoLease

-----------------------------------------------------------------------------
(* What the actions do to the leases *)

\* vps_pool_fill_lease on a slot that nobody holds.
LEMMA LeaseAfterFill ==
    ASSUME IInv, NEW c \in Clients, NEW s \in Slots, FillLease(c, s),
           pc[c] # "out", closed = 0, s \notin in_use,
           connection' \in [Slots -> Connections \cup {NULL}],
           in_use \cup {s} \subseteq Present',
           \A r \in in_use : connection'[r] = connection[r],
           \A q, r \in Present' : connection'[q] = connection'[r] => q = r
    PROVE  /\ LeaseInv'
           /\ lease' \in [Clients -> Leases]
           /\ lease_token' \in [Slots -> Nat]
           /\ next_token' \in Nat
           /\ active' \in Nat
           /\ active' = Cardinality(in_use')
           /\ \A d \in Clients \ {c} : lease'[d] = lease[d]
<1> USE DEF IInv, TypeOK
<1>1. lease[c] = NoLease
  BY DEF QueueInv
<1>2. next_token' = next_token + 1 /\ in_use' = in_use \cup {s} /\ closed' = 0 /\ stale' = stale
  BY DEF FillLease, NextNonzero
<1>3. \A r \in Slots : lease_token'[r] = IF r = s THEN next_token + 1 ELSE lease_token[r]
  BY <1>2 DEF FillLease
<1>4. /\ \A d \in Clients \ {c} : lease'[d] = lease[d]
      /\ lease'[c] = [slot |-> s, connection |-> connection'[s], token |-> next_token + 1]
  BY <1>2 DEF FillLease
<1>5. lease'[c] # NoLease
  BY <1>4, PoolAssumption DEF NoLease, Slots
<1>6. Holders' = Holders \cup {c} /\ c \notin Holders
  BY <1>1, <1>4, <1>5 DEF Holders, NoLease
<1>7. lease' \in [Clients -> Leases] /\ lease_token' \in [Slots -> Nat] /\ next_token' \in Nat
  BY <1>2 DEF FillLease, Leases, Slots
<1>8. active' \in Nat /\ active' = Cardinality(in_use')
  <2>1. IsFiniteSet(in_use) /\ Cardinality(in_use) \in Nat
    BY FiniteSets
  <2>2. Cardinality(in_use \cup {s}) = Cardinality(in_use) + 1
    BY <2>1, FS_AddElement
  <2>3. active' = active + 1
    BY DEF FillLease
  <2> QED
    BY <1>2, <2>1, <2>2, <2>3 DEF Accounting
<1>9. \A d \in Holders : lease[d].slot \in in_use /\ lease[d].slot # s /\ lease[d].slot \in Slots
  BY DEF LeaseInv, Valid
<1>10. \A d \in Holders' : Valid(lease[d])'
  <2>1. Valid(lease[c])'
    BY <1>2, <1>3, <1>4 DEF Valid
  <2>2. ASSUME NEW d \in Holders PROVE Valid(lease[d])'
    BY <1>2, <1>3, <1>4, <1>6, <1>9 DEF Valid, LeaseInv, Holders
  <2> QED
    BY <1>6, <2>1, <2>2
<1>11. \A d, e \in Holders' : lease'[d].slot = lease'[e].slot => d = e
  BY <1>4, <1>6, <1>9 DEF LeaseInv, Holders
<1>12. \A r \in in_use' : \E d \in Holders' : lease'[d].slot = r
  BY <1>2, <1>4, <1>6 DEF LeaseInv, Holders
<1>13. \A r \in in_use' : lease_token'[r] <= next_token'
  BY <1>2, <1>3 DEF LeaseInv
<1>14. \A l \in stale' : /\ l.token <= next_token'
                         /\ \A r \in in_use' : lease_token'[r] # l.token
  <2> SUFFICES ASSUME NEW l \in stale
               PROVE  /\ l.token <= next_token + 1
                      /\ \A r \in in_use \cup {s} : lease_token'[r] # l.token
    BY <1>2
  <2>1. l.token \in Nat /\ l.token <= next_token
    BY DEF LeaseInv, Leases
  <2> QED
    BY <1>3, <2>1 DEF LeaseInv
<1>15. \A q, r \in in_use' : lease_token'[q] = lease_token'[r] => q = r
  BY <1>2, <1>3 DEF LeaseInv
<1> QED
  BY <1>2, <1>4, <1>7, <1>8, <1>10, <1>11, <1>12, <1>13, <1>14, <1>15 DEF LeaseInv

\* Idle connections are destroyed and nothing else happens to the leases.
LEMMA LeaseAfterDestroy ==
    ASSUME IInv, NEW D \in SUBSET Idle, connection' = Destroyed(D),
           UNCHANGED <<lease_token, in_use, next_token, lease, stale>>,
           closed' = 1 => Idle' = {}
    PROVE  LeaseInv'
<1> USE DEF IInv, TypeOK
<1>1. Present' = Present \ D /\ \A s \in Present' : connection'[s] = connection[s]
  BY DestroyedCount DEF Accounting, Idle
<1>2. in_use \subseteq Present'
  BY <1>1 DEF Idle, LeaseInv
<1>3. Holders' = Holders
  BY DEF Holders, NoLease
<1>4. \A c \in Holders' : Valid(lease[c])'
  BY <1>1, <1>2, <1>3 DEF LeaseInv, Valid
<1> QED
  BY <1>1, <1>2, <1>3, <1>4 DEF LeaseInv

\* The holder gives its lease back and a copy of it stays behind.
LEMMA LeaseAfterRelease ==
    ASSUME IInv, NEW c \in Clients, NEW kept \in BOOLEAN, Release(c, kept)
    PROVE  /\ LeaseInv'
           /\ lease' \in [Clients -> Leases]
           /\ lease_token' \in [Slots -> Nat]
           /\ stale' \subseteq Leases
           /\ connection' \in [Slots -> Connections \cup {NULL}]
           /\ active' \in Nat /\ active' = Cardinality(in_use')
           /\ total' \in Nat /\ total' = Cardinality(Present')
<1> USE DEF IInv, TypeOK
<1> DEFINE s == lease[c].slot
<1>1. /\ s \in in_use /\ s \in Slots /\ s \in Present /\ c \in Holders
      /\ lease_token[s] = lease[c].token
  BY DEF Release, Valid, LeaseInv, Holders
<1>2. /\ in_use' = in_use \ {s} /\ next_token' = next_token /\ closed' = closed
      /\ stale' = stale \cup {lease[c]}
      /\ active' = active - 1
      /\ lease' = [lease EXCEPT ![c] = NoLease]
      /\ lease_token' = [lease_token EXCEPT ![s] = 0]
  BY DEF Release, GiveBack
<1>3. lease' \in [Clients -> Leases] /\ lease_token' \in [Slots -> Nat] /\ stale' \subseteq Leases
  <2>1. NoLease \in Leases
    BY PoolAssumption DEF NoLease, Leases
  <2> QED
    BY <1>2, <2>1
<1>4. Holders' = Holders \ {c}
  BY <1>2 DEF Holders, NoLease
<1>5. active' \in Nat /\ active' = Cardinality(in_use')
  <2>1. IsFiniteSet(in_use) /\ Cardinality(in_use) \in Nat
    BY FiniteSets
  <2>2. IsFiniteSet(in_use \ {s}) /\ Cardinality(in_use \ {s}) = Cardinality(in_use) - 1
    BY <1>1, <2>1, FS_RemoveElement
  <2>3. Cardinality(in_use \ {s}) \in Nat
    BY <2>2, FS_CardinalityType
  <2> QED
    BY <1>2, <2>2, <2>3 DEF Accounting
<1>6. /\ connection' \in [Slots -> Connections \cup {NULL}]
      /\ total' \in Nat /\ total' = Cardinality(Present')
      /\ Present' \subseteq Present
      /\ Present \ {s} \subseteq Present'
      /\ \A r \in Present' : connection'[r] = connection[r]
      /\ closed = 1 => Present' = Present \ {s}
  <2>1. CASE kept
    BY <2>1, <1>2 DEF Release, GiveBack, Accounting, Present
  <2>2. CASE ~kept
    <3>1. connection' = Destroyed({s}) /\ total' = total - 1
      BY <2>2 DEF Release, GiveBack
    <3>2. Cardinality({s}) = 1
      BY FS_Singleton
    <3> QED
      BY <3>1, <3>2, <1>1, DestroyedCount DEF Accounting
  <2> QED
    BY <2>1, <2>2
<1>7. \A d \in Holders' : Valid(lease[d])'
  <2> SUFFICES ASSUME NEW d \in Holders, d # c PROVE Valid(lease[d])'
    BY <1>4
  <2>1. lease'[d] = lease[d]
    BY <1>2 DEF Holders
  <2>2. /\ lease[d].slot \in in_use' /\ lease[d].slot \in Present' /\ lease[d].slot # s
        /\ lease[d].slot \in Slots
    BY <1>1, <1>2, <1>6 DEF LeaseInv, Valid
  <2> QED
    BY <1>2, <1>6, <2>1, <2>2 DEF LeaseInv, Valid
<1>8. \A r \in in_use' : \E d \in Holders' : lease'[d].slot = r
  BY <1>1, <1>2, <1>4 DEF LeaseInv, Holders
<1>9. \A l \in stale' : /\ l.token <= next_token'
                        /\ \A r \in in_use' : lease_token'[r] # l.token
  <2>1. \A r \in in_use' : lease_token'[r] = lease_token[r] /\ r # s /\ r \in in_use
    BY <1>2
  <2>2. lease[c].token <= next_token
    BY <1>1 DEF LeaseInv
  <2>3. \A r \in in_use' : lease_token[r] # lease[c].token
    <3> SUFFICES ASSUME NEW r \in in_use, r # s, lease_token[r] = lease_token[s] PROVE FALSE
      BY <1>1, <2>1
    <3> QED
      BY <1>1 DEF LeaseInv
  <2> QED
    BY <1>2, <2>1, <2>2, <2>3 DEF LeaseInv
<1>10. \A d, e \in Holders' : lease'[d].slot = lease'[e].slot => d = e
  BY <1>2, <1>4 DEF LeaseInv, Holders
<1>11. in_use' \subseteq Present' /\ (closed' = 1 => Idle' = {})
  BY <1>1, <1>2, <1>6 DEF LeaseInv, Idle
<1>12. /\ \A r \in in_use' : lease_token'[r] <= next_token'
       /\ \A q, r \in in_use' : lease_token'[q] = lease_token'[r] => q = r
  BY <1>2 DEF LeaseInv
<1> QED
  BY <1>3, <1>5, <1>6, <1>7, <1>8, <1>9, <1>10, <1>11, <1>12 DEF LeaseInv

-----------------------------------------------------------------------------
(* Every step preserves the invariant *)

\* Entering acquire, a deadline and the end of a wait move no pool state.
LEMMA LocalStep ==
    ASSUME IInv, NEW c \in Clients, Enter(c) \/ DeadlinePasses(c) \/ WaitReturns(c)
    PROVE  IInv'
<1> USE DEF IInv
<1>1. UNCHANGED <<poolVars, queueVars, localVars, next_token, lease, stale, destroyer>>
  BY DEF Enter, DeadlinePasses, WaitReturns
<1>2. \A d \in Clients : /\ pc'[d] \in {"out", "entered"} <=> pc[d] \in {"out", "entered"}
                         /\ pc'[d] # "out" => lease[d] = NoLease
  BY DEF Enter, DeadlinePasses, WaitReturns, TypeOK, QueueInv
<1>3. TypeOK'
  BY <1>1 DEF TypeOK, poolVars, queueVars, localVars, Enter, DeadlinePasses, WaitReturns, Leases
<1>4. QueueInv' /\ ActiveWaiters' = ActiveWaiters
  BY <1>1, <1>2, QueueUntouched DEF queueVars, localVars
<1>5. Accounting'
  BY <1>1, <1>4 DEF Accounting, poolVars, queueVars, Present
<1>6. LeaseInv'
  BY <1>1 DEF LeaseInv, poolVars, Present, Idle, Holders, Valid, NoLease
<1>7. DestroyInv'
  BY <1>1 DEF DestroyInv, Enter, DeadlinePasses, WaitReturns, TypeOK, poolVars, queueVars
<1> QED
  BY <1>3, <1>4, <1>5, <1>6, <1>7

\* A call that ends without a lease: stopped, create failed, or given up.  It may
\* have destroyed idle connections on the way.
LEMMA LeaveStep ==
    ASSUME IInv, NEW c \in Clients,
           AcquireStopped(c) \/ AcquireCreateFailed(c) \/ AcquireGiveUp(c)
    PROVE  IInv'
<1> USE DEF IInv
<1>1. /\ WaiterRemove(c) /\ Return(c) /\ InLoop(c)
      /\ pc' = [pc EXCEPT ![c] = "out"]
      /\ UNCHANGED <<lease_token, in_use, active, closed, next_token, lease, stale, destroyer>>
  BY DEF AcquireStopped, AcquireCreateFailed, AcquireGiveUp, MustWait, poolVars
<1>2. PICK D \in SUBSET Idle : /\ connection' = Destroyed(D)
                               /\ total' = total - Cardinality(D)
                               /\ closed = 1 => D = {}
  <2>1. CASE AcquireCreateFailed(c)
    BY <2>1 DEF AcquireCreateFailed
  <2>2. CASE AcquireStopped(c) \/ AcquireGiveUp(c)
    <3>1. connection' = connection /\ total' = total
      BY <2>2 DEF AcquireStopped, AcquireGiveUp, poolVars
    <3>2. connection' = Destroyed({})
      BY <3>1 DEF Destroyed, TypeOK
    <3> QED
      BY <3>1, <3>2, FS_EmptySet DEF TypeOK
  <2> QED
    BY <2>1, <2>2
<1>3. next_ticket' \in Nat /\ next_ticket <= next_ticket'
  BY DEF AcquireStopped, AcquireCreateFailed, AcquireGiveUp, NextNonzero, TypeOK
<1>4. /\ connection' \in [Slots -> Connections \cup {NULL}]
      /\ total' \in Nat /\ total' = Cardinality(Present')
      /\ Present' = Present \ D
  BY <1>2, DestroyedCount DEF Accounting, Idle
<1>5. /\ waiters' \in [Waiters -> Nat] /\ waiting' \in Nat
      /\ waiting' = Cardinality(ActiveWaiters')
  BY <1>1, WaiterRemoved
<1>6. TypeOK'
  <2>1. /\ pc' \in [Clients -> {"out", "entered", "blocked", "woken"}]
        /\ waiter_index' \in [Clients -> 0..MaximumWaiters]
        /\ ticket' \in [Clients -> Nat]
        /\ expired' \subseteq Clients
    BY <1>1, PoolAssumption DEF Return, TypeOK
  <2> QED
    BY <1>1, <1>3, <1>4, <1>5, <2>1 DEF TypeOK, Leases
<1>7. Accounting'
  BY <1>1, <1>4, <1>5 DEF Accounting
<1>8. LeaseInv'
  <2>1. closed' = 1 => Idle' = {}
    BY <1>1, <1>2, <1>4 DEF LeaseInv, Idle
  <2> QED
    BY <1>1, <1>2, <2>1, LeaseAfterDestroy
<1>9. QueueInv'
  BY <1>1, <1>3, QueueAfterReturn
<1>10. DestroyInv'
  BY <1>1 DEF DestroyInv, InLoop, TypeOK
<1> QED
  BY <1>6, <1>7, <1>8, <1>9, <1>10

\* A lease is granted on an idle slot or on a new connection.
LEMMA GrantStep ==
    ASSUME IInv, NEW c \in Clients, NEW s \in Slots,
           AcquireIdle(c, s) \/ \E new \in Connections : AcquireNew(c, s, new)
    PROVE  IInv'
<1> USE DEF IInv
<1>1. InLoop(c) /\ closed = 0 /\ FillLease(c, s) /\ pc[c] # "out" /\ destroyer # "freed"
  BY DEF AcquireIdle, AcquireNew, InLoop
<1>2. /\ s \notin in_use
      /\ connection' \in [Slots -> Connections \cup {NULL}]
      /\ in_use \cup {s} \subseteq Present'
      /\ \A r \in in_use : connection'[r] = connection[r]
      /\ \A q, r \in Present' : connection'[q] = connection'[r] => q = r
      /\ total' \in Nat /\ total' = Cardinality(Present')
  <2>1. CASE AcquireIdle(c, s)
    <3> DEFINE failed == {d \in Idle : d < s}
    <3>1. /\ s \in Idle /\ connection' = Destroyed(failed)
          /\ total' = total - Cardinality(failed)
      BY <2>1 DEF AcquireIdle
    <3>2. /\ Present' = Present \ failed
          /\ total' \in Nat /\ total' = Cardinality(Present')
          /\ \A r \in Present' : connection'[r] = connection[r]
          /\ connection' \in [Slots -> Connections \cup {NULL}]
      <4>1. failed \in SUBSET Present
        BY DEF Idle
      <4> HIDE DEF failed
      <4> QED
        BY <3>1, <4>1, DestroyedCount DEF Accounting
    <3>3. in_use \cup {s} \subseteq Present'
      BY <3>1, <3>2 DEF Idle, LeaseInv, Slots
    <3> QED
      BY <3>1, <3>2, <3>3 DEF Idle, LeaseInv
  <2>2. ASSUME NEW new \in Connections, AcquireNew(c, s, new)
        PROVE  <1>2!1 /\ <1>2!2 /\ <1>2!3 /\ <1>2!4 /\ <1>2!5 /\ <1>2!6
    <3>1. /\ connection' = [Destroyed(Idle) EXCEPT ![s] = new]
          /\ total' = total - Cardinality(Idle) + 1
          /\ s \notin Present \ Idle
          /\ \A p \in Present \ Idle : connection[p] # new
      BY <2>2 DEF AcquireNew, IsFirstOf
    <3>2. Present \ Idle = in_use
      BY DEF Idle, LeaseInv
    <3>3. /\ \A r \in Slots : connection'[r] = IF r = s THEN new
                                              ELSE IF r \in Idle THEN NULL ELSE connection[r]
          /\ connection' \in [Slots -> Connections \cup {NULL}]
      BY <3>1 DEF Destroyed, TypeOK
    <3>4. Present' = in_use \cup {s}
      BY <3>2, <3>3, PoolAssumption DEF Present, Idle, LeaseInv, TypeOK
    <3>5. Cardinality(in_use \cup {s}) = Cardinality(in_use) + 1
      BY <3>1, <3>2, FiniteSets, FS_AddElement, Zenon
    <3>6. total - Cardinality(Idle) = Cardinality(in_use)
      <4>1. IsFiniteSet(Present) /\ Cardinality(Present) \in Nat /\ Cardinality(in_use) \in Nat
        BY FiniteSets
      <4>2. Cardinality(Present \ in_use) = Cardinality(Present) - Cardinality(Present \cap in_use)
        BY <4>1, FS_Difference, Zenon
      <4>3. Present \cap in_use = in_use /\ Present \ in_use = Idle
        BY DEF LeaseInv, Idle
      <4>4. Cardinality(Idle) = Cardinality(Present) - Cardinality(in_use)
        BY <4>2, <4>3
      <4>5. total = Cardinality(Present)
        BY DEF Accounting
      <4> QED
        BY <4>1, <4>4, <4>5
    <3>7. total' \in Nat /\ total' = Cardinality(Present')
      BY <3>1, <3>4, <3>5, <3>6, FiniteSets
    <3>8. \A r \in in_use : r # s /\ r \in Slots /\ connection'[r] = connection[r] /\ connection[r] # new
      BY <3>1, <3>2, <3>3, Zenon DEF Idle, TypeOK
    <3>9. \A q, r \in Present' : connection'[q] = connection'[r] => q = r
      BY <3>3, <3>4, <3>8 DEF LeaseInv
    <3> QED
      BY <3>1, <3>2, <3>3, <3>4, <3>7, <3>8, <3>9
  <2> QED
    BY <2>1, <2>2
<1>3. /\ LeaseInv'
      /\ lease' \in [Clients -> Leases]
      /\ lease_token' \in [Slots -> Nat]
      /\ next_token' \in Nat
      /\ active' \in Nat /\ active' = Cardinality(in_use')
      /\ \A d \in Clients \ {c} : lease'[d] = lease[d]
  BY <1>1, <1>2, LeaseAfterFill
<1>4. /\ WaiterRemove(c) /\ Return(c)
      /\ pc' = Broadcast([pc EXCEPT ![c] = "out"])
      /\ in_use' = in_use \cup {s}
      /\ UNCHANGED <<next_ticket, closed, stale, destroyer>>
  BY <1>1 DEF FillLease
<1>5. /\ waiters' \in [Waiters -> Nat] /\ waiting' \in Nat
      /\ waiting' = Cardinality(ActiveWaiters')
  BY <1>4, WaiterRemoved
<1>6. TypeOK'
  <2>1. pc' \in [Clients -> {"out", "entered", "blocked", "woken"}]
    BY <1>4 DEF Broadcast, TypeOK
  <2>2. /\ waiter_index' \in [Clients -> 0..MaximumWaiters]
        /\ ticket' \in [Clients -> Nat]
        /\ expired' \subseteq Clients
    BY <1>4, PoolAssumption DEF Return, TypeOK
  <2>3. stale' \subseteq Leases'
    BY <1>4 DEF TypeOK, Leases
  <2> QED
    BY <1>2, <1>3, <1>4, <1>5, <2>1, <2>2, <2>3 DEF TypeOK, Leases
<1>7. Accounting'
  BY <1>2, <1>3, <1>5 DEF Accounting
<1>8. QueueInv'
  <2>1. next_ticket' \in Nat /\ next_ticket <= next_ticket'
    BY <1>4 DEF TypeOK
  <2> QED
    BY <1>3, <1>4, <2>1, QueueAfterReturn
<1>9. DestroyInv'
  <2>1. destroyer' = "none"
    BY <1>1, <1>4 DEF DestroyInv
  <2> QED
    BY <2>1 DEF DestroyInv
<1> QED
  BY <1>3, <1>6, <1>7, <1>8, <1>9

\* A client registers as a waiter, or waits once more.
LEMMA WaitStep ==
    ASSUME IInv, NEW c \in Clients,
           AcquireWaitAgain(c) \/ \E w \in Waiters : AcquireQueue(c, w)
    PROVE  IInv'
<1> USE DEF IInv
<1>1. /\ pc[c] \in {"entered", "woken"} /\ pc' = [pc EXCEPT ![c] = "blocked"]
      /\ destroyer # "freed"
      /\ UNCHANGED <<poolVars, next_token, expired, lease, stale, destroyer>>
  BY DEF AcquireWaitAgain, AcquireQueue, MustWait, InLoop
<1>2. LeaseInv'
  BY <1>1 DEF LeaseInv, poolVars, Present, Idle, Holders, Valid, NoLease
<1>3. DestroyInv'
  BY <1>1 DEF DestroyInv, TypeOK, poolVars
<1>4. CASE AcquireWaitAgain(c)
  <2>1. UNCHANGED <<queueVars, localVars>> /\ ticket[c] # 0
    BY <1>4 DEF AcquireWaitAgain
  <2>2. \A d \in Clients : /\ pc'[d] \in {"out", "entered"} <=> pc[d] \in {"out", "entered"}
                           /\ pc'[d] # "out" => lease'[d] = NoLease
    BY <1>1, <2>1 DEF TypeOK, QueueInv
  <2>3. QueueInv' /\ ActiveWaiters' = ActiveWaiters
    BY <2>1, <2>2, QueueUntouched DEF queueVars, localVars
  <2>4. Accounting'
    BY <1>1, <2>1, <2>3 DEF Accounting, poolVars, queueVars, Present
  <2>5. TypeOK'
    BY <1>1, <2>1 DEF TypeOK, poolVars, queueVars, localVars, Leases
  <2> QED
    BY <1>2, <1>3, <2>3, <2>4, <2>5
<1>5. ASSUME NEW w \in Waiters, AcquireQueue(c, w) PROVE IInv'
  <2>1. /\ ticket[c] = 0 /\ w \notin ActiveWaiters
        /\ next_ticket' = next_ticket + 1
        /\ waiting' = waiting + 1
        /\ waiters' = [waiters EXCEPT ![w] = next_ticket + 1]
        /\ waiter_index' = [waiter_index EXCEPT ![c] = w]
        /\ ticket' = [ticket EXCEPT ![c] = next_ticket + 1]
    BY <1>5 DEF AcquireQueue, NextNonzero, IsFirstOf
  <2>2. ActiveWaiters' = ActiveWaiters \cup {w}
    BY <2>1 DEF ActiveWaiters, TypeOK
  <2>3. waiting' \in Nat /\ waiting' = Cardinality(ActiveWaiters')
    <3>1. IsFiniteSet(ActiveWaiters) /\ Cardinality(ActiveWaiters) \in Nat
      BY FiniteSets
    <3>2. Cardinality(ActiveWaiters \cup {w}) = Cardinality(ActiveWaiters) + 1
      BY <2>1, <3>1, FS_AddElement, Zenon
    <3> QED
      BY <2>1, <2>2, <3>1, <3>2 DEF Accounting
  <2>4. TypeOK'
    <3>1. /\ waiters' \in [Waiters -> Nat] /\ next_ticket' \in Nat
          /\ waiter_index' \in [Clients -> 0..MaximumWaiters]
          /\ ticket' \in [Clients -> Nat]
      BY <2>1 DEF TypeOK, Waiters
    <3> QED
      BY <1>1, <2>3, <3>1 DEF TypeOK, poolVars, Leases
  <2>5. Accounting'
    BY <1>1, <2>3 DEF Accounting, poolVars, Present
  <2>6. QueueInv'
    <3>1. w # 0 /\ waiters[w] = 0
      BY <2>1 DEF Waiters, ActiveWaiters
    <3>2. \A d \in Clients : waiter_index[d] # w
      <4> SUFFICES ASSUME NEW d \in Clients, waiter_index[d] = w PROVE FALSE
        OBVIOUS
      <4> QED
        BY <3>1 DEF QueueInv
    <3>3. \A d \in Clients : waiter_index'[d] = 0 <=> ticket'[d] = 0
      BY <2>1, <3>1 DEF QueueInv, TypeOK
    <3>4. \A d \in Clients : waiter_index'[d] # 0 => waiters'[waiter_index'[d]] = ticket'[d]
      BY <2>1, <3>1, <3>2 DEF QueueInv, TypeOK, Waiters
    <3>5. \A d, e \in Clients : waiter_index'[d] = waiter_index'[e] => waiter_index'[d] = 0 \/ d = e
      BY <2>1, <3>2 DEF QueueInv, TypeOK
    <3>6. \A v \in ActiveWaiters' : \E d \in Clients : waiter_index'[d] = v
      <4>1. waiter_index[c] = 0
        BY <2>1 DEF QueueInv
      <4>2. \A v \in ActiveWaiters : v # 0
        BY DEF ActiveWaiters, Waiters
      <4> QED
        BY <2>1, <2>2, <4>1, <4>2 DEF QueueInv, TypeOK
    <3>7. \A v \in Waiters : waiters'[v] <= next_ticket'
      BY <2>1 DEF QueueInv, TypeOK
    <3>8. \A u, v \in ActiveWaiters' : waiters'[u] = waiters'[v] => u = v
      BY <2>1, <2>2 DEF QueueInv, TypeOK, ActiveWaiters
    <3>9. \A d \in Clients : ticket'[d] = 0 <=> pc'[d] \in {"out", "entered"}
      BY <1>1, <2>1 DEF QueueInv, TypeOK
    <3>10. \A d \in Clients : pc'[d] # "out" => lease'[d] = NoLease
      BY <1>1 DEF QueueInv, TypeOK
    <3> QED
      BY <3>3, <3>4, <3>5, <3>6, <3>7, <3>8, <3>9, <3>10 DEF QueueInv, NoLease
  <2> QED
    BY <1>2, <1>3, <2>4, <2>5, <2>6
<1> QED
  BY <1>4, <1>5

\* The holder releases its lease.
LEMMA ReleaseStep ==
    ASSUME IInv, NEW c \in Clients, NEW kept \in BOOLEAN, Release(c, kept)
    PROVE  IInv'
<1> USE DEF IInv
<1>1. /\ LeaseInv'
      /\ lease' \in [Clients -> Leases]
      /\ lease_token' \in [Slots -> Nat]
      /\ stale' \subseteq Leases
      /\ connection' \in [Slots -> Connections \cup {NULL}]
      /\ active' \in Nat /\ active' = Cardinality(in_use')
      /\ total' \in Nat /\ total' = Cardinality(Present')
  BY LeaseAfterRelease
<1>2. /\ UNCHANGED <<queueVars, localVars, next_token, closed, expired, destroyer>>
      /\ pc' = Broadcast(pc) /\ in_use' = in_use \ {lease[c].slot}
      /\ lease' = [lease EXCEPT ![c] = NoLease]
      /\ lease[c].slot \in in_use
  BY DEF Release, GiveBack, Valid
<1>3. pc' \in [Clients -> {"out", "entered", "blocked", "woken"}]
  BY <1>2 DEF Broadcast, TypeOK
<1>4. TypeOK'
  BY <1>1, <1>2, <1>3 DEF TypeOK, queueVars, localVars, Leases
<1>5. \A d \in Clients : /\ pc'[d] \in {"out", "entered"} <=> pc[d] \in {"out", "entered"}
                         /\ pc'[d] # "out" => lease'[d] = NoLease
                         /\ pc'[d] = "entered" <=> pc[d] = "entered"
  BY <1>2 DEF Broadcast, TypeOK, QueueInv
<1>6. QueueInv' /\ ActiveWaiters' = ActiveWaiters
  BY <1>2, <1>5, QueueUntouched DEF queueVars, localVars
<1>7. Accounting'
  BY <1>1, <1>2, <1>6 DEF Accounting, queueVars
<1>8. DestroyInv'
  <2>1. active # 0
    BY <1>2, FiniteSets, FS_EmptySet DEF Accounting
  <2> QED
    BY <1>2, <1>5, <2>1 DEF DestroyInv
<1> QED
  BY <1>1, <1>4, <1>6, <1>7, <1>8

\* Releasing a copy of a lease that was released changes nothing: no leased slot
\* carries its token.
LEMMA ReleaseAgainStep ==
    ASSUME IInv, NEW l \in stale, NEW kept \in BOOLEAN, ReleaseAgain(l, kept)
    PROVE  UNCHANGED vars
<1>1. ~Valid(l)
  BY DEF IInv, LeaseInv, Valid
<1> QED
  BY <1>1 DEF ReleaseAgain, vars, poolVars, queueVars, localVars

\* Closing destroys the idle connections and wakes every waiter.
LEMMA CloseStep ==
    ASSUME IInv, CloseEffect,
           \/ destroyer' = destroyer /\ destroyer # "freed"
           \/ destroyer' = "closing" /\ \A c \in Clients : pc[c] # "entered"
    PROVE  IInv'
<1> USE DEF IInv
<1>1. /\ closed' = 1 /\ connection' = Destroyed(Idle) /\ total' = total - Cardinality(Idle)
      /\ pc' = Broadcast(pc)
      /\ UNCHANGED <<lease_token, in_use, active, queueVars, localVars, next_token, expired,
                     lease, stale>>
  BY DEF CloseEffect
<1>2. /\ connection' \in [Slots -> Connections \cup {NULL}]
      /\ total' \in Nat /\ total' = Cardinality(Present')
      /\ Present' = Present \ Idle
  BY <1>1, DestroyedCount DEF Accounting, Idle
<1>3. LeaseInv'
  <2>1. Idle' = {}
    BY <1>1, <1>2 DEF Idle
  <2> QED
    BY <1>1, <2>1, LeaseAfterDestroy
<1>4. \A d \in Clients : /\ pc'[d] \in {"out", "entered"} <=> pc[d] \in {"out", "entered"}
                         /\ pc'[d] # "out" => lease'[d] = NoLease
                         /\ pc'[d] = "entered" <=> pc[d] = "entered"
  BY <1>1 DEF Broadcast, TypeOK, QueueInv
<1>5. QueueInv' /\ ActiveWaiters' = ActiveWaiters
  BY <1>1, <1>4, QueueUntouched DEF queueVars, localVars
<1>6. Accounting'
  BY <1>1, <1>2, <1>5 DEF Accounting, queueVars
<1>7. TypeOK'
  <2>1. pc' \in [Clients -> {"out", "entered", "blocked", "woken"}]
    BY <1>1 DEF Broadcast, TypeOK
  <2> QED
    BY <1>1, <1>2, <2>1 DEF TypeOK, queueVars, localVars, Leases
<1>8. DestroyInv'
  BY <1>1, <1>4 DEF DestroyInv
<1> QED
  BY <1>3, <1>5, <1>6, <1>7, <1>8

\* The second critical section of destroy frees the pool or gives up.
LEMMA DestroyEndStep ==
    ASSUME IInv, DestroyEnd
    PROVE  IInv'
<1> USE DEF IInv, DestroyEnd, poolVars, queueVars, localVars
<1>1. TypeOK' /\ Accounting'
  BY DEF TypeOK, Leases, Accounting, Present, ActiveWaiters
<1>2. LeaseInv'
  BY DEF LeaseInv, Present, Idle, Holders, Valid, NoLease
<1>3. QueueInv'
  BY DEF QueueInv, ActiveWaiters, NoLease
<1>4. DestroyInv'
  BY DEF DestroyInv
<1> QED
  BY <1>1, <1>2, <1>3, <1>4

\* The invariant is inductive.
LEMMA NextInv == IInv /\ [Next]_vars => IInv'
<1> SUFFICES ASSUME IInv, [Next]_vars PROVE IInv'
  OBVIOUS
<1>1. ASSUME UNCHANGED vars PROVE IInv'
  <2> USE <1>1 DEF vars, poolVars, queueVars, localVars, IInv
  <2>1. TypeOK' /\ Accounting'
    BY DEF TypeOK, Leases, Accounting, Present, ActiveWaiters
  <2>2. LeaseInv'
    BY DEF LeaseInv, Present, Idle, Holders, Valid, NoLease
  <2>3. QueueInv' /\ DestroyInv'
    BY DEF QueueInv, ActiveWaiters, NoLease, DestroyInv
  <2> QED
    BY <2>1, <2>2, <2>3
<1>2. ASSUME NEW c \in Clients, Enter(c) \/ DeadlinePasses(c) \/ WaitReturns(c) PROVE IInv'
  BY <1>2, LocalStep
<1>3. ASSUME NEW c \in Clients, Iterate(c) PROVE IInv'
  BY <1>3, LeaveStep, GrantStep, WaitStep DEF Iterate
<1>4. ASSUME NEW c \in Clients, GiveUpLease(c) PROVE IInv'
  BY <1>4, ReleaseStep DEF GiveUpLease
<1>5. ASSUME NEW l \in stale, NEW kept \in BOOLEAN, ReleaseAgain(l, kept) PROVE IInv'
  BY <1>1, <1>5, ReleaseAgainStep
<1>6. ASSUME Close \/ DestroyBegin PROVE IInv'
  BY <1>6, CloseStep DEF Close, DestroyBegin
<1>7. ASSUME DestroyEnd PROVE IInv'
  BY <1>7, DestroyEndStep
<1> QED
  BY <1>1, <1>2, <1>3, <1>4, <1>5, <1>6, <1>7 DEF Next

\* The inductive invariant holds in every reachable state of the pool.
THEOREM Invariance == Spec => []IInv
BY InitInv, NextInv, PTL DEF Spec

-----------------------------------------------------------------------------
(* The safety properties *)

\* The counters of the pool are natural numbers that never pass below zero and every
\* field keeps its type, whatever acquire, release, close and destroy do.
THEOREM TypeCorrect == Spec => []TypeOK
<1>1. IInv => TypeOK
  BY DEF IInv
<1> QED
  BY <1>1, Invariance, PTL

\* total, active and waiting count the connections, leases and waiters.
THEOREM AccountingHolds == Spec => []Accounting
<1>1. IInv => Accounting
  BY DEF IInv
<1> QED
  BY <1>1, Invariance, PTL

\* A lease is exclusive until its holder releases it.
THEOREM LeasesAreExclusive == Spec => []ExclusiveLease
<1>1. IInv => ExclusiveLease
  <2> SUFFICES ASSUME IInv PROVE ExclusiveLease
    OBVIOUS
  <2>1. \A c \in Holders : Valid(lease[c])
    BY DEF IInv, LeaseInv
  <2>2. ASSUME NEW c \in Holders, NEW d \in Holders, lease[c].connection = lease[d].connection
        PROVE  c = d
    <3>1. /\ lease[c].slot \in Present /\ connection[lease[c].slot] = lease[c].connection
          /\ lease[d].slot \in Present /\ connection[lease[d].slot] = lease[d].connection
      BY <2>1 DEF IInv, LeaseInv, Valid
    <3>2. lease[c].slot = lease[d].slot
      BY <2>2, <3>1 DEF IInv, LeaseInv
    <3> QED
      BY <3>2 DEF IInv, LeaseInv
  <2> QED
    BY <2>1, <2>2 DEF ExclusiveLease
<1> QED
  BY <1>1, Invariance, PTL

\* No leased slot is orphaned and a closed pool keeps no idle connection.
THEOREM NothingIsLeaked == Spec => []NothingLeaks
<1>1. IInv => NothingLeaks
  <2> SUFFICES ASSUME IInv PROVE NothingLeaks
    OBVIOUS
  <2>1. \A c \in Holders : lease[c].slot \in in_use
    BY DEF IInv, LeaseInv, Valid
  <2>2. \A s \in in_use : \E c \in Holders : lease[c].slot = s
    BY DEF IInv, LeaseInv
  <2>3. in_use = {lease[c].slot : c \in Holders}
    BY <2>1, <2>2
  <2> QED
    BY <2>3 DEF NothingLeaks, IInv, LeaseInv
<1> QED
  BY <1>1, Invariance, PTL

\* Freed storage is out of everybody's reach.
THEOREM FreedIsUnreachable == Spec => []FreedIsQuiet
<1>1. IInv => FreedIsQuiet
  <2> SUFFICES ASSUME IInv, destroyer = "freed"
               PROVE  Holders = {} /\ Present = {} /\ \A c \in Clients : pc[c] = "out"
    BY DEF FreedIsQuiet
  <2> USE DEF IInv
  <2>1. closed = 1 /\ active = 0 /\ waiting = 0 /\ \A c \in Clients : pc[c] # "entered"
    BY DEF DestroyInv
  <2>2. in_use = {} /\ ActiveWaiters = {}
    BY <2>1, FiniteSets, FS_EmptySet, Zenon DEF Accounting
  <2>3. Holders = {}
    BY <2>2 DEF LeaseInv, Valid
  <2>4. Present = {}
    BY <2>1, <2>2 DEF LeaseInv, Idle
  <2>5. ASSUME NEW c \in Clients PROVE pc[c] = "out"
    <3>1. waiter_index[c] = 0
      <4> SUFFICES ASSUME waiter_index[c] # 0 PROVE FALSE
        OBVIOUS
      <4>1. waiter_index[c] \in Waiters
        BY DEF TypeOK, Waiters
      <4>2. waiters[waiter_index[c]] # 0
        BY DEF QueueInv
      <4> QED
        BY <2>2, <4>1, <4>2 DEF ActiveWaiters
    <3> QED
      BY <2>1, <3>1 DEF QueueInv
  <2> QED
    BY <2>3, <2>4, <2>5
<1> QED
  BY <1>1, Invariance, PTL

-----------------------------------------------------------------------------
(* Order of grants *)

\* Only the iteration that fills the client's own lease gives it one.
LEMMA OnlyGrantFills ==
    ASSUME IInv, [Next]_vars, NEW c \in Clients, lease[c] = NoLease, lease'[c] # NoLease
    PROVE  \E s \in Slots : \/ AcquireIdle(c, s)
                            \/ \E new \in Connections : AcquireNew(c, s, new)
<1> USE DEF IInv
<1>1. ASSUME NEW d \in Clients, NEW s \in Slots,
             AcquireIdle(d, s) \/ \E new \in Connections : AcquireNew(d, s, new)
      PROVE  d = c
  <2>1. lease' = [lease EXCEPT ![d] = [slot |-> s, connection |-> connection'[s],
                                       token |-> next_token']]
    BY <1>1 DEF AcquireIdle, AcquireNew, FillLease
  <2> QED
    BY <2>1 DEF TypeOK
<1>2. ASSUME UNCHANGED lease PROVE FALSE
  BY <1>2
<1>3. ASSUME NEW d \in Clients, GiveUpLease(d) PROVE FALSE
  BY <1>3 DEF GiveUpLease, Release, TypeOK
<1>4. ASSUME NEW d \in Clients, Enter(d) \/ DeadlinePasses(d) \/ WaitReturns(d) PROVE UNCHANGED lease
  BY <1>4 DEF Enter, DeadlinePasses, WaitReturns
<1>5. ASSUME NEW d \in Clients,
             \/ AcquireStopped(d) \/ AcquireCreateFailed(d) \/ AcquireWaitAgain(d)
             \/ AcquireGiveUp(d) \/ \E w \in Waiters : AcquireQueue(d, w)
      PROVE  UNCHANGED lease
  BY <1>5 DEF AcquireStopped, AcquireCreateFailed, AcquireWaitAgain, AcquireGiveUp, AcquireQueue
<1>6. ASSUME NEW l \in stale, NEW kept \in BOOLEAN, ReleaseAgain(l, kept) PROVE UNCHANGED lease
  BY <1>6 DEF ReleaseAgain
<1>7. ASSUME Close \/ DestroyBegin \/ DestroyEnd PROVE UNCHANGED lease
  BY <1>7 DEF Close, DestroyBegin, DestroyEnd, CloseEffect
<1> QED
  BY <1>1, <1>2, <1>3, <1>4, <1>5, <1>6, <1>7 DEF Next, Iterate, vars

\* Connections are granted in the order of the tickets.
THEOREM GrantsInTicketOrder == Spec => FirstInFirstOut
<1>1. IInv /\ [Next]_vars => GrantInOrder
  <2> SUFFICES ASSUME IInv, [Next]_vars, NEW c \in Clients, lease[c] = NoLease, lease'[c] # NoLease,
                      NEW d \in Clients \ {c}, ticket[d] # 0
               PROVE  ticket[c] # 0 /\ ticket[c] < ticket[d]
    BY DEF GrantInOrder
  <2> USE DEF IInv
  <2>1. Eligible(c)
    BY OnlyGrantFills, Zenon DEF AcquireIdle, AcquireNew
  <2>2. waiter_index[d] \in ActiveWaiters /\ waiters[waiter_index[d]] = ticket[d]
    BY DEF QueueInv, TypeOK, Waiters, ActiveWaiters
  <2>3. waiting # 0
    BY <2>2, FiniteSets, FS_EmptySet DEF Accounting
  <2>4. ticket[c] # 0 /\ ticket[c] <= ticket[d]
    BY <2>1, <2>2, <2>3 DEF Eligible, FirstTicket
  <2>5. waiter_index[c] \in ActiveWaiters /\ waiters[waiter_index[c]] = ticket[c]
    BY <2>4 DEF QueueInv, TypeOK, Waiters, ActiveWaiters
  <2>6. ticket[c] # ticket[d]
    BY <2>2, <2>5 DEF QueueInv
  <2> QED
    BY <2>4, <2>6 DEF TypeOK
<1>2. IInv /\ [Next]_vars => [GrantInOrder]_vars
  BY <1>1
<1> QED
  BY <1>2, Invariance, PTL DEF Spec, FirstInFirstOut

-----------------------------------------------------------------------------
(* The pool implements LeaseSpec *)

\* A borrower holds a connection exactly when its lease is filled.
LEMMA HoldersBorrow ==
    ASSUME IInv, NEW c \in Clients
    PROVE  lease[c].connection = NULL <=> lease[c] = NoLease
<1>1. ASSUME lease[c] # NoLease PROVE lease[c].connection # NULL
  BY <1>1 DEF IInv, LeaseInv, Valid, Holders, Present
<1> QED
  BY <1>1 DEF NoLease

\* While a slot is free of leases, fewer than maximum_size leases are out.
LEMMA RoomForLease ==
    ASSUME IInv, NEW s \in Slots, s \notin in_use
    PROVE  Cardinality(Holders) < MaximumSize
<1> USE DEF IInv
<1>1. IsFiniteSet(in_use) /\ Cardinality(in_use) \in Nat
  BY FiniteSets
<1>2. IsFiniteSet(Slots) /\ Cardinality(Slots) = MaximumSize
  BY FS_Interval, PoolAssumption DEF Slots
<1>3. Cardinality(in_use \cup {s}) = Cardinality(in_use) + 1
  BY <1>1, FS_AddElement
<1>4. Cardinality(in_use \cup {s}) <= Cardinality(Slots)
  <2>1. in_use \cup {s} \in SUBSET Slots
    BY DEF TypeOK
  <2> QED
    BY <1>2, <2>1, FS_Subset
<1>5. Cardinality(Holders) <= Cardinality(in_use)
  <2> DEFINE f == [c \in Holders |-> lease[c].slot]
  <2>1. f \in [Holders -> in_use]
    BY DEF LeaseInv, Valid
  <2>2. \A c, d \in Holders : f[c] = f[d] => c = d
    BY DEF LeaseInv
  <2>3. f \in Injection(Holders, in_use)
    BY <2>1, <2>2 DEF Injection, IsInjective
  <2> HIDE DEF f
  <2> QED
    BY <1>1, <2>3, FS_Injection
<1>6. Cardinality(Holders) \in Nat
  <2>1. Holders \in SUBSET Clients
    BY DEF Holders
  <2> QED
    BY <2>1, PoolAssumption, FS_Subset, FS_CardinalityType
<1> QED
  BY <1>1, <1>2, <1>3, <1>4, <1>5, <1>6, PoolAssumption

\* A filled lease is a Lend step of the abstract pool.
LEMMA GrantLends ==
    ASSUME IInv, IInv', NEW c \in Clients, NEW s \in Slots, lease[c] = NoLease,
           AcquireIdle(c, s) \/ \E new \in Connections : AcquireNew(c, s, new)
    PROVE  \E k \in Connections : Abstract!Lend(c, k)
<1> DEFINE held == [d \in Clients |-> lease[d].connection]
<1>a. TypeOK /\ LeaseInv
  BY DEF IInv
<1>b. TypeOK' /\ LeaseInv'
  BY DEF IInv
<1>0. PICK k \in Connections \cup {NULL} : k = connection'[s]
  BY <1>b DEF TypeOK
<1>1. FillLease(c, s) /\ closed = 0 /\ s \notin in_use
  BY <1>a DEF AcquireIdle, AcquireNew, Idle, IsFirstOf, LeaseInv
<1>2. lease' = [lease EXCEPT ![c] = [slot |-> s, connection |-> k, token |-> next_token']]
  BY <1>0, <1>1 DEF FillLease
<1>3. lease'[c].slot = s /\ lease'[c].connection = k /\ lease'[c].token # 0
  <2>1. next_token' # 0
    BY <1>a, <1>1 DEF FillLease, NextNonzero, TypeOK
  <2>2. c \in DOMAIN lease
    BY <1>a DEF TypeOK
  <2> QED
    BY <1>2, <2>1, <2>2
<1>4. c \in Holders'
  <2>1. NoLease.token = 0
    BY DEF NoLease
  <2>2. lease'[c] # NoLease
    BY <1>3, <2>1
  <2> QED
    BY <2>2 DEF Holders, NoLease
<1>5. k \in Connections
  <2>1. s \in Present'
    BY <1>b, <1>3, <1>4 DEF LeaseInv, Valid
  <2> QED
    BY <1>0, <2>1 DEF Present
<1>6. \A d \in Clients \ {c} : lease'[d] = lease[d]
  BY <1>2, <1>a DEF TypeOK
<1>7. \A d \in Clients : held[d] # NULL <=> d \in Holders
  BY HoldersBorrow DEF Holders
<1>8. Cardinality({d \in Clients : held[d] # NULL}) < MaximumSize
  <2>1. {d \in Clients : held[d] # NULL} = Holders
    BY <1>7, Zenon DEF Holders
  <2> QED
    BY <1>1, <2>1, RoomForLease
<1>9. k \notin {held[d] : d \in {e \in Clients : held[e] # NULL}}
  <2> SUFFICES ASSUME NEW d \in Clients, lease[d].connection # NULL, lease[d].connection = k
               PROVE  FALSE
    BY Zenon
  <2>1. d \in Holders /\ d # c
    BY <1>7 DEF Holders, NoLease
  <2>2. d \in Holders'
    BY <1>6, <2>1 DEF Holders, NoLease
  <2>3. /\ Valid(lease[c])' /\ Valid(lease[d])'
    BY <1>b, <1>4, <2>2 DEF LeaseInv
  <2>4. lease'[c].slot = lease'[d].slot
    <3>1. lease'[c].connection = lease'[d].connection
      BY <1>3, <1>6, <2>1
    <3>2. /\ lease'[c].slot \in Present' /\ connection'[lease'[c].slot] = lease'[c].connection
          /\ lease'[d].slot \in Present' /\ connection'[lease'[d].slot] = lease'[d].connection
      BY <1>b, <2>3 DEF LeaseInv, Valid
    <3>3. \A r, q \in Present' : connection'[r] = connection'[q] => r = q
      BY <1>b DEF LeaseInv
    <3> QED
      BY <3>1, <3>2, <3>3
  <2>5. \A e, g \in Holders' : lease'[e].slot = lease'[g].slot => e = g
    BY <1>b DEF LeaseInv
  <2> QED
    BY <1>4, <2>1, <2>2, <2>4, <2>5
<1>10. [d \in Clients |-> lease'[d].connection] = [held EXCEPT ![c] = k]
  BY <1>3, <1>6, Zenon
<1>11. closed' = closed /\ held[c] = NULL
  <2>1. lease[c].connection = NULL
    BY DEF NoLease
  <2> QED
    BY <1>1, <2>1 DEF FillLease
<1>12. Abstract!Lend(c, k)
  <2>1. closed = 0 /\ UNCHANGED (closed = 0)
    BY <1>1, <1>11
  <2>2. Abstract!Borrowers = {d \in Clients : held[d] # NULL}
    BY DEF Abstract!Borrowers
  <2>3. Abstract!Cardinality(Abstract!Borrowers) < MaximumSize
    BY <1>8, <2>2 DEF Cardinality, Abstract!Cardinality
  <2> QED
    BY <1>9, <1>10, <1>11, <2>1, <2>2, <2>3 DEF Abstract!Lend
<1> QED
  BY <1>5, <1>12

\* Slots, tokens, tickets and counters implement the lending of connections.
THEOREM PoolImplementsLeaseSpec == Spec => ImplementsLeaseSpec
<1> DEFINE held == [c \in Clients |-> lease[c].connection]
<1>1. Init => Abstract!Init
  BY DEF Init, Abstract!Init, NoLease
<1>2. IInv /\ IInv' /\ [Next]_vars => [Abstract!Next]_<<held, closed = 0>>
  <2> SUFFICES ASSUME IInv, IInv', [Next]_vars
               PROVE  Abstract!Next \/ UNCHANGED <<held, closed = 0>>
    OBVIOUS
  <2>1. ASSUME UNCHANGED <<lease, closed>> PROVE UNCHANGED <<held, closed = 0>>
    BY <2>1
  <2>2. ASSUME NEW c \in Clients, NEW s \in Slots,
               AcquireIdle(c, s) \/ \E new \in Connections : AcquireNew(c, s, new)
        PROVE  Abstract!Next
    <3>1. lease[c] = NoLease
      BY <2>2 DEF AcquireIdle, AcquireNew, InLoop, IInv, QueueInv
    <3> QED
      BY <2>2, <3>1, GrantLends DEF Abstract!Next
  <2>3. ASSUME NEW c \in Clients, GiveUpLease(c) PROVE Abstract!Next
    <3>1. /\ lease[c] # NoLease /\ lease' = [lease EXCEPT ![c] = NoLease]
          /\ closed' = closed
      BY <2>3 DEF GiveUpLease, Release
    <3>2. held[c] # NULL
      BY <3>1, HoldersBorrow
    <3>3. [d \in Clients |-> lease'[d].connection] = [held EXCEPT ![c] = NULL]
      BY <3>1 DEF IInv, TypeOK, NoLease
    <3>4. Abstract!GiveBack(c)
      BY <3>1, <3>2, <3>3 DEF Abstract!GiveBack
    <3> QED
      BY <3>4 DEF Abstract!Next
  <2>4. ASSUME CloseEffect PROVE Abstract!Next
    BY <2>4 DEF CloseEffect, Abstract!Next, Abstract!Shut
  <2>5. ASSUME NEW c \in Clients,
               \/ Enter(c) \/ DeadlinePasses(c) \/ WaitReturns(c)
               \/ AcquireStopped(c) \/ AcquireCreateFailed(c) \/ AcquireWaitAgain(c)
               \/ AcquireGiveUp(c) \/ \E w \in Waiters : AcquireQueue(c, w)
        PROVE  UNCHANGED <<lease, closed>>
    BY <2>5 DEF Enter, DeadlinePasses, WaitReturns, AcquireStopped, AcquireCreateFailed,
                AcquireWaitAgain, AcquireGiveUp, AcquireQueue, poolVars
  <2>6. ASSUME NEW l \in stale, NEW kept \in BOOLEAN, ReleaseAgain(l, kept)
        PROVE  UNCHANGED <<lease, closed>>
    BY <2>6 DEF ReleaseAgain
  <2>7. ASSUME DestroyEnd PROVE UNCHANGED <<lease, closed>>
    BY <2>7 DEF DestroyEnd, poolVars
  <2> QED
    BY <2>1, <2>2, <2>3, <2>4, <2>5, <2>6, <2>7
       DEF Next, Iterate, Close, DestroyBegin, vars, poolVars
<1> QED
  BY <1>1, <1>2, Invariance, PTL DEF Spec, ImplementsLeaseSpec, Abstract!Spec
=============================================================================
