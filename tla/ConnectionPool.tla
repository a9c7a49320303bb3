--------------------------- MODULE ConnectionPool ---------------------------
(***************************************************************************)
(* The per-table connection pool of src/src/vps_connection_pool.c.         *)
(*                                                                         *)
(* A client is one VpsConnectionLease structure together with the thread   *)
(* that fills and releases it.  Every public function of the pool runs     *)
(* under pool->mutex, which only the condition wait gives up, so one       *)
(* iteration of the loop of vps_connection_pool_acquire is one step: the   *)
(* callbacks (create, validate, reset, destroy) run with the mutex held.   *)
(*                                                                         *)
(* Abstracted: the key comparison, argument checks and every other return  *)
(* that changes nothing; last_used_ms, which only decides whether validate *)
(* is called (its answer is a choice here); logging and statistics.        *)
(* Connections are the addresses the allocator may hand out, so the        *)
(* address of a destroyed connection can come back for a new one.          *)
(***************************************************************************)
EXTENDS Naturals, FiniteSets

CONSTANTS
    Clients,         \* lease structures, each with the thread using it
    Connections,     \* addresses of connection objects
    NULL,            \* no connection
    MinimumSize,     \* config->minimum_size
    MaximumSize,     \* pool->maximum_size
    MaximumWaiters,  \* pool->maximum_waiters
    MaxSerial,       \* bound: no new acquire once a ticket or token reaches it
    Timeouts,        \* whether the deadline of an acquire may pass
    Faults           \* whether probes, clocks, create and reset may fail

ASSUME PoolAssumption ==
    /\ MaximumSize \in Nat \ {0}
    /\ MinimumSize \in 0..MaximumSize
    /\ MaximumWaiters \in Nat \ {0}
    /\ NULL \notin Connections
    /\ MaxSerial \in Nat
    /\ IsFiniteSet(Clients)

Slots == 1..MaximumSize
Waiters == 1..MaximumWaiters

VARIABLES
    connection,    \* slot -> the connection it holds, or NULL
    lease_token,   \* slot -> token of the lease on it, 0 when not leased
    in_use,        \* the slots that are leased
    total,         \* pool->total
    active,        \* pool->active
    waiters,       \* waiter entry -> its ticket, 0 when inactive
    waiting,       \* pool->waiting
    next_ticket,   \* last ticket handed out
    next_token,    \* last lease token handed out
    closed,        \* pool->closed
    pc,            \* where each client is in vps_connection_pool_acquire
    waiter_index,  \* the client's waiter entry, 0 for UINT32_MAX
    ticket,        \* the client's ticket, 0 before it queues
    expired,       \* the clients whose deadline has passed
    lease,         \* the client's lease structure
    stale,         \* copies of leases that were released
    destroyer      \* progress of vps_connection_pool_destroy

poolVars == <<connection, lease_token, in_use, total, active, closed>>
queueVars == <<waiters, waiting, next_ticket>>
localVars == <<waiter_index, ticket>>
vars == <<poolVars, queueVars, localVars, next_token, pc, expired, lease,
          stale, destroyer>>

\* The cleared lease structure: pool NULL, connection NULL, token 0.
NoLease == [slot |-> 0, connection |-> NULL, token |-> 0]

Leases == [slot : 0..MaximumSize,
           connection : Connections \cup {NULL},
           token : Nat]

\* Types of the pool, of the locals of vps_connection_pool_acquire and of leases;
\* no counter is ever taken below zero.
TypeOK ==
    /\ connection \in [Slots -> Connections \cup {NULL}]
    /\ lease_token \in [Slots -> Nat]
    /\ in_use \subseteq Slots
    /\ total \in Nat
    /\ active \in Nat
    /\ waiters \in [Waiters -> Nat]
    /\ waiting \in Nat
    /\ next_ticket \in Nat
    /\ next_token \in Nat
    /\ closed \in {0, 1}
    /\ pc \in [Clients -> {"out", "entered", "blocked", "woken"}]
    /\ waiter_index \in [Clients -> 0..MaximumWaiters]
    /\ ticket \in [Clients -> Nat]
    /\ expired \subseteq Clients
    /\ lease \in [Clients -> Leases]
    /\ stale \subseteq Leases
    /\ destroyer \in {"none", "closing", "freed"}

\* vps_connection_pool_create: minimum_size calls of vps_pool_create_slot fill
\* the first slots with connections that are all live at once.
Init ==
    /\ connection \in [Slots -> Connections \cup {NULL}]
    /\ \A s \in Slots : connection[s] # NULL <=> s <= MinimumSize
    /\ \A r, s \in 1..MinimumSize : connection[r] = connection[s] => r = s
    /\ lease_token = [s \in Slots |-> 0]
    /\ in_use = {}
    /\ total = MinimumSize
    /\ active = 0
    /\ waiters = [w \in Waiters |-> 0]
    /\ waiting = 0
    /\ next_ticket = 0
    /\ next_token = 0
    /\ closed = 0
    /\ pc = [c \in Clients |-> "out"]
    /\ waiter_index = [c \in Clients |-> 0]
    /\ ticket = [c \in Clients |-> 0]
    /\ expired = {}
    /\ lease = [c \in Clients |-> NoLease]
    /\ stale = {}
    /\ destroyer = "none"

-----------------------------------------------------------------------------
(* Helpers of the pool *)

Present == {s \in Slots : connection[s] # NULL}
Idle == Present \ in_use
ActiveWaiters == {w \in Waiters : waiters[w] # 0}

\* The lowest element of a set of indices, as every scan of the arrays finds.
IsFirstOf(i, S) == i \in S /\ \A j \in S : i <= j

\* vps_pool_next_nonzero.  MaxSerial stays below the 64-bit wrap.
NextNonzero(value) == value + 1

\* vps_platform_condition_broadcast: every blocked thread may run again.
Broadcast(at) == [c \in Clients |-> IF at[c] = "blocked" THEN "woken" ELSE at[c]]

\* vps_pool_destroy_slot applied to every slot of D.
Destroyed(D) == [s \in Slots |-> IF s \in D THEN NULL ELSE connection[s]]

\* vps_pool_waiter_remove for the entry of client c; idempotent.
WaiterRemove(c) ==
    /\ waiters' = [w \in Waiters |-> IF w = waiter_index[c] THEN 0 ELSE waiters[w]]
    /\ waiting' = IF waiter_index[c] \in ActiveWaiters THEN waiting - 1 ELSE waiting

\* The locals of acquire die with the call.
Return(c) ==
    /\ waiter_index' = [waiter_index EXCEPT ![c] = 0]
    /\ ticket' = [ticket EXCEPT ![c] = 0]
    /\ expired' = expired \ {c}

\* The thread holds the mutex at the top of the acquire loop.
InLoop(c) == pc[c] \in {"entered", "woken"} /\ destroyer # "freed"

\* ticket == vps_pool_first_ticket(pool)
FirstTicket(c) == \A w \in ActiveWaiters : ticket[c] <= waiters[w]

\* Faulty: a newcomer does not look at the queue.
EligibleBarging(c) == ticket[c] = 0 \/ FirstTicket(c)

\* The queue lets this client try for a connection.
Eligible(c) ==
    \/ ticket[c] = 0 /\ waiting = 0
    \/ ticket[c] # 0 /\ FirstTicket(c)

\* vps_pool_take_available answers BUSY: no idle slot and no room for one.
Exhausted == Idle = {} /\ total >= MaximumSize

-----------------------------------------------------------------------------
(* vps_connection_pool_acquire *)

Enter(c) ==
    /\ pc[c] = "out"
    /\ lease[c] = NoLease
    /\ destroyer = "none"
    /\ next_ticket < MaxSerial
    /\ next_token < MaxSerial
    /\ pc' = [pc EXCEPT ![c] = "entered"]
    /\ UNCHANGED <<poolVars, queueVars, localVars, next_token, expired, lease,
                   stale, destroyer>>

DeadlinePasses(c) ==
    /\ Timeouts
    /\ pc[c] # "out"
    /\ expired' = expired \cup {c}
    /\ UNCHANGED <<poolVars, queueVars, localVars, next_token, pc, lease, stale,
                   destroyer>>

\* Faulty: the wait has no slice, only a broadcast ends it.
WaitReturnsOnBroadcastOnly(c) == FALSE /\ pc[c] = "blocked" /\ UNCHANGED vars

\* The wait returns after its slice, or spuriously.
WaitReturns(c) ==
    /\ pc[c] = "blocked"
    /\ pc' = [pc EXCEPT ![c] = "woken"]
    /\ UNCHANGED <<poolVars, queueVars, localVars, next_token, expired, lease,
                   stale, destroyer>>

\* The pool is closed, or the interrupt probe, the clock or the condition
\* variable stopped the call.
AcquireStopped(c) ==
    /\ InLoop(c)
    /\ closed = 1 \/ Faults
    /\ WaiterRemove(c)
    /\ Return(c)
    /\ pc' = [pc EXCEPT ![c] = "out"]
    /\ UNCHANGED <<poolVars, next_ticket, next_token, lease, stale, destroyer>>

\* vps_pool_fill_lease on slot s, then the broadcast.
FillLease(c, s) ==
    /\ in_use' = in_use \cup {s}
    /\ next_token' = NextNonzero(next_token)
    /\ lease_token' = [lease_token EXCEPT ![s] = next_token']
    /\ active' = active + 1
    /\ lease' = [lease EXCEPT ![c] = [slot |-> s,
                                      connection |-> connection'[s],
                                      token |-> next_token']]
    /\ WaiterRemove(c)
    /\ Return(c)
    /\ pc' = Broadcast([pc EXCEPT ![c] = "out"])
    /\ UNCHANGED <<next_ticket, closed, stale, destroyer>>

\* An idle slot passes validation; the idle slots scanned before it failed
\* theirs and were destroyed.
AcquireIdle(c, s) ==
    LET failed == {d \in Idle : d < s}
    IN /\ InLoop(c)
       /\ closed = 0
       /\ Eligible(c)
       /\ s \in Idle
       /\ connection' = Destroyed(failed)
       /\ total' = total - Cardinality(failed)
       /\ FillLease(c, s)

\* Faulty: pool->closed is read before the loop, not in every iteration.
AcquireNewAfterClose(c, s, new) ==
    /\ InLoop(c)
    /\ closed = 0 \/ pc[c] = "woken"
    /\ Eligible(c)
    /\ total - Cardinality(Idle) < MaximumSize
    /\ IsFirstOf(s, Slots \ (Present \ Idle))
    /\ new \notin {connection[p] : p \in Present \ Idle}
    /\ connection' = [Destroyed(Idle) EXCEPT ![s] = new]
    /\ total' = total - Cardinality(Idle) + 1
    /\ FillLease(c, s)

\* No idle slot passes validation and vps_pool_create_slot makes a connection.
AcquireNew(c, s, new) ==
    /\ InLoop(c)
    /\ closed = 0
    /\ Eligible(c)
    /\ total - Cardinality(Idle) < MaximumSize
    /\ IsFirstOf(s, Slots \ (Present \ Idle))
    /\ new \notin {connection[p] : p \in Present \ Idle}
    /\ connection' = [Destroyed(Idle) EXCEPT ![s] = new]
    /\ total' = total - Cardinality(Idle) + 1
    /\ FillLease(c, s)

\* The create callback fails: the call ends without a broadcast.
AcquireCreateFailed(c) ==
    /\ InLoop(c)
    /\ closed = 0
    /\ Faults
    /\ Eligible(c)
    /\ total - Cardinality(Idle) < MaximumSize
    /\ connection' = Destroyed(Idle)
    /\ total' = total - Cardinality(Idle)
    /\ WaiterRemove(c)
    /\ Return(c)
    /\ pc' = [pc EXCEPT ![c] = "out"]
    /\ UNCHANGED <<lease_token, in_use, active, closed, next_ticket, next_token,
                   lease, stale, destroyer>>

\* The client has to wait: it is not its turn or there is nothing to take.
MustWait(c) ==
    /\ InLoop(c)
    /\ closed = 0
    /\ ~Eligible(c) \/ Exhausted

\* First wait of this call: vps_pool_waiter_add, then the condition wait.
AcquireQueue(c, w) ==
    /\ MustWait(c)
    /\ ticket[c] = 0
    /\ c \notin expired
    /\ IsFirstOf(w, Waiters \ ActiveWaiters)
    /\ next_ticket' = NextNonzero(next_ticket)
    /\ waiters' = [waiters EXCEPT ![w] = next_ticket']
    /\ waiting' = waiting + 1
    /\ waiter_index' = [waiter_index EXCEPT ![c] = w]
    /\ ticket' = [ticket EXCEPT ![c] = next_ticket']
    /\ pc' = [pc EXCEPT ![c] = "blocked"]
    /\ UNCHANGED <<poolVars, next_token, expired, lease, stale, destroyer>>

\* Faulty: the deadline is looked at before queueing only.
AcquireWaitAgainUntimed(c) ==
    /\ MustWait(c)
    /\ ticket[c] # 0
    /\ pc' = [pc EXCEPT ![c] = "blocked"]
    /\ UNCHANGED <<poolVars, queueVars, localVars, next_token, expired, lease,
                   stale, destroyer>>

\* A queued client waits for another slice.
AcquireWaitAgain(c) ==
    /\ MustWait(c)
    /\ ticket[c] # 0
    /\ c \notin expired
    /\ pc' = [pc EXCEPT ![c] = "blocked"]
    /\ UNCHANGED <<poolVars, queueVars, localVars, next_token, expired, lease,
                   stale, destroyer>>

\* The client stops instead of waiting: the waiter table is full or the deadline
\* has passed (BUSY), or the deadline cannot be computed.  Unless the table was
\* full, a client that had no ticket has drawn one.
AcquireGiveUp(c) ==
    LET full == ticket[c] = 0 /\ ActiveWaiters = Waiters
    IN /\ MustWait(c)
       /\ full \/ c \in expired \/ Faults
       /\ next_ticket' = IF ticket[c] = 0 /\ ~full THEN NextNonzero(next_ticket)
                                                   ELSE next_ticket
       /\ WaiterRemove(c)
       /\ Return(c)
       /\ pc' = [pc EXCEPT ![c] = "out"]
       /\ UNCHANGED <<poolVars, next_token, lease, stale, destroyer>>

-----------------------------------------------------------------------------
(* vps_connection_lease_release *)

\* Faulty: the token is not compared.
ValidWithoutToken(l) ==
    /\ l.slot \in in_use
    /\ connection[l.slot] = l.connection

\* The lease names a leased slot, its connection and its token.
Valid(l) ==
    /\ l.slot \in in_use
    /\ connection[l.slot] = l.connection
    /\ lease_token[l.slot] = l.token

\* Faulty: a connection returned to a closed pool is kept.
GiveBackToClosed(l, kept) ==
    /\ in_use' = in_use \ {l.slot}
    /\ lease_token' = [lease_token EXCEPT ![l.slot] = 0]
    /\ active' = active - 1
    /\ connection' = IF kept THEN connection ELSE Destroyed({l.slot})
    /\ total' = IF kept THEN total ELSE total - 1
    /\ pc' = Broadcast(pc)

\* Faulty: a destroyed connection stays in the count.
GiveBackUncounted(l, kept) ==
    /\ closed = 1 => ~kept
    /\ in_use' = in_use \ {l.slot}
    /\ lease_token' = [lease_token EXCEPT ![l.slot] = 0]
    /\ active' = active - 1
    /\ connection' = IF kept THEN connection ELSE Destroyed({l.slot})
    /\ total' = total
    /\ pc' = Broadcast(pc)

\* The slot of a valid lease is given back: kept when the pool is open, the
\* disposition is CLEAN and the reset and the clock succeed, else destroyed.
GiveBack(l, kept) ==
    /\ closed = 1 => ~kept
    /\ in_use' = in_use \ {l.slot}
    /\ lease_token' = [lease_token EXCEPT ![l.slot] = 0]
    /\ active' = active - 1
    /\ connection' = IF kept THEN connection ELSE Destroyed({l.slot})
    /\ total' = IF kept THEN total ELSE total - 1
    /\ pc' = Broadcast(pc)

Release(c, kept) ==
    /\ pc[c] = "out"
    /\ lease[c] # NoLease
    /\ Valid(lease[c])
    /\ GiveBack(lease[c], kept)
    /\ lease' = [lease EXCEPT ![c] = NoLease]
    /\ stale' = stale \cup {lease[c]}
    /\ UNCHANGED <<queueVars, localVars, next_token, closed, expired, destroyer>>

\* A copy of a released lease is released again.
ReleaseAgain(l, kept) ==
    /\ l \in stale
    /\ destroyer # "freed"
    /\ \/ /\ Valid(l)
          /\ GiveBack(l, kept)
       \/ /\ ~Valid(l)
          /\ UNCHANGED <<in_use, lease_token, active, connection, total, pc>>
    /\ UNCHANGED <<queueVars, localVars, next_token, closed, expired, lease,
                   stale, destroyer>>

-----------------------------------------------------------------------------
(* vps_connection_pool_close and vps_connection_pool_destroy *)

CloseEffect ==
    /\ closed' = 1
    /\ connection' = Destroyed(Idle)
    /\ total' = total - Cardinality(Idle)
    /\ pc' = Broadcast(pc)
    /\ UNCHANGED <<lease_token, in_use, active, queueVars, localVars, next_token,
                   expired, lease, stale>>

Close ==
    /\ destroyer # "freed"
    /\ CloseEffect
    /\ UNCHANGED destroyer

\* destroy closes the pool in a critical section of its own.  "Caller must
\* prevent new entries": nobody is between the call and its first lock.
DestroyBegin ==
    /\ destroyer = "none"
    /\ \A c \in Clients : pc[c] # "entered"
    /\ CloseEffect
    /\ destroyer' = "closing"

\* Faulty: only leases keep the storage alive.
DestroyEndIgnoringWaiters ==
    /\ destroyer = "closing"
    /\ destroyer' = IF active # 0 THEN "none" ELSE "freed"
    /\ UNCHANGED <<poolVars, queueVars, localVars, next_token, pc, expired, lease,
                   stale>>

\* Second critical section: BUSY while leases or waiters remain, else free.
DestroyEnd ==
    /\ destroyer = "closing"
    /\ destroyer' = IF active # 0 \/ waiting # 0 THEN "none" ELSE "freed"
    /\ UNCHANGED <<poolVars, queueVars, localVars, next_token, pc, expired, lease,
                   stale>>

-----------------------------------------------------------------------------

\* One iteration of the acquire loop of client c.
Iterate(c) ==
    \/ AcquireStopped(c)
    \/ \E s \in Slots : AcquireIdle(c, s)
    \/ \E s \in Slots, new \in Connections : AcquireNew(c, s, new)
    \/ AcquireCreateFailed(c)
    \/ \E w \in Waiters : AcquireQueue(c, w)
    \/ AcquireWaitAgain(c)
    \/ AcquireGiveUp(c)

GiveUpLease(c) == \E kept \in BOOLEAN : Release(c, kept)

Next ==
    \/ \E c \in Clients : Enter(c)
    \/ \E c \in Clients : DeadlinePasses(c)
    \/ \E c \in Clients : WaitReturns(c)
    \/ \E c \in Clients : Iterate(c)
    \/ \E c \in Clients : GiveUpLease(c)
    \/ \E l \in stale, kept \in BOOLEAN : ReleaseAgain(l, kept)
    \/ Close
    \/ DestroyBegin
    \/ DestroyEnd

Spec == Init /\ [][Next]_vars

\* A thread that can run its loop iteration does (the platform mutex starves
\* nobody) and a condition wait ends after its slice.
LoopFairness == \A c \in Clients : WF_vars(Iterate(c)) /\ WF_vars(WaitReturns(c))

FairSpec == Spec /\ LoopFairness

-----------------------------------------------------------------------------
(* Properties *)

Holders == {c \in Clients : lease[c] # NoLease}

\* The counters that admission and destruction decide on count what they name:
\* total the connections, active the leased slots, waiting the registered waiters
\* (vps_pool_take_available, vps_connection_pool_destroy).
Accounting ==
    /\ total = Cardinality(Present)
    /\ active = Cardinality(in_use)
    /\ waiting = Cardinality(ActiveWaiters)

\* "A lease exclusively borrows connection until exactly one successful release"
\* (vps_connection_pool.h): a held lease still names its slot, connection and
\* token, whatever stale copies are released meanwhile, and no two held leases
\* share a connection.
ExclusiveLease ==
    /\ \A c \in Holders : Valid(lease[c])
    /\ \A c, d \in Holders : c # d => lease[c].connection # lease[d].connection

\* Every leased slot belongs to a lease somebody holds, and a closed pool keeps no
\* idle connection, so the last release of a closed pool leaves no connection.
NothingLeaks ==
    /\ in_use = {lease[c].slot : c \in Holders}
    /\ closed = 1 => Idle = {}

\* destroy frees the storage only when no lease, no connection and no thread
\* inside acquire can touch it any more.
FreedIsQuiet ==
    destroyer = "freed" => /\ Holders = {}
                           /\ Present = {}
                           /\ \A c \in Clients : pc[c] = "out"

\* Connections are granted in ticket order: a grant never overtakes a client that
\* is queued with an earlier ticket, nor does a newcomer overtake the queue.
GrantInOrder ==
    \A c \in Clients :
        lease[c] = NoLease /\ lease'[c] # NoLease =>
            \A d \in Clients \ {c} :
                ticket[d] # 0 => ticket[c] # 0 /\ ticket[c] < ticket[d]

FirstInFirstOut == [][GrantInOrder]_vars

\* Where borrowers give their leases back, a queued client leaves the queue, with or
\* without a deadline, although clients that leave it because of a fault wake
\* nobody: the wait slice makes up for the missing broadcast.
QueueDrains ==
    (\A c \in Clients : WF_vars(GiveUpLease(c))) =>
        \A c \in Clients : ticket[c] # 0 ~> ticket[c] = 0

\* Where time passes, acquire returns by its deadline although no borrower ever
\* gives a lease back.
AcquireReturns ==
    (\A c \in Clients : WF_vars(DeadlinePasses(c))) =>
        \A c \in Clients : pc[c] # "out" ~> pc[c] = "out"

\* What the pool promises its borrowers: see LeaseSpec.
Abstract == INSTANCE LeaseSpec WITH
    Capacity <- MaximumSize,
    held <- [c \in Clients |-> lease[c].connection],
    open <- closed = 0

\* The slots, counters, tickets and tokens implement the plain lending of
\* connections that LeaseSpec describes.
ImplementsLeaseSpec == Abstract!Spec
=============================================================================
