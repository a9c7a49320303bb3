----------------------------- MODULE QueryCache -----------------------------
(***************************************************************************)
(* The lazily built snapshot of a materialised query source:               *)
(* src/src/vps_query_cache.c, the build callback vps_table_build_snapshot  *)
(* and the cursor callbacks of src/src/vps_module.c that use it.           *)
(*                                                                         *)
(* A cursor stands for the thread that runs its callbacks.  The cache is   *)
(* touched under cache->mutex only, but the build runs without it, so the  *)
(* steps of a build interleave with everything else.  Each build attempt   *)
(* has a private SQLite database of its own, numbered by the attempt.      *)
(*                                                                         *)
(* Abstracted: rows to their number; predicates, projection, indexes and   *)
(* budgets to a failure that may happen; fingerprints and logging.         *)
(***************************************************************************)
EXTENDS Naturals, FiniteSets

CONSTANTS
    Cursors,      \* cursors of the table, each with the thread using it
    RowCount,     \* rows the remote query returns
    MaxAttempts,  \* bound: build attempts in a behaviour
    Timeouts,     \* whether the timeout of a wait may pass
    Faults        \* whether clocks, waits, builds and scans may fail

ASSUME QueryCacheAssumption ==
    /\ IsFiniteSet(Cursors)
    /\ RowCount \in Nat
    /\ MaxAttempts \in Nat

Databases == 1..MaxAttempts

VARIABLES
    state,           \* cache->state
    published,       \* cache->published, 0 for NULL
    generation,      \* cache->generation
    build_attempts,  \* cache->build_attempts
    executions,      \* cache->remote_executions
    leases,          \* cache->leases
    active_cursors,  \* table->active_cursors
    database,        \* the private databases: open, rows, sealed
    pc,              \* where the callbacks of each cursor are
    lease,           \* cursor->snapshot_lease.database, 0 for none
    scan,            \* whether cursor->snapshot_scan is open
    candidate,       \* the database a builder has not published, 0 for none
    expired,         \* cursors whose wait has timed out
    table            \* what vps_table_cleanup has done

cacheVars == <<state, published, generation, build_attempts, executions>>
vars == <<cacheVars, leases, active_cursors, database, pc, lease, scan,
          candidate, expired, table>>

ClosedDatabase == [open |-> FALSE, rows |-> 0, sealed |-> FALSE]

\* none: not opened; open: between callbacks; failed: xFilter or xNext failed;
\* entered, blocked, woken: in vps_query_cache_wait; building, prepared,
\* fetching, sealed, broken: in the build, with its outcome; discarding: the failed
\* candidate is to be closed; granted: acquire has filled the lease.
Places == {"none", "open", "failed", "entered", "blocked", "woken", "building",
           "prepared", "fetching", "sealed", "broken", "discarding", "granted"}

Init ==
    /\ state = "EMPTY"
    /\ published = 0
    /\ generation = 0
    /\ build_attempts = 0
    /\ executions = 0
    /\ leases = 0
    /\ active_cursors = 0
    /\ database = [d \in Databases |-> ClosedDatabase]
    /\ pc = [c \in Cursors |-> "none"]
    /\ lease = [c \in Cursors |-> 0]
    /\ scan = [c \in Cursors |-> FALSE]
    /\ candidate = [c \in Cursors |-> 0]
    /\ expired = {}
    /\ table = "connected"

Goto(c, place) == pc' = [pc EXCEPT ![c] = place]

\* vps_platform_condition_broadcast
Broadcast(at) == [c \in Cursors |-> IF at[c] = "blocked" THEN "woken" ELSE at[c]]

InWait(c) == pc[c] \in {"entered", "woken"}
Waiting == {c \in Cursors : pc[c] \in {"entered", "blocked", "woken"}}

-----------------------------------------------------------------------------
(* vps_query_cache_wait and vps_query_cache_acquire *)

\* Faulty: the time spent in earlier slices is not counted.
WaitForBuildUntimed(c) ==
    /\ InWait(c)
    /\ state = "BUILDING"
    /\ Goto(c, "blocked")
    /\ UNCHANGED <<cacheVars, leases, active_cursors, database, lease, scan,
                   candidate, expired, table>>

\* Somebody builds: wait for a slice.
WaitForBuild(c) ==
    /\ InWait(c)
    /\ state = "BUILDING"
    /\ c \notin expired
    /\ Goto(c, "blocked")
    /\ UNCHANGED <<cacheVars, leases, active_cursors, database, lease, scan,
                   candidate, expired, table>>

\* The slice is over, or a spurious wakeup.
WaitReturns(c) ==
    /\ pc[c] = "blocked"
    /\ Goto(c, "woken")
    /\ UNCHANGED <<cacheVars, leases, active_cursors, database, lease, scan,
                   candidate, expired, table>>

TimeoutPasses(c) ==
    /\ Timeouts
    /\ c \in Waiting
    /\ expired' = expired \cup {c}
    /\ UNCHANGED <<cacheVars, leases, active_cursors, database, pc, lease, scan,
                   candidate, table>>

\* TIMEOUT while somebody builds, or the clock or the condition wait fails.
WaitStops(c) ==
    /\ InWait(c)
    /\ Faults \/ (c \in expired /\ state = "BUILDING")
    /\ Goto(c, "failed")
    /\ expired' = expired \ {c}
    /\ UNCHANGED <<cacheVars, leases, active_cursors, database, lease, scan,
                   candidate, table>>

\* Faulty: a lease on a published snapshot is not counted.
AcquireReadyUncounted(c) ==
    /\ InWait(c)
    /\ state = "READY"
    /\ lease' = [lease EXCEPT ![c] = published]
    /\ expired' = expired \ {c}
    /\ Goto(c, "granted")
    /\ UNCHANGED <<cacheVars, leases, active_cursors, database, scan, candidate,
                   table>>

\* The snapshot is there.
AcquireReady(c) ==
    /\ InWait(c)
    /\ state = "READY"
    /\ leases' = leases + 1
    /\ lease' = [lease EXCEPT ![c] = published]
    /\ expired' = expired \ {c}
    /\ Goto(c, "granted")
    /\ UNCHANGED <<cacheVars, active_cursors, database, scan, candidate, table>>

\* Faulty: a caller whose wait timed out builds for itself.
AcquireBuildImpatient(c) ==
    /\ InWait(c)
    /\ state = "EMPTY" \/ (state = "BUILDING" /\ c \in expired)
    /\ state' = "BUILDING"
    /\ build_attempts' = build_attempts + 1
    /\ expired' = expired \ {c}
    /\ Goto(c, "building")
    /\ UNCHANGED <<published, generation, executions, leases, active_cursors,
                   database, lease, scan, candidate, table>>

\* Nobody builds: this caller does, and lets go of the mutex.
AcquireBuild(c) ==
    /\ InWait(c)
    /\ state = "EMPTY"
    /\ state' = "BUILDING"
    /\ build_attempts' = build_attempts + 1
    /\ expired' = expired \ {c}
    /\ Goto(c, "building")
    /\ UNCHANGED <<published, generation, executions, leases, active_cursors,
                   database, lease, scan, candidate, table>>

-----------------------------------------------------------------------------
(* The build, without the mutex: vps_table_build_snapshot and seal *)

\* The private database is opened and gets its schema.
BuildOpens(c) ==
    /\ pc[c] = "building"
    /\ candidate' = [candidate EXCEPT ![c] = build_attempts]
    /\ database' = [database EXCEPT ![build_attempts].open = TRUE]
    /\ Goto(c, "prepared")
    /\ UNCHANGED <<cacheVars, leases, active_cursors, lease, scan, expired, table>>

\* A connection is leased, the execution counted and the query sent.
BuildExecutes(c) ==
    /\ pc[c] = "prepared"
    /\ executions' = executions + 1
    /\ Goto(c, "fetching")
    /\ UNCHANGED <<state, published, generation, build_attempts, leases,
                   active_cursors, database, lease, scan, candidate, expired, table>>

\* A row is fetched, decoded and appended.
BuildRow(c) ==
    /\ pc[c] = "fetching"
    /\ database[candidate[c]].rows < RowCount
    /\ database' = [database EXCEPT ![candidate[c]].rows = @ + 1]
    /\ UNCHANGED <<cacheVars, leases, active_cursors, pc, lease, scan, candidate,
                   expired, table>>

\* Any step fails: opening, schema, connection, query, a row, a limit, the seal.
\* The candidate, if it was opened, is left for the caller to close.
BuildFails(c) ==
    /\ pc[c] \in {"building", "prepared", "fetching"}
    /\ Faults
    /\ Goto(c, "broken")
    /\ UNCHANGED <<cacheVars, leases, active_cursors, database, lease, scan,
                   candidate, expired, table>>

\* Faulty: the rows fetched before an error count as the result.
BuildSealsPartial(c) ==
    /\ pc[c] = "fetching"
    /\ database' = [database EXCEPT ![candidate[c]].sealed = TRUE]
    /\ Goto(c, "sealed")
    /\ UNCHANGED <<cacheVars, leases, active_cursors, lease, scan, candidate,
                   expired, table>>

\* The terminal FETCH reports completion and vps_embedded_sqlite_seal succeeds.
BuildSeals(c) ==
    /\ pc[c] = "fetching"
    /\ database[candidate[c]].rows = RowCount
    /\ database' = [database EXCEPT ![candidate[c]].sealed = TRUE]
    /\ Goto(c, "sealed")
    /\ UNCHANGED <<cacheVars, leases, active_cursors, lease, scan, candidate,
                   expired, table>>

\* Faulty: a failed build is not announced.
PublishOrStay(c) ==
    /\ pc[c] \in {"sealed", "broken"}
    /\ IF pc[c] = "sealed"
       THEN /\ state' = "READY"
            /\ published' = candidate[c]
            /\ generation' = generation + 1
            /\ leases' = leases + 1
            /\ lease' = [lease EXCEPT ![c] = candidate[c]]
            /\ candidate' = [candidate EXCEPT ![c] = 0]
            /\ pc' = Broadcast([pc EXCEPT ![c] = "granted"])
       ELSE /\ pc' = Broadcast([pc EXCEPT ![c] = "discarding"])
            /\ UNCHANGED <<state, published, generation, leases, lease, candidate>>
    /\ UNCHANGED <<build_attempts, executions, active_cursors, database, scan,
                   expired, table>>

\* The builder takes the mutex again and publishes, or makes the cache empty.
Publish(c) ==
    /\ pc[c] \in {"sealed", "broken"}
    /\ IF pc[c] = "sealed"
       THEN /\ state' = "READY"
            /\ published' = candidate[c]
            /\ generation' = generation + 1
            /\ leases' = leases + 1
            /\ lease' = [lease EXCEPT ![c] = candidate[c]]
            /\ candidate' = [candidate EXCEPT ![c] = 0]
            /\ pc' = Broadcast([pc EXCEPT ![c] = "granted"])
       ELSE /\ state' = "EMPTY"
            /\ pc' = Broadcast([pc EXCEPT ![c] = "discarding"])
            /\ UNCHANGED <<published, generation, leases, lease, candidate>>
    /\ UNCHANGED <<build_attempts, executions, active_cursors, database, scan,
                   expired, table>>

\* Faulty: the failed candidate is forgotten.
DiscardNot(c) ==
    /\ pc[c] = "discarding"
    /\ candidate' = [candidate EXCEPT ![c] = 0]
    /\ Goto(c, "failed")
    /\ UNCHANGED <<cacheVars, leases, active_cursors, database, lease, scan,
                   expired, table>>

\* The failed candidate, if any, is closed after the mutex was given up.
Discard(c) ==
    /\ pc[c] = "discarding"
    /\ database' = [d \in Databases |->
                       IF d = candidate[c] THEN ClosedDatabase ELSE database[d]]
    /\ candidate' = [candidate EXCEPT ![c] = 0]
    /\ Goto(c, "failed")
    /\ UNCHANGED <<cacheVars, leases, active_cursors, lease, scan, expired, table>>

-----------------------------------------------------------------------------
(* The cursor callbacks *)

\* vps_module_open
Open(c) ==
    /\ pc[c] = "none"
    /\ table = "connected"
    /\ active_cursors' = active_cursors + 1
    /\ Goto(c, "open")
    /\ UNCHANGED <<cacheVars, leases, database, lease, scan, candidate, expired, table>>

\* Faulty: the last reader takes the snapshot down, so that the next one refreshes it.
LeaseReleaseRefreshing(c, at) ==
    LET last == lease[c] # 0 /\ leases = 1
    IN /\ leases' = IF lease[c] # 0 THEN leases - 1 ELSE leases
       /\ lease' = [lease EXCEPT ![c] = 0]
       /\ pc' = IF lease[c] # 0 THEN Broadcast(at) ELSE at
       /\ state' = IF last THEN "EMPTY" ELSE state
       /\ published' = IF last THEN 0 ELSE published
       /\ database' = [d \in Databases |-> IF last /\ d = published THEN ClosedDatabase
                                                                  ELSE database[d]]
       /\ UNCHANGED generation

\* vps_query_cache_lease_release, called when the lease has an owner.
LeaseRelease(c, at) ==
    /\ leases' = IF lease[c] # 0 THEN leases - 1 ELSE leases
    /\ lease' = [lease EXCEPT ![c] = 0]
    /\ pc' = IF lease[c] # 0 THEN Broadcast(at) ELSE at
    /\ UNCHANGED <<state, published, generation, database>>

\* vps_cursor_release: the scan is finalised, then its lease released.
CursorRelease(c, at) ==
    /\ scan' = [scan EXCEPT ![c] = FALSE]
    /\ LeaseRelease(c, at)

\* vps_module_filter drops what an earlier scan held; then the plan is rejected, or
\* vps_snapshot_filter calls acquire.  Each caller may have to build.
Filter(c) ==
    /\ pc[c] = "open"
    /\ build_attempts + Cardinality(Waiting) < MaxAttempts
    /\ \E place \in {"entered", "failed"} : CursorRelease(c, [pc EXCEPT ![c] = place])
    /\ UNCHANGED <<build_attempts, executions, active_cursors, candidate, expired,
                   table>>

\* The rest of vps_snapshot_filter: vps_embedded_sqlite_scan_open and the first
\* vps_snapshot_advance.  A failure keeps the lease for xClose.
ScanOpen(c) ==
    /\ pc[c] = "granted"
    /\ \/ /\ Goto(c, "open")
          /\ scan' = [scan EXCEPT ![c] = TRUE]
       \/ /\ Faults
          /\ Goto(c, "failed")
          /\ scan' \in {scan, [scan EXCEPT ![c] = TRUE]}
    /\ UNCHANGED <<cacheVars, leases, active_cursors, database, lease, candidate,
                   expired, table>>

\* vps_module_close
Close(c) ==
    /\ pc[c] \in {"open", "failed"}
    /\ CursorRelease(c, [pc EXCEPT ![c] = "none"])
    /\ active_cursors' = active_cursors - 1
    /\ UNCHANGED <<build_attempts, executions, candidate, expired, table>>

\* vps_table_cleanup refuses while cursors are open; otherwise it calls
\* vps_query_cache_destroy and frees the table, even when the cache is busy.
Cleanup ==
    /\ table = "connected"
    /\ active_cursors = 0
    /\ IF state = "BUILDING" \/ leases # 0
       THEN table' = "leaked" /\ UNCHANGED <<state, published, database>>
       ELSE /\ table' = "freed"
            /\ state' = "CLOSING"
            /\ published' = 0
            /\ database' = [d \in Databases |->
                               IF d = published THEN ClosedDatabase ELSE database[d]]
    /\ UNCHANGED <<generation, build_attempts, executions, leases, active_cursors,
                   pc, lease, scan, candidate, expired>>

-----------------------------------------------------------------------------

Wait(c) == WaitForBuild(c) \/ WaitStops(c) \/ AcquireReady(c) \/ AcquireBuild(c)

Build(c) ==
    \/ BuildOpens(c) \/ BuildExecutes(c) \/ BuildRow(c) \/ BuildFails(c)
    \/ BuildSeals(c) \/ Publish(c) \/ Discard(c)

Next ==
    \/ \E c \in Cursors : \/ Open(c) \/ Filter(c) \/ ScanOpen(c) \/ Close(c)
                         \/ Wait(c) \/ WaitReturns(c) \/ TimeoutPasses(c) \/ Build(c)
    \/ Cleanup

Spec == Init /\ [][Next]_vars

\* A waiting thread gets the mutex and its slice ends.
FairSpec == Spec /\ \A c \in Cursors : WF_vars(Wait(c)) /\ WF_vars(WaitReturns(c))

-----------------------------------------------------------------------------
(* Properties *)

\* Types of the cache, of its databases and of the cursors; no reference count is
\* ever taken below zero (vps_query_cache_lease_release, vps_module_close).
TypeOK ==
    /\ state \in {"EMPTY", "BUILDING", "READY", "CLOSING"}
    /\ published \in 0..MaxAttempts
    /\ generation \in Nat
    /\ build_attempts \in 0..MaxAttempts
    /\ executions \in 0..MaxAttempts
    /\ leases \in Nat
    /\ active_cursors \in Nat
    /\ database \in [Databases -> [open : BOOLEAN, rows : 0..RowCount, sealed : BOOLEAN]]
    /\ pc \in [Cursors -> Places]
    /\ lease \in [Cursors -> 0..MaxAttempts]
    /\ scan \in [Cursors -> BOOLEAN]
    /\ candidate \in [Cursors -> 0..MaxAttempts]
    /\ expired \subseteq Cursors
    /\ table \in {"connected", "freed", "leaked"}

Builders == {c \in Cursors : pc[c] \in {"building", "prepared", "fetching", "sealed", "broken"}}

\* The mutex is not held during a build, yet there is one builder at a time, and the
\* cache is BUILDING exactly while it is at work: no caller builds beside another
\* and no failure leaves the cache BUILDING for ever (vps_query_cache_acquire).
OneBuilder == Cardinality(Builders) = IF state = "BUILDING" THEN 1 ELSE 0

\* "The candidate becomes visible only after the terminal remote result, all limit
\* checks, local index construction, and private commit": what readers can lease is
\* an open, sealed database with every row, and only in state READY.
PublishedIsComplete ==
    /\ state = "READY" <=> published # 0
    /\ published # 0 => database[published] =
                            [open |-> TRUE, rows |-> RowCount, sealed |-> TRUE]

\* The count that vps_query_cache_destroy looks at is the number of cursors that
\* hold a lease, each on the published snapshot, and nobody scans without one.
LeasesCounted ==
    /\ leases = Cardinality({c \in Cursors : lease[c] # 0})
    /\ \A c \in Cursors : lease[c] # 0 => lease[c] = published
    /\ \A c \in Cursors : scan[c] => lease[c] # 0

\* Every private database that is open is the published one or a candidate somebody
\* will close, and vps_table_cleanup, which frees the table even when the cache
\* answers BUSY, never meets a busy cache: no open cursor means no lease and no
\* build.
NothingLeaks ==
    /\ {d \in Databases : database[d].open} =
           ({published} \cup {candidate[c] : c \in Cursors}) \ {0}
    /\ table # "leaked"

\* "A published generation is immutable and has no TTL, automatic refresh": until
\* the table is cleaned up the snapshot stays as it is and the remote query is not
\* executed again, whatever cursors come and go.
SnapshotIsFinal ==
    [][published # 0 /\ table' = "connected" =>
           /\ published' = published
           /\ generation' = generation
           /\ database'[published] = database[published]
           /\ executions' = executions]_vars

\* Where its timeout passes, a caller that waits for somebody else's build stops
\* waiting, even if that build never ends (vps_query_cache_wait).
WaitEnds ==
    (\A c \in Cursors : WF_vars(TimeoutPasses(c))) =>
        \A c \in Cursors : c \in Waiting ~> c \notin Waiting

InAcquire(c) == c \in Waiting \/ c \in Builders \/ pc[c] = "discarding"

\* Where builds go on (each of their remote steps has a deadline), acquire returns
\* although builds fail one after the other, with or without timeouts: a failed
\* build hands the cache to a waiting caller.
AcquireReturns ==
    (\A c \in Cursors : WF_vars(Build(c))) =>
        \A c \in Cursors : InAcquire(c) ~> ~InAcquire(c)
=============================================================================
