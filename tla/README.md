# A verification project for VirtualPostgreSQL

VirtualPostgreSQL is a loadable SQLite extension: a virtual table stands for a
PostgreSQL relation or query, and reads, writes, transactions and savepoints of
the SQLite application become commands on PostgreSQL connections. This directory
holds TLA+ models of its layers, from SQLite's callbacks down to libpq's wire, the
TLC runs that check them on small instances, and machine-checked proofs about the
connection pool, the query snapshot cache, the transaction and scan callbacks, and the
life cycle of tables.

`PROJECT.json` lists the components, the source lines behind each definition, the
runs, one faulty variant of the code per checked property, the hazards, the
findings and the theorems.

## 1. The system and its parts

```
 SQLite application
      |  xCreate xConnect xBestIndex   xOpen xFilter xNext xClose   xUpdate   xBegin xSync xCommit ...
 vps_module.c  (callbacks; one module context per sqlite3*)
      |            |                |                 |                |
 planner,      transaction     cursor machine,   query snapshot    metadata cache,
 DML plans,    coordinator     cancel registry   cache (per table) shadow tables
 identities        |                |                 |                |
      \------------+-- connection pool (per table) ---+----------------/
                       |
             generic client (vps_client.c): connection and statement machines
                       |
             libpq adapter (vps_libpq_client*.c)  ----  PostgreSQL server
```

| Part | Source | State it keeps | Here |
|---|---|---|---|
| connection pool | `vps_connection_pool.c` | slots, leases, waiter queue | modelled, proved |
| transaction coordinator | `vps_transaction.c` | one remote transaction, its participants, savepoint levels, stream gate | modelled, proved |
| transaction callbacks | `vps_module.c` 4215-4475 | pinned connection | modelled, proved |
| scan callbacks | `vps_module.c` 2428-3643 | cursor, statement, row, identity | modelled |
| write callback | `vps_module.c` 3645-4213 | none between calls | modelled, without geometry |
| planning callback, planner | `vps_module.c` 2163-2426, `vps_planner.c` | none; the plan travels through SQLite | modelled |
| DML plans, row identity | `vps_dml.c`, `vps_row_identity.c` | none; the token travels through SQLite | modelled |
| table life cycle | `vps_module.c` 888-2161, 3339-3384 | described source, declared columns, fingerprint | modelled, proved |
| metadata cache | `vps_metadata_cache.c` | snapshot in two shadow tables | modelled, proved |
| metadata discovery | `vps_metadata*.c`, `vps_table_metadata.c` | none | choice of key and policy modelled, parsing of cells not |
| query snapshot cache | `vps_query_cache.c`, `vps_module.c` 713-931 | private database, leases | modelled, proved |
| embedded database | `vps_embedded_sqlite.c` | open, sealed, closed | life cycle and scan statement |
| generic client | `vps_client.c` | connection and statement states, borrowed row | modelled, proved |
| libpq adapter | `vps_libpq_client.c`, `_health.c`, `_statement.c` | phases of start, poll, wait; cancel and drain | modelled, proved |
| cursor machine, budgets | `vps_cursor.c` | state, counters | machine and row budget, proved |
| cancel registry | `vps_cancel.c`, `vps_extension.c` | tokens, generation | one token |
| deadlines | `vps_deadline.c` | start and expiry | over an abstract clock |
| errors, types, codecs | `vps_error.c`, `vps_type_*.c` | none | the classes and types the models tell apart |

### What runs concurrently

SQLite serialises the callbacks of one `sqlite3*` by its own mutex. The coordinator
relies on it and has no lock: in `VtabTransaction` each callback is one step, and
what interleaves is the order in which SQLite calls and what server and network
answer. In `ScanStack` a callback is a sequence of turns (a turn of a poll loop, a
wait, a blocking `PQgetResult`), between which the session, the network, the clock
and a thread that calls `virtualpostgresql_cancel` move. In `Tables` and
`Statements` other sessions of the server move between any two statements. The pool
and the snapshot cache have a mutex and a condition variable and promise to be
usable from several threads; the models check that promise, which is more than one
SQLite connection asks of them.

## 2. Modules

| Module | Models | State and actions |
|---|---|---|
| `LeaseSpec` | the promise of `vps_connection_pool.h` to borrowers | who holds which connection; Lend, GiveBack, Shut |
| `ConnectionPool` | `vps_connection_pool.c` | the fields of `VpsConnectionPool`, the locals of `acquire` per client, the lease structures and the released copies of them. One iteration of acquire's loop is one step, since the mutex is given up only in the condition wait; `destroy` has two critical sections and takes two steps |
| `PoolProofs` | | the inductive invariant of `ConnectionPool` and lemmas about its helpers; its preservation by every step; the theorems |
| `Transaction` | `vps_transaction.c` | each function as an operator from the coordinator (a record) and its arguments to result code and new coordinator |
| `VtabTransaction`, `MCVtabTransaction` | transaction callbacks of `vps_module.c`, composed with `Transaction`, SQLite and the PostgreSQL session | `todo` is the list of callbacks that the running SQL statement has still to make; each entry says what SQLite does if it fails. Every row change has a number that is followed to the server and back to the application |
| `TxProofs` | | the inductive invariant of `VtabTransaction`, its preservation by every callback, and the theorems |
| `QueryCache` | `vps_query_cache.c`, `vps_table_build_snapshot`, snapshot parts of open, filter, close and `vps_table_cleanup` | the cache, the private database of each attempt, the program counter and lease of each cursor |
| `CacheProofs` | | the inductive invariant of `QueryCache` and its preservation by waits and builds; by the callbacks and the cleanup, and the theorems |
| `RowStream` | what a scan promises SQLite | rows produced and delivered; an end only after the last row |
| `Libpq` | external: libpq's asynchronous calls and the session behind them | one record per connection: what libpq knows, what is on the wire, what the session does |
| `Client` | `vps_client.c` | records of connection and statement; an operator per function |
| `LibpqConnection` | `vps_libpq_client.c`, `_health.c`, `vps_deadline.c` | a call of the adapter maps the backend to the set of answers it can give |
| `LibpqStatement` | `vps_libpq_client_statement.c` | the same for statements; calls of `PQgetResult` that can block are marked |
| `ScanStack` | callbacks and drive loops of `vps_module.c`, `vps_cursor.c`, `vps_cancel.c` over the four modules above | `call` is the callback that runs, the operation it drives and where it stands |
| `ScanStream` | | `ScanStack` as an implementation of `RowStream`, and its liveness |
| `LibpqProofs` | | the invariant of wire and adapter, kept by every call of `LibpqConnection` and `LibpqStatement` and by what the session does |
| `ScanLemmas`, `ScanTurns`, `ScanProofs` | | the inductive invariant of `ScanStack` with what fails, starts and is given back; the turns of the drive loops; every step, and the theorems |
| `MetadataCache` | `vps_metadata_cache.c`, store and load of the shadow rows | what a snapshot records, drift, what a load accepts |
| `Tables` | create, connect, describe, declare, validate, disconnect, destroy of `vps_module.c` | one action per statement a callback sends, to the server or to the shadow tables |
| `TablesProofs` | | the inductive invariant of `Tables`, its preservation by every statement of a callback and every change of the world, and the theorems |
| `Catalog` | `vps_metadata.c`, `_key.c`, `_policy.c`, `vps_type_registry.c` | pure: key and write policy of a relation |
| `Planner` | `vps_planner.c` | pure: from a request to a plan and back from its text |
| `Dml` | `vps_dml.c`, `vps_row_identity.c` | pure: policy, predicate, tokens, judgement of a row count |
| `Statements`, `MCStatements` | xBestIndex, xFilter, xNext, xColumn, xUpdate of `vps_module.c` with the three modules above | one SQL statement from connect to its last callback; SQLite's own evaluation and the server's are the reference. `MCStatements` enumerates tables, rows and statements |

Most of the code is a function of a record: such code is an operator from record and
arguments to result and record, named after the function, and the module that
composes the callers applies it in its actions.

### SQLite and PostgreSQL as the code meets them

The two environments are external and modelled from how the code depends on them.

SQLite, transactions: `xBegin` is called at a table's first write, never for a read.
When savepoints are open the new table is told only of the innermost level.
ROLLBACK TO and RELEASE reach only the tables that were told of the level or of a
deeper one. A statement that changes several rows inside an explicit transaction
has a savepoint of its own; if undoing it fails, the transaction is rolled back.
The results of `xCommit` and `xRollback` are ignored. A failing `xSync` rolls the
transaction back, except that BUSY leaves an explicit one open. A savepoint whose
RELEASE fails in a table is gone all the same. ROLLBACK may come while a read
cursor is open.

SQLite, statements (as of 3.44, the oldest host): LIMIT and OFFSET are offered as the
last constraints, and only when every other term is usable; a consumed OFFSET is not
applied again, a LIMIT is always counted; a term without `omit`, or whose argument
was not asked for, is rechecked; `SQLITE_INDEX_SCAN_UNIQUE` matters only to UPDATE
and DELETE, which then do without a list of the rows found.

PostgreSQL: a refused or cancelled statement puts the transaction in error; COMMIT of
such a transaction rolls back and answers success; a deferred constraint is refused
at COMMIT; a savepoint hides an older one of the same name; a lost COMMIT may or may
not have been done. A cancel request travels on a connection of its own and may
arrive after the command it was meant for. Statements outside a transaction see
whatever other sessions have committed.

## 3. Runs

All bounds are constants of the modules. A passing run explores the whole state
space within them.

| Run | Instance | Shows |
|---|---|---|
| `Pool` | 3 clients, 2 connections, 1 to 2 slots, 2 waiters, 3 tickets or tokens, faults and deadlines | counters are exact; a lease is exclusive; nothing is orphaned; freed storage is unreachable; grants follow the tickets; the pool implements `LeaseSpec`; every waiter leaves the queue if leases come back; acquire returns even if none does, if time passes |
| `TxWrites` | 3 tables of 2 identities, 3 row changes, no savepoints | acknowledged changes are committed, rolled-back ones are not; after an unknown outcome no transaction starts |
| `TxSavepoints` | 1 table, 2 nested savepoints, 3 row changes | what is rolled back stays out; coordinator and server agree on the savepoints |
| `TxScans` | 2 tables, 2 cursors, 1 savepoint, 2 row changes | the stream gate belongs to exactly one cursor; no command meets a live stream |
| `Cache` | 3 cursors, 2 rows, 4 build attempts, faults and timeouts | one builder; only complete snapshots are published, once; references are exact; nothing leaks; a wait ends although the build hangs; acquire returns although builds fail one after the other |
| `Scan` | 1 connection, 1 cursor, 2 rows, row budget 2, 1 session setting, 3 internal polls | a connection in the pool is quiescent; the row SQLite looks at is backed by its result; the cursor machine refuses no transition; a confirmed cancel is an interrupt; a scan implements `RowStream`; a cancel ends a scan without a deadline; only a blocking `PQgetResult` outlives one |
| `Tables` | 1 table, 2 relations one after the other under its name, 3 layouts, 2 identities, 3 changes of server, catalog, configuration or process | rows fit the declaration; what is served is what is stored; a refresh keeps fields, keys and identity; a fallback is of the same identity; a live table is served again |
| `Statements` | 42,396 cases: SELECTs with up to 2 of the terms, orders and windows the planner tells apart over a table, a query and a snapshot; writes over 13 indexes alone or with a second, 3 key types, 12 odd relations, 3 locking modes; up to 4 rows, 2 changes by other sessions | answers are SQLite's own; plans can be executed; a write changes one row, the one it read; no lost update; an undisturbed row is reached; exactly the matching rows are affected |

Why these bounds are enough to be interesting. Three clients on two slots with two
waiter entries make two holders and a waiter, one holder and two waiters, and a
client that finds the queue full (both others queue while their slots come back);
three tickets and tokens allow a stale copy, its slot lent again and a third lease.
Three row changes are one that succeeds, one that fails and one after it; two
nested savepoints with a statement savepoint on top give three levels, more than
`MaxSavepoints` in the run, so the limit is met. Three tables over a limit of two
participants meet the other limit and the identity mismatch. Four build attempts let
every cursor fail once and one succeed. Two rows are a first and a last row, and with
a budget of two the third fetch is the one that ends the scan or exceeds the budget;
three internal polls let the poll limit be met. Three changes are, for
instance, a server that goes down, a relation replaced meanwhile and a server that
comes back. Two changes by other sessions are an update of a row read and not yet
written, and a second row with its key after the index was dropped.

`TxWrites` has no savepoints because with one the property does not hold
(`TxLostWrites` below); `TxSavepoints` has one table for the same reason
(`TxLateSavepoint`), and neither has cursors (see the observations).

The properties of `Statements` name the cases in which the code is known to do
otherwise, as definitions of their own: `SlicedTooEarly` and `OrderCut`
(`AnswerIsRight`), `NullRowid` and snapshot orders (`PlanServes`), `ByteaKey`
(`WriteReaches`), `RepeatedKey` (`AffectsMatching`). Everything outside of them is
checked; what happens in them is a finding or an observation of section 4.

Types: `ConnectionPool`, `QueryCache` and `Tables` have their type invariants proved.
`TypeOK` of `VtabTransaction` and `ScanStack` describes the state for the reader; it
holds on the instances above but is not one of the listed properties.

Deadlock is checked in all runs but `Pool` and `Cache`: both of these systems end, the
pool when it is destroyed and the cache when its table is.

### Fairness

* `FairSpec` of `ConnectionPool` and `QueryCache`: a thread that can take the mutex
  does, and a condition wait ends with its slice at the latest
  (`pool->wait_slice_ms`; the slice in `vps_query_cache_wait`).
* `FairSpec` of `ScanStream`: the thread that runs a callback is scheduled. Nothing is
  assumed of the session, the network or the clock.
* `FairSpec` of `Tables`: SQLite finishes a callback that it started, and an
  application that wants rows connects, prepares and runs its query.
* Every liveness property of the first three states its further assumption as a
  premise of its own, so that it is seen not to rest on another's. `QueueDrains`
  assumes that borrowers release (a scan's lease goes back at EOF, failure or close)
  and nothing of deadlines; the pool's `AcquireReturns` assumes that time passes and
  nothing of borrowers; `WaitEnds` assumes that the timeout passes and lets the build
  hang; the cache's `AcquireReturns` assumes that a build goes on, each of its remote
  steps having a deadline, and nothing of timeouts; `CancelEndsScan` assumes that the
  session takes a cancel request and nothing of the clock; `OnlyGetResultBlocks`
  assumes that time passes and nothing of the session. `LiveTableServes` speaks of
  behaviours in which the server is from some time on up and undrifted.

## 4. Findings and observations

Four runs are expected to be violated: each states what a document of the
repository says, and TLC shows a short behaviour in which the code does otherwise.
`PROJECT.json` has the quotations.

| Run | What happens |
|---|---|
| `TxLostWrites` | A level left over from a RELEASE refused in state FAILED is mistaken for a newer savepoint; undoing a statement then discards an earlier, acknowledged change and COMMIT succeeds. |
| `TxLateSavepoint` | An outer level is announced by the second table that joins, after the first table's writes; ROLLBACK TO it keeps them. |
| `StatementsByteaKey` | The identity of a row keyed by bytea carries the text form `\x...`, which is then bound as binary: the predicate matches nothing and the row cannot be written. |
| `StatementsSnapshotOrder` | The scan statement of a snapshot appends ` DESC` with the length of ` ASC`: a descending order fails. |

The following were met while modelling. They are visible in the definitions named,
and no property of a passing run covers them.

Transactions (`VtabTransaction`):

* COMMIT refused by the server (deferred constraint): the connection is released, the
  coordinator stays FAILED, and ROLLBACK has no connection to send on. No further
  transaction on this SQLite connection works.
* ROLLBACK with a live cursor in the transaction is refused as BUSY, which SQLite
  ignores. The next transaction joins the open remote one, and its COMMIT commits the
  rolled-back change.
* Abandoning a scan inside the transaction cancels it, which puts the server
  transaction in error while the coordinator says ACTIVE.
* `UpdateLosesTail`: when the terminal fetch of a write fails, `status` is still OK, the
  transaction is not marked failed and xSync lets COMMIT run on a failed connection.
* `TxRelease`: a level that was never announced is released with OK and deeper levels
  stay tracked.

Scans (`ScanStack`, `LibpqStatement`):

* The deadline of a statement starts with EXECUTE and runs over the whole scan, the
  time SQLite and the application spend between two rows included.
* `PQgetResult` is called without a deadline to see the end of a command and to drain
  after a server error; `OnlyGetResultBlocks` says that nothing else is.
* The drain after a cancel accepts a normal end of the results as well as 57014; that
  of a statement which returns no rows ends as an invariant failure.
* A cancel request stays set until the cursor is closed: a second xFilter of the same
  cursor is interrupted at once.
* xFilter refused by the coordinator (ABORT, BUSY) leaves the cursor machine FILTERING.

Tables (`Tables`):

* A cached table whose first scan fails while the server is down is not validated
  again until it is reconnected.
* Validation replaces the fingerprint by one that was not mixed with the
  materialisation settings: in builds with materialisation the first scan after a
  fallback fails as a corrupt plan, and the same statement prepared again succeeds.
  If it fails half way, the table keeps the description reset.
* A declaration taken from the snapshot can have another row identity than the one
  validated.
* A refresh of a table with geometry columns never converges, since the wrapped query
  is described differently each time.
* The store of a refresh is four statements; one that is interrupted leaves shadow
  rows that make later connects fail as corrupt until the table is dropped.
* `vps_table_cleanup` frees the table whatever the pool's destroy answered, and
  xDestroy drops the shadow tables although the cleanup was busy.

Statements (`Statements`, `Planner`, `Dml`, `Catalog`):

* LIMIT is handed to the server although a term on the hidden column or one that
  xBestIndex does not know is left to SQLite, or although SQLite sorts by the hidden
  column (`SlicedTooEarly`); an order whose first term is the hidden column is cut and
  reported as consumed (`OrderCut`).
* `a = 1 AND a = 1` over a key of two columns counts as a full key (`RepeatedKey`).
* A nullable single integer key with NULLS NOT DISTINCT is accepted, and a scan fails
  at the row whose key is NULL (`NullRowid`).
* A relation that is partitioned by an expression cannot be connected.
* An INSERT whose only bytes are an empty bytea is refused; an INSERT suppressed by a
  trigger is reported as a conflict under optimistic locking.
* For a rowid literal xBestIndex reads the column before the first; the value read
  never reaches the plan.

## 5. Proofs

`PoolProofs` proves, for every finite set of clients, every set of connections, all
sizes and every bound on the serial numbers (`PoolAssumption`):

* `TypeCorrect`: the type invariant;
* `AccountingHolds`, `LeasesAreExclusive`, `NothingIsLeaked`, `FreedIsUnreachable`: the
  four invariants of `Pool`;
* `GrantsInTicketOrder`: the action property `FirstInFirstOut`;
* `PoolImplementsLeaseSpec`: the pool implements `LeaseSpec`, a borrower's connection
  being the one in its lease and the pool being open while `closed = 0`.

None of the invariants is inductive alone. `IInv` adds three things to the types and
the counters:

* `LeaseInv`: a held lease is valid, different holders have different slots, different
  slots have different connections, every leased slot has a holder, and the token of
  a released copy is carried by no leased slot and is not above the last token handed
  out. The last fact makes a second release harmless even when the slot was lent
  again with a connection at the same address.
* `QueueInv`: queued clients and active entries correspond one to one and agree on the
  ticket; tickets are unique. Without it the removal of an entry could not be shown to
  take exactly one off `waiting`.
* `DestroyInv`: once destroy has begun, the pool is closed and nobody enters. This is
  the obligation of the caller that `vps_connection_pool.h` states, and it is the
  guard of acquire's first step in the model.

`NextInv` has one lemma per kind of step, which rest on what the first lemmas say of
the counters, the queue and the leases. The lemmas about cardinalities rest on `FiniteSetTheorems`. `GrantsInTicketOrder` and the refinement
are step properties proved from `IInv`.

`CacheProofs` proves, for every finite set of cursors, every number of rows and of
build attempts, with and without faults and timeouts (`QueryCacheAssumption`):

* `CacheTypeCorrect`: the type invariant;
* `CacheOneBuilder`, `CachePublishedIsComplete`, `CacheLeasesCounted`,
  `CacheNothingLeaks`: the four invariants of `Cache`;
* `CacheSnapshotIsFinal`: the action property of the same run.

Its `IInv` says where everything is while the mutex is not held:

* `BuilderInv`: two builders are the same cursor, and there is one exactly in state
  BUILDING. It makes whatever a builder does invisible: nothing is published then
  (`BuilderFacts`).
* `CandidateInv`: a candidate belongs to one cursor, is not the published database, and
  the attempt a builder is about to open is new. The late close of a failed candidate,
  which happens after the mutex was given up and perhaps after somebody else has
  published, is harmless by this.
* `DatabaseInv`: the open databases are the published one and the candidates, and a
  sealed candidate has every row.
* `LeaseInv`: the count is exact, and a cursor with a lease is between two callbacks or
  at the end of acquire; so the next acquire of a cursor never overwrites a lease.
* `CursorInv`: `active_cursors` counts the open cursors. That is why
  `vps_table_cleanup`, which looks at nothing else, finds no lease and no build. Its
  last conjunct is about the bound `MaxAttempts` only: an attempt is left for everybody
  who waits.

TLC checked this `IInv` on the instance of `Cache` before it was proved. There is one
lemma per step of the cache; `Publish` has one for each outcome of the build.

`TxProofs` proves, for every set of tables and of cursors, every number of savepoints, participants and row changes, whatever SQLite calls next and whichever
command fails, is refused or has an unknown outcome (`TransactionAssumption`,
`VtabAssumption`):

* `GateIsOwned`: the invariant `GateHasOneOwner` of `TxScans`;
* `SavepointsAgree`: the invariant `SavepointsMirrored` of `TxSavepoints`;
* `StreamIsIsolated`, `AmbiguityIsFinal`: the action properties of `TxScans` and
  `TxWrites`.

Its `IInv` (`TxInvariant`) has four parts:

* `ShapeInv`: the records have their fields, between callbacks the coordinator is in a
  state that is not transient, and it tracks no level twice.
* `GateInv`: the gate is taken exactly while some cursor owns it, two owners are the same
  cursor, and an owner has a row or has failed. The last fact is what closes the
  induction: xFilter runs only on a cursor in OPEN or EOF, so it never overwrites the
  ownership of the cursor it runs on.
* `EndedInv`: a coordinator that is IDLE or AMBIGUOUS has no connection, no session and
  an open gate. That is why nothing can be committed after an unknown outcome.
* `MirrorInv`: while the server has a transaction, both sides name the same level at each
  depth that both have. `SavepointsMirrored` speaks of healthy sides only; a failed
  command leaves the coordinator FAILED and shorter, or longer by the one savepoint that
  was not made, and a later ROLLBACK TO may make both healthy again, so the unhealthy
  states must be described as well.

The savepoints are sequences of whatever length; `Appended`, `Prefix` and `CutLevels`
say what SAVEPOINT, RELEASE and ROLLBACK TO do to both of them, and `FindsTheSame` that
the coordinator's search from the top and the server's meet at the same depth.

`TablesProofs` proves, for any number of relations created one after the other under the
table's name, of profile revisions and of changes of the world (`MetadataAssumption`,
`TablesAssumption`; that `NULL` is no snapshot, option or table is part of them):

* `TablesTypeCorrect`: the type invariant;
* `RowsFit`, `ServedAreStored`, `RefreshIsCompatible`, `FallbackIsOwn`: the four
  invariants of `Tables`.

Its `IInv` (`TablesInvariant`) adds to the types and to `RefreshKeepsLayout`:

* `KeysInv`: a description starts without keys, so what is stored has two at most. A
  declaration taken from the snapshot may count a key again (an observation of section
  4); this bounds it, and shows that it never reaches the shadow tables.
* `CallInv`: a callback in progress has a table, only validations work on a cached
  declaration, and from the second statement on the description is whole.
* `StoreInv`: a store was decided on a snapshot compatible with the one xCreate stored,
  and from its first statement to its last the rows do not load. A crash or a failure
  between any two of its four statements is harmless to `RefreshKeepsLayout` by this.
* `ServedInv`: a connected table that is not on a cached declaration is declared as it was
  described and backed by rows that load; a scan uses the snapshot of such a table.
* `FallbackInv`: `FallbackIsOurs`, with the declared fields those of the stored snapshot;
  they are then the ones of every snapshot a validation accepts.

The world outside the process touches none of these variables (`CoreKept`, `QuietInv`);
the other lemmas are one per way a callback starts, goes on and ends.

`ScanProofs` proves, for any number of rows a query has, of session settings, of row
generations, of polls in a call and of rows in the budget (`LibpqAssumption`: the
number of rows is a natural number; the other constants are arbitrary):

* `MachineIsObeyed`, `RowStaysBacked`, `PoolIsQuiescent`, `CancelInterrupts`: the four
  invariants of `Scan`.

The argument has two layers. `LibpqProofs` is about one connection and knows nothing of
callbacks. `GoodBackend` says what wire and adapter are between two calls:

* `WireInv`: one command at a time, first unsent, then executed, then ended, with
  ReadyForQuery as its last message.
* `AdapterInv`: in which phase of a statement the wire is at rest, has something to be
  flushed, or has a result to be taken. A cancel request is under way only in the phase
  that waits for it: a statement that leaves this phase has seen the request end, or has
  given up its connection. This is what makes a connection in the pool quiescent.
* `HealthInv`: a COMMIT or ROLLBACK whose result was seen leaves a session outside a
  transaction.

`Kept` is what every call of the adapter does to such a backend, and `Told` and
`Reported` are what its answer lets the caller rely on (`PollAnswers`, `AwaitedAnswers`,
`StartKeeps`, `ConnectionPollReports`, `ConnectionWaitReports`). `Harmless` describes the
statements that the server's 57014 can no longer reach; `ConfirmedCancelInterrupts` is
not inductive without it, since a cancel of an EXECUTE that was never sent ends without
one.

`ScanInv` adds who has the connection (`Held`), that client and adapter count the same
statements and that only the coordinator's connection is in a transaction (`Layers`), and
one description for each of three places: between two callbacks (`AtIdle`), in a drive
loop of a connection (`AtLink`), in one of a statement (`AtWork`). In the last, the
cursor is FILTERING or CANCELLING, or WAITING on the way back to it, as the statement's
operation says; the machine's table then accepts whatever comes next.

The lemmas follow the code: what the callbacks do when they give back statement,
connection and lease, when an operation fails, when one starts and when one succeeds
(each a function of `vps_module.c` or of the client, from a state to a state), then a
turn of each drive loop for each answer, then the actions. The session, the clock and
the cancelling thread move only what `WorldKeeps` and `ClockKeeps` say.

TLC checked these `IInv` and `ScanInv` on the instances of their runs before they were
proved.

Only model-checked:

* Liveness, which the prover does not reach: `QueueDrains`, both `AcquireReturns`,
  `WaitEnds`, `CancelEndsScan`, `OnlyGetResultBlocks`, `LiveTableServes`.
* `AckedIsCommitted` and `RolledBackStaysOut`: they do not hold in general (the runs
  `TxLostWrites` and `TxLateSavepoint`), only on the instances of `TxWrites` and
  `TxSavepoints`, so there is no theorem to prove without restricting the constants.
* `TypeOK` of `VtabTransaction`: the type of `todo` rests on what `SelectSeq` returns,
  for which the library has no facts.
* `ImplementsRowStream`: it needs an invariant about the rows on the wire one by one,
  which `ScanInv` does not have. `TypeOK` of `ScanStack`.
* The properties of `Statements`: they compare recursive evaluations of whole statements,
  which would take induction over data.

## 6. Not modelled, and why

Parts:

* Parsers of arguments, connection strings and queries, TLS policy, fingerprints:
  text to text, once per connect. Their results are model values, their failures a
  connect that is refused.
* Geometry formats, numeric and temporal text forms: value conversion without state.
* Metadata functions (`vps_module.c` 4546-4949): read-only tables over one catalog
  query that keep nothing between calls.
* Credential providers and the profile registry: lists under a mutex in front of an
  external store; `Tables` has a profile's revision that changes.
* The retry policy: no source file calls it.
* Platform, memory, logging, ABI: external to the models.

Inside the modelled parts:

* Failed allocations, failed locks and the 65,536-step limit of the drive loops
  (`VPS_VTAB_DRIVE_LIMIT`): each is a further way for a call to fail that the models
  already let fail.
* Serial numbers do not wrap (64 bits); times have two values, before and after the
  deadline, so the overflow check of `vps_deadline_start` is not met.
* The byte encodings of snapshots, plans and tokens: a row, plan or token is there as
  a whole or not at all; the checks made when it is read back are modelled.
* Byte budgets of a scan; limits on the number of columns, constraints and parameters.
* A write outside a transaction: SQLite calls `xBegin` before `xUpdate`.
* The generation and transaction id of the coordinator, and its SQLSTATE: no decision
  reads them.
* In temp mode the failed candidate of a build shares its file with the next one;
  the model gives each attempt a database of its own.
* Triggers and row security of the remote relation in `Statements`.
* Several SQLite connections that share one database file in `Tables`; several
  cursors in `ScanStack` (`VtabTransaction` and `QueryCache` have them).
* "Acknowledged" means that `xCommit` returned OK. SQLite reports COMMIT as done
  whatever `xCommit` returns, which no extension can change.

## 7. What would come next

1. Proofs: an invariant about the rows on the wire, for `ImplementsRowStream`.
2. Two cursors with two tokens in `ScanStack`, so that the registry's list is met.
3. Two SQLite connections over one database file in `Tables`.
