---------------------------- MODULE CacheProofs -----------------------------
(***************************************************************************)
(* What the snapshot cache guarantees for any number of cursors, rows and  *)
(* build attempts: the inductive invariant of QueryCache, its preservation *)
(* by every step of the cache, of a build, of the cursors and of the       *)
(* cleanup of a table, and the safety properties that follow from it.      *)
(***************************************************************************)
EXTENDS QueryCache, FiniteSetTheorems, TLAPS

Complete == [open |-> TRUE, rows |-> RowCount, sealed |-> TRUE]
Holders == {c \in Cursors : lease[c] # 0}
OpenCursors == {c \in Cursors : pc[c] # "none"}

\* At most one cursor builds, and the cache says so; the execution of the last
\* attempt is counted once the builder has sent its query.
BuilderInv ==
    /\ \A c, d \in Builders : c = d
    /\ state = "BUILDING" <=> \E c \in Cursors : c \in Builders
    /\ executions <= build_attempts
    /\ \A c \in Cursors : pc[c] \in {"building", "prepared"} => executions < build_attempts

\* A candidate belongs to one cursor that builds or has failed to, is not published,
\* and the attempt of a builder that has not opened its database is new.
CandidateInv ==
    /\ \A c \in Cursors : candidate[c] # 0 =>
           /\ pc[c] \in {"prepared", "fetching", "sealed", "broken", "discarding"}
           /\ candidate[c] # published
    /\ \A c \in Cursors : pc[c] \in {"prepared", "fetching", "sealed"} => candidate[c] # 0
    /\ \A c, d \in Cursors : candidate[c] = candidate[d] => candidate[c] = 0 \/ c = d
    /\ published <= build_attempts
    /\ \A c \in Cursors : candidate[c] <= build_attempts
    /\ \A c \in Cursors : pc[c] = "building" =>
           /\ published < build_attempts
           /\ \A d \in Cursors : candidate[d] < build_attempts

\* The open databases are the published one and the candidates; the others are as
\* vps_embedded_sqlite_close left them; a sealed candidate has every row.
DatabaseInv ==
    /\ PublishedIsComplete
    /\ \A d \in Databases : database[d].open =>
           d = published \/ \E c \in Cursors : d = candidate[c]
    /\ \A c \in Cursors : candidate[c] # 0 => database[candidate[c]].open
    /\ \A d \in Databases : ~database[d].open => database[d] = ClosedDatabase
    /\ \A c \in Cursors : pc[c] = "sealed" => database[candidate[c]] = Complete

\* Leases are counted, and only a cursor between two callbacks or at the end of
\* acquire has one.
LeaseInv ==
    /\ LeasesCounted
    /\ \A c \in Cursors : lease[c] # 0 => pc[c] \in {"open", "failed", "granted"}
    /\ \A c \in Cursors : pc[c] = "granted" => lease[c] # 0

\* Open cursors are counted, a table is only taken down without them, and there is an
\* attempt left for everybody who may have to build.
CursorInv ==
    /\ active_cursors = Cardinality(OpenCursors)
    /\ table # "leaked"
    /\ table # "connected" => OpenCursors = {}
    /\ build_attempts + Cardinality(Waiting) <= MaxAttempts

IInv == TypeOK /\ BuilderInv /\ CandidateInv /\ DatabaseInv /\ LeaseInv /\ CursorInv

-----------------------------------------------------------------------------
(* Counting cursors *)

\* The sets of cursors that the counters count are finite.
LEMMA FiniteSets ==
    /\ IsFiniteSet(Holders) /\ IsFiniteSet(OpenCursors) /\ IsFiniteSet(Waiting)
    /\ Cardinality(Holders) \in Nat /\ Cardinality(OpenCursors) \in Nat
    /\ Cardinality(Waiting) \in Nat
<1>1. /\ Holders \in SUBSET Cursors /\ OpenCursors \in SUBSET Cursors
      /\ Waiting \in SUBSET Cursors
  BY DEF Holders, OpenCursors, Waiting
<1> QED
  BY <1>1, QueryCacheAssumption, FS_Subset, FS_CardinalityType

\* A finite set without one of its elements has one element less.
LEMMA OneLess ==
    ASSUME NEW S, IsFiniteSet(S), NEW x \in S
    PROVE  Cardinality(S) \in Nat /\ Cardinality(S \ {x}) \in Nat
           /\ Cardinality(S \ {x}) = Cardinality(S) - 1
BY FS_RemoveElement, FS_CardinalityType

\* A finite set with another element has one element more.
LEMMA OneMore ==
    ASSUME NEW S, IsFiniteSet(S), NEW x, x \notin S
    PROVE  Cardinality(S) \in Nat /\ Cardinality(S \cup {x}) = Cardinality(S) + 1
BY FS_AddElement, FS_CardinalityType

-----------------------------------------------------------------------------
(* The initial state *)

\* The cache of a table that was just connected satisfies the invariant.
LEMMA InitInv == Init => IInv
<1> SUFFICES ASSUME Init PROVE IInv
  OBVIOUS
<1>1. Holders = {} /\ OpenCursors = {} /\ Waiting = {} /\ Builders = {}
  BY DEF Init, Holders, OpenCursors, Waiting, Builders
<1>2. Cardinality({}) = 0
  BY FS_EmptySet
<1>3. TypeOK
  BY QueryCacheAssumption DEF Init, TypeOK, Places, ClosedDatabase
<1>4. BuilderInv /\ CandidateInv
  BY <1>1 DEF Init, BuilderInv, CandidateInv
<1>5. DatabaseInv
  BY DEF Init, DatabaseInv, PublishedIsComplete, ClosedDatabase
<1>6. LeaseInv
  BY <1>1, <1>2 DEF Init, LeaseInv, LeasesCounted, Holders
<1>7. CursorInv
  BY <1>1, <1>2, QueryCacheAssumption DEF Init, CursorInv
<1> QED
  BY <1>3, <1>4, <1>5, <1>6, <1>7 DEF IInv

-----------------------------------------------------------------------------
(* vps_query_cache_wait and vps_query_cache_acquire *)

\* Waiting: a slice begins, a slice ends, the timeout passes.
LEMMA WaitInv ==
    ASSUME IInv, NEW c \in Cursors, WaitForBuild(c) \/ WaitReturns(c) \/ TimeoutPasses(c)
    PROVE  IInv'
<1>1. /\ pc' \in [Cursors -> Places]
      /\ \A d \in Cursors : \/ pc'[d] = pc[d]
                            \/ /\ pc[d] \in {"entered", "blocked", "woken"}
                               /\ pc'[d] \in {"entered", "blocked", "woken"}
  BY DEF IInv, TypeOK, WaitForBuild, WaitReturns, TimeoutPasses, Goto, InWait, Places
<1>2. /\ UNCHANGED <<cacheVars, leases, active_cursors, database, lease, scan,
                     candidate, table>>
      /\ expired' \in SUBSET Cursors
  BY DEF IInv, TypeOK, WaitForBuild, WaitReturns, TimeoutPasses
<1>3. Builders' = Builders /\ Waiting' = Waiting /\ OpenCursors' = OpenCursors
  BY <1>1 DEF Builders, Waiting, OpenCursors
<1>4. TypeOK'
  BY <1>1, <1>2 DEF IInv, TypeOK, cacheVars
<1>5. BuilderInv'
  BY <1>1, <1>2, <1>3 DEF IInv, BuilderInv, cacheVars
<1>6. CandidateInv'
  BY <1>1, <1>2 DEF IInv, CandidateInv, cacheVars
<1>7. DatabaseInv'
  BY <1>1, <1>2 DEF IInv, DatabaseInv, PublishedIsComplete, cacheVars
<1>8. LeaseInv'
  BY <1>1, <1>2 DEF IInv, LeaseInv, LeasesCounted, cacheVars
<1>9. CursorInv'
  BY <1>2, <1>3 DEF IInv, CursorInv, cacheVars
<1> QED
  BY <1>4, <1>5, <1>6, <1>7, <1>8, <1>9 DEF IInv

\* A wait that stops gives its attempt back.
LEMMA WaitStopsInv ==
    ASSUME IInv, NEW c \in Cursors, WaitStops(c)
    PROVE  IInv'
<1>1. /\ pc' = [pc EXCEPT ![c] = "failed"]
      /\ pc[c] \in {"entered", "woken"} /\ pc \in [Cursors -> Places]
      /\ UNCHANGED <<cacheVars, leases, active_cursors, database, lease, scan,
                     candidate, table>>
      /\ expired' \in SUBSET Cursors
  BY DEF IInv, TypeOK, WaitStops, Goto, InWait
<1>2. Builders' = Builders /\ Waiting' = Waiting \ {c} /\ OpenCursors' = OpenCursors
  BY <1>1 DEF Builders, Waiting, OpenCursors
<1>3. /\ Cardinality(Waiting) \in Nat
      /\ Cardinality(Waiting') = Cardinality(Waiting) - 1
  <2>1. c \in Waiting
    BY <1>1 DEF Waiting
  <2> QED
    BY <1>2, <2>1, FiniteSets, OneLess
<1>4. TypeOK'
  BY <1>1 DEF IInv, TypeOK, cacheVars, Places
<1>5. BuilderInv'
  BY <1>1, <1>2 DEF IInv, BuilderInv, cacheVars
<1>6. CandidateInv'
  BY <1>1 DEF IInv, CandidateInv, cacheVars
<1>7. DatabaseInv'
  BY <1>1 DEF IInv, DatabaseInv, PublishedIsComplete, cacheVars
<1>8. LeaseInv'
  BY <1>1 DEF IInv, LeaseInv, LeasesCounted, cacheVars
<1>9. CursorInv'
  BY <1>1, <1>2, <1>3, QueryCacheAssumption DEF IInv, CursorInv, TypeOK, cacheVars
<1> QED
  BY <1>4, <1>5, <1>6, <1>7, <1>8, <1>9 DEF IInv

\* A caller that finds the snapshot published holds a further lease on it.
LEMMA AcquireReadyInv ==
    ASSUME IInv, NEW c \in Cursors, AcquireReady(c)
    PROVE  IInv'
<1>1. /\ pc' = [pc EXCEPT ![c] = "granted"]
      /\ lease' = [lease EXCEPT ![c] = published]
      /\ leases' = leases + 1
      /\ pc[c] \in {"entered", "woken"} /\ pc \in [Cursors -> Places]
      /\ lease \in [Cursors -> 0..MaxAttempts]
      /\ state = "READY" /\ published # 0 /\ lease[c] = 0
      /\ UNCHANGED <<cacheVars, active_cursors, database, scan, candidate, table>>
      /\ expired' \in SUBSET Cursors
  BY DEF IInv, TypeOK, LeaseInv, DatabaseInv, PublishedIsComplete, AcquireReady, Goto, InWait
<1>2. /\ Builders' = Builders /\ Waiting' = Waiting \ {c} /\ OpenCursors' = OpenCursors
      /\ Holders' = Holders \cup {c} /\ c \notin Holders /\ c \in Waiting
  BY <1>1 DEF Builders, Waiting, OpenCursors, Holders
<1>3. /\ Cardinality(Waiting) \in Nat
      /\ Cardinality(Waiting') = Cardinality(Waiting) - 1
      /\ Cardinality(Holders') = Cardinality(Holders) + 1
  BY <1>2, FiniteSets, OneLess, OneMore
<1>4. TypeOK'
  BY <1>1 DEF IInv, TypeOK, cacheVars, Places
<1>5. BuilderInv'
  BY <1>1, <1>2 DEF IInv, BuilderInv, cacheVars
<1>6. CandidateInv'
  BY <1>1 DEF IInv, CandidateInv, cacheVars
<1>7. DatabaseInv'
  BY <1>1 DEF IInv, DatabaseInv, PublishedIsComplete, cacheVars
<1>8. LeaseInv'
  <2>1. leases' = Cardinality(Holders')
    BY <1>1, <1>3 DEF IInv, LeaseInv, LeasesCounted, Holders
  <2> QED
    BY <1>1, <2>1 DEF IInv, LeaseInv, LeasesCounted, Holders, cacheVars
<1>9. CursorInv'
  BY <1>1, <1>2, <1>3, QueryCacheAssumption DEF IInv, CursorInv, TypeOK, cacheVars
<1> QED
  BY <1>4, <1>5, <1>6, <1>7, <1>8, <1>9 DEF IInv

\* A caller that finds the cache empty is the only builder, of a new attempt.
LEMMA AcquireBuildInv ==
    ASSUME IInv, NEW c \in Cursors, AcquireBuild(c)
    PROVE  IInv'
<1>1. /\ pc' = [pc EXCEPT ![c] = "building"]
      /\ build_attempts' = build_attempts + 1
      /\ state = "EMPTY" /\ state' = "BUILDING"
      /\ pc[c] \in {"entered", "woken"} /\ pc \in [Cursors -> Places]
      /\ lease[c] = 0 /\ candidate[c] = 0 /\ published = 0
      /\ UNCHANGED <<published, generation, executions, leases, active_cursors,
                     database, lease, scan, candidate, table>>
      /\ expired' \in SUBSET Cursors
  BY DEF IInv, TypeOK, LeaseInv, DatabaseInv, PublishedIsComplete, CandidateInv,
         AcquireBuild, Goto, InWait
<1>2. /\ Builders = {} /\ Builders' = {c}
      /\ Waiting' = Waiting \ {c} /\ c \in Waiting
      /\ OpenCursors' = OpenCursors
  <2>1. Builders = {}
    BY <1>1 DEF IInv, BuilderInv, Builders
  <2> QED
    BY <1>1, <2>1 DEF Builders, Waiting, OpenCursors
<1>3. /\ Cardinality(Waiting) \in Nat /\ Cardinality(Waiting') \in Nat
      /\ Cardinality(Waiting') = Cardinality(Waiting) - 1
  BY <1>2, FiniteSets, OneLess
<1>4. TypeOK'
  <2>1. build_attempts' \in 0..MaxAttempts
    BY <1>1, <1>3, QueryCacheAssumption DEF IInv, CursorInv, TypeOK
  <2> QED
    BY <1>1, <2>1 DEF IInv, TypeOK, Places
<1>5. BuilderInv'
  BY <1>1, <1>2 DEF IInv, TypeOK, BuilderInv, Builders
<1>6. CandidateInv'
  BY <1>1 DEF IInv, TypeOK, CandidateInv
<1>7. DatabaseInv'
  BY <1>1 DEF IInv, DatabaseInv, PublishedIsComplete
<1>8. LeaseInv'
  BY <1>1 DEF IInv, LeaseInv, LeasesCounted
<1>9. CursorInv'
  BY <1>1, <1>2, <1>3, QueryCacheAssumption DEF IInv, CursorInv, TypeOK
<1> QED
  BY <1>4, <1>5, <1>6, <1>7, <1>8, <1>9 DEF IInv

-----------------------------------------------------------------------------
(* The build *)

\* What holds of the cache while c builds.
LEMMA BuilderFacts ==
    ASSUME IInv, NEW c \in Cursors, c \in Builders
    PROVE  /\ state = "BUILDING" /\ published = 0 /\ lease[c] = 0
           /\ \A d \in Builders : d = c
           /\ \A d \in Cursors : lease[d] = 0
BY DEF IInv, BuilderInv, DatabaseInv, PublishedIsComplete, LeaseInv, LeasesCounted, Builders

\* The private database of a new attempt is opened.
LEMMA BuildOpensInv ==
    ASSUME IInv, NEW c \in Cursors, BuildOpens(c)
    PROVE  IInv'
<1>1. /\ pc[c] = "building" /\ pc' = [pc EXCEPT ![c] = "prepared"]
      /\ candidate' = [candidate EXCEPT ![c] = build_attempts]
      /\ database' = [database EXCEPT ![build_attempts].open = TRUE]
      /\ pc \in [Cursors -> Places] /\ candidate \in [Cursors -> 0..MaxAttempts]
      /\ UNCHANGED <<cacheVars, leases, active_cursors, lease, scan, expired, table>>
  BY DEF IInv, TypeOK, BuildOpens, Goto
<1>2. c \in Builders
  BY <1>1 DEF Builders
<1>3. /\ build_attempts \in Databases /\ published = 0
      /\ \A d \in Cursors : candidate[d] < build_attempts
      /\ database[build_attempts] = ClosedDatabase
  <2>1. /\ published < build_attempts /\ \A d \in Cursors : candidate[d] < build_attempts
    BY <1>1 DEF IInv, CandidateInv
  <2>2. build_attempts \in Databases
    BY <2>1, QueryCacheAssumption DEF IInv, TypeOK, Databases
  <2>3. ~database[build_attempts].open
    BY <2>1, <2>2 DEF IInv, TypeOK, DatabaseInv
  <2> QED
    BY <1>2, <2>1, <2>2, <2>3, BuilderFacts DEF IInv, DatabaseInv
<1>4. Builders' = Builders /\ Waiting' = Waiting /\ OpenCursors' = OpenCursors
  BY <1>1 DEF Builders, Waiting, OpenCursors
<1>5. TypeOK'
  <2>1. database' \in [Databases -> [open : BOOLEAN, rows : 0..RowCount, sealed : BOOLEAN]]
    BY <1>1, <1>3 DEF IInv, TypeOK
  <2> QED
    BY <1>1, <2>1 DEF IInv, TypeOK, cacheVars, Places
<1>6. BuilderInv'
  BY <1>1, <1>4 DEF IInv, BuilderInv, cacheVars
<1>7. CandidateInv'
  BY <1>1, <1>2, <1>3, BuilderFacts DEF IInv, TypeOK, CandidateInv, Builders, cacheVars, Databases
<1>8. DatabaseInv'
  BY <1>1, <1>2, <1>3, BuilderFacts
     DEF IInv, TypeOK, CandidateInv, DatabaseInv, PublishedIsComplete, Builders, cacheVars
<1>9. LeaseInv'
  BY <1>1 DEF IInv, LeaseInv, LeasesCounted, cacheVars
<1>10. CursorInv'
  BY <1>1, <1>4 DEF IInv, CursorInv, cacheVars
<1> QED
  BY <1>5, <1>6, <1>7, <1>8, <1>9, <1>10 DEF IInv

\* The query of the attempt is counted when it is sent.
LEMMA BuildExecutesInv ==
    ASSUME IInv, NEW c \in Cursors, BuildExecutes(c)
    PROVE  IInv'
<1>1. /\ pc[c] = "prepared" /\ pc' = [pc EXCEPT ![c] = "fetching"]
      /\ executions' = executions + 1 /\ executions < build_attempts
      /\ pc \in [Cursors -> Places]
      /\ UNCHANGED <<state, published, generation, build_attempts, leases,
                     active_cursors, database, lease, scan, candidate, expired, table>>
  BY DEF IInv, TypeOK, BuilderInv, BuildExecutes, Goto
<1>2. c \in Builders
  BY <1>1 DEF Builders
<1>3. Builders' = Builders /\ Waiting' = Waiting /\ OpenCursors' = OpenCursors
  BY <1>1 DEF Builders, Waiting, OpenCursors
<1>4. TypeOK'
  BY <1>1, QueryCacheAssumption DEF IInv, TypeOK, Places
<1>5. BuilderInv'
  <2>1. \A d \in Cursors : pc'[d] \notin {"building", "prepared"}
    BY <1>1, <1>2, BuilderFacts DEF Builders
  <2>2. executions' <= build_attempts'
    BY <1>1 DEF IInv, TypeOK
  <2> QED
    BY <1>1, <1>3, <2>1, <2>2 DEF IInv, BuilderInv
<1>6. CandidateInv'
  BY <1>1 DEF IInv, CandidateInv
<1>7. DatabaseInv'
  BY <1>1 DEF IInv, DatabaseInv, PublishedIsComplete
<1>8. LeaseInv'
  BY <1>1 DEF IInv, LeaseInv, LeasesCounted
<1>9. CursorInv'
  BY <1>1, <1>3 DEF IInv, CursorInv
<1> QED
  BY <1>4, <1>5, <1>6, <1>7, <1>8, <1>9 DEF IInv

\* A row is appended to the candidate, which nobody else can see.
LEMMA BuildRowInv ==
    ASSUME IInv, NEW c \in Cursors, BuildRow(c)
    PROVE  IInv'
<1> DEFINE k == candidate[c]
<1>1. /\ pc[c] = "fetching" /\ database[k].rows < RowCount
      /\ database' = [database EXCEPT ![k].rows = @ + 1]
      /\ UNCHANGED <<cacheVars, leases, active_cursors, pc, lease, scan, candidate,
                     expired, table>>
  BY DEF BuildRow
<1>2. /\ c \in Builders /\ k \in Databases /\ k # 0 /\ k # published
      /\ database[k].open
  BY <1>1 DEF IInv, TypeOK, CandidateInv, DatabaseInv, Builders, Databases
<1>3. Builders' = Builders /\ Waiting' = Waiting /\ OpenCursors' = OpenCursors
  BY <1>1 DEF Builders, Waiting, OpenCursors
<1>4. TypeOK'
  <2>1. database[k].rows + 1 \in 0..RowCount
    BY <1>1, <1>2, QueryCacheAssumption DEF IInv, TypeOK
  <2>2. database' \in [Databases -> [open : BOOLEAN, rows : 0..RowCount, sealed : BOOLEAN]]
    BY <1>1, <1>2, <2>1 DEF IInv, TypeOK
  <2> QED
    BY <1>1, <2>2 DEF IInv, TypeOK, cacheVars
<1>5. BuilderInv'
  BY <1>1, <1>3 DEF IInv, BuilderInv, cacheVars
<1>6. CandidateInv'
  BY <1>1 DEF IInv, CandidateInv, cacheVars
<1>7. DatabaseInv'
  <2>1. \A d \in Databases : /\ database'[d].open = database[d].open
                             /\ d # k => database'[d] = database[d]
    BY <1>1, <1>2 DEF IInv, TypeOK
  <2>2. \A d \in Cursors : pc[d] # "sealed"
    BY <1>1, <1>2, BuilderFacts DEF Builders
  <2> QED
    BY <1>1, <1>2, <2>1, <2>2, BuilderFacts
       DEF IInv, TypeOK, DatabaseInv, PublishedIsComplete, cacheVars, Databases
<1>8. LeaseInv'
  BY <1>1 DEF IInv, LeaseInv, LeasesCounted, cacheVars
<1>9. CursorInv'
  BY <1>1, <1>3 DEF IInv, CursorInv, cacheVars
<1> QED
  BY <1>4, <1>5, <1>6, <1>7, <1>8, <1>9 DEF IInv

\* A build that fails keeps its candidate.
LEMMA BuildFailsInv ==
    ASSUME IInv, NEW c \in Cursors, BuildFails(c)
    PROVE  IInv'
<1>1. /\ pc[c] \in {"building", "prepared", "fetching"}
      /\ pc' = [pc EXCEPT ![c] = "broken"] /\ pc \in [Cursors -> Places]
      /\ UNCHANGED <<cacheVars, leases, active_cursors, database, lease, scan,
                     candidate, expired, table>>
  BY DEF IInv, TypeOK, BuildFails, Goto
<1>2. Builders' = Builders /\ Waiting' = Waiting /\ OpenCursors' = OpenCursors
  BY <1>1 DEF Builders, Waiting, OpenCursors
<1>3. TypeOK'
  BY <1>1 DEF IInv, TypeOK, Places, cacheVars
<1>4. BuilderInv'
  BY <1>1, <1>2 DEF IInv, BuilderInv, cacheVars
<1>5. CandidateInv'
  BY <1>1 DEF IInv, CandidateInv, cacheVars
<1>6. DatabaseInv'
  BY <1>1 DEF IInv, DatabaseInv, PublishedIsComplete, cacheVars
<1>7. LeaseInv'
  BY <1>1 DEF IInv, LeaseInv, LeasesCounted, cacheVars
<1>8. CursorInv'
  BY <1>1, <1>2 DEF IInv, CursorInv, cacheVars
<1> QED
  BY <1>3, <1>4, <1>5, <1>6, <1>7, <1>8 DEF IInv

\* A candidate is sealed with every row of the remote result.
LEMMA BuildSealsInv ==
    ASSUME IInv, NEW c \in Cursors, BuildSeals(c)
    PROVE  IInv'
<1> DEFINE k == candidate[c]
<1>1. /\ pc[c] = "fetching" /\ database[k].rows = RowCount
      /\ database' = [database EXCEPT ![k].sealed = TRUE]
      /\ pc' = [pc EXCEPT ![c] = "sealed"] /\ pc \in [Cursors -> Places]
      /\ UNCHANGED <<cacheVars, leases, active_cursors, lease, scan, candidate,
                     expired, table>>
  BY DEF IInv, TypeOK, BuildSeals, Goto
<1>2. /\ c \in Builders /\ k \in Databases /\ k # 0 /\ k # published
      /\ database[k].open
  BY <1>1 DEF IInv, TypeOK, CandidateInv, DatabaseInv, Builders, Databases
<1>3. Builders' = Builders /\ Waiting' = Waiting /\ OpenCursors' = OpenCursors
  BY <1>1 DEF Builders, Waiting, OpenCursors
<1>4. TypeOK'
  <2>1. database' \in [Databases -> [open : BOOLEAN, rows : 0..RowCount, sealed : BOOLEAN]]
    BY <1>1, <1>2 DEF IInv, TypeOK
  <2> QED
    BY <1>1, <2>1 DEF IInv, TypeOK, Places, cacheVars
<1>5. BuilderInv'
  BY <1>1, <1>3 DEF IInv, BuilderInv, cacheVars
<1>6. CandidateInv'
  BY <1>1 DEF IInv, CandidateInv, cacheVars
<1>7. DatabaseInv'
  <2>1. \A d \in Databases : /\ database'[d].open = database[d].open
                             /\ d # k => database'[d] = database[d]
    BY <1>1, <1>2 DEF IInv, TypeOK
  <2>2. database'[k] = Complete
    BY <1>1, <1>2 DEF IInv, TypeOK, Complete
  <2>3. \A d \in Cursors : pc'[d] = "sealed" => d = c
    BY <1>1, <1>2, BuilderFacts DEF Builders
  <2> QED
    BY <1>1, <1>2, <2>1, <2>2, <2>3, BuilderFacts
       DEF IInv, TypeOK, DatabaseInv, PublishedIsComplete, cacheVars, Databases
<1>8. LeaseInv'
  BY <1>1 DEF IInv, LeaseInv, LeasesCounted, cacheVars
<1>9. CursorInv'
  BY <1>1, <1>3 DEF IInv, CursorInv, cacheVars
<1> QED
  BY <1>4, <1>5, <1>6, <1>7, <1>8, <1>9 DEF IInv

\* A complete build is published with the builder's lease.
LEMMA PublishSealedInv ==
    ASSUME IInv, NEW c \in Cursors, Publish(c), pc[c] = "sealed"
    PROVE  IInv'
<1> DEFINE k == candidate[c]
           at == [pc EXCEPT ![c] = "granted"]
<1>1. /\ state' = "READY" /\ published' = k /\ generation' = generation + 1
      /\ leases' = leases + 1
      /\ lease' = [lease EXCEPT ![c] = k] /\ candidate' = [candidate EXCEPT ![c] = 0]
      /\ pc' = Broadcast(at)
      /\ UNCHANGED <<build_attempts, executions, active_cursors, database, scan,
                     expired, table>>
  BY DEF Publish
<1>2. /\ c \in Builders /\ k \in Databases /\ k \in 1..build_attempts
      /\ k # 0 /\ database[k] = Complete
      /\ candidate \in [Cursors -> 0..MaxAttempts] /\ lease \in [Cursors -> 0..MaxAttempts]
      /\ pc \in [Cursors -> Places] /\ at \in [Cursors -> Places]
  BY DEF IInv, TypeOK, CandidateInv, DatabaseInv, Builders, Databases, Places
<1>3. /\ published = 0 /\ \A d \in Cursors : lease[d] = 0
      /\ \A d \in Builders : d = c
  BY <1>2, BuilderFacts
<1>4. /\ pc' \in [Cursors -> Places] /\ pc'[c] = "granted"
      /\ \A d \in Cursors : d # c => \/ pc'[d] = pc[d]
                                     \/ pc[d] = "blocked" /\ pc'[d] = "woken"
  BY <1>1, <1>2 DEF Broadcast, Places
<1>5. /\ Builders' = {} /\ Waiting' = Waiting /\ OpenCursors' = OpenCursors
      /\ Holders' = Holders \cup {c} /\ c \notin Holders
  <2>1. Builders' = {}
    BY <1>3, <1>4 DEF Builders
  <2>2. Waiting' = Waiting /\ OpenCursors' = OpenCursors
    BY <1>4 DEF Waiting, OpenCursors
  <2>3. Holders' = Holders \cup {c} /\ c \notin Holders
    BY <1>1, <1>2, <1>3 DEF Holders
  <2> QED
    BY <2>1, <2>2, <2>3
<1>6. TypeOK'
  <2>1. /\ lease' \in [Cursors -> 0..MaxAttempts]
        /\ candidate' \in [Cursors -> 0..MaxAttempts] /\ published' \in 0..MaxAttempts
    BY <1>1, <1>2, QueryCacheAssumption DEF Databases
  <2>2. generation' \in Nat /\ leases' \in Nat
    BY <1>1 DEF IInv, TypeOK
  <2> QED
    BY <1>1, <1>4, <2>1, <2>2 DEF IInv, TypeOK
<1>7. BuilderInv'
  BY <1>1, <1>4, <1>5 DEF IInv, BuilderInv, Builders
<1>8. CandidateInv'
  <2>1. \A d \in Cursors : candidate'[d] # 0 => d # c /\ candidate'[d] = candidate[d]
    BY <1>1, <1>2
  <2>2. \A d \in Cursors : pc'[d] \notin {"building", "prepared", "fetching", "sealed"}
    BY <1>5 DEF Builders
  <2>3. \A d \in Cursors : candidate'[d] <= build_attempts
    BY <1>1, <1>2, QueryCacheAssumption DEF IInv, TypeOK, CandidateInv
  <2>4. \A d, e \in Cursors : candidate[d] = candidate[e] => candidate[d] = 0 \/ d = e
    BY DEF IInv, CandidateInv
  <2>5. \A d, e \in Cursors : candidate'[d] = candidate'[e] => candidate'[d] = 0 \/ d = e
    BY <2>1, <2>4
  <2>6. \A d \in Cursors : candidate'[d] # 0 =>
             /\ pc'[d] \in {"prepared", "fetching", "sealed", "broken", "discarding"}
             /\ candidate'[d] # published'
    <3>1. \A d \in Cursors : candidate[d] # 0 =>
             pc[d] \in {"prepared", "fetching", "sealed", "broken", "discarding"}
      BY DEF IInv, CandidateInv
    <3>2. \A d \in Cursors : candidate'[d] # 0 =>
             pc'[d] \in {"prepared", "fetching", "sealed", "broken", "discarding"}
      BY <1>4, <2>1, <3>1
    <3>3. \A d \in Cursors : d # c /\ candidate[d] # 0 => candidate[d] # k
      BY <1>2, <2>4
    <3>4. \A d \in Cursors : candidate'[d] # 0 => candidate'[d] # published'
      BY <1>1, <2>1, <3>3
    <3> QED
      BY <3>2, <3>4
  <2>7. published' <= build_attempts' /\ build_attempts' = build_attempts
    BY <1>1, <1>2, QueryCacheAssumption DEF IInv, TypeOK
  <2> QED
    BY <2>2, <2>3, <2>5, <2>6, <2>7 DEF CandidateInv
<1>9. DatabaseInv'
  <2>1. \A d \in Cursors : pc'[d] # "sealed"
    BY <1>5 DEF Builders
  <2>2. PublishedIsComplete'
    BY <1>1, <1>2 DEF PublishedIsComplete, Complete
  <2>3. \A d \in Databases : database'[d].open =>
            d = published' \/ \E e \in Cursors : d = candidate'[e]
    BY <1>1, <1>2, <1>3 DEF IInv, DatabaseInv, Databases
  <2> QED
    BY <1>1, <1>2, <2>1, <2>2, <2>3 DEF IInv, DatabaseInv
<1>10. LeaseInv'
  <2>1. leases' = Cardinality(Holders')
    BY <1>1, <1>5, FiniteSets, OneMore DEF IInv, LeaseInv, LeasesCounted, Holders
  <2> QED
    BY <1>1, <1>2, <1>3, <1>4, <2>1 DEF IInv, LeaseInv, LeasesCounted, Holders
<1>11. CursorInv'
  BY <1>1, <1>5 DEF IInv, CursorInv
<1> QED
  BY <1>6, <1>7, <1>8, <1>9, <1>10, <1>11 DEF IInv

\* A failed build leaves the cache empty and its candidate to be closed.
LEMMA PublishBrokenInv ==
    ASSUME IInv, NEW c \in Cursors, Publish(c), pc[c] = "broken"
    PROVE  IInv'
<1> DEFINE at == [pc EXCEPT ![c] = "discarding"]
<1>1. /\ state' = "EMPTY" /\ pc' = Broadcast(at)
      /\ UNCHANGED <<published, generation, leases, lease, candidate, build_attempts,
                     executions, active_cursors, database, scan, expired, table>>
  BY DEF Publish
<1>2. /\ c \in Builders /\ pc \in [Cursors -> Places] /\ at \in [Cursors -> Places]
  BY DEF IInv, TypeOK, Builders, Places
<1>3. published = 0 /\ \A d \in Builders : d = c
  BY <1>2, BuilderFacts
<1>4. /\ pc' \in [Cursors -> Places] /\ pc'[c] = "discarding"
      /\ \A d \in Cursors : d # c => \/ pc'[d] = pc[d]
                                     \/ pc[d] = "blocked" /\ pc'[d] = "woken"
  BY <1>1, <1>2 DEF Broadcast, Places
<1>5. /\ Builders' = {} /\ Waiting' = Waiting /\ OpenCursors' = OpenCursors
  <2>1. Builders' = {}
    BY <1>3, <1>4 DEF Builders
  <2>2. Waiting' = Waiting /\ OpenCursors' = OpenCursors
    BY <1>4 DEF Waiting, OpenCursors
  <2> QED
    BY <2>1, <2>2
<1>6. TypeOK'
  BY <1>1, <1>4 DEF IInv, TypeOK
<1>7. BuilderInv'
  BY <1>1, <1>4, <1>5 DEF IInv, BuilderInv, Builders
<1>8. CandidateInv'
  <2>1. \A d \in Cursors : pc'[d] \notin {"building", "prepared", "fetching", "sealed"}
    BY <1>5 DEF Builders
  <2> QED
    BY <1>1, <1>4, <2>1 DEF IInv, CandidateInv
<1>9. DatabaseInv'
  BY <1>1, <1>3, <1>4 DEF IInv, DatabaseInv, PublishedIsComplete
<1>10. LeaseInv'
  BY <1>1, <1>4 DEF IInv, LeaseInv, LeasesCounted
<1>11. CursorInv'
  BY <1>1, <1>5 DEF IInv, CursorInv
<1> QED
  BY <1>6, <1>7, <1>8, <1>9, <1>10, <1>11 DEF IInv

\* The candidate of a failed build is closed; it is not the published database.
LEMMA DiscardInv ==
    ASSUME IInv, NEW c \in Cursors, Discard(c)
    PROVE  IInv'
<1> DEFINE k == candidate[c]
<1>1. /\ pc[c] = "discarding" /\ pc' = [pc EXCEPT ![c] = "failed"]
      /\ database' = [d \in Databases |-> IF d = k THEN ClosedDatabase ELSE database[d]]
      /\ candidate' = [candidate EXCEPT ![c] = 0]
      /\ UNCHANGED <<cacheVars, leases, active_cursors, lease, scan, expired, table>>
      /\ pc \in [Cursors -> Places] /\ candidate \in [Cursors -> 0..MaxAttempts]
  BY DEF IInv, TypeOK, Discard, Goto
<1>2. /\ k # 0 => k # published
      /\ \A d \in Cursors : d # c /\ candidate[d] # 0 => candidate[d] # k
  BY DEF IInv, CandidateInv
<1>3. Builders' = Builders /\ Waiting' = Waiting /\ OpenCursors' = OpenCursors
  BY <1>1 DEF Builders, Waiting, OpenCursors
<1>4. TypeOK'
  <2>1. ClosedDatabase \in [open : BOOLEAN, rows : 0..RowCount, sealed : BOOLEAN]
    BY QueryCacheAssumption DEF ClosedDatabase
  <2>2. database' \in [Databases -> [open : BOOLEAN, rows : 0..RowCount, sealed : BOOLEAN]]
    BY <1>1, <2>1 DEF IInv, TypeOK
  <2>3. candidate' \in [Cursors -> 0..MaxAttempts] /\ pc' \in [Cursors -> Places]
    BY <1>1, QueryCacheAssumption DEF Places
  <2> QED
    BY <1>1, <2>2, <2>3 DEF IInv, TypeOK, cacheVars
<1>5. BuilderInv'
  BY <1>1, <1>3 DEF IInv, BuilderInv, cacheVars
<1>6. CandidateInv'
  BY <1>1, QueryCacheAssumption DEF IInv, TypeOK, CandidateInv, cacheVars
<1>7. DatabaseInv'
  <2>1. \A d \in Cursors : candidate'[d] # 0 => d # c /\ candidate'[d] = candidate[d]
    BY <1>1
  <2>2. \A d \in Cursors : candidate[d] # 0 => candidate[d] \in Databases
    BY <1>1, QueryCacheAssumption DEF Databases
  <2>3. published # 0 => published \in Databases
    BY QueryCacheAssumption DEF IInv, TypeOK, Databases
  <2>4. PublishedIsComplete'
    BY <1>1, <1>2, <2>3 DEF IInv, DatabaseInv, PublishedIsComplete, cacheVars
  <2>5. \A d \in Databases : database'[d].open =>
            d = published' \/ \E e \in Cursors : d = candidate'[e]
    BY <1>1 DEF IInv, DatabaseInv, ClosedDatabase, cacheVars
  <2>6. \A d \in Cursors : candidate'[d] # 0 => database'[candidate'[d]].open
    BY <1>1, <1>2, <2>1, <2>2 DEF IInv, DatabaseInv
  <2>7. \A d \in Databases : ~database'[d].open => database'[d] = ClosedDatabase
    BY <1>1 DEF IInv, DatabaseInv
  <2>8. \A d \in Cursors : pc'[d] = "sealed" => database'[candidate'[d]] = Complete
    <3>1. \A d \in Cursors : pc'[d] = "sealed" =>
              pc[d] = "sealed" /\ d # c /\ candidate[d] # 0
      BY <1>1 DEF IInv, CandidateInv
    <3> QED
      BY <1>1, <1>2, <2>2, <3>1 DEF IInv, DatabaseInv
  <2> QED
    BY <2>4, <2>5, <2>6, <2>7, <2>8 DEF DatabaseInv
<1>8. LeaseInv'
  BY <1>1 DEF IInv, LeaseInv, LeasesCounted, cacheVars
<1>9. CursorInv'
  BY <1>1, <1>3 DEF IInv, CursorInv, cacheVars
<1> QED
  BY <1>4, <1>5, <1>6, <1>7, <1>8, <1>9 DEF IInv

-----------------------------------------------------------------------------
(* The cursor callbacks *)

\* vps_module_open counts one cursor more.
LEMMA OpenInv ==
    ASSUME IInv, NEW c \in Cursors, Open(c)
    PROVE  IInv'
<1>1. /\ pc[c] = "none" /\ pc' = [pc EXCEPT ![c] = "open"] /\ table = "connected"
      /\ active_cursors' = active_cursors + 1 /\ pc \in [Cursors -> Places]
      /\ UNCHANGED <<cacheVars, leases, database, lease, scan, candidate, expired, table>>
  BY DEF IInv, TypeOK, Open, Goto
<1>2. /\ Builders' = Builders /\ Waiting' = Waiting
      /\ OpenCursors' = OpenCursors \cup {c} /\ c \notin OpenCursors
  BY <1>1 DEF Builders, Waiting, OpenCursors
<1>3. Cardinality(OpenCursors') = Cardinality(OpenCursors) + 1
  BY <1>2, FiniteSets, OneMore
<1>4. TypeOK'
  BY <1>1 DEF IInv, TypeOK, Places, cacheVars
<1>5. BuilderInv'
  BY <1>1, <1>2 DEF IInv, BuilderInv, cacheVars
<1>6. CandidateInv'
  BY <1>1 DEF IInv, CandidateInv, cacheVars
<1>7. DatabaseInv'
  BY <1>1 DEF IInv, DatabaseInv, PublishedIsComplete, cacheVars
<1>8. LeaseInv'
  BY <1>1 DEF IInv, LeaseInv, LeasesCounted, cacheVars
<1>9. CursorInv'
  BY <1>1, <1>2, <1>3 DEF IInv, CursorInv, cacheVars
<1> QED
  BY <1>4, <1>5, <1>6, <1>7, <1>8, <1>9 DEF IInv

\* What vps_cursor_release does to the counted leases, and to where the cursors are:
\* the caller goes to its place, the blocked callers may wake.
LEMMA ReleaseFacts ==
    ASSUME IInv, NEW c \in Cursors, NEW place \in {"none", "entered", "failed"},
           pc[c] \in {"open", "failed"}, CursorRelease(c, [pc EXCEPT ![c] = place])
    PROVE  /\ pc' \in [Cursors -> Places] /\ pc'[c] = place
           /\ \A d \in Cursors : d # c => \/ pc'[d] = pc[d]
                                          \/ pc[d] = "blocked" /\ pc'[d] = "woken"
           /\ scan' = [scan EXCEPT ![c] = FALSE] /\ lease' = [lease EXCEPT ![c] = 0]
           /\ leases' \in Nat /\ leases' = Cardinality(Holders')
           /\ UNCHANGED <<state, published, generation, database>>
<1>1. /\ leases' = IF lease[c] # 0 THEN leases - 1 ELSE leases
      /\ lease' = [lease EXCEPT ![c] = 0] /\ scan' = [scan EXCEPT ![c] = FALSE]
      /\ UNCHANGED <<state, published, generation, database>>
      /\ lease \in [Cursors -> 0..MaxAttempts] /\ leases = Cardinality(Holders)
  BY DEF IInv, TypeOK, LeaseInv, LeasesCounted, Holders, CursorRelease, LeaseRelease
<1>2. /\ pc' \in [Cursors -> Places] /\ pc'[c] = place
      /\ \A d \in Cursors : d # c => \/ pc'[d] = pc[d]
                                     \/ pc[d] = "blocked" /\ pc'[d] = "woken"
  BY DEF IInv, TypeOK, CursorRelease, LeaseRelease, Broadcast, Places
<1>3. leases' \in Nat /\ leases' = Cardinality(Holders')
  <2>1. CASE lease[c] # 0
    <3>1. Holders' = Holders \ {c} /\ c \in Holders
      BY <1>1, <2>1 DEF Holders
    <3> QED
      BY <1>1, <2>1, <3>1, FiniteSets, OneLess
  <2>2. CASE lease[c] = 0
    <3>1. Holders' = Holders
      BY <1>1, <2>2 DEF Holders
    <3> QED
      BY <1>1, <2>2, <3>1, FiniteSets
  <2> QED
    BY <2>1, <2>2
<1> QED
  BY <1>1, <1>2, <1>3

\* xFilter gives up the earlier lease and queues for a snapshot, or fails.
LEMMA FilterInv ==
    ASSUME IInv, NEW c \in Cursors, Filter(c)
    PROVE  IInv'
<1>1. PICK place \in {"entered", "failed"} : CursorRelease(c, [pc EXCEPT ![c] = place])
  BY DEF Filter
<1>2. /\ pc[c] = "open" /\ build_attempts + Cardinality(Waiting) < MaxAttempts
      /\ UNCHANGED <<build_attempts, executions, active_cursors, candidate, expired, table>>
      /\ pc \in [Cursors -> Places] /\ lease \in [Cursors -> 0..MaxAttempts]
      /\ scan \in [Cursors -> BOOLEAN]
  BY DEF IInv, TypeOK, Filter
<1>3. /\ pc' \in [Cursors -> Places] /\ pc'[c] = place
      /\ \A d \in Cursors : d # c => \/ pc'[d] = pc[d]
                                     \/ pc[d] = "blocked" /\ pc'[d] = "woken"
      /\ scan' = [scan EXCEPT ![c] = FALSE] /\ lease' = [lease EXCEPT ![c] = 0]
      /\ leases' \in Nat /\ leases' = Cardinality(Holders')
      /\ UNCHANGED <<state, published, generation, database>>
  BY <1>1, <1>2, ReleaseFacts
<1>4. /\ Builders' = Builders /\ OpenCursors' = OpenCursors
      /\ Waiting' = Waiting \/ (Waiting' = Waiting \cup {c} /\ c \notin Waiting)
  <2>1. Builders' = Builders /\ OpenCursors' = OpenCursors
    BY <1>2, <1>3 DEF Builders, OpenCursors
  <2>2. Waiting' = Waiting \/ (Waiting' = Waiting \cup {c} /\ c \notin Waiting)
    BY <1>2, <1>3 DEF Waiting
  <2> QED
    BY <2>1, <2>2
<1>5. build_attempts + Cardinality(Waiting') <= MaxAttempts
  <2>1. Cardinality(Waiting') \in {Cardinality(Waiting), Cardinality(Waiting) + 1}
    BY <1>4, FiniteSets, OneMore
  <2> QED
    BY <1>2, <2>1, FiniteSets, QueryCacheAssumption DEF IInv, TypeOK
<1>6. TypeOK'
  <2>1. lease' \in [Cursors -> 0..MaxAttempts] /\ scan' \in [Cursors -> BOOLEAN]
    BY <1>2, <1>3, QueryCacheAssumption
  <2> QED
    BY <1>2, <1>3, <2>1 DEF IInv, TypeOK
<1>7. BuilderInv'
  BY <1>2, <1>3, <1>4 DEF IInv, BuilderInv
<1>8. CandidateInv'
  BY <1>2, <1>3 DEF IInv, CandidateInv
<1>9. DatabaseInv'
  BY <1>2, <1>3 DEF IInv, DatabaseInv, PublishedIsComplete
<1>10. LeaseInv'
  BY <1>2, <1>3 DEF IInv, LeaseInv, LeasesCounted, Holders
<1>11. CursorInv'
  BY <1>2, <1>4, <1>5 DEF IInv, CursorInv
<1> QED
  BY <1>6, <1>7, <1>8, <1>9, <1>10, <1>11 DEF IInv

\* The scan of a cursor that has a lease is opened, or fails and keeps the lease.
LEMMA ScanOpenInv ==
    ASSUME IInv, NEW c \in Cursors, ScanOpen(c)
    PROVE  IInv'
<1>1. /\ pc[c] = "granted" /\ lease[c] # 0
      /\ \E place \in {"open", "failed"} : pc' = [pc EXCEPT ![c] = place]
      /\ scan' \in {scan, [scan EXCEPT ![c] = TRUE]}
      /\ pc \in [Cursors -> Places] /\ scan \in [Cursors -> BOOLEAN]
      /\ UNCHANGED <<cacheVars, leases, active_cursors, database, lease, candidate,
                     expired, table>>
  BY DEF IInv, TypeOK, LeaseInv, ScanOpen, Goto
<1>2. Builders' = Builders /\ Waiting' = Waiting /\ OpenCursors' = OpenCursors
  BY <1>1 DEF Builders, Waiting, OpenCursors
<1>3. TypeOK'
  <2>1. pc' \in [Cursors -> Places] /\ scan' \in [Cursors -> BOOLEAN]
    BY <1>1 DEF Places
  <2> QED
    BY <1>1, <2>1 DEF IInv, TypeOK, cacheVars
<1>4. BuilderInv'
  BY <1>1, <1>2 DEF IInv, BuilderInv, cacheVars
<1>5. CandidateInv'
  BY <1>1 DEF IInv, CandidateInv, cacheVars
<1>6. DatabaseInv'
  BY <1>1 DEF IInv, DatabaseInv, PublishedIsComplete, cacheVars
<1>7. LeaseInv'
  BY <1>1 DEF IInv, LeaseInv, LeasesCounted, cacheVars
<1>8. CursorInv'
  BY <1>1, <1>2 DEF IInv, CursorInv, cacheVars
<1> QED
  BY <1>3, <1>4, <1>5, <1>6, <1>7, <1>8 DEF IInv

\* xClose gives up the lease and counts one cursor less.
LEMMA CloseInv ==
    ASSUME IInv, NEW c \in Cursors, Close(c)
    PROVE  IInv'
<1>1. /\ pc[c] \in {"open", "failed"} /\ active_cursors' = active_cursors - 1
      /\ CursorRelease(c, [pc EXCEPT ![c] = "none"])
      /\ UNCHANGED <<build_attempts, executions, candidate, expired, table>>
      /\ pc \in [Cursors -> Places] /\ lease \in [Cursors -> 0..MaxAttempts]
      /\ scan \in [Cursors -> BOOLEAN]
  BY DEF IInv, TypeOK, Close
<1>2. /\ pc' \in [Cursors -> Places] /\ pc'[c] = "none"
      /\ \A d \in Cursors : d # c => \/ pc'[d] = pc[d]
                                     \/ pc[d] = "blocked" /\ pc'[d] = "woken"
      /\ scan' = [scan EXCEPT ![c] = FALSE] /\ lease' = [lease EXCEPT ![c] = 0]
      /\ leases' \in Nat /\ leases' = Cardinality(Holders')
      /\ UNCHANGED <<state, published, generation, database>>
  BY <1>1, ReleaseFacts
<1>3. /\ Builders' = Builders /\ Waiting' = Waiting
      /\ OpenCursors' = OpenCursors \ {c} /\ c \in OpenCursors
  <2>1. Builders' = Builders /\ Waiting' = Waiting
    BY <1>1, <1>2 DEF Builders, Waiting
  <2>2. OpenCursors' = OpenCursors \ {c} /\ c \in OpenCursors
    BY <1>1, <1>2 DEF OpenCursors
  <2> QED
    BY <2>1, <2>2
<1>4. /\ Cardinality(OpenCursors') \in Nat
      /\ Cardinality(OpenCursors') = Cardinality(OpenCursors) - 1
  BY <1>3, FiniteSets, OneLess
<1>5. TypeOK'
  <2>1. lease' \in [Cursors -> 0..MaxAttempts] /\ scan' \in [Cursors -> BOOLEAN]
    BY <1>1, <1>2, QueryCacheAssumption
  <2>2. active_cursors' \in Nat
    BY <1>1, <1>4 DEF IInv, CursorInv
  <2> QED
    BY <1>1, <1>2, <2>1, <2>2 DEF IInv, TypeOK
<1>6. BuilderInv'
  BY <1>1, <1>2, <1>3 DEF IInv, BuilderInv
<1>7. CandidateInv'
  BY <1>1, <1>2 DEF IInv, CandidateInv
<1>8. DatabaseInv'
  BY <1>1, <1>2 DEF IInv, DatabaseInv, PublishedIsComplete
<1>9. LeaseInv'
  BY <1>1, <1>2 DEF IInv, LeaseInv, LeasesCounted, Holders
<1>10. CursorInv'
  BY <1>1, <1>3, <1>4 DEF IInv, CursorInv
<1> QED
  BY <1>5, <1>6, <1>7, <1>8, <1>9, <1>10 DEF IInv

\* vps_table_cleanup finds no open cursor, hence no lease and no build.
LEMMA CleanupInv ==
    ASSUME IInv, Cleanup
    PROVE  IInv'
<1>1. OpenCursors = {}
  BY FiniteSets, FS_EmptySet DEF IInv, CursorInv, Cleanup
<1>2. \A c \in Cursors : /\ pc[c] = "none" /\ lease[c] = 0 /\ candidate[c] = 0
                         /\ ~scan[c]
  BY <1>1 DEF IInv, OpenCursors, LeaseInv, LeasesCounted, CandidateInv
<1>3. Holders = {} /\ Builders = {} /\ Cardinality({}) = 0
  BY <1>2, FS_EmptySet DEF Holders, Builders
<1>4. leases = 0 /\ state # "BUILDING"
  BY <1>3 DEF IInv, LeaseInv, LeasesCounted, BuilderInv, Holders
<1>5. /\ table' = "freed" /\ state' = "CLOSING" /\ published' = 0
      /\ database' = [d \in Databases |->
                         IF d = published THEN ClosedDatabase ELSE database[d]]
      /\ UNCHANGED <<generation, build_attempts, executions, leases, active_cursors,
                     pc, lease, scan, candidate, expired>>
  BY <1>4 DEF Cleanup
<1>6. Builders' = Builders /\ Waiting' = Waiting /\ OpenCursors' = OpenCursors
  BY <1>5 DEF Builders, Waiting, OpenCursors
<1>7. TypeOK'
  <2>1. ClosedDatabase \in [open : BOOLEAN, rows : 0..RowCount, sealed : BOOLEAN]
    BY QueryCacheAssumption DEF ClosedDatabase
  <2>2. database' \in [Databases -> [open : BOOLEAN, rows : 0..RowCount, sealed : BOOLEAN]]
    BY <1>5, <2>1 DEF IInv, TypeOK
  <2> QED
    BY <1>5, <2>2, QueryCacheAssumption DEF IInv, TypeOK
<1>8. BuilderInv'
  BY <1>3, <1>5, <1>6 DEF IInv, BuilderInv
<1>9. CandidateInv'
  BY <1>2, <1>5 DEF IInv, TypeOK, CandidateInv
<1>10. DatabaseInv'
  <2>1. \A d \in Databases : database'[d] = ClosedDatabase
    BY <1>2, <1>5 DEF IInv, DatabaseInv, Databases
  <2> QED
    BY <1>2, <1>5, <2>1 DEF DatabaseInv, PublishedIsComplete, ClosedDatabase
<1>11. LeaseInv'
  BY <1>2, <1>5 DEF IInv, LeaseInv, LeasesCounted
<1>12. CursorInv'
  BY <1>1, <1>5, <1>6 DEF IInv, CursorInv
<1> QED
  BY <1>7, <1>8, <1>9, <1>10, <1>11, <1>12 DEF IInv

-----------------------------------------------------------------------------
(* The invariant *)

\* Every step of every thread that uses the cache preserves the invariant.
LEMMA NextInv == IInv /\ [Next]_vars => IInv'
<1> SUFFICES ASSUME IInv, [Next]_vars PROVE IInv'
  OBVIOUS
<1>1. ASSUME NEW c \in Cursors, Open(c) \/ Filter(c) \/ ScanOpen(c) \/ Close(c)
      PROVE  IInv'
  BY <1>1, OpenInv, FilterInv, ScanOpenInv, CloseInv
<1>2. ASSUME NEW c \in Cursors, Wait(c) \/ WaitReturns(c) \/ TimeoutPasses(c)
      PROVE  IInv'
  BY <1>2, WaitInv, WaitStopsInv, AcquireReadyInv, AcquireBuildInv DEF Wait
<1>3. ASSUME NEW c \in Cursors, Build(c)
      PROVE  IInv'
  <2>1. CASE Publish(c)
    <3>1. pc[c] \in {"sealed", "broken"}
      BY <2>1 DEF Publish
    <3> QED
      BY <2>1, <3>1, PublishSealedInv, PublishBrokenInv
  <2>2. CASE ~Publish(c)
    BY <1>3, <2>2, BuildOpensInv, BuildExecutesInv, BuildRowInv, BuildFailsInv,
       BuildSealsInv, DiscardInv DEF Build
  <2> QED
    BY <2>1, <2>2
<1>4. CASE UNCHANGED vars
  <2>1. /\ Builders' = Builders /\ Waiting' = Waiting /\ OpenCursors' = OpenCursors
    BY <1>4 DEF vars, Builders, Waiting, OpenCursors
  <2>2. TypeOK' /\ BuilderInv' /\ CandidateInv'
    BY <1>4, <2>1 DEF vars, cacheVars, IInv, TypeOK, BuilderInv, CandidateInv
  <2>3. DatabaseInv' /\ LeaseInv' /\ CursorInv'
    BY <1>4, <2>1 DEF vars, cacheVars, IInv, DatabaseInv, PublishedIsComplete, LeaseInv,
                      LeasesCounted, CursorInv
  <2> QED
    BY <2>2, <2>3 DEF IInv
<1> QED
  BY <1>1, <1>2, <1>3, <1>4, CleanupInv DEF Next

\* The invariant holds in every behaviour of the cache.
THEOREM CacheInvariance == Spec => []IInv
BY InitInv, NextInv, PTL DEF Spec

-----------------------------------------------------------------------------
(* What follows from it *)

\* The cache has its types; leases and active_cursors never go below zero, whatever
\* order cursors fail and close in (vps_query_cache_lease_release, vps_module_close).
THEOREM CacheTypeCorrect == Spec => []TypeOK
<1>1. IInv => TypeOK
  BY DEF IInv
<1> QED
  BY <1>1, CacheInvariance, PTL

\* However many threads filter at once, time out and fail, and although the build
\* runs without the mutex: one builder at a time, and BUILDING exactly while it is
\* at work (vps_query_cache_acquire).
THEOREM CacheOneBuilder == Spec => []OneBuilder
<1>1. ASSUME IInv PROVE OneBuilder
  <2>1. CASE state = "BUILDING"
    <3>1. PICK c \in Cursors : c \in Builders
      BY <1>1, <2>1 DEF IInv, BuilderInv
    <3>2. Builders = {c}
      BY <1>1, <3>1 DEF IInv, BuilderInv
    <3> QED
      BY <2>1, <3>2, FS_Singleton DEF OneBuilder
  <2>2. CASE state # "BUILDING"
    <3>1. Builders = {}
      BY <1>1, <2>2 DEF IInv, BuilderInv, Builders
    <3> QED
      BY <2>2, <3>1, FS_EmptySet DEF OneBuilder
  <2> QED
    BY <2>1, <2>2
<1> QED
  BY <1>1, CacheInvariance, PTL

\* Whatever the size of the remote result and however many builds fail, readers see
\* nothing but a sealed database with every row (vps_query_cache_acquire).
THEOREM CachePublishedIsComplete == Spec => []PublishedIsComplete
<1>1. IInv => PublishedIsComplete
  BY DEF IInv, DatabaseInv
<1> QED
  BY <1>1, CacheInvariance, PTL

\* The lease count is the number of readers for any number of cursors, each on the
\* published snapshot (vps_query_cache_acquire, vps_query_cache_lease_release).
THEOREM CacheLeasesCounted == Spec => []LeasesCounted
<1>1. IInv => LeasesCounted
  BY DEF IInv, LeaseInv
<1> QED
  BY <1>1, CacheInvariance, PTL

\* Every private database is closed in the end, and vps_table_cleanup never frees a
\* table whose cache is busy.
THEOREM CacheNothingLeaks == Spec => []NothingLeaks
<1>1. ASSUME IInv PROVE NothingLeaks
  <2>1. published # 0 => published \in Databases /\ database[published].open
    BY <1>1, QueryCacheAssumption DEF IInv, TypeOK, DatabaseInv, PublishedIsComplete, Databases
  <2>2. \A c \in Cursors : candidate[c] # 0 =>
            candidate[c] \in Databases /\ database[candidate[c]].open
    BY <1>1, QueryCacheAssumption DEF IInv, TypeOK, DatabaseInv, Databases
  <2>3. \A d \in Databases : database[d].open =>
            d # 0 /\ (d = published \/ \E c \in Cursors : d = candidate[c])
    BY <1>1 DEF IInv, DatabaseInv, Databases
  <2>4. {d \in Databases : database[d].open} =
            ({published} \cup {candidate[c] : c \in Cursors}) \ {0}
    BY <2>1, <2>2, <2>3
  <2> QED
    BY <1>1, <2>4 DEF IInv, CursorInv, NothingLeaks
<1> QED
  BY <1>1, CacheInvariance, PTL

\* Until the table is cleaned up no step of any thread changes the published snapshot
\* or executes the remote query again: builders find nothing published, and a failed
\* candidate that is closed late is another database.
THEOREM CacheSnapshotIsFinal == Spec => SnapshotIsFinal
<1> DEFINE Kept == published # 0 /\ table' = "connected" =>
                       /\ published' = published
                       /\ generation' = generation
                       /\ database'[published] = database[published]
                       /\ executions' = executions
<1>1. ASSUME IInv, [Next]_vars PROVE Kept
  <2> SUFFICES ASSUME published # 0, table' = "connected"
               PROVE  /\ published' = published /\ generation' = generation
                      /\ database'[published] = database[published]
                      /\ executions' = executions
    OBVIOUS
  <2>1. \A c \in Cursors : c \notin Builders
    BY <1>1, BuilderFacts
  <2>2. ASSUME NEW c \in Cursors, Open(c) \/ ScanOpen(c) \/ Filter(c) \/ Close(c)
        PROVE  UNCHANGED <<published, generation, database, executions>>
    BY <2>2 DEF Open, ScanOpen, Filter, Close, CursorRelease, LeaseRelease, cacheVars
  <2>3. ASSUME NEW c \in Cursors, Wait(c) \/ WaitReturns(c) \/ TimeoutPasses(c)
        PROVE  UNCHANGED <<published, generation, database, executions>>
    BY <2>3 DEF Wait, WaitForBuild, WaitStops, AcquireReady, AcquireBuild, WaitReturns,
                TimeoutPasses, cacheVars
  <2>4. ASSUME NEW c \in Cursors, Build(c)
        PROVE  /\ UNCHANGED <<published, generation, executions>>
               /\ database'[published] = database[published]
    <3>1. Discard(c)
      BY <2>1, <2>4 DEF Builders, Build, BuildOpens, BuildExecutes, BuildRow, BuildFails,
                        BuildSeals, Publish
    <3>2. published \in Databases /\ published # candidate[c]
      BY <1>1, QueryCacheAssumption DEF IInv, TypeOK, CandidateInv, Databases
    <3> QED
      BY <3>1, <3>2 DEF Discard, cacheVars
  <2>5. ~Cleanup
    BY DEF Cleanup
  <2>6. CASE UNCHANGED vars
    BY <2>6 DEF vars, cacheVars
  <2> QED
    BY <1>1, <2>2, <2>3, <2>4, <2>5, <2>6 DEF Next
<1>2. IInv /\ [Next]_vars => [Kept]_vars
  BY <1>1
<1> QED
  BY <1>2, CacheInvariance, PTL DEF Spec, SnapshotIsFinal
=============================================================================
