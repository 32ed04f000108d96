-------------------------- MODULE OperationsProofs --------------------------
(***************************************************************************)
(* Proofs about Migration, for any number of services and indexes, faults  *)
(* and lost sessions, and about Monitor, for all of its time limits.       *)
(*                                                                         *)
(* The migration's work is only as good as its lock: an index a service    *)
(* found or made valid stays so because nobody else is at work.  Its       *)
(* invariant therefore says who holds the lock (Held), what each step of   *)
(* the work knows (Work), and what a recorded version means (Done).        *)
(***************************************************************************)
EXTENDS Migration, Monitor, FiniteSetTheorems, TLAPS

AtWork   == Migrating \ {"cleanup"}
Building == {"inspect", "drop", "create", "build", "wait", "verify"}
Passed   == {"unlock", "claim", "running", "serving"}

AllValid  == \A i \in Index : index[i] = "valid"
Before(n) == \A i \in Index : i < n => index[i] = "valid"

Roles == \A p \in Service : pc[p] \in {"claim", "running"} => p \in Indexers
Held  == \A p \in Service : pc[p] \in AtWork => migrateLock = p
Fresh == version = 0 => \A i \in Index : index[i] = "none"
Done  == version = Latest => AllValid
Work  == \A p \in Service :
  /\ pc[p] \in Building => version = Online /\ Before(at[p])
  /\ pc[p] \in {"drop", "build", "wait"} => index[at[p]] # "valid"
  /\ pc[p] = "verify" => index[at[p]] = "valid"
  /\ pc[p] = "record" => AllValid
  /\ pc[p] = "schema" => version = 0
  /\ pc[p] \in Passed => version = Latest

Core == TypeOK /\ Roles /\ Held /\ NoLeakedLock /\ Fresh /\ Done /\ Work

\* Indexers that run on without their session.
Orphaned == Running \ {indexerLock}
Sessions == IsFiniteSet(Orphaned) /\ Cardinality(Orphaned) <= halfOpen

IInv == Core /\ Sessions

-----------------------------------------------------------------------------
\* One lemma per action: types and roles, then the locks, then the work.

\* The next index is an index; the last one leads to the record.
LEMMA EnsuredNext ==
  ASSUME NEW p \in Service, TypeOK, Ensured(p)
  PROVE  at' \in [Service -> Index] /\ \E next \in {"record", "inspect"} : Goto(p, next)
<1>1. CASE at[p] = IndexCount
  BY <1>1 DEF TypeOK, Ensured
<1>2. CASE at[p] # IndexCount
  <2>1. at[p] + 1 \in Index
    BY <1>2, MigrationAssumption DEF TypeOK, Index
  <2>2. at' = [at EXCEPT ![p] = at[p] + 1] /\ Goto(p, "inspect")
    BY <1>2 DEF Ensured
  <2>. QED
    BY <2>1, <2>2 DEF TypeOK
<1>. QED
  BY <1>1, <1>2

\* Start: a service that starts, or is started again, waits for the lock.
LEMMA StartCore == ASSUME NEW p \in Service, Core, Start(p) PROVE Core'
<1>1. TypeOK' /\ Roles'
  BY MigrationAssumption DEF Core, TypeOK, Roles, Migrating, Index, Free, Online, Latest, Goto,
    Start
<1>2. Held' /\ NoLeakedLock'
  BY MigrationAssumption DEF Core, TypeOK, Held, NoLeakedLock, AtWork, Migrating, Free, Goto,
    Start
<1>3. Fresh' /\ Done' /\ Work'
  BY <1>1, <1>2 DEF Core, TypeOK, Held, Fresh, Done, Work, AtWork, Building, Passed, Migrating,
    AllValid, Before, Index, Online, Latest, Goto, Start
<1>. QED
  BY <1>1, <1>2, <1>3 DEF Core

\* AcquireLock: the lock was free, so nobody was at work; a dead client gets nothing.
LEMMA AcquireLockCore == ASSUME NEW p \in Service, Core, AcquireLock(p) PROVE Core'
<1>1. TypeOK' /\ Roles'
  BY MigrationAssumption DEF Core, TypeOK, Roles, Migrating, Index, Free, Online, Latest, Goto,
    AcquireLock, LockGranted, StatementEnds
<1>2. Held' /\ NoLeakedLock'
  BY MigrationAssumption DEF Core, TypeOK, Held, NoLeakedLock, AtWork, Migrating, Free, Goto,
    AcquireLock, LockGranted, StatementEnds
<1>3. Fresh' /\ Done' /\ Work'
  BY <1>1, <1>2 DEF Core, TypeOK, Held, Fresh, Done, Work, AtWork, Building, Passed, Migrating,
    AllValid, Before, Index, Online, Latest, Goto, AcquireLock, LockGranted, StatementEnds
<1>. QED
  BY <1>1, <1>2, <1>3 DEF Core

\* ReadVersion: the version says where the work begins, with no index looked at.
LEMMA ReadVersionCore == ASSUME NEW p \in Service, Core, ReadVersion(p) PROVE Core'
<1>1. TypeOK' /\ Roles'
  BY MigrationAssumption DEF Core, TypeOK, Roles, Migrating, Index, Free, Online, Latest, Goto,
    ReadVersion
<1>2. Held' /\ NoLeakedLock'
  BY MigrationAssumption DEF Core, TypeOK, Held, NoLeakedLock, AtWork, Migrating, Free, Goto,
    ReadVersion
<1>3. Fresh' /\ Done' /\ Work'
  BY <1>1, <1>2 DEF Core, TypeOK, Held, Fresh, Done, Work, AtWork, Building, Passed, Migrating,
    AllValid, Before, Index, Online, Latest, Goto, ReadVersion
<1>. QED
  BY <1>1, <1>2, <1>3 DEF Core

\* ApplySchema: a database without tables gets them all.
LEMMA ApplySchemaCore == ASSUME NEW p \in Service, Core, ApplySchema(p) PROVE Core'
<1>1. TypeOK' /\ Roles'
  BY MigrationAssumption DEF Core, TypeOK, Roles, Migrating, Index, Free, Online, Latest, Goto,
    ApplySchema
<1>2. Held' /\ NoLeakedLock'
  BY MigrationAssumption DEF Core, TypeOK, Held, NoLeakedLock, AtWork, Migrating, Free, Goto,
    ApplySchema
<1>3. Fresh' /\ Done' /\ Work'
  BY <1>1, <1>2 DEF Core, TypeOK, Held, Fresh, Done, Work, AtWork, Building, Passed, Migrating,
    AllValid, Before, Index, Online, Latest, Goto, ApplySchema
<1>. QED
  BY <1>1, <1>2, <1>3 DEF Core

\* InspectIndex: the index is valid and done, or its service will make it so.
LEMMA InspectIndexCore == ASSUME NEW p \in Service, Core, InspectIndex(p) PROVE Core'
<1>1. TypeOK' /\ Roles'
  <2>1. at' \in [Service -> Index] /\ \E next \in {"record", "inspect", "create", "drop", "cleanup"} : Goto(p, next)
    BY EnsuredNext DEF Core, TypeOK, InspectIndex
  <2>. QED
    BY <2>1 DEF Core, TypeOK, Roles, Migrating, Goto, InspectIndex
<1>2. Held' /\ NoLeakedLock'
  BY MigrationAssumption DEF Core, TypeOK, Held, NoLeakedLock, AtWork, Migrating, Free, Goto,
    InspectIndex, Ensured, Usable
<1>3. Fresh' /\ Done' /\ Work'
  BY <1>1, <1>2 DEF Core, TypeOK, Held, Fresh, Done, Work, AtWork, Building, Passed, Migrating,
    AllValid, Before, Index, Online, Latest, Goto, InspectIndex, Ensured, Usable
<1>. QED
  BY <1>1, <1>2, <1>3 DEF Core

\* DropIndex: only an index that is not valid is dropped.
LEMMA DropIndexCore == ASSUME NEW p \in Service, Core, DropIndex(p) PROVE Core'
<1>1. TypeOK' /\ Roles'
  BY MigrationAssumption DEF Core, TypeOK, Roles, Migrating, Index, Free, Online, Latest, Goto,
    DropIndex
<1>2. Held' /\ NoLeakedLock'
  BY MigrationAssumption DEF Core, TypeOK, Held, NoLeakedLock, AtWork, Migrating, Free, Goto,
    DropIndex
<1>3. Fresh' /\ Done' /\ Work'
  BY <1>1, <1>2 DEF Core, TypeOK, Held, Fresh, Done, Work, AtWork, Building, Passed, Migrating,
    AllValid, Before, Index, Online, Latest, Goto, DropIndex
<1>. QED
  BY <1>1, <1>2, <1>3 DEF Core

\* CreateIndex: the new index is invalid until it is built.
LEMMA CreateIndexCore == ASSUME NEW p \in Service, Core, CreateIndex(p) PROVE Core'
<1>1. TypeOK' /\ Roles'
  BY MigrationAssumption DEF Core, TypeOK, Roles, Migrating, Index, Free, Online, Latest, Goto,
    CreateIndex
<1>2. Held' /\ NoLeakedLock'
  BY MigrationAssumption DEF Core, TypeOK, Held, NoLeakedLock, AtWork, Migrating, Free, Goto,
    CreateIndex
<1>3. Fresh' /\ Done' /\ Work'
  BY <1>1, <1>2 DEF Core, TypeOK, Held, Fresh, Done, Work, AtWork, Building, Passed, Migrating,
    AllValid, Before, Index, Online, Latest, Goto, CreateIndex
<1>. QED
  BY <1>1, <1>2, <1>3 DEF Core

\* FinishScan: the build only waits.
LEMMA FinishScanCore == ASSUME NEW p \in Service, Core, FinishScan(p) PROVE Core'
<1>1. TypeOK' /\ Roles'
  BY MigrationAssumption DEF Core, TypeOK, Roles, Migrating, Index, Free, Online, Latest, Goto,
    FinishScan
<1>2. Held' /\ NoLeakedLock'
  BY MigrationAssumption DEF Core, TypeOK, Held, NoLeakedLock, AtWork, Migrating, Free, Goto,
    FinishScan
<1>3. Fresh' /\ Done' /\ Work'
  BY <1>1, <1>2 DEF Core, TypeOK, Held, Fresh, Done, Work, AtWork, Building, Passed, Migrating,
    AllValid, Before, Index, Online, Latest, Goto, FinishScan
<1>. QED
  BY <1>1, <1>2, <1>3 DEF Core

\* FinishBuild: the index is valid, with or without its client.
LEMMA FinishBuildCore == ASSUME NEW p \in Service, Core, FinishBuild(p) PROVE Core'
<1>1. TypeOK' /\ Roles'
  BY MigrationAssumption DEF Core, TypeOK, Roles, Migrating, Index, Free, Online, Latest, Goto,
    FinishBuild, EndSession, Without
<1>2. Held' /\ NoLeakedLock'
  BY MigrationAssumption DEF Core, TypeOK, Held, NoLeakedLock, AtWork, Migrating, Free, Goto,
    FinishBuild, EndSession, Without
<1>3. Fresh' /\ Done' /\ Work'
  BY <1>1, <1>2 DEF Core, TypeOK, Held, Fresh, Done, Work, AtWork, Building, Passed, Migrating,
    AllValid, Before, Index, Online, Latest, Goto, FinishBuild, EndSession, Without
<1>. QED
  BY <1>1, <1>2, <1>3 DEF Core

\* VerifyIndex: the index was found valid, and the ones before it are.
LEMMA VerifyIndexCore == ASSUME NEW p \in Service, Core, VerifyIndex(p) PROVE Core'
<1>1. TypeOK' /\ Roles'
  <2>1. at' \in [Service -> Index] /\ \E next \in {"record", "inspect", "cleanup"} : Goto(p, next)
    BY EnsuredNext DEF Core, TypeOK, VerifyIndex
  <2>. QED
    BY <2>1 DEF Core, TypeOK, Roles, Migrating, Goto, VerifyIndex
<1>2. Held' /\ NoLeakedLock'
  BY MigrationAssumption DEF Core, TypeOK, Held, NoLeakedLock, AtWork, Migrating, Free, Goto,
    VerifyIndex, Ensured
<1>3. Fresh' /\ Done' /\ Work'
  BY <1>1, <1>2 DEF Core, TypeOK, Held, Fresh, Done, Work, AtWork, Building, Passed, Migrating,
    AllValid, Before, Index, Online, Latest, Goto, VerifyIndex, Ensured
<1>. QED
  BY <1>1, <1>2, <1>3 DEF Core

\* RecordVersion: the version is recorded when all indexes are valid.
LEMMA RecordVersionCore == ASSUME NEW p \in Service, Core, RecordVersion(p) PROVE Core'
<1>1. TypeOK' /\ Roles'
  BY MigrationAssumption DEF Core, TypeOK, Roles, Migrating, Index, Free, Online, Latest, Goto,
    RecordVersion
<1>2. Held' /\ NoLeakedLock'
  BY MigrationAssumption DEF Core, TypeOK, Held, NoLeakedLock, AtWork, Migrating, Free, Goto,
    RecordVersion
<1>3. Fresh' /\ Done' /\ Work'
  BY <1>1, <1>2 DEF Core, TypeOK, Held, Fresh, Done, Work, AtWork, Building, Passed, Migrating,
    AllValid, Before, Index, Online, Latest, Goto, RecordVersion
<1>. QED
  BY <1>1, <1>2, <1>3 DEF Core

\* Release: who gives the lock back is no longer at work.
LEMMA ReleaseCore == ASSUME NEW p \in Service, Core, Release(p) PROVE Core'
<1>1. TypeOK' /\ Roles'
  BY MigrationAssumption DEF Core, TypeOK, Roles, Migrating, Index, Free, Online, Latest, Goto,
    Release, Without
<1>2. Held' /\ NoLeakedLock'
  BY MigrationAssumption DEF Core, TypeOK, Held, NoLeakedLock, AtWork, Migrating, Free, Goto,
    Release, Without
<1>3. Fresh' /\ Done' /\ Work'
  BY <1>1, <1>2 DEF Core, TypeOK, Held, Fresh, Done, Work, AtWork, Building, Passed, Migrating,
    AllValid, Before, Index, Online, Latest, Goto, Release, Without
<1>. QED
  BY <1>1, <1>2, <1>3 DEF Core

\* ReleaseFails: who cannot give the lock back loses the session and the lock with it.
LEMMA ReleaseFailsCore == ASSUME NEW p \in Service, Core, ReleaseFails(p) PROVE Core'
<1>1. TypeOK' /\ Roles'
  BY MigrationAssumption DEF Core, TypeOK, Roles, Migrating, Index, Free, Online, Latest, Goto,
    ReleaseFails, LockAfterFailedUnlock, Without
<1>2. Held' /\ NoLeakedLock'
  BY MigrationAssumption DEF Core, TypeOK, Held, NoLeakedLock, AtWork, Migrating, Free, Goto,
    ReleaseFails, LockAfterFailedUnlock, Without
<1>3. Fresh' /\ Done' /\ Work'
  BY <1>1, <1>2 DEF Core, TypeOK, Held, Fresh, Done, Work, AtWork, Building, Passed, Migrating,
    AllValid, Before, Index, Online, Latest, Goto, ReleaseFails, LockAfterFailedUnlock, Without
<1>. QED
  BY <1>1, <1>2, <1>3 DEF Core

\* Claim: an indexer that goes on to run has passed its migration.
LEMMA ClaimCore == ASSUME NEW p \in Service, Core, Claim(p) PROVE Core'
<1>1. TypeOK' /\ Roles'
  BY MigrationAssumption DEF Core, TypeOK, Roles, Migrating, Index, Free, Online, Latest, Goto,
    Claim, Claimed
<1>2. Held' /\ NoLeakedLock'
  BY MigrationAssumption DEF Core, TypeOK, Held, NoLeakedLock, AtWork, Migrating, Free, Goto,
    Claim, Claimed
<1>3. Fresh' /\ Done' /\ Work'
  BY <1>1, <1>2 DEF Core, TypeOK, Held, Fresh, Done, Work, AtWork, Building, Passed, Migrating,
    AllValid, Before, Index, Online, Latest, Goto, Claim, Claimed
<1>. QED
  BY <1>1, <1>2, <1>3 DEF Core

\* Finish: a service that ends gives its lock back.
LEMMA FinishCore == ASSUME NEW p \in Service, Core, Finish(p) PROVE Core'
<1>1. TypeOK' /\ Roles'
  BY MigrationAssumption DEF Core, TypeOK, Roles, Migrating, Index, Free, Online, Latest, Goto,
    Finish, Without
<1>2. Held' /\ NoLeakedLock'
  BY MigrationAssumption DEF Core, TypeOK, Held, NoLeakedLock, AtWork, Migrating, Free, Goto,
    Finish, Without
<1>3. Fresh' /\ Done' /\ Work'
  BY <1>1, <1>2 DEF Core, TypeOK, Held, Fresh, Done, Work, AtWork, Building, Passed, Migrating,
    AllValid, Before, Index, Online, Latest, Goto, Finish, Without
<1>. QED
  BY <1>1, <1>2, <1>3 DEF Core

\* Crash: a session goes with its process, or with the statement it runs.
LEMMA CrashCore == ASSUME NEW p \in Service, Core, Crash(p) PROVE Core'
<1>1. TypeOK' /\ Roles'
  BY MigrationAssumption DEF Core, TypeOK, Roles, Migrating, Index, Free, Online, Latest, Goto,
    Crash, EndSession, Without, InStatement
<1>2. Held' /\ NoLeakedLock'
  BY MigrationAssumption DEF Core, TypeOK, Held, NoLeakedLock, AtWork, Migrating, Free, Goto,
    Crash, EndSession, Without, InStatement
<1>3. Fresh' /\ Done' /\ Work'
  BY <1>1, <1>2 DEF Core, TypeOK, Held, Fresh, Done, Work, AtWork, Building, Passed, Migrating,
    AllValid, Before, Index, Online, Latest, Goto, Crash, EndSession, Without, InStatement
<1>. QED
  BY <1>1, <1>2, <1>3 DEF Core

\* LoseSession: a lost session is not at work.
LEMMA LoseSessionCore == ASSUME NEW p \in Service, Core, LoseSession(p) PROVE Core'
<1>1. TypeOK' /\ Roles'
  BY MigrationAssumption DEF Core, TypeOK, Roles, Migrating, Index, Free, Online, Latest, Goto,
    LoseSession, EndSession, Without
<1>2. Held' /\ NoLeakedLock'
  BY MigrationAssumption DEF Core, TypeOK, Held, NoLeakedLock, AtWork, Migrating, Free, Goto,
    LoseSession, EndSession, Without
<1>3. Fresh' /\ Done' /\ Work'
  BY <1>1, <1>2 DEF Core, TypeOK, Held, Fresh, Done, Work, AtWork, Building, Passed, Migrating,
    AllValid, Before, Index, Online, Latest, Goto, LoseSession, EndSession, Without
<1>. QED
  BY <1>1, <1>2, <1>3 DEF Core

\* LoseHalf: the migration is not concerned.
LEMMA LoseHalfCore == ASSUME NEW p \in Service, Core, LoseHalf(p) PROVE Core'
<1>1. TypeOK' /\ Roles'
  BY MigrationAssumption DEF Core, TypeOK, Roles, Migrating, Index, Free, Online, Latest, Goto,
    LoseHalf
<1>2. Held' /\ NoLeakedLock'
  BY MigrationAssumption DEF Core, TypeOK, Held, NoLeakedLock, AtWork, Migrating, Free, Goto,
    LoseHalf
<1>3. Fresh' /\ Done' /\ Work'
  BY <1>1, <1>2 DEF Core, TypeOK, Held, Fresh, Done, Work, AtWork, Building, Passed, Migrating,
    AllValid, Before, Index, Online, Latest, Goto, LoseHalf
<1>. QED
  BY <1>1, <1>2, <1>3 DEF Core

\* CancelDeadlock: the cancelled statement leaves its service without work.
LEMMA CancelDeadlockCore == ASSUME NEW p \in Service, NEW q \in Service, Core, CancelDeadlock(p, q) PROVE Core'
<1>. PICK victim \in {p, q} :
       /\ \/ Goto(victim, "off") /\ EndSession(victim)
          \/ Goto(victim, "cleanup") /\ UNCHANGED <<migrateLock, indexerLock, dead>>
       /\ awaits' = [s \in Service |-> IF s = victim THEN {} ELSE awaits[s] \ {victim}]
       /\ UNCHANGED <<version, index, at, faults, halfOpen>>
  BY DEF CancelDeadlock
<1>1. TypeOK' /\ Roles'
  <2>1. awaits' \in [Service -> SUBSET Service]
    BY DEF Core, TypeOK
  <2>2. pc' \in [Service -> {"off", "lock", "failed", "claim", "running", "serving"} \cup Migrating]
        /\ Roles'
    BY DEF Core, TypeOK, Roles, Migrating, Goto
  <2>3. /\ migrateLock' \in Service \cup {Free} /\ indexerLock' \in Indexers \cup {Free}
        /\ dead' \subseteq Service
    BY DEF Core, TypeOK, EndSession, Without
  <2>. QED
    BY <2>1, <2>2, <2>3 DEF Core, TypeOK
<1>2. Held' /\ NoLeakedLock'
  BY MigrationAssumption DEF Core, TypeOK, Held, NoLeakedLock, AtWork, Migrating, Free, Goto,
    CancelDeadlock, EndSession, Without
<1>3. Fresh' /\ Done' /\ Work'
  BY <1>1, <1>2 DEF Core, TypeOK, Held, Fresh, Done, Work, AtWork, Building, Passed, Migrating,
    AllValid, Before, Index, Online, Latest, Goto, CancelDeadlock, EndSession, Without
<1>. QED
  BY <1>1, <1>2, <1>3 DEF Core

-----------------------------------------------------------------------------
\* Nobody is at work and no lock is held at the start.
LEMMA InitCore == ASSUME Init PROVE Core
<1>1. TypeOK /\ Roles
  BY MigrationAssumption DEF Init, TypeOK, Roles, Index, Free, Online
<1>2. Held /\ NoLeakedLock /\ Fresh /\ Done /\ Work
  BY DEF Init, Held, NoLeakedLock, Fresh, Done, Work, AtWork, Migrating, Building, Passed, Free,
    Online, Latest
<1>. QED
  BY <1>1, <1>2 DEF Core

\* Every action keeps the core of the invariant.
LEMMA NextCore == ASSUME Core, [Next]_vars PROVE Core'
<1>1. CASE UNCHANGED vars
  BY <1>1 DEF vars, Core, TypeOK, Roles, Held, NoLeakedLock, Fresh, Done, Work, AllValid, Before
<1>2. CASE \E p, q \in Service : CancelDeadlock(p, q)
  BY <1>2, CancelDeadlockCore
<1>3. ASSUME NEW p \in Service,
             \/ Start(p) \/ AcquireLock(p) \/ ReadVersion(p) \/ ApplySchema(p) \/ InspectIndex(p)
             \/ DropIndex(p) \/ CreateIndex(p) \/ FinishScan(p) \/ FinishBuild(p)
      PROVE  Core'
  BY <1>3, StartCore, AcquireLockCore, ReadVersionCore, ApplySchemaCore, InspectIndexCore,
    DropIndexCore, CreateIndexCore, FinishScanCore, FinishBuildCore
<1>4. ASSUME NEW p \in Service,
             \/ VerifyIndex(p) \/ RecordVersion(p) \/ Release(p) \/ ReleaseFails(p) \/ Claim(p)
             \/ Finish(p) \/ Crash(p) \/ LoseSession(p) \/ LoseHalf(p)
      PROVE  Core'
  BY <1>4, VerifyIndexCore, RecordVersionCore, ReleaseCore, ReleaseFailsCore, ClaimCore,
    FinishCore, CrashCore, LoseSessionCore, LoseHalfCore
<1>. QED
  BY <1>1, <1>2, <1>3, <1>4 DEF Next

-----------------------------------------------------------------------------
\* Only a session given up behind the indexer's back adds an orphaned indexer.
LEMMA OrphansStay ==
  ASSUME Core, [Next]_vars, ~ \E p \in Service : LoseHalf(p)
  PROVE  Orphaned' \subseteq Orphaned /\ halfOpen' = halfOpen
<1>. USE DEF Orphaned, Running, Core, TypeOK, Goto
<1>1. CASE UNCHANGED vars
  BY <1>1 DEF vars
<1>2. ASSUME NEW p \in Service, NEW q \in Service, CancelDeadlock(p, q)
      PROVE  Orphaned' \subseteq Orphaned /\ halfOpen' = halfOpen
  BY <1>2 DEF CancelDeadlock, EndSession, Without
<1>3. ASSUME NEW p \in Service, Start(p)
      PROVE  Orphaned' \subseteq Orphaned /\ halfOpen' = halfOpen
  BY <1>3 DEF Start
<1>4. ASSUME NEW p \in Service, AcquireLock(p)
      PROVE  Orphaned' \subseteq Orphaned /\ halfOpen' = halfOpen
  BY <1>4 DEF AcquireLock, LockGranted, StatementEnds
<1>5. ASSUME NEW p \in Service, ReadVersion(p)
      PROVE  Orphaned' \subseteq Orphaned /\ halfOpen' = halfOpen
  BY <1>5 DEF ReadVersion
<1>6. ASSUME NEW p \in Service, ApplySchema(p)
      PROVE  Orphaned' \subseteq Orphaned /\ halfOpen' = halfOpen
  BY <1>6 DEF ApplySchema
<1>7. ASSUME NEW p \in Service, InspectIndex(p)
      PROVE  Orphaned' \subseteq Orphaned /\ halfOpen' = halfOpen
  BY <1>7 DEF InspectIndex, Ensured, Usable
<1>8. ASSUME NEW p \in Service, DropIndex(p)
      PROVE  Orphaned' \subseteq Orphaned /\ halfOpen' = halfOpen
  BY <1>8 DEF DropIndex
<1>9. ASSUME NEW p \in Service, CreateIndex(p)
      PROVE  Orphaned' \subseteq Orphaned /\ halfOpen' = halfOpen
  BY <1>9 DEF CreateIndex
<1>10. ASSUME NEW p \in Service, FinishScan(p)
      PROVE  Orphaned' \subseteq Orphaned /\ halfOpen' = halfOpen
  BY <1>10 DEF FinishScan
<1>11. ASSUME NEW p \in Service, FinishBuild(p)
      PROVE  Orphaned' \subseteq Orphaned /\ halfOpen' = halfOpen
  BY <1>11 DEF FinishBuild, EndSession, Without, Free
<1>12. ASSUME NEW p \in Service, VerifyIndex(p)
      PROVE  Orphaned' \subseteq Orphaned /\ halfOpen' = halfOpen
  BY <1>12 DEF VerifyIndex, Ensured
<1>13. ASSUME NEW p \in Service, RecordVersion(p)
      PROVE  Orphaned' \subseteq Orphaned /\ halfOpen' = halfOpen
  BY <1>13 DEF RecordVersion
<1>14. ASSUME NEW p \in Service, Release(p)
      PROVE  Orphaned' \subseteq Orphaned /\ halfOpen' = halfOpen
  BY <1>14 DEF Release, Without
<1>15. ASSUME NEW p \in Service, ReleaseFails(p)
      PROVE  Orphaned' \subseteq Orphaned /\ halfOpen' = halfOpen
  BY <1>15 DEF ReleaseFails, LockAfterFailedUnlock, Without
<1>16. ASSUME NEW p \in Service, Claim(p)
      PROVE  Orphaned' \subseteq Orphaned /\ halfOpen' = halfOpen
  BY <1>16, MigrationAssumption DEF Claim, Claimed, Free
<1>17. ASSUME NEW p \in Service, Finish(p)
      PROVE  Orphaned' \subseteq Orphaned /\ halfOpen' = halfOpen
  BY <1>17 DEF Finish, Without, Free
<1>18. ASSUME NEW p \in Service, Crash(p)
      PROVE  Orphaned' \subseteq Orphaned /\ halfOpen' = halfOpen
  BY <1>18 DEF Crash, EndSession, Without, InStatement, Free
<1>19. ASSUME NEW p \in Service, LoseSession(p)
      PROVE  Orphaned' \subseteq Orphaned /\ halfOpen' = halfOpen
  BY <1>19 DEF LoseSession, EndSession, Without, Free
<1>. QED
  BY <1>1, <1>2, <1>3, <1>4, <1>5, <1>6, <1>7, <1>8, <1>9, <1>10, <1>11, <1>12, <1>13, <1>14, <1>15, <1>16, <1>17, <1>18, <1>19 DEF Next

\* A session given up makes its indexer, and no other, an orphan.
LEMMA OrphanAdded ==
  ASSUME Core, NEW p \in Service, LoseHalf(p)
  PROVE  Orphaned' = Orphaned \cup {p} /\ p \notin Orphaned /\ halfOpen' = halfOpen + 1
BY MigrationAssumption DEF LoseHalf, Orphaned, Running, Core, TypeOK, Free

\* No indexer runs at the start.
LEMMA InitSessions == ASSUME Init PROVE Sessions
<1>1. Orphaned = {} /\ halfOpen = 0
  BY DEF Init, Orphaned, Running
<1>. QED
  BY <1>1, FS_EmptySet DEF Sessions

\* The orphans are never more than the sessions given up.
LEMMA NextSessions == ASSUME Core, Sessions, [Next]_vars PROVE Sessions'
<1>1. CASE \E p \in Service : LoseHalf(p)
  <2>. PICK p \in Service : LoseHalf(p)
    BY <1>1
  <2>1. Orphaned' = Orphaned \cup {p} /\ p \notin Orphaned /\ halfOpen' = halfOpen + 1
    BY OrphanAdded
  <2>2. IsFiniteSet(Orphaned') /\ Cardinality(Orphaned') = Cardinality(Orphaned) + 1
    BY <2>1, FS_AddElement DEF Sessions
  <2>. QED
    BY <2>1, <2>2, FS_CardinalityType DEF Sessions, Core, TypeOK
<1>2. CASE ~ \E p \in Service : LoseHalf(p)
  <2>1. Orphaned' \subseteq Orphaned /\ halfOpen' = halfOpen
    BY <1>2, OrphansStay
  <2>2. IsFiniteSet(Orphaned') /\ Cardinality(Orphaned') <= Cardinality(Orphaned)
    BY <2>1, FS_Subset DEF Sessions
  <2>3. Cardinality(Orphaned) \in Nat /\ Cardinality(Orphaned') \in Nat
    BY <2>2, FS_CardinalityType DEF Sessions
  <2>. QED
    BY <2>1, <2>2, <2>3 DEF Sessions, Core, TypeOK
<1>. QED
  BY <1>1, <1>2

-----------------------------------------------------------------------------
\* The inductive invariant holds in every reachable state.
THEOREM Invariance == Spec => []IInv
<1>1. Init => IInv
  BY InitCore, InitSessions DEF IInv
<1>2. IInv /\ [Next]_vars => IInv'
  BY NextCore, NextSessions DEF IInv
<1>. QED
  BY <1>1, <1>2, PTL DEF Spec

\* The state is well typed; only indexers hold the indexer lock.
THEOREM TypeCorrect == Spec => []TypeOK
<1>1. IInv => TypeOK
  BY DEF IInv, Core
<1>. QED
  BY <1>1, Invariance, PTL

\* A service that has passed its migration finds every index valid, however
\* many services start at once and whatever becomes of their builds.
THEOREM MigrationIsComplete == Spec => []ServesMigrated
<1>1. IInv => ServesMigrated
  BY DEF IInv, Core, Done, Work, Passed, AllValid, ServesMigrated
<1>. QED
  BY <1>1, Invariance, PTL

\* The migration lock is held by a service at work, or by its dead session's
\* statement, and by nobody else.
THEOREM LockIsNotLeaked == Spec => []NoLeakedLock
<1>1. IInv => NoLeakedLock
  BY DEF IInv, Core
<1>. QED
  BY <1>1, Invariance, PTL

\* Two indexers write at once only after the server gave up a session that its
\* indexer still believes in: one more for each such session.
THEOREM OneIndexerForEachSession == Spec => []OneIndexerPerSession
<1>1. ASSUME IInv PROVE OneIndexerPerSession
  <2>1. Running \subseteq Orphaned \cup {indexerLock} /\ indexerLock \notin Orphaned
    BY DEF Orphaned
  <2>2. /\ IsFiniteSet(Orphaned \cup {indexerLock})
        /\ Cardinality(Orphaned \cup {indexerLock}) = Cardinality(Orphaned) + 1
    <3>1. IsFiniteSet(Orphaned)
      BY <1>1 DEF IInv, Sessions
    <3>. QED
      BY <2>1, <3>1, FS_AddElement
  <2>3. IsFiniteSet(Running) /\ Cardinality(Running) <= Cardinality(Orphaned \cup {indexerLock})
    BY <2>1, <2>2, FS_Subset
  <2>4. /\ Cardinality(Running) \in Nat /\ Cardinality(Orphaned) \in Nat
        /\ Cardinality(Orphaned \cup {indexerLock}) \in Nat
    BY <1>1, <2>2, <2>3, FS_CardinalityType DEF IInv, Sessions
  <2>. QED
    BY <1>1, <2>2, <2>3, <2>4 DEF IInv, Sessions, Core, TypeOK, OneIndexerPerSession
<1>. QED
  BY <1>1, Invariance, PTL

\* An index that was found or built valid is never dropped or rebuilt.
THEOREM ValidIndexesStay == Spec => ValidIndexStays
<1>1. ASSUME IInv, [Next]_vars
      PROVE  \A i \in Index : index[i] = "valid" => index'[i] = "valid"
  <2>. SUFFICES ASSUME NEW i \in Index, index[i] = "valid" PROVE index'[i] = "valid"
    OBVIOUS
  <2>. USE <1>1 DEF IInv, Core, TypeOK
  <2>1. ASSUME NEW p \in Service, DropIndex(p) PROVE index'[i] = "valid"
    BY <2>1 DEF DropIndex, Work
  <2>2. ASSUME NEW p \in Service, CreateIndex(p) PROVE index'[i] = "valid"
    BY <2>2 DEF CreateIndex
  <2>3. ASSUME NEW p \in Service, FinishBuild(p) PROVE index'[i] = "valid"
    BY <2>3 DEF FinishBuild
  <2>4. ASSUME NEW p \in Service, ApplySchema(p) PROVE index'[i] = "valid"
    BY <2>4 DEF ApplySchema
  <2>5. CASE UNCHANGED index
    BY <2>5
  <2>6. \/ UNCHANGED index
        \/ \E p \in Service : DropIndex(p) \/ CreateIndex(p) \/ FinishBuild(p) \/ ApplySchema(p)
    BY DEF Next, vars, Start, AcquireLock, ReadVersion, InspectIndex, FinishScan, VerifyIndex,
      RecordVersion, Release, ReleaseFails, Claim, Finish, Crash, LoseSession, LoseHalf, CancelDeadlock
  <2>. QED
    BY <2>1, <2>2, <2>3, <2>4, <2>5, <2>6
<1>. QED
  BY <1>1, Invariance, PTL DEF Spec, ValidIndexStays

-----------------------------------------------------------------------------
(***************************************************************************)
(* Monitor.  A run's answers were true at different moments.  What is kept *)
(* of them is therefore tied to the run: either the run has already seen   *)
(* progress, or what it read lags behind (Lagging); and what it read of    *)
(* the checkpoint was no later than the indexer's last sign (Signs), and,  *)
(* while nothing has failed, not much earlier than the run (InTime).       *)
(***************************************************************************)
Known == Int

Row == [best : Known, target : Known, status : {"idle", "syncing", "ready", "error"},
        indexedAt : Known, startedAt : Known, updatedAt : Known]

Healthy == {"idle", "syncing", "ready"}

RowType ==
  /\ row \in Row /\ row.best >= None /\ cycle \in Int
  /\ now \in Nat /\ height \in Nat /\ lastSign \in Nat /\ lastSign <= now
  /\ broken \in Nat /\ moved \in BOOLEAN /\ sawProgress \in BOOLEAN /\ sawMove \in BOOLEAN

\* A run that waits for the API.
HealthRun(time, previous, chain, state) ==
  [phase |-> "health", now |-> time, previous |-> previous, chain |-> chain, state |-> state]

RunType ==
  /\ run.phase \in {"none", "health", "database", "ended"}
  /\ run.phase = "none" => run = NoRun
  /\ run.phase = "health" =>
       /\ run = HealthRun(run.now, run.previous, run.chain, run.state) /\ run.now \in Nat
       /\ run.chain = <<>> \/ (run.chain = <<run.chain[1]>> /\ run.chain[1] \in Nat)
       /\ run.state = <<>> \/ (run.state = <<run.state[1]>> /\ run.state[1] \in Row)

\* Only a failure makes a service not answer; an error is its trace or a reorganisation's.
Sound == broken = 0 => down = {} /\ (row.status \in Healthy \/ moved)

\* A cycle, and a row it has reduced to, have a start.
Begun == cycle # None \/ row.indexedAt # None => row.startedAt # None

\* What the row says of progress was a sign of the indexer.
Signed ==
  /\ row.indexedAt <= lastSign /\ row.startedAt <= lastSign
  /\ row.status \in Healthy => CheckpointAt(row) <= lastSign

\* And so was what a run has read of it.
SignRead ==
  run.phase = "health" /\ run.state # <<>> =>
    (run.state[1].status \in Healthy => CheckpointAt(run.state[1]) <= lastSign)

\* The checkpoint a run has read is a sound indexer's.
InTimeRead(state, time) ==
  (state.status \in Healthy \/ sawMove) /\ time <= CheckpointAt(state) + Poll

\* While nothing has failed checkpoints follow each other within the poll time, and
\* a call ends within its timeout.
InTime ==
  broken = 0 =>
    /\ lastSign <= CheckpointAt(row) /\ now <= lastSign + Poll
    /\ run.phase = "health" =>
         /\ run.now <= now /\ now <= run.now + Timeout
         /\ run.state # <<>> => InTimeRead(run.state[1], run.now)

\* The answers of a run that has not seen progress: the row is behind the node's height,
\* whichever was read first.
Lagging ==
  run.phase = "health" /\ ~ sawProgress =>
    /\ run.chain # <<>> /\ run.state = <<>> => row.best < run.chain[1]
    /\ run.chain = <<>> /\ run.state # <<>> => run.state[1].best < height
    /\ run.chain # <<>> /\ run.state # <<>> => run.state[1].best < run.chain[1]

\* What a run may complain of with nothing broken.
Excused ==
  (IF sawMove THEN {"degraded", "status"} ELSE {}) \cup (IF withDatabase THEN {} ELSE {"unchanged"})

\* What a run knows once the API has answered.
Answered ==
  /\ run.phase = "database" =>
       /\ run.health.failures = {} => sawProgress
       /\ broken = 0 => run.health.failures \subseteq (IF sawMove THEN {"degraded"} ELSE {})
  /\ StallIsReported /\ HealthyIsNotStale

MonitorIInv == RowType /\ RunType /\ Sound /\ Begun /\ Signed /\ SignRead /\ InTime /\ Lagging /\ Answered

LEMMA Limits ==
  /\ Stale \in Nat /\ MonitorStale \in Nat /\ Poll \in Nat /\ Timeout \in Nat
  /\ 0 < Poll /\ Poll + Timeout <= Stale /\ Poll <= MonitorStale
BY MonitorAssumption

LEMMA NoneType == None \in Int /\ \A n \in Nat : n # None /\ n >= None
BY DEF None

\* What the indexer's operations make of the row.
Syncing(s, best, target, time) ==
  [s EXCEPT !.best = best, !.target = target, !.status = "syncing",
            !.startedAt = IF s.startedAt = None THEN time ELSE s.startedAt]

Indexed(s, best, time) == [s EXCEPT !.best = best, !.status = "syncing", !.indexedAt = time]

Finished(s, target, time) == [s EXCEPT !.status = "ready", !.target = target, !.indexedAt = time]

Failed(s, time) ==
  [s EXCEPT !.status = "error",
            !.updatedAt = IF s.startedAt = None THEN time ELSE s.updatedAt]

LEMMA RowSyncing ==
  ASSUME NEW s \in Row, NEW b \in Int, NEW t \in Int, NEW n \in Int
  PROVE  LET r == Syncing(s, b, t, n)
         IN  /\ r \in Row /\ r.best = b /\ r.status = "syncing" /\ r.indexedAt = s.indexedAt
             /\ r.startedAt = (IF s.startedAt = None THEN n ELSE s.startedAt)
             /\ r.updatedAt = s.updatedAt
BY DEF Syncing, Row, Known

LEMMA RowIndexed ==
  ASSUME NEW s \in Row, NEW b \in Int, NEW n \in Int
  PROVE  LET r == Indexed(s, b, n)
         IN  /\ r \in Row /\ r.status = "syncing" /\ r.indexedAt = n /\ r.best = b
             /\ r.startedAt = s.startedAt
BY DEF Indexed, Row, Known

LEMMA RowFinished ==
  ASSUME NEW s \in Row, NEW t \in Int, NEW n \in Int
  PROVE  LET r == Finished(s, t, n)
         IN  /\ r \in Row /\ r.status = "ready" /\ r.indexedAt = n /\ r.best = s.best
             /\ r.startedAt = s.startedAt
BY DEF Finished, Row, Known

LEMMA RowFailed ==
  ASSUME NEW s \in Row, NEW n \in Int
  PROVE  LET r == Failed(s, n)
         IN  /\ r \in Row /\ r.status = "error" /\ r.best = s.best
             /\ r.indexedAt = s.indexedAt /\ r.startedAt = s.startedAt
             /\ r.updatedAt = s.updatedAt \/ (r.updatedAt = n /\ s.startedAt = None)
BY DEF Failed, Row, Known

LEMMA RowTypes ==
  ASSUME NEW s \in Row
  PROVE  /\ s.best \in Int /\ s.target \in Int /\ s.indexedAt \in Int
         /\ s.startedAt \in Int /\ s.updatedAt \in Int
         /\ s.status \in {"idle", "syncing", "ready", "error"}
BY DEF Row, Known

LEMMA MonitorInitInv == MonitorInit => MonitorIInv
<1> SUFFICES ASSUME MonitorInit PROVE MonitorIInv
  OBVIOUS
<1>1. /\ row \in Row /\ row.best = None /\ row.status = "idle"
      /\ row.indexedAt = None /\ row.startedAt = None /\ row.updatedAt = 0
  <2>1. \A n \in Int : LET r == [best |-> n, target |-> n, status |-> "idle",
                              indexedAt |-> n, startedAt |-> n, updatedAt |-> 0]
                     IN  /\ r \in Row /\ r.best = n /\ r.status = "idle" /\ r.indexedAt = n
                         /\ r.startedAt = n /\ r.updatedAt = 0
    BY DEF Row, Known
  <2> QED BY <2>1, NoneType DEF MonitorInit
<1>2. now = 0 /\ lastSign = 0 /\ height = 0 /\ cycle = None /\ down = {} /\ broken = 0
      /\ sawProgress = FALSE /\ moved = FALSE /\ sawMove = FALSE
  BY DEF MonitorInit
<1>3. RowType
  <2>1. None >= None /\ None \in Int /\ 0 \in Nat /\ 0 <= 0
    BY NoneType
  <2> QED BY <1>1, <1>2, <2>1 DEF RowType
<1>4. RunType /\ run.phase = "none" /\ run.phase # "health" /\ run.phase # "database" /\ run.phase # "ended"
  BY DEF MonitorInit, RunType, NoRun
<1>5. CheckpointAt(row) = 0
  BY <1>1, NoneType DEF CheckpointAt, FirstKnown
<1>6. Sound /\ Begun
  BY <1>1, <1>2 DEF Sound, Begun, Healthy
<1>7. Signed /\ SignRead
  BY <1>1, <1>2, <1>4, <1>5 DEF Signed, SignRead, None
<1>8. InTime
  BY <1>2, <1>4, <1>5, Limits DEF InTime
<1>9. Lagging /\ Answered
  BY <1>4 DEF Lagging, Answered, StallIsReported, HealthyIsNotStale
<1> QED BY <1>3, <1>4, <1>6, <1>7, <1>8, <1>9 DEF MonitorIInv

\* What a step makes of what the run has seen.
LEMMA Seen ==
  ASSUME MonitorNext, RunType, RunType', sawProgress \in BOOLEAN
  PROVE  /\ sawProgress' \in BOOLEAN /\ sawMove' \in BOOLEAN
         /\ run'.phase # "none" /\ InProgress' => sawProgress'
         /\ run'.phase # "none" /\ run.phase # "none" /\ sawProgress => sawProgress'
         /\ run'.phase # "none" /\ broken' = 0 /\ moved' => sawMove'
         /\ run'.phase # "none" /\ run.phase # "none" /\ broken' = 0 /\ sawMove => sawMove'
<1>1. run.phase # "none" => run # NoRun
  BY DEF NoRun
<1>2. run'.phase # "none" => run' # NoRun
  BY DEF NoRun
<1> QED BY <1>1, <1>2 DEF MonitorNext

\* The sign behind a row is a moment of the past.
LEMMA CheckpointType ==
  ASSUME NEW s \in Row PROVE CheckpointAt(s) \in Int
BY DEF CheckpointAt, FirstKnown, Row, Known

LEMMA Later ==
  /\ \A a, b, n \in Int : a <= b /\ n <= a + Poll => n <= b + Poll
  /\ \A a, b, c \in Int : a <= b /\ b <= c => a <= c
BY Limits

\* Steps that leave the run and the world alone: the indexer's.
LEMMA IndexerStep ==
  ASSUME MonitorIInv, MonitorNext, UNCHANGED <<now, height, down, broken, withDatabase, file, run>>,
         row' \in Row, row'.best >= None, cycle' \in Int, lastSign' \in {lastSign, now},
         moved' \in BOOLEAN, Begun', Signed',
         broken = 0 => (row'.status \in Healthy \/ moved') /\ lastSign' <= CheckpointAt(row)',
         row'.best > row.best => lastSign' = now
  PROVE  MonitorIInv'
<1>1. /\ RowType /\ RunType /\ Sound /\ Begun /\ Signed /\ SignRead /\ InTime /\ Lagging /\ Answered
      /\ now' = now /\ run' = run /\ broken' = broken /\ height' = height /\ down' = down
  BY DEF MonitorIInv
<1>2. lastSign <= lastSign' /\ lastSign' <= now /\ lastSign \in Int /\ lastSign' \in Nat /\ now \in Nat
  BY <1>1 DEF RowType
<1>3. RunType'
  BY <1>1 DEF RunType
<1>4. /\ sawProgress' \in BOOLEAN /\ sawMove' \in BOOLEAN
      /\ run.phase # "none" /\ InProgress' => sawProgress'
      /\ run.phase # "none" /\ sawProgress => sawProgress'
      /\ run.phase # "none" /\ broken = 0 /\ sawMove => sawMove'
  BY <1>1, <1>3, Seen DEF RowType
<1>5. RowType'
  BY <1>1, <1>2, <1>4 DEF RowType
<1>6. Sound'
  BY <1>1 DEF Sound
<1>7. SignRead'
  <2>1. run.phase = "health" /\ run.state # <<>> => CheckpointAt(run.state[1]) \in Int
    BY <1>1, CheckpointType DEF RunType
  <2>2. run.phase = "health" /\ run.state # <<>> =>
          (CheckpointAt(run.state[1]) <= lastSign => CheckpointAt(run.state[1]) <= lastSign')
    BY <1>2, <2>1, Later
  <2> QED BY <1>1, <2>2 DEF SignRead, CheckpointAt
<1>8. InTime'
  <2>1. now <= lastSign + Poll => now <= lastSign' + Poll
    BY <1>2, Later
  <2> QED BY <1>1, <1>4, <2>1 DEF InTime, InTimeRead, CheckpointAt
<1>9. lastSign' = now => InProgress'
  BY <1>1, <1>2, Limits DEF InProgress
<1>10. Lagging'
  <2>1. CASE sawProgress' \/ run.phase # "health"
    BY <1>1, <2>1 DEF Lagging
  <2>2. CASE ~ sawProgress' /\ run.phase = "health"
    <3>1. ~ sawProgress /\ ~ InProgress'
      BY <1>4, <2>2
    <3>2. row'.best <= row.best /\ row.best \in Int /\ row'.best \in Int
      <4>1. row.best \in Int /\ row'.best \in Int
        BY <1>1, RowTypes DEF RowType
      <4> QED BY <1>9, <3>1, <4>1
    <3>3. run.chain # <<>> /\ run.state = <<>> => row'.best < run.chain[1]
      <4>1. run.chain # <<>> => run.chain[1] \in Int
        BY <1>1, <2>2 DEF RunType
      <4>2. run.chain # <<>> /\ run.state = <<>> => row.best < run.chain[1]
        BY <1>1, <2>2, <3>1 DEF Lagging
      <4> QED BY <3>2, <4>1, <4>2
    <3> QED BY <1>1, <2>2, <3>1, <3>3 DEF Lagging
  <2> QED BY <2>1, <2>2
<1>11. Answered'
  BY <1>1, <1>4 DEF Answered, StallIsReported, HealthyIsNotStale
<1> QED BY <1>3, <1>5, <1>6, <1>7, <1>8, <1>10, <1>11 DEF MonitorIInv

LEMMA StartCycleInv == ASSUME MonitorIInv, MonitorNext, StartCycle PROVE MonitorIInv'
<1>1. PICK best \in None .. row.best :
        row' = Syncing(row, best, height, now)
  BY DEF StartCycle, Syncing
<1>2. /\ cycle' = height /\ lastSign' = (IF row.startedAt = None THEN now ELSE lastSign)
      /\ moved' = FALSE /\ UNCHANGED <<now, height, down, broken, withDatabase, file, run>>
  BY DEF StartCycle
<1>3. /\ lastSign <= now /\ lastSign \in Nat /\ now \in Nat /\ row \in Row /\ height \in Int
      /\ row.indexedAt \in Int /\ row.startedAt \in Int /\ row.updatedAt \in Int /\ row.best \in Int
  BY RowTypes DEF MonitorIInv, RowType
<1>4. best \in Int /\ best <= row.best /\ best >= None
  BY <1>3, NoneType
<1>5. /\ row' \in Row /\ row'.best = best /\ row'.status = "syncing"
      /\ row'.indexedAt = row.indexedAt /\ row'.updatedAt = row.updatedAt
      /\ row'.startedAt = (IF row.startedAt = None THEN now ELSE row.startedAt)
  BY <1>1, <1>3, <1>4, RowSyncing
<1>6. row'.startedAt # None /\ row'.startedAt <= lastSign' /\ row'.indexedAt <= lastSign'
  BY <1>2, <1>3, <1>5, NoneType DEF MonitorIInv, Signed
<1>7. /\ CheckpointAt(row') <= lastSign'
      /\ broken = 0 => lastSign' <= CheckpointAt(row')
  <2>1. CASE row.indexedAt # None
    <3>1. CheckpointAt(row') = row.indexedAt /\ CheckpointAt(row) = row.indexedAt
      BY <1>5, <2>1 DEF CheckpointAt, FirstKnown
    <3>2. lastSign' = lastSign
      BY <1>2, <2>1 DEF MonitorIInv, Begun
    <3> QED BY <3>1, <3>2 DEF MonitorIInv, Signed, InTime
  <2>2. CASE row.indexedAt = None
    <3>1. CheckpointAt(row') = row'.startedAt
      BY <1>5, <1>6, <2>2 DEF CheckpointAt, FirstKnown
    <3>2. CASE row.startedAt = None
      BY <1>2, <1>3, <1>5, <3>1, <3>2
    <3>3. CASE row.startedAt # None
      <4>1. CheckpointAt(row) = row.startedAt /\ CheckpointAt(row') = row.startedAt /\ lastSign' = lastSign
        BY <1>2, <1>5, <2>2, <3>1, <3>3 DEF CheckpointAt, FirstKnown
      <4> QED BY <4>1 DEF MonitorIInv, Signed, InTime
    <3> QED BY <3>2, <3>3
  <2> QED BY <2>1, <2>2
<1>8. Begun'
  BY <1>6 DEF Begun
<1>9. Signed'
  BY <1>6, <1>7 DEF Signed, CheckpointAt
<1>10. row'.status \in Healthy /\ row'.best >= None /\ ~ (row'.best > row.best)
  BY <1>3, <1>4, <1>5 DEF Healthy
<1>11. CheckpointAt(row)' = CheckpointAt(row')
  BY DEF CheckpointAt
<1>12. cycle' \in Int /\ lastSign' \in {lastSign, now} /\ moved' \in BOOLEAN
  BY <1>2, <1>3
<1> QED BY <1>2, <1>5, <1>7, <1>8, <1>9, <1>10, <1>11, <1>12, IndexerStep

\* A checkpoint: the row says now.
LEMMA CheckpointStep ==
  ASSUME MonitorIInv, MonitorNext, UNCHANGED <<now, height, down, broken, withDatabase, file, run>>,
         moved' \in BOOLEAN, cycle' \in Int, lastSign' = now, row' \in Row, row'.best >= None, row'.indexedAt = now,
         row'.status \in Healthy, row'.startedAt = row.startedAt, row.startedAt # None
  PROVE  MonitorIInv'
<1>1. /\ lastSign <= now /\ lastSign \in Nat /\ now \in Nat /\ row.startedAt \in Int
      /\ row.startedAt <= lastSign
  BY RowTypes DEF MonitorIInv, RowType, Signed
<1>2. CheckpointAt(row)' = now
  BY <1>1, NoneType DEF CheckpointAt, FirstKnown
<1>3. Begun'
  BY DEF Begun
<1>4. row.startedAt <= now
  BY <1>1, Later
<1>5. now <= now /\ lastSign' <= CheckpointAt(row)'
  BY <1>1, <1>2
<1>6. Signed'
  BY <1>2, <1>4, <1>5 DEF Signed
<1> QED BY <1>3, <1>5, <1>6, IndexerStep

LEMMA ReduceInv == ASSUME MonitorIInv, MonitorNext, Reduce PROVE MonitorIInv'
<1>1. /\ row' = Indexed(row, row.best + 1, now)
      /\ lastSign' = now /\ cycle # None
      /\ UNCHANGED <<now, height, down, broken, withDatabase, moved, cycle, file, run>>
  BY DEF Reduce, Indexed, worldVars
<1>2. /\ row \in Row /\ row.best \in Int /\ row.best >= None /\ now \in Int /\ cycle \in Int
      /\ row.startedAt # None
  BY <1>1, RowTypes DEF MonitorIInv, RowType, Begun
<1>3. row.best + 1 \in Int /\ row.best + 1 >= None
  BY <1>2, NoneType
<1>4. /\ row' \in Row /\ row'.status = "syncing" /\ row'.indexedAt = now /\ row'.best = row.best + 1
      /\ row'.startedAt = row.startedAt
  BY <1>1, <1>2, <1>3, RowIndexed
<1>5. row'.status \in Healthy /\ moved' \in BOOLEAN
  BY <1>1, <1>4 DEF Healthy, MonitorIInv, RowType
<1> QED BY <1>1, <1>2, <1>3, <1>4, <1>5, CheckpointStep

LEMMA FinishCycleInv == ASSUME MonitorIInv, MonitorNext, FinishCycle PROVE MonitorIInv'
<1>1. /\ row' = Finished(row, cycle, now)
      /\ lastSign' = now /\ cycle' = None /\ cycle # None
      /\ moved' = FALSE /\ UNCHANGED <<now, height, down, broken, withDatabase, file, run>>
  BY DEF FinishCycle, Finished, Ready
<1>2. /\ row \in Row /\ row.best \in Int /\ row.best >= None /\ now \in Int /\ cycle \in Int
      /\ row.startedAt # None
  BY <1>1, RowTypes DEF MonitorIInv, RowType, Begun
<1>3. /\ row' \in Row /\ row'.status = "ready" /\ row'.indexedAt = now /\ row'.best = row.best
      /\ row'.startedAt = row.startedAt
  BY <1>1, <1>2, RowFinished
<1>4. row'.status \in Healthy /\ cycle' \in Int /\ moved' \in BOOLEAN
  BY <1>1, <1>3, NoneType DEF Healthy
<1> QED BY <1>1, <1>2, <1>3, <1>4, CheckpointStep

LEMMA FailCycleInv == ASSUME MonitorIInv, MonitorNext, FailCycle PROVE MonitorIInv'
<1>1. /\ broken > 0 \/ moved
      /\ cycle' = None /\ lastSign' = lastSign /\ moved' = moved
      /\ UNCHANGED <<now, height, down, broken, withDatabase, file, run>>
      /\ (row' = row \/ row' = Failed(row, now))
  BY DEF FailCycle, Failed, worldVars
<1>2. /\ row \in Row /\ row.best \in Int /\ row.best >= None /\ now \in Int /\ moved \in BOOLEAN
      /\ lastSign \in Int /\ lastSign <= now
  BY RowTypes DEF MonitorIInv, RowType
<1>3. /\ row' \in Row /\ row'.best = row.best /\ (row' = row \/ row'.status = "error")
      /\ row'.indexedAt = row.indexedAt /\ row'.startedAt = row.startedAt
      /\ row'.updatedAt = row.updatedAt \/ (row'.updatedAt = now /\ row.startedAt = None)
  BY <1>1, <1>2, RowFailed
<1>4. Begun' /\ Signed'
  BY <1>1, <1>3 DEF MonitorIInv, Begun, Signed, Healthy, CheckpointAt
<1>5. (broken = 0 => moved) /\ cycle' \in Int /\ lastSign' \in {lastSign, now}
  BY <1>1, NoneType DEF MonitorIInv, RowType
<1>6. ~ (row'.best > row.best) /\ row'.best >= None
  <2>1. \A n \in Int : ~ (n > n)
    OBVIOUS
  <2> QED BY <1>2, <1>3, <2>1
<1>7. broken = 0 => lastSign' <= CheckpointAt(row)'
  <2>1. CASE CheckpointAt(row') = CheckpointAt(row)
    BY <1>1, <2>1 DEF MonitorIInv, InTime, CheckpointAt
  <2>2. CASE row'.updatedAt = now /\ row.startedAt = None
    <3>1. row'.indexedAt = None
      BY <1>3, <2>2 DEF MonitorIInv, Begun
    <3>2. CheckpointAt(row)' = now
      BY <1>3, <2>2, <3>1 DEF CheckpointAt, FirstKnown
    <3> QED BY <1>1, <1>2, <3>2
  <2>3. CASE row'.updatedAt = row.updatedAt
    BY <1>3, <2>1, <2>3 DEF CheckpointAt, FirstKnown
  <2> QED BY <1>3, <2>2, <2>3
<1> QED BY <1>1, <1>2, <1>3, <1>4, <1>5, <1>6, <1>7, IndexerStep

-----------------------------------------------------------------------------
\* The world's steps: the run, the row and the file stay.
LEMMA WorldStep ==
  ASSUME MonitorIInv, MonitorNext, UNCHANGED <<row, lastSign, withDatabase, file, run>>,
         now' \in Nat, now <= now', height' \in Nat, height <= height', broken' \in Nat,
         cycle' \in {cycle, None}, moved' \in BOOLEAN,
         broken' = 0 => broken = 0 /\ down' = {} /\ (moved => moved'),
         broken' = 0 => now' <= lastSign + Poll /\ (run.phase = "health" => now' <= run.now + Timeout)
  PROVE  MonitorIInv'
<1>1. /\ RowType /\ RunType /\ Sound /\ Begun /\ Signed /\ SignRead /\ InTime /\ Lagging /\ Answered
      /\ row' = row /\ lastSign' = lastSign /\ run' = run
  BY DEF MonitorIInv
<1>2. now \in Int /\ now' \in Int /\ height \in Int /\ height' \in Int /\ lastSign \in Int /\ lastSign <= now
  BY <1>1 DEF RowType
<1>3. RunType'
  BY <1>1 DEF RunType
<1>4. /\ sawProgress' \in BOOLEAN /\ sawMove' \in BOOLEAN
      /\ run.phase # "none" /\ sawProgress => sawProgress'
      /\ run.phase # "none" /\ broken' = 0 /\ sawMove => sawMove'
  BY <1>1, <1>3, Seen DEF RowType
<1>5. RowType'
  <2>1. lastSign <= now' /\ cycle' \in Int
    BY <1>1, <1>2, NoneType, Later DEF RowType
  <2> QED BY <1>1, <1>4, <2>1 DEF RowType
<1>6. Sound'
  BY <1>1 DEF Sound
<1>7. Begun' /\ Signed' /\ SignRead'
  BY <1>1 DEF Begun, Signed, SignRead, CheckpointAt
<1>8. InTime'
  <2>1. run.phase = "health" /\ run.now <= now => run.now <= now'
    BY <1>1, <1>2, Later DEF RunType
  <2> QED BY <1>1, <1>4, <2>1 DEF InTime, InTimeRead, CheckpointAt
<1>9. Lagging'
  <2>1. CASE sawProgress' \/ run.phase # "health"
    BY <1>1, <2>1 DEF Lagging
  <2>2. CASE ~ sawProgress' /\ run.phase = "health"
    <3>1. ~ sawProgress
      BY <1>4, <2>2
    <3>2. run.chain = <<>> /\ run.state # <<>> => run.state[1].best < height'
      <4>1. run.state # <<>> => run.state[1].best \in Int
        BY <1>1, <2>2, RowTypes DEF RunType
      <4>2. run.chain = <<>> /\ run.state # <<>> => run.state[1].best < height
        BY <1>1, <2>2, <3>1 DEF Lagging
      <4> QED BY <1>2, <4>1, <4>2
    <3> QED BY <1>1, <2>2, <3>1, <3>2 DEF Lagging
  <2> QED BY <2>1, <2>2
<1>10. Answered'
  BY <1>1, <1>4 DEF Answered, StallIsReported, HealthyIsNotStale
<1> QED BY <1>3, <1>5, <1>6, <1>7, <1>8, <1>9, <1>10 DEF MonitorIInv

LEMMA BreaksInv == ASSUME MonitorIInv, MonitorNext, NEW s \in Parts, Breaks(s) PROVE MonitorIInv'
<1>1. broken \in Nat /\ now \in Nat /\ height \in Nat /\ moved \in BOOLEAN
  BY DEF MonitorIInv, RowType
<1>2. /\ UNCHANGED <<row, lastSign, withDatabase, file, run>> /\ now' = now /\ height' = height
      /\ broken' = broken + 1 /\ cycle' \in {cycle, None} /\ moved' \in BOOLEAN
  BY DEF Breaks
<1>3. broken' \in Nat /\ broken' # 0 /\ now <= now /\ height <= height
  BY <1>1, <1>2
<1> QED BY <1>1, <1>2, <1>3, WorldStep

LEMMA RepairedInv == ASSUME MonitorIInv, MonitorNext, NEW s \in Parts, IsRepaired(s) PROVE MonitorIInv'
<1>1. broken \in Nat /\ now \in Nat /\ height \in Nat /\ moved \in BOOLEAN
  BY DEF MonitorIInv, RowType
<1>2. /\ UNCHANGED <<row, lastSign, withDatabase, file, run>> /\ now' = now /\ height' = height
      /\ broken' = broken /\ cycle' = cycle /\ moved' = moved /\ s \in down
  BY DEF IsRepaired, indexerVars
<1>3. broken # 0
  BY <1>2 DEF MonitorIInv, Sound
<1>4. now <= now /\ height <= height
  BY <1>1
<1> QED BY <1>1, <1>2, <1>3, <1>4, WorldStep

LEMMA NodeGrowsInv == ASSUME MonitorIInv, MonitorNext, NodeGrows PROVE MonitorIInv'
<1>1. broken \in Nat /\ now \in Nat /\ height \in Nat /\ moved \in BOOLEAN
  BY DEF MonitorIInv, RowType
<1>2. /\ UNCHANGED <<row, lastSign, withDatabase, file, run>> /\ now' = now /\ height' = height + 1
      /\ broken' = broken /\ cycle' = cycle /\ moved' = moved /\ down' = down
  BY DEF NodeGrows, indexerVars
<1>3. now <= now /\ height <= height' /\ height' \in Nat
  BY <1>1, <1>2
<1>4. broken' = 0 => broken = 0 /\ down' = {} /\ (moved => moved')
  BY <1>2 DEF MonitorIInv, Sound
<1>5. broken' = 0 => now' <= lastSign + Poll /\ (run.phase = "health" => now' <= run.now + Timeout)
  BY <1>2 DEF MonitorIInv, InTime
<1> QED BY <1>1, <1>2, <1>3, <1>4, <1>5, WorldStep

LEMMA NodeReorganisesInv == ASSUME MonitorIInv, MonitorNext, NodeReorganises PROVE MonitorIInv'
<1>1. now \in Nat /\ height \in Nat /\ moved \in BOOLEAN /\ MaxHeight \in Int
  BY MonitorAssumption DEF MonitorIInv, RowType
<1>2. /\ UNCHANGED <<row, lastSign, withDatabase, file, run>> /\ now' = now /\ height' \in height .. MaxHeight
      /\ broken' = broken /\ broken = 0 /\ cycle' = cycle /\ down' = down
      /\ moved' = (moved \/ cycle # None)
  BY DEF NodeReorganises, indexerVars
<1>3. now <= now /\ height <= height' /\ height' \in Nat /\ broken' \in Nat
  BY <1>1, <1>2
<1>4. moved' \in BOOLEAN /\ (moved => moved') /\ down' = {}
  BY <1>2 DEF MonitorIInv, Sound
<1>5. broken' = 0 => now' <= lastSign + Poll /\ (run.phase = "health" => now' <= run.now + Timeout)
  BY <1>2 DEF MonitorIInv, InTime
<1> QED BY <1>1, <1>2, <1>3, <1>4, <1>5, WorldStep

LEMMA TickInv == ASSUME MonitorIInv, MonitorNext, Tick PROVE MonitorIInv'
<1>1. broken \in Nat /\ now \in Nat /\ height \in Nat /\ lastSign \in Nat /\ moved \in BOOLEAN
  BY DEF MonitorIInv, RowType
<1>2. /\ UNCHANGED <<row, lastSign, withDatabase, file, run>> /\ now' = now + 1 /\ height' = height
      /\ broken' = broken /\ cycle' = cycle /\ moved' = moved /\ down' = down
      /\ run.phase = "health" => now < run.now + Timeout
      /\ broken > 0 \/ now < lastSign + Poll
  BY DEF Tick, indexerVars
<1>3. now <= now' /\ height <= height' /\ now' \in Nat
  BY <1>1, <1>2
<1>4. broken' = 0 => broken = 0 /\ down' = {} /\ (moved => moved')
  BY <1>2 DEF MonitorIInv, Sound
<1>5. broken' = 0 => now' <= lastSign + Poll
  BY <1>1, <1>2, Limits
<1>6. run.phase = "health" => now' <= run.now + Timeout
  <2>1. run.phase = "health" => run.now \in Nat
    BY DEF MonitorIInv, RunType
  <2>2. \A r \in Nat : now < r + Timeout => now + 1 <= r + Timeout
    BY <1>1, Limits
  <2> QED BY <1>2, <2>1, <2>2
<1> QED BY <1>1, <1>2, <1>3, <1>4, <1>5, <1>6, WorldStep

-----------------------------------------------------------------------------
\* The monitor's steps: the indexer and the world stay.
LEMMA HealthRunFields ==
  ASSUME NEW t, NEW p, NEW c, NEW s
  PROVE  LET r == HealthRun(t, p, c, s)
         IN  /\ r.phase = "health" /\ r.now = t /\ r.previous = p /\ r.chain = c /\ r.state = s
             /\ \A x : [r EXCEPT !.chain = x] = HealthRun(t, p, x, s)
             /\ \A x : [r EXCEPT !.state = x] = HealthRun(t, p, c, x)
BY DEF HealthRun

LEMMA OneElement == ASSUME NEW x PROVE <<x>> # <<>> /\ <<x>>[1] = x
OBVIOUS

\* What such a step keeps, whatever it does to the run.
LEMMA MonitorStep ==
  ASSUME MonitorIInv, MonitorNext, UNCHANGED <<now, height, moved, row, cycle, down, broken, withDatabase, lastSign>>,
         RunType', SignRead', Lagging',
         broken = 0 /\ run'.phase = "health" =>
           /\ run'.now <= now /\ now <= run'.now + Timeout
           /\ run'.state # <<>> => InTimeRead(run.state[1], run.now)',
         run'.phase = "database" =>
           /\ run'.health.failures = {} => sawProgress'
           /\ broken = 0 => run'.health.failures \subseteq (IF sawMove' THEN {"degraded"} ELSE {}),
         run'.phase = "ended" =>
           /\ run'.failures = {} => sawProgress'
           /\ broken = 0 => run'.failures \subseteq Excused'
  PROVE  MonitorIInv'
<1>1. /\ RowType /\ RunType /\ Sound /\ Begun /\ Signed /\ InTime
      /\ moved' = moved /\ now' = now /\ row' = row /\ lastSign' = lastSign /\ broken' = broken /\ down' = down
  BY DEF MonitorIInv
<1>2. sawProgress' \in BOOLEAN /\ sawMove' \in BOOLEAN
  BY <1>1, Seen DEF RowType
<1>3. RowType'
  BY <1>1, <1>2 DEF RowType
<1>4. Sound' /\ Begun' /\ Signed'
  BY <1>1 DEF Sound, Begun, Signed, CheckpointAt
<1>5. InTime'
  BY <1>1 DEF InTime, CheckpointAt
<1>6. Answered'
  BY <1>1 DEF Answered, StallIsReported, HealthyIsNotStale, Excused
<1> QED BY <1>3, <1>4, <1>5, <1>6 DEF MonitorIInv

LEMMA StartRunInv == ASSUME MonitorIInv, MonitorNext, StartRun PROVE MonitorIInv'
<1>1. /\ run' = HealthRun(now, file, <<>>, <<>>)
      /\ UNCHANGED <<now, height, moved, row, cycle, down, broken, withDatabase, lastSign>>
  BY DEF StartRun, HealthRun, worldVars, indexerVars
<1>2. run'.phase = "health" /\ run'.now = now /\ run'.previous = file /\ run'.chain = <<>> /\ run'.state = <<>>
  BY <1>1, HealthRunFields
<1>3. now \in Nat /\ now <= now /\ now <= now + Timeout
  BY Limits DEF MonitorIInv, RowType
<1>4. RunType'
  BY <1>1, <1>2, <1>3 DEF RunType
<1>5. SignRead' /\ Lagging'
  BY <1>2 DEF SignRead, Lagging
<1> QED BY <1>1, <1>2, <1>3, <1>4, <1>5, MonitorStep

LEMMA AskChainInv == ASSUME MonitorIInv, MonitorNext, AskChain PROVE MonitorIInv'
<1>1. /\ run' = [run EXCEPT !.chain = <<height>>] /\ run.phase = "health" /\ run.chain = <<>>
      /\ UNCHANGED <<now, height, moved, row, cycle, down, broken, withDatabase, lastSign>>
  BY DEF AskChain, worldVars, indexerVars
<1>2. /\ RunType /\ RowType /\ SignRead /\ InTime /\ Lagging
      /\ height \in Nat /\ row.best \in Int /\ lastSign' = lastSign /\ row' = row /\ height' = height
  BY <1>1, RowTypes DEF MonitorIInv, RowType
<1>3. run' = HealthRun(run.now, run.previous, <<height>>, run.state)
  BY <1>1, <1>2, HealthRunFields DEF RunType
<1>4. /\ run'.phase = "health" /\ run'.now = run.now /\ run'.previous = run.previous
      /\ run'.chain = <<height>> /\ run'.state = run.state
  BY <1>3, HealthRunFields
<1>5. run'.chain # <<>> /\ run'.chain[1] = height
  BY <1>4, OneElement
<1>6. RunType'
  BY <1>1, <1>2, <1>3, <1>4, <1>5 DEF RunType
<1>7. SignRead'
  BY <1>1, <1>2, <1>4 DEF SignRead, CheckpointAt
<1>8. /\ InProgress' => sawProgress'
      /\ sawProgress => sawProgress'
  BY <1>1, <1>2, <1>4, <1>6, Seen DEF RowType
<1>9. ~ sawProgress' => row.best < height
  <2>1. row.best >= height => InProgress'
    BY <1>2 DEF InProgress
  <2> QED BY <1>2, <1>8, <2>1
<1>10. Lagging'
  BY <1>1, <1>2, <1>4, <1>5, <1>8, <1>9 DEF Lagging
<1>11. run'.phase # "database" /\ run'.phase # "ended"
  BY <1>4
<1>12. broken = 0 =>
         /\ run'.now <= now /\ now <= run'.now + Timeout
         /\ run'.state # <<>> => InTimeRead(run.state[1], run.now)'
  <2>1. broken = 0 /\ sawMove => sawMove'
    BY <1>1, <1>2, <1>4, <1>6, Seen DEF RowType
  <2> QED BY <1>1, <1>2, <1>4, <2>1 DEF InTime, InTimeRead, CheckpointAt
<1> QED BY <1>1, <1>6, <1>7, <1>10, <1>11, <1>12, MonitorStep

LEMMA AskStateInv == ASSUME MonitorIInv, MonitorNext, AskState PROVE MonitorIInv'
<1>1. /\ run' = [run EXCEPT !.state = <<row>>] /\ run.phase = "health" /\ run.state = <<>>
      /\ UNCHANGED <<now, height, moved, row, cycle, down, broken, withDatabase, lastSign>>
  BY DEF AskState, worldVars, indexerVars
<1>2. /\ RunType /\ RowType /\ Signed /\ InTime /\ Lagging /\ Sound
      /\ height \in Nat /\ row \in Row /\ row.best \in Int
      /\ lastSign' = lastSign /\ row' = row /\ height' = height
  BY <1>1, RowTypes DEF MonitorIInv, RowType
<1>3. run' = HealthRun(run.now, run.previous, run.chain, <<row>>)
  BY <1>1, <1>2, HealthRunFields DEF RunType
<1>4. /\ run'.phase = "health" /\ run'.now = run.now /\ run'.previous = run.previous
      /\ run'.chain = run.chain /\ run'.state = <<row>>
  BY <1>3, HealthRunFields
<1>5. run'.state # <<>> /\ run'.state[1] = row
  BY <1>4, OneElement
<1>6. RunType'
  BY <1>1, <1>2, <1>3, <1>4, <1>5 DEF RunType
<1>7. SignRead'
  BY <1>1, <1>2, <1>5 DEF SignRead, Signed, CheckpointAt
<1>8. /\ InProgress' => sawProgress'
      /\ sawProgress => sawProgress'
  BY <1>1, <1>2, <1>4, <1>6, Seen DEF RowType
<1>9. ~ sawProgress' => row.best < height
  <2>1. row.best >= height => InProgress'
    BY <1>2 DEF InProgress
  <2> QED BY <1>2, <1>8, <2>1
<1>10. Lagging'
  BY <1>1, <1>2, <1>4, <1>5, <1>8, <1>9 DEF Lagging
<1>11. run'.phase # "database" /\ run'.phase # "ended"
  BY <1>4
<1>12. ASSUME broken = 0
       PROVE  /\ run'.now <= now /\ now <= run'.now + Timeout
              /\ InTimeRead(run.state[1], run.now)'
  <2>1. run.now <= now /\ now <= run.now + Timeout /\ lastSign <= CheckpointAt(row) /\ now <= lastSign + Poll
    BY <1>1, <1>2, <1>12 DEF InTime
  <2>2. run.now \in Int /\ now \in Int /\ lastSign \in Int /\ CheckpointAt(row) \in Int
    BY <1>1, <1>2, CheckpointType DEF RunType, RowType
  <2>3. run.now <= CheckpointAt(row) + Poll
    BY <2>1, <2>2, Limits
  <2>4. moved => sawMove'
    BY <1>1, <1>2, <1>4, <1>6, <1>12, Seen DEF RowType
  <2>5. row.status \in Healthy \/ sawMove'
    BY <1>2, <1>12, <2>4 DEF Sound
  <2> QED BY <1>4, <1>5, <2>1, <2>3, <2>5 DEF InTimeRead, CheckpointAt
<1> QED BY <1>1, <1>6, <1>7, <1>10, <1>11, <1>12, MonitorStep

LEMMA GetHealthInv == ASSUME MonitorIInv, MonitorNext, GetHealth PROVE MonitorIInv'
<1>1. PICK health :
        /\ run' = [phase |-> "database", now |-> run.now, previous |-> run.previous, health |-> health]
        /\ \/ /\ run.chain # <<>> /\ run.state # <<>>
              /\ health = HealthPayload(run.chain[1], run.state[1])
           \/ ~ Up({"api", "node", "database"}) /\ health = NoHealth
  BY DEF GetHealth, WithHealth
<1>2. run.phase = "health" /\ UNCHANGED <<now, height, moved, row, cycle, down, broken, withDatabase, lastSign>>
  BY DEF GetHealth, worldVars, indexerVars
<1>3. /\ RunType /\ RowType /\ SignRead /\ InTime /\ Lagging /\ Sound
      /\ now \in Int /\ lastSign \in Int /\ lastSign' = lastSign /\ now' = now /\ run.now \in Int
  BY <1>2 DEF MonitorIInv, RowType, RunType
<1>4. run'.phase = "database" /\ run'.health = health
  BY <1>1
<1>5. RunType' /\ SignRead' /\ Lagging'
  BY <1>4 DEF RunType, SignRead, Lagging
<1>6. /\ InProgress' => sawProgress'
      /\ sawProgress => sawProgress'
      /\ broken = 0 /\ sawMove => sawMove'
  BY <1>2, <1>3, <1>4, <1>5, Seen DEF RowType
<1>7. /\ health.failures = {} => sawProgress'
      /\ broken = 0 => health.failures \subseteq (IF sawMove' THEN {"degraded"} ELSE {})
  <2>1. CASE run.chain # <<>> /\ run.state # <<>> /\ health = HealthPayload(run.chain[1], run.state[1])
    <3> DEFINE c == run.chain[1]
               s == run.state[1]
    <3>1. c \in Int /\ s \in Row /\ s.best \in Int /\ CheckpointAt(s) \in Int
      BY <1>2, <1>3, <2>1, RowTypes, CheckpointType DEF RunType
    <3>2. /\ health.failures = {} <=> (s.status \in Healthy /\ ~ IsStale(s, c))
          /\ ~ IsStale(s, c) => health.failures \subseteq {"degraded"}
      BY <2>1 DEF HealthPayload, TargetHeight, Healthy
    <3>3. /\ s.status \in Healthy => CheckpointAt(s) <= lastSign
          /\ ~ sawProgress => s.best < c
          /\ broken = 0 => (s.status \in Healthy \/ sawMove) /\ run.now <= CheckpointAt(s) + Poll /\ now <= run.now + Timeout
      BY <1>2, <1>3, <2>1 DEF SignRead, Lagging, InTime, InTimeRead
    <3> HIDE DEF c, s
    <3>4. s.status \in Healthy /\ s.best < c /\ CheckpointAt(s) <= lastSign /\ ~ IsStale(s, c) => InProgress'
      <4>1. s.status \in Healthy /\ s.best < c /\ ~ IsStale(s, c) => now - CheckpointAt(s) <= Stale
        <5>1. s.best < c => c > s.best
          BY <3>1
        <5>2. ~ (now - CheckpointAt(s) > Stale) => now - CheckpointAt(s) <= Stale
          BY <1>3, <3>1, Limits
        <5> QED BY <5>1, <5>2 DEF IsStale, Healthy
      <4>2. now - CheckpointAt(s) <= Stale /\ CheckpointAt(s) <= lastSign => now - lastSign <= Stale
        BY <1>3, <3>1, Limits
      <4> QED BY <1>3, <4>1, <4>2 DEF InProgress
    <3>5. run.now <= CheckpointAt(s) + Poll /\ now <= run.now + Timeout => ~ IsStale(s, c)
      <4>1. run.now <= CheckpointAt(s) + Poll /\ now <= run.now + Timeout => ~ (now - CheckpointAt(s) > Stale)
        BY <1>3, <3>1, Limits
      <4> QED BY <4>1 DEF IsStale
    <3>6. health.failures = {} => sawProgress'
      BY <1>6, <3>2, <3>3, <3>4
    <3>7. broken = 0 => health.failures \subseteq (IF sawMove' THEN {"degraded"} ELSE {})
      BY <1>6, <3>2, <3>3, <3>5
    <3> QED BY <3>6, <3>7
  <2>2. CASE ~ Up({"api", "node", "database"}) /\ health = NoHealth
    <3>1. broken # 0
      BY <1>3, <2>2 DEF Up, Sound
    <3> QED BY <2>2, <3>1 DEF NoHealth
  <2> QED BY <1>1, <2>1, <2>2
<1>8. run'.phase # "health" /\ run'.phase # "ended"
  BY <1>4
<1> QED BY <1>2, <1>4, <1>5, <1>7, <1>8, MonitorStep

LEMMA CheckDatabaseInv == ASSUME MonitorIInv, MonitorNext, CheckDatabase PROVE MonitorIInv'
<1>1. run.phase = "database" /\ UNCHANGED <<now, height, moved, row, cycle, down, broken, withDatabase, lastSign>>
  BY DEF CheckDatabase, worldVars, indexerVars
<1>2. /\ RunType /\ RowType /\ InTime /\ Sound /\ Answered /\ now \in Int /\ lastSign \in Int
  BY DEF MonitorIInv, RowType
<1>3. PICK state, failures :
        /\ Ended(state, failures)
        /\ broken = 0 => failures = {} /\ (state = row \/ (state = NoMetrics /\ ~ withDatabase))
  <2>1. broken = 0 => Up({"database"})
    BY <1>2 DEF Sound, Up
  <2> QED BY <2>1 DEF CheckDatabase
<1>4. PICK late :
        /\ run' = [phase |-> "ended", failures |-> run.health.failures \cup failures \cup late]
        /\ state.status = "unknown" => late \subseteq {"unchanged"}
        /\ state.status = "error" /\ ~ (now - CheckpointAt(state) > MonitorStale) => late = {"status"}
        /\ /\ state.status # "unknown" /\ state.status # "error"
           /\ ~ (now - CheckpointAt(state) > MonitorStale)
           => late = {}
  BY <1>3 DEF Ended
<1>5. run'.phase = "ended" /\ run'.failures = run.health.failures \cup failures \cup late
  BY <1>4
<1>6. RunType' /\ SignRead' /\ Lagging'
  BY <1>5 DEF RunType, SignRead, Lagging
<1>7. /\ sawProgress => sawProgress'
      /\ broken = 0 /\ (sawMove \/ moved) => sawMove'
  BY <1>1, <1>2, <1>5, <1>6, Seen DEF RowType
<1>8. run'.failures = {} => sawProgress'
  BY <1>1, <1>2, <1>5, <1>7 DEF Answered
<1>9. ASSUME broken = 0
      PROVE  run'.failures \subseteq Excused'
  <2>1. run.health.failures \subseteq (IF sawMove' THEN {"degraded"} ELSE {}) /\ failures = {}
    BY <1>1, <1>2, <1>3, <1>7, <1>9 DEF Answered
  <2>2. late \subseteq (IF sawMove' THEN {"status"} ELSE {}) \cup (IF withDatabase THEN {} ELSE {"unchanged"})
    <3>1. CASE state = row
      <4>1. row.status # "unknown" /\ (row.status = "error" => sawMove')
        BY <1>2, <1>7, <1>9, RowTypes DEF Sound, Healthy, RowType
      <4>2. lastSign <= CheckpointAt(row) /\ now <= lastSign + Poll
        BY <1>2, <1>9 DEF InTime
      <4>3. CheckpointAt(row) \in Int
        BY <1>2, CheckpointType DEF RowType
      <4>4. ~ (now - CheckpointAt(row) > MonitorStale)
        BY <1>2, <4>2, <4>3, Limits
      <4> QED BY <1>4, <3>1, <4>1, <4>4
    <3>2. CASE state = NoMetrics /\ ~ withDatabase
      BY <1>4, <3>2 DEF NoMetrics
    <3> QED BY <1>3, <1>9, <3>1, <3>2
  <2> QED BY <1>1, <1>5, <2>1, <2>2 DEF Excused
<1>10. run'.phase # "health" /\ run'.phase # "database"
  BY <1>5
<1> QED BY <1>1, <1>5, <1>6, <1>8, <1>9, <1>10, MonitorStep

LEMMA EndRunInv == ASSUME MonitorIInv, MonitorNext, EndRun PROVE MonitorIInv'
<1>1. run' = NoRun /\ UNCHANGED <<now, height, moved, row, cycle, down, broken, withDatabase, lastSign>>
  BY DEF EndRun, worldVars, indexerVars
<1>2. run'.phase = "none"
  BY <1>1 DEF NoRun
<1>3. run'.phase # "health" /\ run'.phase # "database" /\ run'.phase # "ended"
  BY <1>2
<1>4. RunType' /\ SignRead' /\ Lagging'
  BY <1>1, <1>2, <1>3 DEF RunType, SignRead, Lagging
<1> QED BY <1>1, <1>3, <1>4, MonitorStep

LEMMA MonitorNextInv == MonitorIInv /\ [MonitorNext]_monitorVars => MonitorIInv'
<1> SUFFICES ASSUME MonitorIInv, [MonitorNext]_monitorVars PROVE MonitorIInv'
  OBVIOUS
<1>1. CASE UNCHANGED monitorVars
  BY <1>1 DEF monitorVars, MonitorIInv, RowType, RunType, Sound, Begun, Signed, SignRead, InTime,
    InTimeRead, Lagging, Answered, StallIsReported, HealthyIsNotStale, CheckpointAt
<1>2. CASE MonitorNext
  <2>1. Step
    BY <1>2 DEF MonitorNext
  <2>2. CASE StartCycle \/ Reduce \/ FinishCycle \/ FailCycle
    BY <1>2, <2>2, StartCycleInv, ReduceInv, FinishCycleInv, FailCycleInv
  <2>3. CASE \E s \in Parts : Breaks(s) \/ IsRepaired(s)
    BY <1>2, <2>3, BreaksInv, RepairedInv
  <2>4. CASE NodeGrows \/ NodeReorganises \/ Tick
    BY <1>2, <2>4, NodeGrowsInv, NodeReorganisesInv, TickInv
  <2>5. CASE StartRun \/ AskChain \/ AskState \/ GetHealth \/ CheckDatabase \/ EndRun
    BY <1>2, <2>5, StartRunInv, AskChainInv, AskStateInv, GetHealthInv, CheckDatabaseInv, EndRunInv
  <2> QED BY <2>1, <2>2, <2>3, <2>4, <2>5 DEF Step
<1> QED BY <1>1, <1>2

\* The invariant holds for every time limit that leaves room for the poll and the
\* timeout, whichever services fail and are repaired between a run's questions.
THEOREM MonitorInvariant == MonitorSpec => []MonitorIInv
<1> QED BY MonitorInitInv, MonitorNextInv, PTL DEF MonitorSpec

(***************************************************************************)
(* A monitor run that passes saw the indexer level with the node, or       *)
(* within the stale limit of its last sign, at some moment of the run.     *)
(***************************************************************************)
THEOREM StallsAreReported == MonitorSpec => []StallIsReported
<1>1. MonitorIInv => StallIsReported
  BY DEF MonitorIInv, Answered
<1> QED BY <1>1, MonitorInvariant, PTL

(***************************************************************************)
(* While no service fails no run calls the indexer stale, or its last      *)
(* checkpoint late, and none complains of its status or calls it degraded  *)
(* unless a reorganisation may have cut its last cycle short.              *)
(***************************************************************************)
THEOREM HealthyIsNotReported == MonitorSpec => []HealthyIsNotStale
<1>1. MonitorIInv => HealthyIsNotStale
  BY DEF MonitorIInv, Answered
<1> QED BY <1>1, MonitorInvariant, PTL
=============================================================================
