------------------------------ MODULE Migration ------------------------------
(***************************************************************************)
(* How the services start: migrate (server/db.mjs) under one advisory      *)
(* lock, then, for an indexer, withIndexerLock (server/indexer.mjs) under  *)
(* another.  API and indexer start at the same time and are restarted when *)
(* they fail.                                                              *)
(*                                                                         *)
(* Three rules are PostgreSQL's.  A lock belongs to a session, and a       *)
(* session whose client died goes on until its statement ends.  CREATE     *)
(* INDEX CONCURRENTLY leaves an invalid index when it fails, and before it *)
(* succeeds it waits for every statement that was running when its last    *)
(* scan began.  Of statements that wait for each other one is cancelled.   *)
(***************************************************************************)
EXTENDS Integers, FiniteSets

CONSTANTS
  Service,       \* processes that start
  Indexers,      \* those that run the indexer
  NoService,
  IndexCount,    \* the indexes of the online migration, in order
  MaxFaults, MaxHalfOpen   \* bounds

ASSUME MigrationAssumption ==
  /\ Indexers \subseteq Service /\ NoService \notin Service
  /\ IndexCount \in Nat \ {0}
  /\ {MaxFaults, MaxHalfOpen} \subseteq Nat

Latest  == 5   \* LATEST_SCHEMA_VERSION
Online  == 4   \* the version the online migration starts from
Index   == 1..IndexCount

VARIABLES
  version,       \* max(schema_migrations.version), 0 without the table
  index,         \* the indexes: none, invalid, valid, or valid with another definition
  migrateLock, indexerLock,   \* whose session holds the advisory lock
  pc,            \* where a service is
  at,            \* the index its migration works on
  awaits,        \* the services whose running statement its index build waits for
  dead,          \* services that died while their statement runs on
  faults, halfOpen

vars == <<version, index, migrateLock, indexerLock, pc, at, awaits, dead, faults, halfOpen>>

Free == NoService

\* Steps at which a session has a long statement running.
InStatement == {"lock", "build", "wait"}

\* Steps between the lock statement and the end of the cleanup.
Migrating == {"version", "inspect", "drop", "create", "build", "wait", "verify", "record",
              "schema", "cleanup", "unlock"}

Init ==
  /\ version \in {0, Online}
  /\ index \in IF version = 0 THEN [Index -> {"none"}]
               ELSE [Index -> {"none", "invalid", "valid", "other"}]
  /\ migrateLock = Free /\ indexerLock = Free
  /\ pc = [p \in Service |-> "off"]
  /\ at = [p \in Service |-> 1]
  /\ awaits = [p \in Service |-> {}]
  /\ dead = {} /\ faults = 0 /\ halfOpen = 0

\* The locks of a session go with it.
Without(lock, p) == IF lock = p THEN Free ELSE lock

\* p's lock statement has ended: no build waits for it any more.
StatementEnds(p) == awaits' = [q \in Service |-> awaits[q] \ {p}]

Goto(p, next) == pc' = [pc EXCEPT ![p] = next]

-----------------------------------------------------------------------------
\* migrate.

Start(p) ==
  /\ pc[p] \in {"off", "failed"}
  /\ Goto(p, "lock")
  /\ UNCHANGED <<version, index, migrateLock, indexerLock, at, awaits, dead, faults, halfOpen>>

\* Seeded fault: the lock is not waited for.
LockGrantedAlways(p) == TRUE

LockGranted(p) == migrateLock = Free

\* pg_advisory_lock returns; a client that is gone cannot take the answer.
AcquireLock(p) ==
  /\ pc[p] = "lock" /\ LockGranted(p)
  /\ IF p \in dead
     THEN Goto(p, "off") /\ dead' = dead \ {p} /\ UNCHANGED migrateLock
     ELSE Goto(p, "version") /\ migrateLock' = p /\ UNCHANGED dead
  /\ StatementEnds(p)
  /\ UNCHANGED <<version, index, indexerLock, at, faults, halfOpen>>

ReadVersion(p) ==
  /\ pc[p] = "version"
  /\ Goto(p, IF version >= Latest THEN "unlock" ELSE IF version = Online THEN "inspect" ELSE "schema")
  /\ at' = [at EXCEPT ![p] = 1]
  /\ UNCHANGED <<version, index, migrateLock, indexerLock, awaits, dead, faults, halfOpen>>

\* schema.sql, in one transaction.
ApplySchema(p) ==
  /\ pc[p] = "schema"
  /\ version' = Latest
  /\ index' = [i \in Index |-> IF index[i] = "none" THEN "valid" ELSE index[i]]
  /\ Goto(p, "unlock")
  /\ UNCHANGED <<migrateLock, indexerLock, at, awaits, dead, faults, halfOpen>>

\* The index is done: the next one, or the version.
Ensured(p) ==
  IF at[p] = IndexCount THEN Goto(p, "record") /\ UNCHANGED at
  ELSE Goto(p, "inspect") /\ at' = [at EXCEPT ![p] = @ + 1]

\* Seeded fault: IF NOT EXISTS, any index of the name will do.
UsableAny(i) == index[i] \in {"valid", "invalid"}

Usable(i) == index[i] = "valid"

InspectIndex(p) ==
  /\ pc[p] = "inspect"
  /\ LET i == at[p]
     IN  \/ Usable(i) /\ Ensured(p)
         \/ /\ ~ Usable(i)
            /\ Goto(p, CASE index[i] = "none"    -> "create"
                         [] index[i] = "invalid" -> "drop"
                         [] OTHER                -> "cleanup")
            /\ UNCHANGED at
  /\ UNCHANGED <<version, index, migrateLock, indexerLock, awaits, dead, faults, halfOpen>>

DropIndex(p) ==
  /\ pc[p] = "drop"
  /\ index' = [index EXCEPT ![at[p]] = "none"]
  /\ Goto(p, "create")
  /\ UNCHANGED <<version, migrateLock, indexerLock, at, awaits, dead, faults, halfOpen>>

\* CREATE INDEX CONCURRENTLY; it refuses a name that is taken.
CreateIndex(p) ==
  /\ pc[p] = "create"
  /\ IF index[at[p]] = "none"
     THEN index' = [index EXCEPT ![at[p]] = "invalid"] /\ Goto(p, "build")
     ELSE UNCHANGED index /\ Goto(p, "cleanup")
  /\ UNCHANGED <<version, migrateLock, indexerLock, at, awaits, dead, faults, halfOpen>>

\* The last scan is done; the statements that run now may have older snapshots.
FinishScan(p) ==
  /\ pc[p] = "build"
  /\ awaits' = [awaits EXCEPT ![p] = {q \in Service : pc[q] = "lock"}]
  /\ Goto(p, "wait")
  /\ UNCHANGED <<version, index, migrateLock, indexerLock, at, dead, faults, halfOpen>>

EndSession(p) ==
  /\ migrateLock' = Without(migrateLock, p) /\ indexerLock' = Without(indexerLock, p)
  /\ dead' = dead \ {p}

FinishBuild(p) ==
  /\ pc[p] = "wait" /\ awaits[p] = {}
  /\ index' = [index EXCEPT ![at[p]] = "valid"]
  /\ IF p \in dead
     THEN Goto(p, "off") /\ EndSession(p)
     ELSE Goto(p, "verify") /\ UNCHANGED <<migrateLock, indexerLock, dead>>
  /\ UNCHANGED <<version, at, awaits, faults, halfOpen>>

VerifyIndex(p) ==
  /\ pc[p] = "verify"
  /\ IF index[at[p]] = "valid" THEN Ensured(p) ELSE Goto(p, "cleanup") /\ UNCHANGED at
  /\ UNCHANGED <<version, index, migrateLock, indexerLock, awaits, dead, faults, halfOpen>>

RecordVersion(p) ==
  /\ pc[p] = "record"
  /\ version' = Latest
  /\ Goto(p, "unlock")
  /\ UNCHANGED <<index, migrateLock, indexerLock, at, awaits, dead, faults, halfOpen>>

\* The finally block, after success ("unlock") or an error ("cleanup").
Release(p) ==
  /\ pc[p] \in {"unlock", "cleanup"}
  /\ migrateLock' = Without(migrateLock, p)
  /\ Goto(p, IF pc[p] = "cleanup" THEN "failed" ELSE IF p \in Indexers THEN "claim" ELSE "serving")
  /\ UNCHANGED <<version, index, indexerLock, at, awaits, dead, faults, halfOpen>>

\* Seeded fault: the client goes back to the pool although the unlock failed.
LockAfterFailedUnlockKept(p) == migrateLock

\* client.release(cleanupError) destroys the session.
LockAfterFailedUnlock(p) == Without(migrateLock, p)

ReleaseFails(p) ==
  /\ pc[p] \in {"unlock", "cleanup"} /\ faults < MaxFaults
  /\ faults' = faults + 1
  /\ migrateLock' = LockAfterFailedUnlock(p)
  /\ Goto(p, IF pc[p] = "cleanup" THEN "failed" ELSE IF p \in Indexers THEN "claim" ELSE "serving")
  /\ UNCHANGED <<version, index, indexerLock, at, awaits, dead, halfOpen>>

-----------------------------------------------------------------------------
\* withIndexerLock.

\* Seeded fault: the answer of pg_try_advisory_lock is not looked at.
ClaimedAnyway == TRUE

Claimed == indexerLock = Free

Claim(p) ==
  /\ pc[p] = "claim"
  /\ IF Claimed
     THEN indexerLock' = p /\ Goto(p, "running")
     ELSE UNCHANGED indexerLock /\ Goto(p, "failed")
  /\ UNCHANGED <<version, index, migrateLock, at, awaits, dead, faults, halfOpen>>

\* The service is stopped, or its work fails.
Finish(p) ==
  /\ pc[p] \in {"running", "serving"}
  /\ indexerLock' = Without(indexerLock, p)
  /\ Goto(p, "off")
  /\ UNCHANGED <<version, index, migrateLock, at, awaits, dead, faults, halfOpen>>

-----------------------------------------------------------------------------
\* PostgreSQL and the network.

\* A build waits for a lock statement that waits for the builder's lock: one of
\* the two is cancelled.
CancelDeadlock(p, q) ==
  /\ pc[p] = "wait" /\ q \in awaits[p] /\ migrateLock = p
  /\ \E victim \in {p, q} :
       IF victim \in dead
       THEN /\ Goto(victim, "off") /\ EndSession(victim)
            /\ awaits' = [s \in Service |-> IF s = victim THEN {} ELSE awaits[s] \ {victim}]
       ELSE /\ Goto(victim, "cleanup")
            /\ awaits' = [s \in Service |-> IF s = victim THEN {} ELSE awaits[s] \ {victim}]
            /\ UNCHANGED <<migrateLock, indexerLock, dead>>
  /\ UNCHANGED <<version, index, at, faults, halfOpen>>

\* The process dies; a statement in progress goes on without it.
Crash(p) ==
  /\ pc[p] \notin {"off", "failed"} /\ p \notin dead /\ faults < MaxFaults
  /\ faults' = faults + 1
  /\ IF pc[p] \in InStatement
     THEN dead' = dead \cup {p} /\ UNCHANGED <<pc, migrateLock, indexerLock>>
     ELSE Goto(p, "off") /\ EndSession(p)
  /\ UNCHANGED <<version, index, at, awaits, halfOpen>>

\* The session breaks; the service sees its query fail.
LoseSession(p) ==
  /\ pc[p] \notin {"off", "failed", "serving"} /\ faults < MaxFaults
  /\ faults' = faults + 1
  /\ Goto(p, IF p \in dead THEN "off" ELSE "failed") /\ EndSession(p)
  /\ awaits' = [q \in Service |-> IF q = p THEN {} ELSE awaits[q] \ {p}]
  /\ UNCHANGED <<version, index, at, halfOpen>>

\* The server gives the indexer's session up before the indexer notices.
LoseHalf(p) ==
  /\ pc[p] = "running" /\ indexerLock = p /\ halfOpen < MaxHalfOpen
  /\ halfOpen' = halfOpen + 1
  /\ indexerLock' = Free
  /\ UNCHANGED <<version, index, migrateLock, pc, at, awaits, dead, faults>>

-----------------------------------------------------------------------------
Next ==
  \/ \E p \in Service :
       \/ Start(p) \/ AcquireLock(p) \/ ReadVersion(p) \/ ApplySchema(p) \/ InspectIndex(p)
       \/ DropIndex(p) \/ CreateIndex(p) \/ FinishScan(p) \/ FinishBuild(p) \/ VerifyIndex(p)
       \/ RecordVersion(p) \/ Release(p) \/ ReleaseFails(p) \/ Claim(p) \/ Finish(p)
       \/ Crash(p) \/ LoseSession(p) \/ LoseHalf(p)
  \/ \E p, q \in Service : CancelDeadlock(p, q)

Spec == Init /\ [][Next]_vars

-----------------------------------------------------------------------------
TypeOK ==
  /\ version \in {0, Online, Latest}
  /\ index \in [Index -> {"none", "invalid", "valid", "other"}]
  /\ migrateLock \in Service \cup {Free} /\ indexerLock \in Indexers \cup {Free}
  /\ pc \in [Service -> {"off", "lock", "failed", "claim", "running", "serving"} \cup Migrating]
  /\ at \in [Service -> Index] /\ awaits \in [Service -> SUBSET Service]
  /\ dead \subseteq Service /\ faults \in 0..MaxFaults /\ halfOpen \in 0..MaxHalfOpen

(***************************************************************************)
(* A service that has passed its migration finds version 5 recorded and    *)
(* every index valid with its definition, whatever builds failed, which    *)
(* remnants they left and who died while building.                         *)
(***************************************************************************)
ServesMigrated ==
  (version = Latest \/ \E p \in Service : pc[p] \in {"claim", "running", "serving"})
    => version = Latest /\ \A i \in Index : index[i] = "valid"

(***************************************************************************)
(* No service drops or rebuilds an index that another has completed: what  *)
(* a migration saw invalid is still invalid when it drops it, also when a  *)
(* build outlived its client.                                              *)
(***************************************************************************)
ValidIndexStays == [][\A i \in Index : index[i] = "valid" => index'[i] = "valid"]_vars

(***************************************************************************)
(* The migration lock is never leaked: its holder is migrating, or is a    *)
(* build that runs on without its client ("returning a session with [...]  *)
(* a leaked advisory lock", server/db.mjs).                                *)
(***************************************************************************)
NoLeakedLock == migrateLock # Free => pc[migrateLock] \in Migrating

\* The indexers that write.
Running == {p \in Service : pc[p] = "running"}

(***************************************************************************)
(* Two indexers never write at once, but for the indexers whose session    *)
(* the server gave up behind their backs: pg_try_advisory_lock is asked    *)
(* once, before the work.                                                  *)
(***************************************************************************)
OneIndexerPerSession == Cardinality(Running) <= 1 + halfOpen

(***************************************************************************)
(* "Only one indexer can run against a database at a time; a PostgreSQL    *)
(* advisory lock enforces that" (README.md).                               *)
(***************************************************************************)
OneIndexer == Cardinality(Running) <= 1

(***************************************************************************)
(* "Let the online build finish and make other service starters wait on    *)
(* the advisory lock" (server/db.mjs): a migration whose indexes may be    *)
(* built does not fail by itself.                                          *)
(***************************************************************************)
StartersWait ==
  faults = 0 /\ (\A i \in Index : index[i] # "other") => \A p \in Service : pc[p] # "cleanup"
=============================================================================
