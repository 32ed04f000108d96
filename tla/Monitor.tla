------------------------------ MODULE Monitor -------------------------------
(***************************************************************************)
(* How a stalled indexer is noticed: the checkpoint row the indexer leaves *)
(* behind (server/indexer.mjs), the assessment of that row by /api/health  *)
(* (server/db.mjs, server/index.mjs), and the cron job that asks for it    *)
(* and remembers what it saw (scripts/ops/monitor.mjs).                    *)
(*                                                                         *)
(* Time passes in ticks.  The indexer is reduced to when it writes its     *)
(* row; what it processes is module IndexerPipeline.  The monitor's checks *)
(* of the disk and of temporary files are left out.                        *)
(***************************************************************************)
EXTENDS Integers

CONSTANTS
  Stale,          \* INDEXER_STALE_SECONDS
  MonitorStale,   \* MONITOR_STALE_SECONDS
  Poll,           \* the longest a sound indexer goes without a checkpoint, cycles cut short included
  Timeout,        \* MONITOR_TIMEOUT_MS, the longest the API is waited for
  MaxHeight,      \* bound: the node's blocks
  MaxBroken,      \* bound: services that break
  MaxTime         \* bound: the clock

ASSUME MonitorAssumption ==
  /\ {Stale, MonitorStale, Poll, Timeout, MaxHeight, MaxBroken, MaxTime} \subseteq Nat
  /\ 0 < Poll /\ Poll + Timeout <= Stale /\ Poll <= MonitorStale

VARIABLES
  now,
  height,          \* of the node's chain, which is replaced by one no shorter
  moved,           \* the node changed branch under the last cycle, and no service has failed
  row,             \* sync_state; updatedAt, the last resort, is followed until startedAt is set
  cycle,           \* the target of the indexer's cycle, None between two
  down,            \* services that do not answer
  broken,          \* how many services have failed
  withDatabase,    \* the monitor has a database URL
  file,            \* its state file
  run,             \* its run
  lastSign,        \* when the indexer last had something to show
  sawProgress,     \* during the run the indexer was level with the node, or not late
  sawMove          \* during the run this was so

monitorVars ==
  <<now, height, moved, row, cycle, down, broken, withDatabase, file, run, lastSign, sawProgress, sawMove>>

None == -1
Parts == {"node", "database", "api", "indexer"}
NoRun == [phase |-> "none"]
NoFile == [indexedHeight |-> None, unchangedSince |-> None]
Up(services) == services \cap down = {}

MonitorInit ==
  /\ now = 0 /\ lastSign = 0 /\ height = 0 /\ moved = FALSE
  /\ row = [best |-> None, target |-> None, status |-> "idle",
            indexedAt |-> None, startedAt |-> None, updatedAt |-> 0]
  /\ cycle = None /\ down = {} /\ broken = 0
  /\ withDatabase \in BOOLEAN /\ file = NoFile /\ run = NoRun
  /\ sawProgress = FALSE /\ sawMove = FALSE

indexerVars == <<row, cycle, lastSign>>
worldVars   == <<now, height, moved, down, broken, withDatabase>>

-----------------------------------------------------------------------------
\* The indexer.

\* A cycle begins; blocks that left the node's chain are rolled back.  (A branch that
\* changes during the calls this takes changes right after them here.)
StartCycle ==
  /\ cycle = None /\ Up({"node", "database", "indexer"})
  /\ cycle' = height
  /\ \E best \in None .. row.best :
       row' = [row EXCEPT !.best = best, !.target = height, !.status = "syncing",
                          !.startedAt = IF @ = None THEN now ELSE @]
  /\ lastSign' = IF row.startedAt = None THEN now ELSE lastSign
  /\ moved' = FALSE
  /\ UNCHANGED <<now, height, down, broken, withDatabase, file, run>>

\* A batch is reduced.
Reduce ==
  /\ cycle # None /\ row.best < cycle /\ Up({"database", "indexer"})
  /\ row' = [row EXCEPT !.best = @ + 1, !.status = "syncing", !.indexedAt = now]
  /\ lastSign' = now
  /\ UNCHANGED <<worldVars, cycle, file, run>>

\* Seeded fault: only a batch counts as a checkpoint.
ReadyWithoutCheckpoint(state) == [state EXCEPT !.status = "ready", !.target = cycle]

Ready(state) ==
  [state EXCEPT !.status = "ready", !.target = cycle, !.indexedAt = now]

\* All blocks are processed and the asset queue is drained.
FinishCycle ==
  /\ cycle # None /\ row.best = cycle /\ Up({"database", "indexer"})
  /\ row' = Ready(row) /\ cycle' = None /\ lastSign' = now /\ moved' = FALSE
  /\ UNCHANGED <<now, height, down, broken, withDatabase, file, run>>

\* An error ends the cycle, or keeps it from starting; it is recorded if it can be.  A
\* single call that fails is a service that breaks and is repaired at once; and with
\* nothing broken a branch of the node that changes under the cycle is an error too.
FailCycle ==
  /\ Up({"indexer"}) /\ (broken > 0 \/ (moved /\ cycle # None))
  /\ cycle' = None
  /\ row' = IF ~ Up({"database"}) THEN row
            ELSE [row EXCEPT !.status = "error",
                             !.updatedAt = IF row.startedAt = None THEN now ELSE @]
  /\ UNCHANGED <<worldVars, file, run, lastSign>>

-----------------------------------------------------------------------------
\* The world.

\* A service stops, hangs or is cut off; an indexer that does so has lost its cycle.
Breaks(s) ==
  /\ s \notin down /\ broken < MaxBroken
  /\ down' = down \cup {s} /\ broken' = broken + 1
  /\ cycle' = IF s = "indexer" THEN None ELSE cycle
  /\ moved' = FALSE
  /\ UNCHANGED <<now, height, withDatabase, row, file, run, lastSign>>

IsRepaired(s) ==
  /\ s \in down /\ down' = down \ {s}
  /\ UNCHANGED <<now, height, moved, broken, withDatabase, indexerVars, file, run>>

NodeGrows ==
  /\ height < MaxHeight /\ height' = height + 1
  /\ UNCHANGED <<now, moved, down, broken, withDatabase, indexerVars, file, run>>

\* Another branch, no shorter, takes the place of the node's.  (When a service has failed
\* a cycle may fail anyway, and this is no more than NodeGrows.)
NodeReorganises ==
  /\ broken = 0
  /\ height' \in height .. MaxHeight /\ moved' = (moved \/ cycle # None)
  /\ UNCHANGED <<now, down, broken, withDatabase, indexerVars, file, run>>

\* While nothing has failed the indexer is in time; a call ends before its timeout.
Tick ==
  /\ now < MaxTime
  /\ run.phase = "health" => now < run.now + Timeout
  /\ broken > 0 \/ now < lastSign + Poll
  /\ now' = now + 1
  /\ UNCHANGED <<height, moved, down, broken, withDatabase, indexerVars, file, run>>

-----------------------------------------------------------------------------
\* assessIndexerHealth and buildHealthPayload.

FirstKnown(a, b) == IF a # None THEN a ELSE b

CheckpointAt(state) == FirstKnown(state.indexedAt, FirstKnown(state.startedAt, state.updatedAt))

IsStale(state, target) ==
  /\ state.status \in {"idle", "syncing", "ready"}
  /\ target > state.best
  /\ now - CheckpointAt(state) > Stale

\* Seeded fault: the height the indexer was to reach, not the node's.
StoredTarget(chain, state) == state.target

TargetHeight(chain, state) == chain

HealthPayload(chain, state) ==
  LET stale   == IsStale(state, TargetHeight(chain, state))
      healthy == state.status \in {"syncing", "ready", "idle"} /\ ~ stale
  IN  [failures |-> (IF healthy THEN {} ELSE {"degraded"}) \cup (IF stale THEN {"stale"} ELSE {}),
       indexedHeight |-> state.best, targetHeight |-> chain]

\* What the monitor has when there is no answer, or "unavailable".
NoHealth == [failures |-> {"unavailable"}, indexedHeight |-> None, targetHeight |-> None]

-----------------------------------------------------------------------------
\* The monitor.

StartRun ==
  /\ run = NoRun
  /\ run' = [phase |-> "health", now |-> now, previous |-> file, chain |-> <<>>, state |-> <<>>]
  /\ UNCHANGED <<worldVars, indexerVars, file>>

\* The server asks the node and the database at the same time.
AskChain ==
  /\ run.phase = "health" /\ run.chain = <<>> /\ Up({"api", "node"})
  /\ run' = [run EXCEPT !.chain = <<height>>]
  /\ UNCHANGED <<worldVars, indexerVars, file>>

AskState ==
  /\ run.phase = "health" /\ run.state = <<>> /\ Up({"api", "database"})
  /\ run' = [run EXCEPT !.state = <<row>>]
  /\ UNCHANGED <<worldVars, indexerVars, file>>

WithHealth(health) ==
  [phase |-> "database", now |-> run.now, previous |-> run.previous, health |-> health]

GetHealth ==
  /\ run.phase = "health"
  /\ \/ run.chain # <<>> /\ run.state # <<>> /\ Up({"api"})
        /\ run' = WithHealth(HealthPayload(run.chain[1], run.state[1]))
     \/ ~ Up({"api", "node", "database"}) /\ run' = WithHealth(NoHealth)
  /\ UNCHANGED <<worldVars, indexerVars, file>>

\* The checks, and the state that is written whatever they say.
Ended(state, failures) ==
  LET health        == run.health
      indexedHeight == FirstKnown(state.best, health.indexedHeight)
      targetHeight  == FirstKnown(state.target, health.targetHeight)
      behind        == indexedHeight # None /\ targetHeight # None /\ indexedHeight < targetHeight
      sameAsBefore  == run.previous # NoFile /\ indexedHeight = run.previous.indexedHeight
      unchangedSince == IF sameAsBefore THEN run.previous.unchangedSince ELSE run.now
      late == IF state.status # "unknown"
              THEN (IF behind /\ now - CheckpointAt(state) > MonitorStale THEN {"checkpoint"} ELSE {})
                     \cup (IF state.status = "error" THEN {"status"} ELSE {})
              ELSE IF behind /\ run.now - unchangedSince > MonitorStale THEN {"unchanged"} ELSE {}
  IN  /\ file' = [indexedHeight |-> indexedHeight, unchangedSince |-> unchangedSince]
      /\ run' = [phase |-> "ended", failures |-> health.failures \cup failures \cup late]

NoMetrics == [best |-> None, target |-> None, status |-> "unknown"]

CheckDatabase ==
  /\ run.phase = "database"
  /\ \/ withDatabase /\ Up({"database"}) /\ Ended(row, {})
     \/ withDatabase /\ ~ Up({"database"}) /\ Ended(NoMetrics, {"database"})
     \/ ~ withDatabase /\ Ended(NoMetrics, {})
  /\ UNCHANGED <<worldVars, indexerVars>>

\* It is over; or it is killed or cannot read the disk before it has written its state.
EndRun ==
  /\ run # NoRun /\ run' = NoRun
  /\ UNCHANGED <<worldVars, indexerVars, file>>

Step ==
  \/ StartCycle \/ Reduce \/ FinishCycle \/ FailCycle
  \/ \E s \in Parts : Breaks(s) \/ IsRepaired(s)
  \/ NodeGrows \/ NodeReorganises \/ Tick
  \/ StartRun \/ AskChain \/ AskState \/ GetHealth \/ CheckDatabase \/ EndRun

\* The indexer is level with the node, or has had something to show lately.
InProgress == row.best >= height \/ now - lastSign <= Stale

MonitorNext ==
  /\ Step
  /\ sawProgress' = (run' # NoRun /\ (InProgress' \/ (run # NoRun /\ sawProgress)))
  /\ sawMove' = (run' # NoRun /\ broken' = 0 /\ (moved' \/ (run # NoRun /\ sawMove)))

MonitorSpec == MonitorInit /\ [][MonitorNext]_monitorVars

-----------------------------------------------------------------------------
(***************************************************************************)
(* "It exits nonzero when ... the processed checkpoint is stale while      *)
(* behind target" (docs/operations.md:62).  A run that passes was made     *)
(* while the indexer was level with the node, or within the limit of its   *)
(* last checkpoint: an indexer that is dead, hangs or only goes from error *)
(* to error cannot be taken for a sound one, in whichever phase it is seen *)
(* and whatever it last wrote about its target.                            *)
(***************************************************************************)
StallIsReported == run.phase = "ended" /\ run.failures = {} => sawProgress

(***************************************************************************)
(* An indexer that is in time is never reported late, before its first     *)
(* block, after a rollback or when a block comes after a long silence.     *)
(* While no service fails a run complains of two things only: of the       *)
(* "error" that a cycle cut short by a reorganisation leaves until the     *)
(* next cycle begins, if there was one; and, without a database, of a      *)
(* remembered height that has not changed, since it is not known when it   *)
(* was indexed.                                                            *)
(***************************************************************************)
HealthyIsNotStale ==
  run.phase = "ended" /\ broken = 0 =>
    run.failures \subseteq (IF sawMove THEN {"degraded", "status"} ELSE {})
                       \cup (IF withDatabase THEN {} ELSE {"unchanged"})
=============================================================================
