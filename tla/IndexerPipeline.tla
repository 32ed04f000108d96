--------------------------- MODULE IndexerPipeline ---------------------------
(***************************************************************************)
(* The synchronisation loop of server/indexer.mjs against the checkpoint   *)
(* transactions of server/pipeline.mjs.                                    *)
(*                                                                         *)
(* A cycle reads the node's height, looks for a reorganisation, rolls the  *)
(* database back to the common ancestor and then runs two workers: the     *)
(* producer stages raw blocks, the aggregator prepares ranges of staged    *)
(* blocks in parallel and reduces them in height order.  Every action is   *)
(* one database transaction or one RPC answer with the JavaScript that     *)
(* runs until the next await.                                              *)
(*                                                                         *)
(* What a block does to addresses and assets is left out: modules Ledger   *)
(* and AssetQueue.                                                         *)
(***************************************************************************)
EXTENDS AggregationRanges, BlockTree, FiniteSets

CONSTANTS
  RawBatchSize, AggregationBatchSize, AggregationConcurrency, RawLeadBlocks,
  MaxReorgs,     \* bound: how often the node leaves its branch
  MaxFaults,     \* bound: failed RPC calls and database transactions
  MaxRestarts    \* bound: crashes and stop signals

ASSUME PipelineAssumption ==
  /\ RawBatchSize \in Nat \ {0} /\ AggregationBatchSize \in Nat \ {0}
  /\ AggregationConcurrency \in Nat \ {0}
  /\ RawLeadBlocks \in Nat
  /\ RawLeadBlocks >= RawBatchSize /\ RawLeadBlocks >= AggregationBatchSize
  /\ {MaxReorgs, MaxFaults, MaxRestarts} \subseteq Nat

VARIABLES
  chain,         \* the node's active chain, height -> hash
  \* the database
  blocks,        \* table blocks, height -> hash
  rawHeight, rawHash, bestHeight, bestHash, status, targetHeight,  \* sync_state
  batches,       \* table aggregation_batches
  \* the cycle
  pc,            \* where the indexer process is
  stopping,      \* a stop signal arrived
  aborted,       \* the cycle's AbortController fired
  rootError,     \* the cycle will be reported as failed
  target,        \* chain.blocks, read once per cycle
  probe,         \* height the search for the common ancestor looks at
  \* the producer
  pp,            \* where it is
  request,       \* the heights being fetched, and raw_hash when that began
  fetched,       \* the blocks fetched so far, height -> hash
  \* the aggregator
  ap,            \* where it is
  window,        \* the heights it plans for
  listed,        \* reserved ranges: the answer of listPreparedRanges
  adaptive,      \* adaptiveBatchSize
  active,        \* prepare calls in flight
  \* bounds
  reorgs, faults, restarts

nodeVars   == <<chain, reorgs>>
syncVars   == <<rawHeight, rawHash, bestHeight, bestHash, status, targetHeight>>
dbVars     == <<blocks, syncVars, batches>>
cycleVars  == <<pc, stopping, aborted, rootError, target, probe>>
produceVars == <<pp, request, fetched>>
aggVars    == <<ap, window, listed, adaptive, active>>
boundVars  == <<faults, restarts>>
vars == <<nodeVars, dbVars, cycleVars, produceVars, aggVars, boundVars>>

TipHeight == CHOOSE n \in DOMAIN chain : n + 1 \notin DOMAIN chain

Lower(a, b) == IF a <= b THEN a ELSE b

Halted == stopping \/ aborted

NoRequest == [first |-> 0, last |-> 0, prev |-> NoBlock]
NoWindow  == [first |-> 0, last |-> 0]

Range(first, last) == [first |-> first, last |-> last]
RangeOf(b)         == Range(b.first, b.last)

Init ==
  /\ chain \in Chains
  /\ blocks = NoRows
  /\ rawHeight = -1 /\ rawHash = NoBlock
  /\ bestHeight = -1 /\ bestHash = NoBlock
  /\ status = "idle" /\ targetHeight = -1
  /\ batches = {}
  /\ pc = "poll" /\ stopping = FALSE /\ aborted = FALSE /\ rootError = FALSE
  /\ target = 0 /\ probe = 0
  /\ pp = "ended" /\ request = NoRequest /\ fetched = NoRows
  /\ ap = "ended" /\ window = NoWindow /\ listed = {}
  /\ adaptive = AggregationBatchSize /\ active = {}
  /\ reorgs = 0 /\ faults = 0 /\ restarts = 0

-----------------------------------------------------------------------------
\* The node.

Mine ==
  /\ \E b \in Block :
       chain' \in {c \in Chains : c = [h \in 0..TipHeight + 1 |->
                                         IF h \in DOMAIN chain THEN chain[h] ELSE b]}
  /\ UNCHANGED <<reorgs, dbVars, cycleVars, produceVars, aggVars, boundVars>>

\* The node moves to a chain that is not an extension of its own, which may be
\* higher, as high or (a block invalidated by its operator) lower.
Reorganise ==
  /\ reorgs < MaxReorgs
  /\ chain' \in {c \in Chains : \E h \in DOMAIN chain : h \notin DOMAIN c \/ c[h] # chain[h]}
  /\ reorgs' = reorgs + 1
  /\ UNCHANGED <<dbVars, cycleVars, produceVars, aggVars, boundVars>>

-----------------------------------------------------------------------------
\* The cycle, up to the pipeline.

\* The cycle rejects: run() records it and polls again, or leaves when stopping.
CycleThrows ==
  IF stopping
  THEN pc' = "exited" /\ UNCHANGED status
  ELSE pc' = "poll" /\ status' \in {"error", status}

ContinueAt(next) == pc' = IF stopping THEN "exited" ELSE next

\* Seeded fault: a node below the staged tip is not taken for a reorganisation.
RawTipAboveChainMissed(height) == FALSE

RawTipAboveChain(height) == rawHeight > height

\* getblockchaininfo and the first read of sync_state.
StartCycle ==
  /\ pc = "poll" /\ ~ stopping
  /\ target' = TipHeight
  /\ probe' = Lower(rawHeight, target')
  /\ pc' = IF rawHeight < 0 THEN "begin"
           ELSE IF RawTipAboveChain(target') THEN "ancestor" ELSE "check"
  /\ UNCHANGED <<nodeVars, dbVars, stopping, aborted, rootError, produceVars, aggVars, boundVars>>

\* getblockhash of the staged tip; the node refuses a height above its own.
CheckTip ==
  /\ pc = "check"
  /\ IF rawHeight > TipHeight
     THEN CycleThrows
     ELSE /\ ContinueAt(IF chain[rawHeight] = rawHash THEN "begin" ELSE "ancestor")
          /\ UNCHANGED status
  /\ UNCHANGED <<nodeVars, blocks, rawHeight, rawHash, bestHeight, bestHash, targetHeight,
                 batches, stopping, aborted, rootError, target, probe, produceVars, aggVars,
                 boundVars>>

OnNodeChain(h) == h \in DOMAIN blocks /\ h \in DOMAIN chain /\ chain[h] = blocks[h]

AncestorFound == probe < 0 \/ OnNodeChain(probe)

\* One height of findCommonAncestor.
CompareAncestor ==
  /\ pc = "ancestor"
  /\ IF probe \in DOMAIN blocks /\ probe > TipHeight
     THEN CycleThrows /\ UNCHANGED probe
     ELSE IF AncestorFound
     THEN ContinueAt("rollback") /\ UNCHANGED <<probe, status>>
     ELSE probe' = probe - 1 /\ UNCHANGED <<pc, status>>
  /\ UNCHANGED <<nodeVars, blocks, rawHeight, rawHash, bestHeight, bestHash, targetHeight,
                 batches, stopping, aborted, rootError, target, produceVars, aggVars, boundVars>>

HashAt(h) == IF h >= 0 THEN blocks[h] ELSE NoBlock

\* Seeded fault: best_height is not lowered.
ProcessedAfterKept(ancestor) == bestHeight

ProcessedAfter(ancestor) == Lower(bestHeight, ancestor)

\* Seeded fault: batches that reach over the ancestor survive, and their foreign
\* key does not cascade.
SurvivingBatchesByFirst(ancestor) == {b \in batches : b.first <= ancestor}

SurvivingBatches(ancestor) == {b \in batches : b.first <= ancestor /\ b.last <= ancestor}

RollbackTo ==
  /\ pc = "rollback"
  /\ LET ancestor  == probe
         processed == ProcessedAfter(ancestor)
     IN  /\ batches' = SurvivingBatches(ancestor)
         /\ blocks' = [h \in {k \in DOMAIN blocks : k <= ancestor} |-> blocks[h]]
         /\ bestHeight' = processed /\ bestHash' = HashAt(processed)
         /\ rawHeight' = ancestor /\ rawHash' = HashAt(ancestor)
         /\ status' = "syncing"
  /\ ContinueAt("begin")
  /\ UNCHANGED <<nodeVars, targetHeight, stopping, aborted, rootError, target, probe,
                 produceVars, aggVars, boundVars>>

\* setState, and both workers start.
BeginPipeline ==
  /\ pc = "begin"
  /\ status' = "syncing" /\ targetHeight' = target
  /\ rawHeight' = IF rawHeight < bestHeight THEN bestHeight ELSE rawHeight
  /\ rawHash' = IF rawHeight < bestHeight THEN bestHash ELSE rawHash
  /\ pc' = "pipeline" /\ pp' = "loop" /\ ap' = "loop" /\ probe' = 0
  /\ UNCHANGED <<nodeVars, blocks, bestHeight, bestHash, batches, stopping, aborted, rootError,
                 target, request, fetched, window, listed, adaptive, active, boundVars>>

-----------------------------------------------------------------------------
\* The pipeline: failures.

\* A pipeline worker rejects; the sibling sees the aborted signal.
WorkerThrows ==
  /\ aborted' = TRUE
  /\ rootError' = (rootError \/ ~ stopping)

\* A prepare call rejects for good: failCycle, whether stopping or not.
FailCycle == aborted' = TRUE /\ rootError' = TRUE

-----------------------------------------------------------------------------
\* The producer.

ProducerEnds ==
  /\ pp' = "ended" /\ request' = NoRequest /\ fetched' = NoRows

LastToFetch == Lower(target, Lower(rawHeight + RawBatchSize, bestHeight + RawLeadBlocks))

ProducerTurn ==
  /\ pc = "pipeline" /\ pp = "loop"
  /\ \/ /\ Halted \/ rawHeight >= target
        /\ ProducerEnds
     \/ /\ ~ Halted /\ rawHeight < target
        /\ rawHeight - bestHeight < RawLeadBlocks
        /\ pp' = "fetch"
        /\ request' = [first |-> rawHeight + 1,
                       last  |-> LastToFetch,
                       prev  |-> rawHash]
        /\ UNCHANGED fetched
  /\ UNCHANGED <<nodeVars, dbVars, cycleVars, aggVars, boundVars>>

\* The answer for one height of the getblockhash batch (its block follows by
\* hash, so a later reorganisation does not change it).
FetchBlock ==
  /\ pc = "pipeline" /\ pp = "fetch"
  /\ \E h \in request.first .. request.last :
       /\ DOMAIN fetched = request.first .. h - 1
       /\ IF h > TipHeight
          THEN ProducerEnds /\ WorkerThrows
          ELSE /\ fetched' = [k \in request.first .. h |->
                                IF k = h THEN chain[h] ELSE fetched[k]]
               /\ pp' = IF h = request.last THEN "stage" ELSE "fetch"
               /\ UNCHANGED <<request, aborted, rootError>>
  /\ UNCHANGED <<nodeVars, dbVars, pc, stopping, target, probe, aggVars, boundVars>>

\* Seeded fault: the blocks are compared with each other, not with the staged tip.
FetchedIsLinkedInside ==
  \A h \in DOMAIN fetched :
    h > request.first => Parent[fetched[h]] = fetched[h - 1]

\* The check of previousblockhash before the transaction.
FetchedIsLinked ==
  \A h \in DOMAIN fetched :
    h > 0 => Parent[fetched[h]] = IF h = request.first THEN request.prev ELSE fetched[h - 1]

StageBatch ==
  /\ pc = "pipeline" /\ pp = "stage"
  /\ IF ~ Halted /\ FetchedIsLinked
     THEN /\ blocks' = [h \in DOMAIN blocks \cup DOMAIN fetched |->
                          IF h \in DOMAIN blocks THEN blocks[h] ELSE fetched[h]]
          /\ rawHeight' = request.last /\ rawHash' = fetched[request.last]
          /\ status' = "syncing"
          /\ pp' = "loop" /\ request' = NoRequest /\ fetched' = NoRows
          /\ UNCHANGED <<aborted, rootError>>
     ELSE /\ ProducerEnds
          /\ IF Halted THEN UNCHANGED <<aborted, rootError>> ELSE WorkerThrows
          /\ UNCHANGED <<blocks, rawHeight, rawHash, status>>
  /\ UNCHANGED <<nodeVars, bestHeight, bestHash, targetHeight, batches, pc, stopping, target,
                 probe, aggVars, boundVars>>

-----------------------------------------------------------------------------
\* The aggregator.

\* Seeded fault: the lowest batch above the processed tip, not the next one.
ReducibleAbove(b) == b.status = "prepared" /\ b.first > bestHeight

Reducible(b) == b.status = "prepared" /\ b.first = bestHeight + 1

\* reducePreparedAggregationBatch, called until it returns null.
ReduceBatch ==
  /\ pc = "pipeline" /\ ap = "loop" /\ ~ Halted
  /\ \E b \in batches :
       /\ Reducible(b)
       /\ IF b.last \in DOMAIN blocks /\ blocks[b.last] = b.tip
          THEN /\ bestHeight' = b.last /\ bestHash' = b.tip /\ status' = "syncing"
               /\ batches' = (batches \ {b}) \cup {[b EXCEPT !.status = "reduced"]}
               /\ UNCHANGED <<ap, aborted, rootError>>
          ELSE /\ ap' = "drain" /\ WorkerThrows
               /\ UNCHANGED <<bestHeight, bestHash, status, batches>>
  /\ UNCHANGED <<nodeVars, blocks, rawHeight, rawHash, targetHeight, pc, stopping, target, probe,
                 produceVars, window, listed, adaptive, active, boundVars>>

ReduceNothing ==
  /\ pc = "pipeline" /\ ap = "loop"
  /\ \/ Halted /\ ap' = "drain"
     \/ ~ Halted /\ (\A b \in batches : ~ Reducible(b)) /\ ap' = "state"
  /\ UNCHANGED <<nodeVars, dbVars, cycleVars, produceVars, window, listed, adaptive, active,
                 boundVars>>

\* Seeded fault: the aggregator is content when everything is staged.
NothingLeftStaged == rawHeight >= target

NothingLeft == bestHeight >= target

\* getState, and the query of listPreparedRanges: its answer is a snapshot.
ReadState ==
  /\ pc = "pipeline" /\ ap = "state"
  /\ LET lastStaged == Lower(rawHeight, target)
     IN  \/ /\ NothingLeft
            /\ ap' = IF active = {} THEN "ended" ELSE "loop"
            /\ UNCHANGED <<window, listed>>
         \/ /\ ~ NothingLeft /\ lastStaged <= bestHeight
            /\ ap' = "loop"
            /\ UNCHANGED <<window, listed>>
         \/ /\ ~ NothingLeft /\ lastStaged > bestHeight
            /\ ap' = "list"
            /\ window' = Range(bestHeight + 1, lastStaged)
            /\ listed' = {RangeOf(b) : b \in {a \in batches :
                            /\ a.status = "prepared"
                            /\ a.last >= window'.first /\ a.first <= window'.last}}
  /\ UNCHANGED <<nodeVars, dbVars, cycleVars, produceVars, adaptive, active, boundVars>>

\* The answer arrives: only now are the calls in flight added.
Reserve ==
  /\ pc = "pipeline" /\ ap = "list"
  /\ listed' = listed \cup {RangeOf(t) : t \in active}
  /\ ap' = "start"
  /\ UNCHANGED <<nodeVars, dbVars, cycleVars, produceVars, window, adaptive, active, boundVars>>

\* startPreparation of one planned range, until the planner or the limit says no.
\* No callback can run in between: SettleTask and its failures wait for ap # "start".
StartTask ==
  /\ pc = "pipeline" /\ ap = "start"
  /\ LET planned == IF Cardinality(active) < AggregationConcurrency
                    THEN NextRanges(window.first, window.last, adaptive, listed) ELSE {}
     IN  \/ \E r \in planned :
              /\ active' = active \cup {[first |-> r.first, last |-> r.last, state |-> "running"]}
              /\ listed' = listed \cup {r}
              /\ UNCHANGED <<ap, window>>
         \/ /\ planned = {}
            /\ ap' = "loop" /\ listed' = {} /\ window' = NoWindow
            /\ UNCHANGED active
  /\ UNCHANGED <<nodeVars, dbVars, cycleVars, produceVars, adaptive, boundVars>>

\* Seeded fault: the calls in flight are not awaited.
AggregatorEndsEarly ==
  /\ pc = "pipeline" /\ ap = "drain"
  /\ ap' = "ended"
  /\ UNCHANGED <<nodeVars, dbVars, cycleVars, produceVars, window, listed, adaptive, active,
                 boundVars>>

\* Promise.allSettled of the calls in flight.
AggregatorEnds ==
  /\ pc = "pipeline" /\ ap = "drain" /\ active = {}
  /\ ap' = "ended"
  /\ UNCHANGED <<nodeVars, dbVars, cycleVars, produceVars, window, listed, adaptive, active,
                 boundVars>>

-----------------------------------------------------------------------------
\* prepareAggregationBatch, one transaction per call.

AlreadyPrepared(t) == \E b \in batches : RangeOf(b) = RangeOf(t)

\* The checks of the transaction and the keys of aggregation_batches.
CanInsert(t) ==
  /\ t.first > bestHeight /\ t.last <= rawHeight /\ t.last \in DOMAIN blocks
  /\ \A b \in batches : b.first # t.first /\ b.last # t.last

Commit(t) == active' = (active \ {t}) \cup {[t EXCEPT !.state = "committed"]}

PrepareBatch(t) ==
  /\ t.state = "running"
  /\ \/ AlreadyPrepared(t) /\ UNCHANGED batches
     \/ /\ ~ AlreadyPrepared(t) /\ CanInsert(t)
        /\ batches' = batches \cup {[first |-> t.first, last |-> t.last,
                                     tip |-> blocks[t.last], status |-> "prepared"]}
  /\ Commit(t)
  /\ UNCHANGED <<nodeVars, blocks, syncVars, cycleVars, produceVars, ap, window, listed, adaptive,
                 boundVars>>

\* The transaction refuses the range.
RefuseBatch(t) ==
  /\ t.state = "running" /\ ap # "start"
  /\ ~ AlreadyPrepared(t) /\ ~ CanInsert(t)
  /\ active' = active \ {t}
  /\ FailCycle
  /\ UNCHANGED <<nodeVars, dbVars, pc, stopping, target, probe, produceVars, ap, window, listed,
                 adaptive, boundVars>>

\* The call resolves: active.delete(key).
SettleTask(t) ==
  /\ t.state = "committed" /\ ap # "start"
  /\ active' = active \ {t}
  /\ UNCHANGED <<nodeVars, dbVars, cycleVars, produceVars, ap, window, listed, adaptive, boundVars>>

\* Seeded fault: a single block is halved as well.
SplittableAlways(t) == t.state = "running"

Splittable(t) == t.state = "running" /\ t.last > t.first

\* The database rejects the call; a range that was too dense is halved.
TaskFault(t) ==
  /\ ap # "start" /\ faults < MaxFaults
  /\ faults' = faults + 1
  /\ active' = active \ {t}
  /\ \/ /\ Splittable(t)
        /\ adaptive' = (t.last - t.first + 1) \div 2
        /\ UNCHANGED <<aborted, rootError>>
     \/ /\ FailCycle /\ UNCHANGED adaptive
  /\ UNCHANGED <<nodeVars, dbVars, pc, stopping, target, probe, produceVars, ap, window, listed,
                 restarts>>

-----------------------------------------------------------------------------
\* The end of a cycle, failures, signals.

ResetProcess ==
  /\ aborted' = FALSE /\ rootError' = FALSE /\ target' = 0 /\ probe' = 0
  /\ pp' = "ended" /\ request' = NoRequest /\ fetched' = NoRows
  /\ ap' = "ended" /\ window' = NoWindow /\ listed' = {}
  /\ adaptive' = AggregationBatchSize /\ active' = {}

WorkersEnded == pc = "pipeline" /\ pp = "ended" /\ ap = "ended"

EndCycle ==
  /\ WorkersEnded
  /\ \/ /\ rootError /\ CycleThrows /\ UNCHANGED targetHeight
     \/ /\ ~ rootError /\ Halted
        /\ pc' = "exited" /\ UNCHANGED <<status, targetHeight>>
     \/ /\ ~ rootError /\ ~ Halted
        /\ pc' = "poll" /\ status' = "ready" /\ targetHeight' = target
  /\ ResetProcess
  /\ UNCHANGED <<nodeVars, blocks, rawHeight, rawHash, bestHeight, bestHash, batches, stopping,
                 boundVars>>

\* An RPC call or a query of the cycle itself rejects.
CycleFault ==
  /\ faults < MaxFaults
  /\ \/ pc \in {"poll", "check", "ancestor", "rollback", "begin"} /\ (pc = "poll" => ~ stopping)
     \/ WorkersEnded /\ ~ rootError /\ ~ Halted
  /\ faults' = faults + 1
  /\ CycleThrows /\ ResetProcess
  /\ UNCHANGED <<nodeVars, blocks, rawHeight, rawHash, bestHeight, bestHash, targetHeight, batches,
                 stopping, restarts>>

\* An RPC call or a query of a worker rejects.
WorkerFault ==
  /\ pc = "pipeline" /\ faults < MaxFaults
  /\ \/ pp # "ended" /\ ProducerEnds /\ UNCHANGED <<ap, window, listed>>
     \/ /\ ap \in {"loop", "state", "list"}
        /\ ap' = "drain" /\ window' = NoWindow /\ listed' = {}
        /\ UNCHANGED produceVars
  /\ WorkerThrows
  /\ faults' = faults + 1
  /\ UNCHANGED <<nodeVars, dbVars, pc, stopping, target, probe, adaptive, active, restarts>>

\* SIGINT or SIGTERM.
Stop ==
  /\ pc # "exited" /\ ~ stopping /\ restarts < MaxRestarts
  /\ stopping' = TRUE
  /\ aborted' = (pc # "poll")
  /\ restarts' = restarts + 1
  /\ UNCHANGED <<nodeVars, dbVars, pc, rootError, target, probe, produceVars, aggVars, faults>>

ExitLoop ==
  /\ pc = "poll" /\ stopping
  /\ pc' = "exited"
  /\ UNCHANGED <<nodeVars, dbVars, stopping, aborted, rootError, target, probe, produceVars,
                 aggVars, boundVars>>

\* The process dies; transactions in flight are rolled back.
Crash ==
  /\ pc # "exited" /\ restarts < MaxRestarts
  /\ restarts' = restarts + 1
  /\ pc' = "exited" /\ stopping' = FALSE
  /\ ResetProcess
  /\ UNCHANGED <<nodeVars, dbVars, faults>>

\* The supervisor starts the process again.
Restart ==
  /\ pc = "exited"
  /\ pc' = "poll" /\ stopping' = FALSE
  /\ ResetProcess
  /\ UNCHANGED <<nodeVars, dbVars, boundVars>>

-----------------------------------------------------------------------------
Cycle == \/ StartCycle \/ CheckTip \/ CompareAncestor \/ RollbackTo \/ BeginPipeline
         \/ EndCycle \/ ExitLoop \/ Restart
Produce == ProducerTurn \/ FetchBlock \/ StageBatch
Aggregate == \/ ReduceBatch \/ ReduceNothing \/ ReadState \/ Reserve \/ StartTask
             \/ AggregatorEnds
Tasks == \/ \E t \in active : PrepareBatch(t)
         \/ \E t \in active : RefuseBatch(t)
         \/ \E t \in active : SettleTask(t)
Faults == CycleFault \/ WorkerFault \/ \E t \in active : TaskFault(t)
Environment == Mine \/ Reorganise \/ Stop \/ Crash

Next == Cycle \/ Produce \/ Aggregate \/ Tasks \/ Faults \/ Environment

Spec == Init /\ [][Next]_vars

\* Every worker and every query makes progress; the node and faults need not.
FairSpec ==
  /\ Spec
  /\ WF_vars(Cycle) /\ WF_vars(Produce) /\ WF_vars(Aggregate)
  /\ SF_vars(Tasks)

-----------------------------------------------------------------------------
RangeType  == RangesWithin(0, MaxHeight)
HeightType == -1..MaxHeight
HashType   == Block \cup {NoBlock}
RowsType   == UNION {[D -> Block] : D \in SUBSET (0..MaxHeight)}

NodeType == chain \in Chains /\ reorgs \in 0..MaxReorgs

DatabaseType ==
  /\ blocks \in RowsType
  /\ rawHeight \in HeightType /\ bestHeight \in HeightType /\ targetHeight \in HeightType
  /\ rawHash \in HashType /\ bestHash \in HashType
  /\ status \in {"idle", "syncing", "ready", "error"}
  /\ batches \subseteq [first : 0..MaxHeight, last : 0..MaxHeight, tip : Block,
                        status : {"prepared", "reduced"}]

CycleType ==
  /\ pc \in {"poll", "check", "ancestor", "rollback", "begin", "pipeline", "exited"}
  /\ stopping \in BOOLEAN /\ aborted \in BOOLEAN /\ rootError \in BOOLEAN
  /\ target \in 0..MaxHeight /\ probe \in HeightType

ProducerType ==
  /\ pp \in {"loop", "fetch", "stage", "ended"}
  /\ request \in [first : 0..MaxHeight, last : 0..MaxHeight, prev : HashType]
  /\ fetched \in RowsType

AggregatorType ==
  /\ ap \in {"loop", "state", "list", "start", "drain", "ended"}
  /\ window \in RangeType /\ listed \subseteq RangeType
  /\ adaptive \in 1..AggregationBatchSize
  /\ active \subseteq [first : 0..MaxHeight, last : 0..MaxHeight,
                       state : {"running", "committed"}]

BoundType == faults \in 0..MaxFaults /\ restarts \in 0..MaxRestarts

TypeOK ==
  NodeType /\ DatabaseType /\ CycleType /\ ProducerType /\ AggregatorType /\ BoundType

(***************************************************************************)
(* The staged rows are one branch: no height is missing, and each block is *)
(* on the one below, whatever the node did while a batch was being fetched *)
(* and wherever a rollback, a fault or a crash fell.                       *)
(***************************************************************************)
StagedOneBranch ==
  /\ DOMAIN blocks = 0..rawHeight
  /\ \A h \in 1..rawHeight : Parent[blocks[h]] = blocks[h - 1]

(***************************************************************************)
(* The two checkpoints of sync_state agree with the rows and each other:   *)
(* the processed tip is never above the staged tip, and each recorded hash *)
(* is the hash of the row at the recorded height.                          *)
(***************************************************************************)
CheckpointsConsistent ==
  /\ bestHeight <= rawHeight
  /\ DOMAIN blocks = 0..rawHeight
  /\ rawHash = HashAt(rawHeight)
  /\ bestHash = HashAt(bestHeight)

(***************************************************************************)
(* A durable batch always belongs to the staged branch, so the reducer's   *)
(* "no longer matches the staged chain" is never raised, and a batch that  *)
(* is marked reduced ends at or below the processed tip.  (Not the other   *)
(* way round: see ProcessedInBatches.)                                     *)
(***************************************************************************)
BatchesMatchChain ==
  \A b \in batches :
    /\ b.last \in DOMAIN blocks /\ blocks[b.last] = b.tip
    /\ b.status = "reduced" => b.last <= bestHeight

\* What a reader of the database sees: the rows gated by best_height.
Public == INSTANCE ProcessedChain
            WITH processed <- [h \in 0..bestHeight |-> blocks[h]],
                 ready <- (status = "ready"), goal <- targetHeight

(***************************************************************************)
(* The pipeline implements what ProcessedChain promises to readers: "The   *)
(* API only exposes the processed tip" (README.md), a tip that only grows  *)
(* by linked blocks or is cut back, and never moves while "ready" is shown.*)
(***************************************************************************)
ImplementsProcessedChain == Public!Spec

\* The batches without the hash of their tip.
Durable == {[first |-> b.first, last |-> b.last, status |-> b.status] : b \in batches}

Recorded == INSTANCE Checkpoints WITH batches <- Durable

(***************************************************************************)
(* Whatever its workers, failures and restarts do, the pipeline changes    *)
(* the database only by checkpoint transactions whose conditions hold when *)
(* they commit, though each was decided on a state read before: a staged   *)
(* batch is on the staged tip, and a rollback finds what its search saw.   *)
(* So what Ledger shows of any order of these transactions is true of the  *)
(* pipeline's.                                                             *)
(***************************************************************************)
ImplementsCheckpoints == Recorded!Spec

(***************************************************************************)
(* The buffer between the workers is bounded: the producer never stages    *)
(* more than INDEXER_RAW_LEAD_BLOCKS above the processed tip.              *)
(***************************************************************************)
RawLeadBound == rawHeight - bestHeight <= RawLeadBlocks

(***************************************************************************)
(* "ready" is only ever shown for a database whose processed tip, staged   *)
(* tip and target are the same height.                                     *)
(***************************************************************************)
ReadyMeansProcessed ==
  status = "ready" => bestHeight = targetHeight /\ rawHeight = targetHeight

(***************************************************************************)
(* No transaction of a cycle outlives it: a prepare call is in flight only *)
(* while the aggregator of that cycle runs, so a rollback of the next      *)
(* cycle never races one ("waits for sibling pipeline work before          *)
(* surfacing a failed cycle", server/indexer-lifecycle.test.mjs).          *)
(***************************************************************************)
TasksOnlyInPipeline == active # {} => pc = "pipeline" /\ ap # "ended"

(***************************************************************************)
(* The gaps between durable batches stay fillable ("parallel range planner *)
(* fills durable gaps without overlapping completed work"): a prepared     *)
(* batch never reaches over the processed tip from below, where it would   *)
(* hide its heights from the planner while the reducer cannot take it.     *)
(***************************************************************************)
NoStrandedBatch ==
  \A b \in batches :
    b.status = "prepared" => ~ (b.first <= bestHeight /\ bestHeight < b.last)

(***************************************************************************)
(* Unless a batch stays stranded, the indexer catches up: after every      *)
(* change of branch, fault and restart it reports readiness with the       *)
(* node's tip processed.                                                   *)
(***************************************************************************)
Synchronises ==
  <>[]NoStrandedBatch =>
    []<>(status = "ready" /\ bestHeight = TipHeight /\ bestHash = chain[TipHeight])
=============================================================================
