----------------------- MODULE IndexerPipelineProofs -----------------------
(***************************************************************************)
(* The safety properties of IndexerPipeline, for every tree of blocks, all *)
(* batch sizes and any number of faults, by one inductive invariant, and   *)
(* the refinements of ProcessedChain and Checkpoints.                      *)
(*                                                                         *)
(* Why the properties alone are not inductive: a staged batch is linked to *)
(* the rows because the producer still holds the hash it read (Producer);  *)
(* "ready" is true because each worker ended for a reason (Aggregator) and *)
(* nothing was staged above the target (Search); a rollback finds no task  *)
(* in flight (Control).                                                    *)
(***************************************************************************)
EXTENDS IndexerPipeline, TLAPS

\* The staged rows, as a function on an interval of heights.
Rows ==
  /\ blocks \in [0..rawHeight -> Block]
  /\ rawHeight >= 0 => blocks[0] = Genesis
  /\ \A h \in 1..rawHeight : Parent[blocks[h]] = blocks[h - 1]

\* Batches and prepare calls are non-empty ranges of bounded length.
Ordered ==
  /\ \A b \in batches : b.first <= b.last
  /\ \A t \in active : t.first <= t.last /\ t.last - t.first < AggregationBatchSize

\* The workers run only inside the pipeline.
Control ==
  /\ pc # "pipeline" => pp = "ended" /\ ap = "ended"
  /\ active # {} => pc = "pipeline" /\ ap # "ended"

\* What the head of the cycle has established when it gets that far.
Search ==
  /\ pc \in {"begin", "check", "pipeline"} => rawHeight <= target
  /\ pc = "check" => rawHeight >= 0
  /\ pc \in {"check", "ancestor", "rollback"} => probe <= rawHeight /\ probe <= target
  /\ pc = "pipeline" => status = "syncing" /\ targetHeight = target

\* What the producer holds still fits the database.
Producer ==
  /\ pp \in {"loop", "ended"} => fetched = NoRows
  /\ pp \in {"fetch", "stage"} =>
       /\ request.first = rawHeight + 1 /\ request.prev = rawHash
       /\ request.first <= request.last /\ request.last <= target
       /\ request.last <= bestHeight + RawLeadBlocks
       /\ 0 \in DOMAIN fetched => fetched[0] = Genesis
  /\ pp = "stage" => DOMAIN fetched = request.first .. request.last

\* A worker ends because it is done or because the cycle was told to stop.
Aggregator ==
  pc = "pipeline" =>
    /\ ap = "drain" => Halted
    /\ ap = "ended" /\ ~ Halted => bestHeight >= target
    /\ pp = "ended" /\ ~ Halted => rawHeight >= target

Ready == status = "ready" => bestHeight = targetHeight /\ rawHeight = targetHeight

IInv ==
  /\ TypeOK /\ Rows /\ CheckpointsConsistent /\ BatchesMatchChain /\ RawLeadBound
  /\ Ordered /\ Control /\ Search /\ Producer /\ Aggregator /\ Ready

-----------------------------------------------------------------------------
\* Lemmas about the operators of the model.

\* The node's chain is a function on 0..TipHeight that starts at the genesis block.
LEMMA TipIsTop ==
  ASSUME chain \in Chains
  PROVE  TipHeight \in 0..MaxHeight /\ DOMAIN chain = 0..TipHeight /\ chain[0] = Genesis
         /\ \A h \in 0..TipHeight : chain[h] \in Block
<1>1. PICK n \in 0..MaxHeight : chain \in ChainsOfHeight(n)
  BY DEF Chains
<1>2. n \in Nat /\ DOMAIN chain = 0..n /\ chain[0] = Genesis /\ \A h \in 0..n : chain[h] \in Block
  BY <1>1, BlockTreeAssumption DEF ChainsOfHeight
<1>3. n \in DOMAIN chain /\ n + 1 \notin DOMAIN chain
  BY <1>2
<1>4. TipHeight \in DOMAIN chain /\ TipHeight + 1 \notin DOMAIN chain
  BY <1>3 DEF TipHeight
<1> QED BY <1>2, <1>4, BlockTreeAssumption

\* A part of the invariant that reads only unchanged variables is kept.
LEMMA Frame ==
  ASSUME IInv
  PROVE  /\ UNCHANGED <<chain, reorgs>> => NodeType'
         /\ UNCHANGED <<blocks, rawHeight, rawHash, bestHeight, bestHash, status, targetHeight, batches>> => DatabaseType'
         /\ UNCHANGED <<pc, stopping, aborted, rootError, target, probe>> => CycleType'
         /\ UNCHANGED <<pp, request, fetched>> => ProducerType'
         /\ UNCHANGED <<ap, window, listed, adaptive, active>> => AggregatorType'
         /\ UNCHANGED <<faults, restarts>> => BoundType'
         /\ UNCHANGED <<blocks, rawHeight>> => Rows'
         /\ UNCHANGED <<blocks, rawHeight, rawHash, bestHeight, bestHash>> => CheckpointsConsistent'
         /\ UNCHANGED <<batches, blocks, bestHeight>> => BatchesMatchChain'
         /\ UNCHANGED <<rawHeight, bestHeight>> => RawLeadBound'
         /\ UNCHANGED <<batches, active>> => Ordered'
         /\ UNCHANGED <<pc, pp, ap, active>> => Control'
         /\ UNCHANGED <<pc, rawHeight, target, probe, status, targetHeight>> => Search'
         /\ UNCHANGED <<pp, request, fetched, rawHeight, rawHash, bestHeight, target>> => Producer'
         /\ UNCHANGED <<pc, ap, stopping, aborted, bestHeight, target, pp, rawHeight>> => Aggregator'
         /\ UNCHANGED <<status, bestHeight, targetHeight, rawHeight>> => Ready'
<1>1. UNCHANGED <<chain, reorgs>> => NodeType'
  BY DEF IInv, TypeOK, NodeType
<1>2. UNCHANGED <<blocks, rawHeight, rawHash, bestHeight, bestHash, status, targetHeight, batches>> => DatabaseType'
  BY DEF IInv, TypeOK, DatabaseType
<1>3. UNCHANGED <<pc, stopping, aborted, rootError, target, probe>> => CycleType'
  BY DEF IInv, TypeOK, CycleType
<1>4. UNCHANGED <<pp, request, fetched>> => ProducerType'
  BY DEF IInv, TypeOK, ProducerType
<1>5. UNCHANGED <<ap, window, listed, adaptive, active>> => AggregatorType'
  BY DEF IInv, TypeOK, AggregatorType
<1>6. UNCHANGED <<faults, restarts>> => BoundType'
  BY DEF IInv, TypeOK, BoundType
<1>7. UNCHANGED <<blocks, rawHeight>> => Rows'
  BY DEF IInv, TypeOK, Rows
<1>8. UNCHANGED <<blocks, rawHeight, rawHash, bestHeight, bestHash>> => CheckpointsConsistent'
  BY DEF IInv, TypeOK, CheckpointsConsistent, HashAt
<1>9. UNCHANGED <<batches, blocks, bestHeight>> => BatchesMatchChain'
  BY DEF IInv, TypeOK, BatchesMatchChain
<1>10. UNCHANGED <<rawHeight, bestHeight>> => RawLeadBound'
  BY DEF IInv, TypeOK, RawLeadBound
<1>11. UNCHANGED <<batches, active>> => Ordered'
  BY DEF IInv, Ordered
<1>12. UNCHANGED <<pc, pp, ap, active>> => Control'
  BY DEF IInv, TypeOK, Control
<1>13. UNCHANGED <<pc, rawHeight, target, probe, status, targetHeight>> => Search'
  BY DEF IInv, TypeOK, Search
<1>14. UNCHANGED <<pp, request, fetched, rawHeight, rawHash, bestHeight, target>> => Producer'
  BY DEF IInv, TypeOK, Producer
<1>15. UNCHANGED <<pc, ap, stopping, aborted, bestHeight, target, pp, rawHeight>> => Aggregator'
  BY DEF IInv, TypeOK, Aggregator, Halted
<1>16. UNCHANGED <<status, bestHeight, targetHeight, rawHeight>> => Ready'
  BY DEF IInv, TypeOK, Ready
<1> QED BY <1>1, <1>2, <1>3, <1>4, <1>5, <1>6, <1>7, <1>8, <1>9, <1>10, <1>11, <1>12, <1>13, <1>14, <1>15, <1>16

\* A map from an interval of heights to blocks is a value the row variables may take.
LEMMA RowsIntro ==
  ASSUME NEW n \in Nat, NEW m \in Int, m <= MaxHeight, NEW f \in [n..m -> Block]
  PROVE  f \in RowsType
<1>1. n..m \in SUBSET (0..MaxHeight)
  BY BlockTreeAssumption
<1> QED BY <1>1 DEF RowsType

\* Every value of the row variables maps some heights to blocks.
LEMMA RowsElim ==
  ASSUME NEW f \in RowsType
  PROVE  f \in [DOMAIN f -> Block] /\ DOMAIN f \subseteq 0..MaxHeight
BY DEF RowsType

\* So is the empty map a reset leaves.
LEMMA NoRowsType == NoRows \in RowsType
<1>1. NoRows \in [{} -> Block]
  BY DEF NoRows
<1> QED BY <1>1 DEF RowsType

\* The producer's variables are well typed when it returns or throws.
LEMMA ProducerEndsType ==
  ASSUME ProducerEnds
  PROVE  ProducerType'
<1>1. NoRequest \in [first : 0..MaxHeight, last : 0..MaxHeight, prev : HashType]
  BY BlockTreeAssumption DEF NoRequest, HashType
<1> QED BY <1>1, NoRowsType DEF ProducerEnds, ProducerType, HashType, RowsType

\* The empty window is a range.
LEMMA NoWindowType == NoWindow \in RangeType
  BY BlockTreeAssumption DEF NoWindow, RangeType, RangesWithin

\* The worker variables are well typed at the start of a cycle or a process.
LEMMA ResetTypes ==
  ASSUME ResetProcess
  PROVE  ProducerType' /\ AggregatorType'
<1>1. ProducerType'
  BY ProducerEndsType DEF ResetProcess, ProducerEnds
<1>2. AggregatorType'
  BY NoWindowType, PipelineAssumption DEF ResetProcess, AggregatorType, RangeType
<1> QED BY <1>1, <1>2

\* What persistRawBlockRange leaves: the old rows, the fetched ones above them, no gap.
LEMMA StagedRows ==
  ASSUME IInv, StageBatch, ~ Halted, FetchedIsLinked
  PROVE  /\ rawHeight' = request.last /\ rawHeight < rawHeight' /\ rawHeight' \in 0..MaxHeight
         /\ rawHeight' <= target /\ rawHeight' <= bestHeight + RawLeadBlocks
         /\ blocks' \in [0..rawHeight' -> Block]
         /\ \A h \in 0..rawHeight : blocks'[h] = blocks[h]
         /\ \A h \in rawHeight + 1 .. rawHeight' : blocks'[h] = fetched[h]
         /\ rawHash' = blocks'[rawHeight']
<1>1. /\ rawHeight' = request.last /\ rawHash' = fetched[request.last]
      /\ blocks' = [h \in DOMAIN blocks \cup DOMAIN fetched |->
                      IF h \in DOMAIN blocks THEN blocks[h] ELSE fetched[h]]
      /\ pp = "stage"
  BY DEF StageBatch
<1>2. /\ rawHeight \in HeightType /\ request.last \in 0..MaxHeight
      /\ rawHeight + 1 <= request.last
      /\ request.last <= target /\ request.last <= bestHeight + RawLeadBlocks
      /\ DOMAIN fetched = rawHeight + 1 .. request.last
      /\ DOMAIN blocks = 0..rawHeight
  BY <1>1, BlockTreeAssumption
  DEF IInv, TypeOK, DatabaseType, ProducerType, Producer, CheckpointsConsistent
<1>3. /\ \A h \in 0..rawHeight : blocks[h] \in Block
      /\ \A h \in DOMAIN fetched : fetched[h] \in Block
  BY RowsElim DEF IInv, TypeOK, ProducerType, Rows
<1>4. DOMAIN blocks \cup DOMAIN fetched = 0..request.last
  BY <1>2, BlockTreeAssumption DEF HeightType
<1> QED BY <1>1, <1>2, <1>3, <1>4, BlockTreeAssumption DEF HeightType

-----------------------------------------------------------------------------
\* Every action keeps the invariant.

\* The node's own steps touch nothing the indexer stores.
LEMMA MineInv ==
  ASSUME IInv, Mine
  PROVE  IInv'
<1>1. NodeType'
  BY DEF IInv, TypeOK, NodeType, Mine
<1> QED BY <1>1, Frame DEF IInv, TypeOK, Mine, dbVars, cycleVars, produceVars, aggVars,
      boundVars, syncVars

\* A reorganisation of the node alone breaks nothing: only answers change.
LEMMA ReorganiseInv ==
  ASSUME IInv, Reorganise
  PROVE  IInv'
<1>1. NodeType'
  BY PipelineAssumption DEF IInv, TypeOK, NodeType, Reorganise
<1> QED BY <1>1, Frame DEF IInv, TypeOK, Reorganise, dbVars, cycleVars, produceVars, aggVars,
      boundVars, syncVars

\* A cycle starts its search at or below both tips (indexer.mjs syncPipelineOnce).
LEMMA StartCycleInv ==
  ASSUME IInv, StartCycle
  PROVE  IInv'
<1>1. CycleType'
  <2>1. target' \in 0..MaxHeight
    BY TipIsTop DEF IInv, TypeOK, NodeType, StartCycle
  <2>2. probe' \in HeightType
    BY <2>1, BlockTreeAssumption
    DEF IInv, TypeOK, DatabaseType, HeightType, StartCycle, Lower
  <2> QED BY <2>1, <2>2 DEF IInv, TypeOK, CycleType, StartCycle
<1>2. Control'
  BY DEF IInv, Control, StartCycle, RawTipAboveChain, Lower, produceVars, aggVars
<1>3. Search'
  <2>1. target' \in Int /\ rawHeight \in Int /\ rawHeight' = rawHeight
    BY <1>1, BlockTreeAssumption
    DEF IInv, TypeOK, CycleType, DatabaseType, HeightType, StartCycle, dbVars, syncVars
  <2>2. /\ pc' \in {"begin", "ancestor", "check"}
        /\ pc' \in {"begin", "check"} => rawHeight <= target'
        /\ pc' = "check" => rawHeight >= 0
        /\ probe' <= rawHeight /\ probe' <= target'
    BY <2>1, BlockTreeAssumption, TipIsTop
    DEF IInv, TypeOK, NodeType, StartCycle, RawTipAboveChain, Lower
  <2> QED BY <2>1, <2>2 DEF Search
<1>4. Producer'
  BY DEF IInv, Control, Producer, StartCycle, produceVars
<1>5. Aggregator'
  BY DEF IInv, Aggregator, Halted, StartCycle, RawTipAboveChain, Lower, dbVars, produceVars,
      aggVars, syncVars
<1> QED BY <1>1, <1>2, <1>3, <1>4, <1>5, Frame DEF IInv, TypeOK, StartCycle, nodeVars, dbVars,
      produceVars, aggVars, boundVars, syncVars

\* Comparing the staged tip writes nothing but the error status.
LEMMA CheckTipInv ==
  ASSUME IInv, CheckTip
  PROVE  IInv'
<1>1. DatabaseType'
  BY DEF IInv, TypeOK, DatabaseType, HeightType, HashType, RowsType, CheckTip, CycleThrows,
      ContinueAt
<1>2. CycleType'
  BY DEF IInv, TypeOK, CycleType, HeightType, CheckTip, CycleThrows, ContinueAt
<1>3. Control'
  BY DEF IInv, Control, CheckTip, CycleThrows, ContinueAt, produceVars, aggVars
<1>4. Search'
  BY DEF IInv, Search, CheckTip, CycleThrows, ContinueAt
<1>5. Aggregator'
  BY DEF IInv, Aggregator, Halted, CheckTip, CycleThrows, ContinueAt, produceVars, aggVars
<1>6. Ready'
  BY DEF IInv, Ready, CheckTip, CycleThrows, ContinueAt
<1> QED BY <1>1, <1>2, <1>3, <1>4, <1>5, <1>6, Frame DEF IInv, TypeOK, CheckTip, CycleThrows,
      ContinueAt, nodeVars, produceVars, aggVars, boundVars

\* The search for the common ancestor only goes down.
LEMMA CompareAncestorInv ==
  ASSUME IInv, CompareAncestor
  PROVE  IInv'
<1>1. DatabaseType'
  BY DEF IInv, TypeOK, DatabaseType, HeightType, HashType, RowsType, CompareAncestor,
      CycleThrows, ContinueAt, AncestorFound, OnNodeChain
<1>2. CycleType'
  <2>1. AncestorFound \/ (probe - 1) \in HeightType
    BY BlockTreeAssumption DEF IInv, TypeOK, CycleType, HeightType, AncestorFound
  <2> QED BY <2>1 DEF IInv, TypeOK, CycleType, CompareAncestor, CycleThrows, ContinueAt
<1>3. Control'
  BY DEF IInv, Control, CompareAncestor, CycleThrows, ContinueAt, AncestorFound, OnNodeChain,
      produceVars, aggVars
<1>4. Search'
  BY BlockTreeAssumption
  DEF IInv, TypeOK, DatabaseType, CycleType, HeightType, Search, CompareAncestor,
      CycleThrows, ContinueAt
<1>5. Aggregator'
  BY DEF IInv, Aggregator, Halted, CompareAncestor, CycleThrows, ContinueAt, AncestorFound,
      OnNodeChain, produceVars, aggVars
<1>6. Ready'
  BY DEF IInv, Ready, CompareAncestor, CycleThrows, ContinueAt, AncestorFound, OnNodeChain
<1> QED BY <1>1, <1>2, <1>3, <1>4, <1>5, <1>6, Frame DEF IInv, TypeOK, CompareAncestor,
      CycleThrows, ContinueAt, nodeVars, produceVars, aggVars, boundVars

\* rollbackPipelineTo leaves checkpoints, rows and batches that agree.
LEMMA RollbackToInv ==
  ASSUME IInv, RollbackTo
  PROVE  IInv'
<1>1. DatabaseType'
  <2>1. probe \in -1..rawHeight /\ rawHeight \in HeightType /\ bestHeight \in HeightType
    BY BlockTreeAssumption
    DEF IInv, TypeOK, DatabaseType, CycleType, Search, HeightType, RollbackTo
  <2>2. blocks' \in [0..probe -> Block]
    BY <2>1, BlockTreeAssumption DEF IInv, Rows, HeightType, RollbackTo
  <2>3. blocks' \in RowsType
    BY <2>1, <2>2, RowsIntro, BlockTreeAssumption DEF HeightType
  <2>4. rawHeight' \in HeightType /\ bestHeight' \in HeightType
    BY <2>1, BlockTreeAssumption DEF RollbackTo, ProcessedAfter, Lower, HeightType
  <2>5. rawHash' \in HashType /\ bestHash' \in HashType
    BY <2>1, BlockTreeAssumption
    DEF IInv, CheckpointsConsistent, Rows, RollbackTo, ProcessedAfter, Lower, HashAt, HashType,
        HeightType
  <2> QED BY <2>3, <2>4, <2>5
      DEF IInv, TypeOK, DatabaseType, RollbackTo, SurvivingBatches
<1>2. CycleType'
  BY DEF IInv, TypeOK, CycleType, HeightType, RollbackTo, ContinueAt, ProcessedAfter,
      SurvivingBatches, HashAt, Lower
<1>3. Rows'
  <2>1. probe \in -1..rawHeight /\ rawHeight \in HeightType
    BY BlockTreeAssumption
    DEF IInv, TypeOK, DatabaseType, CycleType, Search, HeightType, RollbackTo
  <2> QED BY <2>1, BlockTreeAssumption DEF IInv, Rows, HeightType, RollbackTo
<1>4. CheckpointsConsistent'
  <2>1. /\ probe \in -1..rawHeight /\ rawHeight \in HeightType /\ bestHeight \in HeightType
        /\ DOMAIN blocks = 0..rawHeight
    BY BlockTreeAssumption
    DEF IInv, TypeOK, DatabaseType, CycleType, Search, HeightType, CheckpointsConsistent, RollbackTo
  <2> QED BY <2>1, BlockTreeAssumption
      DEF CheckpointsConsistent, RollbackTo, ProcessedAfter, Lower, HashAt, HeightType
<1>5. BatchesMatchChain'
  BY DEF IInv, BatchesMatchChain, RollbackTo, ContinueAt, ProcessedAfter, SurvivingBatches,
      HashAt, Lower
<1>6. RawLeadBound'
  BY PipelineAssumption, BlockTreeAssumption
  DEF IInv, TypeOK, DatabaseType, CycleType, HeightType, RawLeadBound, Search, RollbackTo,
      ProcessedAfter, Lower
<1>7. Ordered'
  BY DEF IInv, Ordered, RollbackTo, ContinueAt, ProcessedAfter, SurvivingBatches, HashAt,
      Lower, aggVars
<1>8. Control'
  BY DEF IInv, Control, RollbackTo, ContinueAt, ProcessedAfter, SurvivingBatches, HashAt,
      Lower, produceVars, aggVars
<1>9. Search'
  BY DEF IInv, Search, RollbackTo, ContinueAt, ProcessedAfter, SurvivingBatches, HashAt, Lower
<1>10. Producer'
  BY DEF IInv, Control, Producer, RollbackTo, produceVars
<1>11. Aggregator'
  BY DEF IInv, Aggregator, Halted, RollbackTo, ContinueAt, ProcessedAfter, SurvivingBatches,
      HashAt, Lower, produceVars, aggVars
<1>12. Ready'
  BY DEF IInv, Ready, RollbackTo, ContinueAt, ProcessedAfter, SurvivingBatches, HashAt, Lower
<1> QED BY <1>1, <1>2, <1>3, <1>4, <1>5, <1>6, <1>7, <1>8, <1>9, <1>10, <1>11, <1>12, Frame DEF
      IInv, TypeOK, RollbackTo, ContinueAt, nodeVars, produceVars, aggVars, boundVars

\* The workers start from checkpoints in order and no call in flight.
LEMMA BeginPipelineInv ==
  ASSUME IInv, BeginPipeline
  PROVE  IInv'
<1>1. DatabaseType'
  BY BlockTreeAssumption DEF IInv, TypeOK, DatabaseType, CycleType, HeightType, BeginPipeline
<1>2. CycleType'
  BY BlockTreeAssumption DEF IInv, TypeOK, CycleType, HeightType, BeginPipeline
<1>3. ProducerType'
  BY DEF IInv, TypeOK, ProducerType, HashType, RowsType, BeginPipeline
<1>4. AggregatorType'
  BY DEF IInv, TypeOK, AggregatorType, RangeType, BeginPipeline
<1>5. Rows'
  <2>1. rawHeight' = rawHeight /\ rawHash' = rawHash
    BY BlockTreeAssumption
    DEF IInv, TypeOK, DatabaseType, HeightType, CheckpointsConsistent, BeginPipeline
  <2> QED BY <2>1, Frame DEF BeginPipeline
<1>6. CheckpointsConsistent'
  <2>1. rawHeight' = rawHeight /\ rawHash' = rawHash
    BY BlockTreeAssumption
    DEF IInv, TypeOK, DatabaseType, HeightType, CheckpointsConsistent, BeginPipeline
  <2> QED BY <2>1, Frame DEF BeginPipeline
<1>7. RawLeadBound'
  <2>1. rawHeight' = rawHeight /\ rawHash' = rawHash
    BY BlockTreeAssumption
    DEF IInv, TypeOK, DatabaseType, HeightType, CheckpointsConsistent, BeginPipeline
  <2> QED BY <2>1, Frame DEF BeginPipeline
<1>8. Control'
  BY DEF IInv, Control, BeginPipeline
<1>9. Search'
  <2>1. rawHeight' = rawHeight /\ rawHash' = rawHash
    BY BlockTreeAssumption
    DEF IInv, TypeOK, DatabaseType, HeightType, CheckpointsConsistent, BeginPipeline
  <2> QED BY <2>1, Zenon DEF IInv, Search, BeginPipeline
<1>10. Producer'
  BY DEF IInv, Control, Producer, BeginPipeline
<1>11. Aggregator'
  BY DEF IInv, Control, Aggregator, Halted, BeginPipeline
<1>12. Ready'
  BY DEF IInv, Ready, BeginPipeline
<1> QED BY <1>1, <1>2, <1>3, <1>4, <1>5, <1>6, <1>7, <1>8, <1>9, <1>10, <1>11, <1>12, Frame DEF
      IInv, TypeOK, BeginPipeline, nodeVars, boundVars

\* The heights the producer asks for start above its tip and respect the lead.
LEMMA ProducerTurnInv ==
  ASSUME IInv, ProducerTurn
  PROVE  IInv'
<1>1. ProducerType'
  <2>1. CASE ProducerEnds
    BY <2>1, ProducerEndsType
  <2>2. CASE ~ Halted /\ rawHeight < target /\ rawHeight - bestHeight < RawLeadBlocks /\ pp' = "fetch"
             /\ request' = [first |-> rawHeight + 1, last |-> LastToFetch, prev |-> rawHash]
             /\ UNCHANGED fetched
    <3>1. rawHeight + 1 \in 0..MaxHeight /\ LastToFetch \in 0..MaxHeight
      BY <2>2, PipelineAssumption, BlockTreeAssumption
      DEF IInv, TypeOK, DatabaseType, CycleType, HeightType, LastToFetch, Lower,
          CheckpointsConsistent
    <3> QED BY <2>2, <3>1 DEF IInv, TypeOK, DatabaseType, ProducerType
  <2> QED BY <2>1, <2>2 DEF ProducerTurn
<1>2. Control'
  BY DEF IInv, Control, ProducerTurn, ProducerEnds, LastToFetch, Lower, Halted, cycleVars,
      aggVars
<1>3. Producer'
  <2>1. CASE pp' = "fetch"
    <3>1. /\ request'.first = rawHeight + 1 /\ request'.prev = rawHash
          /\ request'.last = LastToFetch
          /\ rawHeight < target /\ rawHeight - bestHeight < RawLeadBlocks
      BY <2>1 DEF ProducerTurn, ProducerEnds
    <3>2. /\ rawHeight + 1 <= LastToFetch /\ LastToFetch <= target
          /\ LastToFetch <= bestHeight + RawLeadBlocks
      BY <3>1, PipelineAssumption, BlockTreeAssumption
      DEF IInv, TypeOK, DatabaseType, CycleType, HeightType, LastToFetch, Lower
    <3>3. fetched' = NoRows /\ DOMAIN fetched' = {}
      BY <2>1 DEF IInv, Producer, ProducerTurn, ProducerEnds, NoRows
    <3> QED BY <2>1, <3>1, <3>2, <3>3
        DEF Producer, ProducerTurn, dbVars, syncVars, cycleVars
  <2>2. CASE ProducerEnds
    BY <2>2 DEF Producer, ProducerEnds
  <2> QED BY <2>1, <2>2 DEF ProducerTurn
<1>4. Aggregator'
  BY DEF IInv, Aggregator, Halted, ProducerTurn, ProducerEnds, LastToFetch, Lower, dbVars,
      cycleVars, aggVars, syncVars
<1> QED BY <1>1, <1>2, <1>3, <1>4, Frame DEF IInv, TypeOK, ProducerTurn, ProducerEnds,
      nodeVars, dbVars, cycleVars, aggVars, boundVars, syncVars

\* The fetched blocks fill the requested heights from below.
LEMMA FetchBlockInv ==
  ASSUME IInv, FetchBlock
  PROVE  IInv'
<1>1. CycleType'
  BY DEF IInv, TypeOK, CycleType, HeightType, FetchBlock, ProducerEnds, WorkerThrows
<1>2. ProducerType'
  <2>1. CASE ProducerEnds
    BY <2>1, ProducerEndsType
  <2>2. ASSUME NEW h \in request.first .. request.last, h <= TipHeight,
               DOMAIN fetched = request.first .. h - 1,
               fetched' = [k \in request.first .. h |-> IF k = h THEN chain[h] ELSE fetched[k]],
               pp' = IF h = request.last THEN "stage" ELSE "fetch",
               UNCHANGED request
        PROVE  ProducerType'
    <3>1. request.first \in Nat /\ h \in Nat /\ h <= MaxHeight /\ chain[h] \in Block
      BY <2>2, TipIsTop, BlockTreeAssumption DEF IInv, TypeOK, NodeType, ProducerType
    <3>2. fetched' \in [request.first .. h -> Block]
      BY <2>2, <3>1, RowsElim DEF IInv, TypeOK, ProducerType
    <3>3. fetched' \in RowsType
      BY <3>1, <3>2, RowsIntro
    <3> QED BY <2>2, <3>3 DEF IInv, TypeOK, ProducerType, HashType
  <2> QED BY <2>1, <2>2, TipIsTop DEF FetchBlock, IInv, TypeOK, NodeType, ProducerType
<1>3. Control'
  BY DEF IInv, Control, FetchBlock, ProducerEnds, WorkerThrows, aggVars
<1>4. Producer'
  <2>1. CASE ProducerEnds
    BY <2>1 DEF Producer, ProducerEnds
  <2>2. ASSUME NEW h \in request.first .. request.last,
               h <= TipHeight,
               fetched' = [k \in request.first .. h |-> IF k = h THEN chain[h] ELSE fetched[k]],
               DOMAIN fetched = request.first .. h - 1,
               pp' = IF h = request.last THEN "stage" ELSE "fetch",
               UNCHANGED request
        PROVE  Producer'
    <3>1. request.first \in Nat /\ request.last \in Nat /\ h \in Nat
      BY <2>2, BlockTreeAssumption DEF IInv, TypeOK, ProducerType
    <3>2. 0 \in DOMAIN fetched' => fetched'[0] = Genesis
      BY <2>2, <3>1, TipIsTop DEF IInv, TypeOK, NodeType, Producer, FetchBlock
    <3> QED BY <2>2, <3>1, <3>2
        DEF IInv, Producer, FetchBlock, dbVars, syncVars
  <2> QED BY <2>1, <2>2, TipIsTop DEF FetchBlock, IInv, TypeOK, NodeType, ProducerType
<1>5. Aggregator'
  BY DEF IInv, Aggregator, Halted, FetchBlock, ProducerEnds, WorkerThrows, dbVars, aggVars,
      syncVars
<1> QED BY <1>1, <1>2, <1>3, <1>4, <1>5, Frame DEF IInv, TypeOK, FetchBlock, ProducerEnds,
      WorkerThrows, nodeVars, dbVars, aggVars, boundVars, syncVars

\* persistRawBlockRange keeps one linked branch within the lead.
LEMMA StageBatchInv ==
  ASSUME IInv, StageBatch
  PROVE  IInv'
<1>1. DatabaseType'
  <2>1. CASE UNCHANGED <<blocks, rawHeight, rawHash, status>>
    BY <2>1, Frame DEF StageBatch
  <2>2. CASE ~ Halted /\ FetchedIsLinked
    <3>1. blocks' \in RowsType
      BY <2>2, StagedRows, RowsIntro, BlockTreeAssumption
    <3>2. rawHeight' \in HeightType /\ rawHash' \in HashType
      BY <2>2, StagedRows, BlockTreeAssumption DEF HeightType, HashType
    <3>3. status' = "syncing" /\ UNCHANGED <<bestHeight, bestHash, targetHeight, batches>>
      BY <2>2 DEF StageBatch
    <3> QED BY <3>1, <3>2, <3>3 DEF IInv, TypeOK, DatabaseType
  <2> QED BY <2>1, <2>2 DEF StageBatch
<1>2. CycleType'
  BY DEF IInv, TypeOK, CycleType, HeightType, StageBatch, ProducerEnds, WorkerThrows,
      FetchedIsLinked, Halted
<1>3. ProducerType'
  <2>1. CASE ProducerEnds
    BY <2>1, ProducerEndsType
  <2>2. CASE pp' = "loop" /\ request' = NoRequest /\ fetched' = NoRows
    <3>1. NoRequest \in [first : 0..MaxHeight, last : 0..MaxHeight, prev : HashType]
      BY BlockTreeAssumption DEF NoRequest, HashType
    <3> QED BY <2>2, <3>1, NoRowsType DEF ProducerType, HashType, RowsType
  <2> QED BY <2>1, <2>2 DEF StageBatch
<1>4. Rows'
  <2>1. CASE UNCHANGED <<blocks, rawHeight, rawHash, status>>
    BY <2>1, Frame DEF StageBatch
  <2>2. CASE ~ Halted /\ FetchedIsLinked
    <3> DEFINE rows == blocks'
               top  == rawHeight'
    <3>1. /\ rows \in [0..top -> Block] /\ top \in 0..MaxHeight /\ rawHeight < top
          /\ \A h \in 0..rawHeight : rows[h] = blocks[h]
          /\ \A h \in rawHeight + 1 .. top : rows[h] = fetched[h]
      BY <2>2, StagedRows
    <3>2. /\ rawHeight \in -1..MaxHeight
          /\ request.first = rawHeight + 1 /\ DOMAIN fetched = rawHeight + 1 .. top
          /\ request.prev = rawHash /\ rawHash = HashAt(rawHeight)
          /\ 0 \in DOMAIN fetched => fetched[0] = Genesis
          /\ rawHeight >= 0 => blocks[0] = Genesis
      BY <2>2, StagedRows
      DEF IInv, TypeOK, DatabaseType, HeightType, Producer, CheckpointsConsistent, Rows, StageBatch
    <3>3. rows[0] = Genesis
      BY <3>1, <3>2, BlockTreeAssumption
    <3>4. ASSUME NEW h \in 1..top PROVE Parent[rows[h]] = rows[h - 1]
      <4>1. CASE h <= rawHeight
        BY <4>1, <3>1, <3>2, BlockTreeAssumption DEF IInv, Rows
      <4>2. CASE h = rawHeight + 1
        BY <4>2, <2>2, <3>1, <3>2, BlockTreeAssumption DEF FetchedIsLinked, HashAt
      <4>3. CASE h > rawHeight + 1
        BY <4>3, <2>2, <3>1, <3>2, BlockTreeAssumption DEF FetchedIsLinked
      <4> QED BY <4>1, <4>2, <4>3, <3>1, <3>2, BlockTreeAssumption
    <3> QED BY <3>1, <3>3, <3>4 DEF Rows
  <2> QED BY <2>1, <2>2 DEF StageBatch
<1>5. CheckpointsConsistent'
  <2>1. CASE UNCHANGED <<blocks, rawHeight, rawHash, status>>
    BY <2>1, Frame DEF StageBatch
  <2>2. CASE ~ Halted /\ FetchedIsLinked
    <3>1. UNCHANGED <<bestHeight, bestHash>>
      BY DEF StageBatch
    <3>2. bestHeight <= rawHeight /\ rawHeight \in Int /\ bestHeight \in Int
          /\ bestHash = HashAt(bestHeight)
      BY BlockTreeAssumption DEF IInv, TypeOK, DatabaseType, HeightType, CheckpointsConsistent
    <3> QED BY <2>2, <3>1, <3>2, StagedRows, BlockTreeAssumption
        DEF CheckpointsConsistent, HashAt
  <2> QED BY <2>1, <2>2 DEF StageBatch
<1>6. BatchesMatchChain'
  BY DEF IInv, BatchesMatchChain, StageBatch, ProducerEnds, WorkerThrows, FetchedIsLinked,
      Halted
<1>7. RawLeadBound'
  BY StagedRows, PipelineAssumption, BlockTreeAssumption
  DEF IInv, TypeOK, DatabaseType, HeightType, RawLeadBound, StageBatch
<1>8. Control'
  BY DEF IInv, Control, StageBatch, ProducerEnds, WorkerThrows, FetchedIsLinked, Halted,
      aggVars
<1>9. Search'
  <2>1. CASE UNCHANGED <<blocks, rawHeight, rawHash, status>>
    BY <2>1, Frame DEF StageBatch
  <2>2. CASE ~ Halted /\ FetchedIsLinked
    BY <2>2, StagedRows DEF IInv, Search, StageBatch
  <2> QED BY <2>1, <2>2 DEF StageBatch
<1>10. Producer'
  BY DEF IInv, Producer, StageBatch, ProducerEnds, WorkerThrows, NoRequest, NoRows,
      FetchedIsLinked, Halted
<1>11. Aggregator'
  BY DEF IInv, Aggregator, Halted, StageBatch, ProducerEnds, WorkerThrows, FetchedIsLinked,
      aggVars
<1>12. Ready'
  BY DEF IInv, Ready, StageBatch, ProducerEnds, WorkerThrows, FetchedIsLinked, Halted
<1> QED BY <1>1, <1>2, <1>3, <1>4, <1>5, <1>6, <1>7, <1>8, <1>9, <1>10, <1>11, <1>12, Frame DEF
      IInv, TypeOK, StageBatch, ProducerEnds, WorkerThrows, nodeVars, aggVars, boundVars

\* reducePreparedAggregationBatch moves the processed tip to a staged block.
LEMMA ReduceBatchInv ==
  ASSUME IInv, ReduceBatch
  PROVE  IInv'
<1>1. DatabaseType'
  BY DEF IInv, TypeOK, DatabaseType, HeightType, HashType, RowsType, ReduceBatch, Reducible,
      WorkerThrows, Halted
<1>2. CycleType'
  BY DEF IInv, TypeOK, CycleType, HeightType, ReduceBatch, Reducible, WorkerThrows, Halted
<1>3. AggregatorType'
  BY DEF IInv, TypeOK, AggregatorType, RangeType, ReduceBatch, Reducible, WorkerThrows, Halted
<1>4. CheckpointsConsistent'
  BY DEF IInv, CheckpointsConsistent, HashAt, ReduceBatch, Reducible, WorkerThrows, Halted
<1>5. BatchesMatchChain'
  <2>1. CASE UNCHANGED <<bestHeight, bestHash, status, batches>>
    BY <2>1, Frame DEF ReduceBatch
  <2>2. ASSUME NEW b \in batches, Reducible(b), bestHeight' = b.last,
               batches' = (batches \ {b}) \cup {[b EXCEPT !.status = "reduced"]}
        PROVE  BatchesMatchChain'
    <3>1. /\ b.first <= b.last /\ b.first = bestHeight + 1 /\ blocks' = blocks
          /\ b.last \in Int /\ bestHeight \in Int
          /\ b.last \in DOMAIN blocks /\ blocks[b.last] = b.tip
      BY <2>2, BlockTreeAssumption
      DEF IInv, TypeOK, DatabaseType, HeightType, Ordered, BatchesMatchChain, Reducible, ReduceBatch
    <3> DEFINE r == [b EXCEPT !.status = "reduced"]
    <3>2. r.last = b.last /\ r.tip = b.tip
      BY DEF IInv, TypeOK, DatabaseType
    <3>3. ASSUME NEW c \in batches
          PROVE  /\ c.last \in DOMAIN blocks /\ blocks[c.last] = c.tip
                 /\ c.status = "reduced" => c.last <= b.last
      BY <3>1, BlockTreeAssumption
      DEF IInv, TypeOK, DatabaseType, BatchesMatchChain
    <3>4. \A c \in batches' : c \in batches \/ c = r
      BY <2>2
    <3> HIDE DEF r
    <3> QED BY <2>2, <3>1, <3>2, <3>3, <3>4, BlockTreeAssumption DEF BatchesMatchChain
  <2> QED BY <2>1, <2>2 DEF ReduceBatch
<1>6. RawLeadBound'
  <2>1. CASE UNCHANGED <<bestHeight, bestHash, status, batches>>
    BY <2>1, Frame DEF ReduceBatch, dbVars, syncVars, produceVars, cycleVars
  <2>2. ASSUME NEW b \in batches, Reducible(b), bestHeight' = b.last
        PROVE  RawLeadBound'
    <3>1. b.last \in Int /\ bestHeight \in Int /\ bestHeight < b.last
      BY <2>2, BlockTreeAssumption
      DEF IInv, TypeOK, DatabaseType, HeightType, Ordered, Reducible
    <3> QED BY <2>2, <3>1, PipelineAssumption, BlockTreeAssumption
        DEF IInv, TypeOK, DatabaseType, HeightType, RawLeadBound, ReduceBatch
  <2> QED BY <2>1, <2>2 DEF ReduceBatch
<1>7. Ordered'
  <2>1. ASSUME NEW b \in batches PROVE [b EXCEPT !.status = "reduced"].first = b.first
                                       /\ [b EXCEPT !.status = "reduced"].last = b.last
    BY DEF IInv, TypeOK, DatabaseType
  <2> QED BY <2>1 DEF IInv, Ordered, ReduceBatch, aggVars
<1>8. Control'
  BY DEF IInv, Control, ReduceBatch, Reducible, WorkerThrows, Halted, produceVars
<1>9. Search'
  BY DEF IInv, Search, ReduceBatch, Reducible, WorkerThrows, Halted
<1>10. Producer'
  <2>1. CASE UNCHANGED <<bestHeight, bestHash, status, batches>>
    BY <2>1, Frame DEF ReduceBatch, dbVars, syncVars, produceVars, cycleVars
  <2>2. ASSUME NEW b \in batches, Reducible(b), bestHeight' = b.last
        PROVE  Producer'
    <3>1. b.last \in Int /\ bestHeight \in Int /\ bestHeight < b.last
      BY <2>2, BlockTreeAssumption
      DEF IInv, TypeOK, DatabaseType, HeightType, Ordered, Reducible
    <3> QED BY <2>2, <3>1, PipelineAssumption, BlockTreeAssumption
        DEF IInv, TypeOK, DatabaseType, ProducerType, Producer, produceVars, ReduceBatch
  <2> QED BY <2>1, <2>2 DEF ReduceBatch
<1>11. Aggregator'
  BY DEF IInv, Aggregator, Halted, ReduceBatch, Reducible, WorkerThrows, produceVars
<1>12. Ready'
  BY DEF IInv, Ready, ReduceBatch, Reducible, WorkerThrows, Halted
<1> QED BY <1>1, <1>2, <1>3, <1>4, <1>5, <1>6, <1>7, <1>8, <1>9, <1>10, <1>11, <1>12, Frame DEF
      IInv, TypeOK, ReduceBatch, WorkerThrows, nodeVars, produceVars, boundVars

\* A reducer that finds nothing writes nothing.
LEMMA ReduceNothingInv ==
  ASSUME IInv, ReduceNothing
  PROVE  IInv'
<1>1. AggregatorType'
  BY DEF IInv, TypeOK, AggregatorType, RangeType, ReduceNothing, Reducible, Halted
<1>2. Control'
  BY DEF IInv, Control, ReduceNothing, Reducible, Halted, cycleVars, produceVars
<1>3. Aggregator'
  BY DEF IInv, Aggregator, Halted, ReduceNothing, Reducible, dbVars, cycleVars, produceVars,
      syncVars
<1> QED BY <1>1, <1>2, <1>3, Frame DEF IInv, TypeOK, ReduceNothing, nodeVars, dbVars,
      cycleVars, produceVars, boundVars, syncVars

\* The aggregator ends only when it has nothing in flight.
LEMMA ReadStateInv ==
  ASSUME IInv, ReadState
  PROVE  IInv'
<1>1. AggregatorType'
  <2>1. window' = window \/ window' \in RangeType
    BY BlockTreeAssumption
    DEF IInv, TypeOK, DatabaseType, CycleType, HeightType, RangeType, RangesWithin, ReadState,
        NothingLeft, Lower, Range
  <2>2. ASSUME NEW b \in batches PROVE RangeOf(b) \in RangeType
    BY DEF IInv, TypeOK, DatabaseType, Ordered, RangeOf, Range, RangeType, RangesWithin
  <2>3. listed' = listed \/ listed' \subseteq RangeType
    BY <2>2 DEF ReadState
  <2> QED BY <2>1, <2>3 DEF IInv, TypeOK, AggregatorType, ReadState
<1>2. Control'
  BY DEF IInv, Control, ReadState, NothingLeft, Lower, Range, RangeOf, cycleVars, produceVars
<1>3. Aggregator'
  BY DEF IInv, Aggregator, Halted, ReadState, NothingLeft, Lower, Range, RangeOf, dbVars,
      cycleVars, produceVars, syncVars
<1> QED BY <1>1, <1>2, <1>3, Frame DEF IInv, TypeOK, ReadState, nodeVars, dbVars, cycleVars,
      produceVars, boundVars, syncVars

\* Adding the calls in flight to the plan writes nothing durable.
LEMMA ReserveInv ==
  ASSUME IInv, Reserve
  PROVE  IInv'
<1>1. AggregatorType'
  <2>1. ASSUME NEW t \in active PROVE RangeOf(t) \in RangeType
    BY DEF IInv, TypeOK, AggregatorType, Ordered, RangeOf, Range, RangeType, RangesWithin
  <2> QED BY <2>1 DEF IInv, TypeOK, AggregatorType, Reserve
<1>2. Control'
  BY DEF IInv, Control, Reserve, Range, RangeOf, cycleVars, produceVars
<1>3. Aggregator'
  BY DEF IInv, Aggregator, Halted, Reserve, Range, RangeOf, dbVars, cycleVars, produceVars,
      syncVars
<1> QED BY <1>1, <1>2, <1>3, Frame DEF IInv, TypeOK, Reserve, nodeVars, dbVars, cycleVars,
      produceVars, boundVars, syncVars

\* Every started range lies within the staged blocks.
LEMMA StartTaskInv ==
  ASSUME IInv, StartTask
  PROVE  IInv'
<1>1. AggregatorType'
  <2>1. ASSUME NEW r \in NextRanges(window.first, window.last, adaptive, listed)
        PROVE  r \in RangeType /\ r.first \in 0..MaxHeight /\ r.last \in 0..MaxHeight
    BY BlockTreeAssumption
    DEF NextRanges, RangesWithin, IInv, TypeOK, AggregatorType, RangeType
  <2> QED BY <2>1, NoWindowType DEF IInv, TypeOK, AggregatorType, StartTask
<1>2. Ordered'
  <2>1. ASSUME NEW r \in NextRanges(window.first, window.last, adaptive, listed)
        PROVE  r.first <= r.last /\ r.last - r.first < AggregationBatchSize
    BY PipelineAssumption, BlockTreeAssumption
    DEF NextRanges, RangesWithin, IInv, TypeOK, AggregatorType, RangeType
  <2> QED BY <2>1 DEF IInv, Ordered, StartTask, dbVars
<1>3. Control'
  BY DEF IInv, Control, StartTask, NextRanges, RangesWithin, cycleVars, produceVars
<1>4. Aggregator'
  BY DEF IInv, Aggregator, Halted, StartTask, NextRanges, RangesWithin, dbVars, cycleVars,
      produceVars, syncVars
<1> QED BY <1>1, <1>2, <1>3, <1>4, Frame DEF IInv, TypeOK, StartTask, nodeVars, dbVars,
      cycleVars, produceVars, boundVars, syncVars

\* The aggregator is done only after its calls are.
LEMMA AggregatorEndsInv ==
  ASSUME IInv, AggregatorEnds
  PROVE  IInv'
<1>1. AggregatorType'
  BY DEF IInv, TypeOK, AggregatorType, RangeType, AggregatorEnds
<1>2. Control'
  BY DEF IInv, Control, AggregatorEnds, cycleVars, produceVars
<1>3. Aggregator'
  BY DEF IInv, Aggregator, Halted, AggregatorEnds, dbVars, cycleVars, produceVars, syncVars
<1> QED BY <1>1, <1>2, <1>3, Frame DEF IInv, TypeOK, AggregatorEnds, nodeVars, dbVars,
      cycleVars, produceVars, boundVars, syncVars

\* "ready" is written only when both tips are the target.
LEMMA EndCycleInv ==
  ASSUME IInv, EndCycle
  PROVE  IInv'
<1>1. DatabaseType'
  BY BlockTreeAssumption
  DEF IInv, TypeOK, DatabaseType, CycleType, HeightType, EndCycle, CycleThrows
<1>2. CycleType'
  <2>1. 0 \in 0..MaxHeight /\ 0 \in HeightType
    BY BlockTreeAssumption DEF HeightType
  <2> QED BY <2>1, Zenon DEF IInv, TypeOK, CycleType, EndCycle, CycleThrows, ResetProcess
<1>3. ProducerType'
  BY ResetTypes DEF EndCycle
<1>4. AggregatorType'
  BY ResetTypes DEF EndCycle
<1>5. Ordered'
  BY DEF IInv, Ordered, EndCycle, WorkersEnded, CycleThrows, ResetProcess, Halted
<1>6. Control'
  BY DEF IInv, Control, EndCycle, WorkersEnded, CycleThrows, ResetProcess, Halted
<1>7. Search'
  BY DEF IInv, Search, EndCycle, WorkersEnded, CycleThrows, ResetProcess, Halted
<1>8. Producer'
  BY DEF IInv, Producer, EndCycle, WorkersEnded, CycleThrows, ResetProcess, Halted, NoRequest,
      NoWindow, NoRows
<1>9. Aggregator'
  BY DEF IInv, Aggregator, Halted, EndCycle, WorkersEnded, CycleThrows, ResetProcess
<1>10. Ready'
  BY BlockTreeAssumption
  DEF IInv, TypeOK, DatabaseType, CycleType, HeightType, CheckpointsConsistent, Control, Search,
      Aggregator, Halted, Ready, EndCycle, WorkersEnded, CycleThrows
<1> QED BY <1>1, <1>2, <1>3, <1>4, <1>5, <1>6, <1>7, <1>8, <1>9, <1>10, Frame DEF IInv,
      TypeOK, EndCycle, CycleThrows, ResetProcess, nodeVars, boundVars

\* A cycle that fails before its workers start leaves the checkpoints as they were.
LEMMA CycleFaultInv ==
  ASSUME IInv, CycleFault
  PROVE  IInv'
<1>1. DatabaseType'
  BY DEF IInv, TypeOK, DatabaseType, HeightType, HashType, RowsType, CycleFault, WorkersEnded,
      CycleThrows, ResetProcess, Halted
<1>2. CycleType'
  <2>1. 0 \in 0..MaxHeight /\ 0 \in HeightType
    BY BlockTreeAssumption DEF HeightType
  <2> QED BY <2>1, Zenon DEF IInv, TypeOK, CycleType, CycleFault, CycleThrows, ResetProcess
<1>3. ProducerType'
  BY ResetTypes DEF CycleFault
<1>4. AggregatorType'
  BY ResetTypes DEF CycleFault
<1>5. BoundType'
  BY PipelineAssumption DEF IInv, TypeOK, BoundType, CycleFault
<1>6. Ordered'
  BY DEF IInv, Ordered, CycleFault, WorkersEnded, CycleThrows, ResetProcess, Halted
<1>7. Control'
  BY DEF IInv, Control, CycleFault, WorkersEnded, CycleThrows, ResetProcess, Halted
<1>8. Search'
  BY DEF IInv, Search, CycleFault, WorkersEnded, CycleThrows, ResetProcess, Halted
<1>9. Producer'
  BY DEF IInv, Producer, CycleFault, WorkersEnded, CycleThrows, ResetProcess, NoRequest,
      NoWindow, NoRows, Halted
<1>10. Aggregator'
  BY DEF IInv, Aggregator, Halted, CycleFault, WorkersEnded, CycleThrows, ResetProcess
<1>11. Ready'
  BY DEF IInv, Ready, CycleFault, WorkersEnded, CycleThrows, ResetProcess, Halted
<1> QED BY <1>1, <1>2, <1>3, <1>4, <1>5, <1>6, <1>7, <1>8, <1>9, <1>10, <1>11, Frame DEF IInv,
      TypeOK, CycleFault, CycleThrows, ResetProcess, nodeVars

\* A worker that fails aborts its sibling and writes nothing.
LEMMA WorkerFaultInv ==
  ASSUME IInv, WorkerFault
  PROVE  IInv'
<1>1. CycleType'
  BY DEF IInv, TypeOK, CycleType, HeightType, WorkerFault, ProducerEnds, WorkerThrows
<1>2. ProducerType'
  <2>1. CASE ProducerEnds
    BY <2>1, ProducerEndsType
  <2>2. CASE UNCHANGED produceVars
    BY <2>2, Frame DEF produceVars
  <2> QED BY <2>1, <2>2 DEF WorkerFault
<1>3. AggregatorType'
  BY NoWindowType DEF IInv, TypeOK, AggregatorType, WorkerFault
<1>4. BoundType'
  BY PipelineAssumption DEF IInv, TypeOK, BoundType, WorkerFault
<1>5. Control'
  BY DEF IInv, Control, WorkerFault, ProducerEnds, WorkerThrows, produceVars
<1>6. Producer'
  BY DEF IInv, Producer, WorkerFault, ProducerEnds, WorkerThrows, NoRequest, NoWindow, NoRows,
      dbVars, produceVars, syncVars
<1>7. Aggregator'
  BY DEF IInv, Aggregator, Halted, WorkerFault, ProducerEnds, WorkerThrows, dbVars,
      produceVars, syncVars
<1> QED BY <1>1, <1>2, <1>3, <1>4, <1>5, <1>6, <1>7, Frame DEF IInv, TypeOK, WorkerFault,
      ProducerEnds, WorkerThrows, nodeVars, dbVars, produceVars, syncVars

\* A stop signal writes nothing.
LEMMA StopInv ==
  ASSUME IInv, Stop
  PROVE  IInv'
<1>1. CycleType'
  BY DEF IInv, TypeOK, CycleType, HeightType, Stop
<1>2. BoundType'
  BY PipelineAssumption DEF IInv, TypeOK, BoundType, Stop
<1>3. Aggregator'
  BY DEF IInv, Aggregator, Halted, Stop, dbVars, produceVars, aggVars, syncVars
<1> QED BY <1>1, <1>2, <1>3, Frame DEF IInv, TypeOK, Stop, nodeVars, dbVars, produceVars,
      aggVars, syncVars

\* Leaving the poll loop writes nothing.
LEMMA ExitLoopInv ==
  ASSUME IInv, ExitLoop
  PROVE  IInv'
<1>1. CycleType'
  BY DEF IInv, TypeOK, CycleType, HeightType, ExitLoop
<1>2. Control'
  BY DEF IInv, Control, ExitLoop, produceVars, aggVars
<1>3. Search'
  BY DEF IInv, Search, ExitLoop, dbVars, syncVars
<1>4. Aggregator'
  BY DEF IInv, Aggregator, Halted, ExitLoop, dbVars, produceVars, aggVars, syncVars
<1> QED BY <1>1, <1>2, <1>3, <1>4, Frame DEF IInv, TypeOK, ExitLoop, nodeVars, dbVars,
      produceVars, aggVars, boundVars, syncVars

\* A crash loses only the variables of the process.
LEMMA CrashInv ==
  ASSUME IInv, Crash
  PROVE  IInv'
<1>1. CycleType'
  <2>1. 0 \in 0..MaxHeight /\ 0 \in HeightType
    BY BlockTreeAssumption DEF HeightType
  <2> QED BY <2>1, Zenon DEF IInv, TypeOK, CycleType, Crash, ResetProcess
<1>2. ProducerType'
  BY ResetTypes DEF Crash
<1>3. AggregatorType'
  BY ResetTypes DEF Crash
<1>4. BoundType'
  BY PipelineAssumption DEF IInv, TypeOK, BoundType, Crash
<1>5. Ordered'
  BY DEF IInv, Ordered, Crash, ResetProcess, dbVars
<1>6. Control'
  BY DEF IInv, Control, Crash, ResetProcess
<1>7. Search'
  BY DEF IInv, Search, Crash, ResetProcess, dbVars, syncVars
<1>8. Producer'
  BY DEF IInv, Producer, Crash, ResetProcess, NoRequest, NoWindow, NoRows, dbVars, syncVars
<1>9. Aggregator'
  BY DEF IInv, Aggregator, Halted, Crash, ResetProcess, dbVars, syncVars
<1> QED BY <1>1, <1>2, <1>3, <1>4, <1>5, <1>6, <1>7, <1>8, <1>9, Frame DEF IInv, TypeOK,
      Crash, ResetProcess, nodeVars, dbVars, syncVars

\* A new process starts from the checkpoints alone.
LEMMA RestartInv ==
  ASSUME IInv, Restart
  PROVE  IInv'
<1>1. CycleType'
  <2>1. 0 \in 0..MaxHeight /\ 0 \in HeightType
    BY BlockTreeAssumption DEF HeightType
  <2> QED BY <2>1, Zenon DEF IInv, TypeOK, CycleType, Restart, ResetProcess
<1>2. ProducerType'
  BY ResetTypes DEF Restart
<1>3. AggregatorType'
  BY ResetTypes DEF Restart
<1>4. Ordered'
  BY DEF IInv, Ordered, Restart, ResetProcess, dbVars
<1>5. Control'
  BY DEF IInv, Control, Restart, ResetProcess
<1>6. Search'
  BY DEF IInv, Search, Restart, ResetProcess, dbVars, syncVars
<1>7. Producer'
  BY DEF IInv, Producer, Restart, ResetProcess, NoRequest, NoWindow, NoRows, dbVars, syncVars
<1>8. Aggregator'
  BY DEF IInv, Aggregator, Halted, Restart, ResetProcess, dbVars, syncVars
<1> QED BY <1>1, <1>2, <1>3, <1>4, <1>5, <1>6, <1>7, <1>8, Frame DEF IInv, TypeOK, Restart,
      ResetProcess, nodeVars, dbVars, boundVars, syncVars

\* prepareAggregationBatch stores a batch of the staged branch.
LEMMA PrepareBatchInv ==
  ASSUME IInv, NEW t \in active, PrepareBatch(t)
  PROVE  IInv'
<1>1. DatabaseType'
  BY RowsElim DEF IInv, TypeOK, DatabaseType, AggregatorType, PrepareBatch, CanInsert, syncVars
<1>2. AggregatorType'
  BY DEF IInv, TypeOK, AggregatorType, RangeType, PrepareBatch, AlreadyPrepared, CanInsert,
      Commit, RangeOf, Range
<1>3. BatchesMatchChain'
  BY DEF IInv, BatchesMatchChain, PrepareBatch, AlreadyPrepared, CanInsert, Commit, RangeOf,
      Range, syncVars
<1>4. Ordered'
  <2>1. [t EXCEPT !.state = "committed"].first = t.first
        /\ [t EXCEPT !.state = "committed"].last = t.last
    BY DEF IInv, TypeOK, AggregatorType
  <2>2. \A u \in active' : u \in active \/ u = [t EXCEPT !.state = "committed"]
    BY DEF PrepareBatch, Commit
  <2>3. \A b \in batches' : b \in batches \/ (b.first = t.first /\ b.last = t.last)
    BY DEF PrepareBatch
  <2> QED BY <2>1, <2>2, <2>3 DEF IInv, Ordered
<1>5. Control'
  BY DEF IInv, Control, PrepareBatch, AlreadyPrepared, CanInsert, Commit, RangeOf, Range,
      cycleVars, produceVars
<1> QED BY <1>1, <1>2, <1>3, <1>4, <1>5, Frame DEF IInv, TypeOK, PrepareBatch, Commit,
      nodeVars, syncVars, cycleVars, produceVars, boundVars

\* A refused range writes nothing.
LEMMA RefuseBatchInv ==
  ASSUME IInv, NEW t \in active, RefuseBatch(t)
  PROVE  IInv'
<1>1. CycleType'
  BY DEF IInv, TypeOK, CycleType, HeightType, RefuseBatch, FailCycle
<1>2. AggregatorType'
  BY DEF IInv, TypeOK, AggregatorType, RangeType, RefuseBatch, FailCycle
<1>3. Ordered'
  BY DEF IInv, Ordered, RefuseBatch, FailCycle, dbVars
<1>4. Control'
  BY DEF IInv, Control, RefuseBatch, FailCycle, produceVars
<1>5. Aggregator'
  BY DEF IInv, Aggregator, Halted, RefuseBatch, FailCycle, dbVars, produceVars, syncVars
<1> QED BY <1>1, <1>2, <1>3, <1>4, <1>5, Frame DEF IInv, TypeOK, RefuseBatch, FailCycle,
      nodeVars, dbVars, produceVars, boundVars, syncVars

\* A call that resolves writes nothing.
LEMMA SettleTaskInv ==
  ASSUME IInv, NEW t \in active, SettleTask(t)
  PROVE  IInv'
<1>1. AggregatorType'
  BY DEF IInv, TypeOK, AggregatorType, RangeType, SettleTask
<1>2. Ordered'
  BY DEF IInv, Ordered, SettleTask, dbVars
<1>3. Control'
  BY DEF IInv, Control, SettleTask, cycleVars, produceVars
<1> QED BY <1>1, <1>2, <1>3, Frame DEF IInv, TypeOK, SettleTask, nodeVars, dbVars, cycleVars,
      produceVars, boundVars, syncVars

\* A call that fails writes nothing, and halving keeps the batch size positive.
LEMMA TaskFaultInv ==
  ASSUME IInv, NEW t \in active, TaskFault(t)
  PROVE  IInv'
<1>1. CycleType'
  BY DEF IInv, TypeOK, CycleType, HeightType, TaskFault, FailCycle, Splittable
<1>2. AggregatorType'
  <2>1. /\ t.first \in Nat /\ t.last \in Nat /\ t.last - t.first < AggregationBatchSize
        /\ adaptive \in 1..AggregationBatchSize
    BY BlockTreeAssumption DEF IInv, TypeOK, AggregatorType, Ordered
  <2>2. Splittable(t) => (t.last - t.first + 1) \div 2 \in 1..AggregationBatchSize
    BY <2>1, PipelineAssumption DEF Splittable
  <2>3. adaptive' \in 1..AggregationBatchSize
    BY <2>1, <2>2 DEF TaskFault
  <2> QED BY <2>3 DEF IInv, TypeOK, AggregatorType, TaskFault
<1>3. BoundType'
  BY PipelineAssumption DEF IInv, TypeOK, BoundType, TaskFault
<1>4. Ordered'
  BY DEF IInv, Ordered, TaskFault, FailCycle, Splittable, dbVars
<1>5. Control'
  BY DEF IInv, Control, TaskFault, FailCycle, Splittable, produceVars
<1>6. Aggregator'
  BY DEF IInv, Aggregator, Halted, TaskFault, FailCycle, Splittable, dbVars, produceVars,
      syncVars
<1> QED BY <1>1, <1>2, <1>3, <1>4, <1>5, <1>6, Frame DEF IInv, TypeOK, TaskFault, FailCycle,
      nodeVars, dbVars, produceVars, syncVars

-----------------------------------------------------------------------------
\* The invariant reads only the variables.
LEMMA StutterInv ==
  ASSUME IInv, UNCHANGED vars
  PROVE  IInv'
BY Frame DEF IInv, TypeOK, vars, nodeVars, dbVars, syncVars, cycleVars, produceVars, aggVars,
      boundVars

\* An empty database satisfies the invariant.
LEMMA InitInv ==
  ASSUME Init
  PROVE  IInv
<1>1. NodeType /\ BoundType
  BY PipelineAssumption DEF Init, NodeType, BoundType
<1>2. DatabaseType
  BY NoRowsType, BlockTreeAssumption DEF Init, DatabaseType, HeightType, HashType
<1>3. CycleType
  <2>1. 0 \in 0..MaxHeight /\ 0 \in HeightType
    BY BlockTreeAssumption DEF HeightType
  <2> QED BY <2>1, Zenon DEF Init, CycleType
<1>4. ProducerType
  <2>1. NoRequest \in [first : 0..MaxHeight, last : 0..MaxHeight, prev : HashType]
    BY BlockTreeAssumption DEF NoRequest, HashType
  <2> QED BY <2>1, NoRowsType DEF Init, ProducerType
<1>5. AggregatorType
  BY NoWindowType, PipelineAssumption DEF Init, AggregatorType
<1>6. Rows /\ CheckpointsConsistent /\ BatchesMatchChain /\ RawLeadBound /\ Ordered
  BY PipelineAssumption
  DEF Init, Rows, CheckpointsConsistent, BatchesMatchChain, RawLeadBound, Ordered, HashAt, NoRows
<1>7. Control /\ Search /\ Producer /\ Aggregator /\ Ready
  BY DEF Init, Control, Search, Producer, Aggregator, Ready
<1> QED BY <1>1, <1>2, <1>3, <1>4, <1>5, <1>6, <1>7 DEF IInv, TypeOK

\* Every step keeps the invariant.
LEMMA StepInv ==
  ASSUME IInv, [Next]_vars
  PROVE  IInv'
<1>1. CASE Cycle
  BY <1>1, StartCycleInv, CheckTipInv, CompareAncestorInv, RollbackToInv, BeginPipelineInv,
     EndCycleInv, ExitLoopInv, RestartInv DEF Cycle
<1>2. CASE Produce
  BY <1>2, ProducerTurnInv, FetchBlockInv, StageBatchInv DEF Produce
<1>3. CASE Aggregate
  BY <1>3, ReduceBatchInv, ReduceNothingInv, ReadStateInv, ReserveInv, StartTaskInv,
     AggregatorEndsInv DEF Aggregate
<1>4. CASE Tasks
  BY <1>4, PrepareBatchInv, RefuseBatchInv, SettleTaskInv DEF Tasks
<1>5. CASE Faults
  BY <1>5, CycleFaultInv, WorkerFaultInv, TaskFaultInv DEF Faults
<1>6. CASE Environment
  BY <1>6, MineInv, ReorganiseInv, StopInv, CrashInv DEF Environment
<1>7. CASE UNCHANGED vars
  BY <1>7, StutterInv
<1> QED BY <1>1, <1>2, <1>3, <1>4, <1>5, <1>6, <1>7 DEF Next

\* The inductive invariant holds in every reachable state, whatever the node, the
\* faults and the crashes do, for every batch size, lead and degree of parallelism.
THEOREM InductiveInvariant == Spec => []IInv
<1>1. Init => IInv
  BY InitInv
<1>2. IInv /\ [Next]_vars => IInv'
  BY StepInv
<1> QED BY <1>1, <1>2, PTL DEF Spec

(***************************************************************************)
(* Every variable keeps its type.                                          *)
(***************************************************************************)
THEOREM TypeCorrect == Spec => []TypeOK
<1>1. IInv => TypeOK
  BY DEF IInv
<1> QED BY <1>1, InductiveInvariant, PTL

(***************************************************************************)
(* The staged rows are one linked branch without gaps, for every tree of   *)
(* blocks and every choice of batch sizes and bounds.                      *)
(***************************************************************************)
THEOREM StagedRowsAreOneBranch == Spec => []StagedOneBranch
<1>1. IInv => StagedOneBranch
  BY DEF IInv, Rows, StagedOneBranch
<1> QED BY <1>1, InductiveInvariant, PTL

(***************************************************************************)
(* The checkpoints of sync_state always name rows that exist, in order.    *)
(***************************************************************************)
THEOREM CheckpointsAgree == Spec => []CheckpointsConsistent
<1>1. IInv => CheckpointsConsistent
  BY DEF IInv
<1> QED BY <1>1, InductiveInvariant, PTL

(***************************************************************************)
(* Every durable batch belongs to the staged branch, through rollbacks,    *)
(* crashes and batches whose transaction fails: no reduction can ever find *)
(* batches of two branches side by side.                                   *)
(***************************************************************************)
THEOREM BatchesMatch == Spec => []BatchesMatchChain
<1>1. IInv => BatchesMatchChain
  BY DEF IInv
<1> QED BY <1>1, InductiveInvariant, PTL

(***************************************************************************)
(* The producer never runs further ahead than INDEXER_RAW_LEAD_BLOCKS.     *)
(***************************************************************************)
THEOREM LeadIsBounded == Spec => []RawLeadBound
<1>1. IInv => RawLeadBound
  BY DEF IInv
<1> QED BY <1>1, InductiveInvariant, PTL

(***************************************************************************)
(* "ready" always means that everything up to the target is processed.     *)
(***************************************************************************)
THEOREM ReadyIsHonest == Spec => []ReadyMeansProcessed
<1>1. IInv => ReadyMeansProcessed
  BY DEF IInv, Ready, ReadyMeansProcessed
<1> QED BY <1>1, InductiveInvariant, PTL

(***************************************************************************)
(* No prepare call outlives the pipeline that started it.                  *)
(***************************************************************************)
THEOREM TasksEndWithTheirCycle == Spec => []TasksOnlyInPipeline
<1>1. IInv => TasksOnlyInPipeline
  BY DEF IInv, Control, TasksOnlyInPipeline
<1> QED BY <1>1, InductiveInvariant, PTL

-----------------------------------------------------------------------------
\* The rows a reader sees, as a chain.
View == [h \in 0..bestHeight |-> blocks[h]]

\* The processed part of a linked branch is a chain of the node's tree.
LEMMA PrefixIsChain ==
  ASSUME NEW raw \in Int, NEW best \in 0..MaxHeight, best <= raw,
         NEW rows \in [0..raw -> Block], rows[0] = Genesis,
         \A h \in 1..raw : Parent[rows[h]] = rows[h - 1]
  PROVE  [h \in 0..best |-> rows[h]] \in Chains
<1> DEFINE prefix == [h \in 0..best |-> rows[h]]
<1>1. prefix \in [0..best -> Block] /\ prefix[0] = Genesis
  BY BlockTreeAssumption
<1>2. \A h \in 1..best : Parent[prefix[h]] = prefix[h - 1]
  BY BlockTreeAssumption
<1>3. prefix \in ChainsOfHeight(best)
  BY <1>1, <1>2 DEF ChainsOfHeight
<1> QED BY <1>3 DEF Chains

\* Every step of the pipeline is a step of what readers are promised, or a stutter.
LEMMA RefinementStep ==
  ASSUME IInv, IInv', [Next]_vars
  PROVE  [Public!Next]_(Public!vars)
<1> USE DEF View
<1>1. ASSUME UNCHANGED <<blocks, bestHeight, status, targetHeight>>
      PROVE  UNCHANGED Public!vars
  BY <1>1 DEF Public!vars
<1>2. ASSUME UNCHANGED <<blocks, bestHeight, targetHeight>>, status' \in {"error", status}
      PROVE  [Public!Next]_(Public!vars)
  <2>1. CASE status' = status
    BY <1>1, <1>2, <2>1
  <2>2. CASE status' = "error"
    <3>1. Public!Unready
      BY <1>2, <2>2 DEF Public!Unready, IInv, TypeOK, DatabaseType, HeightType
    <3> QED BY <3>1 DEF Public!Next
  <2> QED BY <1>2, <2>1, <2>2
<1>3. CASE RollbackTo
  <2>1. /\ bestHeight' \in -1..MaxHeight /\ bestHeight \in -1..MaxHeight
        /\ bestHeight' <= bestHeight /\ bestHeight' <= probe
        /\ status' = "syncing" /\ targetHeight' = targetHeight
        /\ blocks' = [h \in {k \in DOMAIN blocks : k <= probe} |-> blocks[h]]
        /\ DOMAIN blocks = 0..rawHeight /\ bestHeight <= rawHeight /\ rawHeight \in Int
        /\ probe \in Int
    BY <1>3, BlockTreeAssumption
    DEF RollbackTo, ProcessedAfter, Lower, IInv, TypeOK, DatabaseType, CycleType, HeightType,
        CheckpointsConsistent
  <2>2. View' = [h \in 0..bestHeight' |-> View[h]] /\ 0..bestHeight' \subseteq DOMAIN View
    BY <2>1
  <2>3. Public!CutBack
    BY <2>1, <2>2 DEF Public!CutBack
  <2> QED BY <2>3 DEF Public!Next
<1>4. CASE BeginPipeline
  <2>1. Public!Unready
    BY <1>4, BlockTreeAssumption
    DEF Public!Unready, BeginPipeline, IInv, TypeOK, CycleType, HeightType
  <2> QED BY <2>1 DEF Public!Next
<1>5. CASE StageBatch
  <2>1. CASE UNCHANGED <<blocks, rawHeight, rawHash, status>>
    BY <1>1, <1>5, <2>1 DEF StageBatch
  <2>2. CASE ~ Halted /\ FetchedIsLinked
    <3>1. View' = View
      BY <1>5, <2>2, StagedRows, BlockTreeAssumption
      DEF IInv, TypeOK, DatabaseType, HeightType, CheckpointsConsistent, StageBatch
    <3>2. UNCHANGED <<status, targetHeight>>
      BY <1>5, <2>2 DEF StageBatch, IInv, Search
    <3> QED BY <3>1, <3>2 DEF Public!vars
  <2> QED BY <1>5, <2>1, <2>2 DEF StageBatch
<1>6. CASE ReduceBatch
  <2>1. CASE UNCHANGED <<bestHeight, bestHash, status, batches>>
    BY <1>1, <1>6, <2>1 DEF ReduceBatch
  <2>2. ASSUME NEW b \in batches, Reducible(b), bestHeight' = b.last, status' = "syncing"
        PROVE  [Public!Next]_(Public!vars)
    <3>1. bestHeight \in Int /\ bestHeight' \in Int /\ bestHeight < bestHeight' /\ bestHeight' >= 0
          /\ blocks' = blocks /\ targetHeight' = targetHeight
      BY <1>6, <2>2, BlockTreeAssumption
      DEF IInv, TypeOK, DatabaseType, HeightType, Ordered, Reducible, ReduceBatch
    <3>2. View' \in Chains
      <4>1. /\ rawHeight \in Int /\ bestHeight' \in 0..MaxHeight /\ bestHeight' <= rawHeight
            /\ blocks \in [0..rawHeight -> Block] /\ blocks[0] = Genesis
            /\ \A h \in 1..rawHeight : Parent[blocks[h]] = blocks[h - 1]
        BY <1>6, <3>1, BlockTreeAssumption
        DEF IInv, TypeOK, DatabaseType, HeightType, CheckpointsConsistent, Rows, ReduceBatch
      <4> QED BY <3>1, <4>1, PrefixIsChain
    <3>3. DOMAIN View \subseteq DOMAIN View' /\ DOMAIN View # DOMAIN View'
          /\ \A h \in DOMAIN View : View'[h] = View[h]
      BY <3>1, bestHeight' \in DOMAIN View', bestHeight' \notin DOMAIN View
    <3>4. Public!Extend
      BY <2>2, <3>1, <3>2, <3>3 DEF Public!Extend, Public!Chains, Public!ChainsOfHeight,
              Chains, ChainsOfHeight
    <3> QED BY <3>4 DEF Public!Next
  <2> QED BY <1>6, <2>1, <2>2 DEF ReduceBatch
<1>7. CASE EndCycle
  <2>1. CASE status' = "ready" /\ targetHeight' = target /\ ~ Halted
    <3>1. bestHeight = target /\ UNCHANGED <<blocks, bestHeight>>
      BY <1>7, <2>1, BlockTreeAssumption
      DEF EndCycle, WorkersEnded, IInv, Aggregator, Search, CheckpointsConsistent, TypeOK,
          DatabaseType, CycleType, HeightType
    <3>2. Public!Announce
      BY <2>1, <3>1 DEF Public!Announce, IInv, TypeOK, CycleType
    <3> QED BY <3>2 DEF Public!Next
  <2>2. CASE status' \in {"error", status} /\ UNCHANGED targetHeight
    BY <1>2, <1>7, <2>2 DEF EndCycle
  <2> QED BY <1>7, <2>1, <2>2 DEF EndCycle, CycleThrows
<1>8. CASE CheckTip
  BY <1>2, <1>8 DEF CheckTip, CycleThrows
<1>9. CASE CompareAncestor
  BY <1>2, <1>9 DEF CompareAncestor, CycleThrows
<1>10. CASE CycleFault
  BY <1>2, <1>10 DEF CycleFault, CycleThrows
<1>11. CASE StartCycle \/ ExitLoop \/ Restart
  BY <1>1, <1>11 DEF StartCycle, ExitLoop, Restart, dbVars, syncVars
<1>12. CASE ProducerTurn \/ FetchBlock
  BY <1>1, <1>12 DEF ProducerTurn, FetchBlock, dbVars, syncVars
<1>13. CASE ReduceNothing \/ ReadState \/ Reserve \/ StartTask \/ AggregatorEnds
  BY <1>1, <1>13
  DEF ReduceNothing, ReadState, Reserve, StartTask, AggregatorEnds, dbVars, syncVars
<1>14. CASE Tasks
  BY <1>1, <1>14 DEF Tasks, PrepareBatch, RefuseBatch, SettleTask, dbVars, syncVars
<1>15. CASE WorkerFault \/ \E t \in active : TaskFault(t)
  BY <1>1, <1>15 DEF WorkerFault, TaskFault, dbVars, syncVars
<1>16. CASE Environment
  BY <1>1, <1>16 DEF Environment, Mine, Reorganise, Stop, Crash, dbVars, syncVars
<1>17. CASE UNCHANGED vars
  BY <1>1, <1>17 DEF vars, dbVars, syncVars
<1> QED
  BY <1>3, <1>4, <1>5, <1>6, <1>7, <1>8, <1>9, <1>10, <1>11, <1>12, <1>13, <1>14, <1>15, <1>16,
     <1>17 DEF Next, Cycle, Produce, Aggregate, Faults

(***************************************************************************)
(* The pipeline implements ProcessedChain: readers see one branch that     *)
(* grows by linked blocks or is cut back, and a "ready" that is true.      *)
(***************************************************************************)
THEOREM PipelineImplementsProcessedChain == Spec => ImplementsProcessedChain
<1>1. Init => Public!Init
  BY DEF Init, Public!Init, NoRows, Public!NoRows
<1>2. IInv /\ IInv' /\ [Next]_vars => [Public!Next]_(Public!vars)
  BY RefinementStep
<1> QED BY <1>1, <1>2, InductiveInvariant, PTL DEF Spec, Public!Spec, ImplementsProcessedChain

\* A step that changes a checkpoint is one of the checkpoint transactions.
LEMMA CheckpointStep ==
  ASSUME IInv, IInv', [Next]_vars
  PROVE  [Recorded!Next]_(Recorded!vars)
<1>1. ASSUME UNCHANGED <<blocks, rawHeight, bestHeight, batches>>
      PROVE  [Recorded!Next]_(Recorded!vars)
  BY <1>1 DEF Recorded!vars, Durable
<1>2. CASE RollbackTo
  <2>1. probe \in -1..rawHeight
    BY <1>2 DEF RollbackTo, IInv, TypeOK, CycleType, DatabaseType, HeightType, Search
  <2>2. Durable' = {b \in Durable : b.first <= probe /\ b.last <= probe}
    <3>1. batches' = {b \in batches : b.first <= probe /\ b.last <= probe}
      BY <1>2 DEF RollbackTo, SurvivingBatches
    <3>. QED BY <3>1 DEF Durable
  <2>3. Recorded!Rollback(probe)
    BY <1>2, <2>2 DEF RollbackTo, Recorded!Rollback, ProcessedAfter, Lower
  <2>. QED BY <2>1, <2>3 DEF Recorded!Next
<1>3. CASE BeginPipeline
  <2>1. bestHeight <= rawHeight /\ rawHeight \in Int /\ bestHeight \in Int
    BY DEF IInv, CheckpointsConsistent, TypeOK, DatabaseType, HeightType
  <2>2. UNCHANGED <<blocks, rawHeight, bestHeight, batches>>
    BY <1>3, <2>1 DEF BeginPipeline
  <2>. QED BY <1>1, <2>2
<1>4. CASE StageBatch
  <2>1. CASE UNCHANGED <<blocks, rawHeight, rawHash, status>>
    BY <1>1, <1>4, <2>1 DEF StageBatch
  <2>2. CASE ~ Halted /\ FetchedIsLinked
    <3>1. /\ rawHeight' = request.last /\ request.first = rawHeight + 1
          /\ request.first <= request.last
          /\ request \in [first : 0..MaxHeight, last : 0..MaxHeight, prev : HashType]
          /\ rawHeight \in HeightType /\ UNCHANGED <<bestHeight, batches>>
      BY <1>4, <2>2 DEF StageBatch, IInv, TypeOK, DatabaseType, ProducerType, Producer
    <3>2. rawHeight' \in 0..MaxHeight /\ rawHeight' > rawHeight
      BY <3>1, BlockTreeAssumption DEF HeightType
    <3>3. blocks' \in ChainsOfHeight(rawHeight')
      BY <3>2 DEF IInv, Rows, ChainsOfHeight
    <3>4. \A h \in DOMAIN blocks : blocks'[h] = blocks[h]
      BY <1>4, <2>2 DEF StageBatch
    <3>5. Durable' = Durable
      BY <3>1 DEF Durable
    <3>6. Recorded!Stage
      BY <3>1, <3>2, <3>3, <3>4, <3>5
      DEF Recorded!Stage, Recorded!ChainsOfHeight, ChainsOfHeight
    <3>. QED BY <3>6 DEF Recorded!Next
  <2>. QED BY <1>4, <2>1, <2>2 DEF StageBatch
<1>5. CASE ReduceBatch
  <2>1. CASE UNCHANGED <<bestHeight, bestHash, status, batches>>
    BY <1>1, <1>5, <2>1 DEF ReduceBatch
  <2>2. ASSUME NEW b \in batches, Reducible(b), bestHeight' = b.last,
               batches' = (batches \ {b}) \cup {[b EXCEPT !.status = "reduced"]}
        PROVE  [Recorded!Next]_(Recorded!vars)
    <3>. DEFINE of(a) == [first |-> a.first, last |-> a.last, status |-> a.status]
                done  == [b EXCEPT !.status = "reduced"]
    <3>1. \A a \in batches : /\ a \in [first : 0..MaxHeight, last : 0..MaxHeight, tip : Block,
                                       status : {"prepared", "reduced"}]
                             /\ blocks[a.last] = a.tip
      BY DEF IInv, TypeOK, DatabaseType, BatchesMatchChain
    <3>2. \A a \in batches : of(a) = of(b) => a = b
      BY <3>1
    <3>3. of(done) = [of(b) EXCEPT !.status = "reduced"]
      BY <3>1
    <3>4. Durable = {of(a) : a \in batches}
      BY DEF Durable
    <3>5. Durable' = {of(a) : a \in batches'}
      BY DEF Durable
    <3>. HIDE DEF of, done
    <3>6. Durable' = (Durable \ {of(b)}) \cup {of(done)}
      BY <2>2, <3>2, <3>4, <3>5 DEF done
    <3>7. of(b) \in Durable /\ of(b).status = "prepared" /\ of(b).first = bestHeight + 1
          /\ of(b).last = bestHeight'
      BY <2>2, <3>4 DEF of, Reducible
    <3>8. UNCHANGED <<blocks, rawHeight>>
      BY <1>5 DEF ReduceBatch
    <3>9. Recorded!Reduce
      BY <3>3, <3>6, <3>7, <3>8 DEF Recorded!Reduce
    <3>. QED BY <3>9 DEF Recorded!Next
  <2>. QED BY <1>5, <2>1, <2>2 DEF ReduceBatch
<1>6. ASSUME NEW t \in active, PrepareBatch(t)
      PROVE  [Recorded!Next]_(Recorded!vars)
  <2>1. CASE UNCHANGED batches
    BY <1>1, <1>6, <2>1 DEF PrepareBatch, syncVars
  <2>2. CASE CanInsert(t) /\ batches' = batches \cup {[first |-> t.first, last |-> t.last,
                                     tip |-> blocks[t.last], status |-> "prepared"]}
    <3>. DEFINE r == [first |-> t.first, last |-> t.last]
    <3>1. r \in RangesWithin(0, MaxHeight)
      BY DEF IInv, TypeOK, AggregatorType, Ordered, RangesWithin
    <3>2. Durable' = Durable \cup {[first |-> t.first, last |-> t.last, status |-> "prepared"]}
      <4>. DEFINE of(a) == [first |-> a.first, last |-> a.last, status |-> a.status]
                  new   == [first |-> t.first, last |-> t.last, tip |-> blocks[t.last],
                            status |-> "prepared"]
      <4>1. of(new) = [first |-> t.first, last |-> t.last, status |-> "prepared"]
        OBVIOUS
      <4>2. Durable = {of(a) : a \in batches} /\ Durable' = {of(a) : a \in batches'}
        BY DEF Durable
      <4>3. batches' = batches \cup {new}
        BY <2>2
      <4>. HIDE DEF of, new
      <4>4. Durable' = Durable \cup {of(new)}
        BY <4>2, <4>3
      <4>. QED BY <4>1, <4>4
    <3>3. \A b \in Durable : b.first # t.first /\ b.last # t.last
      BY <2>2 DEF CanInsert, Durable
    <3>4. UNCHANGED <<blocks, rawHeight, bestHeight>>
      BY <1>6 DEF PrepareBatch, syncVars
    <3>5. Recorded!Prepare(r)
      BY <2>2, <3>2, <3>3, <3>4 DEF Recorded!Prepare, CanInsert
    <3>. QED BY <3>1, <3>5 DEF Recorded!Next, Recorded!RangesWithin, RangesWithin
  <2>. QED BY <1>6, <2>1, <2>2 DEF PrepareBatch
<1>7. CASE \/ StartCycle \/ CheckTip \/ CompareAncestor \/ EndCycle \/ ExitLoop \/ Restart
           \/ ProducerTurn \/ FetchBlock \/ CycleFault \/ WorkerFault
  BY <1>1, <1>7 DEF StartCycle, CheckTip, CompareAncestor, EndCycle, ExitLoop, Restart,
     ProducerTurn, FetchBlock, CycleFault, WorkerFault, dbVars, syncVars
<1>8. CASE ReduceNothing \/ ReadState \/ Reserve \/ StartTask \/ AggregatorEnds
  BY <1>1, <1>8
  DEF ReduceNothing, ReadState, Reserve, StartTask, AggregatorEnds, dbVars, syncVars
<1>9. CASE \E t \in active : RefuseBatch(t) \/ SettleTask(t) \/ TaskFault(t)
  BY <1>1, <1>9 DEF RefuseBatch, SettleTask, TaskFault, dbVars, syncVars
<1>10. CASE Environment \/ UNCHANGED vars
  BY <1>1, <1>10 DEF Environment, Mine, Reorganise, Stop, Crash, vars, dbVars, syncVars
<1>. QED
  BY <1>2, <1>3, <1>4, <1>5, <1>6, <1>7, <1>8, <1>9, <1>10
  DEF Next, Cycle, Produce, Aggregate, Tasks, Faults

(***************************************************************************)
(* What the pipeline does to the database is a sequence of checkpoint      *)
(* transactions, each under its conditions, for every tree of blocks and   *)
(* any number of faults and restarts.  A rollback reads the height its     *)
(* search stopped at, a reduction removes the one batch with its keys, and *)
(* a staged batch extends the branch, because IInv ties what the workers   *)
(* remember to the database.                                               *)
(***************************************************************************)
THEOREM PipelineImplementsCheckpoints == Spec => ImplementsCheckpoints
<1>1. Init => Recorded!Init
  BY DEF Init, Recorded!Init, NoRows, Recorded!NoRows, Durable
<1>2. IInv /\ IInv' /\ [Next]_vars => [Recorded!Next]_(Recorded!vars)
  BY CheckpointStep
<1> QED BY <1>1, <1>2, InductiveInvariant, PTL DEF Spec, Recorded!Spec, ImplementsCheckpoints
=============================================================================
