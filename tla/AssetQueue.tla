------------------------------ MODULE AssetQueue ------------------------------
(***************************************************************************)
(* The asset directory of server/indexer.mjs: table assets is a copy of    *)
(* what the node answers about each asset, and asset_sync_queue names the  *)
(* assets to ask about again.  The reducer and rollbacks fill the queue;   *)
(* the asset worker of a cycle drains it while the pipeline runs, and a    *)
(* rollback refreshes what it removed.                                     *)
(*                                                                         *)
(* An answer is identified by the block that last changed the asset on the *)
(* node's chain (an issue or a reissue).  The pipeline is only what the    *)
(* queue sees of it: fetching and staging are one step, the search for the *)
(* common ancestor and the rollback are one (module IndexerPipeline has    *)
(* the steps in between).                                                  *)
(***************************************************************************)
EXTENDS AggregationRanges, BlockTree, FiniteSets

CONSTANTS
  Asset,         \* numbers, in the order in which the node lists the names
  ChangedIn,     \* the assets a block issues or reissues
  TouchedIn,     \* the assets a block has outputs of
  DrainLimit,    \* LIMIT of the queue query
  PageSize,      \* assets per batch request
  BootPageSize,  \* INDEXER_ASSET_PAGE_SIZE
  MaxReorgs, MaxFaults, MaxRestarts   \* bounds

ASSUME AssetAssumption ==
  /\ Asset \subseteq Nat /\ IsFiniteSet(Asset)
  /\ ChangedIn \in [Block -> SUBSET Asset] /\ TouchedIn \in [Block -> SUBSET Asset]
  /\ {DrainLimit, PageSize, BootPageSize} \subseteq Nat \ {0}
  /\ {MaxReorgs, MaxFaults, MaxRestarts} \subseteq Nat

\* Consensus: an asset is issued before it has outputs.
ASSUME IssuedFirst ==
  /\ \A b \in Block : ChangedIn[b] \subseteq TouchedIn[b]
  /\ \A c \in Chains : \A h \in DOMAIN c :
       \A a \in TouchedIn[c[h]] : \E j \in 0..h : a \in ChangedIn[c[j]]

\* The node reports no previous block for the genesis block.
ASSUME GenesisIsRoot == Parent[Genesis] = NoBlock

VARIABLES
  chain,         \* the node's active chain
  \* the database
  blocks, rawHeight, bestHeight, ready,
  batches,       \* ranges of aggregation_batches that are prepared
  transferred,   \* heights whose rows are in asset_transfers
  queue,         \* table asset_sync_queue, name -> seen_height
  directory,     \* table assets, name -> the block it was last changed in
  \* the process
  phase,         \* what it does; "pipeline" while the workers run
  offset,        \* assets loaded by bootstrapAssets
  target,        \* the height the cycle works for
  worker,        \* where the asset worker is
  aborted,       \* the cycle failed
  job,           \* the call of refreshAssets in progress
  \* for the properties: the last drain of the cycle failed; assets queued again
  \* after the node had answered
  drainFailed, raced,
  reorgs, faults, restarts

dbVars    == <<blocks, rawHeight, bestHeight, batches, transferred>>
assetVars == <<queue, directory, job, raced>>
cycleVars == <<ready, phase, offset, target, worker, aborted, drainFailed>>
boundVars == <<reorgs, faults, restarts>>
vars == <<chain, dbVars, assetVars, cycleVars, boundVars>>

TipHeight == CHOOSE n \in DOMAIN chain : n + 1 \notin DOMAIN chain

NoJob    == [todo |-> {}, page |-> {}, answers |-> [a \in {} |-> NoBlock]]
Idle     == job = NoJob
NewJob(names) == [NoJob EXCEPT !.todo = names]

\* The heights at which a chain changes an asset, and the answer of listassets.
ChangeHeights(a, c) == {h \in DOMAIN c : a \in ChangedIn[c[h]]}
Listed(c)           == {a \in Asset : ChangeHeights(a, c) # {}}
Answer(a, c) ==
  c[CHOOSE h \in ChangeHeights(a, c) : \A k \in ChangeHeights(a, c) : k <= h]

Init ==
  /\ chain \in Chains
  /\ blocks = NoRows /\ rawHeight = -1 /\ bestHeight = -1
  /\ batches = {} /\ transferred = {}
  /\ queue = [a \in {} |-> 0] /\ directory = [a \in {} |-> NoBlock]
  /\ ready = FALSE /\ phase = "start" /\ offset = 0 /\ target = 0
  /\ worker = "ended" /\ aborted = FALSE /\ job = NoJob
  /\ drainFailed = FALSE /\ raced = {}
  /\ reorgs = 0 /\ faults = 0 /\ restarts = 0

-----------------------------------------------------------------------------
\* The node.

Mine ==
  /\ \E b \in Block :
       chain' \in {c \in Chains : c = [h \in 0..TipHeight + 1 |->
                                         IF h \in DOMAIN chain THEN chain[h] ELSE b]}
  /\ UNCHANGED <<dbVars, assetVars, cycleVars, boundVars>>

\* The node changes branch.
Reorganise ==
  /\ reorgs < MaxReorgs /\ reorgs' = reorgs + 1
  /\ chain' \in {c \in Chains : \E h \in DOMAIN chain \cap DOMAIN c : c[h] # chain[h]}
  /\ UNCHANGED <<dbVars, assetVars, cycleVars, faults, restarts>>

-----------------------------------------------------------------------------
\* bootstrapAssets.

StartProcess ==
  /\ phase = "start"
  /\ phase' = IF DOMAIN directory = {} THEN "boot" ELSE "poll"
  /\ offset' = 0
  /\ UNCHANGED <<chain, dbVars, assetVars, ready, target, worker, aborted, drainFailed, boundVars>>

BootPage ==
  {a \in Listed(chain) :
     Cardinality({b \in Listed(chain) : b < a}) \in offset .. offset + BootPageSize - 1}

LoadBootPage ==
  /\ phase = "boot"
  /\ directory' = [a \in DOMAIN directory \cup BootPage |->
                     IF a \in BootPage THEN Answer(a, chain) ELSE directory[a]]
  /\ offset' = offset + Cardinality(BootPage)
  /\ phase' = IF Cardinality(BootPage) < BootPageSize THEN "poll" ELSE "boot"
  /\ UNCHANGED <<chain, dbVars, queue, job, raced, ready, target, worker, aborted, drainFailed,
                 boundVars>>

\* A failure is logged, and the bootstrap is over.
BootFault ==
  /\ phase = "boot" /\ faults < MaxFaults /\ faults' = faults + 1
  /\ phase' = "poll"
  /\ UNCHANGED <<chain, dbVars, assetVars, ready, offset, target, worker, aborted, drainFailed,
                 reorgs, restarts>>

-----------------------------------------------------------------------------
\* The beginning of a cycle.

OnNodeChain(h) == h \in DOMAIN chain /\ chain[h] = blocks[h]

\* The workers start.
BeginPipeline ==
  /\ phase' = "pipeline" /\ worker' = "loop" /\ aborted' = FALSE /\ drainFailed' = FALSE
  /\ ready' = FALSE

StartCycle ==
  /\ phase = "poll" /\ (rawHeight >= 0 => OnNodeChain(rawHeight))
  /\ target' = TipHeight
  /\ BeginPipeline
  /\ UNCHANGED <<chain, dbVars, assetVars, offset, boundVars>>

\* Assets changed above the ancestor, as far as asset_transfers knows.
Affected(ancestor) ==
  UNION {ChangedIn[blocks[h]] : h \in {k \in transferred : k > ancestor}}

\* Seeded fault: the rows do not go with their blocks.
TransfersKept(ancestor) == transferred

TransfersAfter(ancestor) == {h \in transferred : h <= ancestor}

\* Seeded fault: the assets are removed and not queued.
RequeuedNothing(ancestor) == queue

Requeued(ancestor) ==
  [a \in DOMAIN queue \cup Affected(ancestor) |->
     IF a \in Affected(ancestor) THEN ancestor ELSE queue[a]]

\* rollbackTo, up to its COMMIT; refreshAssets follows outside the transaction.
RollbackTo(ancestor) ==
  /\ phase = "poll" /\ rawHeight >= 0 /\ ~ OnNodeChain(rawHeight)
  /\ ancestor \in -1..rawHeight
  /\ ancestor >= 0 => OnNodeChain(ancestor)
  /\ \A h \in DOMAIN blocks : h > ancestor => ~ OnNodeChain(h)
  /\ blocks' = [h \in {k \in DOMAIN blocks : k <= ancestor} |-> blocks[h]]
  /\ rawHeight' = ancestor
  /\ bestHeight' = IF bestHeight <= ancestor THEN bestHeight ELSE ancestor
  /\ batches' = {r \in batches : r.last <= ancestor}
  /\ transferred' = TransfersAfter(ancestor)
  /\ queue' = Requeued(ancestor)
  /\ directory' = [a \in DOMAIN directory \ Affected(ancestor) |-> directory[a]]
  /\ raced' = raced \ Affected(ancestor)
  /\ ready' = FALSE /\ target' = TipHeight
  /\ phase' = "refresh" /\ job' = NewJob(Affected(ancestor))
  /\ UNCHANGED <<chain, offset, worker, aborted, drainFailed, boundVars>>

\* The refresh has ended, or failed.
AfterRefresh ==
  /\ phase = "refresh" /\ Idle
  /\ BeginPipeline
  /\ UNCHANGED <<chain, dbVars, assetVars, offset, target, boundVars>>

-----------------------------------------------------------------------------
\* The pipeline.

PipelineRuns == phase = "pipeline" /\ ~ aborted

\* Both pipeline workers are done.
PipelineDone == bestHeight >= target

\* The node has a next block, and it is on the staged tip.
NextIsLinked ==
  /\ rawHeight + 1 \in DOMAIN chain
  /\ rawHeight >= 0 => Parent[chain[rawHeight + 1]] = blocks[rawHeight]

Stage ==
  /\ PipelineRuns /\ rawHeight < target /\ NextIsLinked
  /\ rawHeight' = rawHeight + 1
  /\ blocks' = [h \in 0..rawHeight' |-> IF h = rawHeight' THEN chain[h] ELSE blocks[h]]
  /\ UNCHANGED <<chain, bestHeight, batches, transferred, assetVars, cycleVars, boundVars>>

Prepare ==
  /\ PipelineRuns
  /\ \E r \in RangesWithin(0, rawHeight) :
       /\ r.first > bestHeight /\ \A b \in batches : Disjoint(r, b)
       /\ batches' = batches \cup {r}
       /\ transferred' = transferred \cup Heights(r)
  /\ UNCHANGED <<chain, blocks, rawHeight, bestHeight, assetVars, cycleVars, boundVars>>

NamesOf(r) == UNION {TouchedIn[blocks[h]] : h \in Heights(r)}

\* Seeded fault: an asset in the directory is not queued again.
QueuedOnceOnly(names, height) ==
  [a \in DOMAIN queue \cup (names \ DOMAIN directory) |->
     IF a \in DOMAIN queue THEN queue[a] ELSE height]

QueuedAgain(names, height) ==
  [a \in DOMAIN queue \cup names |->
     IF a \in names /\ (a \in DOMAIN queue => queue[a] < height) THEN height ELSE queue[a]]

Reduce ==
  /\ PipelineRuns
  /\ \E r \in batches :
       /\ r.first = bestHeight + 1
       /\ bestHeight' = r.last /\ batches' = batches \ {r}
       /\ queue' = QueuedAgain(NamesOf(r), r.last)
       /\ raced' = raced \cup (NamesOf(r) \cap job.page)
  /\ UNCHANGED <<chain, blocks, rawHeight, transferred, directory, job, cycleVars, boundVars>>

\* A pipeline worker fails, for instance because the fetched blocks do not link.
PipelineFails ==
  /\ PipelineRuns /\ ~ PipelineDone
  /\ \/ faults < MaxFaults /\ faults' = faults + 1
     \/ UNCHANGED faults /\ rawHeight < target /\ ~ NextIsLinked
  /\ aborted' = TRUE
  /\ UNCHANGED <<chain, dbVars, assetVars, ready, phase, offset, target, worker, drainFailed,
                 reorgs, restarts>>

-----------------------------------------------------------------------------
\* The asset worker.

\* Seeded fault: only entries the processed tip has reached since are read.
DueNewer == {a \in DOMAIN queue : queue[a] > bestHeight}

Due == DOMAIN queue

\* ORDER BY seen_height LIMIT DrainLimit
Oldest ==
  {S \in SUBSET Due :
     /\ Cardinality(S) <= DrainLimit
     /\ S # Due => Cardinality(S) = DrainLimit
     /\ \A a \in S, b \in Due \ S : queue[a] <= queue[b]}

StartDrain ==
  /\ phase = "pipeline" /\ Idle /\ ~ aborted
  /\ worker \in {"loop", "final"} /\ Due # {}
  /\ \E names \in Oldest : job' = NewJob(names)
  /\ UNCHANGED <<chain, dbVars, queue, directory, raced, cycleVars, boundVars>>

\* Seeded fault: the worker ends with the pipeline.
WorkerEndsEarly ==
  /\ phase = "pipeline" /\ Idle /\ worker \in {"loop", "final"}
  /\ PipelineDone \/ aborted
  /\ worker' = "ended"
  /\ UNCHANGED <<chain, dbVars, assetVars, ready, phase, offset, target, aborted, drainFailed,
                 boundVars>>

\* The loop ends with the pipeline; what is left is drained, unless the cycle failed.
WorkerEnds ==
  /\ phase = "pipeline" /\ Idle
  /\ \/ worker = "loop" /\ (PipelineDone \/ aborted) /\ worker' = "final"
     \/ worker = "final" /\ (Due = {} \/ aborted) /\ worker' = "ended"
  /\ UNCHANGED <<chain, dbVars, assetVars, ready, phase, offset, target, aborted, drainFailed,
                 boundVars>>

EndCycle ==
  /\ phase = "pipeline" /\ worker = "ended"
  /\ phase' = "poll"
  /\ ready' = (PipelineDone /\ ~ aborted)
  /\ UNCHANGED <<chain, dbVars, assetVars, offset, target, worker, aborted, drainFailed, boundVars>>

-----------------------------------------------------------------------------
\* refreshAssets, for the worker and for a rollback.

\* One batch request.  An asset the node does not know gives an empty answer.
AskPage ==
  /\ job.page = {} /\ job.todo # {}
  /\ \E page \in SUBSET job.todo :
       /\ Cardinality(page) <= PageSize
       /\ page # job.todo => Cardinality(page) = PageSize
       /\ job' = [todo    |-> job.todo \ page,
                  page    |-> page,
                  answers |-> [a \in page \cap Listed(chain) |-> Answer(a, chain)]]
       /\ raced' = raced \ page
  /\ UNCHANGED <<chain, dbVars, queue, directory, cycleVars, boundVars>>

UpsertAsset ==
  /\ \E a \in DOMAIN job.answers :
       /\ directory' = [b \in DOMAIN directory \cup {a} |->
                          IF b = a THEN job.answers[a] ELSE directory[b]]
       /\ job' = [job EXCEPT !.answers = [b \in DOMAIN @ \ {a} |-> @[b]]]
  /\ UNCHANGED <<chain, dbVars, queue, raced, cycleVars, boundVars>>

DeletePage ==
  /\ job.page # {} /\ DOMAIN job.answers = {}
  /\ queue' = [a \in DOMAIN queue \ job.page |-> queue[a]]
  /\ job' = [job EXCEPT !.page = {}]
  /\ UNCHANGED <<chain, dbVars, directory, raced, cycleVars, boundVars>>

\* The node or the database rejects: the rest of the queue waits.
RefreshFault ==
  /\ ~ Idle /\ faults < MaxFaults /\ faults' = faults + 1
  /\ job' = NoJob
  /\ worker' = IF phase = "pipeline" /\ worker = "final" THEN "ended" ELSE worker
  /\ drainFailed' = (drainFailed \/ worker' # worker)
  /\ raced' = raced \ job.page
  /\ UNCHANGED <<chain, dbVars, queue, directory, ready, phase, offset, target, aborted,
                 reorgs, restarts>>

Crash ==
  /\ restarts < MaxRestarts /\ restarts' = restarts + 1
  /\ phase' = "start" /\ job' = NoJob /\ worker' = "ended" /\ aborted' = FALSE
  /\ raced' = raced \ job.page
  /\ UNCHANGED <<chain, dbVars, queue, directory, ready, offset, target, drainFailed, reorgs, faults>>

-----------------------------------------------------------------------------
Cycle == \/ StartProcess \/ LoadBootPage \/ StartCycle \/ AfterRefresh \/ EndCycle
         \/ \E ancestor \in -1..MaxHeight : RollbackTo(ancestor)
Pipeline == Stage \/ Prepare \/ Reduce
Refresh == StartDrain \/ WorkerEnds \/ AskPage \/ UpsertAsset \/ DeletePage
Environment == Mine \/ Reorganise \/ BootFault \/ RefreshFault \/ Crash

Next == Cycle \/ Pipeline \/ PipelineFails \/ Refresh \/ Environment

Spec == Init /\ [][Next]_vars

FairSpec ==
  /\ Spec
  /\ WF_vars(Cycle) /\ WF_vars(Pipeline \/ PipelineFails) /\ WF_vars(Refresh)

-----------------------------------------------------------------------------
TypeOK ==
  /\ chain \in Chains /\ blocks \in Chains \cup {NoRows}
  /\ rawHeight \in -1..MaxHeight /\ bestHeight \in -1..rawHeight
  /\ batches \subseteq RangesWithin(0, MaxHeight) /\ transferred \subseteq DOMAIN blocks
  /\ DOMAIN queue \subseteq Asset /\ \A a \in DOMAIN queue : queue[a] \in -1..MaxHeight
  /\ DOMAIN directory \subseteq Asset /\ \A a \in DOMAIN directory : directory[a] \in Block
  /\ phase \in {"start", "boot", "poll", "refresh", "pipeline"}
  /\ worker \in {"loop", "final", "ended"} /\ {ready, aborted, drainFailed} \subseteq BOOLEAN
  /\ job.todo \subseteq Asset /\ job.page \subseteq Asset
  /\ DOMAIN job.answers \subseteq job.page
  /\ offset \in Nat /\ target \in 0..MaxHeight /\ raced \subseteq Asset

(***************************************************************************)
(* When a cycle reports "ready", every asset the processed blocks touched  *)
(* has been asked for, unless a request of the last drain failed: the      *)
(* asset worker goes on after the pipeline is done.                        *)
(***************************************************************************)
ReadyMeansDrained == ready /\ ~ drainFailed => DOMAIN queue = {}

\* The processed blocks, as far as they are on the node's chain.
Processed == [h \in {k \in DOMAIN blocks : k <= bestHeight /\ OnNodeChain(k)} |-> blocks[h]]

(***************************************************************************)
(* No asset of the processed chain is forgotten: it is in the directory or *)
(* in the queue, whatever failed, crashed or was rolled back, and although *)
(* the queue's entry is deleted by another transaction than the one that   *)
(* wrote the answer.                                                       *)
(***************************************************************************)
ListedOrQueued ==
  \A a \in Asset : ChangeHeights(a, Processed) # {} => a \in DOMAIN directory \cup DOMAIN queue

HeightOf(b) == CHOOSE n \in 0..MaxHeight : \E c \in ChainsOfHeight(n) : c[n] = b

(***************************************************************************)
(* An asset that is not queued is in the directory with its last processed *)
(* change or a later one.  The one exception is the race of refreshAssets  *)
(* with the reducer: an entry queued between the node's answer and the     *)
(* DELETE goes with it.                                                    *)
(***************************************************************************)
CurrentUnlessRaced ==
  \A a \in Asset \ (DOMAIN queue \cup raced) :
    ChangeHeights(a, Processed) # {} =>
      /\ a \in DOMAIN directory
      /\ HeightOf(directory[a]) >= HeightOf(Answer(a, Processed))

(***************************************************************************)
(* The queue is drained in the end, across failed requests and restarts.   *)
(***************************************************************************)
QueueDrains == <>[](DOMAIN queue = {})

(***************************************************************************)
(* "When a reorg is detected, the worker [...] removes orphaned blocks     *)
(* transactionally, [...] refreshes affected assets, and resumes"          *)
(* (README.md): a rollback that removes the block an asset's metadata came *)
(* from removes the metadata or queues the asset.                          *)
(***************************************************************************)
OrphanedMetadataIsRefreshed ==
  [][\A a \in DOMAIN directory :
       (\E h \in DOMAIN blocks \ DOMAIN blocks' : directory[a] = blocks[h])
         => a \notin DOMAIN directory' \/ a \in DOMAIN queue']_vars
=============================================================================
