--------------------------- MODULE AssetQueueProofs ---------------------------
(***************************************************************************)
(* The queue of asset metadata, for every tree of blocks, every page size  *)
(* and any number of faults, crashes and, where it is said, one            *)
(* reorganisation.                                                         *)
(*                                                                         *)
(* "Ready" means drained because the asset worker ends after the pipeline: *)
(* a pipeline at its target has nothing left to reduce (Working).          *)
(*                                                                         *)
(* No processed asset is forgotten because the only entry that goes        *)
(* without an answer is one of an asset the node's chain does not change   *)
(* up to the target, and nothing above the target is processed before the  *)
(* entry is gone (Unanswered).  This needs the node not to come back to a  *)
(* branch it has left, hence the one reorganisation: with two, the node    *)
(* can be asked while it is elsewhere.                                     *)
(***************************************************************************)
EXTENDS AssetQueue, FiniteSetTheorems, WellFoundedInduction, TLAPS

JobRecord(todo, page, answers) == [todo |-> todo, page |-> page, answers |-> answers]

\* The rows are a chain of the staged height, and ranges and rows are below it.
Rows ==
  /\ chain \in Chains
  /\ rawHeight \in Int /\ bestHeight \in Int
  /\ -1 <= bestHeight /\ bestHeight <= rawHeight /\ rawHeight <= MaxHeight
  /\ IF rawHeight = -1 THEN blocks = NoRows ELSE blocks \in ChainsOfHeight(rawHeight)
  /\ batches \subseteq RangesWithin(0, rawHeight)
  /\ transferred \subseteq 0..rawHeight

AssetRows ==
  /\ DOMAIN queue \subseteq Asset /\ \A a \in DOMAIN queue : queue[a] \in -1..MaxHeight
  /\ DOMAIN directory \subseteq Asset /\ \A a \in DOMAIN directory : directory[a] \in Block
  /\ job = JobRecord(job.todo, job.page, job.answers)
  /\ job.todo \subseteq Asset /\ job.page \subseteq Asset
  /\ DOMAIN job.answers \subseteq job.page
  /\ \A a \in DOMAIN job.answers : job.answers[a] \in Block
  /\ raced \subseteq Asset

CycleRows ==
  /\ phase \in {"start", "boot", "poll", "refresh", "pipeline"}
  /\ worker \in {"loop", "final", "ended"}
  /\ ready \in BOOLEAN /\ aborted \in BOOLEAN /\ drainFailed \in BOOLEAN
  /\ offset \in Nat /\ target \in 0..MaxHeight

\* A cycle works below its target, and its worker ends with nothing to ask.
Working ==
  /\ phase \in {"refresh", "pipeline"} => rawHeight <= target /\ ~ ready
  /\ phase \notin {"refresh", "pipeline"} => Idle
  /\ phase = "pipeline" /\ worker = "ended" => Idle
  /\ phase = "pipeline" /\ worker \in {"final", "ended"} /\ ~ aborted /\ ~ drainFailed =>
       PipelineDone
  /\ phase = "pipeline" /\ worker = "ended" /\ ~ aborted /\ ~ drainFailed => DOMAIN queue = {}
  /\ ready /\ ~ drainFailed => DOMAIN queue = {}

QIInv == Rows /\ AssetRows /\ CycleRows /\ Working

-----------------------------------------------------------------------------
\* The node has left a staged block for another.
Forked == \E f \in DOMAIN chain \cap DOMAIN blocks : chain[f] # blocks[f]

\* A block off the node's chain is off it because the node changed branch.
OnOrForked ==
  /\ reorgs \in Nat /\ reorgs <= MaxReorgs
  /\ Forked \/ \A h \in DOMAIN blocks : OnNodeChain(h)
  /\ reorgs = 0 => \A h \in DOMAIN blocks : OnNodeChain(h)

\* The assets to ask about, and those a processed block has changed.
Wanted == DOMAIN queue \cup job.todo \cup job.page

ChangedBelow(a) == \E h \in DOMAIN blocks : h <= bestHeight /\ a \in ChangedIn[blocks[h]]

\* Before the node changes branch, and in a cycle whose target it left behind, only
\* assets of processed blocks are asked about.
WantedIsProcessed ==
  \/ reorgs = 0
  \/ phase \in {"refresh", "pipeline"} /\ target \notin DOMAIN chain
  => \A a \in Wanted : ChangedBelow(a)

\* An asset the node gave no answer for is in no block this cycle can process.
Unanswered ==
  \A a \in job.page \ (DOMAIN job.answers \cup DOMAIN directory) :
    /\ \A h \in DOMAIN blocks : OnNodeChain(h) => a \notin ChangedIn[blocks[h]]
    /\ Forked \/ \A h \in DOMAIN chain : h <= target => a \notin ChangedIn[chain[h]]

Listing ==
  \A a \in Asset :
    (\E h \in DOMAIN blocks : h <= bestHeight /\ OnNodeChain(h) /\ a \in ChangedIn[blocks[h]])
      => a \in DOMAIN directory \cup DOMAIN queue

Remembered == OnOrForked /\ WantedIsProcessed /\ Unanswered /\ Listing

LIInv == QIInv /\ Remembered

\* A job has its names from the queue.
AskedIsQueued ==
  /\ job.todo \cup job.page \subseteq DOMAIN queue
  /\ job.todo \cap job.page = {}

\* The heights at which the processed blocks of the node's chain change an asset.
ChangedAt(a, h) ==
  h \in DOMAIN blocks /\ h <= bestHeight /\ OnNodeChain(h) /\ a \in ChangedIn[blocks[h]]

\* An asset that is not queued has been written since its last processed change, and the
\* answers about a page are as new as what was processed when the node gave them.
Settled ==
  \A a \in Asset \ (DOMAIN queue \cup raced) : \A h \in 0..MaxHeight :
    ChangedAt(a, h) => a \in DOMAIN directory /\ HeightOf(directory[a]) >= h

Asked ==
  \A a \in job.page \ raced : \A h \in 0..MaxHeight :
    ChangedAt(a, h) => IF a \in DOMAIN job.answers
                      THEN HeightOf(job.answers[a]) >= h
                      ELSE a \in DOMAIN directory /\ HeightOf(directory[a]) >= h

Current == AskedIsQueued /\ Settled /\ Asked

CIInv == LIInv /\ Current

-----------------------------------------------------------------------------
\* A chain is a function on an interval of heights, and its prefixes are chains.
LEMMA ChainShape ==
  ASSUME NEW c \in Chains
  PROVE  \E n \in 0..MaxHeight : c \in ChainsOfHeight(n) /\ DOMAIN c = 0..n
BY DEF Chains, ChainsOfHeight

LEMMA Prefix ==
  ASSUME NEW n \in Nat, NEW c \in ChainsOfHeight(n), NEW k \in 0..n
  PROVE  [h \in {j \in DOMAIN c : j <= k} |-> c[h]] \in ChainsOfHeight(k)
<1> DEFINE d == [h \in {j \in DOMAIN c : j <= k} |-> c[h]]
<1>1. c \in [0..n -> Block] /\ c[0] = Genesis /\ \A h \in 1..n : Parent[c[h]] = c[h - 1]
  BY DEF ChainsOfHeight
<1>2. {j \in DOMAIN c : j <= k} = 0..k
  BY <1>1
<1>3. d = [h \in 0..k |-> c[h]]
  BY <1>2
<1>4. d \in [0..k -> Block] /\ d[0] = Genesis
  BY <1>1, <1>3
<1>5. \A h \in 1..k : Parent[d[h]] = d[h - 1]
  BY <1>1, <1>3
<1>. QED
  BY <1>4, <1>5 DEF ChainsOfHeight

\* The node's tip is the end of its chain.
LEMMA TipIsEnd ==
  ASSUME chain \in Chains
  PROVE  /\ TipHeight \in 0..MaxHeight /\ DOMAIN chain = 0..TipHeight
         /\ chain \in ChainsOfHeight(TipHeight)
<1>1. PICK n \in 0..MaxHeight : chain \in ChainsOfHeight(n) /\ DOMAIN chain = 0..n
  BY ChainShape
<1>2. n \in DOMAIN chain /\ n + 1 \notin DOMAIN chain
  BY <1>1
<1>3. \A k \in DOMAIN chain : k + 1 \notin DOMAIN chain => k = n
  BY <1>1
<1>4. TipHeight = n
  BY <1>2, <1>3 DEF TipHeight
<1>. QED
  BY <1>1, <1>4

\* The staged rows, by height.
LEMMA StagedShape ==
  ASSUME Rows
  PROVE  /\ DOMAIN blocks = 0..rawHeight /\ rawHeight \in -1..MaxHeight
         /\ bestHeight \in -1..rawHeight /\ MaxHeight \in Nat
         /\ \A h \in DOMAIN blocks : blocks[h] \in Block
         /\ \A h \in 1..rawHeight : Parent[blocks[h]] = blocks[h - 1]
         /\ rawHeight >= 0 => blocks[0] = Genesis
<1>1. CASE rawHeight = -1
  BY <1>1, BlockTreeAssumption DEF Rows, NoRows
<1>2. CASE rawHeight # -1
  BY <1>2, BlockTreeAssumption DEF Rows, ChainsOfHeight
<1>. QED
  BY <1>1, <1>2

\* A set of naturals has a least element, and a bounded one a greatest.
LEMMA LeastElement ==
  ASSUME NEW T, T \subseteq Nat, T # {}
  PROVE  \E x \in T : \A y \in T : x <= y
<1>1. \E x \in T : \A y \in T : <<y, x>> \notin OpToRel(<, Nat)
  <2>. DEFINE R == OpToRel(<, Nat)
  <2>1. IsWellFoundedOn(R, Nat)
    BY NatLessThanWellFounded
  <2>. HIDE DEF R
  <2>2. \E x \in T : \A y \in T : <<y, x>> \notin R
    BY <2>1, WFMin
  <2>. QED
    BY <2>2 DEF R
<1>2. PICK x \in T : \A y \in T : <<y, x>> \notin OpToRel(<, Nat)
  BY <1>1
<1>3. \A y \in T : ~ (y < x)
  BY <1>2 DEF OpToRel
<1>4. x \in Nat /\ \A y \in T : y \in Nat
  OBVIOUS
<1>5. \A y \in T : x <= y
  <2>. HIDE <1>2
  <2>. QED BY <1>3, <1>4
<1>. QED
  BY <1>5

LEMMA GreatestElement ==
  ASSUME NEW n \in Nat, NEW T, T \subseteq 0..n, T # {}
  PROVE  \E x \in T : \A y \in T : y <= x
<1>. DEFINE U == {y \in 0..n : n - y \in T}
<1>1. U \subseteq Nat
  OBVIOUS
<1>2. PICK z \in T : z \in 0..n
  OBVIOUS
<1>3. n - z \in 0..n /\ n - (n - z) = z
  BY <1>2
<1>4. U # {}
  BY <1>2, <1>3
<1>5. \A y \in T : n - y \in U
  <2>1. \A y \in 0..n : n - y \in 0..n /\ n - (n - y) = y
    OBVIOUS
  <2>. QED
    BY <2>1
<1>6. \A u \in U : u \in 0..n /\ n - u \in T
  OBVIOUS
<1>. HIDE DEF U
<1>7. PICK u \in U : \A v \in U : u <= v
  BY <1>1, <1>4, LeastElement
<1>8. \A y \in T : u <= n - y
  BY <1>5, <1>7
<1>9. \A y \in T : y <= n - u
  BY <1>6, <1>8
<1>. QED
  BY <1>6, <1>9

\* The node answers with a block of its chain that changed the asset.
LEMMA AnswerIsBlock ==
  ASSUME NEW c \in Chains, NEW a \in Listed(c)
  PROVE  Answer(a, c) \in Block
<1>1. PICK n \in 0..MaxHeight : c \in ChainsOfHeight(n) /\ DOMAIN c = 0..n
  BY ChainShape
<1>. DEFINE H == ChangeHeights(a, c)
<1>2. H \subseteq 0..n /\ H # {} /\ n \in Nat
  BY <1>1 DEF ChangeHeights, Listed
<1>3. Answer(a, c) = c[CHOOSE h \in H : \A k \in H : k <= h]
  BY DEF Answer
<1>. HIDE DEF H
<1>4. \E h \in H : \A k \in H : k <= h
  BY <1>2, GreatestElement
<1>5. (CHOOSE h \in H : \A k \in H : k <= h) \in 0..n
  BY <1>2, <1>4
<1>. QED
  BY <1>1, <1>3, <1>5 DEF ChainsOfHeight

\* The fields of a job, and a change of one of them.
LEMMA JobFields ==
  /\ \A t, p, f : /\ JobRecord(t, p, f).todo = t /\ JobRecord(t, p, f).page = p
                  /\ JobRecord(t, p, f).answers = f
                  /\ JobRecord(t, p, f).todo # {} => JobRecord(t, p, f) # NoJob
                  /\ JobRecord(t, p, f).page # {} => JobRecord(t, p, f) # NoJob
  /\ NoJob = JobRecord({}, {}, [a \in {} |-> NoBlock])
  /\ \A names : NewJob(names) = JobRecord(names, {}, [a \in {} |-> NoBlock])
BY DEF JobRecord, NoJob, NewJob

LEMMA JobExcept ==
  ASSUME NEW t, NEW p, NEW f, NEW x, NEW j, j = JobRecord(t, p, f)
  PROVE  /\ [j EXCEPT !.answers = x] = JobRecord(t, p, x)
         /\ [j EXCEPT !.page = x] = JobRecord(t, x, f)
BY DEF JobRecord

\* A page is done when its names have left the queue.
LEMMA PageDone ==
  ASSUME AssetRows, DeletePage
  PROVE  job' = JobRecord(job.todo, {}, job.answers)
<1>. DEFINE t == job.todo
            p == job.page
            f == job.answers
<1>1. job = JobRecord(t, p, f)
  BY DEF AssetRows
<1>. HIDE DEF t, p, f
<1>2. [job EXCEPT !.page = {}] = JobRecord(t, {}, f)
  BY <1>1, JobExcept
<1>. QED
  BY <1>2 DEF DeletePage, t, f

-----------------------------------------------------------------------------
LEMMA InitQueue == Init => QIInv
<1>. SUFFICES ASSUME Init PROVE QIInv
  OBVIOUS
<1>1. Rows
  BY BlockTreeAssumption DEF Init, Rows
<1>2. AssetRows
  <2>1. /\ job = JobRecord(job.todo, job.page, job.answers)
        /\ job.todo = {} /\ job.page = {} /\ DOMAIN job.answers = {}
    BY JobFields DEF Init
  <2>. QED
    BY <2>1 DEF Init, AssetRows
<1>3. CycleRows
  <2>1. offset \in Nat /\ target \in 0..MaxHeight
    BY BlockTreeAssumption DEF Init
  <2>. QED
    BY <2>1 DEF Init, CycleRows
<1>4. Working
  BY DEF Init, Working, Idle
<1>. QED
  BY <1>1, <1>2, <1>3, <1>4 DEF QIInv

\* The node's steps move its chain only.
LEMMA NodeQueue == ASSUME QIInv, Mine \/ Reorganise PROVE QIInv'
BY DEF Mine, Reorganise, QIInv, Rows, AssetRows, CycleRows, Working, Idle, PipelineDone,
       dbVars, assetVars, cycleVars, boundVars

\* What a page of the bootstrap has is finite.
LEMMA BootPageSmall == BootPage \subseteq Listed(chain) /\ Cardinality(BootPage) \in Nat
<1>1. BootPage \subseteq Listed(chain) /\ BootPage \subseteq Asset
  BY DEF BootPage, Listed
<1>2. IsFiniteSet(BootPage)
  BY <1>1, AssetAssumption, FS_Subset
<1>. QED
  BY <1>1, <1>2, FS_CardinalityType

LEMMA BootQueue == ASSUME QIInv, StartProcess \/ LoadBootPage \/ BootFault PROVE QIInv'
<1>1. CASE StartProcess
  BY <1>1 DEF StartProcess, QIInv, Rows, AssetRows, CycleRows, Working, Idle, PipelineDone,
       dbVars, assetVars, cycleVars, boundVars
<1>2. CASE BootFault
  BY <1>2 DEF BootFault, QIInv, Rows, AssetRows, CycleRows, Working, Idle, PipelineDone,
       dbVars, assetVars, cycleVars, boundVars
<1>3. CASE LoadBootPage
  <2>1. Rows' /\ Working'
    BY <1>3 DEF LoadBootPage, QIInv, Rows, Working, Idle, PipelineDone, dbVars, boundVars
  <2>2. offset' \in Nat
    BY <1>3, BootPageSmall DEF LoadBootPage, QIInv, CycleRows
  <2>3. CycleRows'
    BY <1>3, <2>2 DEF LoadBootPage, QIInv, CycleRows
  <2>4. BootPage \subseteq Asset /\ \A a \in BootPage : Answer(a, chain) \in Block
    BY BootPageSmall, AnswerIsBlock DEF QIInv, Rows, Listed
  <2>5. AssetRows'
    BY <1>3, <2>4 DEF LoadBootPage, QIInv, AssetRows
  <2>. QED
    BY <2>1, <2>3, <2>5 DEF QIInv
<1>. QED
  BY <1>1, <1>2, <1>3

\* A cycle works for the node's tip, which is not below what is staged.
LEMMA StartCycleQueue == ASSUME QIInv, StartCycle PROVE QIInv'
<1>1. TipHeight \in 0..MaxHeight /\ DOMAIN chain = 0..TipHeight
  BY TipIsEnd DEF QIInv, Rows
<1>2. rawHeight <= TipHeight
  BY <1>1, StagedShape DEF StartCycle, OnNodeChain, QIInv
<1>. QED
  BY <1>1, <1>2 DEF StartCycle, BeginPipeline, QIInv, Rows, AssetRows, CycleRows, Working, Idle,
       PipelineDone, dbVars, assetVars, boundVars

LEMMA AfterRefreshQueue == ASSUME QIInv, AfterRefresh \/ EndCycle PROVE QIInv'
BY DEF AfterRefresh, EndCycle, BeginPipeline, QIInv, Rows, AssetRows, CycleRows, Working, Idle,
       PipelineDone, dbVars, assetVars, boundVars

LEMMA RollbackQueue ==
  ASSUME QIInv, NEW ancestor \in -1..MaxHeight, RollbackTo(ancestor)
  PROVE  QIInv'
<1>1. /\ phase = "poll" /\ rawHeight >= 0 /\ ancestor \in -1..rawHeight
      /\ ancestor >= 0 => OnNodeChain(ancestor)
      /\ blocks' = [h \in {k \in DOMAIN blocks : k <= ancestor} |-> blocks[h]]
      /\ rawHeight' = ancestor
      /\ bestHeight' = IF bestHeight <= ancestor THEN bestHeight ELSE ancestor
      /\ batches' = {r \in batches : r.last <= ancestor}
      /\ transferred' = TransfersAfter(ancestor)
      /\ queue' = Requeued(ancestor)
      /\ directory' = [a \in DOMAIN directory \ Affected(ancestor) |-> directory[a]]
      /\ raced' = raced \ Affected(ancestor)
      /\ ready' = FALSE /\ target' = TipHeight
      /\ phase' = "refresh" /\ job' = NewJob(Affected(ancestor))
      /\ UNCHANGED <<chain, offset, worker, aborted, drainFailed>>
  BY DEF RollbackTo
<1>2. TipHeight \in 0..MaxHeight /\ DOMAIN chain = 0..TipHeight
  BY TipIsEnd DEF QIInv, Rows
<1>3. ancestor <= TipHeight
  BY <1>1, <1>2, StagedShape DEF OnNodeChain, QIInv
<1>4. /\ DOMAIN blocks = 0..rawHeight /\ rawHeight \in -1..MaxHeight
      /\ bestHeight \in -1..rawHeight /\ MaxHeight \in Nat
      /\ \A h \in DOMAIN blocks : blocks[h] \in Block
  BY StagedShape DEF QIInv
<1>5. Affected(ancestor) \subseteq Asset
  BY <1>4, AssetAssumption DEF Affected, QIInv, Rows
<1>6. IF ancestor = -1 THEN blocks' = NoRows ELSE blocks' \in ChainsOfHeight(ancestor)
  <2>1. CASE ancestor = -1
    <3>1. {k \in DOMAIN blocks : k <= ancestor} = {}
      BY <1>4, <2>1
    <3>. QED
      BY <1>1, <2>1, <3>1 DEF NoRows
  <2>2. CASE ancestor # -1
    <3>1. ancestor \in 0..rawHeight /\ blocks \in ChainsOfHeight(rawHeight) /\ rawHeight \in Nat
      BY <1>1, <1>4, <2>2 DEF QIInv, Rows
    <3>. QED
      BY <1>1, <2>2, <3>1, Prefix
  <2>. QED
    BY <2>1, <2>2
<1>7. batches' \subseteq RangesWithin(0, ancestor)
  BY <1>1, <1>4 DEF QIInv, Rows, RangesWithin
<1>8. transferred' \subseteq 0..ancestor
  <2>1. \A h \in transferred : h \in 0..rawHeight
    BY DEF QIInv, Rows
  <2>2. transferred' = {h \in transferred : h <= ancestor}
    BY <1>1 DEF TransfersAfter
  <2>3. \A h \in transferred : h <= ancestor => h \in 0..ancestor
    BY <1>1, <1>4, <2>1
  <2>. QED
    BY <2>2, <2>3
<1>9. Rows'
  BY <1>1, <1>4, <1>6, <1>7, <1>8 DEF QIInv, Rows
<1>10. AssetRows'
  <2>1. /\ DOMAIN queue' \subseteq Asset /\ \A a \in DOMAIN queue' : queue'[a] \in -1..MaxHeight
        /\ raced' \subseteq Asset
    BY <1>1, <1>4, <1>5 DEF QIInv, AssetRows, Requeued
  <2>2. DOMAIN directory' \subseteq Asset /\ \A a \in DOMAIN directory' : directory'[a] \in Block
    BY <1>1 DEF QIInv, AssetRows
  <2>3. /\ job' = JobRecord(job'.todo, job'.page, job'.answers)
        /\ job'.todo = Affected(ancestor) /\ job'.page = {} /\ DOMAIN job'.answers = {}
    BY <1>1, JobFields
  <2>. QED
    BY <1>5, <2>1, <2>2, <2>3 DEF AssetRows
<1>11. CycleRows' /\ Working'
  BY <1>1, <1>2, <1>3 DEF QIInv, CycleRows, Working
<1>. QED
  BY <1>9, <1>10, <1>11 DEF QIInv

LEMMA StageQueue == ASSUME QIInv, Stage PROVE QIInv'
<1>1. /\ phase = "pipeline" /\ rawHeight < target /\ NextIsLinked
      /\ rawHeight' = rawHeight + 1
      /\ blocks' = [h \in 0..rawHeight' |-> IF h = rawHeight' THEN chain[h] ELSE blocks[h]]
      /\ UNCHANGED <<chain, bestHeight, batches, transferred, assetVars, cycleVars>>
  BY DEF Stage, PipelineRuns
<1>2. /\ DOMAIN blocks = 0..rawHeight /\ rawHeight \in -1..MaxHeight
      /\ bestHeight \in -1..rawHeight /\ MaxHeight \in Nat
      /\ \A h \in DOMAIN blocks : blocks[h] \in Block
      /\ \A h \in 1..rawHeight : Parent[blocks[h]] = blocks[h - 1]
      /\ rawHeight >= 0 => blocks[0] = Genesis
  BY StagedShape DEF QIInv
<1>3. target \in 0..MaxHeight
  BY DEF QIInv, CycleRows
<1>4. PICK n \in 0..MaxHeight : chain \in ChainsOfHeight(n) /\ DOMAIN chain = 0..n
  BY ChainShape DEF QIInv, Rows
<1>5. rawHeight + 1 \in 0..n
  BY <1>1, <1>4 DEF NextIsLinked
<1>6. \A h \in 0..rawHeight + 1 : blocks'[h] = IF h = rawHeight + 1 THEN chain[h] ELSE blocks[h]
  BY <1>1
<1>7. blocks' \in [0..rawHeight + 1 -> Block]
  <2>1. \A h \in 0..rawHeight + 1 : h = rawHeight + 1 \/ h \in 0..rawHeight
    BY <1>2
  <2>2. chain[rawHeight + 1] \in Block
    BY <1>4, <1>5 DEF ChainsOfHeight
  <2>. QED
    BY <1>1, <1>2, <2>1, <2>2
<1>8. blocks'[0] = Genesis
  BY <1>2, <1>4, <1>6 DEF ChainsOfHeight
<1>9. ASSUME NEW h \in 1..rawHeight + 1 PROVE Parent[blocks'[h]] = blocks'[h - 1]
  <2>1. CASE h = rawHeight + 1
    <3>1. h - 1 = rawHeight /\ rawHeight >= 0 /\ rawHeight \in 0..rawHeight + 1
      BY <1>2, <2>1
    <3>2. rawHeight # rawHeight + 1
      BY <1>2
    <3>3. blocks'[h] = chain[rawHeight + 1] /\ blocks'[h - 1] = blocks[rawHeight]
      BY <1>6, <2>1, <3>1, <3>2
    <3>. QED
      BY <1>1, <3>1, <3>3 DEF NextIsLinked
  <2>2. CASE h # rawHeight + 1
    <3>1. /\ h \in 1..rawHeight /\ h - 1 \in 0..rawHeight + 1 /\ h - 1 # rawHeight + 1
          /\ h \in 0..rawHeight + 1
      BY <1>2, <2>2
    <3>. QED
      BY <1>2, <1>6, <2>2, <3>1
  <2>. QED
    BY <2>1, <2>2
<1>10. blocks' \in ChainsOfHeight(rawHeight')
  BY <1>1, <1>7, <1>8, <1>9 DEF ChainsOfHeight
<1>11. rawHeight' \in 0..MaxHeight /\ rawHeight' <= target /\ bestHeight' <= rawHeight'
  BY <1>1, <1>2, <1>3
<1>12. batches' \subseteq RangesWithin(0, rawHeight') /\ transferred' \subseteq 0..rawHeight'
  <2>1. batches' = batches /\ transferred' = transferred
    BY <1>1
  <2>2. batches \subseteq RangesWithin(0, rawHeight) /\ transferred \subseteq 0..rawHeight
    BY DEF QIInv, Rows
  <2>3. \A h \in 0..rawHeight : h \in 0..rawHeight'
    BY <1>1, <1>2
  <2>. QED
    BY <2>1, <2>2, <2>3 DEF RangesWithin
<1>13. Rows'
  <2>1. chain' = chain /\ bestHeight' = bestHeight /\ rawHeight' # -1
    BY <1>1, <1>11
  <2>. QED
    BY <1>2, <1>10, <1>11, <1>12, <2>1 DEF QIInv, Rows
<1>14. AssetRows' /\ CycleRows'
  BY <1>1 DEF QIInv, AssetRows, CycleRows, assetVars, cycleVars
<1>15. Working'
  BY <1>1, <1>11 DEF QIInv, Working, Idle, PipelineDone, assetVars, cycleVars
<1>. QED
  BY <1>13, <1>14, <1>15 DEF QIInv

LEMMA PrepareQueue == ASSUME QIInv, Prepare PROVE QIInv'
<1>1. PICK r \in RangesWithin(0, rawHeight) :
        /\ batches' = batches \cup {r}
        /\ transferred' = transferred \cup Heights(r)
        /\ UNCHANGED <<chain, blocks, rawHeight, bestHeight, assetVars, cycleVars>>
  BY DEF Prepare
<1>2. Heights(r) \subseteq 0..rawHeight
  BY StagedShape DEF QIInv, Heights, RangesWithin
<1>3. Rows'
  BY <1>1, <1>2 DEF QIInv, Rows
<1>. QED
  BY <1>1, <1>3 DEF QIInv, AssetRows, CycleRows, Working, Idle, PipelineDone, assetVars, cycleVars

\* The names a batch has outputs of.
LEMMA NamesAreAssets ==
  ASSUME Rows, NEW r \in batches
  PROVE  /\ NamesOf(r) \subseteq Asset /\ r.first \in 0..rawHeight /\ r.last \in 0..rawHeight
         /\ r.first <= r.last
<1>1. /\ DOMAIN blocks = 0..rawHeight /\ rawHeight \in -1..MaxHeight
      /\ \A h \in DOMAIN blocks : blocks[h] \in Block
  BY StagedShape
<1>2. r.first \in 0..rawHeight /\ r.last \in 0..rawHeight /\ r.first <= r.last
  BY DEF Rows, RangesWithin
<1>3. \A h \in Heights(r) : blocks[h] \in Block
  BY <1>1, <1>2 DEF Heights
<1>4. \A b \in Block : TouchedIn[b] \subseteq Asset
  BY AssetAssumption
<1>. QED
  BY <1>2, <1>3, <1>4 DEF NamesOf

\* A pipeline at its target has nothing left to reduce.
LEMMA ReduceQueue == ASSUME QIInv, Reduce PROVE QIInv'
<1>1. PICK r \in batches :
        /\ r.first = bestHeight + 1
        /\ bestHeight' = r.last /\ batches' = batches \ {r}
        /\ queue' = QueuedAgain(NamesOf(r), r.last)
        /\ raced' = raced \cup (NamesOf(r) \cap job.page)
        /\ UNCHANGED <<chain, blocks, rawHeight, transferred, directory, job, cycleVars>>
  BY DEF Reduce
<1>2. phase = "pipeline" /\ ~ aborted
  BY DEF Reduce, PipelineRuns
<1>3. /\ NamesOf(r) \subseteq Asset /\ r.first \in 0..rawHeight /\ r.last \in 0..rawHeight
      /\ r.first <= r.last /\ rawHeight \in -1..MaxHeight /\ bestHeight \in -1..rawHeight
  BY NamesAreAssets, StagedShape DEF QIInv
<1>4. Rows'
  BY <1>1, <1>3 DEF QIInv, Rows
<1>5. /\ DOMAIN queue' \subseteq Asset /\ \A a \in DOMAIN queue' : queue'[a] \in -1..MaxHeight
      /\ raced' \subseteq Asset
  <2>1. r.last \in -1..MaxHeight
    BY <1>3, BlockTreeAssumption
  <2>. QED
    BY <1>1, <1>3, <2>1 DEF QIInv, AssetRows, QueuedAgain
<1>6. AssetRows'
  BY <1>1, <1>5 DEF QIInv, AssetRows
<1>7. rawHeight <= target /\ ~ ready /\ target \in 0..MaxHeight
  BY <1>2 DEF QIInv, Working, CycleRows
<1>8. ~ PipelineDone
  BY <1>1, <1>3, <1>7 DEF PipelineDone
<1>9. worker \notin {"final", "ended"} \/ drainFailed
  BY <1>2, <1>8 DEF QIInv, Working
<1>10. CycleRows' /\ Working'
  BY <1>1, <1>2, <1>7, <1>9 DEF QIInv, CycleRows, Working, Idle, cycleVars
<1>. QED
  BY <1>4, <1>6, <1>10 DEF QIInv

LEMMA FailsQueue == ASSUME QIInv, PipelineFails PROVE QIInv'
BY DEF PipelineFails, PipelineRuns, QIInv, Rows, AssetRows, CycleRows, Working, Idle,
       PipelineDone, dbVars, assetVars

LEMMA WorkerQueue == ASSUME QIInv, StartDrain \/ WorkerEnds PROVE QIInv'
<1>1. CASE StartDrain
  <2>1. PICK names \in Oldest : job' = NewJob(names)
    BY <1>1 DEF StartDrain
  <2>2. /\ phase = "pipeline" /\ worker \in {"loop", "final"}
        /\ UNCHANGED <<chain, dbVars, queue, directory, raced, cycleVars>>
    BY <1>1 DEF StartDrain
  <2>3. names \subseteq Asset
    BY DEF Oldest, Due, QIInv, AssetRows
  <2>4. /\ job' = JobRecord(job'.todo, job'.page, job'.answers)
        /\ job'.todo = names /\ job'.page = {} /\ DOMAIN job'.answers = {}
    BY <2>1, JobFields
  <2>5. AssetRows'
    BY <2>2, <2>3, <2>4 DEF QIInv, AssetRows
  <2>. QED
    BY <2>2, <2>5 DEF QIInv, Rows, CycleRows, Working, PipelineDone, dbVars, cycleVars
<1>2. CASE WorkerEnds
  <2>1. Rows' /\ AssetRows'
    BY <1>2 DEF WorkerEnds, QIInv, Rows, AssetRows, dbVars, assetVars
  <2>2. CycleRows'
    BY <1>2 DEF WorkerEnds, QIInv, CycleRows
  <2>3. Working'
    BY <1>2 DEF WorkerEnds, QIInv, Working, Idle, PipelineDone, Due, dbVars, assetVars
  <2>. QED
    BY <2>1, <2>2, <2>3 DEF QIInv
<1>. QED
  BY <1>1, <1>2

\* Only a refresh or a worker that has not ended has a job.
LEMMA Asking ==
  ASSUME QIInv, ~ Idle
  PROVE  phase \in {"refresh", "pipeline"} /\ ~ (phase = "pipeline" /\ worker = "ended")
BY DEF QIInv, Working

LEMMA AskQueue == ASSUME QIInv, AskPage PROVE QIInv'
<1>1. /\ job.page = {} /\ job.todo # {}
      /\ UNCHANGED <<chain, dbVars, queue, directory, cycleVars>>
  BY DEF AskPage
<1>2. PICK page \in SUBSET job.todo :
        /\ job' = JobRecord(job.todo \ page, page,
                            [a \in page \cap Listed(chain) |-> Answer(a, chain)])
        /\ raced' = raced \ page
  BY DEF AskPage, JobRecord
<1>3. ~ Idle
  BY <1>1, JobFields DEF QIInv, AssetRows, Idle
<1>4. /\ job'.todo = job.todo \ page /\ job'.page = page
      /\ job'.answers = [a \in page \cap Listed(chain) |-> Answer(a, chain)]
      /\ job' = JobRecord(job'.todo, job'.page, job'.answers)
  BY <1>2, JobFields
<1>5. \A a \in Listed(chain) : Answer(a, chain) \in Block
  BY AnswerIsBlock DEF QIInv, Rows
<1>6. AssetRows'
  BY <1>1, <1>2, <1>4, <1>5 DEF QIInv, AssetRows
<1>7. phase \in {"refresh", "pipeline"} /\ ~ (phase = "pipeline" /\ worker = "ended")
  BY <1>3, Asking
<1>. QED
  BY <1>1, <1>6, <1>7 DEF QIInv, Rows, CycleRows, Working, Idle, PipelineDone, dbVars, cycleVars

LEMMA UpsertQueue == ASSUME QIInv, UpsertAsset PROVE QIInv'
<1>1. PICK a \in DOMAIN job.answers :
        /\ directory' = [b \in DOMAIN directory \cup {a} |->
                           IF b = a THEN job.answers[a] ELSE directory[b]]
        /\ job' = [job EXCEPT !.answers = [b \in DOMAIN job.answers \ {a} |-> job.answers[b]]]
        /\ UNCHANGED <<chain, dbVars, queue, raced, cycleVars>>
  BY DEF UpsertAsset
<1>2. job = JobRecord(job.todo, job.page, job.answers) /\ a \in job.page
  BY DEF QIInv, AssetRows
<1>. DEFINE rest == [b \in DOMAIN job.answers \ {a} |-> job.answers[b]]
<1>3. job' = JobRecord(job.todo, job.page, rest)
  BY <1>1, <1>2, JobExcept
<1>4. /\ job'.todo = job.todo /\ job'.page = job.page /\ job'.answers = rest
      /\ job' = JobRecord(job'.todo, job'.page, job'.answers)
  BY <1>3, JobFields
<1>5. AssetRows'
  BY <1>1, <1>4 DEF QIInv, AssetRows
<1>6. ~ Idle
  BY <1>2, JobFields DEF Idle
<1>7. phase \in {"refresh", "pipeline"} /\ ~ (phase = "pipeline" /\ worker = "ended")
  BY <1>6, Asking
<1>. QED
  BY <1>1, <1>5, <1>7 DEF QIInv, Rows, CycleRows, Working, Idle, PipelineDone, dbVars, cycleVars

LEMMA DeleteQueue == ASSUME QIInv, DeletePage PROVE QIInv'
<1>1. /\ job.page # {} /\ job' = [job EXCEPT !.page = {}]
      /\ queue' = [a \in DOMAIN queue \ job.page |-> queue[a]]
      /\ UNCHANGED <<chain, dbVars, directory, raced, cycleVars>>
  BY DEF DeletePage
<1>2. job = JobRecord(job.todo, job.page, job.answers)
  BY DEF QIInv, AssetRows
<1>3. job' = JobRecord(job.todo, {}, job.answers)
  BY PageDone DEF QIInv
<1>4. /\ job'.todo = job.todo /\ job'.page = {} /\ job'.answers = job.answers
      /\ job' = JobRecord(job'.todo, job'.page, job'.answers)
  BY <1>3, JobFields
<1>5. DOMAIN job.answers = {}
  BY DEF DeletePage
<1>6. AssetRows'
  BY <1>1, <1>4, <1>5 DEF QIInv, AssetRows
<1>7. ~ Idle
  BY <1>1, <1>2, JobFields DEF Idle
<1>8. phase \in {"refresh", "pipeline"} /\ ~ (phase = "pipeline" /\ worker = "ended")
  BY <1>7, Asking
<1>. QED
  BY <1>1, <1>6, <1>8 DEF QIInv, Rows, CycleRows, Working, Idle, PipelineDone, dbVars, cycleVars

\* A job that is dropped leaves the queue as it is.
LEMMA DroppedJob ==
  ASSUME QIInv, job' = NoJob, raced' = raced \ job.page, UNCHANGED <<queue, directory>>
  PROVE  AssetRows'
<1>1. /\ job' = JobRecord(job'.todo, job'.page, job'.answers)
      /\ job'.todo = {} /\ job'.page = {} /\ DOMAIN job'.answers = {}
  BY JobFields
<1>. QED
  BY <1>1 DEF QIInv, AssetRows

LEMMA BreakQueue == ASSUME QIInv, RefreshFault \/ Crash PROVE QIInv'
<1>1. AssetRows'
  BY DroppedJob DEF RefreshFault, Crash
<1>2. Rows'
  BY DEF RefreshFault, Crash, QIInv, Rows, dbVars
<1>3. CASE RefreshFault
  <2>1. phase \in {"refresh", "pipeline"} /\ ~ (phase = "pipeline" /\ worker = "ended")
    BY <1>3, Asking DEF RefreshFault
  <2>2. CycleRows'
    BY <1>3 DEF RefreshFault, QIInv, CycleRows
  <2>3. Working'
    BY <1>3, <2>1 DEF RefreshFault, QIInv, CycleRows, Working, Idle, PipelineDone, dbVars
  <2>. QED
    BY <1>1, <1>2, <2>2, <2>3 DEF QIInv
<1>4. CASE Crash
  BY <1>1, <1>2, <1>4 DEF Crash, QIInv, CycleRows, Working, Idle
<1>. QED
  BY <1>3, <1>4

LEMMA StutterQueue == ASSUME QIInv, UNCHANGED vars PROVE QIInv'
BY DEF vars, QIInv, Rows, AssetRows, CycleRows, Working, Idle, PipelineDone, dbVars, assetVars,
       cycleVars, boundVars

LEMMA QueueStep == QIInv /\ [Next]_vars => QIInv'
BY NodeQueue, BootQueue, StartCycleQueue, AfterRefreshQueue, RollbackQueue, StageQueue,
   PrepareQueue, ReduceQueue, FailsQueue, WorkerQueue, AskQueue, UpsertQueue, DeleteQueue,
   BreakQueue, StutterQueue
DEF Next, Cycle, Pipeline, Refresh, Environment

\* What the rows, the queue and the cycle look like in every state.
THEOREM QueueInvariant == Spec => []QIInv
BY InitQueue, QueueStep, PTL DEF Spec

\* Every table and register keeps its type, and rows stay below the staged tip: what
\* rollbackTo, the reducer and the asset worker write fits together.
THEOREM QueueTypeCorrect == Spec => []TypeOK
<1>1. ASSUME QIInv PROVE TypeOK
  <2>1. /\ DOMAIN blocks = 0..rawHeight /\ rawHeight \in -1..MaxHeight
        /\ bestHeight \in -1..rawHeight /\ MaxHeight \in Nat
    BY <1>1, StagedShape DEF QIInv
  <2>2. blocks \in Chains \cup {NoRows}
    BY <1>1, <2>1 DEF QIInv, Rows, Chains
  <2>3. batches \subseteq RangesWithin(0, MaxHeight)
    BY <1>1, <2>1 DEF QIInv, Rows, RangesWithin
  <2>4. transferred \subseteq DOMAIN blocks
    BY <1>1, <2>1 DEF QIInv, Rows
  <2>. QED
    BY <1>1, <2>1, <2>2, <2>3, <2>4 DEF QIInv, Rows, AssetRows, CycleRows, TypeOK
<1>. QED
  BY QueueInvariant, <1>1, PTL

\* When a cycle reports "ready" and no request of its last drain failed, nothing is
\* left in asset_sync_queue: the asset worker goes on after the pipeline is done.
THEOREM ReadyIsDrained == Spec => []ReadyMeansDrained
<1>1. QIInv => ReadyMeansDrained
  BY DEF QIInv, Working, ReadyMeansDrained
<1>. QED
  BY QueueInvariant, <1>1, PTL

-----------------------------------------------------------------------------
\* Chains that differ at a height differ above it.
LEMMA ForksStay ==
  ASSUME NEW n \in Nat, NEW m \in Nat, NEW c \in ChainsOfHeight(n), NEW d \in ChainsOfHeight(m),
         NEW f \in 0..n, f <= m, c[f] # d[f], NEW h \in f..n, h <= m
  PROVE  c[h] # d[h]
<1>. DEFINE T == {x \in f..h : c[x] = d[x]}
<1>1. SUFFICES ASSUME c[h] = d[h] PROVE FALSE
  OBVIOUS
<1>2. T \subseteq Nat /\ h \in T
  BY <1>1
<1>3. \A x \in T : x \in f..h /\ c[x] = d[x]
  OBVIOUS
<1>4. \A x \in f..h : c[x] = d[x] => x \in T
  OBVIOUS
<1>. HIDE DEF T
<1>5. PICK x \in T : \A y \in T : x <= y
  BY <1>2, LeastElement
<1>6. x \in f..h /\ c[x] = d[x] /\ x # f
  BY <1>3
<1>7. x \in 1..n /\ x \in 1..m /\ x - 1 \in f..h /\ ~ (x <= x - 1)
  BY <1>6
<1>8. Parent[c[x]] = c[x - 1] /\ Parent[d[x]] = d[x - 1]
  BY <1>7 DEF ChainsOfHeight
<1>. QED
  BY <1>4, <1>5, <1>6, <1>7, <1>8

\* Chains that agree at a height agree below it.
LEMMA AgreeBelow ==
  ASSUME NEW c \in Chains, NEW d \in Chains,
         NEW h \in DOMAIN c \cap DOMAIN d, c[h] = d[h], NEW k \in 0..h
  PROVE  k \in DOMAIN c \cap DOMAIN d /\ c[k] = d[k]
<1>1. PICK n \in 0..MaxHeight : c \in ChainsOfHeight(n) /\ DOMAIN c = 0..n
  BY ChainShape
<1>2. PICK m \in 0..MaxHeight : d \in ChainsOfHeight(m) /\ DOMAIN d = 0..m
  BY ChainShape
<1>3. n \in Nat /\ m \in Nat /\ h \in 0..n /\ h \in 0..m
  BY <1>1, <1>2
<1>4. k \in 0..n /\ k \in 0..m /\ k <= m /\ h \in k..n /\ h <= m
  BY <1>3
<1>5. c[k] # d[k] => c[h] # d[h]
  BY <1>1, <1>2, <1>3, <1>4, ForksStay
<1>. QED
  BY <1>1, <1>2, <1>4, <1>5

LEMMA StagedIsChain ==
  ASSUME Rows, DOMAIN blocks # {}
  PROVE  blocks \in Chains
<1>1. DOMAIN blocks = 0..rawHeight /\ rawHeight \in -1..MaxHeight
  BY StagedShape
<1>2. rawHeight \in 0..MaxHeight /\ blocks \in ChainsOfHeight(rawHeight)
  BY <1>1 DEF Rows
<1>. QED
  BY <1>2 DEF Chains

\* Below a staged block of the node's chain every staged block is on it.
LEMMA BelowIsOnChain ==
  ASSUME Rows, NEW h \in DOMAIN blocks, OnNodeChain(h), NEW k \in 0..h
  PROVE  k \in DOMAIN blocks /\ OnNodeChain(k)
<1>1. blocks \in Chains /\ chain \in Chains
  BY StagedIsChain DEF Rows
<1>2. h \in DOMAIN chain \cap DOMAIN blocks /\ chain[h] = blocks[h]
  BY DEF OnNodeChain
<1>3. k \in DOMAIN chain \cap DOMAIN blocks /\ chain[k] = blocks[k]
  BY <1>1, <1>2, AgreeBelow
<1>. QED
  BY <1>3 DEF OnNodeChain

\* With all staged blocks on the node's chain there is no fork, and conversely a fork
\* takes the staged tip off the chain.
LEMMA TipOnChain ==
  ASSUME Rows, rawHeight >= 0, OnNodeChain(rawHeight)
  PROVE  ~ Forked /\ \A h \in DOMAIN blocks : OnNodeChain(h)
<1>1. DOMAIN blocks = 0..rawHeight /\ rawHeight \in DOMAIN blocks
  BY StagedShape
<1>2. \A h \in DOMAIN blocks : OnNodeChain(h)
  BY <1>1, BelowIsOnChain
<1>. QED
  BY <1>2 DEF Forked, OnNodeChain

\* The node mines on its tip.
LEMMA MinedTip ==
  ASSUME QIInv, Mine
  PROVE  /\ TipHeight \in 0..MaxHeight /\ DOMAIN chain = 0..TipHeight /\ chain' \in Chains
         /\ DOMAIN chain' = DOMAIN chain \cup {TipHeight + 1}
         /\ \A k \in DOMAIN chain : chain'[k] = chain[k]
<1>1. PICK b \in Block :
        chain' \in Chains /\ chain' = [k \in 0..TipHeight + 1 |->
                                         IF k \in DOMAIN chain THEN chain[k] ELSE b]
  BY DEF Mine
<1>2. TipHeight \in 0..MaxHeight /\ DOMAIN chain = 0..TipHeight
  BY TipIsEnd DEF QIInv, Rows
<1>3. 0..TipHeight + 1 = 0..TipHeight \cup {TipHeight + 1}
  BY <1>2
<1>. QED
  BY <1>1, <1>2, <1>3

\* A block the node mines changes nothing about the staged ones.
LEMMA MinedOnChain ==
  ASSUME LIInv, Mine, NEW h \in DOMAIN blocks
  PROVE  OnNodeChain(h)' <=> OnNodeChain(h)
<1>1. /\ TipHeight \in 0..MaxHeight /\ DOMAIN chain = 0..TipHeight /\ chain' \in Chains
      /\ DOMAIN chain' = DOMAIN chain \cup {TipHeight + 1}
      /\ \A k \in DOMAIN chain : chain'[k] = chain[k]
  BY MinedTip DEF LIInv
<1>2. blocks' = blocks
  BY DEF Mine, dbVars
<1>3. OnNodeChain(h) => OnNodeChain(h)'
  BY <1>1, <1>2 DEF OnNodeChain
<1>4. ASSUME OnNodeChain(h)' PROVE OnNodeChain(h)
  <2>1. h \in DOMAIN chain' /\ chain'[h] = blocks[h]
    BY <1>2, <1>4 DEF OnNodeChain
  <2>2. CASE h \in DOMAIN chain
    BY <1>1, <2>1, <2>2 DEF OnNodeChain
  <2>3. CASE h \notin DOMAIN chain
    <3>1. Forked
      BY <2>3 DEF LIInv, Remembered, OnOrForked, OnNodeChain
    <3>2. PICK f \in DOMAIN chain \cap DOMAIN blocks : chain[f] # blocks[f]
      BY <3>1 DEF Forked
    <3>3. h = TipHeight + 1
      BY <1>1, <2>1, <2>3
    <3>4. f \in 0..h
      BY <1>1, <3>2, <3>3
    <3>5. h \in DOMAIN chain' \cap DOMAIN blocks /\ chain' \in Chains /\ blocks \in Chains
      BY <1>1, <2>1, StagedIsChain DEF LIInv, QIInv
    <3>6. chain'[f] = blocks[f]
      <4>. DEFINE c == chain'
      <4>1. c \in Chains /\ h \in DOMAIN c \cap DOMAIN blocks /\ c[h] = blocks[h]
        BY <2>1, <3>5
      <4>. HIDE DEF c
      <4>2. c[f] = blocks[f]
        BY <3>4, <3>5, <4>1, AgreeBelow
      <4>. QED
        BY <4>2 DEF c
    <3>. QED
      BY <1>1, <3>2, <3>6
  <2>. QED
    BY <2>2, <2>3
<1>. QED
  BY <1>3, <1>4

-----------------------------------------------------------------------------
\* Only a refresh or a pipeline asks.
LEMMA PageIsAsked ==
  ASSUME QIInv, job.page # {}
  PROVE  phase \in {"refresh", "pipeline"}
BY JobFields DEF QIInv, AssetRows, Working, Idle

\* Steps that leave rows, queue, directory and target alone, and ask for nothing new.
LEMMA QuietMemory ==
  ASSUME LIInv, UNCHANGED <<chain, blocks, bestHeight, queue, directory, target, reorgs>>,
         phase' \in {"refresh", "pipeline"} => phase \in {"refresh", "pipeline"},
         job' = job \/ (job'.page = {} /\ job'.todo \subseteq Wanted)
  PROVE  Remembered'
<1>1. \A h : OnNodeChain(h)' <=> OnNodeChain(h)
  BY DEF OnNodeChain
<1>2. Forked' <=> Forked
  BY DEF Forked
<1>3. \A a : ChangedBelow(a)' <=> ChangedBelow(a)
  BY DEF ChangedBelow
<1>4. Wanted' \subseteq Wanted
  BY DEF Wanted
<1>5. OnOrForked' /\ Listing'
  BY <1>1, <1>2 DEF LIInv, Remembered, OnOrForked, Listing
<1>6. WantedIsProcessed'
  BY <1>3, <1>4 DEF LIInv, Remembered, WantedIsProcessed
<1>7. Unanswered'
  <2>1. CASE job' = job
    BY <1>1, <1>2, <2>1 DEF LIInv, Remembered, Unanswered
  <2>2. CASE job'.page = {}
    BY <2>2 DEF Unanswered
  <2>. QED
    BY <2>1, <2>2
<1>. QED
  BY <1>5, <1>6, <1>7 DEF Remembered

LEMMA QuietSteps ==
  ASSUME LIInv,
         \/ StartProcess \/ BootFault \/ AfterRefresh \/ EndCycle \/ Prepare \/ PipelineFails
         \/ StartDrain \/ WorkerEnds \/ RefreshFault \/ Crash \/ UNCHANGED vars
  PROVE  Remembered'
<1>1. CASE StartDrain
  <2>1. PICK names \in Oldest : job' = NewJob(names)
    BY <1>1 DEF StartDrain
  <2>2. job'.page = {} /\ job'.todo \subseteq Wanted
    BY <2>1, JobFields DEF Oldest, Due, Wanted
  <2>3. /\ UNCHANGED <<chain, blocks, bestHeight, queue, directory, target, reorgs>>
        /\ phase' = phase
    BY <1>1 DEF StartDrain, dbVars, cycleVars, boundVars
  <2>. QED
    BY <2>2, <2>3, QuietMemory
<1>2. CASE RefreshFault \/ Crash
  <2>1. job'.page = {} /\ job'.todo \subseteq Wanted
    BY <1>2, JobFields DEF RefreshFault, Crash
  <2>2. /\ UNCHANGED <<chain, blocks, bestHeight, queue, directory, target, reorgs>>
        /\ phase' \in {phase, "start"}
    BY <1>2 DEF RefreshFault, Crash, dbVars
  <2>. QED
    BY <2>1, <2>2, QuietMemory
<1>3. CASE \/ StartProcess \/ BootFault \/ AfterRefresh \/ EndCycle \/ Prepare
           \/ PipelineFails \/ WorkerEnds \/ UNCHANGED vars
  <2>1. UNCHANGED <<chain, blocks, bestHeight, queue, directory, target, reorgs, job>>
    BY <1>3 DEF StartProcess, BootFault, AfterRefresh, EndCycle, Prepare, PipelineFails,
                WorkerEnds, BeginPipeline, vars, dbVars, assetVars, cycleVars, boundVars
  <2>2. phase' \in {"refresh", "pipeline"} => phase \in {"refresh", "pipeline"}
    BY <1>3 DEF StartProcess, BootFault, AfterRefresh, EndCycle, Prepare, PipelineFails,
                WorkerEnds, BeginPipeline, vars, cycleVars
  <2>. QED
    BY <2>1, <2>2, QuietMemory
<1>. QED
  BY <1>1, <1>2, <1>3

LEMMA InitMemory == Init => Remembered
<1>. SUFFICES ASSUME Init PROVE Remembered
  OBVIOUS
<1>1. DOMAIN blocks = {} /\ DOMAIN queue = {} /\ job.todo = {} /\ job.page = {} /\ reorgs = 0
  BY JobFields DEF Init, NoRows
<1>2. OnOrForked
  BY <1>1, AssetAssumption DEF OnOrForked
<1>. QED
  BY <1>1, <1>2 DEF Remembered, WantedIsProcessed, Wanted, Unanswered, Listing

\* Before the node changes branch, an asset without an answer is in no staged block.
LEMMA MineMemory == ASSUME LIInv, Mine PROVE Remembered'
<1>1. /\ UNCHANGED <<dbVars, assetVars, cycleVars, boundVars>>
      /\ \A h \in DOMAIN blocks : OnNodeChain(h)' <=> OnNodeChain(h)
  BY MinedOnChain DEF Mine
<1>2. /\ TipHeight \in 0..MaxHeight /\ DOMAIN chain = 0..TipHeight
      /\ DOMAIN chain' = DOMAIN chain \cup {TipHeight + 1}
      /\ \A k \in DOMAIN chain : chain'[k] = chain[k]
  BY MinedTip DEF LIInv
<1>3. Forked => Forked'
  BY <1>1, <1>2 DEF Forked, dbVars
<1>4. OnOrForked' /\ Listing'
  BY <1>1, <1>3
  DEF LIInv, Remembered, OnOrForked, Listing, dbVars, assetVars, boundVars
<1>5. WantedIsProcessed'
  BY <1>1, <1>2
  DEF LIInv, Remembered, WantedIsProcessed, Wanted, ChangedBelow, dbVars, assetVars, cycleVars,
      boundVars
<1>6. Unanswered'
  <2>1. SUFFICES ASSUME NEW a \in job.page \ (DOMAIN job.answers \cup DOMAIN directory)
                 PROVE  /\ \A h \in DOMAIN blocks : OnNodeChain(h)' => a \notin ChangedIn[blocks[h]]
                        /\ Forked' \/ \A h \in DOMAIN chain' :
                                        h <= target => a \notin ChangedIn[chain'[h]]
    BY <1>1 DEF Unanswered, dbVars, assetVars, cycleVars
  <2>2. /\ \A h \in DOMAIN blocks : OnNodeChain(h) => a \notin ChangedIn[blocks[h]]
        /\ Forked \/ \A h \in DOMAIN chain : h <= target => a \notin ChangedIn[chain[h]]
    BY <2>1 DEF LIInv, Remembered, Unanswered
  <2>3. ASSUME ~ Forked PROVE ~ (TipHeight + 1 <= target)
    <3>1. SUFFICES ASSUME TipHeight + 1 <= target PROVE FALSE
      OBVIOUS
    <3>2. target \notin DOMAIN chain
      BY <1>2, <3>1 DEF LIInv, QIInv, CycleRows
    <3>3. phase \in {"refresh", "pipeline"} /\ a \in Wanted
      BY <2>1, PageIsAsked DEF LIInv, Wanted
    <3>4. ChangedBelow(a)
      BY <3>2, <3>3 DEF LIInv, Remembered, WantedIsProcessed
    <3>5. \A h \in DOMAIN blocks : OnNodeChain(h)
      BY <2>3 DEF LIInv, Remembered, OnOrForked
    <3>. QED
      BY <2>2, <3>4, <3>5 DEF ChangedBelow
  <2>. QED
    BY <1>1, <1>2, <1>3, <2>2, <2>3
<1>. QED
  BY <1>4, <1>5, <1>6 DEF Remembered

\* The one time the node changes branch, all staged blocks were on its chain.
LEMMA ReorganiseMemory == ASSUME LIInv, MaxReorgs <= 1, Reorganise PROVE Remembered'
<1>1. /\ reorgs = 0 /\ reorgs' = 1 /\ 1 <= MaxReorgs
  BY AssetAssumption DEF Reorganise, LIInv, Remembered, OnOrForked
<1>2. PICK c \in Chains : chain' = c /\ \E h \in DOMAIN chain \cap DOMAIN c : c[h] # chain[h]
  BY DEF Reorganise
<1>3. PICK f \in DOMAIN chain \cap DOMAIN c : c[f] # chain[f]
  BY <1>2
<1>4. UNCHANGED <<dbVars, assetVars, cycleVars>>
  BY DEF Reorganise
<1>5. \A h \in DOMAIN blocks : OnNodeChain(h)
  BY <1>1 DEF LIInv, Remembered, OnOrForked
<1>6. \A a \in Wanted : ChangedBelow(a)
  BY <1>1 DEF LIInv, Remembered, WantedIsProcessed
<1>7. Forked' \/ \A h \in DOMAIN blocks' : OnNodeChain(h)'
  <2>1. SUFFICES ASSUME ~ Forked', NEW h \in DOMAIN blocks PROVE h \in DOMAIN c /\ c[h] = blocks[h]
    BY <1>2, <1>4 DEF OnNodeChain, dbVars
  <2>2. \A k \in DOMAIN c \cap DOMAIN blocks : c[k] = blocks[k]
    BY <1>2, <1>4, <2>1 DEF Forked, dbVars
  <2>3. f \notin DOMAIN blocks
    BY <1>3, <1>5, <2>2 DEF OnNodeChain
  <2>4. DOMAIN blocks = 0..rawHeight /\ rawHeight \in -1..MaxHeight /\ MaxHeight \in Nat
    BY StagedShape DEF LIInv, QIInv
  <2>5. PICK n \in 0..MaxHeight : DOMAIN c = 0..n
    BY ChainShape
  <2>6. h \in DOMAIN c
    BY <1>3, <2>1, <2>3, <2>4, <2>5
  <2>. QED
    BY <2>1, <2>2, <2>6
<1>8. OnOrForked'
  BY <1>1, <1>7, AssetAssumption DEF OnOrForked
<1>9. Listing'
  BY <1>4, <1>5 DEF LIInv, Remembered, Listing, dbVars, assetVars
<1>10. WantedIsProcessed'
  BY <1>4, <1>6 DEF WantedIsProcessed, Wanted, ChangedBelow, dbVars, assetVars
<1>11. job.page \subseteq DOMAIN job.answers \cup DOMAIN directory
  BY <1>5, <1>6 DEF LIInv, Remembered, Unanswered, Wanted, ChangedBelow
<1>12. Unanswered'
  BY <1>4, <1>11 DEF Unanswered, assetVars
<1>. QED
  BY <1>8, <1>9, <1>10, <1>12 DEF Remembered

LEMMA BootMemory == ASSUME LIInv, LoadBootPage PROVE Remembered'
<1>1. /\ phase = "boot" /\ DOMAIN directory' = DOMAIN directory \cup BootPage
      /\ phase' \in {"poll", "boot"}
      /\ UNCHANGED <<chain, blocks, bestHeight, queue, job, target, reorgs>>
  BY DEF LoadBootPage, dbVars, boundVars
<1>2. job.page = {}
  BY <1>1, PageIsAsked DEF LIInv
<1>. QED
  BY <1>1, <1>2
  DEF LIInv, Remembered, OnOrForked, WantedIsProcessed, Unanswered, Listing, Forked, OnNodeChain,
      Wanted, ChangedBelow

LEMMA StartCycleMemory == ASSUME LIInv, StartCycle PROVE Remembered'
<1>1. /\ phase = "poll" /\ target' = TipHeight
      /\ UNCHANGED <<chain, blocks, bestHeight, queue, directory, job, reorgs>>
  BY DEF StartCycle, dbVars, assetVars, boundVars
<1>2. job.page = {}
  BY <1>1, PageIsAsked DEF LIInv
<1>3. target' \in DOMAIN chain'
  BY <1>1, TipIsEnd DEF LIInv, QIInv, Rows
<1>. QED
  BY <1>1, <1>2, <1>3
  DEF LIInv, Remembered, OnOrForked, WantedIsProcessed, Unanswered, Listing, Forked, OnNodeChain,
      Wanted, ChangedBelow

\* A rollback keeps only blocks of the node's chain, and works for the node's tip.
LEMMA RollbackMemory ==
  ASSUME LIInv, MaxReorgs <= 1, NEW ancestor \in -1..MaxHeight, RollbackTo(ancestor)
  PROVE  Remembered'
<1>1. /\ rawHeight >= 0 /\ ~ OnNodeChain(rawHeight) /\ ancestor \in -1..rawHeight
      /\ ancestor >= 0 => OnNodeChain(ancestor)
      /\ blocks' = [h \in {k \in DOMAIN blocks : k <= ancestor} |-> blocks[h]]
      /\ bestHeight' = IF bestHeight <= ancestor THEN bestHeight ELSE ancestor
      /\ queue' = Requeued(ancestor)
      /\ directory' = [a \in DOMAIN directory \ Affected(ancestor) |-> directory[a]]
      /\ target' = TipHeight /\ job' = NewJob(Affected(ancestor))
      /\ UNCHANGED <<chain, reorgs>>
  BY DEF RollbackTo, boundVars
<1>2. /\ DOMAIN blocks = 0..rawHeight /\ rawHeight \in -1..MaxHeight
      /\ bestHeight \in -1..rawHeight
  BY StagedShape DEF LIInv, QIInv
<1>3. \A h \in DOMAIN blocks' : h \in DOMAIN blocks /\ blocks'[h] = blocks[h] /\ h \in 0..ancestor
  BY <1>1, <1>2
<1>4. \A h \in DOMAIN blocks' : OnNodeChain(h)
  <2>1. ASSUME NEW h \in DOMAIN blocks' PROVE OnNodeChain(h)
    <3>1. h \in 0..ancestor /\ ancestor \in DOMAIN blocks /\ OnNodeChain(ancestor)
      BY <1>1, <1>2, <1>3
    <3>. QED
      BY <3>1, BelowIsOnChain DEF LIInv, QIInv
  <2>. QED
    BY <2>1
<1>5. \A h \in DOMAIN blocks' : OnNodeChain(h)'
  BY <1>1, <1>3, <1>4 DEF OnNodeChain
<1>6. reorgs # 0
  BY <1>1, <1>2 DEF LIInv, Remembered, OnOrForked
<1>7. OnOrForked'
  BY <1>1, <1>5, <1>6 DEF LIInv, Remembered, OnOrForked
<1>8. target' \in DOMAIN chain'
  BY <1>1, TipIsEnd DEF LIInv, QIInv, Rows
<1>9. WantedIsProcessed'
  BY <1>1, <1>6, <1>8 DEF WantedIsProcessed
<1>10. Unanswered'
  BY <1>1, JobFields DEF Unanswered
<1>11. Listing'
  <2>1. \A h \in DOMAIN blocks' : h <= bestHeight' => h <= bestHeight
    BY <1>1, <1>2, <1>3
  <2>2. DOMAIN directory \cup DOMAIN queue \subseteq DOMAIN directory' \cup DOMAIN queue'
    BY <1>1 DEF Requeued
  <2>. QED
    BY <1>3, <1>4, <2>1, <2>2 DEF LIInv, Remembered, Listing
<1>. QED
  BY <1>7, <1>9, <1>10, <1>11 DEF Remembered

\* What is staged is on the node's chain, and the page has been asked about it.
LEMMA StageMemory == ASSUME LIInv, Stage PROVE Remembered'
<1>1. /\ rawHeight < target /\ NextIsLinked
      /\ rawHeight' = rawHeight + 1
      /\ blocks' = [h \in 0..rawHeight' |-> IF h = rawHeight' THEN chain[h] ELSE blocks[h]]
      /\ UNCHANGED <<chain, bestHeight, queue, directory, job, phase, target, reorgs>>
  BY DEF Stage, assetVars, cycleVars, boundVars
<1>2. /\ DOMAIN blocks = 0..rawHeight /\ rawHeight \in -1..MaxHeight
      /\ bestHeight \in -1..rawHeight
  BY StagedShape DEF LIInv, QIInv
<1>3. /\ TipHeight \in 0..MaxHeight /\ DOMAIN chain = 0..TipHeight
      /\ chain \in ChainsOfHeight(TipHeight) /\ rawHeight + 1 \in 0..TipHeight
      /\ rawHeight >= 0 => Parent[chain[rawHeight + 1]] = blocks[rawHeight]
  BY <1>1, TipIsEnd DEF LIInv, QIInv, Rows, NextIsLinked
<1>4. /\ DOMAIN blocks' = DOMAIN blocks \cup {rawHeight + 1} /\ rawHeight + 1 \notin DOMAIN blocks
      /\ blocks'[rawHeight + 1] = chain[rawHeight + 1]
      /\ \A h \in DOMAIN blocks : blocks'[h] = blocks[h]
  <2>1. 0..rawHeight + 1 = 0..rawHeight \cup {rawHeight + 1} /\ rawHeight + 1 \notin 0..rawHeight
    BY <1>2
  <2>. QED
    BY <1>1, <1>2, <2>1
<1>5. ~ Forked /\ \A h \in DOMAIN blocks : OnNodeChain(h)
  <2>1. CASE rawHeight >= 0
    <3>1. /\ rawHeight + 1 \in 1..TipHeight /\ (rawHeight + 1) - 1 = rawHeight
          /\ rawHeight \in 0..TipHeight
      BY <1>2, <1>3, <2>1
    <3>2. Parent[chain[rawHeight + 1]] = chain[rawHeight]
      BY <1>3, <3>1 DEF ChainsOfHeight
    <3>3. OnNodeChain(rawHeight)
      BY <1>3, <2>1, <3>1, <3>2 DEF OnNodeChain
    <3>. QED
      BY <2>1, <3>3, TipOnChain DEF LIInv, QIInv
  <2>2. CASE ~ (rawHeight >= 0)
    <3>1. DOMAIN blocks = {}
      BY <1>2, <2>2
    <3>. QED
      BY <3>1 DEF Forked
  <2>. QED
    BY <2>1, <2>2
<1>6. \A h \in DOMAIN blocks' : OnNodeChain(h)'
  BY <1>1, <1>3, <1>4, <1>5 DEF OnNodeChain
<1>7. OnOrForked'
  BY <1>1, <1>6 DEF LIInv, Remembered, OnOrForked
<1>8. \A h \in DOMAIN blocks' : h <= bestHeight => h \in DOMAIN blocks
  BY <1>2, <1>4
<1>9. WantedIsProcessed'
  BY <1>1, <1>4 DEF LIInv, Remembered, WantedIsProcessed, Wanted, ChangedBelow
<1>10. Listing'
  BY <1>1, <1>4, <1>5, <1>8 DEF LIInv, Remembered, Listing
<1>11. rawHeight + 1 <= target /\ rawHeight + 1 \in DOMAIN chain
  BY <1>1, <1>2, <1>3 DEF LIInv, QIInv, CycleRows
<1>12. Unanswered'
  <2>1. SUFFICES ASSUME NEW a \in job.page \ (DOMAIN job.answers \cup DOMAIN directory)
                 PROVE  /\ \A h \in DOMAIN blocks' : a \notin ChangedIn[blocks'[h]]
                        /\ \A h \in DOMAIN chain : h <= target => a \notin ChangedIn[chain[h]]
    BY <1>1 DEF Unanswered
  <2>2. /\ \A h \in DOMAIN blocks : OnNodeChain(h) => a \notin ChangedIn[blocks[h]]
        /\ Forked \/ \A h \in DOMAIN chain : h <= target => a \notin ChangedIn[chain[h]]
    BY <2>1 DEF LIInv, Remembered, Unanswered
  <2>3. \A h \in DOMAIN chain : h <= target => a \notin ChangedIn[chain[h]]
    BY <1>5, <2>2
  <2>4. a \notin ChangedIn[chain[rawHeight + 1]]
    BY <1>11, <2>3
  <2>. QED
    BY <1>4, <1>5, <2>2, <2>3, <2>4
<1>. QED
  BY <1>7, <1>9, <1>10, <1>12 DEF Remembered

\* The reducer queues every asset of its batch, each one changed by a processed block.
LEMMA ReduceMemory == ASSUME LIInv, Reduce PROVE Remembered'
<1>1. PICK r \in batches :
        /\ r.first = bestHeight + 1 /\ bestHeight' = r.last
        /\ queue' = QueuedAgain(NamesOf(r), r.last)
        /\ UNCHANGED <<chain, blocks, rawHeight, directory, job, cycleVars, boundVars>>
  BY DEF Reduce
<1>2. /\ DOMAIN blocks = 0..rawHeight /\ rawHeight \in -1..MaxHeight
      /\ bestHeight \in -1..rawHeight
      /\ \A h \in DOMAIN blocks : blocks[h] \in Block
  BY StagedShape DEF LIInv, QIInv
<1>3. /\ r.first \in 0..rawHeight /\ r.last \in 0..rawHeight /\ r.first <= r.last
  BY NamesAreAssets DEF LIInv, QIInv
<1>4. DOMAIN queue' = DOMAIN queue \cup NamesOf(r)
  BY <1>1 DEF QueuedAgain
<1>5. \A h \in DOMAIN blocks : h <= bestHeight' => h <= bestHeight \/ h \in Heights(r)
  BY <1>1, <1>2, <1>3 DEF Heights
<1>6. \A a : ChangedBelow(a) => ChangedBelow(a)'
  <2>1. \A h \in DOMAIN blocks : h <= bestHeight => h <= bestHeight'
    BY <1>1, <1>2, <1>3
  <2>. QED
    BY <1>1, <2>1 DEF ChangedBelow
<1>7. ASSUME NEW a \in NamesOf(r) PROVE ChangedBelow(a)'
  <2>1. PICK h \in Heights(r) : a \in TouchedIn[blocks[h]]
    BY DEF NamesOf
  <2>2. h \in DOMAIN blocks /\ h <= bestHeight'
    BY <1>1, <1>2, <1>3 DEF Heights
  <2>3. blocks \in Chains
    BY <2>2, StagedIsChain DEF LIInv, QIInv
  <2>4. PICK j \in 0..h : a \in ChangedIn[blocks[j]]
    BY <2>1, <2>2, <2>3, IssuedFirst
  <2>5. j \in DOMAIN blocks /\ j <= bestHeight'
    BY <1>1, <1>2, <1>3, <2>2
  <2>. QED
    BY <1>1, <2>4, <2>5 DEF ChangedBelow
<1>8. OnOrForked'
  BY <1>1 DEF LIInv, Remembered, OnOrForked, Forked, OnNodeChain, boundVars
<1>9. WantedIsProcessed'
  <2>1. Wanted' = Wanted \cup NamesOf(r)
    BY <1>1, <1>4 DEF Wanted
  <2>2. (reorgs = 0 \/ (phase \in {"refresh", "pipeline"} /\ target \notin DOMAIN chain))
          => \A a \in Wanted : ChangedBelow(a)
    BY DEF LIInv, Remembered, WantedIsProcessed
  <2>3. reorgs' = reorgs /\ phase' = phase /\ target' = target /\ chain' = chain
    BY <1>1 DEF cycleVars, boundVars
  <2>. QED
    BY <1>6, <1>7, <2>1, <2>2, <2>3 DEF WantedIsProcessed
<1>10. Unanswered'
  BY <1>1 DEF LIInv, Remembered, Unanswered, Forked, OnNodeChain, cycleVars
<1>11. Listing'
  <2>1. \A h \in Heights(r) : ChangedIn[blocks[h]] \subseteq NamesOf(r)
    <3>1. \A h \in Heights(r) : blocks[h] \in Block
      BY <1>2, <1>3 DEF Heights
    <3>. QED
      BY <3>1, IssuedFirst DEF NamesOf
  <2>. QED
    BY <1>1, <1>4, <1>5, <2>1 DEF LIInv, Remembered, Listing, OnNodeChain
<1>. QED
  BY <1>8, <1>9, <1>10, <1>11 DEF Remembered

\* An asset the node does not list is in no block of its chain.
LEMMA AskMemory == ASSUME LIInv, AskPage PROVE Remembered'
<1>1. /\ job.page = {} /\ job.todo # {}
      /\ UNCHANGED <<chain, blocks, bestHeight, queue, directory, phase, target, reorgs>>
  BY DEF AskPage, dbVars, cycleVars, boundVars
<1>2. PICK page \in SUBSET job.todo :
        job' = JobRecord(job.todo \ page, page,
                         [a \in page \cap Listed(chain) |-> Answer(a, chain)])
  BY DEF AskPage, JobRecord
<1>3. /\ job'.todo = job.todo \ page /\ job'.page = page
      /\ DOMAIN job'.answers = page \cap Listed(chain)
  BY <1>2, JobFields
<1>4. Wanted' \subseteq Wanted
  BY <1>1, <1>3 DEF Wanted
<1>5. page \subseteq Asset
  BY DEF LIInv, QIInv, AssetRows
<1>6. \A a \in page \ Listed(chain) : \A h \in DOMAIN chain : a \notin ChangedIn[chain[h]]
  BY <1>5 DEF Listed, ChangeHeights
<1>7. Unanswered'
  BY <1>1, <1>3, <1>6 DEF Unanswered, OnNodeChain
<1>8. OnOrForked' /\ Listing'
  BY <1>1 DEF LIInv, Remembered, OnOrForked, Listing, Forked, OnNodeChain
<1>9. WantedIsProcessed'
  BY <1>1, <1>4 DEF LIInv, Remembered, WantedIsProcessed, ChangedBelow
<1>. QED
  BY <1>7, <1>8, <1>9 DEF Remembered

LEMMA UpsertMemory == ASSUME LIInv, UpsertAsset PROVE Remembered'
<1>1. PICK a \in DOMAIN job.answers :
        /\ DOMAIN directory' = DOMAIN directory \cup {a}
        /\ job' = [job EXCEPT !.answers = [b \in DOMAIN job.answers \ {a} |-> job.answers[b]]]
        /\ UNCHANGED <<chain, blocks, bestHeight, queue, phase, target, reorgs>>
  BY DEF UpsertAsset, dbVars, cycleVars, boundVars
<1>2. job = JobRecord(job.todo, job.page, job.answers)
  BY DEF LIInv, QIInv, AssetRows
<1>. DEFINE rest == [b \in DOMAIN job.answers \ {a} |-> job.answers[b]]
<1>3. job' = JobRecord(job.todo, job.page, rest)
  BY <1>1, <1>2, JobExcept
<1>4. /\ job'.todo = job.todo /\ job'.page = job.page
      /\ DOMAIN job'.answers = DOMAIN job.answers \ {a}
  BY <1>3, JobFields
<1>5. DOMAIN job'.answers \cup DOMAIN directory' = DOMAIN job.answers \cup DOMAIN directory
  BY <1>1, <1>4
<1>6. Unanswered'
  BY <1>1, <1>4, <1>5 DEF LIInv, Remembered, Unanswered, Forked, OnNodeChain
<1>7. OnOrForked' /\ Listing'
  BY <1>1 DEF LIInv, Remembered, OnOrForked, Listing, Forked, OnNodeChain
<1>8. WantedIsProcessed'
  BY <1>1, <1>4 DEF LIInv, Remembered, WantedIsProcessed, Wanted, ChangedBelow
<1>. QED
  BY <1>6, <1>7, <1>8 DEF Remembered

\* An entry that goes without an answer is of an asset that is in the directory or not
\* changed by a block of the node's chain.
LEMMA DeleteMemory == ASSUME LIInv, DeletePage PROVE Remembered'
<1>1. /\ DOMAIN job.answers = {} /\ DOMAIN queue' = DOMAIN queue \ job.page
      /\ UNCHANGED <<chain, blocks, bestHeight, directory, phase, target, reorgs>>
  BY DEF DeletePage, dbVars, cycleVars, boundVars
<1>2. job' = JobRecord(job.todo, {}, job.answers)
  BY PageDone DEF LIInv, QIInv
<1>3. job'.page = {} /\ job'.todo = job.todo
  BY <1>2, JobFields
<1>4. Unanswered'
  BY <1>3 DEF Unanswered
<1>5. OnOrForked'
  BY <1>1 DEF LIInv, Remembered, OnOrForked, Forked, OnNodeChain
<1>6. WantedIsProcessed'
  BY <1>1, <1>3 DEF LIInv, Remembered, WantedIsProcessed, Wanted, ChangedBelow
<1>7. \A a \in job.page \ DOMAIN directory :
        \A h \in DOMAIN blocks : OnNodeChain(h) => a \notin ChangedIn[blocks[h]]
  BY <1>1 DEF LIInv, Remembered, Unanswered
<1>8. Listing'
  BY <1>1, <1>7 DEF LIInv, Remembered, Listing, OnNodeChain
<1>. QED
  BY <1>4, <1>5, <1>6, <1>8 DEF Remembered

LEMMA MemoryStep ==
  ASSUME MaxReorgs <= 1, LIInv, [Next]_vars
  PROVE  Remembered'
BY QuietSteps, MineMemory, ReorganiseMemory, BootMemory, StartCycleMemory, RollbackMemory,
   StageMemory, ReduceMemory, AskMemory, UpsertMemory, DeleteMemory
DEF Next, Cycle, Pipeline, Refresh, Environment

\* As long as the node changes branch at most once, no asset of the processed chain is
\* forgotten: it is in the directory or in the queue, whatever failed, crashed or was
\* rolled back between the UPSERT of an answer and the DELETE of the queue's entry.
THEOREM NothingIsForgotten ==
  ASSUME MaxReorgs <= 1
  PROVE  Spec => []ListedOrQueued
<1>1. Init => LIInv
  BY InitQueue, InitMemory DEF LIInv
<1>2. LIInv /\ [Next]_vars => LIInv'
  BY QueueStep, MemoryStep DEF LIInv
<1>3. LIInv => ListedOrQueued
  <2>1. SUFFICES ASSUME LIInv, NEW a \in Asset, ChangeHeights(a, Processed) # {}
                 PROVE  a \in DOMAIN directory \cup DOMAIN queue
    BY DEF ListedOrQueued
  <2>2. PICK h \in DOMAIN Processed : a \in ChangedIn[Processed[h]]
    BY <2>1 DEF ChangeHeights
  <2>3. /\ h \in DOMAIN blocks /\ h <= bestHeight /\ OnNodeChain(h)
        /\ Processed[h] = blocks[h]
    BY <2>2 DEF Processed
  <2>. QED
    BY <2>1, <2>2, <2>3 DEF LIInv, Remembered, Listing
<1>. QED
  BY <1>1, <1>2, <1>3, PTL DEF Spec

-----------------------------------------------------------------------------
\* A block has one height, because the genesis block has no parent.
LEMMA NotBelow ==
  ASSUME NEW n \in Nat, NEW m \in Nat, n < m,
         NEW c \in ChainsOfHeight(n), NEW d \in ChainsOfHeight(m)
  PROVE  c[n] # d[m]
<1>. DEFINE k == m - n
            T == {x \in 0..n : c[x] = d[x + k]}
<1>1. SUFFICES ASSUME c[n] = d[m] PROVE FALSE
  OBVIOUS
<1>2. k \in Nat /\ k >= 1 /\ n + k = m /\ n \in 0..n
  OBVIOUS
<1>. HIDE DEF k
<1>3. T \subseteq Nat /\ n \in T
  BY <1>1, <1>2
<1>4. \A x : x \in T <=> x \in 0..n /\ c[x] = d[x + k]
  OBVIOUS
<1>. HIDE DEF T
<1>5. PICK x \in T : \A y \in T : x <= y
  BY <1>3, LeastElement
<1>6. x \in 0..n /\ c[x] = d[x + k] /\ x + k \in 1..m
  BY <1>2, <1>4
<1>7. Parent[d[x + k]] = d[(x + k) - 1] /\ d[(x + k) - 1] \in Block
  <2>1. (x + k) - 1 \in 0..m
    BY <1>6
  <2>. QED
    BY <1>6, <2>1 DEF ChainsOfHeight
<1>8. CASE x = 0
  <2>1. c[x] = Genesis
    BY <1>8 DEF ChainsOfHeight
  <2>. QED
    BY <1>6, <1>7, <2>1, GenesisIsRoot, BlockTreeAssumption
<1>9. CASE x # 0
  <2>1. x \in 1..n /\ x - 1 \in 0..n /\ (x + k) - 1 = (x - 1) + k /\ ~ (x <= x - 1)
    BY <1>2, <1>6, <1>9
  <2>2. Parent[c[x]] = c[x - 1]
    BY <2>1 DEF ChainsOfHeight
  <2>3. c[x - 1] = d[(x - 1) + k]
    BY <1>6, <1>7, <2>1, <2>2
  <2>. QED
    BY <1>4, <1>5, <2>1, <2>3
<1>. QED
  BY <1>8, <1>9

LEMMA HeightIs ==
  ASSUME NEW n \in 0..MaxHeight, NEW c \in ChainsOfHeight(n), NEW h \in 0..n
  PROVE  HeightOf(c[h]) = h
<1>1. n \in Nat /\ h \in 0..MaxHeight /\ h \in Nat /\ DOMAIN c = 0..n
  BY BlockTreeAssumption DEF ChainsOfHeight
<1>. DEFINE d == [j \in {k \in DOMAIN c : k <= h} |-> c[j]]
<1>2. d \in ChainsOfHeight(h) /\ d[h] = c[h]
  BY <1>1, Prefix
<1>. HIDE DEF d
<1>3. \E e \in ChainsOfHeight(h) : e[h] = c[h]
  BY <1>2
<1>4. ASSUME NEW m \in 0..MaxHeight, NEW e \in ChainsOfHeight(m), e[m] = c[h]
      PROVE  m = h
  <2>1. m \in Nat /\ e[m] = d[h]
    BY <1>2, <1>4, BlockTreeAssumption
  <2>2. ~ (m < h)
    BY <1>1, <1>2, <2>1, NotBelow
  <2>3. ~ (h < m)
    BY <1>1, <1>2, <2>1, NotBelow
  <2>. QED
    BY <1>1, <2>1, <2>2, <2>3
<1>. QED
  BY <1>1, <1>3, <1>4 DEF HeightOf

\* The node's answer is as high as every change of the asset on its chain.
LEMMA AnswerIsNewest ==
  ASSUME NEW c \in Chains, NEW a \in Listed(c), NEW h \in DOMAIN c, a \in ChangedIn[c[h]]
  PROVE  HeightOf(Answer(a, c)) >= h
<1>1. PICK n \in 0..MaxHeight : c \in ChainsOfHeight(n) /\ DOMAIN c = 0..n
  BY ChainShape
<1>. DEFINE H == ChangeHeights(a, c)
<1>2. H \subseteq 0..n /\ h \in H /\ n \in Nat
  BY <1>1 DEF ChangeHeights
<1>. DEFINE x == CHOOSE k \in H : \A j \in H : j <= k
<1>3. Answer(a, c) = c[x]
  BY DEF Answer
<1>. HIDE DEF H
<1>4. x \in H /\ \A j \in H : j <= x
  BY <1>2, GreatestElement
<1>. HIDE DEF x
<1>5. x \in 0..n /\ h <= x /\ h \in 0..n
  BY <1>2, <1>4
<1>6. HeightOf(c[x]) = x
  BY <1>1, <1>5, HeightIs
<1>. QED
  BY <1>3, <1>5, <1>6

-----------------------------------------------------------------------------
\* Steps that process nothing of the node's chain, and ask and write nothing.
LEMMA QuietCurrent ==
  ASSUME CIInv, UNCHANGED <<queue, directory>>,
         \A a, h : ChangedAt(a, h)' => ChangedAt(a, h),
         \/ job' = job /\ raced' = raced
         \/ /\ job'.page = {} /\ job'.todo \subseteq DOMAIN queue
            /\ raced \ raced' \subseteq DOMAIN queue
  PROVE  Current'
<1>1. AskedIsQueued'
  BY DEF CIInv, Current, AskedIsQueued
<1>2. Settled'
  <2>1. \A a \in Asset \ (DOMAIN queue' \cup raced') : a \in Asset \ (DOMAIN queue \cup raced)
    OBVIOUS
  <2>. QED
    BY <2>1 DEF CIInv, Current, Settled
<1>3. Asked'
  BY DEF CIInv, Current, Asked
<1>. QED
  BY <1>1, <1>2, <1>3 DEF Current

LEMMA QuietCurrentSteps ==
  ASSUME CIInv, MaxReorgs <= 1,
         \/ StartProcess \/ BootFault \/ StartCycle \/ AfterRefresh \/ EndCycle \/ Prepare
         \/ PipelineFails \/ StartDrain \/ WorkerEnds \/ RefreshFault \/ Crash
         \/ UNCHANGED vars \/ Mine \/ Reorganise \/ Stage
  PROVE  Current'
<1>1. CASE StartDrain
  <2>1. PICK names \in Oldest : job' = NewJob(names)
    BY <1>1 DEF StartDrain
  <2>2. job'.page = {} /\ job'.todo \subseteq DOMAIN queue
    BY <2>1, JobFields DEF Oldest, Due
  <2>3. UNCHANGED <<chain, blocks, bestHeight, queue, directory, raced>>
    BY <1>1 DEF StartDrain, dbVars
  <2>. QED
    BY <2>2, <2>3, QuietCurrent DEF ChangedAt, OnNodeChain
<1>2. CASE RefreshFault \/ Crash
  <2>1. /\ job'.page = {} /\ job'.todo = {} /\ raced' = raced \ job.page
        /\ UNCHANGED <<chain, blocks, bestHeight, queue, directory>>
    BY <1>2, JobFields DEF RefreshFault, Crash, dbVars
  <2>2. raced \ raced' \subseteq DOMAIN queue
    BY <2>1 DEF CIInv, Current, AskedIsQueued
  <2>. QED
    BY <2>1, <2>2, QuietCurrent DEF ChangedAt, OnNodeChain
<1>3. CASE \/ StartProcess \/ BootFault \/ StartCycle \/ AfterRefresh \/ EndCycle \/ Prepare
           \/ PipelineFails \/ WorkerEnds \/ UNCHANGED vars
  <2>1. UNCHANGED <<chain, blocks, bestHeight, queue, directory, job, raced>>
    BY <1>3 DEF StartProcess, BootFault, StartCycle, AfterRefresh, EndCycle, Prepare,
                PipelineFails, WorkerEnds, BeginPipeline, vars, dbVars, assetVars
  <2>. QED
    BY <2>1, QuietCurrent DEF ChangedAt, OnNodeChain
<1>4. CASE Mine
  <2>1. UNCHANGED <<blocks, bestHeight, queue, directory, job, raced>>
    BY <1>4 DEF Mine, dbVars, assetVars
  <2>2. \A h \in DOMAIN blocks : OnNodeChain(h)' <=> OnNodeChain(h)
    BY <1>4, MinedOnChain DEF CIInv
  <2>3. \A a, h : ChangedAt(a, h)' => ChangedAt(a, h)
    BY <2>1, <2>2 DEF ChangedAt
  <2>. QED
    BY <2>1, <2>3, QuietCurrent
<1>5. CASE Reorganise
  <2>1. UNCHANGED <<blocks, bestHeight, queue, directory, job, raced>>
    BY <1>5 DEF Reorganise, dbVars, assetVars
  <2>2. reorgs = 0
    BY <1>5, AssetAssumption DEF Reorganise, CIInv, LIInv, Remembered, OnOrForked
  <2>3. \A h \in DOMAIN blocks : OnNodeChain(h)
    BY <2>2 DEF CIInv, LIInv, Remembered, OnOrForked
  <2>4. \A a, h : ChangedAt(a, h)' => ChangedAt(a, h)
    BY <2>1, <2>3 DEF ChangedAt
  <2>. QED
    BY <2>1, <2>4, QuietCurrent
<1>6. CASE Stage
  <2>1. /\ UNCHANGED <<chain, bestHeight, queue, directory, job, raced>>
        /\ blocks' = [h \in 0..rawHeight + 1 |-> IF h = rawHeight + 1 THEN chain[h] ELSE blocks[h]]
    BY <1>6 DEF Stage, assetVars
  <2>2. DOMAIN blocks = 0..rawHeight /\ rawHeight \in -1..MaxHeight /\ bestHeight \in -1..rawHeight
    BY StagedShape DEF CIInv, LIInv, QIInv
  <2>3. \A h \in DOMAIN blocks' : h <= bestHeight => h \in DOMAIN blocks /\ blocks'[h] = blocks[h]
    BY <2>1, <2>2
  <2>4. \A a, h : ChangedAt(a, h)' => ChangedAt(a, h)
    BY <2>1, <2>3 DEF ChangedAt, OnNodeChain
  <2>. QED
    BY <2>1, <2>4, QuietCurrent
<1>. QED
  BY <1>1, <1>2, <1>3, <1>4, <1>5, <1>6

LEMMA BootCurrent == ASSUME CIInv, LoadBootPage PROVE Current'
<1>1. /\ phase = "boot"
      /\ directory' = [a \in DOMAIN directory \cup BootPage |->
                         IF a \in BootPage THEN Answer(a, chain) ELSE directory[a]]
      /\ UNCHANGED <<chain, blocks, bestHeight, queue, job, raced>>
  BY DEF LoadBootPage, dbVars
<1>2. job.page = {}
  BY <1>1, PageIsAsked DEF CIInv, LIInv
<1>3. \A a \in BootPage : \A h \in DOMAIN chain :
        a \in ChangedIn[chain[h]] => HeightOf(Answer(a, chain)) >= h
  BY BootPageSmall, AnswerIsNewest DEF CIInv, LIInv, QIInv, Rows
<1>4. \A a, h : ChangedAt(a, h)' <=> ChangedAt(a, h)
  BY <1>1 DEF ChangedAt, OnNodeChain
<1>5. AskedIsQueued' /\ Asked'
  BY <1>1, <1>2 DEF CIInv, Current, AskedIsQueued, Asked
<1>6. Settled'
  <2>1. SUFFICES ASSUME NEW a \in Asset \ (DOMAIN queue \cup raced), NEW h \in 0..MaxHeight,
                        ChangedAt(a, h)
                 PROVE  a \in DOMAIN directory' /\ HeightOf(directory'[a]) >= h
    BY <1>1, <1>4 DEF Settled
  <2>2. CASE a \in BootPage
    <3>1. h \in DOMAIN chain /\ a \in ChangedIn[chain[h]]
      BY <2>1 DEF ChangedAt, OnNodeChain
    <3>. QED
      BY <1>1, <1>3, <2>2, <3>1
  <2>3. CASE a \notin BootPage
    <3>1. a \in DOMAIN directory /\ HeightOf(directory[a]) >= h
      BY <2>1 DEF CIInv, Current, Settled
    <3>. QED
      BY <1>1, <2>3, <3>1
  <2>. QED
    BY <2>2, <2>3
<1>. QED
  BY <1>5, <1>6 DEF Current

LEMMA RollbackCurrent ==
  ASSUME CIInv, NEW ancestor \in -1..MaxHeight, RollbackTo(ancestor)
  PROVE  Current'
<1>1. /\ ancestor \in -1..rawHeight
      /\ blocks' = [h \in {k \in DOMAIN blocks : k <= ancestor} |-> blocks[h]]
      /\ bestHeight' = IF bestHeight <= ancestor THEN bestHeight ELSE ancestor
      /\ queue' = Requeued(ancestor)
      /\ directory' = [a \in DOMAIN directory \ Affected(ancestor) |-> directory[a]]
      /\ raced' = raced \ Affected(ancestor) /\ job' = NewJob(Affected(ancestor))
      /\ chain' = chain
  BY DEF RollbackTo
<1>2. DOMAIN queue' = DOMAIN queue \cup Affected(ancestor)
  BY <1>1 DEF Requeued
<1>3. job'.page = {} /\ job'.todo = Affected(ancestor)
  BY <1>1, JobFields
<1>4. AskedIsQueued' /\ Asked'
  BY <1>2, <1>3 DEF AskedIsQueued, Asked
<1>5. DOMAIN blocks = 0..rawHeight /\ rawHeight \in -1..MaxHeight /\ bestHeight \in -1..rawHeight
  BY StagedShape DEF CIInv, LIInv, QIInv
<1>6. \A h \in DOMAIN blocks' : h <= bestHeight' =>
        h \in DOMAIN blocks /\ blocks'[h] = blocks[h] /\ h <= bestHeight
  BY <1>1, <1>5
<1>7. \A a, h : ChangedAt(a, h)' => ChangedAt(a, h)
  BY <1>1, <1>6 DEF ChangedAt, OnNodeChain
<1>8. Settled'
  <2>1. SUFFICES ASSUME NEW a \in Asset \ (DOMAIN queue' \cup raced'), NEW h \in 0..MaxHeight,
                        ChangedAt(a, h)'
                 PROVE  a \in DOMAIN directory' /\ HeightOf(directory'[a]) >= h
    BY DEF Settled
  <2>2. a \notin Affected(ancestor) /\ a \in Asset \ (DOMAIN queue \cup raced)
    BY <1>1, <1>2
  <2>3. ChangedAt(a, h)
    BY <1>7, <2>1
  <2>4. a \in DOMAIN directory /\ HeightOf(directory[a]) >= h
    BY <2>2, <2>3 DEF CIInv, Current, Settled
  <2>. QED
    BY <1>1, <2>2, <2>4
<1>. QED
  BY <1>4, <1>8 DEF Current

\* Only assets of the batch have a new change, and those are queued or raced.
LEMMA ReduceCurrent == ASSUME CIInv, Reduce PROVE Current'
<1>1. PICK r \in batches :
        /\ r.first = bestHeight + 1 /\ bestHeight' = r.last
        /\ queue' = QueuedAgain(NamesOf(r), r.last)
        /\ raced' = raced \cup (NamesOf(r) \cap job.page)
        /\ UNCHANGED <<chain, blocks, rawHeight, directory, job>>
  BY DEF Reduce
<1>2. /\ DOMAIN blocks = 0..rawHeight /\ rawHeight \in -1..MaxHeight
      /\ bestHeight \in -1..rawHeight
      /\ \A h \in DOMAIN blocks : blocks[h] \in Block
  BY StagedShape DEF CIInv, LIInv, QIInv
<1>3. r.first \in 0..rawHeight /\ r.last \in 0..rawHeight
  BY NamesAreAssets DEF CIInv, LIInv, QIInv
<1>4. DOMAIN queue' = DOMAIN queue \cup NamesOf(r)
  BY <1>1 DEF QueuedAgain
<1>5. \A h \in DOMAIN blocks : h <= bestHeight' => h <= bestHeight \/ h \in Heights(r)
  BY <1>1, <1>2, <1>3 DEF Heights
<1>6. \A h \in Heights(r) : ChangedIn[blocks[h]] \subseteq NamesOf(r)
  <2>1. \A h \in Heights(r) : blocks[h] \in Block
    BY <1>2, <1>3 DEF Heights
  <2>. QED
    BY <2>1, IssuedFirst DEF NamesOf
<1>7. \A a, h : ChangedAt(a, h)' /\ a \notin NamesOf(r) => ChangedAt(a, h)
  BY <1>1, <1>5, <1>6 DEF ChangedAt, OnNodeChain
<1>8. AskedIsQueued'
  BY <1>1, <1>4 DEF CIInv, Current, AskedIsQueued
<1>9. Settled'
  BY <1>1, <1>4, <1>7 DEF CIInv, Current, Settled
<1>10. Asked'
  BY <1>1, <1>7 DEF CIInv, Current, Asked
<1>. QED
  BY <1>8, <1>9, <1>10 DEF Current

LEMMA AskCurrent == ASSUME CIInv, AskPage PROVE Current'
<1>1. UNCHANGED <<chain, blocks, bestHeight, queue, directory>> /\ job.page = {}
  BY DEF AskPage, dbVars
<1>2. PICK page \in SUBSET job.todo :
        /\ job' = JobRecord(job.todo \ page, page,
                            [a \in page \cap Listed(chain) |-> Answer(a, chain)])
        /\ raced' = raced \ page
  BY DEF AskPage, JobRecord
<1>3. /\ job'.todo = job.todo \ page /\ job'.page = page
      /\ job'.answers = [a \in page \cap Listed(chain) |-> Answer(a, chain)]
  BY <1>2, JobFields
<1>4. page \subseteq DOMAIN queue /\ page \subseteq Asset
  BY DEF CIInv, LIInv, QIInv, AssetRows, Current, AskedIsQueued
<1>5. \A a, h : ChangedAt(a, h)' <=> ChangedAt(a, h)
  BY <1>1 DEF ChangedAt, OnNodeChain
<1>6. AskedIsQueued'
  BY <1>1, <1>3 DEF CIInv, Current, AskedIsQueued
<1>7. Settled'
  <2>1. \A a \in Asset \ (DOMAIN queue' \cup raced') : a \in Asset \ (DOMAIN queue \cup raced)
    BY <1>1, <1>2, <1>4
  <2>. QED
    BY <1>1, <1>5, <2>1 DEF CIInv, Current, Settled
<1>8. Asked'
  <2>1. SUFFICES ASSUME NEW a \in page, NEW h \in 0..MaxHeight, ChangedAt(a, h)
                 PROVE  a \in Listed(chain) /\ HeightOf(Answer(a, chain)) >= h
    BY <1>3, <1>5 DEF Asked
  <2>2. h \in DOMAIN chain /\ a \in ChangedIn[chain[h]]
    BY <2>1 DEF ChangedAt, OnNodeChain
  <2>3. a \in Listed(chain)
    BY <1>4, <2>2 DEF Listed, ChangeHeights
  <2>. QED
    BY <2>2, <2>3, AnswerIsNewest DEF CIInv, LIInv, QIInv, Rows
<1>. QED
  BY <1>6, <1>7, <1>8 DEF Current

LEMMA UpsertCurrent == ASSUME CIInv, UpsertAsset PROVE Current'
<1>1. PICK a \in DOMAIN job.answers :
        /\ directory' = [b \in DOMAIN directory \cup {a} |->
                           IF b = a THEN job.answers[a] ELSE directory[b]]
        /\ job' = [job EXCEPT !.answers = [b \in DOMAIN job.answers \ {a} |-> job.answers[b]]]
        /\ UNCHANGED <<chain, blocks, bestHeight, queue, raced>>
  BY DEF UpsertAsset, dbVars
<1>2. job = JobRecord(job.todo, job.page, job.answers) /\ a \in job.page
  BY DEF CIInv, LIInv, QIInv, AssetRows
<1>. DEFINE rest == [b \in DOMAIN job.answers \ {a} |-> job.answers[b]]
<1>3. job' = JobRecord(job.todo, job.page, rest)
  BY <1>1, <1>2, JobExcept
<1>4. job'.todo = job.todo /\ job'.page = job.page /\ job'.answers = rest
  BY <1>3, JobFields
<1>5. \A b, h : ChangedAt(b, h)' <=> ChangedAt(b, h)
  BY <1>1 DEF ChangedAt, OnNodeChain
<1>6. AskedIsQueued'
  BY <1>1, <1>4 DEF CIInv, Current, AskedIsQueued
<1>7. Settled'
  <2>1. a \in DOMAIN queue
    BY <1>2 DEF CIInv, Current, AskedIsQueued
  <2>2. \A b \in DOMAIN directory : b # a => b \in DOMAIN directory' /\ directory'[b] = directory[b]
    BY <1>1
  <2>. QED
    BY <1>1, <1>5, <2>1, <2>2 DEF CIInv, Current, Settled
<1>8. Asked'
  BY <1>1, <1>4, <1>5 DEF CIInv, Current, Asked
<1>. QED
  BY <1>6, <1>7, <1>8 DEF Current

LEMMA DeleteCurrent == ASSUME CIInv, DeletePage PROVE Current'
<1>1. /\ DOMAIN job.answers = {} /\ DOMAIN queue' = DOMAIN queue \ job.page
      /\ UNCHANGED <<chain, blocks, bestHeight, directory, raced>>
  BY DEF DeletePage, dbVars
<1>2. job' = JobRecord(job.todo, {}, job.answers)
  BY PageDone DEF CIInv, LIInv, QIInv
<1>3. job'.page = {} /\ job'.todo = job.todo
  BY <1>2, JobFields
<1>4. \A a, h : ChangedAt(a, h)' <=> ChangedAt(a, h)
  BY <1>1 DEF ChangedAt, OnNodeChain
<1>5. AskedIsQueued' /\ Asked'
  BY <1>1, <1>3 DEF CIInv, Current, AskedIsQueued, Asked
<1>6. Settled'
  BY <1>1, <1>4 DEF CIInv, Current, Settled, Asked
<1>. QED
  BY <1>5, <1>6 DEF Current

\* An asset that is not queued is in the directory with its last processed change or a
\* later one, except for the race of refreshAssets with the reducer.
THEOREM DirectoryIsCurrent ==
  ASSUME MaxReorgs <= 1
  PROVE  Spec => []CurrentUnlessRaced
<1>1. Init => CIInv
  <2>1. SUFFICES ASSUME Init PROVE Current
    BY InitQueue, InitMemory DEF CIInv, LIInv
  <2>2. DOMAIN blocks = {} /\ job.todo = {} /\ job.page = {}
    BY <2>1, JobFields DEF Init, NoRows
  <2>. QED
    BY <2>2 DEF Current, AskedIsQueued, Settled, Asked, ChangedAt
<1>2. CIInv /\ [Next]_vars => CIInv'
  <2>1. SUFFICES ASSUME CIInv, [Next]_vars PROVE Current'
    BY QueueStep, MemoryStep DEF CIInv, LIInv
  <2>. QED
    BY <2>1, QuietCurrentSteps, BootCurrent, RollbackCurrent, ReduceCurrent, AskCurrent,
       UpsertCurrent, DeleteCurrent
    DEF Next, Cycle, Pipeline, Refresh, Environment
<1>3. CIInv => CurrentUnlessRaced
  <2>1. SUFFICES ASSUME CIInv, NEW a \in Asset \ (DOMAIN queue \cup raced),
                        ChangeHeights(a, Processed) # {}
                 PROVE  /\ a \in DOMAIN directory
                        /\ HeightOf(directory[a]) >= HeightOf(Answer(a, Processed))
    BY DEF CurrentUnlessRaced
  <2>. DEFINE H == ChangeHeights(a, Processed)
              x == CHOOSE k \in H : \A j \in H : j <= k
  <2>2. /\ DOMAIN blocks = 0..rawHeight /\ rawHeight \in -1..MaxHeight /\ MaxHeight \in Nat
    BY <2>1, StagedShape DEF CIInv, LIInv, QIInv
  <2>3. \A h \in H : h \in DOMAIN blocks /\ ChangedAt(a, h) /\ Processed[h] = blocks[h]
    BY DEF ChangeHeights, Processed, ChangedAt
  <2>4. H \subseteq 0..MaxHeight /\ H # {}
    BY <2>1, <2>2, <2>3
  <2>5. Answer(a, Processed) = Processed[x]
    BY DEF Answer
  <2>. HIDE DEF H
  <2>6. x \in H
    BY <2>2, <2>4, GreatestElement
  <2>. HIDE DEF x
  <2>7. x \in 0..MaxHeight /\ x \in 0..rawHeight /\ ChangedAt(a, x) /\ Answer(a, Processed) = blocks[x]
    BY <2>2, <2>3, <2>4, <2>5, <2>6
  <2>8. rawHeight \in 0..MaxHeight /\ blocks \in ChainsOfHeight(rawHeight)
    BY <2>1, <2>2, <2>7 DEF CIInv, LIInv, QIInv, Rows
  <2>9. HeightOf(blocks[x]) = x
    BY <2>7, <2>8, HeightIs
  <2>. QED
    BY <2>1, <2>7, <2>9 DEF CIInv, Current, Settled
<1>. QED
  BY <1>1, <1>2, <1>3, PTL DEF Spec

=============================================================================
