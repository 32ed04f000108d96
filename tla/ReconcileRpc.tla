---------------------------- MODULE ReconcileRpc -----------------------------
(***************************************************************************)
(* scripts/ops/reconcile-rpc.mjs: a sampled comparison of the database     *)
(* with the node.  It reads the database in one snapshot while the indexer *)
(* goes on committing, which is module Ledger, and asks the node batch by  *)
(* batch while the node may change branch.  The database may have been     *)
(* damaged by something else: that is what the tool is for.                *)
(*                                                                         *)
(* A row is compared as a whole: the names of the columns that differ are  *)
(* left out, and a balance is compared by the activity rows that are in it.*)
(***************************************************************************)
EXTENDS Ledger, FiniteSetsExt

CONSTANTS
  Activation,        \* ASSET_ACTIVATION_HEIGHT
  BlockSamples, TransferSamples, BalanceSamples,
  Grace,             \* RECONCILE_ASSET_GRACE_BLOCKS
  Victim,            \* an output whose rows may be damaged
  MaxCommits         \* bound: commits of the indexer while the tool runs

ASSUME ReconcileAssumption ==
  /\ {Activation, BlockSamples, TransferSamples, BalanceSamples, Grace, MaxCommits} \subseteq Nat
  /\ BlockSamples > 0 /\ Victim \in Output

VARIABLES
  tool,       \* its snapshot, its samples, what the node has answered
  node,       \* the node's main chain
  strayed,    \* the node left the snapshot's chain since the tool has it
  commits

toolVars == <<tool, node, strayed, commits>>

NoTool == [phase |-> "idle"]

ToolInit == Init /\ tool = NoTool /\ node = NoRows /\ strayed = FALSE /\ commits = 0

-----------------------------------------------------------------------------
\* The tables, as the tool's queries see them.
Tables ==
  [blocks |-> blocks, best |-> bestHeight, counted |-> counted, activity |-> activity,
   outputs |-> {o \in Output : CreatedBy[o] \in DOMAIN txs},
   transfers |-> transfers]

Received(o) == {e \in Entry : e.output = o /\ e.direction = "receive"}

\* The victim's row is missing from a table, or in a balance once too often.
Damaged(db, damage) ==
  CASE damage = "none"     -> db
    [] damage = "output"   -> [db EXCEPT !.outputs = @ \ {Victim}]
    [] damage = "transfer" -> [db EXCEPT !.transfers = [o \in DOMAIN @ \ {Victim} |-> @[o]]]
    [] damage = "activity" -> [db EXCEPT !.activity = [e \in DOMAIN @ \ Received(Victim) |-> @[e]]]
    [] damage = "balance"  -> [db EXCEPT !.counted = [e \in Entry |-> IF e \in Received(Victim)
                                                                     THEN @[e] + 1 ELSE @[e]]]

\* floor((index + 0.5) * span / count)
uniformlySpacedHeights(best, count) ==
  LET span  == best - Activation + 1
      taken == Min({count, span})
  IN  {Activation + (((2 * index + 1) * span) \div (2 * taken)) : index \in 0 .. taken - 1}

\* loadTransferSamples: the rows with the highest ids, in whatever order they came.
TransferSampleSets(db) ==
  LET visible == {o \in DOMAIN db.transfers : db.transfers[o] <= db.best}
  IN  {S \in SUBSET visible : Cardinality(S) = Min({TransferSamples, Cardinality(visible)})}

Ended(verdict) == [phase |-> "ended", verdict |-> verdict]

\* BEGIN REPEATABLE READ, the checkpoint, and the samples of blocks and transfers.
\* A damage changes something.
Open ==
  /\ tool.phase = "idle"
  /\ commits' = 0 /\ node' \in Chains
  /\ strayed' = \E h \in 0..bestHeight : h \notin DOMAIN node' \/ node'[h] # blocks[h]
  /\ IF bestHeight < Activation THEN tool' = Ended("skipped")
     ELSE \E damage \in {"none", "output", "transfer", "activity", "balance"} :
          LET db == Damaged(Tables, damage)
          IN  /\ damage = "none" \/ db # Tables
              /\ \E samples \in TransferSampleSets(db) :
                   tool' = [phase |-> "hashes", db |-> db, damage |-> damage, samples |-> samples,
                            heights |-> uniformlySpacedHeights(db.best, BlockSamples)
                                          \cup {db.transfers[o] : o \in samples} \cup {db.best},
                            hashes |-> NoRows]
  /\ UNCHANGED vars

\* The node answers with an error for a height beyond its tip, and the batch throws.
\* What else keeps an answer from coming is action Fails.
Answered(h) == h \in DOMAIN node

\* One batch of getblockhash, of one call.
AskHash ==
  /\ tool.phase = "hashes"
  /\ LET missing == tool.heights \ DOMAIN tool.hashes
         h       == Min(missing)
     IN  /\ missing # {}
         /\ tool' = IF ~ Answered(h) THEN [tool EXCEPT !.phase = "diverged"]
                    ELSE [tool EXCEPT !.hashes = [k \in DOMAIN @ \cup {h} |->
                                                    IF k = h THEN node[h] ELSE @[k]]]
  /\ UNCHANGED <<vars, node, strayed, commits>>

\* A hash that is not the snapshot's ends the run; a block is then asked for by hash.
CheckHashes ==
  /\ tool.phase = "hashes" /\ DOMAIN tool.hashes = tool.heights
  /\ tool' = [tool EXCEPT !.phase = IF \A h \in tool.heights : tool.hashes[h] = tool.db.blocks[h]
                                    THEN "facts" ELSE "diverged"]
  /\ UNCHANGED <<vars, node, strayed, commits>>

\* collectRpcFacts: the outputs of the sampled blocks, from the node.
FactOutputs == {o \in Output : \E h \in tool.heights : CreatedBy[o] \in TxsOf[tool.hashes[h]]}
FactHeight(o) == CHOOSE h \in tool.heights : CreatedBy[o] \in TxsOf[tool.hashes[h]]

\* Seeded fault: every query takes a connection of the pool for itself.
DatabaseNow == Damaged(Tables, tool.damage)

\* The queries share the connection that holds the snapshot.
Database == tool.db

RawOutputsDiffer ==
  {o \in Database.outputs : \E f \in FactOutputs : CreatedBy[o] = CreatedBy[f]} # FactOutputs

ReceiveActivityDiffers ==
  \E o \in FactOutputs : \E e \in Received(o) :
    e \notin DOMAIN Database.activity \/ Database.activity[e] # FactHeight(o)

AssetTransfersDiffer == (FactOutputs \cap AssetOutput) \ DOMAIN Database.transfers # {}

\* compareCachedBalances, for one address.
CachedBalanceDiffers(a) ==
  \E e \in {x \in Entry : x.address = a} :
    Database.counted[e] #
      IF e \in DOMAIN Database.activity /\ Database.activity[e] <= tool.db.best THEN 1 ELSE 0

\* The addresses it takes, the asset-bearing ones first.
BalanceSampleSets ==
  LET paid(outputs) == UNION {Owners[o] : o \in outputs}
      all           == paid(FactOutputs)
      first         == paid(FactOutputs \cap AssetOutput)
      size          == Min({BalanceSamples, Cardinality(all)})
  IN  {S \in SUBSET all : Cardinality(S) = size /\ (S \subseteq first \/ first \subseteq S)}

SamplesUnexplained == tool.samples \ (FactOutputs \cap AssetOutput) # {}

AssetSamplesMissing ==
  tool.db.best >= Activation + Grace /\ FactOutputs \cap AssetOutput = {}

Compare ==
  /\ tool.phase = "facts"
  /\ \E sampled \in BalanceSampleSets :
       tool' = [tool EXCEPT !.phase =
                  IF \/ RawOutputsDiffer \/ ReceiveActivityDiffers \/ AssetTransfersDiffer
                     \/ SamplesUnexplained \/ AssetSamplesMissing
                     \/ \E a \in sampled : CachedBalanceDiffers(a)
                  THEN "mismatch" ELSE "passed"]
  /\ UNCHANGED <<vars, node, strayed, commits>>

\* A call to the node or a query gets no answer: the node is unavailable, times out,
\* answers with an HTTP or another error or omits a response; the database fails, or a
\* statement runs into its timeout.  (A run that fails before its snapshot is not one.)
Fails ==
  /\ tool.phase \in {"hashes", "facts"}
  /\ tool' = Ended("failed")
  /\ UNCHANGED <<vars, node, strayed, commits>>

Close ==
  /\ tool.phase \in {"ended", "diverged", "mismatch", "passed"}
  /\ tool' = NoTool /\ node' = NoRows /\ strayed' = FALSE /\ commits' = 0
  /\ UNCHANGED vars

-----------------------------------------------------------------------------
\* The node switches branch, or grows, while it is being asked.
NodeMoves ==
  /\ tool.phase = "hashes"
  /\ node' \in Chains
  /\ strayed' = (strayed \/ \E h \in 0 .. tool.db.best :
                              h \notin DOMAIN node' \/ node'[h] # tool.db.blocks[h])
  /\ UNCHANGED <<vars, tool, commits>>

\* The indexer commits while the tool waits for the node.
CommitMeanwhile ==
  /\ tool.phase \in {"hashes", "facts"} /\ commits < MaxCommits
  /\ Next
  /\ commits' = commits + 1
  /\ UNCHANGED <<tool, node, strayed>>

ToolNext ==
  \/ Open \/ AskHash \/ CheckHashes \/ Compare \/ Fails \/ Close \/ NodeMoves \/ CommitMeanwhile

ToolSpec == ToolInit /\ [][ToolNext]_<<vars, toolVars>>

-----------------------------------------------------------------------------
\* What the tool takes for granted when it asks for asset samples: that it samples
\* transfers, and that every chain has one by the end of the grace period.
SamplesAssets ==
  /\ IsFiniteSet(AssetOutput) /\ TransferSamples > 0
  /\ \A c \in Chains : \A n \in DOMAIN c :
       n >= Activation + Grace => \E h \in 0..n : \E o \in AssetOutput : CreatedBy[o] \in TxsOf[c[h]]

(***************************************************************************)
(* "Read-only sampled consistency check ... safe while catching up"        *)
(* (reconcile-rpc.mjs): whatever the indexer commits and wherever the node *)
(* goes meanwhile, a mismatch is reported only of a damaged database, the  *)
(* chains are said to differ, by another hash or a height the node does    *)
(* not have, only if the node left the chain of the snapshot, and a run    *)
(* that passes has not overlooked a missing row of its blocks.  A run may  *)
(* fail at any point for want of an answer; it then says none of these.    *)
(***************************************************************************)
ReconcileIsRight ==
  /\ tool.phase = "mismatch" => tool.damage # "none"
  /\ tool.phase = "diverged" => strayed
  /\ tool.phase = "passed" /\ Victim \in FactOutputs => tool.damage \in {"none", "balance"}
=============================================================================
