----------------------------- MODULE Checkpoints -----------------------------
(***************************************************************************)
(* The checkpoint transactions of server/pipeline.mjs and rollbackTo of    *)
(* server/indexer.mjs, reduced to what decides whether they commit: the    *)
(* staged rows, the two heights of sync_state and aggregation_batches.     *)
(*                                                                         *)
(* Any of them may come at any time.  IndexerPipeline calls them in the    *)
(* order of its workers; Ledger adds what they do to the other tables.     *)
(***************************************************************************)
EXTENDS AggregationRanges, BlockTree

VARIABLES
  blocks,                  \* table blocks, height -> hash
  rawHeight, bestHeight,   \* of sync_state
  batches                  \* aggregation_batches, without tip and balance deltas

vars == <<blocks, rawHeight, bestHeight, batches>>

Init == blocks = NoRows /\ rawHeight = -1 /\ bestHeight = -1 /\ batches = {}

\* stageRawBlockBatch: linked blocks on top of the staged tip.
Stage ==
  /\ \E n \in 0..MaxHeight : \E c \in ChainsOfHeight(n) :
       /\ n > rawHeight /\ \A h \in DOMAIN blocks : c[h] = blocks[h]
       /\ blocks' = c /\ rawHeight' = n
  /\ UNCHANGED <<bestHeight, batches>>

\* prepareAggregationBatch: a staged range above the processed tip, which shares
\* neither end with another batch.
Prepare(r) ==
  /\ r.first > bestHeight /\ r.last <= rawHeight
  /\ \A b \in batches : b.first # r.first /\ b.last # r.last
  /\ batches' = batches \cup {[first |-> r.first, last |-> r.last, status |-> "prepared"]}
  /\ UNCHANGED <<blocks, rawHeight, bestHeight>>

\* reducePreparedAggregationBatch: the batch that starts at the processed tip.
Reduce ==
  /\ \E b \in batches :
       /\ b.status = "prepared" /\ b.first = bestHeight + 1
       /\ bestHeight' = b.last
       /\ batches' = (batches \ {b}) \cup {[b EXCEPT !.status = "reduced"]}
  /\ UNCHANGED <<blocks, rawHeight>>

\* rollbackTo: nothing above the ancestor stays, nor a batch that reaches over it.
Rollback(ancestor) ==
  /\ blocks' = [h \in {k \in DOMAIN blocks : k <= ancestor} |-> blocks[h]]
  /\ rawHeight' = ancestor
  /\ bestHeight' = IF bestHeight <= ancestor THEN bestHeight ELSE ancestor
  /\ batches' = {b \in batches : b.first <= ancestor /\ b.last <= ancestor}

Next ==
  \/ Stage
  \/ \E r \in RangesWithin(0, MaxHeight) : Prepare(r)
  \/ Reduce
  \/ \E ancestor \in -1..rawHeight : Rollback(ancestor)

Spec == Init /\ [][Next]_vars
=============================================================================
