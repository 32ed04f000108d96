------------------------------- MODULE Ledger -------------------------------
(***************************************************************************)
(* What the checkpoint transactions of server/pipeline.mjs and rollbackTo  *)
(* of server/indexer.mjs do to transactions, inputs, outputs and address   *)
(* balances.  Their order is left open, as in Checkpoints: any range may   *)
(* be prepared at any time, any prefix kept by a rollback, so the calls    *)
(* IndexerPipeline makes are among the behaviours.                         *)
(*                                                                         *)
(* An amount is never added up.  A balance is a sum of activity rows, and  *)
(* the model keeps how often each row is in the sum; assets are addresses' *)
(* rows like any other.                                                    *)
(***************************************************************************)
EXTENDS AggregationRanges, BlockTree

CONSTANTS
  Tx, NoTx,      \* transaction ids, and a null spent_by_txid
  Output,        \* outputs that carry a value
  Address,
  TxsOf,         \* the transactions of a block
  CreatedBy,     \* the transaction of an output
  Owners,        \* the addresses of an output
  AssetOutput,   \* the outputs that carry an asset
  Spends         \* the outputs the inputs of a transaction refer to

ASSUME LedgerAssumption ==
  /\ NoTx \notin Tx
  /\ TxsOf \in [Block -> SUBSET Tx]
  /\ CreatedBy \in [Output -> Tx] /\ Owners \in [Output -> SUBSET Address]
  /\ Spends \in [Tx -> SUBSET Output]
  /\ AssetOutput \subseteq Output

\* The node's consensus rules: on one chain a transaction is mined once, an
\* output is spent once, and not before it was created.
ASSUME ConsensusAssumption ==
  \A c \in Chains : \A h, k \in DOMAIN c :
    \A t \in TxsOf[c[h]], u \in TxsOf[c[k]] :
      /\ t = u => h = k
      /\ Spends[t] \cap Spends[u] # {} => t = u
      /\ \A o \in Spends[t] : \E j \in 0..h : CreatedBy[o] \in TxsOf[c[j]]

VARIABLES
  blocks,        \* table blocks, height -> hash
  rawHeight, bestHeight,
  txs,           \* table transactions, txid -> block_height
  resolved,      \* rows of tx_inputs that carry the value and addresses they spend
  spentBy,       \* tx_outputs.spent_by_txid
  activity,      \* table address_activity, row -> block_height
  transfers,     \* table asset_transfers, output -> block_height
  batches,       \* table aggregation_batches, each with its balance deltas
  counted        \* address_balances: how often each row is in a sum

vars == <<blocks, rawHeight, bestHeight, txs, resolved, spentBy, activity, transfers,
          batches, counted>>

\* A row of address_activity; address_transactions is its projection.
Entry ==
  {e \in [direction : {"receive", "send"}, address : Address, output : Output, tx : Tx] :
     /\ e.address \in Owners[e.output]
     /\ \/ e.direction = "receive" /\ e.tx = CreatedBy[e.output]
        \/ e.direction = "send" /\ e.output \in Spends[e.tx]}

\* The rows of a transaction whose inputs are all known.
EntriesOf == [t \in Tx |-> {e \in Entry : e.tx = t}]

Init ==
  /\ blocks = NoRows /\ rawHeight = -1 /\ bestHeight = -1
  /\ txs = [t \in {} |-> 0]
  /\ resolved = {}
  /\ spentBy = [o \in Output |-> NoTx]
  /\ activity = [e \in {} |-> 0] /\ transfers = [o \in {} |-> 0]
  /\ batches = {}
  /\ counted = [e \in Entry |-> 0]

TxsWithin(lo, hi) == {t \in DOMAIN txs : txs[t] \in lo..hi}

-----------------------------------------------------------------------------
\* stageRawBlockBatch: linked blocks on top of the staged tip.
Stage ==
  \E c \in Chains :
    LET new == DOMAIN c \ DOMAIN blocks
        added(h) == TxsOf[c[h]]
    IN  /\ new # {} /\ DOMAIN blocks \subseteq DOMAIN c
        /\ \A h \in DOMAIN blocks : c[h] = blocks[h]
        /\ blocks' = c
        /\ rawHeight' = CHOOSE n \in new : n + 1 \notin new
        /\ txs' = [t \in DOMAIN txs \cup UNION {added(h) : h \in new} |->
                     IF t \in DOMAIN txs THEN txs[t] ELSE CHOOSE h \in new : t \in added(h)]
        /\ UNCHANGED <<bestHeight, resolved, spentBy, activity, transfers, batches, counted>>

\* The checks of prepareAggregationBatch and the keys of aggregation_batches.
CanPrepare(r) ==
  /\ r.first > bestHeight /\ r.last <= rawHeight
  /\ \A b \in batches : b.first # r.first /\ b.last # r.last

\* Seeded fault: only inputs that spend the range's own outputs are resolved.
LinksInside(r) ==
  {l \in [tx : TxsWithin(r.first, r.last), output : Output] :
     l.output \in Spends[l.tx] /\ CreatedBy[l.output] \in TxsWithin(r.first, r.last)}

\* Inputs of a range whose output row exists.
Links(r) ==
  {l \in [tx : TxsWithin(r.first, r.last), output : Output] :
     l.output \in Spends[l.tx] /\ CreatedBy[l.output] \in DOMAIN txs}

\* Seeded fault: rows the table holds already are not captured.
CapturedNew(r) ==
  {e \in Entry :
     /\ e.tx \in TxsWithin(r.first, r.last) /\ e \notin DOMAIN activity
     /\ e.direction = "send" => [tx |-> e.tx, output |-> e.output] \in resolved \cup Links(r)}

\* The rows a range contributes, whether they are in the table already or not.
Captured(r) ==
  {e \in Entry :
     /\ e.tx \in TxsWithin(r.first, r.last)
     /\ e.direction = "send" => [tx |-> e.tx, output |-> e.output] \in resolved \cup Links(r)}

\* The transfers of a range: every output that carries an asset, paid to an address
\* or not.
Transferred(r) == {o \in AssetOutput : CreatedBy[o] \in TxsWithin(r.first, r.last)}

Prepare(r) ==
  /\ CanPrepare(r)
  /\ resolved' = resolved \cup Links(r)
  /\ spentBy' = [o \in Output |->
                   IF \E l \in Links(r) : l.output = o
                   THEN (CHOOSE l \in Links(r) : l.output = o).tx ELSE spentBy[o]]
  /\ activity' = [e \in DOMAIN activity \cup Captured(r) |->
                    IF e \in Captured(r) THEN txs[e.tx] ELSE activity[e]]
  /\ transfers' = [o \in DOMAIN transfers \cup Transferred(r) |->
                     IF o \in Transferred(r) THEN txs[CreatedBy[o]] ELSE transfers[o]]
  /\ batches' = batches \cup {[first |-> r.first, last |-> r.last, status |-> "prepared",
                               deltas |-> Captured(r)]}
  /\ UNCHANGED <<blocks, rawHeight, bestHeight, txs, counted>>

\* reducePreparedAggregationBatch.
Reduce ==
  \E b \in batches :
    /\ b.status = "prepared" /\ b.first = bestHeight + 1
    /\ counted' = [e \in Entry |-> IF e \in b.deltas THEN counted[e] + 1 ELSE counted[e]]
    /\ bestHeight' = b.last
    /\ batches' = (batches \ {b}) \cup {[b EXCEPT !.status = "reduced", !.deltas = {}]}
    /\ UNCHANGED <<blocks, rawHeight, txs, resolved, spentBy, activity, transfers>>

\* min(best_height, ancestor)
Processed(ancestor) == IF bestHeight <= ancestor THEN bestHeight ELSE ancestor

\* Addresses with a transaction above the ancestor.
Affected(ancestor) == {e.address : e \in {x \in DOMAIN activity : activity[x] > ancestor}}

\* Seeded fault: the spending transaction goes, the mark it left stays.
SpentAfterKept(kept) == spentBy

\* The foreign keys: an output goes with its transaction, and its mark is cleared
\* when the spending transaction goes.
SpentAfter(kept) ==
  [o \in Output |-> IF CreatedBy[o] \in kept /\ spentBy[o] \in kept THEN spentBy[o] ELSE NoTx]

\* Seeded fault: rows of blocks that are prepared only are counted.
RecountedStaged(e, ancestor) == IF e \in DOMAIN activity /\ activity[e] <= ancestor THEN 1 ELSE 0

Recounted(e, ancestor) ==
  IF e \in DOMAIN activity /\ activity[e] <= Processed(ancestor) THEN 1 ELSE 0

Rollback(ancestor) ==
  LET kept == TxsWithin(0, ancestor)
  IN  /\ batches' = {b \in batches : b.first <= ancestor /\ b.last <= ancestor}
      /\ blocks' = [h \in {k \in DOMAIN blocks : k <= ancestor} |-> blocks[h]]
      /\ txs' = [t \in kept |-> txs[t]]
      /\ resolved' = {l \in resolved : l.tx \in kept}
      /\ spentBy' = SpentAfter(kept)
      /\ activity' = [e \in {x \in DOMAIN activity : x.tx \in kept} |-> activity[e]]
      /\ transfers' = [o \in {x \in DOMAIN transfers : CreatedBy[x] \in kept} |-> transfers[o]]
      /\ counted' = [e \in Entry |->
                       IF e.address \in Affected(ancestor) THEN Recounted(e, ancestor)
                       ELSE counted[e]]
      /\ bestHeight' = Processed(ancestor) /\ rawHeight' = ancestor

Next ==
  \/ Stage
  \/ \E r \in RangesWithin(0, MaxHeight) : Prepare(r)
  \/ Reduce
  \/ \E ancestor \in -1..rawHeight : Rollback(ancestor)

Spec == Init /\ [][Next]_vars

-----------------------------------------------------------------------------
\* What readers see: every query is gated by best_height.

Unspent ==
  {o \in Output :
     /\ CreatedBy[o] \in TxsWithin(0, bestHeight)
     /\ \/ spentBy[o] = NoTx
        \/ spentBy[o] \in DOMAIN txs /\ txs[spentBy[o]] > bestHeight}

TransfersWithin(hi) == {o \in DOMAIN transfers : transfers[o] <= hi}

-----------------------------------------------------------------------------
\* Reference definitions, from the blocks alone.

Mined(hi) == UNION {TxsOf[blocks[h]] : h \in {k \in DOMAIN blocks : k <= hi}}

EntriesUpTo(hi) == UNION {EntriesOf[t] : t \in Mined(hi)}

TypeOK ==
  /\ blocks \in Chains \cup {NoRows}
  /\ rawHeight \in -1..MaxHeight /\ bestHeight \in -1..rawHeight
  /\ DOMAIN txs \subseteq Tx /\ \A t \in DOMAIN txs : txs[t] \in 0..rawHeight
  /\ resolved \subseteq [tx : DOMAIN txs, output : Output]
  /\ spentBy \in [Output -> DOMAIN txs \cup {NoTx}]
  /\ DOMAIN activity \subseteq Entry
  /\ \A e \in DOMAIN activity : e.tx \in DOMAIN txs /\ activity[e] = txs[e.tx]
  /\ DOMAIN transfers \subseteq AssetOutput
  /\ \A o \in DOMAIN transfers : /\ CreatedBy[o] \in DOMAIN txs
                                /\ transfers[o] = txs[CreatedBy[o]]
  /\ batches \subseteq [first : 0..rawHeight, last : 0..rawHeight,
                        status : {"prepared", "reduced"}, deltas : SUBSET Entry]
  /\ counted \in [Entry -> Nat]

(***************************************************************************)
(* Every activity row of the processed blocks is in its address's balance  *)
(* exactly once, and no other row is: however batches were prepared, in    *)
(* what order, whatever a rollback cut through, and also when a            *)
(* transaction was mined again on another branch.                          *)
(***************************************************************************)
BalancesExact ==
  \A e \in Entry : counted[e] = IF e \in EntriesUpTo(bestHeight) THEN 1 ELSE 0

(***************************************************************************)
(* The unspent outputs shown to readers are those created by a processed   *)
(* block and spent by none, although workers mark outputs spent far above  *)
(* the processed tip and rollbacks remove the spending transactions.       *)
(***************************************************************************)
UnspentExact ==
  Unspent = {o \in Output : /\ CreatedBy[o] \in Mined(bestHeight)
                            /\ \A t \in Mined(bestHeight) : o \notin Spends[t]}

(***************************************************************************)
(* A processed transaction has every input resolved, so its fee and the    *)
(* source of its value are known ("staged blocks never appear with         *)
(* incomplete balances or transfers", README.md), and its history rows     *)
(* carry its own height.                                                   *)
(***************************************************************************)
ProcessedIsComplete ==
  \A t \in Mined(bestHeight) :
    /\ t \in DOMAIN txs /\ t \in TxsOf[blocks[txs[t]]]
    /\ \A o \in Spends[t] : [tx |-> t, output |-> o] \in resolved
    /\ \A e \in EntriesOf[t] : e \in DOMAIN activity /\ activity[e] = txs[t]

(***************************************************************************)
(* A prepared batch holds the rows of all its heights and of no other, so  *)
(* a restarted process may reduce it without looking at the blocks again.  *)
(***************************************************************************)
DeltasExact ==
  \A b \in batches :
    b.deltas = IF b.status = "reduced" THEN {}
               ELSE UNION {EntriesOf[t] : t \in UNION {TxsOf[blocks[h]] : h \in Heights(b)}}

\* The batches without their rows.
Durable == {[first |-> b.first, last |-> b.last, status |-> b.status] : b \in batches}

Recorded == INSTANCE Checkpoints WITH batches <- Durable

(***************************************************************************)
(* These are the checkpoint transactions: each action is the one of that   *)
(* name in Checkpoints, and assigns the other tables without a condition.  *)
(***************************************************************************)
ImplementsCheckpoints == Recorded!Spec
=============================================================================
