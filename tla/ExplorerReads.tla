--------------------------- MODULE ExplorerReads ---------------------------
(***************************************************************************)
(* The pages the API builds from several queries (server/repository.mjs).  *)
(* Each query sees one committed state of the database; between two        *)
(* queries of a request the indexer may commit anything, which is module   *)
(* Ledger.  One request is followed at a time: requests share nothing.     *)
(*                                                                         *)
(* A list is cut off by the LIMIT of its query.  A count or a sum is kept  *)
(* as the set of what is counted or added up.                              *)
(***************************************************************************)
EXTENDS Ledger, FiniteSetsExt

CONSTANT Limit   \* the LIMIT of each query, a request's own or a fixed one

ASSUME LimitAssumption ==
  Limit \in [{"blocks", "latest", "utxos", "history", "transfers", "ranking"} -> Nat]

VARIABLES
  page,    \* the request: its key, the queries still to run, the rows it has
  since    \* what was committed since its first query

readVars == <<page, since>>

NoPage == [kind |-> "none", pending |-> {}]

\* ORDER BY height DESC LIMIT: any of the rows of one height may come first.
Newest(height, limit) ==
  {S \in SUBSET DOMAIN height :
     /\ Cardinality(S) = Min({limit, Cardinality(DOMAIN height)})
     /\ \A s \in S, r \in (DOMAIN height) \ S : height[r] <= height[s]}

\* LIMIT OFFSET, in an order the model does not have.
PageOf(rows, offset, limit) ==
  {S \in SUBSET rows : Cardinality(S) = Min({limit, Max({Cardinality(rows) - offset, 0})})}

ReadInit == Init /\ page = NoPage /\ since = {}

\* Seeded fault: the first query is not gated.
VisibleHeightUngated(h) == h <= rawHeight

\* `block_height <= s.best_height`
VisibleHeight(h) == h <= bestHeight

\* The first query of getIndexedBlock.
OpenBlock ==
  \E h \in DOMAIN blocks :
    /\ VisibleHeight(h)
    /\ page' = [kind |-> "block", height |-> h, block |-> blocks[h],
                pending |-> {"transactions"}, transactions |-> {}, tip |-> bestHeight]

\* Its second query, which is by height only.
ReadBlockTransactions ==
  /\ page.kind = "block" /\ "transactions" \in page.pending
  /\ page' = [page EXCEPT !.pending = {}, !.tip = bestHeight,
                          !.transactions = TxsWithin(page.height, page.height)]

\* getIndexedBlocks reads the tip, then the blocks up to that tip, or from a height below it.
OpenBlockList ==
  \E start \in 0..MaxHeight :
    page' = [kind |-> "blocks", upper |-> Min({start, bestHeight}), pending |-> {"rows"},
             rows |-> {}, tip |-> bestHeight]

ReadBlockList ==
  /\ page.kind = "blocks" /\ "rows" \in page.pending
  /\ \E rows \in Newest([h \in {k \in DOMAIN blocks : k <= page.upper} |-> h], Limit.blocks) :
       page' = [page EXCEPT !.pending = {}, !.tip = bestHeight, !.rows = rows]

\* getIndexedTransaction: the row, then inputs and outputs in either order.
OpenTransaction ==
  \E t \in DOMAIN txs :
    /\ VisibleHeight(txs[t])
    /\ page' = [kind |-> "transaction", tx |-> t, pending |-> {"inputs", "outputs"},
                unresolved |-> {}, inputs |-> {}, outputs |-> {}]

ReadInputs ==
  /\ page.kind = "transaction" /\ "inputs" \in page.pending
  /\ LET rows == IF page.tx \in DOMAIN txs THEN Spends[page.tx] ELSE {}
     IN  page' = [page EXCEPT !.pending = @ \ {"inputs"}, !.inputs = rows,
                    !.unresolved = {o \in rows : [tx |-> page.tx, output |-> o] \notin resolved}]

ReadOutputs ==
  /\ page.kind = "transaction" /\ "outputs" \in page.pending
  /\ page' = [page EXCEPT !.pending = @ \ {"outputs"},
                !.outputs = {o \in Output : CreatedBy[o] = page.tx /\ page.tx \in DOMAIN txs}]

\* getIndexedAddress: four queries, in any order.
OpenAddress ==
  \E a \in Address :
    page' = [kind |-> "address", address |-> a, pending |-> {"balances", "count", "utxos", "recent"},
             balance |-> {}, count |-> {}, utxos |-> {}, recent |-> {}]

\* A balance as the outputs in it, from address_balances.
Balance(a) ==
  LET moved(direction) == {e.output : e \in {x \in Entry : x.address = a /\ x.direction = direction
                                                          /\ counted[x] > 0}}
  IN  moved("receive") \ moved("send")

\* Balances are not gated: the reducer moves them with best_height.
ReadBalances ==
  /\ page.kind = "address" /\ "balances" \in page.pending
  /\ page' = [page EXCEPT !.pending = @ \ {"balances"}, !.balance = Balance(page.address)]

VisibleHistory(a) ==
  {e.tx : e \in {x \in DOMAIN activity : x.address = a /\ VisibleHeight(activity[x])}}

\* address_transactions.block_height
ActiveAt(a, t) == activity[CHOOSE e \in DOMAIN activity : e.address = a /\ e.tx = t]

ReadHistory ==
  /\ page.kind = "address"
  /\ \/ /\ "count" \in page.pending
        /\ page' = [page EXCEPT !.pending = @ \ {"count"}, !.count = VisibleHistory(page.address)]
     \/ /\ "recent" \in page.pending
        /\ \E rows \in Newest([t \in VisibleHistory(page.address) |-> ActiveAt(page.address, t)],
                              Limit.history) :
             page' = [page EXCEPT !.pending = @ \ {"recent"}, !.recent = rows]

ReadUtxos ==
  /\ page.kind = "address" /\ "utxos" \in page.pending
  /\ \E rows \in Newest([o \in {u \in Unspent : page.address \in Owners[u]} |-> txs[CreatedBy[o]]],
                        Limit.utxos) :
       page' = [page EXCEPT !.pending = @ \ {"utxos"}, !.utxos = rows]

\* Rows of address_transactions between two heights.
ActiveAddresses(lo, hi) == {e.address : e \in {x \in DOMAIN activity : activity[x] \in lo..hi}}

\* getIndexedNetworkStats: two queries, each with its own tip and window of time.
OpenStats ==
  page' = [kind |-> "stats", pending |-> {"rollup", "history"}, tip |-> bestHeight,
           window |-> {}, active |-> {}, history |-> {}]

ReadRollup ==
  /\ page.kind = "stats" /\ "rollup" \in page.pending
  /\ \E start \in 0..MaxHeight :
       /\ start <= bestHeight \/ (bestHeight = -1 /\ start = 0)
       /\ page' = [page EXCEPT !.pending = @ \ {"rollup"}, !.tip = bestHeight,
                      !.window = start .. bestHeight, !.active = ActiveAddresses(start, bestHeight)]

ReadHourly ==
  /\ page.kind = "stats" /\ "history" \in page.pending
  /\ page' = [page EXCEPT !.pending = @ \ {"history"}, !.tip = bestHeight,
                 !.history = {[height |-> h, active |-> ActiveAddresses(h, h)] : h \in 0 .. bestHeight}]

\* getIndexedAddresses: the ranking and the distribution, in either order.
OpenRanking ==
  \E offset \in {0, Limit.ranking} :
    page' = [kind |-> "ranking", offset |-> offset, pending |-> {"ranked", "distribution"},
             rows |-> {}, total |-> {}]

\* Which addresses have the most is left open.
ReadRanked ==
  /\ page.kind = "ranking" /\ "ranked" \in page.pending
  /\ \E ranked \in PageOf({a \in Address : Balance(a) # {}}, page.offset, Limit.ranking) :
       page' = [page EXCEPT !.pending = @ \ {"ranked"},
                  !.rows = {[address |-> a, balance |-> Balance(a), history |-> VisibleHistory(a)] :
                              a \in ranked}]

\* The sum of all balances, and their number.
ReadDistribution ==
  /\ page.kind = "ranking" /\ "distribution" \in page.pending
  /\ page' = [page EXCEPT !.pending = @ \ {"distribution"},
                          !.total = UNION {{a} \X Balance(a) : a \in Address}]

\* getIndexedTransactions.
OpenLatest ==
  \E rows \in Newest([t \in {u \in DOMAIN txs : VisibleHeight(txs[u])} |-> txs[t]], Limit.latest) :
    page' = [kind |-> "latest", pending |-> {}, tip |-> bestHeight, rows |-> rows]

\* getIndexedAsset: the asset, then its transfers.
OpenAsset ==
  page' = [kind |-> "asset", pending |-> {"transfers"}, tip |-> bestHeight, rows |-> {}]

ReadTransfers ==
  /\ page.kind = "asset" /\ "transfers" \in page.pending
  /\ \E rows \in Newest([o \in TransfersWithin(bestHeight) |-> transfers[o]], Limit.transfers) :
       page' = [page EXCEPT !.pending = {}, !.tip = bestHeight, !.rows = rows]

Request ==
  /\ \/ /\ page.pending = {} /\ since' = {}
        /\ \/ OpenBlock \/ OpenBlockList \/ OpenTransaction \/ OpenAddress
           \/ OpenStats \/ OpenRanking \/ OpenLatest \/ OpenAsset
     \/ /\ UNCHANGED since
        /\ \/ ReadBlockTransactions \/ ReadBlockList \/ ReadInputs \/ ReadOutputs
           \/ ReadBalances \/ ReadHistory \/ ReadUtxos
           \/ ReadRollup \/ ReadHourly \/ ReadRanked \/ ReadDistribution \/ ReadTransfers
  /\ UNCHANGED vars

\* A commit is noted for a request in progress; a finished page has been sent.
Noted(event) ==
  IF page.pending = {} THEN page' = NoPage /\ since' = {}
  ELSE since' = since \cup event /\ UNCHANGED page

Commit ==
  \/ Stage /\ Noted({})
  \/ (\E r \in RangesWithin(0, MaxHeight) : Prepare(r)) /\ Noted({})
  \/ Reduce /\ Noted({"reduce"})
  \/ (\E ancestor \in -1..rawHeight : Rollback(ancestor)) /\ Noted({"rollback"})

ReadNext == Request \/ Commit

ReadSpec == ReadInit /\ [][ReadNext]_<<vars, readVars>>

-----------------------------------------------------------------------------
Complete(kind) == page.kind = kind /\ page.pending = {}

\* The heights a finished page shows.
ShownHeights ==
  CASE page.kind = "block"  -> IF page.transactions = {} THEN {} ELSE {page.height}
    [] page.kind = "blocks" -> page.rows
    [] OTHER                -> {}

\* The addresses the transactions of these heights touch, from the blocks alone.
AddressesMined(heights) ==
  {e.address : e \in UNION {EntriesOf[t] : t \in UNION {TxsOf[blocks[h]] : h \in heights}}}

\* The height of a transaction, from the blocks alone.
MinedAt(t) == CHOOSE h \in DOMAIN blocks : t \in TxsOf[blocks[h]]

(***************************************************************************)
(* As long as no rollback commits between the queries of a request, what   *)
(* its page shows fits together: a block has its own transactions and is   *)
(* processed, a list has the newest processed blocks up to the height it   *)
(* asked for, a transaction has all its outputs and only resolved inputs,  *)
(* the statistics count every processed block and no staged one, and the   *)
(* latest transactions and an asset's transfers are the newest that are    *)
(* processed, as many as the query's limit, although batches are reduced   *)
(* and prepared in between.                                                *)
(***************************************************************************)
PagesFitWithoutRollback ==
  "rollback" \notin since =>
    /\ Complete("block") => page.transactions = TxsOf[page.block]
    /\ page.pending = {} => \A h \in ShownHeights : h <= page.tip
    /\ Complete("blocks") => page.rows \in Newest([h \in 0 .. page.upper |-> h], Limit.blocks)
    /\ Complete("transaction") =>
         /\ page.inputs = Spends[page.tx] /\ page.unresolved = {}
         /\ page.outputs = {o \in Output : CreatedBy[o] = page.tx}
    /\ Complete("stats") =>
         /\ page.active = AddressesMined(page.window)
         /\ \A row \in page.history : row.active = AddressesMined({row.height})
    /\ Complete("latest") =>
         page.rows \in Newest([t \in Mined(page.tip) |-> MinedAt(t)], Limit.latest)
    /\ Complete("asset") =>
         page.rows \in Newest([o \in {u \in AssetOutput : CreatedBy[u] \in Mined(page.tip)} |->
                                MinedAt(CreatedBy[o])], Limit.transfers)

(***************************************************************************)
(* An address page or a ranking whose queries all see the same checkpoint  *)
(* adds up.  The unspent outputs listed are the newest of those that make  *)
(* up the balance (all of them, up to the limit of 100), and the           *)
(* transactions listed the newest of those that are counted (all, up to    *)
(* 25).  The total is that of every unspent output, once for each address  *)
(* it is paid to; a page of the ranking has as many of the addresses with  *)
(* a balance as are left after the pages before it, and what it says of    *)
(* each is that address's share of the total and its history.  The queries *)
(* are gated one by one, each by its own join with sync_state, and         *)
(* balances are not gated at all.                                          *)
(***************************************************************************)
AddressPageAddsUp ==
  since = {} =>
    /\ Complete("address") =>
         /\ page.utxos \in Newest([o \in page.balance |-> MinedAt(CreatedBy[o])], Limit.utxos)
         /\ page.recent \in Newest([t \in page.count |-> MinedAt(t)], Limit.history)
    /\ Complete("ranking") =>
         /\ page.total = {share \in Address \X Unspent : share[1] \in Owners[share[2]]}
         /\ {row.address : row \in page.rows}
              \in PageOf({share[1] : share \in page.total}, page.offset, Limit.ranking)
         /\ \A row \in page.rows :
              /\ row.balance = {o \in Unspent : row.address \in Owners[o]}
              /\ row.history = {t \in Mined(bestHeight) :
                                  \E e \in EntriesOf[t] : e.address = row.address}

(***************************************************************************)
(* "The API only exposes the processed tip, so staged blocks never appear  *)
(* with incomplete balances or transfers" (README.md): every block or      *)
(* transaction on a page was processed when the page read it.              *)
(***************************************************************************)
OnlyProcessedShown == page.pending = {} => \A h \in ShownHeights : h <= page.tip
=============================================================================
