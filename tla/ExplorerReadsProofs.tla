------------------------- MODULE ExplorerReadsProofs -------------------------
(***************************************************************************)
(* What a page shows fits together, for every chain, every page and every  *)
(* number of commits between its queries.                                  *)
(*                                                                         *)
(* A page in the making is related to the tables as they are now: as long  *)
(* as nothing is rolled back, the blocks its rows came from stay, and as   *)
(* long as no batch is reduced either, the processed transactions stay.    *)
(* So each answer is as good when the last query runs as it was when it    *)
(* came, and the queries agree.                                            *)
(*                                                                         *)
(* The reconciliation tool reads a snapshot instead.  What is proved of it *)
(* rests on the same invariant of the ledger: that the tables are sound    *)
(* when they are read, for any node and any commits meanwhile.             *)
(***************************************************************************)
EXTENDS ExplorerReads, ReconcileRpc, FiniteSetTheorems, WellFoundedInduction, LedgerProofs

\* The shapes of the pages.
BlockPage(height, block, pending, transactions, tip) ==
  [kind |-> "block", height |-> height, block |-> block, pending |-> pending,
   transactions |-> transactions, tip |-> tip]

ListPage(upper, pending, rows, tip) ==
  [kind |-> "blocks", upper |-> upper, pending |-> pending, rows |-> rows, tip |-> tip]

TransactionPage(tx, pending, unresolved, inputs, outputs) ==
  [kind |-> "transaction", tx |-> tx, pending |-> pending, unresolved |-> unresolved,
   inputs |-> inputs, outputs |-> outputs]

AddressPage(address, pending, balance, count, utxos, recent) ==
  [kind |-> "address", address |-> address, pending |-> pending, balance |-> balance,
   count |-> count, utxos |-> utxos, recent |-> recent]

StatsPage(pending, tip, window, active, history) ==
  [kind |-> "stats", pending |-> pending, tip |-> tip, window |-> window, active |-> active,
   history |-> history]

RankingPage(offset, pending, rows, total) ==
  [kind |-> "ranking", offset |-> offset, pending |-> pending, rows |-> rows, total |-> total]

AssetPage(pending, tip, rows) ==
  [kind |-> "asset", pending |-> pending, tip |-> tip, rows |-> rows]

-----------------------------------------------------------------------------
\* The processed transactions, and what they leave to an address.
ProcessedTxs == Mined(bestHeight)

Held(a) ==
  {o \in Output : /\ a \in Owners[o] /\ CreatedBy[o] \in ProcessedTxs
                  /\ \A t \in ProcessedTxs : o \notin Spends[t]}

History(a) == {t \in ProcessedTxs : \E e \in EntriesOf[t] : e.address = a}

\* With the heights a list is ordered by.
Height == [t \in ProcessedTxs |-> MinedAt(t)]
HeldAt(a) == [o \in Held(a) |-> Height[CreatedBy[o]]]
HistoryAt(a) == [t \in History(a) |-> Height[t]]
LatestAt(tip) == [t \in Mined(tip) |-> MinedAt(t)]
TransfersAt(tip) ==
  [o \in {u \in AssetOutput : CreatedBy[u] \in Mined(tip)} |-> MinedAt(CreatedBy[o])]

\* What the ranking says of an address, and the shares of all.
Holders == {a \in Address : Held(a) # {}}
Standing(a) == [address |-> a, balance |-> Held(a), history |-> History(a)]
Shares == UNION {{a} \X Held(a) : a \in Address}

-----------------------------------------------------------------------------
\* What is known of a page in the making.
BlockFacts ==
  page.kind = "block" =>
    /\ page = BlockPage(page.height, page.block, page.pending, page.transactions, page.tip)
    /\ "rollback" \notin since =>
         /\ page.height \in 0..bestHeight /\ page.block = blocks[page.height]
         /\ "transactions" \notin page.pending =>
              page.transactions = TxsOf[page.block] /\ page.height <= page.tip

ListFacts ==
  page.kind = "blocks" =>
    /\ page = ListPage(page.upper, page.pending, page.rows, page.tip)
    /\ "rollback" \notin since =>
         /\ page.upper \in Int /\ page.upper <= bestHeight
         /\ "rows" \notin page.pending =>
              /\ page.rows \in Newest([h \in 0 .. page.upper |-> h], Limit.blocks)
              /\ \A h \in page.rows : h <= page.tip

TransactionFacts ==
  page.kind = "transaction" =>
    /\ page = TransactionPage(page.tx, page.pending, page.unresolved, page.inputs, page.outputs)
    /\ "rollback" \notin since =>
         /\ page.tx \in DOMAIN txs /\ txs[page.tx] <= bestHeight
         /\ "inputs" \notin page.pending => page.inputs = Spends[page.tx] /\ page.unresolved = {}
         /\ "outputs" \notin page.pending => page.outputs = {o \in Output : CreatedBy[o] = page.tx}

StatsFacts ==
  page.kind = "stats" =>
    /\ page = StatsPage(page.pending, page.tip, page.window, page.active, page.history)
    /\ "rollback" \notin since =>
         /\ "rollup" \notin page.pending =>
              page.window \subseteq DOMAIN blocks /\ page.active = AddressesMined(page.window)
         /\ "history" \notin page.pending =>
              \A row \in page.history :
                row.height \in DOMAIN blocks /\ row.active = AddressesMined({row.height})

LatestFacts ==
  page.kind = "latest" =>
    page.pending = {} /\ page.rows \in Newest(LatestAt(page.tip), Limit.latest)

AssetFacts ==
  page.kind = "asset" =>
    /\ page = AssetPage(page.pending, page.tip, page.rows)
    /\ "transfers" \notin page.pending =>
         page.pending = {} /\ page.rows \in Newest(TransfersAt(page.tip), Limit.transfers)

AddressFacts ==
  page.kind = "address" =>
    /\ page = AddressPage(page.address, page.pending, page.balance, page.count, page.utxos,
                          page.recent)
    /\ page.address \in Address
    /\ since = {} =>
         /\ "balances" \notin page.pending => page.balance = Held(page.address)
         /\ "utxos" \notin page.pending => page.utxos \in Newest(HeldAt(page.address), Limit.utxos)
         /\ "count" \notin page.pending => page.count = History(page.address)
         /\ "recent" \notin page.pending =>
              page.recent \in Newest(HistoryAt(page.address), Limit.history)

\* A page of the ranking.
Ranked(rows, from) ==
  \E ranked \in PageOf(Holders, from, Limit.ranking) : rows = {Standing(a) : a \in ranked}

RankingFacts ==
  page.kind = "ranking" =>
    /\ page = RankingPage(page.offset, page.pending, page.rows, page.total)
    /\ since = {} =>
         /\ "ranked" \notin page.pending => Ranked(page.rows, page.offset)
         /\ "distribution" \notin page.pending => page.total = Shares

PageFacts ==
  /\ BlockFacts /\ ListFacts /\ TransactionFacts /\ StatsFacts
  /\ LatestFacts /\ AssetFacts /\ AddressFacts /\ RankingFacts

ReadIInv == IInv /\ PageFacts

-----------------------------------------------------------------------------
\* The staged blocks, in numbers.
LEMMA StagedHeights ==
  ASSUME IInv
  PROVE  /\ rawHeight \in Int /\ bestHeight \in Int /\ -1 <= bestHeight /\ bestHeight <= rawHeight
         /\ DOMAIN blocks = 0..rawHeight
BY StagedIsChain DEF IInv, Rows, NoRows

\* Staging, preparing and reducing keep every block and every transaction.
LEMMA Extended ==
  ASSUME IInv, Stage \/ (\E r \in RangesWithin(0, MaxHeight) : Prepare(r)) \/ Reduce
  PROVE  /\ bestHeight' \in Int /\ bestHeight <= bestHeight'
         /\ \A h \in DOMAIN blocks : h \in DOMAIN blocks' /\ blocks'[h] = blocks[h]
         /\ \A t \in DOMAIN txs : t \in DOMAIN txs' /\ txs'[t] = txs[t]
<1>1. bestHeight \in Int
  BY StagedHeights
<1>2. CASE Stage
  BY <1>1, <1>2 DEF Stage
<1>3. CASE \E r \in RangesWithin(0, MaxHeight) : Prepare(r)
  BY <1>1, <1>3 DEF Prepare
<1>4. CASE Reduce
  <2>1. PICK b \in batches : /\ b.first = bestHeight + 1 /\ bestHeight' = b.last
                             /\ UNCHANGED <<blocks, txs>>
    BY <1>4 DEF Reduce
  <2>2. b.first \in 0..rawHeight /\ b.last \in 0..rawHeight /\ b.first <= b.last
    BY DEF IInv, Batches
  <2>. QED
    BY <1>1, <2>1, <2>2, StagedHeights
<1>. QED
  BY <1>2, <1>3, <1>4

\* Staging and preparing leave the processed transactions alone.
LEMMA SameProcessed ==
  ASSUME IInv, Stage \/ (\E r \in RangesWithin(0, MaxHeight) : Prepare(r))
  PROVE  ProcessedTxs' = ProcessedTxs
<1>1. CASE Stage
  <2>1. PICK c \in Chains :
          /\ \A h \in DOMAIN blocks : h \in DOMAIN c /\ c[h] = blocks[h]
          /\ blocks' = c /\ bestHeight' = bestHeight
    BY <1>1 DEF Stage
  <2>2. DOMAIN c \subseteq Nat
    BY ChainShape
  <2>3. \A h \in DOMAIN c : h <= bestHeight => h \in DOMAIN blocks
    BY <2>2, StagedHeights
  <2>4. {k \in DOMAIN c : k <= bestHeight} = {k \in DOMAIN blocks : k <= bestHeight}
    BY <2>1, <2>3
  <2>5. UNION {TxsOf[c[h]] : h \in {k \in DOMAIN c : k <= bestHeight}}
          = UNION {TxsOf[blocks[h]] : h \in {k \in DOMAIN blocks : k <= bestHeight}}
    BY <2>1, <2>4
  <2>. QED
    BY <2>1, <2>5 DEF ProcessedTxs, Mined
<1>2. CASE \E r \in RangesWithin(0, MaxHeight) : Prepare(r)
  <2>1. UNCHANGED <<blocks, bestHeight>>
    BY <1>2 DEF Prepare
  <2>. QED
    BY <2>1 DEF ProcessedTxs, Mined
<1>. QED
  BY <1>1, <1>2

-----------------------------------------------------------------------------
\* A processed transaction is a row, and its enrichment is done.
LEMMA ProcessedTx ==
  ASSUME IInv, NEW t
  PROVE  /\ t \in ProcessedTxs <=> t \in DOMAIN txs /\ txs[t] <= bestHeight
         /\ t \in ProcessedTxs => Enriched(t) /\ t \in Tx
<1>1. t \in ProcessedTxs <=> t \in DOMAIN txs /\ txs[t] <= bestHeight
  BY MinedRows DEF ProcessedTxs
<1>2. t \in ProcessedTxs => Enriched(t)
  BY <1>1 DEF IInv, PreparedBefore
<1>3. t \in ProcessedTxs => t \in Tx
  BY <1>1, StagedTx DEF IInv
<1>. QED
  BY <1>1, <1>2, <1>3

\* The rows of a chain have its heights.
LEMMA RowHeight ==
  ASSUME NEW c, NEW n \in Int, DOMAIN c = 0..n, NEW x, NEW t \in DOMAIN x, x[t] \in 0..n,
         t \in TxsOf[c[x[t]]],
         \A h \in 0..n : \A u \in TxsOf[c[h]] : u \in DOMAIN x /\ x[u] = h
  PROVE  (CHOOSE h \in DOMAIN c : t \in TxsOf[c[h]]) = x[t]
OBVIOUS

LEMMA MinedAtRow ==
  ASSUME IInv, NEW t \in DOMAIN txs
  PROVE  MinedAt(t) = txs[t]
<1>1. /\ rawHeight \in Int /\ DOMAIN blocks = 0..rawHeight
  BY StagedHeights
<1>2. /\ txs[t] \in 0..rawHeight /\ t \in TxsOf[blocks[txs[t]]]
      /\ \A h \in 0..rawHeight : \A u \in TxsOf[blocks[h]] : u \in DOMAIN txs /\ txs[u] = h
  BY DEF IInv, TxRows
<1>3. (CHOOSE h \in DOMAIN blocks : t \in TxsOf[blocks[h]]) = txs[t]
  BY <1>1, <1>2, RowHeight
<1>. QED
  BY <1>3 DEF MinedAt

\* They stay as they are while blocks are added and prepared.
LEMMA SameHeights ==
  ASSUME IInv, Stage \/ (\E r \in RangesWithin(0, MaxHeight) : Prepare(r))
  PROVE  Height' = Height
<1>1. IInv'
  BY NextStep DEF Next
<1>2. ProcessedTxs' = ProcessedTxs
  BY SameProcessed
<1>3. ASSUME NEW t \in ProcessedTxs PROVE MinedAt(t)' = MinedAt(t)
  <2>1. t \in DOMAIN txs /\ MinedAt(t) = txs[t]
    BY <1>3, ProcessedTx, MinedAtRow
  <2>2. t \in DOMAIN txs' /\ txs'[t] = txs[t]
    BY <2>1, Extended
  <2>3. rawHeight' \in Int /\ DOMAIN blocks' = 0..rawHeight'
    BY <1>1 DEF IInv, Rows, NoRows, ChainsOfHeight
  <2>4. /\ txs'[t] \in 0..rawHeight' /\ t \in TxsOf[blocks'[txs'[t]]]
        /\ \A h \in 0..rawHeight' : \A u \in TxsOf[blocks'[h]] : u \in DOMAIN txs' /\ txs'[u] = h
    BY <1>1, <2>2 DEF IInv, TxRows
  <2>5. (CHOOSE h \in DOMAIN blocks' : t \in TxsOf[blocks'[h]]) = txs'[t]
    BY <2>2, <2>3, <2>4, RowHeight
  <2>. QED
    BY <2>1, <2>2, <2>5 DEF MinedAt
<1>4. \A t \in ProcessedTxs : MinedAt(t)' = MinedAt(t)
  BY <1>3
<1>. QED
  BY <1>2, <1>4 DEF Height

\* The transactions of one height.
LEMMA TxsAtHeight ==
  ASSUME IInv, NEW h \in DOMAIN blocks
  PROVE  TxsWithin(h, h) = TxsOf[blocks[h]]
<1>1. rawHeight \in Int /\ DOMAIN blocks = 0..rawHeight
  BY StagedHeights
<1>2. \A t \in DOMAIN txs : txs[t] \in 0..rawHeight /\ t \in TxsOf[blocks[txs[t]]]
  BY DEF IInv, TxRows
<1>3. \A t \in TxsOf[blocks[h]] : t \in DOMAIN txs /\ txs[t] = h
  BY <1>1 DEF IInv, TxRows
<1>4. h \in Int
  BY <1>1
<1>. QED
  BY <1>2, <1>3, <1>4 DEF TxsWithin

\* What an address holds, from the balances, and from the unspent outputs.
LEMMA BalanceIsHeld ==
  ASSUME IInv, NEW a
  PROVE  Balance(a) = Held(a)
<1>1. \A e \in Entry : counted[e] > 0 <=> e.tx \in ProcessedTxs
  <2>. SUFFICES ASSUME NEW e \in Entry PROVE counted[e] > 0 <=> e.tx \in ProcessedTxs
    OBVIOUS
  <2>1. counted[e] = IF e.tx \in DOMAIN txs /\ txs[e.tx] <= bestHeight THEN 1 ELSE 0
    BY DEF IInv, Balances
  <2>2. e.tx \in ProcessedTxs <=> e.tx \in DOMAIN txs /\ txs[e.tx] <= bestHeight
    BY ProcessedTx
  <2>. QED
    BY <2>1, <2>2
<1>. DEFINE moved(direction) ==
       {e.output : e \in {x \in Entry : x.address = a /\ x.direction = direction /\ counted[x] > 0}}
<1>2. ASSUME NEW o
      PROVE  o \in moved("receive")
               <=> o \in Output /\ a \in Owners[o] /\ CreatedBy[o] \in ProcessedTxs
  <2>1. ASSUME NEW e \in Entry, e.address = a, e.direction = "receive", e.output = o,
               counted[e] > 0
        PROVE  o \in Output /\ a \in Owners[o] /\ CreatedBy[o] \in ProcessedTxs
    <3>1. e.tx \in ProcessedTxs
      BY <1>1, <2>1
    <3>2. e.output \in Output /\ e.address \in Owners[e.output] /\ e.tx = CreatedBy[e.output]
      BY <2>1 DEF Entry
    <3>. QED
      BY <2>1, <3>1, <3>2
  <2>2. ASSUME o \in Output, a \in Owners[o], CreatedBy[o] \in ProcessedTxs
        PROVE  o \in moved("receive")
    <3>. DEFINE e == [direction |-> "receive", address |-> a, output |-> o, tx |-> CreatedBy[o]]
    <3>1. a \in Address /\ CreatedBy[o] \in Tx
      BY <2>2, LedgerAssumption
    <3>2. e \in Entry
      BY <2>2, <3>1 DEF Entry
    <3>3. e.address = a /\ e.direction = "receive" /\ e.output = o /\ e.tx = CreatedBy[o]
      OBVIOUS
    <3>4. counted[e] > 0
      BY <1>1, <2>2, <3>2, <3>3
    <3>. HIDE DEF e
    <3>. QED
      BY <3>2, <3>3, <3>4
  <2>. QED
    BY <2>1, <2>2
<1>3. ASSUME NEW o
      PROVE  o \in moved("send")
               <=> o \in Output /\ a \in Owners[o] /\ \E t \in ProcessedTxs : o \in Spends[t]
  <2>1. ASSUME NEW e \in Entry, e.address = a, e.direction = "send", e.output = o,
               counted[e] > 0
        PROVE  o \in Output /\ a \in Owners[o] /\ \E t \in ProcessedTxs : o \in Spends[t]
    <3>1. e.tx \in ProcessedTxs
      BY <1>1, <2>1
    <3>2. e.output \in Output /\ e.address \in Owners[e.output] /\ e.output \in Spends[e.tx]
      BY <2>1 DEF Entry
    <3>. QED
      BY <2>1, <3>1, <3>2
  <2>2. ASSUME o \in Output, a \in Owners[o], NEW t \in ProcessedTxs, o \in Spends[t]
        PROVE  o \in moved("send")
    <3>. DEFINE e == [direction |-> "send", address |-> a, output |-> o, tx |-> t]
    <3>1. a \in Address /\ t \in Tx
      BY <2>2, LedgerAssumption, ProcessedTx
    <3>2. e \in Entry
      BY <2>2, <3>1 DEF Entry
    <3>3. e.address = a /\ e.direction = "send" /\ e.output = o /\ e.tx = t
      OBVIOUS
    <3>4. counted[e] > 0
      BY <1>1, <2>2, <3>2, <3>3
    <3>. HIDE DEF e
    <3>. QED
      BY <3>2, <3>3, <3>4
  <2>. QED
    BY <2>1, <2>2
<1>4. Balance(a) = moved("receive") \ moved("send")
  BY DEF Balance
<1>. HIDE DEF moved
<1>. QED
  BY <1>2, <1>3, <1>4 DEF Held

LEMMA UnspentIsHeld ==
  ASSUME IInv, NEW a
  PROVE  {o \in Unspent : a \in Owners[o]} = Held(a)
BY UnspentFromBlocks DEF UnspentExact, Held, ProcessedTxs

LEMMA UnspentAtHeights ==
  ASSUME IInv, NEW a
  PROVE  [o \in {u \in Unspent : a \in Owners[u]} |-> txs[CreatedBy[o]]] = HeldAt(a)
<1>1. {u \in Unspent : a \in Owners[u]} = Held(a)
  BY UnspentIsHeld
<1>2. ASSUME NEW o \in Held(a) PROVE txs[CreatedBy[o]] = Height[CreatedBy[o]]
  <2>1. CreatedBy[o] \in ProcessedTxs
    BY DEF Held
  <2>. QED
    BY <2>1, ProcessedTx, MinedAtRow DEF Height
<1>. QED
  BY <1>1, <1>2 DEF HeldAt

\* The history of an address.
LEMMA HistoryIsProcessed ==
  ASSUME IInv, NEW a
  PROVE  VisibleHistory(a) = History(a)
<1>1. ASSUME NEW e \in DOMAIN activity, e.address = a, activity[e] <= bestHeight
      PROVE  e.tx \in History(a)
  <2>1. e \in Entry /\ e.tx \in DOMAIN txs /\ activity[e] = txs[e.tx]
    BY DEF IInv, Dependent
  <2>2. e.tx \in ProcessedTxs
    BY <1>1, <2>1, ProcessedTx
  <2>3. e \in EntriesOf[e.tx]
    BY <2>1, <2>2, ProcessedTx DEF EntriesOf
  <2>. QED
    BY <1>1, <2>2, <2>3 DEF History
<1>2. ASSUME NEW t \in ProcessedTxs, NEW e \in EntriesOf[t], e.address = a
      PROVE  e \in DOMAIN activity /\ activity[e] <= bestHeight /\ e.tx = t
  <2>1. t \in Tx /\ Enriched(t) /\ txs[t] <= bestHeight
    BY ProcessedTx
  <2>2. e \in Entry /\ e.tx = t
    BY <2>1 DEF EntriesOf
  <2>3. e \in DOMAIN activity
    BY <2>1, <2>2 DEF Enriched
  <2>. QED
    BY <2>1, <2>2, <2>3 DEF IInv, Dependent
<1>3. \A t : t \in VisibleHistory(a) <=> \E e \in DOMAIN activity :
                e.address = a /\ activity[e] <= bestHeight /\ e.tx = t
  BY DEF VisibleHistory, VisibleHeight
<1>4. \A t \in History(a) : t \in ProcessedTxs /\ \E e \in EntriesOf[t] : e.address = a
  BY DEF History
<1>. QED
  BY <1>1, <1>2, <1>3, <1>4

LEMMA HistoryAtHeights ==
  ASSUME IInv, NEW a
  PROVE  [t \in VisibleHistory(a) |-> ActiveAt(a, t)] = HistoryAt(a)
<1>1. VisibleHistory(a) = History(a)
  BY HistoryIsProcessed
<1>2. ASSUME NEW t \in History(a) PROVE ActiveAt(a, t) = Height[t]
  <2>1. \E e \in DOMAIN activity : e.address = a /\ e.tx = t
    BY <1>1 DEF VisibleHistory
  <2>2. PICK e \in DOMAIN activity : e.tx = t /\ ActiveAt(a, t) = activity[e]
    BY <2>1 DEF ActiveAt
  <2>3. activity[e] = txs[t]
    BY <2>2 DEF IInv, Dependent
  <2>4. t \in ProcessedTxs
    BY DEF History
  <2>. QED
    BY <2>2, <2>3, <2>4, ProcessedTx, MinedAtRow DEF Height
<1>. QED
  BY <1>1, <1>2 DEF HistoryAt

\* The addresses active between two processed heights.
LEMMA ActiveIsMined ==
  ASSUME IInv, NEW lo \in Nat, NEW hi \in Int, hi <= bestHeight
  PROVE  ActiveAddresses(lo, hi) = AddressesMined(lo .. hi)
<1>0. /\ rawHeight \in Int /\ bestHeight \in Int /\ bestHeight <= rawHeight
  BY StagedHeights
<1>1. ASSUME NEW e \in DOMAIN activity, activity[e] \in lo .. hi
      PROVE  \E h \in lo .. hi : \E t \in TxsOf[blocks[h]] : e \in EntriesOf[t]
  <2>1. e \in Entry /\ e.tx \in DOMAIN txs /\ activity[e] = txs[e.tx]
    BY DEF IInv, Dependent
  <2>2. e.tx \in TxsOf[blocks[txs[e.tx]]] /\ e.tx \in Tx
    BY <2>1, StagedTx DEF IInv, TxRows
  <2>3. e \in EntriesOf[e.tx]
    BY <2>1, <2>2 DEF EntriesOf
  <2>. QED
    BY <1>1, <2>1, <2>2, <2>3
<1>2. ASSUME NEW h \in lo .. hi, NEW t \in TxsOf[blocks[h]], NEW e \in EntriesOf[t]
      PROVE  e \in DOMAIN activity /\ activity[e] \in lo .. hi
  <2>1. h \in 0..rawHeight /\ h <= bestHeight
    BY <1>0
  <2>2. t \in DOMAIN txs /\ txs[t] = h
    BY <2>1 DEF IInv, TxRows
  <2>3. t \in Tx /\ Enriched(t)
    BY <2>1, <2>2, ProcessedTx
  <2>4. e \in Entry /\ e.tx = t
    BY <2>3 DEF EntriesOf
  <2>5. e \in DOMAIN activity
    BY <2>3, <2>4 DEF Enriched
  <2>. QED
    BY <2>2, <2>4, <2>5 DEF IInv, Dependent
<1>. DEFINE mined == UNION {EntriesOf[t] : t \in UNION {TxsOf[blocks[h]] : h \in lo .. hi}}
<1>3. {x \in DOMAIN activity : activity[x] \in lo .. hi} = mined
  BY <1>1, <1>2
<1>4. ActiveAddresses(lo, hi) = {e.address : e \in {x \in DOMAIN activity : activity[x] \in lo .. hi}}
  BY DEF ActiveAddresses
<1>5. AddressesMined(lo .. hi) = {e.address : e \in mined}
  BY DEF AddressesMined
<1>. QED
  BY <1>3, <1>4, <1>5, Zenon

\* The transfers up to the processed tip are the asset outputs mined up to it.
LEMMA TransfersAreMined ==
  ASSUME IInv
  PROVE  TransfersWithin(bestHeight) = {o \in AssetOutput : CreatedBy[o] \in Mined(bestHeight)}
<1>1. ASSUME NEW o \in DOMAIN transfers
      PROVE  /\ o \in AssetOutput
             /\ transfers[o] <= bestHeight <=> CreatedBy[o] \in ProcessedTxs
  BY ProcessedTx DEF IInv, Dependent
<1>2. ASSUME NEW o \in AssetOutput, CreatedBy[o] \in ProcessedTxs
      PROVE  o \in DOMAIN transfers
  BY <1>2, ProcessedTx DEF Enriched
<1>. QED
  BY <1>1, <1>2 DEF TransfersWithin, ProcessedTxs

LEMMA TransfersAtHeights ==
  ASSUME IInv
  PROVE  [o \in TransfersWithin(bestHeight) |-> transfers[o]] = TransfersAt(bestHeight)
<1>1. TransfersWithin(bestHeight) = {u \in AssetOutput : CreatedBy[u] \in Mined(bestHeight)}
  BY TransfersAreMined
<1>2. ASSUME NEW o \in TransfersWithin(bestHeight) PROVE transfers[o] = MinedAt(CreatedBy[o])
  <2>1. o \in DOMAIN transfers
    BY DEF TransfersWithin
  <2>2. CreatedBy[o] \in DOMAIN txs /\ transfers[o] = txs[CreatedBy[o]]
    BY <2>1 DEF IInv, Dependent
  <2>. QED
    BY <2>2, MinedAtRow
<1>. QED
  BY <1>1, <1>2 DEF TransfersAt

\* The latest transactions are the latest of the blocks.
LEMMA LatestAtHeights ==
  ASSUME IInv
  PROVE  [t \in {u \in DOMAIN txs : txs[u] <= bestHeight} |-> txs[t]] = LatestAt(bestHeight)
<1>1. {u \in DOMAIN txs : txs[u] <= bestHeight} = Mined(bestHeight)
  BY MinedRows
<1>2. \A t \in DOMAIN txs : MinedAt(t) = txs[t]
  BY MinedAtRow
<1>. QED
  BY <1>1, <1>2 DEF LatestAt

-----------------------------------------------------------------------------
\* The columns of a page, and what replacing one of them makes of it.
LEMMA BlockPageColumns ==
  ASSUME NEW a, NEW b, NEW c, NEW d, NEW e
  PROVE  LET p == BlockPage(a, b, c, d, e)
         IN  /\ p.kind = "block"
             /\ p.height = a /\ p.block = b /\ p.pending = c /\ p.transactions = d /\ p.tip = e
             /\ \A v : [p EXCEPT !.pending = v] = BlockPage(a, b, v, d, e)
             /\ \A v : [p EXCEPT !.transactions = v] = BlockPage(a, b, c, v, e)
             /\ \A v : [p EXCEPT !.tip = v] = BlockPage(a, b, c, d, v)
BY DEF BlockPage

LEMMA ListPageColumns ==
  ASSUME NEW a, NEW b, NEW c, NEW d
  PROVE  LET p == ListPage(a, b, c, d)
         IN  /\ p.kind = "blocks"
             /\ p.upper = a /\ p.pending = b /\ p.rows = c /\ p.tip = d
             /\ \A v : [p EXCEPT !.pending = v] = ListPage(a, v, c, d)
             /\ \A v : [p EXCEPT !.rows = v] = ListPage(a, b, v, d)
             /\ \A v : [p EXCEPT !.tip = v] = ListPage(a, b, c, v)
BY DEF ListPage

LEMMA TransactionPageColumns ==
  ASSUME NEW a, NEW b, NEW c, NEW d, NEW e
  PROVE  LET p == TransactionPage(a, b, c, d, e)
         IN  /\ p.kind = "transaction"
             /\ p.tx = a /\ p.pending = b /\ p.unresolved = c /\ p.inputs = d /\ p.outputs = e
             /\ \A v : [p EXCEPT !.pending = v] = TransactionPage(a, v, c, d, e)
             /\ \A v : [p EXCEPT !.unresolved = v] = TransactionPage(a, b, v, d, e)
             /\ \A v : [p EXCEPT !.inputs = v] = TransactionPage(a, b, c, v, e)
             /\ \A v : [p EXCEPT !.outputs = v] = TransactionPage(a, b, c, d, v)
BY DEF TransactionPage

LEMMA AddressPageColumns ==
  ASSUME NEW a, NEW b, NEW c, NEW d, NEW e, NEW f
  PROVE  LET p == AddressPage(a, b, c, d, e, f)
         IN  /\ p.kind = "address"
             /\ p.address = a /\ p.pending = b /\ p.balance = c /\ p.count = d /\ p.utxos = e /\ p.recent = f
             /\ \A v : [p EXCEPT !.pending = v] = AddressPage(a, v, c, d, e, f)
             /\ \A v : [p EXCEPT !.balance = v] = AddressPage(a, b, v, d, e, f)
             /\ \A v : [p EXCEPT !.count = v] = AddressPage(a, b, c, v, e, f)
             /\ \A v : [p EXCEPT !.utxos = v] = AddressPage(a, b, c, d, v, f)
             /\ \A v : [p EXCEPT !.recent = v] = AddressPage(a, b, c, d, e, v)
BY DEF AddressPage

LEMMA StatsPageColumns ==
  ASSUME NEW a, NEW b, NEW c, NEW d, NEW e
  PROVE  LET p == StatsPage(a, b, c, d, e)
         IN  /\ p.kind = "stats"
             /\ p.pending = a /\ p.tip = b /\ p.window = c /\ p.active = d /\ p.history = e
             /\ \A v : [p EXCEPT !.pending = v] = StatsPage(v, b, c, d, e)
             /\ \A v : [p EXCEPT !.tip = v] = StatsPage(a, v, c, d, e)
             /\ \A v : [p EXCEPT !.window = v] = StatsPage(a, b, v, d, e)
             /\ \A v : [p EXCEPT !.active = v] = StatsPage(a, b, c, v, e)
             /\ \A v : [p EXCEPT !.history = v] = StatsPage(a, b, c, d, v)
BY DEF StatsPage

LEMMA RankingPageColumns ==
  ASSUME NEW a, NEW b, NEW c, NEW d
  PROVE  LET p == RankingPage(a, b, c, d)
         IN  /\ p.kind = "ranking"
             /\ p.offset = a /\ p.pending = b /\ p.rows = c /\ p.total = d
             /\ \A v : [p EXCEPT !.pending = v] = RankingPage(a, v, c, d)
             /\ \A v : [p EXCEPT !.rows = v] = RankingPage(a, b, v, d)
             /\ \A v : [p EXCEPT !.total = v] = RankingPage(a, b, c, v)
BY DEF RankingPage

LEMMA AssetPageColumns ==
  ASSUME NEW a, NEW b, NEW c
  PROVE  LET p == AssetPage(a, b, c)
         IN  /\ p.kind = "asset"
             /\ p.pending = a /\ p.tip = b /\ p.rows = c
             /\ \A v : [p EXCEPT !.pending = v] = AssetPage(v, b, c)
             /\ \A v : [p EXCEPT !.tip = v] = AssetPage(a, v, c)
             /\ \A v : [p EXCEPT !.rows = v] = AssetPage(a, b, v)
BY DEF AssetPage

-----------------------------------------------------------------------------
\* An answer comes to a page.
BlockAnswer(p, v, w, x) == [p EXCEPT !.pending = v, !.tip = w, !.transactions = x]
ListAnswer(p, v, w, x) == [p EXCEPT !.pending = v, !.tip = w, !.rows = x]
InputsAnswer(p, v, w, x) == [p EXCEPT !.pending = v, !.inputs = w, !.unresolved = x]
OutputsAnswer(p, v, w) == [p EXCEPT !.pending = v, !.outputs = w]
BalanceAnswer(p, v, w) == [p EXCEPT !.pending = v, !.balance = w]
CountAnswer(p, v, w) == [p EXCEPT !.pending = v, !.count = w]
UtxosAnswer(p, v, w) == [p EXCEPT !.pending = v, !.utxos = w]
RecentAnswer(p, v, w) == [p EXCEPT !.pending = v, !.recent = w]
RollupAnswer(p, v, w, x, y) == [p EXCEPT !.pending = v, !.tip = w, !.window = x, !.active = y]
HourlyAnswer(p, v, w, x) == [p EXCEPT !.pending = v, !.tip = w, !.history = x]
RankedAnswer(p, v, w) == [p EXCEPT !.pending = v, !.rows = w]
DistributionAnswer(p, v, w) == [p EXCEPT !.pending = v, !.total = w]
TransfersAnswer(p, v, w, x) == [p EXCEPT !.pending = v, !.tip = w, !.rows = x]

\* What it makes of the page.
LEMMA BlockAnswered ==
  ASSUME NEW a, NEW b, NEW c, NEW d, NEW e, NEW v, NEW w, NEW x
  PROVE  BlockAnswer(BlockPage(a, b, c, d, e), v, w, x) = BlockPage(a, b, v, x, w)
<1>1. [BlockPage(a, b, c, d, e) EXCEPT !.pending = v] = BlockPage(a, b, v, d, e)
  BY BlockPageColumns
<1>2. [BlockPage(a, b, v, d, e) EXCEPT !.tip = w] = BlockPage(a, b, v, d, w)
  BY BlockPageColumns
<1>3. [BlockPage(a, b, v, d, w) EXCEPT !.transactions = x] = BlockPage(a, b, v, x, w)
  BY BlockPageColumns
<1>4. BlockAnswer(BlockPage(a, b, c, d, e), v, w, x)
        = [[[BlockPage(a, b, c, d, e) EXCEPT !.pending = v] EXCEPT !.tip = w] EXCEPT !.transactions = x]
  BY DEF BlockAnswer
<1>. QED
  BY <1>1, <1>2, <1>3, <1>4

LEMMA ListAnswered ==
  ASSUME NEW a, NEW b, NEW c, NEW d, NEW v, NEW w, NEW x
  PROVE  ListAnswer(ListPage(a, b, c, d), v, w, x) = ListPage(a, v, x, w)
<1>1. [ListPage(a, b, c, d) EXCEPT !.pending = v] = ListPage(a, v, c, d)
  BY ListPageColumns
<1>2. [ListPage(a, v, c, d) EXCEPT !.tip = w] = ListPage(a, v, c, w)
  BY ListPageColumns
<1>3. [ListPage(a, v, c, w) EXCEPT !.rows = x] = ListPage(a, v, x, w)
  BY ListPageColumns
<1>4. ListAnswer(ListPage(a, b, c, d), v, w, x)
        = [[[ListPage(a, b, c, d) EXCEPT !.pending = v] EXCEPT !.tip = w] EXCEPT !.rows = x]
  BY DEF ListAnswer
<1>. QED
  BY <1>1, <1>2, <1>3, <1>4

LEMMA InputsAnswered ==
  ASSUME NEW a, NEW b, NEW c, NEW d, NEW e, NEW v, NEW w, NEW x
  PROVE  InputsAnswer(TransactionPage(a, b, c, d, e), v, w, x) = TransactionPage(a, v, x, w, e)
<1>1. [TransactionPage(a, b, c, d, e) EXCEPT !.pending = v] = TransactionPage(a, v, c, d, e)
  BY TransactionPageColumns
<1>2. [TransactionPage(a, v, c, d, e) EXCEPT !.inputs = w] = TransactionPage(a, v, c, w, e)
  BY TransactionPageColumns
<1>3. [TransactionPage(a, v, c, w, e) EXCEPT !.unresolved = x] = TransactionPage(a, v, x, w, e)
  BY TransactionPageColumns
<1>4. InputsAnswer(TransactionPage(a, b, c, d, e), v, w, x)
        = [[[TransactionPage(a, b, c, d, e) EXCEPT !.pending = v] EXCEPT !.inputs = w] EXCEPT !.unresolved = x]
  BY DEF InputsAnswer
<1>. QED
  BY <1>1, <1>2, <1>3, <1>4

LEMMA OutputsAnswered ==
  ASSUME NEW a, NEW b, NEW c, NEW d, NEW e, NEW v, NEW w
  PROVE  OutputsAnswer(TransactionPage(a, b, c, d, e), v, w) = TransactionPage(a, v, c, d, w)
<1>1. [TransactionPage(a, b, c, d, e) EXCEPT !.pending = v] = TransactionPage(a, v, c, d, e)
  BY TransactionPageColumns
<1>2. [TransactionPage(a, v, c, d, e) EXCEPT !.outputs = w] = TransactionPage(a, v, c, d, w)
  BY TransactionPageColumns
<1>3. OutputsAnswer(TransactionPage(a, b, c, d, e), v, w)
        = [[TransactionPage(a, b, c, d, e) EXCEPT !.pending = v] EXCEPT !.outputs = w]
  BY DEF OutputsAnswer
<1>. QED
  BY <1>1, <1>2, <1>3

LEMMA BalanceAnswered ==
  ASSUME NEW a, NEW b, NEW c, NEW d, NEW e, NEW f, NEW v, NEW w
  PROVE  BalanceAnswer(AddressPage(a, b, c, d, e, f), v, w) = AddressPage(a, v, w, d, e, f)
<1>1. [AddressPage(a, b, c, d, e, f) EXCEPT !.pending = v] = AddressPage(a, v, c, d, e, f)
  BY AddressPageColumns
<1>2. [AddressPage(a, v, c, d, e, f) EXCEPT !.balance = w] = AddressPage(a, v, w, d, e, f)
  BY AddressPageColumns
<1>3. BalanceAnswer(AddressPage(a, b, c, d, e, f), v, w)
        = [[AddressPage(a, b, c, d, e, f) EXCEPT !.pending = v] EXCEPT !.balance = w]
  BY DEF BalanceAnswer
<1>. QED
  BY <1>1, <1>2, <1>3

LEMMA CountAnswered ==
  ASSUME NEW a, NEW b, NEW c, NEW d, NEW e, NEW f, NEW v, NEW w
  PROVE  CountAnswer(AddressPage(a, b, c, d, e, f), v, w) = AddressPage(a, v, c, w, e, f)
<1>1. [AddressPage(a, b, c, d, e, f) EXCEPT !.pending = v] = AddressPage(a, v, c, d, e, f)
  BY AddressPageColumns
<1>2. [AddressPage(a, v, c, d, e, f) EXCEPT !.count = w] = AddressPage(a, v, c, w, e, f)
  BY AddressPageColumns
<1>3. CountAnswer(AddressPage(a, b, c, d, e, f), v, w)
        = [[AddressPage(a, b, c, d, e, f) EXCEPT !.pending = v] EXCEPT !.count = w]
  BY DEF CountAnswer
<1>. QED
  BY <1>1, <1>2, <1>3

LEMMA UtxosAnswered ==
  ASSUME NEW a, NEW b, NEW c, NEW d, NEW e, NEW f, NEW v, NEW w
  PROVE  UtxosAnswer(AddressPage(a, b, c, d, e, f), v, w) = AddressPage(a, v, c, d, w, f)
<1>1. [AddressPage(a, b, c, d, e, f) EXCEPT !.pending = v] = AddressPage(a, v, c, d, e, f)
  BY AddressPageColumns
<1>2. [AddressPage(a, v, c, d, e, f) EXCEPT !.utxos = w] = AddressPage(a, v, c, d, w, f)
  BY AddressPageColumns
<1>3. UtxosAnswer(AddressPage(a, b, c, d, e, f), v, w)
        = [[AddressPage(a, b, c, d, e, f) EXCEPT !.pending = v] EXCEPT !.utxos = w]
  BY DEF UtxosAnswer
<1>. QED
  BY <1>1, <1>2, <1>3

LEMMA RecentAnswered ==
  ASSUME NEW a, NEW b, NEW c, NEW d, NEW e, NEW f, NEW v, NEW w
  PROVE  RecentAnswer(AddressPage(a, b, c, d, e, f), v, w) = AddressPage(a, v, c, d, e, w)
<1>1. [AddressPage(a, b, c, d, e, f) EXCEPT !.pending = v] = AddressPage(a, v, c, d, e, f)
  BY AddressPageColumns
<1>2. [AddressPage(a, v, c, d, e, f) EXCEPT !.recent = w] = AddressPage(a, v, c, d, e, w)
  BY AddressPageColumns
<1>3. RecentAnswer(AddressPage(a, b, c, d, e, f), v, w)
        = [[AddressPage(a, b, c, d, e, f) EXCEPT !.pending = v] EXCEPT !.recent = w]
  BY DEF RecentAnswer
<1>. QED
  BY <1>1, <1>2, <1>3

LEMMA RollupAnswered ==
  ASSUME NEW a, NEW b, NEW c, NEW d, NEW e, NEW v, NEW w, NEW x, NEW y
  PROVE  RollupAnswer(StatsPage(a, b, c, d, e), v, w, x, y) = StatsPage(v, w, x, y, e)
<1>1. [StatsPage(a, b, c, d, e) EXCEPT !.pending = v] = StatsPage(v, b, c, d, e)
  BY StatsPageColumns
<1>2. [StatsPage(v, b, c, d, e) EXCEPT !.tip = w] = StatsPage(v, w, c, d, e)
  BY StatsPageColumns
<1>3. [StatsPage(v, w, c, d, e) EXCEPT !.window = x] = StatsPage(v, w, x, d, e)
  BY StatsPageColumns
<1>4. [StatsPage(v, w, x, d, e) EXCEPT !.active = y] = StatsPage(v, w, x, y, e)
  BY StatsPageColumns
<1>5. RollupAnswer(StatsPage(a, b, c, d, e), v, w, x, y)
        = [[[[StatsPage(a, b, c, d, e) EXCEPT !.pending = v] EXCEPT !.tip = w] EXCEPT !.window = x] EXCEPT !.active = y]
  BY DEF RollupAnswer
<1>. QED
  BY <1>1, <1>2, <1>3, <1>4, <1>5

LEMMA HourlyAnswered ==
  ASSUME NEW a, NEW b, NEW c, NEW d, NEW e, NEW v, NEW w, NEW x
  PROVE  HourlyAnswer(StatsPage(a, b, c, d, e), v, w, x) = StatsPage(v, w, c, d, x)
<1>1. [StatsPage(a, b, c, d, e) EXCEPT !.pending = v] = StatsPage(v, b, c, d, e)
  BY StatsPageColumns
<1>2. [StatsPage(v, b, c, d, e) EXCEPT !.tip = w] = StatsPage(v, w, c, d, e)
  BY StatsPageColumns
<1>3. [StatsPage(v, w, c, d, e) EXCEPT !.history = x] = StatsPage(v, w, c, d, x)
  BY StatsPageColumns
<1>4. HourlyAnswer(StatsPage(a, b, c, d, e), v, w, x)
        = [[[StatsPage(a, b, c, d, e) EXCEPT !.pending = v] EXCEPT !.tip = w] EXCEPT !.history = x]
  BY DEF HourlyAnswer
<1>. QED
  BY <1>1, <1>2, <1>3, <1>4

LEMMA RankedAnswered ==
  ASSUME NEW a, NEW b, NEW c, NEW d, NEW v, NEW w
  PROVE  RankedAnswer(RankingPage(a, b, c, d), v, w) = RankingPage(a, v, w, d)
<1>1. [RankingPage(a, b, c, d) EXCEPT !.pending = v] = RankingPage(a, v, c, d)
  BY RankingPageColumns
<1>2. [RankingPage(a, v, c, d) EXCEPT !.rows = w] = RankingPage(a, v, w, d)
  BY RankingPageColumns
<1>3. RankedAnswer(RankingPage(a, b, c, d), v, w)
        = [[RankingPage(a, b, c, d) EXCEPT !.pending = v] EXCEPT !.rows = w]
  BY DEF RankedAnswer
<1>. QED
  BY <1>1, <1>2, <1>3

LEMMA DistributionAnswered ==
  ASSUME NEW a, NEW b, NEW c, NEW d, NEW v, NEW w
  PROVE  DistributionAnswer(RankingPage(a, b, c, d), v, w) = RankingPage(a, v, c, w)
<1>1. [RankingPage(a, b, c, d) EXCEPT !.pending = v] = RankingPage(a, v, c, d)
  BY RankingPageColumns
<1>2. [RankingPage(a, v, c, d) EXCEPT !.total = w] = RankingPage(a, v, c, w)
  BY RankingPageColumns
<1>3. DistributionAnswer(RankingPage(a, b, c, d), v, w)
        = [[RankingPage(a, b, c, d) EXCEPT !.pending = v] EXCEPT !.total = w]
  BY DEF DistributionAnswer
<1>. QED
  BY <1>1, <1>2, <1>3

LEMMA TransfersAnswered ==
  ASSUME NEW a, NEW b, NEW c, NEW v, NEW w, NEW x
  PROVE  TransfersAnswer(AssetPage(a, b, c), v, w, x) = AssetPage(v, w, x)
<1>1. [AssetPage(a, b, c) EXCEPT !.pending = v] = AssetPage(v, b, c)
  BY AssetPageColumns
<1>2. [AssetPage(v, b, c) EXCEPT !.tip = w] = AssetPage(v, w, c)
  BY AssetPageColumns
<1>3. [AssetPage(v, w, c) EXCEPT !.rows = x] = AssetPage(v, w, x)
  BY AssetPageColumns
<1>4. TransfersAnswer(AssetPage(a, b, c), v, w, x)
        = [[[AssetPage(a, b, c) EXCEPT !.pending = v] EXCEPT !.tip = w] EXCEPT !.rows = x]
  BY DEF TransfersAnswer
<1>. QED
  BY <1>1, <1>2, <1>3, <1>4

\* A page of one kind says nothing of the others.
LEMMA OtherKinds ==
  /\ page'.kind # "block" => BlockFacts'
  /\ page'.kind # "blocks" => ListFacts'
  /\ page'.kind # "transaction" => TransactionFacts'
  /\ page'.kind # "stats" => StatsFacts'
  /\ page'.kind # "latest" => LatestFacts'
  /\ page'.kind # "asset" => AssetFacts'
  /\ page'.kind # "address" => AddressFacts'
  /\ page'.kind # "ranking" => RankingFacts'
BY DEF BlockFacts, ListFacts, TransactionFacts, StatsFacts, LatestFacts, AssetFacts, AddressFacts,
       RankingFacts

-----------------------------------------------------------------------------
\* A query moves no table.
LEMMA ReadKeepsTables == ASSUME IInv, UNCHANGED vars PROVE IInv'
BY NextStep

\* The first queries: a new page, of which nothing is known yet but its key.
Opens ==
  \/ OpenBlock \/ OpenBlockList \/ OpenTransaction \/ OpenAddress
  \/ OpenStats \/ OpenRanking \/ OpenLatest \/ OpenAsset

LEMMA OpenStep ==
  ASSUME IInv, Opens, since' = {}, UNCHANGED vars
  PROVE  PageFacts'
<1>0. /\ bestHeight \in Int /\ rawHeight \in Int /\ bestHeight <= rawHeight
      /\ DOMAIN blocks = 0..rawHeight /\ bestHeight' = bestHeight /\ blocks' = blocks /\ txs' = txs
  BY StagedHeights DEF vars
<1>1. CASE OpenBlock
  <2>1. PICK h \in DOMAIN blocks :
          h <= bestHeight /\ page' = BlockPage(h, blocks[h], {"transactions"}, {}, bestHeight)
    BY <1>1 DEF OpenBlock, VisibleHeight, BlockPage
  <2>2. /\ page'.kind = "block" /\ page'.height = h /\ page'.block = blocks[h]
        /\ page'.pending = {"transactions"} /\ page'.transactions = {} /\ page'.tip = bestHeight
    BY <2>1, BlockPageColumns
  <2>3. page' = BlockPage(page'.height, page'.block, page'.pending, page'.transactions, page'.tip)
    BY <2>1, <2>2
  <2>4. page'.height \in 0..bestHeight' /\ page'.block = blocks'[page'.height]
    BY <1>0, <2>1, <2>2
  <2>5. BlockFacts'
    BY <2>2, <2>3, <2>4 DEF BlockFacts
  <2>. QED
    BY <2>2, <2>5, OtherKinds DEF PageFacts
<1>2. CASE OpenBlockList
  <2>1. PICK start \in 0..MaxHeight :
          page' = ListPage(Min({start, bestHeight}), {"rows"}, {}, bestHeight)
    BY <1>2 DEF OpenBlockList, ListPage
  <2>. DEFINE upper == Min({start, bestHeight})
  <2>0. upper \in Int /\ upper <= bestHeight
    <3>1. start \in Int
      BY BlockTreeAssumption
    <3>2. {start, bestHeight} # {} /\ \E x \in {start, bestHeight} : \A y \in {start, bestHeight} : x <= y
      BY <1>0, <3>1
    <3>3. upper \in {start, bestHeight} /\ \A y \in {start, bestHeight} : upper <= y
      BY <3>2 DEF Min
    <3>. HIDE DEF upper
    <3>. QED
      BY <1>0, <3>1, <3>3
  <2>. HIDE DEF upper
  <2>2. /\ page'.kind = "blocks" /\ page'.upper = upper /\ page'.pending = {"rows"}
        /\ page'.rows = {} /\ page'.tip = bestHeight
    BY <2>1, ListPageColumns DEF upper
  <2>3. page' = ListPage(page'.upper, page'.pending, page'.rows, page'.tip)
    BY <2>1, <2>2 DEF upper
  <2>4. page'.upper \in Int /\ page'.upper <= bestHeight'
    BY <1>0, <2>0, <2>2
  <2>5. ListFacts'
    BY <2>2, <2>3, <2>4 DEF ListFacts
  <2>. QED
    BY <2>2, <2>5, OtherKinds DEF PageFacts
<1>3. CASE OpenTransaction
  <2>1. PICK t \in DOMAIN txs :
          /\ txs[t] <= bestHeight
          /\ page' = TransactionPage(t, {"inputs", "outputs"}, {}, {}, {})
    BY <1>3 DEF OpenTransaction, VisibleHeight, TransactionPage
  <2>2. /\ page'.kind = "transaction" /\ page'.tx = t /\ page'.pending = {"inputs", "outputs"}
        /\ page'.unresolved = {} /\ page'.inputs = {} /\ page'.outputs = {}
    BY <2>1, TransactionPageColumns
  <2>3. TransactionFacts'
    BY <1>0, <2>1, <2>2 DEF TransactionFacts
  <2>. QED
    BY <2>2, <2>3, OtherKinds DEF PageFacts
<1>4. CASE OpenAddress
  <2>1. PICK a \in Address :
          page' = AddressPage(a, {"balances", "count", "utxos", "recent"}, {}, {}, {}, {})
    BY <1>4 DEF OpenAddress, AddressPage
  <2>2. /\ page'.kind = "address" /\ page'.address = a
        /\ page'.pending = {"balances", "count", "utxos", "recent"}
        /\ page'.balance = {} /\ page'.count = {} /\ page'.utxos = {} /\ page'.recent = {}
    BY <2>1, AddressPageColumns
  <2>3. AddressFacts'
    BY <2>1, <2>2 DEF AddressFacts
  <2>. QED
    BY <2>2, <2>3, OtherKinds DEF PageFacts
<1>5. CASE OpenStats
  <2>1. page' = StatsPage({"rollup", "history"}, bestHeight, {}, {}, {})
    BY <1>5 DEF OpenStats, StatsPage
  <2>2. /\ page'.kind = "stats" /\ page'.pending = {"rollup", "history"} /\ page'.tip = bestHeight
        /\ page'.window = {} /\ page'.active = {} /\ page'.history = {}
    BY <2>1, StatsPageColumns
  <2>3. StatsFacts'
    BY <2>1, <2>2 DEF StatsFacts
  <2>. QED
    BY <2>2, <2>3, OtherKinds DEF PageFacts
<1>6. CASE OpenRanking
  <2>1. PICK from \in {0, Limit.ranking} :
          page' = RankingPage(from, {"ranked", "distribution"}, {}, {})
    BY <1>6 DEF OpenRanking, RankingPage
  <2>2. /\ page'.kind = "ranking" /\ page'.pending = {"ranked", "distribution"}
        /\ page'.offset = from /\ page'.rows = {} /\ page'.total = {}
    BY <2>1, RankingPageColumns
  <2>3. RankingFacts'
    BY <2>1, <2>2 DEF RankingFacts
  <2>. QED
    BY <2>2, <2>3, OtherKinds DEF PageFacts
<1>7. CASE OpenLatest
  <2>1. PICK rows \in Newest([t \in {u \in DOMAIN txs : txs[u] <= bestHeight} |-> txs[t]], Limit.latest) :
          page' = [kind |-> "latest", pending |-> {}, tip |-> bestHeight, rows |-> rows]
    BY <1>7 DEF OpenLatest, VisibleHeight
  <2>2. /\ page'.kind = "latest" /\ page'.pending = {} /\ page'.tip = bestHeight
        /\ page'.rows = rows
    BY <2>1
  <2>3. rows \in Newest(LatestAt(bestHeight), Limit.latest)
    BY <2>1, LatestAtHeights
  <2>4. LatestAt(page.tip)' = LatestAt(bestHeight)
    BY <1>0, <2>2 DEF LatestAt, Mined, MinedAt
  <2>5. LatestFacts'
    BY <2>2, <2>3, <2>4 DEF LatestFacts
  <2>. QED
    BY <2>2, <2>5, OtherKinds DEF PageFacts
<1>8. CASE OpenAsset
  <2>1. page' = AssetPage({"transfers"}, bestHeight, {})
    BY <1>8 DEF OpenAsset, AssetPage
  <2>2. page'.kind = "asset" /\ page'.pending = {"transfers"} /\ page'.tip = bestHeight
        /\ page'.rows = {}
    BY <2>1, AssetPageColumns
  <2>3. AssetFacts'
    BY <2>1, <2>2 DEF AssetFacts
  <2>. QED
    BY <2>2, <2>3, OtherKinds DEF PageFacts
<1>. QED
  BY <1>1, <1>2, <1>3, <1>4, <1>5, <1>6, <1>7, <1>8 DEF Opens

-----------------------------------------------------------------------------
\* The queries that follow.  The tables stay as they are.
Still == UNCHANGED <<vars, since>>

LEMMA BlockTransactionsStep ==
  ASSUME ReadIInv, ReadBlockTransactions, Still
  PROVE  PageFacts'
<1>1. /\ page.kind = "block" /\ blocks' = blocks /\ bestHeight' = bestHeight /\ since' = since
      /\ page' = BlockAnswer(page, {}, bestHeight, TxsWithin(page.height, page.height))
  BY DEF ReadBlockTransactions, BlockAnswer, Still, vars
<1>2. page = BlockPage(page.height, page.block, page.pending, page.transactions, page.tip)
  BY <1>1 DEF ReadIInv, PageFacts, BlockFacts
<1>3. page' = BlockPage(page.height, page.block, {}, TxsWithin(page.height, page.height), bestHeight)
  BY <1>1, <1>2, BlockAnswered
<1>4. /\ page'.kind = "block" /\ page'.height = page.height /\ page'.block = page.block
      /\ page'.pending = {} /\ page'.transactions = TxsWithin(page.height, page.height)
      /\ page'.tip = bestHeight
  BY <1>3, BlockPageColumns
<1>5. page' = BlockPage(page'.height, page'.block, page'.pending, page'.transactions, page'.tip)
  BY <1>3, <1>4
<1>6. "rollback" \notin since =>
        /\ page.height \in 0..bestHeight /\ page.block = blocks[page.height]
        /\ TxsWithin(page.height, page.height) = TxsOf[page.block] /\ page.height <= bestHeight
  <2>. SUFFICES ASSUME "rollback" \notin since
                PROVE  /\ page.height \in 0..bestHeight /\ page.block = blocks[page.height]
                       /\ TxsWithin(page.height, page.height) = TxsOf[page.block]
                       /\ page.height <= bestHeight
    OBVIOUS
  <2>1. page.height \in 0..bestHeight /\ page.block = blocks[page.height]
    BY <1>1 DEF ReadIInv, PageFacts, BlockFacts
  <2>2. page.height \in DOMAIN blocks /\ page.height <= bestHeight
    BY <2>1, StagedHeights DEF ReadIInv
  <2>. QED
    BY <2>1, <2>2, TxsAtHeight DEF ReadIInv
<1>7. BlockFacts'
  BY <1>1, <1>4, <1>5, <1>6 DEF BlockFacts
<1>. QED
  BY <1>4, <1>7, OtherKinds DEF PageFacts

LEMMA BlockListStep ==
  ASSUME ReadIInv, ReadBlockList, Still
  PROVE  PageFacts'
<1>1. page.kind = "blocks" /\ bestHeight' = bestHeight /\ since' = since
  BY DEF ReadBlockList, Still, vars
<1>2. PICK rows \in Newest([h \in {k \in DOMAIN blocks : k <= page.upper} |-> h], Limit.blocks) :
        page' = ListAnswer(page, {}, bestHeight, rows)
  BY DEF ReadBlockList, ListAnswer
<1>3. page = ListPage(page.upper, page.pending, page.rows, page.tip)
  BY <1>1 DEF ReadIInv, PageFacts, ListFacts
<1>4. page' = ListPage(page.upper, {}, rows, bestHeight)
  BY <1>2, <1>3, ListAnswered
<1>5. /\ page'.kind = "blocks" /\ page'.upper = page.upper /\ page'.pending = {}
      /\ page'.rows = rows /\ page'.tip = bestHeight
  BY <1>4, ListPageColumns
<1>6. page' = ListPage(page'.upper, page'.pending, page'.rows, page'.tip)
  BY <1>4, <1>5
<1>7. "rollback" \notin since => page.upper \in Int /\ page.upper <= bestHeight
  BY <1>1 DEF ReadIInv, PageFacts, ListFacts
<1>8. ASSUME "rollback" \notin since
      PROVE  /\ rows \in Newest([h \in 0 .. page.upper |-> h], Limit.blocks)
             /\ \A h \in rows : h <= bestHeight
  <2>1. {k \in DOMAIN blocks : k <= page.upper} = 0 .. page.upper
    BY <1>7, <1>8, StagedHeights DEF ReadIInv
  <2>2. rows \in Newest([h \in 0 .. page.upper |-> h], Limit.blocks)
    BY <1>2, <2>1
  <2>3. rows \subseteq 0 .. page.upper
    BY <2>2 DEF Newest
  <2>. QED
    BY <1>7, <1>8, <2>2, <2>3, StagedHeights DEF ReadIInv
<1>9. ListFacts'
  BY <1>1, <1>5, <1>6, <1>7, <1>8 DEF ListFacts
<1>. QED
  BY <1>5, <1>9, OtherKinds DEF PageFacts

LEMMA InputsStep ==
  ASSUME ReadIInv, ReadInputs, Still
  PROVE  PageFacts'
<1>. DEFINE rows == IF page.tx \in DOMAIN txs THEN Spends[page.tx] ELSE {}
            unresolved == {o \in rows : [tx |-> page.tx, output |-> o] \notin resolved}
            pending == page.pending \ {"inputs"}
<1>1. /\ page.kind = "transaction" /\ bestHeight' = bestHeight /\ txs' = txs /\ since' = since
      /\ page' = InputsAnswer(page, pending, rows, unresolved)
  BY DEF ReadInputs, InputsAnswer, Still, vars
<1>2. page = TransactionPage(page.tx, page.pending, page.unresolved, page.inputs, page.outputs)
  BY <1>1 DEF ReadIInv, PageFacts, TransactionFacts
<1>3. "rollback" \notin since => rows = Spends[page.tx] /\ unresolved = {}
  <2>. SUFFICES ASSUME "rollback" \notin since PROVE rows = Spends[page.tx] /\ unresolved = {}
    OBVIOUS
  <2>1. page.tx \in DOMAIN txs /\ txs[page.tx] <= bestHeight
    BY <1>1 DEF ReadIInv, PageFacts, TransactionFacts
  <2>2. \A o \in Spends[page.tx] : [tx |-> page.tx, output |-> o] \in resolved
    BY <2>1, ProcessedTx DEF ReadIInv, Enriched
  <2>. QED
    BY <2>1, <2>2
<1>. HIDE DEF rows, unresolved, pending
<1>4. page' = TransactionPage(page.tx, pending, unresolved, rows, page.outputs)
  BY <1>1, <1>2, InputsAnswered
<1>5. /\ page'.kind = "transaction" /\ page'.tx = page.tx /\ page'.pending = pending
      /\ page'.unresolved = unresolved /\ page'.inputs = rows /\ page'.outputs = page.outputs
  BY <1>4, TransactionPageColumns
<1>6. page' = TransactionPage(page'.tx, page'.pending, page'.unresolved, page'.inputs, page'.outputs)
  BY <1>4, <1>5
<1>7. "outputs" \notin pending => "outputs" \notin page.pending
  BY DEF pending
<1>8. "rollback" \notin since =>
        /\ page.tx \in DOMAIN txs /\ txs[page.tx] <= bestHeight
        /\ "outputs" \notin page.pending => page.outputs = {o \in Output : CreatedBy[o] = page.tx}
  BY <1>1 DEF ReadIInv, PageFacts, TransactionFacts
<1>9. TransactionFacts'
  BY <1>1, <1>3, <1>5, <1>6, <1>7, <1>8 DEF TransactionFacts
<1>. QED
  BY <1>5, <1>9, OtherKinds DEF PageFacts

LEMMA OutputsStep ==
  ASSUME ReadIInv, ReadOutputs, Still
  PROVE  PageFacts'
<1>. DEFINE rows == {o \in Output : CreatedBy[o] = page.tx /\ page.tx \in DOMAIN txs}
            pending == page.pending \ {"outputs"}
<1>1. /\ page.kind = "transaction" /\ bestHeight' = bestHeight /\ txs' = txs /\ since' = since
      /\ page' = OutputsAnswer(page, pending, rows)
  BY DEF ReadOutputs, OutputsAnswer, Still, vars
<1>2. page = TransactionPage(page.tx, page.pending, page.unresolved, page.inputs, page.outputs)
  BY <1>1 DEF ReadIInv, PageFacts, TransactionFacts
<1>3. "rollback" \notin since =>
        /\ page.tx \in DOMAIN txs /\ txs[page.tx] <= bestHeight
        /\ "inputs" \notin page.pending => page.inputs = Spends[page.tx] /\ page.unresolved = {}
  BY <1>1 DEF ReadIInv, PageFacts, TransactionFacts
<1>4. "rollback" \notin since => rows = {o \in Output : CreatedBy[o] = page.tx}
  BY <1>3
<1>5. "inputs" \notin pending => "inputs" \notin page.pending
  OBVIOUS
<1>. HIDE DEF rows, pending
<1>6. page' = TransactionPage(page.tx, pending, page.unresolved, page.inputs, rows)
  BY <1>1, <1>2, OutputsAnswered
<1>7. /\ page'.kind = "transaction" /\ page'.tx = page.tx /\ page'.pending = pending
      /\ page'.unresolved = page.unresolved /\ page'.inputs = page.inputs /\ page'.outputs = rows
  BY <1>6, TransactionPageColumns
<1>8. page' = TransactionPage(page'.tx, page'.pending, page'.unresolved, page'.inputs, page'.outputs)
  BY <1>6, <1>7
<1>9. TransactionFacts'
  BY <1>1, <1>3, <1>4, <1>5, <1>7, <1>8 DEF TransactionFacts
<1>. QED
  BY <1>7, <1>9, OtherKinds DEF PageFacts

\* What an address holds is a matter of the processed transactions.
LEMMA SameHeld ==
  ASSUME ProcessedTxs' = ProcessedTxs, Height' = Height
  PROVE  /\ \A a : Held(a)' = Held(a) /\ History(a)' = History(a) /\ Standing(a)' = Standing(a)
         /\ Holders' = Holders /\ Shares' = Shares
<1>1. \A a : Held(a)' = Held(a) /\ History(a)' = History(a)
  BY DEF Held, History
<1>2. \A a : Standing(a)' = Standing(a)
  BY <1>1 DEF Standing
<1>3. Holders' = Holders /\ Shares' = Shares
  BY <1>1 DEF Holders, Shares
<1>. QED
  BY <1>1, <1>2, <1>3

\* The queries of a page leave them as they are.
LEMMA StillProcessed ==
  ASSUME UNCHANGED vars
  PROVE  ProcessedTxs' = ProcessedTxs /\ Height' = Height
<1>1. ProcessedTxs' = ProcessedTxs
  BY DEF vars, ProcessedTxs, Mined
<1>2. \A t : MinedAt(t)' = MinedAt(t)
  BY DEF vars, MinedAt
<1>. QED
  BY <1>1, <1>2 DEF Height

\* Whatever column of an address page is filled in, the others stay right.
LEMMA AddressStep ==
  ASSUME ReadIInv, page.kind = "address", Still, NEW b, NEW c, NEW u, NEW r, NEW pending,
         page' = AddressPage(page.address, pending, b, c, u, r),
         since = {} =>
           /\ "balances" \notin pending => b = Held(page.address)
           /\ "utxos" \notin pending => u \in Newest(HeldAt(page.address), Limit.utxos)
           /\ "count" \notin pending => c = History(page.address)
           /\ "recent" \notin pending => r \in Newest(HistoryAt(page.address), Limit.history)
  PROVE  PageFacts'
<1>1. /\ page'.kind = "address" /\ page'.address = page.address /\ page'.pending = pending
      /\ page'.balance = b /\ page'.count = c /\ page'.utxos = u /\ page'.recent = r
  BY AddressPageColumns
<1>2. page' = AddressPage(page'.address, page'.pending, page'.balance, page'.count, page'.utxos,
                          page'.recent)
  BY <1>1
<1>3. /\ page.address \in Address /\ since' = since
      /\ ProcessedTxs' = ProcessedTxs /\ Height' = Height
  BY StillProcessed DEF ReadIInv, PageFacts, AddressFacts, Still
<1>4. since' = {} =>
        /\ "balances" \notin page'.pending => page'.balance = Held(page.address)
        /\ "utxos" \notin page'.pending => page'.utxos \in Newest(HeldAt(page.address), Limit.utxos)
        /\ "count" \notin page'.pending => page'.count = History(page.address)
        /\ "recent" \notin page'.pending =>
             page'.recent \in Newest(HistoryAt(page.address), Limit.history)
  BY <1>1, <1>3
<1>5. /\ Held(page.address)' = Held(page.address) /\ History(page.address)' = History(page.address)
      /\ HeldAt(page.address)' = HeldAt(page.address)
      /\ HistoryAt(page.address)' = HistoryAt(page.address)
  BY <1>1, <1>3 DEF Held, History, HeldAt, HistoryAt
<1>6. AddressFacts'
  BY <1>1, <1>2, <1>3, <1>4, <1>5 DEF AddressFacts
<1>. QED
  BY <1>1, <1>6, OtherKinds DEF PageFacts

LEMMA AddressReadsStep ==
  ASSUME ReadIInv, Still, ReadBalances \/ ReadHistory \/ ReadUtxos
  PROVE  PageFacts'
<1>1. page.kind = "address"
  BY DEF ReadBalances, ReadHistory, ReadUtxos
<1>2. /\ page = AddressPage(page.address, page.pending, page.balance, page.count, page.utxos,
                            page.recent)
      /\ since = {} =>
           /\ "balances" \notin page.pending => page.balance = Held(page.address)
           /\ "utxos" \notin page.pending => page.utxos \in Newest(HeldAt(page.address), Limit.utxos)
           /\ "count" \notin page.pending => page.count = History(page.address)
           /\ "recent" \notin page.pending =>
                page.recent \in Newest(HistoryAt(page.address), Limit.history)
  BY <1>1 DEF ReadIInv, PageFacts, AddressFacts
<1>3. CASE ReadBalances
  <2>. DEFINE pending == page.pending \ {"balances"}
  <2>1. page' = BalanceAnswer(page, pending, Balance(page.address))
    BY <1>3 DEF ReadBalances, BalanceAnswer
  <2>2. Balance(page.address) = Held(page.address)
    BY BalanceIsHeld DEF ReadIInv
  <2>3. /\ "utxos" \notin pending => "utxos" \notin page.pending
        /\ "count" \notin pending => "count" \notin page.pending
        /\ "recent" \notin pending => "recent" \notin page.pending
    OBVIOUS
  <2>. HIDE DEF pending
  <2>4. page' = AddressPage(page.address, pending, Held(page.address), page.count, page.utxos,
                            page.recent)
    BY <1>2, <2>1, <2>2, BalanceAnswered
  <2>. QED
    BY <1>1, <1>2, <2>3, <2>4, AddressStep
<1>4. CASE ReadUtxos
  <2>. DEFINE pending == page.pending \ {"utxos"}
  <2>1. PICK rows \in Newest([o \in {u \in Unspent : page.address \in Owners[u]} |->
                               txs[CreatedBy[o]]], Limit.utxos) :
          page' = UtxosAnswer(page, pending, rows)
    BY <1>4 DEF ReadUtxos, UtxosAnswer
  <2>2. rows \in Newest(HeldAt(page.address), Limit.utxos)
    BY <2>1, UnspentAtHeights DEF ReadIInv
  <2>3. /\ "balances" \notin pending => "balances" \notin page.pending
        /\ "count" \notin pending => "count" \notin page.pending
        /\ "recent" \notin pending => "recent" \notin page.pending
    OBVIOUS
  <2>. HIDE DEF pending
  <2>4. page' = AddressPage(page.address, pending, page.balance, page.count, rows, page.recent)
    BY <1>2, <2>1, UtxosAnswered
  <2>. QED
    BY <1>1, <1>2, <2>2, <2>3, <2>4, AddressStep
<1>5. CASE ReadHistory
  <2>1. VisibleHistory(page.address) = History(page.address)
    BY HistoryIsProcessed DEF ReadIInv
  <2>2. CASE page' = CountAnswer(page, page.pending \ {"count"}, VisibleHistory(page.address))
    <3>. DEFINE pending == page.pending \ {"count"}
    <3>1. /\ "balances" \notin pending => "balances" \notin page.pending
          /\ "utxos" \notin pending => "utxos" \notin page.pending
          /\ "recent" \notin pending => "recent" \notin page.pending
      OBVIOUS
    <3>2. page' = CountAnswer(page, pending, History(page.address))
      BY <2>1, <2>2
    <3>. HIDE DEF pending
    <3>3. page' = AddressPage(page.address, pending, page.balance, History(page.address),
                              page.utxos, page.recent)
      BY <1>2, <3>2, CountAnswered
    <3>. QED
      BY <1>1, <1>2, <3>1, <3>3, AddressStep
  <2>3. ASSUME NEW rows \in Newest([t \in VisibleHistory(page.address) |-> ActiveAt(page.address, t)],
                                   Limit.history),
               page' = RecentAnswer(page, page.pending \ {"recent"}, rows)
        PROVE  PageFacts'
    <3>. DEFINE pending == page.pending \ {"recent"}
    <3>1. /\ "balances" \notin pending => "balances" \notin page.pending
          /\ "utxos" \notin pending => "utxos" \notin page.pending
          /\ "count" \notin pending => "count" \notin page.pending
      OBVIOUS
    <3>2. page' = RecentAnswer(page, pending, rows) /\ rows \in Newest(HistoryAt(page.address), Limit.history)
      BY <2>3, HistoryAtHeights DEF ReadIInv
    <3>. HIDE DEF pending
    <3>3. page' = AddressPage(page.address, pending, page.balance, page.count, page.utxos, rows)
      BY <1>2, <3>2, RecentAnswered
    <3>. QED
      BY <1>1, <1>2, <3>1, <3>2, <3>3, AddressStep
  <2>. QED
    BY <1>5, <2>2, <2>3 DEF ReadHistory, CountAnswer, RecentAnswer
<1>. QED
  BY <1>3, <1>4, <1>5

LEMMA RankingStep ==
  ASSUME ReadIInv, Still, ReadRanked \/ ReadDistribution
  PROVE  PageFacts'
<1>1. /\ page.kind = "ranking" /\ since' = since
      /\ ProcessedTxs' = ProcessedTxs /\ Height' = Height
  BY StillProcessed DEF ReadRanked, ReadDistribution, Still
<1>2. /\ page = RankingPage(page.offset, page.pending, page.rows, page.total)
      /\ since = {} =>
           /\ "ranked" \notin page.pending => Ranked(page.rows, page.offset)
           /\ "distribution" \notin page.pending => page.total = Shares
  BY <1>1 DEF ReadIInv, PageFacts, RankingFacts
<1>3. \A a : Balance(a) = Held(a) /\ VisibleHistory(a) = History(a)
  BY BalanceIsHeld, HistoryIsProcessed DEF ReadIInv
<1>4. /\ Shares' = Shares /\ Holders' = Holders /\ \A a : Standing(a)' = Standing(a)
  BY <1>1, SameHeld
<1>5. ASSUME NEW pending, NEW rows, NEW total,
             page' = RankingPage(page.offset, pending, rows, total),
             since = {} => /\ "ranked" \notin pending => Ranked(rows, page.offset)
                           /\ "distribution" \notin pending => total = Shares
      PROVE  PageFacts'
  <2>1. /\ page'.kind = "ranking" /\ page'.offset = page.offset /\ page'.pending = pending
        /\ page'.rows = rows /\ page'.total = total
    BY <1>5, RankingPageColumns
  <2>2. page' = RankingPage(page'.offset, page'.pending, page'.rows, page'.total)
    BY <1>5, <2>1
  <2>3. ASSUME since = {}, "ranked" \notin pending PROVE Ranked(page.rows, page.offset)'
    <3>1. PICK ranked \in PageOf(Holders, page.offset, Limit.ranking) :
            rows = {Standing(a) : a \in ranked}
      BY <1>5, <2>3 DEF Ranked
    <3>. QED
      BY <1>4, <2>1, <3>1 DEF Ranked
  <2>4. since = {} /\ "distribution" \notin pending => page'.total = Shares'
    BY <1>4, <1>5, <2>1
  <2>5. RankingFacts'
    BY <1>1, <2>1, <2>2, <2>3, <2>4 DEF RankingFacts
  <2>. QED
    BY <2>1, <2>5, OtherKinds DEF PageFacts
<1>6. CASE ReadRanked
  <2>. DEFINE pending == page.pending \ {"ranked"}
  <2>1. PICK ranked \in PageOf({a \in Address : Balance(a) # {}}, page.offset, Limit.ranking) :
          page' = RankedAnswer(page, pending,
                    {[address |-> a, balance |-> Balance(a), history |-> VisibleHistory(a)] :
                       a \in ranked})
    BY <1>6 DEF ReadRanked, RankedAnswer
  <2>. DEFINE rows == {Standing(a) : a \in ranked}
  <2>2. {[address |-> a, balance |-> Balance(a), history |-> VisibleHistory(a)] : a \in ranked} = rows
    BY <1>3 DEF Standing
  <2>3. Ranked(rows, page.offset)
    <3>1. {a \in Address : Balance(a) # {}} = Holders
      BY <1>3 DEF Holders
    <3>. QED
      BY <2>1, <3>1 DEF Ranked
  <2>4. "distribution" \notin pending => "distribution" \notin page.pending
    OBVIOUS
  <2>5. page' = RankedAnswer(page, pending, rows)
    BY <2>1, <2>2
  <2>. HIDE DEF pending, rows
  <2>6. page' = RankingPage(page.offset, pending, rows, page.total)
    BY <1>2, <2>5, RankedAnswered
  <2>. QED
    BY <1>2, <1>5, <2>3, <2>4, <2>6
<1>7. CASE ReadDistribution
  <2>. DEFINE pending == page.pending \ {"distribution"}
              total   == UNION {{a} \X Balance(a) : a \in Address}
  <2>1. page' = DistributionAnswer(page, pending, total)
    BY <1>7 DEF ReadDistribution, DistributionAnswer
  <2>2. total = Shares
    BY <1>3 DEF Shares
  <2>3. "ranked" \notin pending => "ranked" \notin page.pending
    OBVIOUS
  <2>. HIDE DEF pending, total
  <2>4. page' = RankingPage(page.offset, pending, page.rows, total)
    BY <1>2, <2>1, DistributionAnswered
  <2>. QED
    BY <1>2, <1>5, <2>2, <2>3, <2>4
<1>. QED
  BY <1>6, <1>7

LEMMA StatsStep ==
  ASSUME ReadIInv, Still, ReadRollup \/ ReadHourly
  PROVE  PageFacts'
<1>1. page.kind = "stats" /\ since' = since /\ blocks' = blocks /\ bestHeight' = bestHeight
  BY DEF ReadRollup, ReadHourly, Still, vars
<1>2. /\ page = StatsPage(page.pending, page.tip, page.window, page.active, page.history)
      /\ "rollback" \notin since =>
           /\ "rollup" \notin page.pending =>
                page.window \subseteq DOMAIN blocks /\ page.active = AddressesMined(page.window)
           /\ "history" \notin page.pending =>
                \A row \in page.history :
                  row.height \in DOMAIN blocks /\ row.active = AddressesMined({row.height})
  BY <1>1 DEF ReadIInv, PageFacts, StatsFacts
<1>3. \A S : AddressesMined(S)' = AddressesMined(S)
  BY <1>1 DEF AddressesMined
<1>4. /\ bestHeight \in Int /\ rawHeight \in Int /\ bestHeight <= rawHeight
      /\ DOMAIN blocks = 0..rawHeight
  BY StagedHeights DEF ReadIInv
<1>5. ASSUME NEW pending, NEW tip, NEW window, NEW active, NEW history,
             page' = StatsPage(pending, tip, window, active, history),
             "rollback" \notin since =>
               /\ "rollup" \notin pending =>
                    window \subseteq DOMAIN blocks /\ active = AddressesMined(window)
               /\ "history" \notin pending =>
                    \A row \in history :
                      row.height \in DOMAIN blocks /\ row.active = AddressesMined({row.height})
      PROVE  PageFacts'
  <2>1. /\ page'.kind = "stats" /\ page'.pending = pending /\ page'.tip = tip
        /\ page'.window = window /\ page'.active = active /\ page'.history = history
    BY <1>5, StatsPageColumns
  <2>2. page' = StatsPage(page'.pending, page'.tip, page'.window, page'.active, page'.history)
    BY <1>5, <2>1
  <2>3. AddressesMined(window)' = AddressesMined(window)
    BY <1>3
  <2>4. \A h : AddressesMined({h})' = AddressesMined({h})
    BY <1>3
  <2>5. StatsFacts'
    BY <1>1, <1>5, <2>1, <2>2, <2>3, <2>4 DEF StatsFacts, AddressesMined
  <2>. QED
    BY <2>1, <2>5, OtherKinds DEF PageFacts
<1>6. CASE ReadRollup
  <2>. DEFINE pending == page.pending \ {"rollup"}
  <2>1. PICK start \in 0..MaxHeight :
          page' = RollupAnswer(page, pending, bestHeight, start .. bestHeight,
                               ActiveAddresses(start, bestHeight))
    BY <1>6 DEF ReadRollup, RollupAnswer
  <2>2. start \in Nat /\ start .. bestHeight \subseteq DOMAIN blocks
    BY <1>4, BlockTreeAssumption
  <2>3. ActiveAddresses(start, bestHeight) = AddressesMined(start .. bestHeight)
    BY <1>4, <2>2, ActiveIsMined DEF ReadIInv
  <2>4. "history" \notin pending => "history" \notin page.pending
    OBVIOUS
  <2>. HIDE DEF pending
  <2>5. page' = StatsPage(pending, bestHeight, start .. bestHeight,
                          ActiveAddresses(start, bestHeight), page.history)
    BY <1>2, <2>1, RollupAnswered
  <2>. QED
    BY <1>2, <1>5, <2>2, <2>3, <2>4, <2>5
<1>7. CASE ReadHourly
  <2>. DEFINE pending == page.pending \ {"history"}
              history == {[height |-> h, active |-> ActiveAddresses(h, h)] : h \in 0 .. bestHeight}
  <2>1. page' = HourlyAnswer(page, pending, bestHeight, history)
    BY <1>7 DEF ReadHourly, HourlyAnswer
  <2>2. ASSUME NEW h \in 0 .. bestHeight
        PROVE  h \in DOMAIN blocks /\ ActiveAddresses(h, h) = AddressesMined({h})
    <3>1. h \in Nat /\ h \in Int /\ h <= bestHeight /\ h .. h = {h} /\ h \in DOMAIN blocks
      BY <1>4
    <3>2. IInv
      BY DEF ReadIInv
    <3>3. ActiveAddresses(h, h) = AddressesMined(h .. h)
      BY <3>1, <3>2, ActiveIsMined
    <3>. QED
      BY <3>1, <3>3
  <2>3. \A row \in history :
          row.height \in DOMAIN blocks /\ row.active = AddressesMined({row.height})
    BY <2>2
  <2>4. "rollup" \notin pending => "rollup" \notin page.pending
    OBVIOUS
  <2>. HIDE DEF pending, history
  <2>5. page' = StatsPage(pending, bestHeight, page.window, page.active, history)
    BY <1>2, <2>1, HourlyAnswered
  <2>. QED
    BY <1>2, <1>5, <2>3, <2>4, <2>5
<1>. QED
  BY <1>6, <1>7

LEMMA TransfersStep ==
  ASSUME ReadIInv, Still, ReadTransfers
  PROVE  PageFacts'
<1>1. page.kind = "asset" /\ blocks' = blocks
  BY DEF ReadTransfers, Still, vars
<1>2. PICK rows \in Newest([o \in TransfersWithin(bestHeight) |-> transfers[o]], Limit.transfers) :
        page' = TransfersAnswer(page, {}, bestHeight, rows)
  BY DEF ReadTransfers, TransfersAnswer
<1>3. page = AssetPage(page.pending, page.tip, page.rows)
  BY <1>1 DEF ReadIInv, PageFacts, AssetFacts
<1>4. page' = AssetPage({}, bestHeight, rows)
  BY <1>2, <1>3, TransfersAnswered
<1>5. page'.kind = "asset" /\ page'.pending = {} /\ page'.tip = bestHeight /\ page'.rows = rows
  BY <1>4, AssetPageColumns
<1>6. page' = AssetPage(page'.pending, page'.tip, page'.rows)
  BY <1>4, <1>5
<1>7. rows \in Newest(TransfersAt(bestHeight), Limit.transfers)
  BY <1>2, TransfersAtHeights DEF ReadIInv
<1>8. TransfersAt(page.tip)' = TransfersAt(bestHeight)
  BY <1>1, <1>5 DEF TransfersAt, Mined, MinedAt
<1>9. AssetFacts'
  BY <1>5, <1>6, <1>7, <1>8 DEF AssetFacts
<1>. QED
  BY <1>5, <1>9, OtherKinds DEF PageFacts

-----------------------------------------------------------------------------
\* A finished page has been sent when something is committed.
LEMMA NoPageFacts == ASSUME page' = NoPage PROVE PageFacts'
<1>1. page'.kind = "none"
  BY DEF NoPage
<1>. QED
  BY <1>1, OtherKinds DEF PageFacts

\* Commits that are not rollbacks keep what a page in the making has.
LEMMA ExtendedStep ==
  ASSUME ReadIInv, page' = page, page.pending # {}, "rollback" \in since => "rollback" \in since',
         Stage \/ (\E r \in RangesWithin(0, MaxHeight) : Prepare(r)) \/ Reduce
  PROVE  BlockFacts' /\ ListFacts' /\ TransactionFacts' /\ StatsFacts' /\ LatestFacts' /\ AssetFacts'
<1>1. /\ bestHeight \in Int /\ bestHeight' \in Int /\ bestHeight <= bestHeight'
      /\ \A h \in DOMAIN blocks : h \in DOMAIN blocks' /\ blocks'[h] = blocks[h]
      /\ \A t \in DOMAIN txs : t \in DOMAIN txs' /\ txs'[t] = txs[t]
  BY Extended, StagedHeights DEF ReadIInv
<1>2. \A h \in 0..bestHeight : h \in DOMAIN blocks
  BY StagedHeights DEF ReadIInv
<1>3. BlockFacts /\ ListFacts /\ TransactionFacts /\ StatsFacts /\ LatestFacts /\ AssetFacts
  BY DEF ReadIInv, PageFacts
<1>4. BlockFacts'
  BY <1>1, <1>2, <1>3 DEF BlockFacts
<1>5. ListFacts'
  BY <1>1, <1>3 DEF ListFacts
<1>6. TransactionFacts'
  <2>1. \A t \in DOMAIN txs : txs[t] \in Int
    BY StagedTx DEF ReadIInv, IInv
  <2>. QED
    BY <1>1, <1>3, <2>1 DEF TransactionFacts
<1>7. StatsFacts'
  <2>1. ASSUME NEW S \in SUBSET DOMAIN blocks PROVE AddressesMined(S)' = AddressesMined(S)
    <3>1. UNION {TxsOf[blocks'[h]] : h \in S} = UNION {TxsOf[blocks[h]] : h \in S}
      BY <1>1
    <3>. QED
      BY <3>1 DEF AddressesMined
  <2>2. ASSUME page.kind = "stats", "rollback" \notin since', "rollup" \notin page.pending
        PROVE  /\ page.window \subseteq DOMAIN blocks'
               /\ page.active = AddressesMined(page.window)'
    <3>1. page.window \subseteq DOMAIN blocks /\ page.active = AddressesMined(page.window)
      BY <1>3, <2>2 DEF StatsFacts
    <3>2. AddressesMined(page.window)' = AddressesMined(page.window)
      <4>1. UNION {TxsOf[blocks'[h]] : h \in page.window} = UNION {TxsOf[blocks[h]] : h \in page.window}
        BY <1>1, <3>1
      <4>. QED
        BY <4>1 DEF AddressesMined
    <3>. QED
      BY <1>1, <3>1, <3>2
  <2>3. ASSUME page.kind = "stats", "rollback" \notin since', "history" \notin page.pending,
               NEW row \in page.history
        PROVE  row.height \in DOMAIN blocks' /\ row.active = AddressesMined({row.height})'
    <3>1. row.height \in DOMAIN blocks /\ row.active = AddressesMined({row.height})
      BY <1>3, <2>3 DEF StatsFacts
    <3>. QED
      BY <1>1, <2>1, <3>1
  <2>. QED
    BY <1>3, <2>2, <2>3 DEF StatsFacts
<1>8. LatestFacts' /\ AssetFacts'
  BY <1>3 DEF LatestFacts, AssetFacts
<1>. QED
  BY <1>4, <1>5, <1>6, <1>7, <1>8

\* What an address holds stays until a batch is reduced or removed.
LEMMA HeldStep ==
  ASSUME ReadIInv, page' = page,
         \/ since' # {}
         \/ since = {} /\ (Stage \/ (\E r \in RangesWithin(0, MaxHeight) : Prepare(r)))
  PROVE  AddressFacts' /\ RankingFacts'
<1>1. AddressFacts /\ RankingFacts
  BY DEF ReadIInv, PageFacts
<1>2. CASE since' # {}
  BY <1>1, <1>2 DEF AddressFacts, RankingFacts
<1>3. CASE since = {} /\ (Stage \/ (\E r \in RangesWithin(0, MaxHeight) : Prepare(r)))
  <2>1. ProcessedTxs' = ProcessedTxs /\ Height' = Height
    BY <1>3, SameProcessed, SameHeights DEF ReadIInv
  <2>2. /\ Held(page.address)' = Held(page.address) /\ History(page.address)' = History(page.address)
        /\ HeldAt(page.address)' = HeldAt(page.address)
        /\ HistoryAt(page.address)' = HistoryAt(page.address)
    BY <2>1 DEF Held, History, HeldAt, HistoryAt
  <2>3. /\ Shares' = Shares /\ Holders' = Holders /\ \A a : Standing(a)' = Standing(a)
    BY <2>1, SameHeld
  <2>4. Ranked(page.rows, page.offset) => Ranked(page.rows, page.offset)'
    <3>. SUFFICES ASSUME Ranked(page.rows, page.offset) PROVE Ranked(page.rows, page.offset)'
      OBVIOUS
    <3>1. PICK ranked \in PageOf(Holders, page.offset, Limit.ranking) :
            page.rows = {Standing(a) : a \in ranked}
      BY DEF Ranked
    <3>. QED
      BY <2>3, <3>1 DEF Ranked
  <2>6. AddressFacts'
    BY <1>1, <1>3, <2>2 DEF AddressFacts
  <2>7. RankingFacts'
    BY <1>1, <1>3, <2>3, <2>4 DEF RankingFacts
  <2>. QED
    BY <2>6, <2>7
<1>. QED
  BY <1>2, <1>3

\* A rollback ends all claims of a page in the making.
LEMMA RolledBackStep ==
  ASSUME ReadIInv, page' = page, page.pending # {}, "rollback" \in since'
  PROVE  PageFacts'
<1>1. PageFacts
  BY DEF ReadIInv
<1>2. BlockFacts' /\ ListFacts' /\ TransactionFacts' /\ StatsFacts'
  BY <1>1 DEF PageFacts, BlockFacts, ListFacts, TransactionFacts, StatsFacts
<1>3. LatestFacts' /\ AssetFacts'
  BY <1>1 DEF PageFacts, LatestFacts, AssetFacts
<1>4. since' # {}
  OBVIOUS
<1>5. AddressFacts' /\ RankingFacts'
  BY <1>4, HeldStep
<1>. QED
  BY <1>2, <1>3, <1>5 DEF PageFacts

LEMMA CommitStep ==
  ASSUME ReadIInv, Commit
  PROVE  ReadIInv'
<1>1. IInv'
  BY NextStep DEF ReadIInv, Commit, Next
<1>2. CASE page.pending = {}
  <2>1. page' = NoPage
    BY <1>2 DEF Commit, Noted
  <2>. QED
    BY <1>1, <2>1, NoPageFacts DEF ReadIInv
<1>3. CASE page.pending # {}
  <2>1. CASE (Stage \/ \E r \in RangesWithin(0, MaxHeight) : Prepare(r)) /\ Noted({})
    <3>1. page' = page /\ since' = since
      BY <1>3, <2>1 DEF Noted
    <3>2. BlockFacts' /\ ListFacts' /\ TransactionFacts' /\ StatsFacts' /\ LatestFacts' /\ AssetFacts'
      BY <1>3, <2>1, <3>1, ExtendedStep
    <3>3. AddressFacts' /\ RankingFacts'
      BY <2>1, <3>1, HeldStep
    <3>. QED
      BY <1>1, <3>2, <3>3 DEF ReadIInv, PageFacts
  <2>2. CASE Reduce /\ Noted({"reduce"})
    <3>1. page' = page /\ since' = since \cup {"reduce"}
      BY <1>3, <2>2 DEF Noted
    <3>2. BlockFacts' /\ ListFacts' /\ TransactionFacts' /\ StatsFacts' /\ LatestFacts' /\ AssetFacts'
      BY <1>3, <2>2, <3>1, ExtendedStep
    <3>3. since' # {}
      BY <3>1
    <3>4. AddressFacts' /\ RankingFacts'
      BY <3>1, <3>3, HeldStep
    <3>. QED
      BY <1>1, <3>2, <3>4 DEF ReadIInv, PageFacts
  <2>3. CASE Noted({"rollback"})
    <3>1. page' = page /\ "rollback" \in since'
      BY <1>3, <2>3 DEF Noted
    <3>. QED
      BY <1>1, <1>3, <3>1, RolledBackStep DEF ReadIInv
  <2>. QED
    BY <2>1, <2>2, <2>3 DEF Commit
<1>. QED
  BY <1>2, <1>3

LEMMA RequestStep ==
  ASSUME ReadIInv, Request
  PROVE  ReadIInv'
<1>1. UNCHANGED vars /\ IInv /\ IInv'
  BY ReadKeepsTables DEF ReadIInv, Request
<1>2. CASE Opens /\ since' = {}
  BY <1>1, <1>2, OpenStep DEF ReadIInv
<1>3. CASE UNCHANGED since /\ (\/ ReadBlockTransactions \/ ReadBlockList \/ ReadInputs \/ ReadOutputs
                               \/ ReadBalances \/ ReadHistory \/ ReadUtxos \/ ReadRollup \/ ReadHourly
                               \/ ReadRanked \/ ReadDistribution \/ ReadTransfers)
  <2>1. Still
    BY <1>1, <1>3 DEF Still
  <2>2. PageFacts'
    BY <1>3, <2>1, BlockTransactionsStep, BlockListStep, InputsStep, OutputsStep, AddressReadsStep,
       StatsStep, RankingStep, TransfersStep
  <2>. QED
    BY <1>1, <2>2 DEF ReadIInv
<1>. QED
  BY <1>2, <1>3 DEF Request, Opens

(***************************************************************************)
(* What a page in the making holds stays right while the indexer commits,  *)
(* for as long as its kind of page needs it to.                            *)
(***************************************************************************)
THEOREM ReadInvariant == ReadSpec => []ReadIInv
<1>1. ReadInit => ReadIInv
  <2>. SUFFICES ASSUME ReadInit PROVE ReadIInv
    OBVIOUS
  <2>1. IInv
    BY InitInvariant DEF ReadInit
  <2>2. page.kind = "none"
    BY DEF ReadInit, NoPage
  <2>. QED
    BY <2>1, <2>2 DEF ReadIInv, PageFacts, BlockFacts, ListFacts, TransactionFacts, StatsFacts,
       LatestFacts, AssetFacts, AddressFacts, RankingFacts
<1>2. ReadIInv /\ [ReadNext]_<<vars, readVars>> => ReadIInv'
  <2>. SUFFICES ASSUME ReadIInv, [ReadNext]_<<vars, readVars>> PROVE ReadIInv'
    OBVIOUS
  <2>1. CASE Request
    BY <2>1, RequestStep
  <2>2. CASE Commit
    BY <2>2, CommitStep
  <2>3. CASE UNCHANGED <<vars, readVars>>
    <3>1. UNCHANGED vars /\ page' = page /\ since' = since
      BY <2>3 DEF readVars
    <3>2. IInv'
      BY <3>1, ReadKeepsTables DEF ReadIInv
    <3>3. BlockFacts' /\ ListFacts' /\ TransactionFacts' /\ StatsFacts' /\ LatestFacts' /\ AssetFacts'
      BY <3>1 DEF vars, ReadIInv, PageFacts, BlockFacts, ListFacts, TransactionFacts, StatsFacts,
         LatestFacts, AssetFacts, AddressesMined, LatestAt, TransfersAt, Mined, MinedAt
    <3>4. ProcessedTxs' = ProcessedTxs /\ Height' = Height
      BY <3>1, StillProcessed
    <3>5. AddressFacts'
      BY <3>1, <3>4 DEF ReadIInv, PageFacts, AddressFacts, Held, History, HeldAt, HistoryAt
    <3>6. RankingFacts'
      BY <3>1, <3>4 DEF ReadIInv, PageFacts, RankingFacts, Ranked, Standing, Holders, Shares, Held, History
    <3>. QED
      BY <3>2, <3>3, <3>5, <3>6 DEF ReadIInv, PageFacts
  <2>. QED
    BY <2>1, <2>2, <2>3 DEF ReadNext
<1>. QED
  BY <1>1, <1>2, PTL DEF ReadSpec

(***************************************************************************)
(* A page whose queries no rollback separates is consistent: a block has   *)
(* its own transactions, a transaction its outputs and its resolved        *)
(* inputs, statistics count the processed blocks and no staged one, and    *)
(* lists are cut off at their limit and nowhere else, for every limit.     *)
(***************************************************************************)
THEOREM PagesFit == ReadSpec => []PagesFitWithoutRollback
<1>1. ReadIInv => PagesFitWithoutRollback
  <2>. SUFFICES ASSUME ReadIInv, "rollback" \notin since PROVE PagesFitWithoutRollback
    BY DEF PagesFitWithoutRollback
  <2>1. PageFacts
    BY DEF ReadIInv
  <2>2. Complete("block") => page.transactions = TxsOf[page.block]
    BY <2>1 DEF Complete, PageFacts, BlockFacts
  <2>3. ASSUME page.pending = {} PROVE \A h \in ShownHeights : h <= page.tip
    BY <2>1, <2>3 DEF ShownHeights, PageFacts, BlockFacts, ListFacts
  <2>4. Complete("blocks") => page.rows \in Newest([h \in 0 .. page.upper |-> h], Limit.blocks)
    BY <2>1 DEF Complete, PageFacts, ListFacts
  <2>5. Complete("transaction") =>
          /\ page.inputs = Spends[page.tx] /\ page.unresolved = {}
          /\ page.outputs = {o \in Output : CreatedBy[o] = page.tx}
    BY <2>1 DEF Complete, PageFacts, TransactionFacts
  <2>6. Complete("stats") =>
          /\ page.active = AddressesMined(page.window)
          /\ \A row \in page.history : row.active = AddressesMined({row.height})
    BY <2>1 DEF Complete, PageFacts, StatsFacts
  <2>7. Complete("latest") => page.rows \in Newest(LatestAt(page.tip), Limit.latest)
    BY <2>1 DEF Complete, PageFacts, LatestFacts
  <2>8. Complete("asset") => page.rows \in Newest(TransfersAt(page.tip), Limit.transfers)
    BY <2>1 DEF Complete, PageFacts, AssetFacts
  <2>. QED
    BY <2>2, <2>3, <2>4, <2>5, <2>6, <2>7, <2>8 DEF PagesFitWithoutRollback, LatestAt, TransfersAt
<1>. QED
  BY <1>1, ReadInvariant, PTL

(***************************************************************************)
(* An address page and a ranking whose queries all see the same processed  *)
(* tip add up, up to their limits and for every limit, although every      *)
(* query is gated by itself, staging and preparing go on, and the balances *)
(* are not gated at all.                                                   *)
(***************************************************************************)
THEOREM AddressesAddUp == ReadSpec => []AddressPageAddsUp
<1>1. ReadIInv => AddressPageAddsUp
  <2>. SUFFICES ASSUME ReadIInv, since = {} PROVE AddressPageAddsUp
    BY DEF AddressPageAddsUp
  <2>1. AddressFacts /\ RankingFacts
    BY DEF ReadIInv, PageFacts
  <2>2. ASSUME Complete("address")
        PROVE  /\ page.utxos \in Newest([o \in page.balance |-> MinedAt(CreatedBy[o])], Limit.utxos)
               /\ page.recent \in Newest([t \in page.count |-> MinedAt(t)], Limit.history)
    <3>1. /\ page.balance = Held(page.address) /\ page.count = History(page.address)
          /\ page.utxos \in Newest(HeldAt(page.address), Limit.utxos)
          /\ page.recent \in Newest(HistoryAt(page.address), Limit.history)
      BY <2>1, <2>2 DEF Complete, AddressFacts
    <3>2. HeldAt(page.address) = [o \in Held(page.address) |-> MinedAt(CreatedBy[o])]
      BY DEF HeldAt, Height, Held
    <3>3. HistoryAt(page.address) = [t \in History(page.address) |-> MinedAt(t)]
      BY DEF HistoryAt, Height, History
    <3>. QED
      BY <3>1, <3>2, <3>3
  <2>3. \A a : {o \in Unspent : a \in Owners[o]} = Held(a)
    BY UnspentIsHeld DEF ReadIInv
  <2>4. ASSUME Complete("ranking")
        PROVE  /\ page.total = {share \in Address \X Unspent : share[1] \in Owners[share[2]]}
               /\ {row.address : row \in page.rows}
                    \in PageOf({share[1] : share \in page.total}, page.offset, Limit.ranking)
    <3>1. page.total = Shares /\ Ranked(page.rows, page.offset)
      BY <2>1, <2>4 DEF Complete, RankingFacts
    <3>2. Shares = {share \in Address \X Unspent : share[1] \in Owners[share[2]]}
      BY <2>3 DEF Shares
    <3>3. {share[1] : share \in Shares} = Holders
      <4>1. ASSUME NEW share \in Shares PROVE share[1] \in Holders
        <5>1. PICK a \in Address : share \in {a} \X Held(a)
          BY DEF Shares
        <5>2. share[1] = a /\ share[2] \in Held(a)
          BY <5>1
        <5>. QED
          BY <5>2 DEF Holders
      <4>2. ASSUME NEW a \in Holders PROVE \E share \in Shares : share[1] = a
        <5>1. PICK o : o \in Held(a)
          BY DEF Holders
        <5>2. a \in Address /\ <<a, o>> \in {a} \X Held(a)
          BY <5>1 DEF Holders
        <5>3. <<a, o>> \in Shares /\ <<a, o>>[1] = a
          BY <5>2 DEF Shares
        <5>. QED
          BY <5>3
      <4>. QED
        BY <4>1, <4>2
    <3>4. PICK ranked \in PageOf(Holders, page.offset, Limit.ranking) :
            page.rows = {Standing(a) : a \in ranked}
      BY <3>1 DEF Ranked
    <3>5. {row.address : row \in page.rows} = ranked
      <4>1. \A a : Standing(a).address = a
        BY DEF Standing
      <4>. QED
        BY <3>4, <4>1
    <3>. QED
      BY <3>1, <3>2, <3>3, <3>4, <3>5
  <2>5. ASSUME Complete("ranking"), NEW row \in page.rows
        PROVE  /\ row.balance = {o \in Unspent : row.address \in Owners[o]}
               /\ row.history = {t \in Mined(bestHeight) :
                                   \E e \in EntriesOf[t] : e.address = row.address}
    <3>1. Ranked(page.rows, page.offset)
      BY <2>1, <2>5 DEF Complete, RankingFacts
    <3>2. PICK a : row = Standing(a)
      BY <2>5, <3>1 DEF Ranked
    <3>3. row.address = a /\ row.balance = Held(a) /\ row.history = History(a)
      BY <3>2 DEF Standing
    <3>. QED
      BY <2>3, <3>3 DEF History, ProcessedTxs
  <2>. QED
    BY <2>2, <2>4, <2>5 DEF AddressPageAddsUp
<1>. QED
  BY <1>1, ReadInvariant, PTL

-----------------------------------------------------------------------------
\* A run of the tool that has its snapshot.
Opened == tool.phase \in {"hashes", "facts", "mismatch", "passed", "diverged"}

ToolRecord(phase, db, damage, samples, heights, hashes) ==
  [phase |-> phase, db |-> db, damage |-> damage, samples |-> samples, heights |-> heights,
   hashes |-> hashes]

\* What every snapshot has, a damaged one too: the blocks of a chain up to its tip,
\* and transfers of outputs of these blocks.
Snapshot(db) ==
  /\ db.blocks \in Chains /\ db.best \in DOMAIN db.blocks /\ Activation <= db.best
  /\ \A o \in DOMAIN db.transfers :
       db.transfers[o] <= db.best =>
         /\ o \in AssetOutput /\ db.transfers[o] \in 0..db.best
         /\ CreatedBy[o] \in TxsOf[db.blocks[db.transfers[o]]]

\* What a sound one has besides: the rows of its blocks, and balances of these rows.
Sound(db) ==
  /\ db.outputs \subseteq Output
  /\ \A h \in 0..db.best : \A o \in Output :
       CreatedBy[o] \in TxsOf[db.blocks[h]] =>
         /\ o \in db.outputs
         /\ o \in AssetOutput => o \in DOMAIN db.transfers /\ db.transfers[o] = h
         /\ \A e \in Received(o) : e \in DOMAIN db.activity /\ db.activity[e] = h
  /\ \A e \in Entry :
       db.counted[e] = IF e \in DOMAIN db.activity /\ db.activity[e] <= db.best THEN 1 ELSE 0

\* A row is missing, and it was one of the victim's.
Missing(db, damage) ==
  /\ damage = "output" => Victim \notin db.outputs
  /\ damage = "transfer" => Victim \in AssetOutput /\ Victim \notin DOMAIN db.transfers
  /\ damage = "activity" => \E e \in Received(Victim) : e \notin DOMAIN db.activity

Sampled(db, samples, heights) ==
  /\ \A o \in samples : /\ o \in DOMAIN db.transfers /\ db.transfers[o] <= db.best
                       /\ db.transfers[o] \in heights
  /\ heights \subseteq 0..db.best
  /\ SamplesAssets /\ (\E o \in DOMAIN db.transfers : db.transfers[o] <= db.best) => samples # {}

\* While the node is on the snapshot's chain, its answers are the snapshot's blocks.
Answers ==
  /\ DOMAIN tool.hashes \subseteq tool.heights
  /\ ~ strayed =>
       /\ \A h \in 0..tool.db.best : h \in DOMAIN node /\ node[h] = tool.db.blocks[h]
       /\ \A h \in DOMAIN tool.hashes : tool.hashes[h] = tool.db.blocks[h]
  /\ tool.phase = "diverged" => strayed

\* The hashes were compared; from here on the node is not asked by height.
Compared ==
  tool.phase \in {"facts", "mismatch", "passed"} =>
    DOMAIN tool.hashes = tool.heights /\ \A h \in tool.heights : tool.hashes[h] = tool.db.blocks[h]

\* The verdict is about the snapshot: it holds whatever was committed since.
Verdict ==
  /\ tool.phase = "mismatch" /\ SamplesAssets => tool.damage # "none"
  /\ tool.phase = "passed" /\ Victim \in FactOutputs => tool.damage \in {"none", "balance"}

ToolFacts ==
  Opened =>
    /\ tool = ToolRecord(tool.phase, tool.db, tool.damage, tool.samples, tool.heights, tool.hashes)
    /\ tool.damage \in {"none", "output", "transfer", "activity", "balance"}
    /\ Snapshot(tool.db) /\ Missing(tool.db, tool.damage)
    /\ tool.damage = "none" => Sound(tool.db)
    /\ Sampled(tool.db, tool.samples, tool.heights)
    /\ Answers /\ Compared /\ Verdict

\* The two tables a damage is taken from are functions, and nothing else.
Tabulated ==
  /\ activity = [e \in DOMAIN activity |-> activity[e]]
  /\ transfers = [o \in DOMAIN transfers |-> transfers[o]]

ToolIInv == IInv /\ Tabulated /\ ToolFacts

-----------------------------------------------------------------------------
\* A quotient, without multiplying out.
LEMMA DivBelow ==
  ASSUME NEW a \in Nat, NEW d \in Nat, d > 0, NEW s \in Nat, a < d * s
  PROVE  a \div d \in 0 .. s - 1
<1>. DEFINE q == a \div d
<1>1. q \in Int /\ d * q <= a /\ a < d * q + d
  OBVIOUS
<1>2. q < s
  <2>1. SUFFICES ASSUME q >= s PROVE FALSE
    BY <1>1
  <2>2. d * s <= d * q
    BY <2>1, <1>1
  <2>. QED BY <2>2, <1>1
<1>. QED BY <1>1, <1>2

\* The sampled heights lie between the activation and the tip.
LEMMA SpacedWithin ==
  ASSUME NEW best \in Nat, Activation <= best
  PROVE  uniformlySpacedHeights(best, BlockSamples) \subseteq Activation .. best
<1>. DEFINE span == best - Activation + 1
            taken == Min({BlockSamples, span})
<1>1. Activation \in Nat /\ BlockSamples \in Nat /\ BlockSamples > 0
  BY ReconcileAssumption
<1>2. span \in Nat /\ span > 0
  BY <1>1
<1>3. taken \in Nat /\ taken > 0
  <2>1. taken = CHOOSE x \in {BlockSamples, span} : \A y \in {BlockSamples, span} : x <= y
    BY DEF Min
  <2>2. \E x \in {BlockSamples, span} : \A y \in {BlockSamples, span} : x <= y
    BY <1>1, <1>2
  <2>3. taken \in {BlockSamples, span}
    BY <2>1, <2>2
  <2>. QED BY <1>1, <1>2, <2>3
<1>. HIDE DEF span, taken
<1>4. ASSUME NEW index \in 0 .. taken - 1
      PROVE  ((2 * index + 1) * span) \div (2 * taken) \in 0 .. span - 1
  <2>1. 2 * index + 1 \in Nat /\ 2 * taken \in Nat /\ 2 * index + 1 < 2 * taken /\ 2 * taken > 0
    BY <1>3
  <2>2. (2 * index + 1) * span \in Nat /\ (2 * index + 1) * span < (2 * taken) * span
    BY <2>1, <1>2
  <2>. QED BY <1>2, <2>1, <2>2, DivBelow
<1>5. \A q \in 0 .. span - 1 : Activation + q \in Activation .. best
  BY <1>1 DEF span
<1>6. uniformlySpacedHeights(best, BlockSamples)
        = {Activation + (((2 * index + 1) * span) \div (2 * taken)) : index \in 0 .. taken - 1}
  BY DEF uniformlySpacedHeights, span, taken
<1>. QED BY <1>4, <1>5, <1>6

-----------------------------------------------------------------------------
\* Every commit leaves tables.
LEMMA StaysTabulated == ASSUME Tabulated, [Next]_vars PROVE Tabulated'
<1>1. CASE Stage \/ Reduce \/ UNCHANGED vars
  BY <1>1 DEF Stage, Reduce, vars, Tabulated
<1>2. ASSUME NEW r \in RangesWithin(0, MaxHeight), Prepare(r) PROVE Tabulated'
  BY <1>2 DEF Prepare, Tabulated
<1>3. ASSUME NEW ancestor \in -1..rawHeight, Rollback(ancestor) PROVE Tabulated'
  BY <1>3 DEF Rollback, Tabulated
<1>. QED BY <1>1, <1>2, <1>3 DEF Next

\* A query of the ledger sees sound tables.
LEMMA TablesSound ==
  ASSUME IInv, bestHeight >= Activation
  PROVE  Snapshot(Tables) /\ Sound(Tables)
<1>. USE DEF IInv
<1>1. /\ rawHeight \in Int /\ bestHeight \in Int /\ 0 <= bestHeight /\ bestHeight <= rawHeight
      /\ blocks \in Chains /\ DOMAIN blocks = 0..rawHeight /\ bestHeight \in DOMAIN blocks
  BY StagedIsChain, ReconcileAssumption DEF Rows
<1>2. /\ Tables.blocks = blocks /\ Tables.best = bestHeight /\ Tables.counted = counted
      /\ Tables.activity = activity /\ Tables.transfers = transfers
      /\ Tables.outputs = {o \in Output : CreatedBy[o] \in DOMAIN txs}
  BY DEF Tables
<1>3. ASSUME NEW o \in DOMAIN transfers, transfers[o] <= bestHeight
      PROVE  /\ o \in AssetOutput /\ transfers[o] \in 0..bestHeight
             /\ CreatedBy[o] \in TxsOf[blocks[transfers[o]]]
  <2>1. o \in AssetOutput /\ CreatedBy[o] \in DOMAIN txs /\ transfers[o] = txs[CreatedBy[o]]
    BY DEF Dependent
  <2>. QED BY <1>1, <1>3, <2>1 DEF TxRows
<1>4. Snapshot(Tables)
  BY <1>1, <1>2, <1>3 DEF Snapshot
<1>5. ASSUME NEW h \in 0..bestHeight, NEW o \in Output, CreatedBy[o] \in TxsOf[blocks[h]]
      PROVE  /\ CreatedBy[o] \in DOMAIN txs
             /\ o \in AssetOutput => o \in DOMAIN transfers /\ transfers[o] = h
             /\ \A e \in Received(o) : e \in DOMAIN activity /\ activity[e] = h
  <2>. DEFINE t == CreatedBy[o]
  <2>1. t \in DOMAIN txs /\ txs[t] = h
    BY <1>1, <1>5 DEF TxRows
  <2>2. Enriched(t)
    BY <2>1 DEF PreparedBefore
  <2>3. o \in AssetOutput => o \in DOMAIN transfers /\ transfers[o] = h
    BY <2>1, <2>2 DEF Enriched, Dependent
  <2>4. ASSUME NEW e \in Received(o) PROVE e \in DOMAIN activity /\ activity[e] = h
    <3>1. e \in Entry /\ e.tx = t
      BY DEF Received, Entry
    <3>2. e \in DOMAIN activity
      BY <3>1, <2>2 DEF Enriched
    <3>. QED BY <2>1, <3>1, <3>2 DEF Dependent
  <2>. QED BY <2>1, <2>3, <2>4
<1>6. ASSUME NEW e \in Entry
      PROVE  counted[e] = IF e \in DOMAIN activity /\ activity[e] <= bestHeight THEN 1 ELSE 0
  <2>1. counted[e] = IF e.tx \in DOMAIN txs /\ txs[e.tx] <= bestHeight THEN 1 ELSE 0
    BY DEF Balances
  <2>2. e \in DOMAIN activity => e.tx \in DOMAIN txs /\ activity[e] = txs[e.tx]
    BY DEF Dependent
  <2>3. e.tx \in DOMAIN txs /\ txs[e.tx] <= bestHeight => e \in DOMAIN activity
    BY DEF PreparedBefore, Enriched
  <2>. QED BY <2>1, <2>2, <2>3
<1>. QED BY <1>2, <1>4, <1>5, <1>6 DEF Sound

\* Damage takes rows away, and changes no block.
LEMMA DamagedSnapshot ==
  ASSUME Tabulated, Snapshot(Tables), NEW damage \in {"none", "output", "transfer", "activity", "balance"},
         damage = "none" \/ Damaged(Tables, damage) # Tables,
         DOMAIN transfers \subseteq AssetOutput
  PROVE  /\ Snapshot(Damaged(Tables, damage)) /\ Missing(Damaged(Tables, damage), damage)
         /\ Damaged(Tables, damage).blocks = blocks /\ Damaged(Tables, damage).best = bestHeight
<1>. DEFINE db == Damaged(Tables, damage)
<1>1. CASE damage = "none"
  BY <1>1 DEF Damaged, Missing, Tables
<1>2. CASE damage = "output"
  <2>1. db = [Tables EXCEPT !.outputs = @ \ {Victim}]
    BY <1>2 DEF Damaged
  <2>. QED BY <1>2, <2>1 DEF Snapshot, Missing, Tables
<1>3. CASE damage = "transfer"
  <2>1. db = [Tables EXCEPT !.transfers = [o \in DOMAIN @ \ {Victim} |-> @[o]]]
    BY <1>3 DEF Damaged
  <2>2. /\ db.blocks = blocks /\ db.best = bestHeight
        /\ db.transfers = [o \in DOMAIN transfers \ {Victim} |-> transfers[o]]
    BY <2>1 DEF Tables
  <2>3. Victim \in DOMAIN transfers
    <3>1. SUFFICES ASSUME Victim \notin DOMAIN transfers PROVE db = Tables
      BY <1>3
    <3>2. [o \in DOMAIN transfers \ {Victim} |-> transfers[o]] = transfers
      BY <3>1 DEF Tabulated
    <3>. QED BY <2>1, <3>2 DEF Tables
  <2>4. Victim \in AssetOutput /\ Victim \notin DOMAIN db.transfers
    BY <2>2, <2>3
  <2>5. Snapshot(db)
    BY <2>2 DEF Snapshot, Tables
  <2>. QED BY <1>3, <2>2, <2>4, <2>5 DEF Missing
<1>4. CASE damage = "activity"
  <2>1. db = [Tables EXCEPT !.activity = [e \in DOMAIN @ \ Received(Victim) |-> @[e]]]
    BY <1>4 DEF Damaged
  <2>2. /\ db.blocks = blocks /\ db.best = bestHeight /\ db.transfers = transfers
        /\ db.activity = [e \in DOMAIN activity \ Received(Victim) |-> activity[e]]
    BY <2>1 DEF Tables
  <2>3. \E e \in Received(Victim) : e \in DOMAIN activity
    <3>1. SUFFICES ASSUME \A e \in Received(Victim) : e \notin DOMAIN activity PROVE db = Tables
      BY <1>4
    <3>2. [e \in DOMAIN activity \ Received(Victim) |-> activity[e]] = activity
      BY <3>1 DEF Tabulated
    <3>. QED BY <2>1, <3>2 DEF Tables
  <2>4. Snapshot(db)
    BY <2>2 DEF Snapshot, Tables
  <2>. QED BY <1>4, <2>2, <2>3, <2>4 DEF Missing
<1>5. CASE damage = "balance"
  <2>1. db = [Tables EXCEPT !.counted = [e \in Entry |-> IF e \in Received(Victim)
                                                        THEN @[e] + 1 ELSE @[e]]]
    BY <1>5 DEF Damaged
  <2>. QED BY <1>5, <2>1 DEF Snapshot, Missing, Tables
<1>. QED BY <1>1, <1>2, <1>3, <1>4, <1>5

-----------------------------------------------------------------------------
\* The outputs the node tells of are those of the sampled blocks of the snapshot.
LEMMA FactsOfBlocks ==
  ASSUME Snapshot(tool.db), tool.heights \subseteq 0..tool.db.best,
         DOMAIN tool.hashes = tool.heights,
         \A h \in tool.heights : tool.hashes[h] = tool.db.blocks[h]
  PROVE  /\ FactOutputs = {o \in Output : \E h \in tool.heights :
                                           CreatedBy[o] \in TxsOf[tool.db.blocks[h]]}
         /\ \A o \in FactOutputs :
              /\ FactHeight(o) \in tool.heights
              /\ CreatedBy[o] \in TxsOf[tool.db.blocks[FactHeight(o)]]
<1>1. FactOutputs = {o \in Output : \E h \in tool.heights :
                                     CreatedBy[o] \in TxsOf[tool.db.blocks[h]]}
  BY DEF FactOutputs
<1>2. ASSUME NEW o \in FactOutputs
      PROVE  /\ FactHeight(o) \in tool.heights
             /\ CreatedBy[o] \in TxsOf[tool.db.blocks[FactHeight(o)]]
  <2>1. \E h \in tool.heights : CreatedBy[o] \in TxsOf[tool.hashes[h]]
    BY DEF FactOutputs
  <2>2. FactHeight(o) \in tool.heights /\ CreatedBy[o] \in TxsOf[tool.hashes[FactHeight(o)]]
    BY <2>1 DEF FactHeight
  <2>. QED BY <2>2
<1>. QED BY <1>1, <1>2

\* Nothing is wrong with a sound snapshot.
LEMMA SoundPasses ==
  ASSUME ToolFacts, tool.phase = "facts", tool.damage = "none"
  PROVE  /\ ~ RawOutputsDiffer /\ ~ ReceiveActivityDiffers /\ ~ AssetTransfersDiffer
         /\ ~ SamplesUnexplained /\ \A a : ~ CachedBalanceDiffers(a)
         /\ SamplesAssets => ~ AssetSamplesMissing
<1>. DEFINE db == tool.db
<1>1. /\ Snapshot(db) /\ Sound(db) /\ Sampled(db, tool.samples, tool.heights)
      /\ DOMAIN tool.hashes = tool.heights /\ \A h \in tool.heights : tool.hashes[h] = db.blocks[h]
  BY DEF ToolFacts, Opened, Compared
<1>2. tool.heights \subseteq 0..db.best
  BY <1>1 DEF Sampled
<1>3. /\ FactOutputs = {o \in Output : \E h \in tool.heights : CreatedBy[o] \in TxsOf[db.blocks[h]]}
      /\ \A o \in FactOutputs : /\ FactHeight(o) \in tool.heights
                                /\ CreatedBy[o] \in TxsOf[db.blocks[FactHeight(o)]]
  BY <1>1, <1>2, FactsOfBlocks
<1>4. ASSUME NEW o \in FactOutputs
      PROVE  /\ o \in Output /\ o \in db.outputs
             /\ o \in AssetOutput => o \in DOMAIN db.transfers
             /\ \A e \in Received(o) : e \in DOMAIN db.activity /\ db.activity[e] = FactHeight(o)
  BY <1>1, <1>2, <1>3 DEF Sound
<1>5. ~ RawOutputsDiffer
  <2>1. ASSUME NEW o \in db.outputs, NEW f \in FactOutputs, CreatedBy[o] = CreatedBy[f]
        PROVE  o \in FactOutputs
    BY <1>1, <1>3, <2>1 DEF Sound
  <2>2. {o \in db.outputs : \E f \in FactOutputs : CreatedBy[o] = CreatedBy[f]} = FactOutputs
    BY <1>4, <2>1
  <2>. QED BY <2>2 DEF RawOutputsDiffer, Database
<1>6. ~ ReceiveActivityDiffers
  BY <1>4 DEF ReceiveActivityDiffers, Database
<1>7. ~ AssetTransfersDiffer
  BY <1>4 DEF AssetTransfersDiffer, Database
<1>8. ASSUME NEW o \in tool.samples PROVE o \in FactOutputs \cap AssetOutput
  <2>1. o \in DOMAIN db.transfers /\ db.transfers[o] <= db.best /\ db.transfers[o] \in tool.heights
    BY <1>1 DEF Sampled
  <2>2. o \in AssetOutput /\ CreatedBy[o] \in TxsOf[db.blocks[db.transfers[o]]]
    BY <1>1, <2>1 DEF Snapshot
  <2>. QED BY <1>3, <2>1, <2>2, LedgerAssumption
<1>9. ~ SamplesUnexplained
  BY <1>8 DEF SamplesUnexplained
<1>10. ASSUME NEW a PROVE ~ CachedBalanceDiffers(a)
  BY <1>1 DEF CachedBalanceDiffers, Database, Sound
<1>11. ASSUME SamplesAssets PROVE ~ AssetSamplesMissing
  <2>1. SUFFICES ASSUME db.best >= Activation + Grace PROVE FactOutputs \cap AssetOutput # {}
    BY DEF AssetSamplesMissing
  <2>2. \E h \in 0..db.best : \E o \in AssetOutput : CreatedBy[o] \in TxsOf[db.blocks[h]]
    BY <1>1, <1>11, <2>1 DEF SamplesAssets, Snapshot
  <2>3. \E o \in DOMAIN db.transfers : db.transfers[o] <= db.best
    BY <1>1, <2>2, LedgerAssumption DEF Sound
  <2>4. tool.samples # {}
    BY <1>1, <1>11, <2>3 DEF Sampled
  <2>. QED BY <1>8, <2>4
<1>. QED BY <1>5, <1>6, <1>7, <1>9, <1>10, <1>11

\* A row of the sampled blocks that is missing is missed.
LEMMA MissingIsFound ==
  ASSUME ToolFacts, tool.phase = "facts", Victim \in FactOutputs,
         tool.damage \in {"output", "transfer", "activity"}
  PROVE  RawOutputsDiffer \/ ReceiveActivityDiffers \/ AssetTransfersDiffer
<1>1. Missing(tool.db, tool.damage)
  BY DEF ToolFacts, Opened
<1>2. CASE tool.damage = "output"
  <2>1. Victim \notin tool.db.outputs
    BY <1>1, <1>2 DEF Missing
  <2>. QED BY <2>1 DEF RawOutputsDiffer, Database
<1>3. CASE tool.damage = "transfer"
  BY <1>1, <1>3 DEF Missing, AssetTransfersDiffer, Database
<1>4. CASE tool.damage = "activity"
  BY <1>1, <1>4 DEF Missing, ReceiveActivityDiffers, Database
<1>. QED BY <1>2, <1>3, <1>4

-----------------------------------------------------------------------------
\* A snapshot is taken of sound tables, or of tables that were damaged.
LEMMA ToolOpenStep ==
  ASSUME ToolIInv, Open
  PROVE  ToolFacts'
<1>1. CASE bestHeight < Activation
  <2>1. tool' = Ended("skipped")
    BY <1>1 DEF Open
  <2>. QED BY <2>1 DEF Ended, ToolFacts, Opened
<1>2. CASE ~ (bestHeight < Activation)
  <2>1. PICK damage \in {"none", "output", "transfer", "activity", "balance"} :
          /\ damage = "none" \/ Damaged(Tables, damage) # Tables
          /\ \E samples \in TransferSampleSets(Damaged(Tables, damage)) :
               tool' = [phase |-> "hashes", db |-> Damaged(Tables, damage), damage |-> damage,
                        samples |-> samples,
                        heights |-> uniformlySpacedHeights(Damaged(Tables, damage).best, BlockSamples)
                                      \cup {Damaged(Tables, damage).transfers[o] : o \in samples}
                                      \cup {Damaged(Tables, damage).best},
                        hashes |-> NoRows]
    BY <1>2 DEF Open
  <2>. DEFINE db == Damaged(Tables, damage)
  <2>2. PICK samples \in TransferSampleSets(db) :
          tool' = [phase |-> "hashes", db |-> db, damage |-> damage, samples |-> samples,
                   heights |-> uniformlySpacedHeights(db.best, BlockSamples)
                                 \cup {db.transfers[o] : o \in samples} \cup {db.best},
                   hashes |-> NoRows]
    BY <2>1
  <2>3. bestHeight \in Int /\ Activation \in Nat /\ bestHeight >= Activation
    BY <1>2, ReconcileAssumption DEF ToolIInv, IInv, Rows
  <2>4. Snapshot(Tables) /\ Sound(Tables)
    BY <2>3, TablesSound DEF ToolIInv
  <2>5. /\ Snapshot(db) /\ Missing(db, damage) /\ db.blocks = blocks /\ db.best = bestHeight
        /\ damage = "none" => Sound(db)
    <3>1. DOMAIN transfers \subseteq AssetOutput
      BY DEF ToolIInv, IInv, Dependent
    <3>2. damage = "none" => db = Tables
      BY DEF Damaged
    <3>. QED BY <2>1, <2>4, <3>1, <3>2, DamagedSnapshot DEF ToolIInv
  <2>. HIDE DEF db
  <2>. DEFINE visible == {o \in DOMAIN db.transfers : db.transfers[o] <= db.best}
              heights == uniformlySpacedHeights(db.best, BlockSamples)
                           \cup {db.transfers[o] : o \in samples} \cup {db.best}
  <2>6. samples \subseteq visible /\ Cardinality(samples) = Min({TransferSamples, Cardinality(visible)})
    BY DEF TransferSampleSets
  <2>7. heights \subseteq 0..db.best
    <3>1. db.best \in Nat /\ Activation <= db.best
      BY <2>3, <2>5
    <3>2. uniformlySpacedHeights(db.best, BlockSamples) \subseteq 0..db.best
      BY <2>3, <3>1, SpacedWithin
    <3>3. \A o \in samples : db.transfers[o] \in 0..db.best
      BY <2>5, <2>6 DEF Snapshot
    <3>. QED BY <3>1, <3>2, <3>3
  <2>8. SamplesAssets /\ visible # {} => samples # {}
    <3>1. SUFFICES ASSUME SamplesAssets, visible # {}, samples = {} PROVE FALSE
      OBVIOUS
    <3>2. IsFiniteSet(visible)
      <4>1. visible \subseteq AssetOutput /\ IsFiniteSet(AssetOutput)
        BY <2>5, <3>1 DEF Snapshot, SamplesAssets
      <4>. QED BY <4>1, FS_Subset
    <3>3. Cardinality(visible) \in Nat /\ Cardinality(visible) # 0 /\ Cardinality(samples) = 0
      BY <3>1, <3>2, FS_EmptySet, FS_CardinalityType
    <3>4. TransferSamples \in Nat /\ TransferSamples > 0
      BY <3>1, ReconcileAssumption DEF SamplesAssets
    <3>5. Min({TransferSamples, Cardinality(visible)}) \in {TransferSamples, Cardinality(visible)}
      <4>1. \E x \in {TransferSamples, Cardinality(visible)} :
              \A y \in {TransferSamples, Cardinality(visible)} : x <= y
        BY <3>3, <3>4
      <4>. QED BY <4>1 DEF Min
    <3>. QED BY <2>6, <3>3, <3>4, <3>5
  <2>9. Sampled(db, samples, heights)
    BY <2>6, <2>7, <2>8 DEF Sampled
  <2>. HIDE DEF heights
  <2>10. tool' = ToolRecord("hashes", db, damage, samples, heights, NoRows)
    BY <2>2 DEF ToolRecord, heights, db
  <2>11. /\ tool'.phase = "hashes" /\ tool'.db = db /\ tool'.damage = damage
         /\ tool'.samples = samples /\ tool'.heights = heights /\ tool'.hashes = NoRows
    BY <2>10 DEF ToolRecord
  <2>12. ~ strayed' => \A h \in 0..bestHeight : h \in DOMAIN node' /\ node'[h] = blocks[h]
    BY DEF Open
  <2>13. Answers'
    BY <2>5, <2>11, <2>12 DEF Answers, NoRows
  <2>14. Compared' /\ Verdict'
    BY <2>11 DEF Compared, Verdict
  <2>. QED BY <2>5, <2>9, <2>10, <2>11, <2>13, <2>14 DEF ToolFacts
<1>. QED BY <1>1, <1>2

\* A set of heights has a lowest one.
LEMMA LeastHeight ==
  ASSUME NEW T, T \subseteq Nat, T # {}
  PROVE  \E x \in T : \A y \in T : x <= y
<1>. DEFINE R == OpToRel(<, Nat)
<1>1. IsWellFoundedOn(R, Nat)
  BY NatLessThanWellFounded
<1>. HIDE DEF R
<1>2. PICK x \in T : \A y \in T : <<y, x>> \notin R
  BY <1>1, WFMin
<1>3. \A y \in T : ~ (y < x)
  BY <1>2 DEF R, OpToRel
<1>. HIDE <1>2
<1>. QED BY <1>3

\* What a step that keeps the snapshot has to show.
LEMMA KeptSnapshot ==
  ASSUME ToolFacts, Opened, NEW phase \in {"hashes", "facts", "mismatch", "passed", "diverged"},
         NEW hashes,
         tool' = ToolRecord(phase, tool.db, tool.damage, tool.samples, tool.heights, hashes),
         Answers', Compared', Verdict'
  PROVE  ToolFacts'
<1>1. /\ tool'.phase = phase /\ tool'.db = tool.db /\ tool'.damage = tool.damage
      /\ tool'.samples = tool.samples /\ tool'.heights = tool.heights /\ tool'.hashes = hashes
  BY DEF ToolRecord
<1>2. tool' = ToolRecord(tool'.phase, tool'.db, tool'.damage, tool'.samples, tool'.heights, tool'.hashes)
  BY <1>1
<1>3. /\ tool.damage \in {"none", "output", "transfer", "activity", "balance"}
      /\ Snapshot(tool.db) /\ Missing(tool.db, tool.damage)
      /\ tool.damage = "none" => Sound(tool.db)
      /\ Sampled(tool.db, tool.samples, tool.heights)
  BY DEF ToolFacts
<1>. QED BY <1>1, <1>2, <1>3 DEF ToolFacts

\* The node answers for one height, or has no block there.
LEMMA AskHashStep ==
  ASSUME ToolFacts, AskHash
  PROVE  ToolFacts'
<1>. DEFINE missing == tool.heights \ DOMAIN tool.hashes
            h       == Min(missing)
            added   == [k \in DOMAIN tool.hashes \cup {h} |-> IF k = h THEN node[h] ELSE tool.hashes[k]]
<1>1. /\ tool.phase = "hashes" /\ missing # {}
      /\ tool' = IF ~ Answered(h) THEN [tool EXCEPT !.phase = "diverged"]
                 ELSE [tool EXCEPT !.hashes = added]
      /\ UNCHANGED <<node, strayed>>
  BY DEF AskHash
<1>2. /\ Opened /\ Answers /\ Sampled(tool.db, tool.samples, tool.heights)
      /\ tool = ToolRecord(tool.phase, tool.db, tool.damage, tool.samples, tool.heights, tool.hashes)
      /\ Snapshot(tool.db)
  BY <1>1 DEF ToolFacts, Opened
<1>3. h \in tool.heights /\ h \in 0..tool.db.best
  <2>1. missing \subseteq Nat /\ missing \subseteq 0..tool.db.best
    <3>1. tool.heights \subseteq 0..tool.db.best
      BY <1>2 DEF Sampled
    <3>. QED BY <3>1
  <2>2. \E x \in missing : \A y \in missing : x <= y
    BY <1>1, <2>1, LeastHeight
  <2>3. h \in missing
    BY <2>2 DEF Min
  <2>. QED BY <2>1, <2>3
<1>. HIDE DEF h
<1>4. CASE ~ Answered(h)
  <2>1. tool' = ToolRecord("diverged", tool.db, tool.damage, tool.samples, tool.heights, tool.hashes)
    BY <1>1, <1>2, <1>4 DEF ToolRecord
  <2>2. /\ tool'.phase = "diverged" /\ tool'.db = tool.db
        /\ tool'.heights = tool.heights /\ tool'.hashes = tool.hashes
    BY <2>1 DEF ToolRecord
  <2>3. strayed
    BY <1>2, <1>3, <1>4 DEF Answers, Answered
  <2>4. Answers'
    BY <1>1, <1>2, <2>2, <2>3 DEF Answers
  <2>5. Compared' /\ Verdict'
    BY <2>2 DEF Compared, Verdict
  <2>. QED BY <1>2, <2>1, <2>4, <2>5, KeptSnapshot
<1>5. CASE Answered(h)
  <2>1. tool' = ToolRecord("hashes", tool.db, tool.damage, tool.samples, tool.heights, added)
    BY <1>1, <1>2, <1>5 DEF ToolRecord
  <2>2. /\ tool'.phase = "hashes" /\ tool'.db = tool.db
        /\ tool'.heights = tool.heights /\ tool'.hashes = added
    BY <2>1 DEF ToolRecord
  <2>3. Answers'
    BY <1>1, <1>2, <1>3, <2>2 DEF Answers
  <2>4. Compared' /\ Verdict'
    BY <2>2 DEF Compared, Verdict
  <2>. QED BY <1>2, <2>1, <2>3, <2>4, KeptSnapshot
<1>. QED BY <1>4, <1>5

\* Hashes that all agree make the node's blocks the snapshot's.
LEMMA CheckHashesStep ==
  ASSUME ToolFacts, CheckHashes
  PROVE  ToolFacts'
<1>. DEFINE agree == \A h \in tool.heights : tool.hashes[h] = tool.db.blocks[h]
            phase == IF agree THEN "facts" ELSE "diverged"
<1>1. /\ tool.phase = "hashes" /\ DOMAIN tool.hashes = tool.heights
      /\ tool' = [tool EXCEPT !.phase = phase]
      /\ UNCHANGED <<node, strayed>>
  BY DEF CheckHashes
<1>2. /\ Opened /\ Answers
      /\ tool = ToolRecord(tool.phase, tool.db, tool.damage, tool.samples, tool.heights, tool.hashes)
  BY <1>1 DEF ToolFacts, Opened
<1>3. tool' = ToolRecord(phase, tool.db, tool.damage, tool.samples, tool.heights, tool.hashes)
  BY <1>1, <1>2 DEF ToolRecord
<1>4. /\ tool'.phase = phase /\ tool'.db = tool.db
      /\ tool'.heights = tool.heights /\ tool'.hashes = tool.hashes
  BY <1>3 DEF ToolRecord
<1>5. phase = "diverged" => strayed
  BY <1>1, <1>2 DEF Answers
<1>6. Answers'
  BY <1>1, <1>2, <1>4, <1>5 DEF Answers
<1>7. Compared' /\ Verdict'
  BY <1>1, <1>4 DEF Compared, Verdict
<1>. QED BY <1>2, <1>3, <1>6, <1>7, KeptSnapshot

\* The verdict follows from the snapshot.
LEMMA CompareStep ==
  ASSUME ToolFacts, Compare
  PROVE  ToolFacts'
<1>1. tool.phase = "facts" /\ UNCHANGED <<node, strayed>>
  BY DEF Compare
<1>2. PICK sampled \in BalanceSampleSets :
        tool' = [tool EXCEPT !.phase =
                   IF \/ RawOutputsDiffer \/ ReceiveActivityDiffers \/ AssetTransfersDiffer
                      \/ SamplesUnexplained \/ AssetSamplesMissing
                      \/ \E a \in sampled : CachedBalanceDiffers(a)
                   THEN "mismatch" ELSE "passed"]
  BY DEF Compare
<1>. DEFINE differs == \/ RawOutputsDiffer \/ ReceiveActivityDiffers \/ AssetTransfersDiffer
                       \/ SamplesUnexplained \/ AssetSamplesMissing
                       \/ \E a \in sampled : CachedBalanceDiffers(a)
            phase == IF differs THEN "mismatch" ELSE "passed"
<1>3. /\ Opened /\ Answers /\ Compared
      /\ tool.damage \in {"none", "output", "transfer", "activity", "balance"}
      /\ tool = ToolRecord(tool.phase, tool.db, tool.damage, tool.samples, tool.heights, tool.hashes)
  BY <1>1 DEF ToolFacts, Opened
<1>4. differs /\ SamplesAssets => tool.damage # "none"
  BY <1>1, SoundPasses
<1>5. ~ differs /\ Victim \in FactOutputs => tool.damage \in {"none", "balance"}
  BY <1>1, <1>3, MissingIsFound
<1>6. tool' = [tool EXCEPT !.phase = phase]
  BY <1>2
<1>. HIDE DEF differs
<1>7. tool' = ToolRecord(phase, tool.db, tool.damage, tool.samples, tool.heights, tool.hashes)
  BY <1>3, <1>6 DEF ToolRecord
<1>8. /\ tool'.phase = phase /\ tool'.db = tool.db /\ tool'.damage = tool.damage
      /\ tool'.heights = tool.heights /\ tool'.hashes = tool.hashes
  BY <1>7 DEF ToolRecord
<1>9. Answers' /\ Compared'
  BY <1>1, <1>3, <1>8 DEF Answers, Compared
<1>10. FactOutputs' = FactOutputs
  BY <1>8 DEF FactOutputs
<1>11. Verdict'
  BY <1>4, <1>5, <1>8, <1>10 DEF Verdict
<1>. QED BY <1>3, <1>7, <1>9, <1>11, KeptSnapshot

\* A node that moves is remembered to have strayed, if it has.
LEMMA NodeMovesStep ==
  ASSUME ToolFacts, NodeMoves
  PROVE  ToolFacts'
<1>1. /\ tool.phase = "hashes" /\ tool' = tool
      /\ strayed' = (strayed \/ \E h \in 0 .. tool.db.best :
                                  h \notin DOMAIN node' \/ node'[h] # tool.db.blocks[h])
  BY DEF NodeMoves
<1>2. Opened /\ Answers
      /\ tool = ToolRecord(tool.phase, tool.db, tool.damage, tool.samples, tool.heights, tool.hashes)
  BY <1>1 DEF ToolFacts, Opened
<1>3. Answers'
  BY <1>1, <1>2 DEF Answers
<1>4. Compared' /\ Verdict'
  BY <1>1 DEF Compared, Verdict
<1>. QED BY <1>1, <1>2, <1>3, <1>4, KeptSnapshot

\* Commits and the other steps leave a run of the tool alone.
LEMMA ToolStep ==
  ASSUME ToolIInv, [ToolNext]_<<vars, toolVars>>
  PROVE  ToolIInv'
<1>1. [Next]_vars
  BY DEF ToolNext, Open, AskHash, CheckHashes, Compare, Fails, Close, NodeMoves, CommitMeanwhile
<1>2. IInv' /\ Tabulated'
  BY <1>1, NextStep, StaysTabulated DEF ToolIInv
<1>. SUFFICES ToolFacts'
  BY <1>2 DEF ToolIInv
<1>3. CASE UNCHANGED <<tool, node, strayed>>
  <2>1. /\ Opened' <=> Opened
        /\ Answers' <=> Answers
        /\ Compared' <=> Compared
        /\ Verdict' <=> Verdict
    BY <1>3 DEF Opened, Answers, Compared, Verdict, FactOutputs
  <2>2. ToolFacts
    BY DEF ToolIInv
  <2>. QED BY <1>3, <2>1, <2>2 DEF ToolFacts
<1>4. CASE CommitMeanwhile \/ UNCHANGED <<vars, toolVars>>
  BY <1>3, <1>4 DEF CommitMeanwhile, toolVars
<1>5. CASE Open
  BY <1>5, ToolOpenStep
<1>6. CASE AskHash
  BY <1>6, AskHashStep DEF ToolIInv
<1>7. CASE CheckHashes
  BY <1>7, CheckHashesStep DEF ToolIInv
<1>8. CASE Compare
  BY <1>8, CompareStep DEF ToolIInv
<1>9. CASE NodeMoves
  BY <1>9, NodeMovesStep DEF ToolIInv
<1>10. CASE Fails
  BY <1>10 DEF Fails, Ended, ToolFacts, Opened
<1>11. CASE Close
  BY <1>11 DEF Close, NoTool, ToolFacts, Opened
<1>. QED
  BY <1>4, <1>5, <1>6, <1>7, <1>8, <1>9, <1>10, <1>11 DEF ToolNext

(***************************************************************************)
(* The tool never finds fault with a sound database, says that the chains  *)
(* differ only of a node that has left its chain, and finds every row that *)
(* is missing among what it looks at, for every tree of blocks, any number *)
(* of commits and samples and wherever a call may fail, if the node's      *)
(* chain has assets where the tool expects them (SamplesAssets): with      *)
(* RECONCILE_TRANSFER_SAMPLES=0 it may complain of a sound database.       *)
(***************************************************************************)
THEOREM ReconciliationIsRight ==
  ASSUME SamplesAssets
  PROVE  ToolSpec => []ReconcileIsRight
<1>1. ToolInit => ToolIInv
  BY InitInvariant DEF ToolInit, Init, NoTool, ToolIInv, ToolFacts, Opened, Tabulated
<1>2. ToolIInv /\ [ToolNext]_<<vars, toolVars>> => ToolIInv'
  BY ToolStep
<1>3. ToolIInv => ReconcileIsRight
  BY DEF ToolIInv, ToolFacts, Opened, Answers, Verdict, ReconcileIsRight
<1>. QED BY <1>1, <1>2, <1>3, PTL DEF ToolSpec
==============================================================================
