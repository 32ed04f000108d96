---------------------------- MODULE LedgerProofs ----------------------------
(***************************************************************************)
(* Balances, unspent outputs and batches are exact, for every tree of      *)
(* blocks that satisfies the consensus rules and every order of            *)
(* transactions.                                                           *)
(*                                                                         *)
(* The properties speak of processed blocks only.  What makes them         *)
(* inductive is that a prepared batch has already left everything a        *)
(* processed block needs (Enriched), and that it stays so until the block  *)
(* is removed: an output spent on this chain is marked by one transaction  *)
(* only, so no later batch and no rollback takes the mark away.            *)
(*                                                                         *)
(* At the end: the transactions are those of Checkpoints.                  *)
(***************************************************************************)
EXTENDS Ledger, TLAPS

\* The staged rows are a chain, the transactions its transactions.
Rows ==
  /\ rawHeight \in Int /\ bestHeight \in Int
  /\ -1 <= bestHeight /\ bestHeight <= rawHeight /\ rawHeight <= MaxHeight
  /\ IF rawHeight = -1 THEN blocks = NoRows ELSE blocks \in ChainsOfHeight(rawHeight)

TxRows ==
  /\ \A t \in DOMAIN txs : txs[t] \in 0..rawHeight /\ t \in TxsOf[blocks[txs[t]]]
  /\ \A h \in 0..rawHeight : \A t \in TxsOf[blocks[h]] : t \in DOMAIN txs /\ txs[t] = h

\* The columns and tables that hang on a transaction.
Dependent ==
  /\ resolved \subseteq [tx : DOMAIN txs, output : Output]
  /\ spentBy \in [Output -> DOMAIN txs \cup {NoTx}]
  /\ \A o \in Output : spentBy[o] # NoTx => o \in Spends[spentBy[o]]
  /\ DOMAIN activity \subseteq Entry
  /\ \A e \in DOMAIN activity : e.tx \in DOMAIN txs /\ activity[e] = txs[e.tx]
  /\ DOMAIN transfers \subseteq AssetOutput
  /\ \A o \in DOMAIN transfers : /\ CreatedBy[o] \in DOMAIN txs
                                /\ transfers[o] = txs[CreatedBy[o]]

\* All that preparing a transaction's block leaves behind.
Enriched(t) ==
  /\ \A o \in Spends[t] : [tx |-> t, output |-> o] \in resolved /\ spentBy[o] = t
  /\ \A e \in Entry : e.tx = t => e \in DOMAIN activity
  /\ \A o \in AssetOutput : CreatedBy[o] = t => o \in DOMAIN transfers

PreparedBefore ==
  \A t \in DOMAIN txs :
    (\/ txs[t] <= bestHeight
     \/ \E b \in batches : b.status = "prepared" /\ txs[t] \in b.first .. b.last)
    => Enriched(t)

Batches ==
  \A b \in batches :
    /\ b \in [first : 0..rawHeight, last : 0..rawHeight, status : {"prepared", "reduced"},
               deltas : SUBSET Entry]
    /\ b.first <= b.last
    /\ b.status = "reduced" => b.deltas = {}
    /\ b.status = "prepared" =>
         b.deltas = {e \in Entry : e.tx \in DOMAIN txs /\ txs[e.tx] \in b.first .. b.last}

Balances ==
  /\ counted \in [Entry -> Nat]
  /\ \A e \in Entry :
       counted[e] = IF e.tx \in DOMAIN txs /\ txs[e.tx] <= bestHeight THEN 1 ELSE 0

IInv == Rows /\ TxRows /\ Dependent /\ PreparedBefore /\ Batches /\ Balances

-----------------------------------------------------------------------------
\* A chain is a function on an interval of heights, and its prefixes are chains.
LEMMA ChainShape ==
  ASSUME NEW c \in Chains
  PROVE  \E n \in 0..MaxHeight : c \in ChainsOfHeight(n) /\ DOMAIN c = 0..n
BY DEF Chains, ChainsOfHeight

\* Cutting a chain at a height it has leaves a chain of that height.
LEMMA Prefix ==
  ASSUME NEW n \in Nat, NEW c \in ChainsOfHeight(n), NEW k \in 0..n
  PROVE  [h \in {j \in DOMAIN c : j <= k} |-> c[h]] \in ChainsOfHeight(k)
<1> DEFINE d == [h \in {j \in DOMAIN c : j <= k} |-> c[h]]
<1>1. c \in [0..n -> Block] /\ c[0] = Genesis /\ \A h \in 1..n : Parent[c[h]] = c[h - 1]
  BY DEF ChainsOfHeight
<1>2. {j \in DOMAIN c : j <= k} = 0..k
  BY <1>1
<1>3. d = [h \in 0..k |-> c[h]]
  BY <1>2
<1>4. d \in [0..k -> Block] /\ d[0] = Genesis
  BY <1>1, <1>3
<1>5. \A h \in 1..k : Parent[d[h]] = d[h - 1]
  BY <1>1, <1>3
<1>. QED
  BY <1>4, <1>5 DEF ChainsOfHeight

\* The staged rows are one of the chains the consensus rules speak of.
LEMMA StagedIsChain ==
  ASSUME Rows, rawHeight >= 0
  PROVE  blocks \in Chains /\ DOMAIN blocks = 0..rawHeight
BY DEF Rows, Chains, ChainsOfHeight

\* Two staged transactions never spend the same output.
LEMMA OneSpender ==
  ASSUME Rows, TxRows, NEW t \in DOMAIN txs, NEW u \in DOMAIN txs,
         NEW o \in Spends[t] \cap Spends[u]
  PROVE  t = u
<1>1. rawHeight >= 0 /\ txs[t] \in 0..rawHeight /\ txs[u] \in 0..rawHeight
  BY DEF TxRows, Rows
<1>2. t \in TxsOf[blocks[txs[t]]] /\ u \in TxsOf[blocks[txs[u]]]
  BY DEF TxRows
<1>3. blocks \in Chains /\ DOMAIN blocks = 0..rawHeight
  BY <1>1, StagedIsChain
<1>4. txs[t] \in DOMAIN blocks /\ txs[u] \in DOMAIN blocks
  BY <1>1, <1>3
<1>5. \A h, k \in DOMAIN blocks : \A x \in TxsOf[blocks[h]], y \in TxsOf[blocks[k]] :
        /\ x = y => h = k
        /\ Spends[x] \cap Spends[y] # {} => x = y
        /\ \A z \in Spends[x] : \E j \in 0..h : CreatedBy[z] \in TxsOf[blocks[j]]
  BY <1>3, ConsensusAssumption, Zenon
<1>6. Spends[t] \cap Spends[u] # {} => t = u
  BY <1>2, <1>4, <1>5
<1>. QED
  BY <1>6

\* What a staged transaction spends was created by a staged one, no higher.
LEMMA CreatedBefore ==
  ASSUME Rows, TxRows, NEW t \in DOMAIN txs, NEW o \in Spends[t]
  PROVE  CreatedBy[o] \in DOMAIN txs /\ txs[CreatedBy[o]] <= txs[t]
<1>1. rawHeight >= 0 /\ txs[t] \in 0..rawHeight
  BY DEF TxRows, Rows
<1>2. t \in TxsOf[blocks[txs[t]]]
  BY DEF TxRows
<1>3. blocks \in Chains /\ txs[t] \in DOMAIN blocks
  BY <1>1, StagedIsChain
<1>4. PICK j \in 0..txs[t] : CreatedBy[o] \in TxsOf[blocks[j]]
  BY <1>2, <1>3, ConsensusAssumption, Zenon
<1>5. j \in 0..rawHeight /\ j <= txs[t]
  BY <1>1, <1>4 DEF Rows
<1>. QED
  BY <1>4, <1>5 DEF TxRows

-----------------------------------------------------------------------------
\* The empty database.
LEMMA InitInvariant == Init => IInv
BY BlockTreeAssumption, LedgerAssumption
DEF Init, IInv, Rows, TxRows, Dependent, PreparedBefore, Batches, Balances, NoRows, Entry

-----------------------------------------------------------------------------
\* Heights and identities of the staged transactions.
LEMMA StagedTx ==
  ASSUME Rows, TxRows, NEW t \in DOMAIN txs
  PROVE  t \in Tx /\ t # NoTx /\ txs[t] \in 0..rawHeight /\ Spends[t] \subseteq Output
<1>1. rawHeight >= 0 /\ txs[t] \in 0..rawHeight
  BY DEF TxRows, Rows
<1>2. blocks[txs[t]] \in Block
  BY <1>1 DEF Rows, ChainsOfHeight
<1>3. t \in Tx
  BY <1>2, LedgerAssumption DEF TxRows
<1>. QED
  BY <1>1, <1>3, LedgerAssumption

\* A stage adds transactions above the staged tip and touches no other row.
LEMMA StageStep == ASSUME IInv, Stage PROVE IInv'
<1>. USE DEF IInv
<1>1. PICK c \in Chains :
        LET new == DOMAIN c \ DOMAIN blocks
            added(h) == TxsOf[c[h]]
        IN  /\ new # {} /\ DOMAIN blocks \subseteq DOMAIN c
            /\ \A h \in DOMAIN blocks : c[h] = blocks[h]
            /\ blocks' = c
            /\ rawHeight' = CHOOSE n \in new : n + 1 \notin new
            /\ txs' = [t \in DOMAIN txs \cup UNION {added(h) : h \in new} |->
                         IF t \in DOMAIN txs THEN txs[t]
                         ELSE CHOOSE h \in new : t \in added(h)]
            /\ UNCHANGED <<bestHeight, resolved, spentBy, activity, transfers, batches, counted>>
  BY DEF Stage
<1>. DEFINE new == DOMAIN c \ DOMAIN blocks
<1>2. PICK n \in 0..MaxHeight : c \in ChainsOfHeight(n) /\ DOMAIN c = 0..n
  BY ChainShape
<1>3. DOMAIN blocks = 0..rawHeight /\ rawHeight \in Int /\ rawHeight >= -1
  BY StagedIsChain DEF Rows, NoRows
<1>4. new = rawHeight + 1 .. n /\ rawHeight < n /\ n \in Int
  BY <1>1, <1>2, <1>3
<1>5. rawHeight' = n
  <2>1. n \in new /\ n + 1 \notin new
    BY <1>3, <1>4
  <2>2. \A k \in new : k + 1 \notin new => k = n
    BY <1>3, <1>4
  <2>. QED
    BY <1>1, <2>1, <2>2
<1>6. Rows'
  <2>1. bestHeight' = bestHeight /\ blocks' = c /\ bestHeight \in Int
        /\ -1 <= bestHeight /\ bestHeight <= rawHeight
    BY <1>1 DEF Rows
  <2>2. n \in Int /\ n # -1 /\ n <= MaxHeight /\ bestHeight <= n
    BY <1>2, <1>3, <1>4, <2>1, BlockTreeAssumption
  <2>. QED
    BY <1>2, <1>5, <2>1, <2>2 DEF Rows
<1>7. \A h, k \in 0..n : \A t \in TxsOf[c[h]], u \in TxsOf[c[k]] :
        /\ t = u => h = k
        /\ Spends[t] \cap Spends[u] # {} => t = u
        /\ \A o \in Spends[t] : \E j \in 0..h : CreatedBy[o] \in TxsOf[c[j]]
  BY <1>2, ConsensusAssumption, Zenon
<1>8. ASSUME NEW t \in DOMAIN txs
      PROVE  /\ t \in DOMAIN txs' /\ txs'[t] = txs[t] /\ txs[t] \in 0..rawHeight
             /\ t \in TxsOf[c[txs[t]]]
  <2>1. t \in DOMAIN txs' /\ txs'[t] = txs[t]
    BY <1>1
  <2>2. txs[t] \in 0..rawHeight /\ t \in TxsOf[blocks[txs[t]]]
    BY DEF TxRows
  <2>. QED
    BY <1>1, <1>3, <2>1, <2>2
<1>9. ASSUME NEW t \in DOMAIN txs', t \notin DOMAIN txs
      PROVE  txs'[t] \in new /\ t \in TxsOf[c[txs'[t]]]
  <2>1. \E h \in new : t \in TxsOf[c[h]]
    BY <1>1, <1>9
  <2>2. txs'[t] = CHOOSE h \in new : t \in TxsOf[c[h]]
    BY <1>1, <1>9
  <2>. QED
    BY <2>1, <2>2
<1>10. TxRows'
  <2>1. ASSUME NEW t \in DOMAIN txs'
        PROVE  txs'[t] \in 0..n /\ t \in TxsOf[c[txs'[t]]]
    BY <1>3, <1>4, <1>8, <1>9
  <2>2. ASSUME NEW h \in 0..n, NEW t \in TxsOf[c[h]]
        PROVE  t \in DOMAIN txs' /\ txs'[t] = h
    <3>1. t \in DOMAIN txs'
      <4>1. CASE h \in new
        BY <1>1, <4>1
      <4>2. CASE h \notin new
        <5>1. h \in 0..rawHeight /\ t \in TxsOf[blocks[h]]
          BY <1>1, <1>3, <1>4, <4>2
        <5>. QED
          BY <1>8, <5>1 DEF TxRows
      <4>. QED
        BY <4>1, <4>2
    <3>. QED
      BY <1>7, <2>1, <3>1
  <2>. QED
    BY <1>1, <1>5, <2>1, <2>2 DEF TxRows
\* Nothing at or below the old tip is new.
<1>11. ASSUME NEW t \in DOMAIN txs', txs'[t] <= rawHeight
       PROVE  t \in DOMAIN txs /\ txs'[t] = txs[t]
  BY <1>3, <1>4, <1>8, <1>9, <1>11
<1>12. Dependent'
  BY <1>1, <1>8 DEF Dependent
<1>13. PreparedBefore'
  <2>. SUFFICES ASSUME NEW t \in DOMAIN txs',
                       \/ txs'[t] <= bestHeight
                       \/ \E b \in batches : b.status = "prepared" /\ txs'[t] \in b.first .. b.last
                PROVE  Enriched(t)'
    BY <1>1 DEF PreparedBefore
  <2>1. txs'[t] <= rawHeight
    <3>1. txs'[t] \in Int
      BY <1>3, <1>4, <1>8, <1>9
    <3>. QED
      BY <1>3, <3>1 DEF Rows, Batches
  <2>2. Enriched(t)
    BY <1>11, <2>1 DEF PreparedBefore
  <2>. QED
    BY <1>1, <2>2 DEF Enriched
<1>14. Batches'
  <2>. SUFFICES ASSUME NEW b \in batches
                PROVE  /\ b \in [first : 0..n, last : 0..n, status : {"prepared", "reduced"},
                                  deltas : SUBSET Entry]
                       /\ b.first <= b.last
                       /\ b.status = "reduced" => b.deltas = {}
                       /\ b.status = "prepared" =>
                            b.deltas = {e \in Entry : /\ e.tx \in DOMAIN txs'
                                                      /\ txs'[e.tx] \in b.first .. b.last}
    BY <1>1, <1>5 DEF Batches
  <2>1. /\ b \in [first : 0..rawHeight, last : 0..rawHeight, status : {"prepared", "reduced"},
                   deltas : SUBSET Entry]
        /\ b.first <= b.last
        /\ b.status = "reduced" => b.deltas = {}
        /\ b.status = "prepared" =>
             b.deltas = {e \in Entry : e.tx \in DOMAIN txs /\ txs[e.tx] \in b.first .. b.last}
    BY DEF Batches
  <2>2. 0..rawHeight \subseteq 0..n
    BY <1>3, <1>4
  <2>3. b \in [first : 0..n, last : 0..n, status : {"prepared", "reduced"}, deltas : SUBSET Entry]
    BY <2>1, <2>2
  <2>4. \A t : t \in DOMAIN txs' /\ txs'[t] \in b.first .. b.last
               <=> t \in DOMAIN txs /\ txs[t] \in b.first .. b.last
    BY <1>3, <1>8, <1>11, <2>1
  <2>. QED
    BY <2>1, <2>3, <2>4
<1>15. Balances'
  <2>1. \A t : t \in DOMAIN txs' /\ txs'[t] <= bestHeight
               <=> t \in DOMAIN txs /\ txs[t] <= bestHeight
    <3>1. \A t \in DOMAIN txs' : txs'[t] \in Int
      BY <1>3, <1>4, <1>8, <1>9
    <3>. QED
      BY <1>3, <1>8, <1>11, <3>1 DEF Rows
  <2>2. counted \in [Entry -> Nat]
    BY DEF Balances
  <2>3. \A e \in Entry :
          counted[e] = IF e.tx \in DOMAIN txs /\ txs[e.tx] <= bestHeight THEN 1 ELSE 0
    BY DEF Balances
  <2>4. \A e \in Entry :
          counted[e] = IF e.tx \in DOMAIN txs' /\ txs'[e.tx] <= bestHeight THEN 1 ELSE 0
    BY <2>1, <2>3, Zenon
  <2>. QED
    BY <1>1, <2>2, <2>4 DEF Balances
<1>. QED
  BY <1>6, <1>10, <1>12, <1>13, <1>14, <1>15

\* Preparing a range leaves all its transactions enriched, and changes no mark
\* that is already there.
LEMMA PrepareStep ==
  ASSUME IInv, NEW r \in RangesWithin(0, MaxHeight), Prepare(r)
  PROVE  IInv'
<1>. USE DEF IInv
<1>1. /\ r \in [first : Int, last : Int] /\ 0 <= r.first /\ r.first <= r.last
      /\ r.last <= MaxHeight
  BY BlockTreeAssumption DEF RangesWithin
<1>2. /\ r.first > bestHeight /\ r.last <= rawHeight
      /\ resolved' = resolved \cup Links(r)
      /\ spentBy' = [o \in Output |->
                       IF \E l \in Links(r) : l.output = o
                       THEN (CHOOSE l \in Links(r) : l.output = o).tx ELSE spentBy[o]]
      /\ activity' = [e \in DOMAIN activity \cup Captured(r) |->
                        IF e \in Captured(r) THEN txs[e.tx] ELSE activity[e]]
      /\ transfers' = [o \in DOMAIN transfers \cup Transferred(r) |->
                         IF o \in Transferred(r) THEN txs[CreatedBy[o]] ELSE transfers[o]]
      /\ batches' = batches \cup {[first |-> r.first, last |-> r.last, status |-> "prepared",
                                   deltas |-> Captured(r)]}
      /\ UNCHANGED <<blocks, rawHeight, bestHeight, txs, counted>>
  BY DEF Prepare, CanPrepare
<1>. DEFINE M == TxsWithin(r.first, r.last)
<1>3. M = {t \in DOMAIN txs : txs[t] \in r.first .. r.last}
  BY DEF TxsWithin
<1>4. \A l \in Links(r) : /\ l.tx \in M /\ l.tx \in DOMAIN txs /\ l.output \in Spends[l.tx]
                         /\ l \in [tx : DOMAIN txs, output : Output]
  BY <1>3 DEF Links
<1>5. ASSUME NEW t \in M, NEW o \in Spends[t]
      PROVE  [tx |-> t, output |-> o] \in Links(r)
  <2>1. t \in DOMAIN txs /\ o \in Output /\ CreatedBy[o] \in DOMAIN txs
    BY <1>3, StagedTx, CreatedBefore
  <2>. QED
    BY <2>1 DEF Links
<1>6. Captured(r) = {e \in Entry : e.tx \in M}
  <2>1. \A e \in Entry : e.direction = "send" => e.output \in Spends[e.tx]
    <3>. SUFFICES ASSUME NEW e \in Entry, e.direction = "send" PROVE e.output \in Spends[e.tx]
      OBVIOUS
    <3>. QED
      BY DEF Entry
  <2>. QED
    BY <1>5, <2>1 DEF Captured
<1>7. Rows' /\ TxRows'
  BY <1>2 DEF Rows, TxRows
\* The mark a link sets is the one every spender of the output agrees on.
<1>8. ASSUME NEW o \in Output, \E l \in Links(r) : l.output = o
      PROVE  spentBy'[o] \in DOMAIN txs /\ o \in Spends[spentBy'[o]]
  <2>. DEFINE k == CHOOSE l \in Links(r) : l.output = o
  <2>1. k \in Links(r) /\ k.output = o
    BY <1>8
  <2>2. spentBy'[o] = k.tx
    BY <1>2, <1>8
  <2>. QED
    BY <1>4, <2>1, <2>2
<1>9. ASSUME NEW o \in Output, ~ \E l \in Links(r) : l.output = o
      PROVE  spentBy'[o] = spentBy[o]
  BY <1>2, <1>9
<1>10. Dependent'
  <2>1. resolved' \subseteq [tx : DOMAIN txs, output : Output]
    BY <1>2, <1>4 DEF Dependent
  <2>2. spentBy' \in [Output -> DOMAIN txs \cup {NoTx}]
    <3>1. \A o \in Output : spentBy'[o] \in DOMAIN txs \cup {NoTx}
      BY <1>8, <1>9 DEF Dependent
    <3>. QED
      BY <1>2, <3>1
  <2>3. \A o \in Output : spentBy'[o] # NoTx => o \in Spends[spentBy'[o]]
    BY <1>8, <1>9 DEF Dependent
  <2>4. DOMAIN activity' \subseteq Entry
    BY <1>2, <1>6 DEF Dependent
  <2>5. \A e \in DOMAIN activity' : e.tx \in DOMAIN txs /\ activity'[e] = txs[e.tx]
    BY <1>2, <1>3, <1>6 DEF Dependent
  <2>6. /\ DOMAIN transfers' \subseteq AssetOutput
        /\ \A o \in DOMAIN transfers' : /\ CreatedBy[o] \in DOMAIN txs
                                       /\ transfers'[o] = txs[CreatedBy[o]]
    BY <1>2, <1>3 DEF Dependent, Transferred
  <2>. QED
    BY <1>2, <2>1, <2>2, <2>3, <2>4, <2>5, <2>6 DEF Dependent
<1>11. ASSUME NEW t \in M PROVE Enriched(t)'
  <2>1. t \in DOMAIN txs
    BY <1>3
  <2>2. ASSUME NEW o \in Spends[t]
        PROVE  [tx |-> t, output |-> o] \in resolved' /\ spentBy'[o] = t
    <3>1. [tx |-> t, output |-> o] \in Links(r) /\ o \in Output
      BY <1>5, <2>1, StagedTx
    <3>2. spentBy'[o] \in DOMAIN txs /\ o \in Spends[spentBy'[o]]
      BY <1>8, <3>1
    <3>3. spentBy'[o] = t
      BY <2>1, <3>2, OneSpender
    <3>. QED
      BY <1>2, <3>1, <3>3
  <2>3. \A e \in Entry : e.tx = t => e \in DOMAIN activity'
    BY <1>2, <1>6
  <2>4. \A o \in AssetOutput : CreatedBy[o] = t => o \in DOMAIN transfers'
    BY <1>2 DEF Transferred
  <2>. QED
    BY <2>2, <2>3, <2>4 DEF Enriched
<1>12. ASSUME NEW t \in DOMAIN txs, Enriched(t) PROVE Enriched(t)'
  <2>1. ASSUME NEW o \in Spends[t]
        PROVE  [tx |-> t, output |-> o] \in resolved' /\ spentBy'[o] = t
    <3>1. [tx |-> t, output |-> o] \in resolved /\ spentBy[o] = t /\ o \in Output
      BY <1>12, StagedTx DEF Enriched
    <3>2. CASE \E l \in Links(r) : l.output = o
      <4>1. spentBy'[o] \in DOMAIN txs /\ o \in Spends[spentBy'[o]]
        BY <1>8, <3>1, <3>2
      <4>. QED
        BY <1>2, <3>1, <4>1, OneSpender
    <3>3. CASE ~ \E l \in Links(r) : l.output = o
      BY <1>2, <1>9, <3>1, <3>3
    <3>. QED
      BY <3>2, <3>3
  <2>2. \A e \in Entry : e.tx = t => e \in DOMAIN activity'
    BY <1>2, <1>12 DEF Enriched
  <2>3. \A o \in AssetOutput : CreatedBy[o] = t => o \in DOMAIN transfers'
    BY <1>2, <1>12 DEF Enriched
  <2>. QED
    BY <2>1, <2>2, <2>3 DEF Enriched
<1>. DEFINE added == [first |-> r.first, last |-> r.last, status |-> "prepared",
                      deltas |-> Captured(r)]
<1>13. PreparedBefore'
  <2>. SUFFICES ASSUME NEW t \in DOMAIN txs,
                       \/ txs[t] <= bestHeight
                       \/ \E b \in batches \cup {added} :
                            b.status = "prepared" /\ txs[t] \in b.first .. b.last
                PROVE  Enriched(t)'
    BY <1>2 DEF PreparedBefore
  <2>1. CASE txs[t] \in r.first .. r.last
    BY <1>3, <1>11, <2>1
  <2>2. CASE txs[t] \notin r.first .. r.last
    <3>1. Enriched(t)
      BY <2>2 DEF PreparedBefore
    <3>. QED
      BY <1>12, <3>1
  <2>. QED
    BY <2>1, <2>2
<1>14. Batches'
  <2>1. /\ added \in [first : 0..rawHeight, last : 0..rawHeight,
                       status : {"prepared", "reduced"}, deltas : SUBSET Entry]
        /\ added.first <= added.last /\ added.status = "prepared"
        /\ added.deltas = {e \in Entry : /\ e.tx \in DOMAIN txs
                                         /\ txs[e.tx] \in added.first .. added.last}
    BY <1>1, <1>2, <1>3, <1>6 DEF Rows
  <2>. QED
    BY <1>2, <2>1 DEF Batches
<1>15. Balances'
  BY <1>2 DEF Balances
<1>. QED
  BY <1>7, <1>10, <1>13, <1>14, <1>15

\* Reducing a batch moves the tip over exactly the rows it adds to the balances.
LEMMA ReduceStep == ASSUME IInv, Reduce PROVE IInv'
<1>. USE DEF IInv
<1>1. PICK b \in batches :
        /\ b.status = "prepared" /\ b.first = bestHeight + 1
        /\ counted' = [e \in Entry |-> IF e \in b.deltas THEN counted[e] + 1 ELSE counted[e]]
        /\ bestHeight' = b.last
        /\ batches' = (batches \ {b}) \cup {[b EXCEPT !.status = "reduced", !.deltas = {}]}
        /\ UNCHANGED <<blocks, rawHeight, txs, resolved, spentBy, activity, transfers>>
  BY DEF Reduce
<1>. DEFINE done == [b EXCEPT !.status = "reduced", !.deltas = {}]
<1>2. /\ b \in [first : 0..rawHeight, last : 0..rawHeight, status : {"prepared", "reduced"},
                 deltas : SUBSET Entry]
      /\ b.first <= b.last
      /\ b.deltas = {e \in Entry : e.tx \in DOMAIN txs /\ txs[e.tx] \in b.first .. b.last}
  BY <1>1 DEF Batches
<1>3. /\ done \in [first : 0..rawHeight, last : 0..rawHeight, status : {"prepared", "reduced"},
                    deltas : SUBSET Entry]
      /\ done.first = b.first /\ done.last = b.last /\ done.status = "reduced" /\ done.deltas = {}
  BY <1>2
<1>4. rawHeight \in Int /\ bestHeight \in Int /\ bestHeight >= -1 /\ b.last <= rawHeight
      /\ bestHeight < b.last /\ b.last \in Int
  BY <1>1, <1>2 DEF Rows
<1>5. Rows' /\ TxRows'
  BY <1>1, <1>4 DEF Rows, TxRows
<1>6. Dependent'
  BY <1>1 DEF Dependent
<1>7. PreparedBefore'
  <2>. SUFFICES ASSUME NEW t \in DOMAIN txs,
                       \/ txs[t] <= b.last
                       \/ \E a \in batches' : a.status = "prepared" /\ txs[t] \in a.first .. a.last
                PROVE  Enriched(t)
    BY <1>1 DEF PreparedBefore, Enriched
  <2>1. txs[t] \in 0..rawHeight
    BY StagedTx
  <2>2. CASE txs[t] <= b.last
    <3>1. txs[t] <= bestHeight \/ txs[t] \in b.first .. b.last
      BY <1>1, <1>4, <2>1, <2>2
    <3>. QED
      BY <1>1, <3>1 DEF PreparedBefore
  <2>3. CASE \E a \in batches' : a.status = "prepared" /\ txs[t] \in a.first .. a.last
    <3>1. PICK a \in batches' : a.status = "prepared" /\ txs[t] \in a.first .. a.last
      BY <2>3
    <3>2. a \in batches
      BY <1>1, <1>3, <3>1
    <3>. QED
      BY <3>1, <3>2 DEF PreparedBefore
  <2>. QED
    BY <2>2, <2>3
<1>8. Batches'
  BY <1>1, <1>2, <1>3 DEF Batches
<1>9. Balances'
  <2>1. counted' \in [Entry -> Nat]
    BY <1>1 DEF Balances
  <2>2. ASSUME NEW e \in Entry
        PROVE  counted'[e] = IF e.tx \in DOMAIN txs /\ txs[e.tx] <= b.last THEN 1 ELSE 0
    <3>1. counted[e] = IF e.tx \in DOMAIN txs /\ txs[e.tx] <= bestHeight THEN 1 ELSE 0
      BY DEF Balances
    <3>2. counted'[e] = IF e \in b.deltas THEN counted[e] + 1 ELSE counted[e]
      BY <1>1
    <3>3. CASE e.tx \notin DOMAIN txs
      BY <1>2, <3>1, <3>2, <3>3
    <3>4. CASE e.tx \in DOMAIN txs
      <4>1. txs[e.tx] \in 0..rawHeight
        BY <3>4, StagedTx
      <4>2. e \in b.deltas <=> txs[e.tx] > bestHeight /\ txs[e.tx] <= b.last
        BY <1>1, <1>2, <1>4, <3>4, <4>1
      <4>3. CASE txs[e.tx] <= bestHeight
        BY <1>4, <3>1, <3>2, <3>4, <4>1, <4>2, <4>3
      <4>4. CASE txs[e.tx] > bestHeight
        BY <1>4, <3>1, <3>2, <3>4, <4>1, <4>2, <4>4
      <4>. QED
        BY <1>4, <4>1, <4>3, <4>4
    <3>. QED
      BY <3>3, <3>4
  <2>. QED
    BY <1>1, <2>1, <2>2 DEF Balances
<1>. QED
  BY <1>5, <1>6, <1>7, <1>8, <1>9

\* A rollback keeps what hangs on the kept transactions, and every address it
\* does not recount has no row above the ancestor.
LEMMA RollbackStep ==
  ASSUME IInv, NEW ancestor \in -1..rawHeight, Rollback(ancestor)
  PROVE  IInv'
<1>. USE DEF IInv
<1>. DEFINE kept == TxsWithin(0, ancestor)
<1>1. /\ batches' = {b \in batches : b.first <= ancestor /\ b.last <= ancestor}
      /\ blocks' = [h \in {k \in DOMAIN blocks : k <= ancestor} |-> blocks[h]]
      /\ txs' = [t \in kept |-> txs[t]]
      /\ resolved' = {l \in resolved : l.tx \in kept}
      /\ spentBy' = SpentAfter(kept)
      /\ activity' = [e \in {x \in DOMAIN activity : x.tx \in kept} |-> activity[e]]
      /\ transfers' = [o \in {x \in DOMAIN transfers : CreatedBy[x] \in kept} |-> transfers[o]]
      /\ counted' = [e \in Entry |->
                       IF e.address \in Affected(ancestor) THEN Recounted(e, ancestor)
                       ELSE counted[e]]
      /\ bestHeight' = Processed(ancestor) /\ rawHeight' = ancestor
  BY DEF Rollback
<1>2. /\ rawHeight \in Int /\ bestHeight \in Int /\ ancestor \in Int
      /\ -1 <= ancestor /\ ancestor <= rawHeight /\ bestHeight <= rawHeight /\ -1 <= bestHeight
      /\ rawHeight <= MaxHeight
  BY DEF Rows
<1>3. kept = {t \in DOMAIN txs : txs[t] <= ancestor}
  <2>1. \A t \in DOMAIN txs : txs[t] \in 0..rawHeight
    BY StagedTx
  <2>. QED
    BY <1>2, <2>1 DEF TxsWithin
<1>4. \A t \in kept : t \in DOMAIN txs /\ t \in DOMAIN txs' /\ txs'[t] = txs[t]
  BY <1>1, <1>3
<1>5. DOMAIN txs' = kept
  BY <1>1
<1>6. /\ Processed(ancestor) \in Int /\ -1 <= Processed(ancestor)
      /\ Processed(ancestor) <= ancestor /\ Processed(ancestor) <= bestHeight
      /\ Processed(ancestor) \in {bestHeight, ancestor}
  BY <1>2 DEF Processed
<1>7. \A h \in 0..ancestor : h \in DOMAIN blocks /\ blocks'[h] = blocks[h]
  BY <1>1, <1>2, StagedIsChain
<1>8. Rows'
  <2>1. CASE ancestor = -1
    <3>1. {k \in DOMAIN blocks : k <= ancestor} = {}
      <4>1. \A k \in DOMAIN blocks : k \in 0..rawHeight
        BY <1>2, StagedIsChain DEF Rows, NoRows
      <4>. QED
        BY <1>2, <2>1, <4>1
    <3>2. blocks' = NoRows
      BY <1>1, <3>1 DEF NoRows
    <3>. QED
      BY <1>1, <1>2, <1>6, <2>1, <3>2, BlockTreeAssumption DEF Rows
  <2>2. CASE ancestor # -1
    <3>1. rawHeight \in Nat /\ ancestor \in 0..rawHeight /\ blocks \in ChainsOfHeight(rawHeight)
      BY <1>2, <2>2 DEF Rows
    <3>2. blocks' \in ChainsOfHeight(ancestor)
      BY <1>1, <3>1, Prefix
    <3>. QED
      BY <1>1, <1>2, <1>6, <2>2, <3>2, BlockTreeAssumption DEF Rows
  <2>. QED
    BY <2>1, <2>2
<1>9. TxRows'
  <2>1. ASSUME NEW t \in kept
        PROVE  txs'[t] \in 0..ancestor /\ t \in TxsOf[blocks'[txs'[t]]]
    <3>1. txs[t] \in 0..ancestor /\ t \in TxsOf[blocks[txs[t]]]
      BY <1>2, <1>3 DEF TxRows
    <3>. QED
      BY <1>4, <1>7, <3>1
  <2>2. ASSUME NEW h \in 0..ancestor, NEW t \in TxsOf[blocks'[h]]
        PROVE  t \in kept /\ txs'[t] = h
    <3>1. h \in 0..rawHeight /\ t \in TxsOf[blocks[h]]
      BY <1>2, <1>7
    <3>2. t \in DOMAIN txs /\ txs[t] = h
      BY <3>1 DEF TxRows
    <3>. QED
      BY <1>2, <1>3, <1>4, <3>2
  <2>. QED
    BY <1>1, <1>5, <2>1, <2>2 DEF TxRows
<1>10. Dependent'
  <2>1. resolved' \subseteq [tx : DOMAIN txs', output : Output]
    BY <1>1, <1>5 DEF Dependent
  <2>2. \A o \in Output : spentBy'[o] = IF CreatedBy[o] \in kept /\ spentBy[o] \in kept
                                     THEN spentBy[o] ELSE NoTx
    BY <1>1 DEF SpentAfter
  <2>3. spentBy' \in [Output -> DOMAIN txs' \cup {NoTx}]
    BY <1>1, <1>5, <2>2 DEF SpentAfter
  <2>4. \A o \in Output : spentBy'[o] # NoTx => o \in Spends[spentBy'[o]]
    BY <2>2 DEF Dependent
  <2>5. /\ DOMAIN activity' \subseteq Entry
        /\ \A e \in DOMAIN activity' : e.tx \in DOMAIN txs' /\ activity'[e] = txs'[e.tx]
    BY <1>1, <1>4, <1>5 DEF Dependent
  <2>6. /\ DOMAIN transfers' \subseteq AssetOutput
        /\ \A o \in DOMAIN transfers' : /\ CreatedBy[o] \in DOMAIN txs'
                                       /\ transfers'[o] = txs'[CreatedBy[o]]
    BY <1>1, <1>4, <1>5 DEF Dependent
  <2>. QED
    BY <2>1, <2>3, <2>4, <2>5, <2>6 DEF Dependent
<1>11. ASSUME NEW t \in kept, Enriched(t) PROVE Enriched(t)'
  <2>1. t \in DOMAIN txs /\ txs[t] \in 0..rawHeight /\ txs[t] <= ancestor
    BY <1>3, StagedTx
  <2>2. ASSUME NEW o \in Spends[t]
        PROVE  [tx |-> t, output |-> o] \in resolved' /\ spentBy'[o] = t
    <3>1. [tx |-> t, output |-> o] \in resolved /\ spentBy[o] = t /\ o \in Output
      BY <1>11, <2>1, StagedTx DEF Enriched
    <3>2. CreatedBy[o] \in DOMAIN txs /\ txs[CreatedBy[o]] <= txs[t]
      BY <2>1, CreatedBefore
    <3>3. CreatedBy[o] \in kept
      BY <1>2, <1>3, <2>1, <3>2, StagedTx
    <3>. QED
      BY <1>1, <3>1, <3>3 DEF SpentAfter
  <2>3. \A e \in Entry : e.tx = t => e \in DOMAIN activity'
    BY <1>1, <1>11 DEF Enriched
  <2>4. \A o \in AssetOutput : CreatedBy[o] = t => o \in DOMAIN transfers'
    BY <1>1, <1>11 DEF Enriched
  <2>. QED
    BY <2>2, <2>3, <2>4 DEF Enriched
<1>12. PreparedBefore'
  <2>. SUFFICES ASSUME NEW t \in kept,
                       \/ txs'[t] <= Processed(ancestor)
                       \/ \E b \in batches' : b.status = "prepared" /\ txs'[t] \in b.first .. b.last
                PROVE  Enriched(t)'
    BY <1>1, <1>5 DEF PreparedBefore
  <2>1. t \in DOMAIN txs /\ txs'[t] = txs[t] /\ txs[t] \in 0..rawHeight
    BY <1>4, StagedTx
  <2>2. \/ txs[t] <= bestHeight
        \/ \E b \in batches : b.status = "prepared" /\ txs[t] \in b.first .. b.last
    BY <1>1, <1>2, <1>6, <2>1
  <2>3. Enriched(t)
    BY <2>1, <2>2 DEF PreparedBefore
  <2>. QED
    BY <1>11, <2>3
<1>13. Batches'
  <2>. SUFFICES ASSUME NEW b \in batches, b.first <= ancestor, b.last <= ancestor
                PROVE  /\ b \in [first : 0..ancestor, last : 0..ancestor,
                                  status : {"prepared", "reduced"}, deltas : SUBSET Entry]
                       /\ b.first <= b.last
                       /\ b.status = "reduced" => b.deltas = {}
                       /\ b.status = "prepared" =>
                            b.deltas = {e \in Entry : /\ e.tx \in DOMAIN txs'
                                                      /\ txs'[e.tx] \in b.first .. b.last}
    BY <1>1 DEF Batches
  <2>1. /\ b \in [first : 0..rawHeight, last : 0..rawHeight, status : {"prepared", "reduced"},
                   deltas : SUBSET Entry]
        /\ b.first <= b.last
        /\ b.status = "reduced" => b.deltas = {}
        /\ b.status = "prepared" =>
             b.deltas = {e \in Entry : e.tx \in DOMAIN txs /\ txs[e.tx] \in b.first .. b.last}
    BY DEF Batches
  <2>2. b \in [first : 0..ancestor, last : 0..ancestor, status : {"prepared", "reduced"},
               deltas : SUBSET Entry]
    BY <1>2, <2>1
  <2>3. \A t : t \in DOMAIN txs' /\ txs'[t] \in b.first .. b.last
               <=> t \in DOMAIN txs /\ txs[t] \in b.first .. b.last
    <3>1. \A t \in DOMAIN txs : txs[t] \in b.first .. b.last => t \in kept
      BY <1>2, <1>3, <2>1
    <3>. QED
      BY <1>4, <1>5, <3>1
  <2>. QED
    BY <2>1, <2>2, <2>3
<1>14. Balances'
  <2>1. ASSUME NEW e \in Entry
        PROVE  counted'[e] = IF e.tx \in kept /\ txs[e.tx] <= Processed(ancestor) THEN 1 ELSE 0
    <3>1. counted[e] = IF e.tx \in DOMAIN txs /\ txs[e.tx] <= bestHeight THEN 1 ELSE 0
      BY DEF Balances
    <3>2. counted'[e] = IF e.address \in Affected(ancestor) THEN Recounted(e, ancestor)
                        ELSE counted[e]
      BY <1>1
    \* A processed transaction has left its rows.
    <3>3. e.tx \in DOMAIN txs /\ txs[e.tx] <= bestHeight
            => e \in DOMAIN activity /\ activity[e] = txs[e.tx]
      BY DEF PreparedBefore, Enriched, Dependent
    <3>4. e \in DOMAIN activity => e.tx \in DOMAIN txs /\ activity[e] = txs[e.tx]
      BY DEF Dependent
    <3>5. e.tx \in DOMAIN txs => txs[e.tx] \in Int
      BY <1>2, StagedTx
    <3>6. e.tx \in kept <=> e.tx \in DOMAIN txs /\ txs[e.tx] <= ancestor
      BY <1>3
    <3>7. CASE e.address \in Affected(ancestor)
      <4>1. e.tx \in kept /\ txs[e.tx] <= Processed(ancestor)
              <=> e \in DOMAIN activity /\ activity[e] <= Processed(ancestor)
        BY <1>2, <1>6, <3>3, <3>4, <3>5, <3>6
      <4>2. counted'[e] = IF e \in DOMAIN activity /\ activity[e] <= Processed(ancestor)
                          THEN 1 ELSE 0
        BY <3>2, <3>7 DEF Recounted
      <4>. QED
        BY <4>1, <4>2, Zenon
    <3>8. CASE e.address \notin Affected(ancestor)
      <4>1. e \in DOMAIN activity => ~ (activity[e] > ancestor)
        BY <3>8 DEF Affected
      <4>2. e.tx \in kept /\ txs[e.tx] <= Processed(ancestor)
              <=> e.tx \in DOMAIN txs /\ txs[e.tx] <= bestHeight
        BY <1>2, <1>6, <3>3, <3>5, <3>6, <4>1
      <4>. QED
        BY <3>1, <3>2, <3>8, <4>2, Zenon
    <3>. QED
      BY <3>7, <3>8
  <2>2. counted' \in [Entry -> Nat]
    BY <1>1 DEF Balances, Recounted
  <2>3. ASSUME NEW e \in Entry
        PROVE  counted'[e] = IF e.tx \in DOMAIN txs' /\ txs'[e.tx] <= Processed(ancestor)
                             THEN 1 ELSE 0
    BY <1>4, <1>5, <2>1
  <2>. QED
    BY <1>1, <2>2, <2>3 DEF Balances
<1>. QED
  BY <1>8, <1>9, <1>10, <1>12, <1>13, <1>14

-----------------------------------------------------------------------------
\* Every step of the checkpoint transactions keeps the invariant.
LEMMA NextStep == ASSUME IInv, [Next]_vars PROVE IInv'
<1>1. CASE Stage
  BY <1>1, StageStep
<1>2. CASE \E r \in RangesWithin(0, MaxHeight) : Prepare(r)
  BY <1>2, PrepareStep
<1>3. CASE Reduce
  BY <1>3, ReduceStep
<1>4. CASE \E ancestor \in -1..rawHeight : Rollback(ancestor)
  BY <1>4, RollbackStep
<1>5. CASE UNCHANGED vars
  BY <1>5 DEF vars, IInv, Rows, TxRows, Dependent, PreparedBefore, Enriched, Batches, Balances
<1>. QED
  BY <1>1, <1>2, <1>3, <1>4, <1>5 DEF Next

(***************************************************************************)
(* The inductive invariant holds in every state the checkpoint             *)
(* transactions and rollbacks can reach.                                   *)
(***************************************************************************)
THEOREM LedgerInvariant == Spec => []IInv
BY InitInvariant, NextStep, PTL DEF Spec

\* The transactions of the blocks up to a height are the rows up to it.
LEMMA MinedRowsUpTo ==
  ASSUME IInv, NEW hi \in Int, NEW t
  PROVE  t \in Mined(hi) <=> t \in DOMAIN txs /\ txs[t] <= hi
<1>1. rawHeight \in Int /\ DOMAIN blocks = 0..rawHeight
  BY StagedIsChain DEF IInv, Rows, NoRows
<1>2. ASSUME NEW h \in DOMAIN blocks, h <= hi, t \in TxsOf[blocks[h]]
      PROVE  t \in DOMAIN txs /\ txs[t] <= hi
  BY <1>1, <1>2 DEF IInv, TxRows
<1>3. ASSUME t \in DOMAIN txs, txs[t] <= hi
      PROVE  \E h \in DOMAIN blocks : h <= hi /\ t \in TxsOf[blocks[h]]
  BY <1>1, <1>3 DEF IInv, TxRows
<1>. QED
  BY <1>2, <1>3 DEF Mined

\* The transactions of the processed blocks are the rows gated by best_height.
LEMMA MinedRows ==
  ASSUME IInv, NEW t
  PROVE  t \in Mined(bestHeight) <=> t \in DOMAIN txs /\ txs[t] <= bestHeight
BY MinedRowsUpTo DEF IInv, Rows

\* A row is in a balance when its transaction is processed.
LEMMA BalancesFromBlocks == IInv => BalancesExact
<1>. SUFFICES ASSUME IInv, NEW e \in Entry
              PROVE  counted[e] = IF e \in EntriesUpTo(bestHeight) THEN 1 ELSE 0
  BY DEF BalancesExact
<1>1. e.tx \in Tx
  BY DEF Entry
<1>2. e \in EntriesUpTo(bestHeight) <=> e.tx \in Mined(bestHeight)
  <2>1. ASSUME NEW t \in Mined(bestHeight), e \in EntriesOf[t] PROVE e.tx = t
    <3>1. t \in Tx
      BY MinedRows, StagedTx DEF IInv
    <3>. QED
      BY <2>1, <3>1 DEF EntriesOf
  <2>2. e \in EntriesOf[e.tx]
    BY <1>1 DEF EntriesOf
  <2>. QED
    BY <2>1, <2>2 DEF EntriesUpTo
<1>3. e.tx \in Mined(bestHeight) <=> e.tx \in DOMAIN txs /\ txs[e.tx] <= bestHeight
  BY MinedRows
<1>4. counted[e] = IF e.tx \in DOMAIN txs /\ txs[e.tx] <= bestHeight THEN 1 ELSE 0
  BY DEF IInv, Balances
<1>. QED
  BY <1>2, <1>3, <1>4, Zenon

(***************************************************************************)
(* Every activity row of a processed block is in its balance exactly once, *)
(* and no other row is.                                                    *)
(***************************************************************************)
THEOREM BalancesAreExact == Spec => []BalancesExact
BY BalancesFromBlocks, LedgerInvariant, PTL

\* An output is shown as unspent when no processed transaction spends it.
LEMMA UnspentFromBlocks == IInv => UnspentExact
<1>. SUFFICES ASSUME IInv, NEW o \in Output
              PROVE  o \in Unspent <=> /\ CreatedBy[o] \in Mined(bestHeight)
                                      /\ \A t \in Mined(bestHeight) : o \notin Spends[t]
  BY DEF Unspent, UnspentExact
<1>1. rawHeight \in Int /\ bestHeight \in Int
  BY DEF IInv, Rows
<1>2. CreatedBy[o] \in TxsWithin(0, bestHeight) <=> CreatedBy[o] \in Mined(bestHeight)
  <2>1. CreatedBy[o] \in DOMAIN txs => txs[CreatedBy[o]] \in 0..rawHeight
    BY StagedTx DEF IInv
  <2>. QED
    BY <1>1, <2>1, MinedRows DEF TxsWithin
<1>3. spentBy[o] \in DOMAIN txs => txs[spentBy[o]] \in Int /\ o \in Spends[spentBy[o]]
  <2>1. spentBy[o] \in DOMAIN txs => txs[spentBy[o]] \in 0..rawHeight /\ spentBy[o] # NoTx
    BY StagedTx DEF IInv
  <2>. QED
    BY <2>1 DEF IInv, Dependent
<1>4. spentBy[o] \in DOMAIN txs \cup {NoTx} /\ NoTx \notin DOMAIN txs
  BY StagedTx DEF IInv, Dependent
<1>5. ASSUME NEW t \in Mined(bestHeight), o \in Spends[t]
      PROVE  spentBy[o] = t /\ t \in DOMAIN txs /\ txs[t] <= bestHeight
  <2>1. t \in DOMAIN txs /\ txs[t] <= bestHeight
    BY MinedRows
  <2>2. Enriched(t)
    BY <2>1 DEF IInv, PreparedBefore
  <2>. QED
    BY <1>5, <2>1, <2>2 DEF Enriched
<1>6. ASSUME spentBy[o] \in DOMAIN txs, ~ (txs[spentBy[o]] > bestHeight)
      PROVE  spentBy[o] \in Mined(bestHeight) /\ o \in Spends[spentBy[o]]
  BY <1>1, <1>3, <1>6, MinedRows
<1>7. (\/ spentBy[o] = NoTx
       \/ spentBy[o] \in DOMAIN txs /\ txs[spentBy[o]] > bestHeight)
      <=> \A t \in Mined(bestHeight) : o \notin Spends[t]
  BY <1>1, <1>3, <1>4, <1>5, <1>6
<1>. QED
  BY <1>2, <1>7 DEF Unspent

(***************************************************************************)
(* The outputs shown as unspent are those created and not spent by the     *)
(* processed blocks.                                                       *)
(***************************************************************************)
THEOREM UnspentIsExact == Spec => []UnspentExact
BY UnspentFromBlocks, LedgerInvariant, PTL

(***************************************************************************)
(* Inputs, fees and history of a processed transaction are complete.       *)
(***************************************************************************)
THEOREM ProcessedAreComplete == Spec => []ProcessedIsComplete
<1>1. IInv => ProcessedIsComplete
  <2>. SUFFICES ASSUME IInv, NEW t \in Mined(bestHeight)
                PROVE  /\ t \in DOMAIN txs /\ t \in TxsOf[blocks[txs[t]]]
                       /\ \A o \in Spends[t] : [tx |-> t, output |-> o] \in resolved
                       /\ \A e \in EntriesOf[t] : e \in DOMAIN activity /\ activity[e] = txs[t]
    BY DEF ProcessedIsComplete
  <2>1. t \in DOMAIN txs /\ txs[t] <= bestHeight
    BY MinedRows
  <2>2. Enriched(t)
    BY <2>1 DEF IInv, PreparedBefore
  <2>3. t \in Tx
    BY <2>1, StagedTx DEF IInv
  <2>4. \A e \in EntriesOf[t] : e \in Entry /\ e.tx = t
    BY <2>3 DEF EntriesOf
  <2>. QED
    BY <2>1, <2>2, <2>4 DEF Enriched, IInv, TxRows, Dependent
<1>. QED
  BY <1>1, LedgerInvariant, PTL

(***************************************************************************)
(* A prepared batch holds the rows of all its heights and of no other.     *)
(***************************************************************************)
THEOREM DeltasAreExact == Spec => []DeltasExact
<1>1. IInv => DeltasExact
  <2>. SUFFICES ASSUME IInv, NEW b \in batches
                PROVE  b.deltas = IF b.status = "reduced" THEN {}
                                  ELSE UNION {EntriesOf[t] : t \in UNION {TxsOf[blocks[h]] : h \in Heights(b)}}
    BY DEF DeltasExact
  <2>1. /\ b.status \in {"prepared", "reduced"} /\ b.first \in 0..rawHeight
        /\ b.last \in 0..rawHeight
        /\ b.status = "reduced" => b.deltas = {}
        /\ b.status = "prepared" =>
             b.deltas = {e \in Entry : e.tx \in DOMAIN txs /\ txs[e.tx] \in b.first .. b.last}
    BY DEF IInv, Batches
  <2>. DEFINE mined == UNION {TxsOf[blocks[h]] : h \in Heights(b)}
  <2>2. \A t : t \in mined <=> t \in DOMAIN txs /\ txs[t] \in b.first .. b.last
    <3>1. ASSUME NEW h \in Heights(b), NEW t \in TxsOf[blocks[h]]
          PROVE  t \in DOMAIN txs /\ txs[t] \in b.first .. b.last
      <4>1. h \in b.first .. b.last /\ h \in 0..rawHeight
        BY <2>1 DEF Heights, IInv, Rows
      <4>. QED
        BY <4>1 DEF IInv, TxRows
    <3>2. ASSUME NEW t \in DOMAIN txs, txs[t] \in b.first .. b.last
          PROVE  txs[t] \in Heights(b) /\ t \in TxsOf[blocks[txs[t]]]
      BY <3>2 DEF Heights, IInv, TxRows
    <3>. QED
      BY <3>1, <3>2
  <2>3. \A e : e \in UNION {EntriesOf[t] : t \in mined} <=> e \in Entry /\ e.tx \in mined
    <3>1. \A t \in mined : t \in Tx
      BY <2>2, StagedTx DEF IInv
    <3>2. \A t \in mined : EntriesOf[t] = {e \in Entry : e.tx = t}
      BY <3>1 DEF EntriesOf
    <3>. QED
      BY <3>2
  <2>. QED
    BY <2>1, <2>2, <2>3
<1>. QED
  BY <1>1, LedgerInvariant, PTL

(***************************************************************************)
(* The rows have their types, and every reference between tables is to a   *)
(* row that exists.                                                        *)
(***************************************************************************)
THEOREM LedgerTypeCorrect == Spec => []TypeOK
<1>1. IInv => TypeOK
  <2>. SUFFICES ASSUME IInv PROVE TypeOK
    OBVIOUS
  <2>1. blocks \in Chains \cup {NoRows} /\ rawHeight \in -1..MaxHeight /\ bestHeight \in -1..rawHeight
    BY StagedIsChain, BlockTreeAssumption DEF IInv, Rows
  <2>2. DOMAIN txs \subseteq Tx /\ \A t \in DOMAIN txs : txs[t] \in 0..rawHeight
    BY StagedTx DEF IInv
  <2>3. batches \subseteq [first : 0..rawHeight, last : 0..rawHeight,
                          status : {"prepared", "reduced"}, deltas : SUBSET Entry]
    BY DEF IInv, Batches
  <2>. QED
    BY <2>1, <2>2, <2>3 DEF TypeOK, IInv, Dependent, Balances
<1>. QED
  BY <1>1, LedgerInvariant, PTL

\* The actions are the checkpoint transactions of their names.
LEMMA CheckpointStep ==
  ASSUME IInv, IInv', [Next]_vars
  PROVE  [Recorded!Next]_(Recorded!vars)
<1>1. CASE Stage
  <2>1. PICK c \in Chains : /\ DOMAIN c \ DOMAIN blocks # {} /\ blocks' = c
                            /\ \A h \in DOMAIN blocks : c[h] = blocks[h]
                            /\ UNCHANGED <<bestHeight, batches>>
    BY <1>1 DEF Stage
  <2>2. rawHeight' \in Int /\ rawHeight' >= -1 /\ rawHeight' <= MaxHeight
    BY DEF IInv, Rows
  <2>3. rawHeight' # -1
    BY <2>1 DEF IInv, Rows, NoRows
  <2>4. rawHeight' \in 0..MaxHeight /\ c \in ChainsOfHeight(rawHeight')
    BY <2>1, <2>2, <2>3 DEF IInv, Rows
  <2>5. rawHeight' > rawHeight
    <3>1. DOMAIN c = 0..rawHeight' /\ rawHeight \in Int
      BY <2>4 DEF ChainsOfHeight, IInv, Rows
    <3>2. DOMAIN blocks = 0..rawHeight
      BY DEF IInv, Rows, ChainsOfHeight, NoRows
    <3>. QED BY <2>1, <2>4, <3>1, <3>2
  <2>6. Durable' = Durable
    BY <2>1 DEF Durable
  <2>7. Recorded!Stage
    BY <2>1, <2>4, <2>5, <2>6 DEF Recorded!Stage, Recorded!ChainsOfHeight, ChainsOfHeight
  <2>. QED BY <2>7 DEF Recorded!Next
<1>2. ASSUME NEW r \in RangesWithin(0, MaxHeight), Prepare(r)
      PROVE  [Recorded!Next]_(Recorded!vars)
  <2>1. Durable' = Durable \cup {[first |-> r.first, last |-> r.last, status |-> "prepared"]}
    <3>. DEFINE of(a) == [first |-> a.first, last |-> a.last, status |-> a.status]
                new   == [first |-> r.first, last |-> r.last, status |-> "prepared",
                          deltas |-> Captured(r)]
    <3>1. of(new) = [first |-> r.first, last |-> r.last, status |-> "prepared"]
      OBVIOUS
    <3>2. Durable = {of(a) : a \in batches} /\ Durable' = {of(a) : a \in batches'}
      BY DEF Durable
    <3>3. batches' = batches \cup {new}
      BY <1>2 DEF Prepare
    <3>. HIDE DEF of, new
    <3>4. Durable' = Durable \cup {of(new)}
      BY <3>2, <3>3
    <3>. QED BY <3>1, <3>4
  <2>2. \A b \in Durable : b.first # r.first /\ b.last # r.last
    BY <1>2 DEF Prepare, CanPrepare, Durable
  <2>3. Recorded!Prepare(r)
    BY <1>2, <2>1, <2>2 DEF Prepare, CanPrepare, Recorded!Prepare
  <2>. QED BY <2>3 DEF Recorded!Next, Recorded!RangesWithin, RangesWithin
<1>3. CASE Reduce
  <2>1. PICK b \in batches :
          /\ b.status = "prepared" /\ b.first = bestHeight + 1 /\ bestHeight' = b.last
          /\ batches' = (batches \ {b}) \cup {[b EXCEPT !.status = "reduced", !.deltas = {}]}
          /\ UNCHANGED <<blocks, rawHeight>>
    BY <1>3 DEF Reduce
  <2>. DEFINE of(a) == [first |-> a.first, last |-> a.last, status |-> a.status]
              done  == [b EXCEPT !.status = "reduced", !.deltas = {}]
  <2>2. \A a \in batches :
          /\ a \in [first : 0..rawHeight, last : 0..rawHeight, status : {"prepared", "reduced"},
                    deltas : SUBSET Entry]
          /\ a.status = "prepared" =>
               a.deltas = {e \in Entry : e.tx \in DOMAIN txs /\ txs[e.tx] \in a.first .. a.last}
    BY DEF IInv, Batches
  <2>3. \A a \in batches : of(a) = of(b) => a = b
    BY <2>1, <2>2
  <2>4. of(done) = [of(b) EXCEPT !.status = "reduced"]
    BY <2>2
  <2>5. Durable = {of(a) : a \in batches}
    BY DEF Durable
  <2>6. Durable' = {of(a) : a \in batches'}
    BY DEF Durable
  <2>. HIDE DEF of, done
  <2>7. Durable' = (Durable \ {of(b)}) \cup {of(done)}
    BY <2>1, <2>3, <2>5, <2>6 DEF done
  <2>8. of(b) \in Durable /\ of(b).status = "prepared" /\ of(b).first = bestHeight + 1
        /\ of(b).last = bestHeight'
    BY <2>1, <2>5 DEF of
  <2>9. Recorded!Reduce
    BY <2>1, <2>4, <2>7, <2>8 DEF Recorded!Reduce
  <2>. QED BY <2>9 DEF Recorded!Next
<1>4. ASSUME NEW ancestor \in -1..rawHeight, Rollback(ancestor)
      PROVE  [Recorded!Next]_(Recorded!vars)
  <2>1. Durable' = {b \in Durable : b.first <= ancestor /\ b.last <= ancestor}
    <3>1. batches' = {b \in batches : b.first <= ancestor /\ b.last <= ancestor}
      BY <1>4 DEF Rollback
    <3>. QED BY <3>1 DEF Durable
  <2>2. Recorded!Rollback(ancestor)
    BY <1>4, <2>1 DEF Rollback, Processed, Recorded!Rollback
  <2>. QED BY <2>2 DEF Recorded!Next
<1>5. CASE UNCHANGED vars
  BY <1>5 DEF vars, Recorded!vars, Durable
<1>. QED BY <1>1, <1>2, <1>3, <1>4, <1>5 DEF Next

(***************************************************************************)
(* On the staged rows, the heights and the batches every step is the       *)
(* transaction of Checkpoints with its name, for every tree of blocks.     *)
(* Batches become the same without their deltas only if they are the same: *)
(* the invariant says that a prepared batch has captured all its rows.     *)
(***************************************************************************)
THEOREM LedgerImplementsCheckpoints == Spec => ImplementsCheckpoints
<1>1. Init => Recorded!Init
  BY DEF Init, Recorded!Init, NoRows, Recorded!NoRows, Durable
<1>2. IInv /\ IInv' /\ [Next]_vars => [Recorded!Next]_(Recorded!vars)
  BY CheckpointStep
<1>. QED
  BY <1>1, <1>2, LedgerInvariant, PTL DEF Spec, Recorded!Spec, ImplementsCheckpoints
=============================================================================
