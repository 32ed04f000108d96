CONSTANTS
  g = g
  a1 = a1
  a2 = a2
  a3 = a3
  b1 = b1
  b2 = b2
  b3 = b3
  p = p
  q = q
  r = r
  s = s
  cg = cg
  c2 = c2
  x = x
  y = y
  NoBlock = NoBlock
  NoTx = NoTx
  Genesis = g
  Block <- MCBlock
  Parent <- MCParent
  MaxHeight = 3
  Address = {x, y}
  Tx <- MCTx
  TxsOf <- MCTxsOf
  Output <- MCOutput
  CreatedBy <- MCCreatedBy
  Owners <- MCOwners
  Spends <- MCSpends
  AssetOutput = {3, 4, 5}
SPECIFICATION Spec
INVARIANTS
  BalancesExact
  UnspentExact
  ProcessedIsComplete
  DeltasExact
