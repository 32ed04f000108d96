CONSTANTS
  g = g
  a1 = a1
  a2 = a2
  b1 = b1
  b2 = b2
  LineHeight = 2
  NoBlock = NoBlock
  Genesis = 0
  Block <- LineBlocks
  Parent <- LineParent
  MaxHeight = 2
  RawBatchSize = 1
  AggregationBatchSize = 2
  AggregationConcurrency = 2
  RawLeadBlocks = 3
  MaxReorgs = 0
  MaxFaults = 1
  MaxRestarts = 0
SPECIFICATION Spec
INVARIANT NoStrandedBatch
