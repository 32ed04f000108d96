CONSTANTS
  g = g
  a1 = a1
  a2 = a2
  b1 = b1
  b2 = b2
  LineHeight = 0
  NoBlock = NoBlock
  Genesis = g
  Block <- TreeBlocks
  Parent <- TreeParent
  MaxHeight = 2
  RawBatchSize = 2
  AggregationBatchSize = 2
  AggregationConcurrency = 2
  RawLeadBlocks = 3
  MaxReorgs = 1
  MaxFaults = 1
  MaxRestarts = 1
SPECIFICATION FairSpec
INVARIANTS
  TypeOK
  StagedOneBranch
  CheckpointsConsistent
  BatchesMatchChain
  ReadyMeansProcessed
  TasksOnlyInPipeline
PROPERTIES
  ImplementsCheckpoints
  ImplementsProcessedChain
  Synchronises
