CONSTANTS
  g = g
  a1 = a1
  a2 = a2
  b1 = b1
  b2 = b2
  NoBlock = NoBlock
  Genesis = g
  Block <- MCBlock
  Parent <- MCParent
  MaxHeight = 2
  Asset <- MCAsset
  ChangedIn <- MCChangedIn
  TouchedIn <- MCTouchedIn
  DrainLimit = 2
  PageSize = 1
  BootPageSize = 1
  MaxReorgs = 1
  MaxFaults = 0
  MaxRestarts = 0
SPECIFICATION Spec
PROPERTY OrphanedMetadataIsRefreshed
