CONSTANTS
  p1 = p1
  p2 = p2
  p3 = p3
  Service = {p1, p2}
  Indexers = {p1, p2}
  NoService = NoService
  IndexCount = 2
  MaxFaults = 0
  MaxHalfOpen = 1
SPECIFICATION Spec
INVARIANT OneIndexer
