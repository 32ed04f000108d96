CONSTANTS
  p1 = p1
  p2 = p2
  p3 = p3
  Service = {p1, p2, p3}
  Indexers = {p1, p2}
  NoService = NoService
  IndexCount = 2
  MaxFaults = 2
  MaxHalfOpen = 1
  Stale = 2
  MonitorStale = 1
  Poll = 1
  Timeout = 1
  MaxHeight = 1
  MaxBroken = 1
  MaxTime = 4
SPECIFICATION OperationsSpec
INVARIANTS
  ServesMigrated
  NoLeakedLock
  OneIndexerPerSession
  StallIsReported
  
PROPERTY ValidIndexStays
