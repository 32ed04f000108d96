CONSTANTS
  q1 = q1
  q2 = q2
  q3 = q3
  q4 = q4
  short = short
  other = other
  long = long
  uncached = uncached
  Request = {q1, q2, q3, q4}
  Url = {short, other, long, uncached}
  CacheSeconds <- MCCacheSeconds
  Capacity = 2
  NoRequest = NoRequest
  MaxTime = 2
  i1 = i1
  i2 = i2
  i3 = i3
  Ip = {i1, i2, i3}
  Maximum = 2
  Minute = 2
  PruneAbove = 1
  LastTick = 4
  MaxRequests = 7
SYMMETRY Symmetry
SPECIFICATION WebSpec
INVARIANTS
  TypeOK
  DataIsFresh
  CallsAreShared
  LimitIsFair
PROPERTIES
  FailuresAreNotCached
CHECK_DEADLOCK FALSE
