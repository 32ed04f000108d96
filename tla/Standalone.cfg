CONSTANTS
  MaxHeight = 4
  MaxReservations = 3
  MaxRequests = 4
  PageSize = 2
  MaxEntries = 3
  FirstOffset = {0, 1}
  Path <- MCPath
  Total <- MCTotal
  t1 = t1
  t2 = t2
  t3 = t3
  x = x
  y = y
  c1 = c1
  c2 = c2
  Clients = {c1, c2}
  Content <- MCContent
  Bytes <- MCBytes
  Manifest <- MCManifest
  MaxLoads = 3
  Publishable <- MCPublications
  Queries <- MCQueries
  Empty = Empty
  Malformed = Malformed
SPECIFICATION StandaloneSpec
INVARIANTS
  PlannerCorrect
  CsvIsFaithful
  EvidenceIsChecked
  AnswersAreExplained
  DatasetIsOnePublication
  SettledShowsPath
  PageFollowsLocation
PROPERTIES
  NewestAnswerWins
CHECK_DEADLOCK FALSE
