CONSTANTS
  p1 = p1
  p2 = p2
  v1 = v1
  v2 = v2
  None = None
  Paths <- MCPaths
  Values <- MCValues
  MaxHeight = 3
  Empty <- v2
  MaxLog = 3
  MaxLogged = 1
SPECIFICATION AdaptorSpec
INVARIANTS LatestIsCurrent NoHoles LogUndoes
PROPERTIES SnapshotsAreFinal ImplementsVersionedStore GrowingImplementsVersionedStore ResetEnds
CHECK_DEADLOCK FALSE
