CONSTANTS
  None = None
  Heights = {3, 5, 10}
  MaxClients = 1
  MaxConns = 1
  MaxChans = 1
  MaxHeight = 2
SPECIFICATION Spec
INVARIANT PrevReachesConsensus
CHECK_DEADLOCK FALSE
