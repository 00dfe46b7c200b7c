CONSTANTS
  None = None
  Heights = {1, 2, 3}
  MaxClients = 2
  MaxConns = 0
  MaxChans = 0
  MaxHeight = 3
SPECIFICATION Spec
INVARIANTS MetaWithState LatestStored
CHECK_DEADLOCK FALSE
