CONSTANTS
  None = None
  Heights = {1, 2}
  MaxClients = 1
  MaxConns = 2
  MaxChans = 1
  MaxHeight = 2
SPECIFICATION ListingSpec
INVARIANTS IdsBelowCounters ConnectionsListed ListingsHold
CHECK_DEADLOCK FALSE
