CONSTANTS
  Absent = Absent
  alice = alice
  bob = bob
  carol = carol
  d1 = d1
  d2 = d2
  Accounts <- MCAccounts
  Known <- MCKnown
  Denoms <- MCDenoms
  MaxAmount = 3
  Routes <- MCSelfRoutes
  Coins <- MCCoins
  MaxCoins = 2
  Genesis <- MCGenesis
SPECIFICATION Spec
INVARIANT Conservation
