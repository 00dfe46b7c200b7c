CONSTANTS
  a = a
  b = b
  Chains <- MCChains
  Amounts = {1}
  Timeouts = {1, 9}
  Supply = 1
  MaxPackets = 2
  MaxHeight = 3
SPECIFICATION Spec
SYMMETRY Interchangeable
INVARIANTS EscrowBacksVouchers TwiceOnlyAtExpiry OnlyExpiryPanics RelayerHasWork
CHECK_DEADLOCK FALSE
