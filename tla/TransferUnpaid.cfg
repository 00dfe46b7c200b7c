CONSTANTS
  a = a
  b = b
  Chains <- MCChains
  Amounts = {1, 2}
  Timeouts = {2}
  Supply = 1
  MaxPackets = 1
  MaxHeight = 3
SPECIFICATION Spec
SYMMETRY Interchangeable
INVARIANT ChecksInExecute
CHECK_DEADLOCK FALSE
