CONSTANTS
  Keys = {1, 2, 3, 4, 5, 6}
  Vals = {1, 2}
  Removable = {1, 2, 3, 4, 5, 6}
SPECIFICATION Spec
INVARIANTS IsMap CachesFresh ProofsVerify
PROPERTY InsertKeepsBalance
