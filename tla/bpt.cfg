SPECIFICATION Spec
CONSTANTS
  NULL = NULL
  Key = {1, 2, 3, 4, 5, 6, 7}
  Value = {v}
  Orders = {3, 4}
  MaxNodes = 13
INVARIANTS TypeOK SearchTree Occupancy LeafChain NoLeak FindAgrees RangeAllOrNothing
