SPECIFICATION Spec
CONSTANTS
  Addr = {t1, t2, t3, t4}
  Associativity = 3
  Policy = 2
  MaxFreq = 4
  InsertAfterMissOnly = TRUE
  Kinds = {TRUE}
  NULL = NULL
SYMMETRY Tags
INVARIANT TypeOK
INVARIANT ChainedInOrder
PROPERTY VictimIsLeastUsed
PROPERTY ImplementsRankedSet
