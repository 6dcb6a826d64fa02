SPECIFICATION Spec
CONSTANTS
  Addr = {t1, t2, t3, t4}
  Associativity = 3
  Policy = 0
  MaxFreq = 2
  InsertAfterMissOnly = FALSE
  Kinds = {TRUE, FALSE}
  NULL = NULL
SYMMETRY Tags
INVARIANT HitsAreResident
INVARIANT VictimExists
PROPERTY ImplementsRankedSet
