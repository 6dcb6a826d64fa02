SPECIFICATION Spec
CONSTANTS
  Bases = {b1, b2}
  NumBasePages = 4
  NumBuckets = 4
  BucketSize = 1
  MaxPromotions = 1
  AlphaNum = 19
  AlphaDen = 10
  Scale = 1000
  AccessInterval = 5
  Factor = 1
  MaxSummaries = 3
INVARIANT TypeOK
INVARIANT InBucketOfAverage
PROPERTY HottestPromoted
CHECK_DEADLOCK FALSE
