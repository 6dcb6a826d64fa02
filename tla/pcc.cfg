SPECIFICATION Spec
CONSTANTS
  Trace = {1, 8, 9, 13}
  Ratio = 2
  L1Assoc = 1
  L2Assoc = 2
  PromotionSize = 2
  MaxFreq = 2
  AccessInterval = 4
  Factor = 2
INVARIANTS TypeOK TwoMegArePromoted SingleCopies KeysWereMeasured
PROPERTY PromotionShootsDown
CHECK_DEADLOCK FALSE
