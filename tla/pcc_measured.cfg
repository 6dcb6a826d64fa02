SPECIFICATION Spec
CONSTANTS
  Trace = {8, 9, 10, 13}
  Ratio = 2
  L1Assoc = 1
  L2Assoc = 2
  PromotionSize = 2
  MaxFreq = 2
  AccessInterval = 4
  Factor = 2
PROPERTY PromotesMeasuredData
CHECK_DEADLOCK FALSE
