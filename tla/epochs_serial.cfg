SPECIFICATION Spec
CONSTANTS
  Hints = {h1, h2}
  NONE = NONE
  MaxSnapshots = 4
  Overlap = 1
  MaxStrays = 1
INVARIANT TypeOK
INVARIANT NewestInForce
INVARIANT OneFileAtATime
PROPERTY LoopEnds
CHECK_DEADLOCK FALSE
