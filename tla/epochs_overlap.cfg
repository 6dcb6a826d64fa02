SPECIFICATION Spec
CONSTANTS
  Hints = {h1, h2}
  NONE = NONE
  MaxSnapshots = 4
  Overlap = 2
  MaxStrays = 0
PROPERTY NeverOlder
CHECK_DEADLOCK FALSE
