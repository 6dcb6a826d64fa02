SPECIFICATION Spec
CONSTANTS
  Bits = 5
  PageBits = 1
  HugeBits = 2
  MaxFreq = 2
  Caches <- MCCaches
  Calls <- MCCalls
  NONE = NONE
INVARIANTS TypeOK EntriesAreFound
PROPERTIES ImplementsPageStore ReportsVictim
