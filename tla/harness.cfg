SPECIFICATION Spec
CONSTANTS
  Run = {r1, r2}
  Pausing = {r1}
  Servers = {r2}
  Online = {r1, r2}
  Frag = {r2}
INVARIANTS TypeOK SnapshotAtEnd  LastOneCleansUp LeshyLasts
PROPERTIES RunEnds
CHECK_DEADLOCK FALSE
