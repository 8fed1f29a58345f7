\* Two workers and a supervisor on one thread share one database path.
CONSTANTS
  Workers = {w1, w2}
  Threads = {t1}
  Sup = sup
  ReclaimAttempts = 2
  MaxFiles = 3
SPECIFICATION Spec
SYMMETRY Symmetry
\* All workers may be dead and cleaned up after.
CHECK_DEADLOCK FALSE
INVARIANTS
  TypeOK
  LockKept
  NoLeakedLock
  CleanupExcludesOwners
PROPERTIES
  HolderKeepsPath
