\* Two runtime threads of one supervisor touch the same lock file.
CONSTANTS
  Workers = {w1, w2}
  Threads = {t1, t2}
  Sup = sup
  ReclaimAttempts = 1
  MaxFiles = 2
SPECIFICATION Spec
CHECK_DEADLOCK FALSE
INVARIANTS
  CleanupExcludesOwners
