\* One worker opens the file another one is about to unlink; a third creates the next.
CONSTANTS
  Workers = {w1, w2, w3}
  Threads = {t1}
  Sup = sup
  ReclaimAttempts = 1
  MaxFiles = 2
SPECIFICATION Spec
CHECK_DEADLOCK FALSE
INVARIANTS
  MutualExclusion
