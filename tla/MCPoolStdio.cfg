\* The single supervised worker of the stdio server: one worker, kept warm.
CONSTANTS
  Clients = {c1, c2}
  Futures = {f1, f2}
  MaxWorkers = 1
  MinWorkers = 1
  QueueCapacity = 2
  AcquireCapacity = 2
  PreserveOnCancel = FALSE
  MaxIds = 2
  MaxLeases = 2
SPECIFICATION Spec
SYMMETRY Symmetry
\* Without clients and signals the pool rests.
CHECK_DEADLOCK FALSE
INVARIANTS
  TypeOK
  WorkIsolation
  AbandonedCallIsRetired
  NoStrandedWaiter
  NoLeakedProcess
