\* A retirement dropped by its caller.
CONSTANTS
  Clients = {c1}
  Futures = {f1}
  MaxWorkers = 1
  MinWorkers = 1
  QueueCapacity = 2
  AcquireCapacity = 2
  PreserveOnCancel = FALSE
  MaxIds = 2
  MaxLeases = 1
SPECIFICATION Spec
\* Without clients and signals the pool rests.
CHECK_DEADLOCK FALSE
INVARIANTS
  RetirementNotLost
