\* The workspace pool: two workers, none kept warm, a third id for a replacement.
CONSTANTS
  Clients = {c1, c2}
  Futures = {f1}
  MaxWorkers = 2
  MinWorkers = 0
  QueueCapacity = 2
  AcquireCapacity = 2
  PreserveOnCancel = FALSE
  MaxIds = 3
  MaxLeases = 2
SPECIFICATION Spec
SYMMETRY Symmetry
\* Without clients and signals the pool rests.
CHECK_DEADLOCK FALSE
INVARIANTS
  Capacity
  LeaseHasOwner
  ShutdownIsFinal
PROPERTIES
  ImplementsLeaseService
