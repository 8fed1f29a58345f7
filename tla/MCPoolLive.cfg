\* Liveness on the smallest pool in which a worker is replaced.
CONSTANTS
  Clients = {c1}
  Futures = {f1}
  MaxWorkers = 1
  MinWorkers = 1
  QueueCapacity = 2
  AcquireCapacity = 2
  PreserveOnCancel = FALSE
  MaxIds = 2
  MaxLeases = 2
SPECIFICATION FairSpec
\* Without clients and signals the pool rests.
CHECK_DEADLOCK FALSE
PROPERTIES
  LeaseSettles
  RetirementKills
  AbandonedWorkStops
  ShutdownEnds
