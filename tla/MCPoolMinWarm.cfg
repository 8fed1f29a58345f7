\* Idle reaping races the retirement of another worker.
CONSTANTS
  Clients = {c1}
  Futures = {f1}
  MaxWorkers = 2
  MinWorkers = 1
  QueueCapacity = 2
  AcquireCapacity = 2
  PreserveOnCancel = FALSE
  MaxIds = 3
  MaxLeases = 2
SPECIFICATION FairSpec
\* Without clients and signals the pool rests.
CHECK_DEADLOCK FALSE
PROPERTIES
  KeepsMinWarm
