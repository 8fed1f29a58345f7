\* Two callers keep sending requests of any kind through a queue of one place,
\* over two database generations.
CONSTANTS
  Calls = {c1, c2}
  Capacity = 1
  MaxGeneration = 2
  Supervised = FALSE
  NoCall = NoCall
SPECIFICATION FairSpec
CHECK_DEADLOCK FALSE
INVARIANTS
  RefusedNeverRuns
  GenerationBound
  NeverSavesCorrupt
  LockFollowsDatabase
  DebuggeeOwned
PROPERTY
  Settles
