\* A Shutdown request meets a library that fails to initialise.
CONSTANTS
  Calls = {c1, c2}
  Capacity = 1
  MaxGeneration = 1
  Supervised = TRUE
  NoCall = NoCall
SPECIFICATION Spec
CHECK_DEADLOCK FALSE
INVARIANT
  ShutdownHonoured
