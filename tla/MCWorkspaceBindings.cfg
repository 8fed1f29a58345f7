\* Every kind of binding, closed and reopened under a driver's calls.
CONSTANTS
  Sessions = {s1}
  Tasks = {t1}
  NoActor = none
  Modes = {"workspace", "keep", "legacy", "shared"}
  SlowPass = TRUE
  MaxGen = 2
SPECIFICATION FairSpec
\* A binding that ended rests.
CHECK_DEADLOCK FALSE
INVARIANTS
  TypeOK
  GenerationGate
PROPERTIES
  LossIsNoticed
