\* An open is dropped between taking a stale lease and marking its worker dead.
CONSTANTS
  Sessions = {s1}
  Tasks = {}
  NoActor = none
  Modes = {"legacy"}
  SlowPass = FALSE
  MaxGen = 2
SPECIFICATION Spec
CHECK_DEADLOCK FALSE
INVARIANTS
  LostIsRetired
