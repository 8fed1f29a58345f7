\* A debugger start and a debugger stop overtake each other.
CONSTANTS
  Sessions = {s1, s2}
  Tasks = {}
  NoActor = none
  Modes = {"workspace"}
  SlowPass = FALSE
  MaxGen = 1
SPECIFICATION Spec
CHECK_DEADLOCK FALSE
INVARIANTS
  PinTracksSession
