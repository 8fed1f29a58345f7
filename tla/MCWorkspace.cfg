\* Two tool calls, a background driver and the reaper share one database.
CONSTANTS
  Sessions = {s1, s2}
  Tasks = {t1}
  NoActor = none
  Modes = {"workspace", "keep"}
  SlowPass = FALSE
  MaxGen = 1
SPECIFICATION Spec
SYMMETRY Symmetry
\* A database that was dropped rests.
CHECK_DEADLOCK FALSE
INVARIANTS
  NoOrphanLease
PROPERTIES
  EvictedIsUnused
  PinBlocksEviction
