\* idat ends by itself while its task is being cancelled.
CONSTANTS
  Sessions = {s1}
  Sessionless = {r1}
  Caches = {d1}
  MaxTasks = 1
  MaxEntries = 1
  MaxGenerations = 1
  Images = 1
SPECIFICATION Spec
CHECK_DEADLOCK FALSE
INVARIANTS
  NoHalfWrittenReuse
