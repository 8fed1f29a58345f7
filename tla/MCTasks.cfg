\* Two tasks of one session run side by side.
CONSTANTS
  Sessions = {s1}
  Sessionless = {}
  Caches = {d1}
  MaxTasks = 2
  MaxEntries = 2
  MaxGenerations = 2
  Images = 1
SPECIFICATION Spec
\* The process may exit.
CHECK_DEADLOCK FALSE
PROPERTIES
  ImplementsTaskService
  CancelledIsClean
