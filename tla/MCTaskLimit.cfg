\* A registry that fills up: one entry, so a new task waits for the old one or replaces it.
CONSTANTS
  Sessions = {s1}
  Sessionless = {r1, r2}
  Caches = {d1}
  MaxTasks = 2
  MaxEntries = 1
  MaxGenerations = 2
  Images = 2
SPECIFICATION FairSpec
\* The process may exit.
CHECK_DEADLOCK FALSE
INVARIANTS
  NeverForgotten
  HandlesStayPrivate
PROPERTIES
  CancelSettles
