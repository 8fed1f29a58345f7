\* Two concurrent calls of a session, up to two items each, over two leases.
CONSTANTS
  Clients = {c1, c2}
  MaxItems = 2
  MaxLives = 2
  Bases = {"all", "core"}
SPECIFICATION FairSpec
INVARIANTS
  RoutesAgree
  ReadOnlyHolds
  FatalSurfaces
  RunsOnItsLease
PROPERTY
  AlwaysAnswered
