\* A session id handed between three logins on one statement, two requests of a
\* session at a time, two connections lost or pages reloaded.
CONSTANTS
  Sessions = {s1}
  Logins = {alice, bob, carol}
  Texts = {q1}
  MaxRows = 2
  MaxInFlight = 2
  MaxBreaks = 2
SPECIFICATION FairSpec
INVARIANTS
  ShownIsOwn
PROPERTIES
  DrawnIsAllItHolds
  StaysShown
CHECK_DEADLOCK FALSE
