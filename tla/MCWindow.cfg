\* Two sessions with up to two requests each tick, and a crowd that is at the cap
\* alone and over it with one of them; gaps longer than the retention.
\* Blocking is checked over every sample of up to four requests of three sessions.
CONSTANTS
  Retention = 3
  MaxSamples = 4
  Sessions = {s1, s2}
  Statements = {select, update}
  Paces <- MCPaces
  MaxTicks = 4
  Spids = {1, 2, 3}
  Requests = {0, 1}
  MaxRows = 4
SYMMETRY Alike
SPECIFICATION WindowSpec
INVARIANTS
  KeepsAllItMay
  RunsAreExecutions
  EveryRowLaidOut
CHECK_DEADLOCK FALSE
