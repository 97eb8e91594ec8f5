SPECIFICATION WebSpec
CONSTANTS
  c1 = c1  t1 = t1  t2 = t2  srv = srv  s1 = s1  nil = nil
  Callers = {c1}
  Outsiders = {t1, srv}
  OutsideReason <- MCOutsideReason
  Serve = srv
  Spids = {s1}
  None = nil
  MaxClients = 1
  MaxRuns = 2
  MaxAge = 1
  MaxTrouble = 0
  MaxLogins = 0
  MaxStatements = 0
  LostAfter = 1
  RecentKept = 1
CHECK_DEADLOCK FALSE
INVARIANTS
  NothingOutlivesTheProcess
