SPECIFICATION Spec
CONSTANTS
  c1 = c1  c2 = c2  o1 = o1  s1 = s1  s2 = s2  nil = nil
  Callers = {c1}
  Outsiders = {o1}
  OutsideReason <- MCOutsideReason
  Spids = {s1}
  None = nil
  MaxRuns = 2
  MaxAge = 1
  MaxTrouble = 0
  MaxLogins = 0
  MaxStatements = 2
  LostAfter = 1
  RecentKept = 1
CHECK_DEADLOCK FALSE
INVARIANTS
  PanelNamesTheRun
  PanelIsTailOfFile
PROPERTIES
  ImplementsSlot
