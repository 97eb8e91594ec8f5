SPECIFICATION Spec
CONSTANTS
  c1 = c1  c2 = c2  o1 = o1  s1 = s1  s2 = s2  nil = nil
  Callers = {c1, c2}
  Outsiders = {}
  OutsideReason <- MCOutsideReason
  Spids = {s1}
  None = nil
  MaxRuns = 2
  MaxAge = 2
  MaxTrouble = 2
  MaxLogins = 1
  MaxStatements = 0
  LostAfter = 1
  RecentKept = 1
SYMMETRY Symmetry
CHECK_DEADLOCK FALSE
INVARIANTS
  DrainIsHeld
  EndedOnce
  EndReasonIsOwn
  KeyEndsWhatItSaw
  EventSessionAccounted
  DrainedBeforeDrop
