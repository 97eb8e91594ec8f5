\* Two tiers, the request grid and the one that also reads the cost.
CONSTANTS
  Driven = {"requests", "counters"}
  Periods = {1, 3}
  MinBackoff = 1
  MaxBackoff = 2
  MaxClock = 4
SPECIFICATION Spec
INVARIANTS
  EachTierSpeaksForItself
PROPERTIES
  RetriesAreSpaced
CHECK_DEADLOCK FALSE
