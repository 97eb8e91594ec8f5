SPECIFICATION Spec
CONSTANTS
  Counters = {"hits", "lookups"}
  Raw = {"hits"}
  PerSecond = {"hits"}
  BaseOf <- MCBaseOf
  Guarded = "hits"
  Readings <- MCReadings
  Pages = {0, 1}
  MaxClock = 2
  MaxEpoch = 1
  None = None
INVARIANTS
  RateIsTrue
  GrowthIsTrue
CHECK_DEADLOCK FALSE
