\* The throttle over readings one or two units apart, with restarts of cpu_time and periods set by hand.
CONSTANTS
  never = never
  Never = never
  Window = 2
  Recovery = 5
  Limit = 1
  Periods = {1, 2}
  Configured <- MCConfigured
  Commanded = {"requests"}
  Gaps <- MCGaps
  Costs <- MCCosts
  MaxClock = 16
SPECIFICATION Spec
INVARIANTS
  EscalatesInTime
  RecoversInTime
PROPERTIES
  SpacedSteps
  RecoveryEarned
CHECK_DEADLOCK FALSE
