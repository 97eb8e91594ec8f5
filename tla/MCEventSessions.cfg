\* Two instances, one of which captures while the other comes and goes.
CONSTANTS
  Capacity = 2
  MaxEvents = 5
  MaxDropped = 1
  Us = us
  None = none
  Instances = {us, them}
  Cap = 2
  Late = 1
  MaxCaptures = 1
SPECIFICATION ESSpec
INVARIANTS
  SweepSparesTheRunning
  NothingDeadIsLeft
  LossIsExact
  GapsAddUp
CHECK_DEADLOCK FALSE
