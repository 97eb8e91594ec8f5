SPECIFICATION SourceSpec
CONSTANTS
  Callers = {"collector", "handler"}
  Collector = "collector"
  Main = "main"
  None = None
  MaxFaults = 1
  Probes <- MCProbes
  Versioned = {"waits"}
INVARIANTS
  PinHasTheSlot
  BreaksAreNotRefusals
PROPERTY
  QueriesGoOn
CHECK_DEADLOCK FALSE
