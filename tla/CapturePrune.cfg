SPECIFICATION Spec
CONSTANTS
  Tabs = {}
  QueueMax = 1
  TradingDays = {0, 1}
  StampsPerPhase = 1
  Keep = 3
  ManualEod = {FALSE, TRUE}
  Repairs = TRUE
  FaultKinds = {"vendor", "store", "engine", "crash", "sleep"}
  MaxFaults = 1
  MaxTime = 5
INVARIANTS
  EodKeepsStrikes
CHECK_DEADLOCK FALSE
