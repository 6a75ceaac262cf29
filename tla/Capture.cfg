SPECIFICATION Spec
CONSTANTS
  Tabs = {tab}
  QueueMax = 1
  TradingDays = {0, 1}
  StampsPerPhase = 2
  Keep = 3
  ManualEod = {FALSE}
  Repairs = TRUE
  FaultKinds = {"vendor", "store", "engine", "crash"}
  MaxFaults = 1
  MaxTime = 2
INVARIANTS
  CaptureTypeOK
  CloseIsKept
  EventHasLevels
CHECK_DEADLOCK FALSE
