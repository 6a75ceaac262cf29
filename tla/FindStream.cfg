SPECIFICATION Spec
CONSTANTS
  Tabs = {tab}
  QueueMax = 1
  TradingDays = {0, 1}
  StampsPerPhase = 2
  Keep = 3
  ManualEod = {FALSE}
  Repairs = FALSE
  FaultKinds = {}
  MaxFaults = 0
  MaxTime = 2
INVARIANTS
  TabSeesLevels
CHECK_DEADLOCK FALSE
