SPECIFICATION Spec
CONSTANTS
  Strategies = {nas}
  Sessions = {0, 1, 2}
  Volumes = {1}
  Levels = {1}
  Fifo = TRUE
  Kind <- DailyKind
  PhasesPerDay = 2
  OpenPhase = 1
  ClosePhase = 0
  DecidePhase = 0
  EntryWindow = 0
  DecideWindow = 0
  DisasterStop = 1
  ActWithin = 0
  MaxStreak = 1
  Configs <- OneConfig
  FaultKinds = {"crash", "refuse", "silent", "stop"}
  MaxFaults = 2
  BarTimes = {0, 2, 4}
  MaxTime = 6
INVARIANTS
  OrphanIsTold
