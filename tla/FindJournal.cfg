SPECIFICATION Spec
CONSTANTS
  Strategies = {gold}
  Sessions = {0, 1}
  Volumes = {1}
  Levels = {1}
  Fifo = TRUE
  Kind <- FixedKind
  PhasesPerDay = 3
  OpenPhase = 1
  ClosePhase = 0
  DecidePhase = 0
  EntryWindow = 0
  DecideWindow = 0
  DisasterStop = 1
  ActWithin = 0
  MaxStreak = 1
  Configs <- OneConfig
  FaultKinds = {"silent"}
  MaxFaults = 1
  BarTimes = {}
  MaxTime = 8
INVARIANTS
  PositionIsJournalled
