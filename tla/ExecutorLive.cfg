SPECIFICATION FairSpec
CONSTANTS
  Strategies = {gold}
  Sessions = {0, 1}
  Volumes = {1}
  Levels = {1}
  Fifo = FALSE
  Kind <- FixedKind
  PhasesPerDay = 3
  OpenPhase = 1
  ClosePhase = 0
  DecidePhase = 0
  EntryWindow = 0
  DecideWindow = 0
  DisasterStop = 1
  ActWithin = 0
  MaxStreak = 1
  Configs <- OneConfig
  FaultKinds = {"crash", "raise", "refuse", "silent", "deaf", "stop"}
  MaxFaults = 1
  BarTimes = {}
  MaxTime = 6
PROPERTIES
  FixedPositionEnds
  DueLegSettles
