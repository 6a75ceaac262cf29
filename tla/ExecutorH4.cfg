SPECIFICATION SpecH4
CONSTANTS
  Strategies = {nas4h}
  Sessions = {0, 1, 2}
  Volumes = {1}
  Levels = {1, 2, 3}
  Fifo = TRUE
  Kind <- H4Kind
  PhasesPerDay = 1
  OpenPhase = 0
  ClosePhase = 0
  DecidePhase = 1
  EntryWindow = 0
  DecideWindow = 1
  DisasterStop = 1
  ActWithin = 0
  MaxStreak = 1
  Configs <- Removed
  FaultKinds = {"crash", "stop", "silent"}
  MaxFaults = 1
  BarTimes = {0, 1, 2, 3}
  MaxTime = 3
INVARIANTS
  OneExitPerPosition
  JournalledStopIsSafe
  DeskInv
PROPERTIES
  StopOnlyRises
  ImplementsDesk
