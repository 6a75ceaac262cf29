SPECIFICATION Spec
CONSTANTS
    FirstDay = 7
    LastDay = 2560
    Window = 2
    SimulationBars = 1
    MaxTradeBars = 2
    Families = {"zscore", "continuation"}
    MaxHistory = 4
    MaxWorkerCrashes = 1
    Prices = {0, 2, 3, 4}
    Levels = {1, 2}
    Touches = {1}
    Points <- excursions
    Unit = 2
    MaxBars = 4
    MaxCaptures = 1
    MaxPoints = 5
    TriggerWindow = 2
    MaxHold = 2
    Specs <- tradesScored
    DayBars <- dayShapes
    MaxDays = 3
    BarOverlap = 2
    UpToDate = 2
    MaxAttempts = 2
    Weekend = {4}
    LastBarDay = 5
    Roots <- chainRoots
    ChainAttempts = 1
    MaxRowsServed = 1
    FlowFamilies <- issuers
    FundsOf <- issuersFunds
    FlowAttempts = 1
    LastFlowDay = 2
    MaxAborts = 1
    Cycles = {"worker", "task"}
    Trials = {"t1", "t2", "t3"}
    Migrated = {"t1", "t3"}
    HypothesisOf <- hypotheses
    Files = {"daily"}
    FileOf <- filesOf
    Merged = {}
    MaxCandidates = 1
    PromotePerCycle = 1
    CommitEvery = 2
    LastSearchDay = 3
    MaxCycles = 2
    MaxCycleFailures = 1
    Feeds <- weeks
    Refreshers = {"worker", "hand"}
    MinInterval = 2
    LastInstant = 4
    MaxRefreshCrashes = 1
INVARIANTS
    BarsAreWhole
    ChainIsAsServed
    TableFollowsRules
    CaptureBelongsToLastOpen
    NoTransitionLost
PROPERTIES
    CalendarHolds
    WatchlistHolds
    FlowsAreKept
    TellsOnce
    FindingsAreFinal
    TrackRecordHolds
CHECK_DEADLOCK FALSE
