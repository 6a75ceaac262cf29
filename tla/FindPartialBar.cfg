SPECIFICATION Spec
CONSTANTS
    TrustFor = 3
    RecordEvery = 2
    MaxChanges = 3
    MaxClock = 6
    HoursPerDay = 2
    Chunk = 2
    EmptyChunks = 2
    Retries = 1
    Budget = 2
    PageSize = 3
    Closed = {4, 5}
    FirstMinute = 2
    Coarse = FALSE
    Begin = 8
    MaxRestarts = 1
    MaxHour = 10
    TickHours = 2
    Quiet = {2}
    Contracts = {1, 2}
    FirstHour = 2
    LastHour = 4
    MaxSpecs = 2
    Slots = 6
    Entry = 4
    Exit = 8
    EntryWindow = 2
    ExitWindow = 2
    SessionDays = {0}
    BinEnd = 3
    BinDays = {0, 1}
    DecideWindow = 12
    ActWithin = 2
    NoBars = {3, 4, 5, 6, 7, 8, 9, 10, 11, 12}
    Lead = 1
    StaleAfter = 1
    Lookback = 9
    MaxDay = 2
    MaxFaults = 1
    FirstDay = 1786
    LastDay = 1800
    LookbackSessions = 3
    HeartbeatDays = 2
    MaxSilent = 2
    MaxWatchRestarts = 1
    Symbols <- deskSymbols
    FamilyOf <- cfdOf
    Unmapped = {"DIA"}
    Blockers <- blockersOf
    Fresh = 1
    Gap = 2
    EntryFrom = 2
    EntryTo = 4
    Wait = 1
    LastBar = 3
    MaxTime = 6
    MaxEvents = 2
    MaxJobCrashes = 1
    Opportunities = {"spring"}
    Overlap = 1
    MaxProposed = 1
    LastSession = 2
    MaxRows = 2
    MaxSnapshots = 2
    Sources <- terminalSources
    Requests <- seriesAsked
    AdapterOf <- adapterOf
    Inputs <- derivedFrom
    ArchiveStart <- archivesStart
    FirstStoreDay = 2
    DeriveWindow = 2
    LastStoreDay = 3
    MaxPublished = 4
    MaxOutages = 1
PROPERTY
    EventsOnSettledBars
CHECK_DEADLOCK FALSE
