CONSTANTS
    Interval = 2
    Burst = 3
    MaxTime = 6
    RawConfigs <- MCRawConfigs
    MaxRetries = 7
    c1 = c1 c2 = c2 c3 = c3
    Callers = {c1, c2, c3}
    Size = 2
    RotationPeriod = 1
    Scenarios <- MCScenarios
    MaxCreated = 2
    MaxOps = 2
    MaxEvents = 1
    w1 = w1 w2 = w2
    N = 6
    Groups <- MCGroups
    Workers = {w1, w2}
    Late = {w2}
    Grace = 2
    Period = 1
    Failures = 2
    MinUptime = 4
    MinDelay = 1
    MaxDelay = 3
    StopTimeout = 2
    MaxRefused = 1
    MaxTx = 4
    MaxDiskFaults = 1
    CompactAt = 1
    h1 = h1 h2 = h2
    Handlers = {h1, h2}
    Total = 3
    MaxGivenUp = 2
    MaxUploadFaults = 1
SPECIFICATION PartsSpec
INVARIANTS
    PartsTypeOK
    RateBound
    ScheduleMatches
    RepeatRunsNothing
    OwnVersions
    BusyHasWorker
    IdleConsistent
    DependenciesUp
    NothingLeftUp
    WorkersHaveComponents
    NothingLost
    ObjectIsWhole
PROPERTIES
    NumbersNotReused
    DestroyedStays
    CancelledKept
    SweepCatchesUp
    
    OperationsFinal
    OperationsEnd
    UpEnds
    KilledForCause
    ChildComesBack
    UploadEnds
CHECK_DEADLOCK FALSE
