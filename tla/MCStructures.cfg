SPECIFICATION RunSpec
CONSTANTS
    Cpus = {c1, c2}
    Vpages = {0, 1}
    PtLevels = 2
    Fanout = 2
    SlotsPerFrame = 2
    FirstFrame = 1
    LastFrame = 5
    Tags = {t0, t1, t2, t3}
    DefaultTag = t0
    Ways = 3
    MaxAccess = 6
    RqSize = 2
    WqSize = 2
    PqSize = 1
    BlockSize = 2
    MatchOffset = TRUE
    Addrs = {2, 3}
    Translations = {TRUE}
    MaxRequests = 4
    Trace <- MCTrace
    ClockScale <- MCClock
    TraceChunk = 2
    InQueueSize = 2
    Width = 2
    InFlight = 2
    Lengths <- MCLengths
    Den = 1
    DeadlockCycle = 2
    MaxIdle = 2
INVARIANTS
    NothingShared
    InMemory
    ChannelSound
    LoopSound
PROPERTIES
    ImplementsOwnership
    TableIsLru
    LoopEnds
CHECK_DEADLOCK FALSE
