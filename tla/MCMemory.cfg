SPECIFICATION RunSpec
CONSTANTS
    RqSize = 1
    WqSize = 1
    PqSize = 1
    BlockSize = 2
    MatchOffset = FALSE
    Uppers = 2
    NumSet = 1
    NumWay = 1
    MshrSize = 2
    InternalPqSize = 1
    HitLatency = 1
    FillLatency = 1
    MaxTag = 1
    MaxFill = 1
    PrefetchAsLoad = FALSE
    VirtualPrefetch = FALSE
    PageSize = 4
    FrameOf <- MCFrames
    Bypass = TRUE
    Reads <- UpperReads
    Writes <- UpperWrites
    Prefetches = {}
    MaxRequests = 3
    DramUppers = 2
    Channels = 1
    Banks = 2
    RqSlots = 2
    WqSlots = 2
    HighWater = 2
    LowWater = 1
    Precharge = 1
    Cas = 1
    TurnAround = 1
    BusTime = 2
    Sources <- TwoCaches
    DramRequests = 3
INVARIANTS
    SharedCacheSound
    DramSound
PROPERTIES
    BusIsHeld
    EverythingServed
CHECK_DEADLOCK FALSE
