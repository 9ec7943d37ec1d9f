SPECIFICATION LiveSpec
CONSTANTS
    RqSize = 1
    WqSize = 1
    PqSize = 1
    BlockSize = 2
    MatchOffset = TRUE
    Uppers = 1
    NumSet = 1
    NumWay = 2
    MshrSize = 2
    InternalPqSize = 1
    HitLatency = 1
    FillLatency = 1
    MaxTag = 1
    MaxFill = 1
    PrefetchAsLoad = FALSE
    VirtualPrefetch = FALSE
    PageSize = 4
    FrameOf <- MCFrames
    Bypass = FALSE
    Reads <- CoreReads
    Writes <- MoreWrites
    Prefetches = {12}
    MaxRequests = 3
INVARIANTS
    CacheSound
PROPERTIES
    EveryReadAnswered
CHECK_DEADLOCK FALSE
