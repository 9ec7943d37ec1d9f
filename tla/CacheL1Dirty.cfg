SPECIFICATION ClockedSpec
CONSTANTS
    RqSize = 2
    WqSize = 2
    PqSize = 1
    BlockSize = 2
    MatchOffset = TRUE
    Uppers = 1
    NumSet = 1
    NumWay = 1
    MshrSize = 2
    InternalPqSize = 1
    HitLatency = 1
    FillLatency = 1
    MaxTag = 1
    MaxFill = 1
    PrefetchAsLoad = FALSE
    VirtualPrefetch = TRUE
    PageSize = 4
    FrameOf <- MCFrames
    Bypass = FALSE
    Reads <- CoreReads
    Writes <- CoreWrites
    Prefetches = {}
    MaxRequests = 3
INVARIANTS
    WrittenIsDirty
CHECK_DEADLOCK FALSE
