SPECIFICATION RunSpec
CONSTANTS
    Tags = {1, 3}
    Lines = {1, 2, 3, 4, 5}
    LineSets = 2
    LineWays = 1
    Misses = 1
    PrefetchSlots = 1
    Waiting = 1
    QueueSlots = 1
    HistoryWays = 3
    BertiTableSize = 0
    DeltaSize = 2
    DeltaLimit = 4
    ConfidenceMax = 2
    ConfidenceL1 = 0
    ConfidenceL2 = 0
    ConfidenceL2R = 0
    MshrLimit = 70
    TimeMod = 8
    LatMod = 4
    AddrMod = 4
    FirstCycle = 6
    LastCycle = 10
    Programs <- MCPrograms
    PageLines = 3
    SppPages = {1, 2}
    StWays = 2
    PtSets = 4
    PtWays = 2
    GhrEntries = 2
    FilterSets = 4
    Remainders = 4
    SigShift = 1
    SigBits = 4
    SigDeltaBits = 3
    CSigMax = 3
    GlobalCounterMax = 3
    PfThreshold = 25
    FillThreshold = 50
    QueueSize = 8
    MaxDemands = 7
    MaxFills = 1
    StrideIps = {1, 2}
    StrideLines = {0, 1, 2, 3}
    TrackerWays = 1
    StrideDegree = 3
    StridePageLines = 3
    VirtualPrefetch = FALSE
    AmpmPages = {0, 1, 2}
    AmpmPageLines = 3
    RegionCount = 2
    MaxDistance = 3
    AmpmDegree = 2
    FreeSlots = {1, 4}
    MaxReads = 8
    CacheCases <- MCCases
    ReplacementIps = {0, 1}
    MaxRrpv = 3
    BipMax = 2
    PselMax = 3
    ShctMax = 1
INVARIANTS
    LearnsOnlyTimely
    NothingLeaks
    SppTablesSound
    RegularitySound
    ScanResistant
CHECK_DEADLOCK FALSE
