SPECIFICATION RunSpec
CONSTANTS
    RqSize = 1
    WqSize = 1
    PqSize = 1
    BlockSize = 2
    MatchOffset = TRUE
    Cases <- MCCases
    IfetchSize = 4
    DecodeSize = 2
    DispatchSize = 2
    RobSize = 4
    LqSize = 2
    SqSize = 3
    FetchWidth = 2
    DecodeWidth = 2
    DispatchWidth = 2
    SchedulerSize = 2
    ExecWidth = 2
    LqWidth = 1
    SqWidth = 1
    RetireWidth = 2
    L1iBandwidth = 1
    L1dBandwidth = 1
    DecodeLatency = 1
    DispatchLatency = 1
    SchedulingLatency = 0
    ExecLatency = 1
    Penalty = 1
    DibWindow = 2
    DibWays = 1
    Cpus = {c1}
    Cpu = c1
    Vpages = {0, 1, 2}
    PtLevels = 3
    Fanout = 2
    SlotsPerFrame = 2
    FirstFrame = 1
    LastFrame = 12
    Uppers = 2
    LowerRqSize = 1
    LinePtes = 2
    PsclWays = 1
    MaxRead = 2
    MaxFill = 2
    WalkLatency = 1
    MaxWalks = 2
INVARIANT IssuedStoreHasExecuted
CHECK_DEADLOCK FALSE
