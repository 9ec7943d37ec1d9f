SPECIFICATION RunSpec
CONSTANTS
    Pcs = {b1, b2, b3}
    Assoc = 2
    Thresh = 2
    None = None
    Ips <- MCIps
    Kind <- MCIpKind
    Targets = {0, 12}
    StackSize = 2
    HistoryLength = 1
    Answers = {"MISS", "INDIRECT"}
    MaxRun = 1
    CodeKind <- MCCodeKind
    CodeTargets <- MCCodeTargets
    CallLength <- MCCallLength
    FirstIp = 1
    BasicRasSize = 2
    IndirectSize = 4
    CallSizes = 2
    BasicHistoryLength = 1
    MaxCallDepth = 3
INVARIANTS
    L0Sound
    ReturnsMatchCalls
    TrainsWhereItReads
    BasicBtbSound
CHECK_DEADLOCK FALSE
