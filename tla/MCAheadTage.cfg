SPECIFICATION RunSpec
CONSTANTS
    InFlight = 1
    Distance = 3
    IdMod = 9
    AheadPcs = {p1, p2}
    None = None
    HistorySizes <- MCSizes
    FoldWidths <- MCWidths
    MaxInFlight = 1
    TagBits <- MCTags
    FirstLong = 5
    First2Way = 5
    Last2Way = 5
    LogEntries = 1
    ShortBanks = 1
    LongBanks = 2
    PathWidth = 2
    CtrWidth = 3
    UsefulBits = 1
    ExtraEntries = 1
    TicksUntilShift = 2
    AltSelectorLog = 2
    AltSelectorWidth = 2
    BimodalLog = 1
    HysteresisShift = 1
    AheadDistance = 1
    Pcs = {1}
    MaxFree = 2
    SecondTags = {0, 1}
INVARIANTS
    QueueSound
PROPERTIES
    TrainsWhatWasPicked
    ImplementsOracle
    PatternsKeepTheirEntries
CHECK_DEADLOCK FALSE
