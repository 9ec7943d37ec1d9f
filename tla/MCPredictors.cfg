SPECIFICATION RunSpec
CONSTANTS
    HistorySizes <- MCSizes
    FoldWidths <- MCWidths
    MaxInFlight = 1
    TagBits <- MCTags
    FirstLong = 5
    First2Way = 5
    Last2Way = 5
    LogEntries = 1
    ShortBanks = 1
    LongBanks = 2
    PathWidth = 2
    CtrWidth = 3
    UsefulBits = 1
    ExtraEntries = 1
    TicksUntilShift = 2
    AltSelectorLog = 2
    AltSelectorWidth = 2
    BimodalLog = 1
    HysteresisShift = 1
    AheadDistance = 1
    Pcs = {1}
    MaxFree = 2
    LoopLogEntries = 2
    LoopTagBits = 2
    IterationWidth = 3
    LoopConfidence = 3
    SureIterations = 8
    NewLoopAge = 2
    GehlHistories <- MCGehlHistories
    GehlLog <- MCGehlLog
    Precision = 3
    BiasLog = 3
    PerPcLog = 1
    WeightLog = 1
    ThresholdWidth = 5
    PerPcWidth = 3
    WeightWidth = 2
    ConfidenceWidth = 2
    InitialThreshold = 8
    InitialWeight = 1
    InitialBiasWeight = 1
    LocalLog <- MCLocalLog
    LocalShift <- MCLocalShift
    ImliWidth = 2
    SumPathWidth = 2
    WeightBonus = 2
    Distances = {0, 1}
    TageAnswers <- MCAnswers
    SclPcs = {5}
    TripCounts = {6}
    MaxFreeBranches = 1
    PredictorKinds = {"bimodal", "gshare", "perceptron", "hashed"}
    Branches = {1, 6}
    NonBranches = {3}
    OutcomesOf <- MCOutcomes
    SimpleCounterMax = 3
    GshareLength = 2
    TableSize = 4
    PerceptronLength = 2
    PerceptronBits = 3
    Perceptrons = 2
    UpdateEntries = 3
    Theta = 2
    HistoryLengths <- MCHistoryLengths
    WordBits = 2
    HistoryWords = 3
    WeightBits = 2
    Speed = 2
    FirstTheta = 1
    MaxInstructions = 8
INVARIANTS
    TageSound
    SclSound
    HistoriesSound
PROPERTIES
    EverythingIsLearned
CHECK_DEADLOCK FALSE
