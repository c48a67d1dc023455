SPECIFICATION FairSpec
CHECK_DEADLOCK FALSE
CONSTANTS
    w1 = w1
    w2 = w2
    a1 = a1
    small = small
    brief = brief
    odd = odd
    NoCollection = NoCollection
    Workers <- TwoWorkers
    Apis <- OneApi
    Models <- AllModels
    Widths <- MCWidths
    Declared <- MCDeclared
    InputLimit <- MCInputLimit
    ChunkSize = 4
    SpecialTokens = 2
    MaxDeploys = 1
    MaxCrashes = 1
INVARIANTS
    OneWidth
PROPERTIES
    WorkersComeUp
    ApiComesUp
