SPECIFICATION Spec
CHECK_DEADLOCK FALSE
CONSTANTS
    Pdfs <- MCPdfs
    Arrivals <- MCArrivals
    Earlier <- MCEarlier
    PageWidth = 10
    Slack = 1
    MaxBytes = 5
    ReadBytes = 2
    MaxName = 2
INVARIANTS
    NameIsSafe
    MemoryIsBounded
    WorkerDecidesAfresh
    HumanOrder
    AllTextOnce
