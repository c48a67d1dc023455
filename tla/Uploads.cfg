SPECIFICATION Spec
CONSTANTS
    r1 = r1
    r2 = r2
    r3 = r3
    k1 = k1
    Requests <- ThreeRequests
    Keys <- OneKey
    KeyOf <- SameFile
    Scenarios <- EveryFault
CHECK_DEADLOCK FALSE
SYMMETRY Interchangeable
INVARIANTS
    TypeOK
    FailedUploadIsTakenBack
    NoOrphanedBlob
    LiveRowIsHandedOver
    OnlyTheirCreatorTakesBytes
