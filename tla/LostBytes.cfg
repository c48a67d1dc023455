SPECIFICATION Spec
CONSTANTS
    r1 = r1
    r2 = r2
    r3 = r3
    k1 = k1
    Requests <- TwoRequests
    Keys <- OneKey
    KeyOf <- SameFile
    Scenarios <- DbErrors
CHECK_DEADLOCK FALSE
INVARIANT LiveRowHasBlob
