SPECIFICATION FairRecovery
CONSTANTS
    d1 = d1
    d2 = d2
    d3 = d3
    d4 = d4
    d5 = d5
    d6 = d6
    s1 = s1
    s2 = s2
    Sound <- TwoSound
    Slow <- TwoSlow
    Broken <- TwoBroken
    OldRows <- FewAndFull
    Sweepers <- TwoSweepers
    BatchSize = 2
    MaxJobs = 2
INVARIANTS
    OneJobPerDocument
PROPERTY Recovered
