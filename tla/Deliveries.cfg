SPECIFICATION Spec
CONSTANTS
    d1 = d1
    s1 = s1
    s2 = s2
    old = old
    new = new
    NoDoc = NoDoc
    NoVersion = NoVersion
    Docs <- OneDoc
    Slots <- TwoSlots
    Versions <- BothVersions
    VersionOf <- MixedVersions
    Points <- MCPoints
    ChunksOf <- MCChunksOf
    MaxTries = 2
    Scenarios <- OneHazard
INVARIANTS
    ClaimExclusive
    StageEvidence
    Inv
PROPERTY RefinesLifecycle
