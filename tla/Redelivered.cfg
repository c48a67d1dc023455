SPECIFICATION FairSpec
CONSTANTS
    d1 = d1
    s1 = s1
    s2 = s2
    old = old
    new = new
    NoDoc = NoDoc
    NoVersion = NoVersion
    Docs <- OneDoc
    Slots <- TwoSlots
    Versions <- BothVersions
    VersionOf <- MixedVersions
    Points <- TwoPoints
    ChunksOf <- OneChunkOf
    MaxTries = 2
    Scenarios <- BothHazards
INVARIANTS
    ReadyMeansSearchable
    OneGeneration
PROPERTY EventuallySettled
