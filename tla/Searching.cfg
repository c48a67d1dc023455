SPECIFICATION SearchSpec
CONSTANTS
    d1 = d1
    s1 = s1
    s2 = s2
    r1 = r1
    u1 = u1
    u2 = u2
    old = old
    new = new
    NoDoc = NoDoc
    NoVersion = NoVersion
    Docs <- OneDoc
    Slots <- TwoSlots
    Versions <- BothVersions
    VersionOf <- MixedVersions
    Points <- MCPoints
    ChunksOf <- MCChunksOf
    MaxTries = 2
    Scenarios <- NoHazard
    Users <- TwoUsers
    OwnerOf <- Own
    Searchers <- OneSearcher
    ModelOf <- Models
    ApiModel = "newModel"
    Queries <- MCQueries
    TopK = 2
    MaxQueryChars = 2
    MaxInputTokens = 4
    SpecialTokens = 2
    Tardiness <- LateOrNot
INVARIANTS
    Findable
    NothingGone
    OneVectorSpace
    Isolated
