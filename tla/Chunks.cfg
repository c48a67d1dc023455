SPECIFICATION Spec
CHECK_DEADLOCK FALSE
CONSTANTS
    Documents <- MCDocuments
    Sizes <- MCSizes
    MaxHeadingWords = 1
    MaxInputTokens = 5
    SpecialTokens = 2
    MaxLength = 6
INVARIANTS
    Seamless
    NeverTruncated
    UnderItsHeading
    EntriesIntact
    CitedPages
