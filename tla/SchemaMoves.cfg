SPECIFICATION Spec
CHECK_DEADLOCK FALSE
CONSTANTS
    d1 = d1
    d2 = d2
    NoRow = NoRow
    Docs <- TwoDocs
    EraRows <- AnyEra
INVARIANTS
    NeverStuck
    StagesHaveInput
