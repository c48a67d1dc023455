SPECIFICATION FairSpec
CHECK_DEADLOCK FALSE
CONSTANTS
    Candidates <- Usual
    StepTime <- Unit
    MaxCrashes = 1
INVARIANTS
    ReaperSparesTheLiving
PROPERTY TooLongFails
