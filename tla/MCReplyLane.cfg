SPECIFICATION Spec
CONSTANTS
    LaneRoom = 2
    EventRoom = 2
    MaxRounds = 3
    MaxBurst = 2
INVARIANTS
    TypeOK
    NoGap
    VerdictIsTrue
    LeavesPromptly
PROPERTIES
    RequestLeaves
    ReaderSeesEnd
