SPECIFICATION Spec
CONSTANTS
    LaneRoom = 2
    EventRoom = 2
    MaxRounds = 1
    MaxBurst = 1
INVARIANT
    EndsInDone
