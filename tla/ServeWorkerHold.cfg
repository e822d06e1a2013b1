CONSTANTS
    Chats = {c1}
    Scores = {s1}
    Admins = {a1, a2}
    NoJob = NoJob
    MAX_BATCH = 2
    MaxRounds = 1
SYMMETRY Symmetry
SPECIFICATION Spec
PROPERTIES HoldIsKept
