CONSTANTS
    Chats = {c1, c2}
    Scores = {s1}
    Admins = {a1, a2}
    NoJob = NoJob
    MAX_BATCH = 2
    MaxRounds = 2
SPECIFICATION FairSpec
INVARIANTS TypeOK FenceIsLast SettledIsTrue
PROPERTIES NoAdmissionDuringHold EveryJobSettles ImplementsLifecycle
