SPECIFICATION Spec
CONSTANTS
    MAX_BATCH = 3
    PhysicalPages = 5
    ATTENTION_PAGE_SIZE = 2
    ContextCapacity = 7
    DRAFT_WINDOW = 2
    Text = {"a"}
    Stop = "z"
    Requests <- Conversations
    ScoreLengths = {4, 8}
    Garbage = "?"
    None = None
INVARIANTS TypeOK   WritesReserved
           BooksAgree RefusalIsHonest
