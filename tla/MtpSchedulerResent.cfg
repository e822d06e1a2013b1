SPECIFICATION Spec
CONSTANTS
    MAX_BATCH = 2
    PhysicalPages = 4
    ATTENTION_PAGE_SIZE = 2
    ContextCapacity = 7
    DRAFT_WINDOW = 1
    Text = {"a"}
    Stop = "z"
    Requests <- OneAnswer
    ScoreLengths = {}
    Garbage = "?"
    None = None
INVARIANTS ReuseWithinBoundary
