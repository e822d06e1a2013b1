CONSTANTS
    FundedPages = 4
    SLOT_PAGE_TOKENS = 4
    COMPRESS_RATIO = 4
    Tile = 4
    DRAFT_WINDOW = 3
    Text = {"a"}
    Stop = "z"
    Requests <- MCRequests
    MaxEpoch = 5
    Garbage = "?"
    None = None
SPECIFICATION Spec
INVARIANT BlockKeysAreTrue
CHECK_DEADLOCK FALSE
