SPECIFICATION Spec
CONSTANTS
    MAX_BATCH = 3
    PhysicalPages = 3
    TableStride = 3
    MaxContextTokens = 5
    ATTENTION_PAGE_SIZE = 2
    FREE_PAGE_OWNER = 255
    UNUSED_PAGE = 1000000
INVARIANTS
    TypeOK
    OwnershipInv
    RouteInjective
    NoInternalError
PROPERTIES
    PrefixStable
    ImplementsPages
