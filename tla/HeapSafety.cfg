CONSTANTS
    HEADER = 5
    ALIGN = 2
    PAGE_SIZE = 14
    HEAP_START = 10
    Requests <- MCRequests
    MaxPages = 4
    MaxStale = 0
SPECIFICATION Spec
INVARIANTS
    Tiling
    Coalesced
    Accounted
PROPERTY ImplementsAllocator
CHECK_DEADLOCK FALSE
