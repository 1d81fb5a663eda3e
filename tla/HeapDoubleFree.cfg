CONSTANTS
    HEADER = 5
    ALIGN = 2
    PAGE_SIZE = 14
    HEAP_START = 10
    Requests <- MCRequests
    MaxPages = 3
    MaxStale = 1
SPECIFICATION CarelessSpec
INVARIANT DoubleFreeHarmless
CHECK_DEADLOCK FALSE
