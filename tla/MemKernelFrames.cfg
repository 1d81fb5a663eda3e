CONSTANTS
    ENTRIES = 8
    KERNEL_ENTRY = 6
    TOTAL_PAGES = 12
    BITMAP_PAGES = 12
    START_PAGE = 1
    HEAP_PAGE = 9
    Procs <- MCProcs
    Idle = 0
    MaxHeap = 3
SPECIFICATION Spec
INVARIANT KernelFramesKept
CHECK_DEADLOCK FALSE
