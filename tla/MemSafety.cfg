CONSTANTS
    ENTRIES = 12
    KERNEL_ENTRY = 10
    TOTAL_PAGES = 22
    BITMAP_PAGES = 22
    START_PAGE = 1
    HEAP_PAGE = 18
    Procs <- MCProcs
    Idle = 0
    MaxHeap = 20
SPECIFICATION Spec
INVARIANTS
    FrameCount
    OneOwner
    SharedIsCow
PROPERTY KernelPagesStay
CHECK_DEADLOCK FALSE
