CONSTANTS
    p1 = p1
    p2 = p2
    Procs <- MCTwo
    Names <- MCOneName
    Chop <- MCOneChop
    MAX_FDS = 2
    MAX_CHILDREN = 2
    BLOCK = 1
    MaxOpen = 3
    MaxNodes = 2
    MaxSize = 1
    MaxDepth = 1
    MaxMisuse = 1
SPECIFICATION Spec
INVARIANTS
    RefsExact
    NothingDangles
    SizesAgree
SYMMETRY Symmetric
CHECK_DEADLOCK FALSE
