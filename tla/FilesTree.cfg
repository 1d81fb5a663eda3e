CONSTANTS
    p1 = p1
    sh = p1
    Procs <- MCOne
    Names <- MCOneName
    Chop <- MCOneChop
    InitFs <- MCInitFs
    MAX_FDS = 1
    MAX_CHILDREN = 3
    BLOCK = 0
    MaxOpen = 4
    BUF_SIZE = 1
    MaxNodes = 5
    MaxSize = 2
    MaxDepth = 2
    MaxMisuse = 2
SPECIFICATION ShellSpec
INVARIANTS
    Tree
    NothingLeaked
    OutputIsWhole
PROPERTIES
    CommandsEnd
    CreatedAsAsked
CHECK_DEADLOCK FALSE
