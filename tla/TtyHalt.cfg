CONSTANTS
    KB_BUF_SIZE = 3
    MaxLine = 2
    Interruptible = FALSE
SPECIFICATION FairSpec
PROPERTY
    HaltEnds
CHECK_DEADLOCK FALSE
