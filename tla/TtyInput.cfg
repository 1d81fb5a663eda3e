CONSTANTS
    KB_BUF_SIZE = 3
    MaxLine = 2
    Interruptible = TRUE
SPECIFICATION Spec
INVARIANTS
    CharStable
    LineSafe
PROPERTY
    ImplementsQueue
CHECK_DEADLOCK FALSE
