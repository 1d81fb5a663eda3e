CONSTANT MaxQueue = 2
SPECIFICATION FairSpec
INVARIANTS
    ConfigKept
    KeysSignalled
PROPERTY
    BootCompletes
CHECK_DEADLOCK FALSE
