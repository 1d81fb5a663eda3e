CONSTANTS
    MAX_PROCS = 3
    MaxForks = 1
    TickMod = 4
    SleepTicks <- MCSleepTicks
    EarlyTicks = 1
SPECIFICATION Spec
PROPERTY ForkReturns
CHECK_DEADLOCK FALSE
