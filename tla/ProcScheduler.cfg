CONSTANTS
    MAX_PROCS = 4
    MaxForks = 2
    TickMod = 3
    SleepTicks <- MCSleepTicks
    EarlyTicks = 1
SPECIFICATION FairSpec
INVARIANTS
    TypeOK
    OneRunning
    UniquePids
    NoLostWakeup
    InterruptsOnlyInIdle
    LoadedDir
    ExitNeverReturns
PROPERTIES
    RoundRobin
    SwitchResumes
    ImplementsLife
    ReadyRuns
    SleeperWakes
CHECK_DEADLOCK FALSE
