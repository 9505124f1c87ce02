CONSTANTS
    idle = idle
    a = a
    b = b
    c = c
    NoTask = NoTask
    Idle = idle
    Task <- ThreeTasks
    InitialReady <- PairOnTop
    MaxPriorities = 3
    TickModulus = 3
    MaxPendedTicks = 1
    MaxSuspendNesting = 1
    MaxLeak = 1
    Calls = {"delay", "suspendAll"}
SPECIFICATION FairSpec
PROPERTIES
    DelayEndsIfShared
    TimeIsShared
