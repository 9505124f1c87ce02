CONSTANTS
    idle = idle
    a = a
    b = b
    c = c
    NoTask = NoTask
    Idle = idle
    Task <- TwoTasks
    InitialReady <- OneLevel
    MaxPriorities = 2
    TickModulus = 3
    MaxPendedTicks = 1
    MaxSuspendNesting = 1
    MaxLeak = 1
    Calls = {"delay"}
SPECIFICATION FairSpec
PROPERTIES
    DelayEnds
