CONSTANTS
    idle = idle
    a = a
    b = b
    c = c
    NoTask = NoTask
    Idle = idle
    Task <- TwoTasks
    InitialReady <- OneLevel
    MaxPriorities = 2
    TickModulus = 2
    MaxPendedTicks = 1
    MaxSuspendNesting = 1
    MaxLeak = 1
    Calls = {"suspend", "create", "delete", "event", "priority", "suspendAll"}
SPECIFICATION Spec
INVARIANTS
    ItemsInOneList
    ReadyByPriority
    RunningIsHighest
    AssertionsHold
PROPERTIES
    ImplementsTaskStates
