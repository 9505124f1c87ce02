CONSTANTS
    idle = idle
    low = low
    middle = middle
    high = high
    m1 = m1
    m2 = m2
    NoTask = NoTask
    Idle = idle
    Task <- Tasks
    Mutex <- Mutexes
    MaxPriorities = 4
    InitialPriority <- Priorities
    NewPriorities <- NoChanges
    Limits = {"forever"}
SPECIFICATION MutexSpec
INVARIANTS
    RunningIsMostUrgent
CHECK_DEADLOCK FALSE
