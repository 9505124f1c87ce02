CONSTANTS
    idle = idle
    low = low
    middle = middle
    high = high
    m1 = m1
    m2 = m2
    NoTask = NoTask
    Idle = idle
    Task <- Tasks
    Mutex <- Mutexes
    MaxPriorities = 4
    InitialPriority <- Priorities
    NewPriorities <- LowChanges
    Limits = {"limited", "forever"}
SPECIFICATION MutexSpec
INVARIANTS
    TypeOK
    HolderInherits
    RaisedOnlyWhileHolding
PROPERTIES
    MostUrgentServed
CHECK_DEADLOCK FALSE
