CONSTANTS
    idle = idle
    a = a
    b = b
    c = c
    NoTask = NoTask
    Idle = idle
    Task <- TwoTasks
    InitialReady <- TwoLevels
    MaxPriorities = 3
    TickModulus = 4
    MaxPendedTicks = 2
    MaxSuspendNesting = 1
    MaxLeak = 1
    Calls = {"delay", "event", "yield", "suspendAll"}
SPECIFICATION Spec
INVARIANTS
    TypeOK
    WakeTimesAhead
    UnblockTimeNotLate
    TicksConserved
    PendingIsTransient
    MostUrgentFirst
PROPERTIES
    ImplementsTaskStates
