CONSTANTS
    periodic = periodic
    once = once
    Timer <- Timers
    AutoReload <- Periodic
    InitialPeriod <- Periods
    NewPeriods <- Changes
    Deletable <- Periodic
    NoTimer = NoTimer
    Stopped = Stopped
    Never = Never
    QueueLength = 2
    TickModulus = 6
    FirstTick = 4
    MaxClock = 8
    Lateness = 1
    CallDelay = 0
    PostsPerTick = 1
SPECIFICATION Spec
INVARIANTS
    StoppedIsInactive
CHECK_DEADLOCK FALSE
