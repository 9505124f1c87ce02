CONSTANTS
    periodic = periodic
    once = once
    Timer <- Timers
    AutoReload <- Periodic
    InitialPeriod <- Periods
    NewPeriods <- Changes
    Deletable <- Periodic
    NoTimer = NoTimer
    Stopped = Stopped
    Never = Never
    QueueLength = 2
    TickModulus = 7
    FirstTick = 5
    MaxClock = 8
    Lateness = 2
    CallDelay = 1
    PostsPerTick = 1
    m1 = m1
    m2 = m2
    m3 = m3
    visitor = visitor
    Member <- Members
    MemberBits <- OwnBits
    Visitor = {visitor}
    VisitorBits = {3}
    GroupLimits = {"none", "limited"}
    PendedCalls = 1
    HeapEnd = 96
    Alignment = 8
    xHeapStructSize = 8
    Requests = {0, 1, 9, 24}
    Turn = 5
    LastTick = 12
    WaitLimits = {1, 2, 3, 4}
    Increments = {1, 2, 4}
SPECIFICATION ServicesSpec
INVARIANTS
    TypeOK
    CalledWhenDue
    ListedWhenDue
    HeapPartition
    WaitsAreExact
    ReleasedTogether
PROPERTIES
    ExpiredAreCalled
    GroupRoundsInStep
CHECK_DEADLOCK FALSE
