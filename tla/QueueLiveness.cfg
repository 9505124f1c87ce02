CONSTANTS
    a = a
    b = b
    m1 = m1
    m2 = m2
    Task <- TwoTasks
    NoTask = NoTask
    Message <- OneMessage
    NoMessage = NoMessage
    Length = 1
    EventValue <- EqualPriority
    Int8Max = 127
    MaxLockCount = 1
    Ops = {"sendBack", "overwrite", "receive", "peek"}
SPECIFICATION FairSpec
PROPERTIES
    LimitedCallsEnd
    ReceiversServed
