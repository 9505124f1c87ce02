CONSTANTS
    a = a
    b = b
    m1 = m1
    m2 = m2
    Task <- OneTask
    NoTask = NoTask
    Message <- OneMessage
    NoMessage = NoMessage
    Length = 1
    EventValue <- EqualPriority
    Int8Max = 127
    MaxLockCount = 128
    Ops = {"overwrite", "receive"}
SPECIFICATION Spec
INVARIANTS
    NoReceiverForgotten
