CONSTANTS
    a = a
    b = b
    m1 = m1
    m2 = m2
    Task <- TwoTasks
    NoTask = NoTask
    Message <- TwoMessages
    NoMessage = NoMessage
    Length = 2
    EventValue <- EqualPriority
    Int8Max = 127
    MaxLockCount = 2
    Ops = {"sendBack", "sendFront", "receive", "peek", "reset"}
SYMMETRY Symmetry
SPECIFICATION Spec
INVARIANTS
    TypeOK
    NoReceiverForgotten
    NoSenderForgotten
PROPERTIES
    ImplementsQueueSpec
