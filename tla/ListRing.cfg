CONSTANTS
    l1 = l1
    l2 = l2
    x1 = x1
    x2 = x2
    x3 = x3
    List <- MCList
    Item <- MCItem
    MaxValue = 2
    NoList = NoList
    NoWalk = NoWalk
SPECIFICATION Spec
INVARIANTS
    TypeOK
    RingsInverse
    RingsClosed
    IndexInOwnRing
    CountsAgree
    WalkInOwnRing
PROPERTIES
    ImplementsListSpec
    WalkEnds
