CONSTANTS
    MaxLink = 3
    ChanCapacity = 7
    Order = {1}
    MaxOrderQueued = 2
SPECIFICATION Spec
INVARIANTS
    WritesOnlyWhenConnected
CHECK_DEADLOCK FALSE
