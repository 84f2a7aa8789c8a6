CONSTANTS
    c1 = c1
    c2 = c2
    Conns <- MCConns
    NoCtx = NoCtx
    MaxOrders = 3
    MaxRsp = 3
    Interval = 2
SPECIFICATION Spec
INVARIANTS
    TypeOK
    NoDanglingCtx
    SortedByCount
    NoFinishedOrderListed
    ResponsesInSequence
    AnsweredInOrder
PROPERTIES
    ImplementsDesk
