CONSTANTS
    c1 = c1
    c2 = c2
    Conns <- MCConns
    NoConn = NoConn
    NumWorker = 2
    NumUser = 2
    UserIds <- AnyIds
    ChanCapacity = 3
    MaxRspQueued = 1
SPECIFICATION Spec
INVARIANTS
    TypeOK
    RefCoversHolders
    AddBeforeDel
    HeldIsLive
    DropsNobody
PROPERTIES
    EveryCtxFreed
    EveryLoginAnswered
CHECK_DEADLOCK FALSE
