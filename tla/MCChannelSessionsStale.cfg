CONSTANTS
    c1 = c1
    c2 = c2
    Conns <- MCConns
    NoConn = NoConn
    NumWorker = 2
    NumUser = 2
    UserIds <- InTableIds
    ChanCapacity = 5
    MaxRspQueued = 1
SPECIFICATION Spec
INVARIANTS
    WritesToLive
CHECK_DEADLOCK FALSE
