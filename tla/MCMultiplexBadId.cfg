CONSTANTS
    c1 = c1
    c2 = c2
    Conns <- MCConns
    NoConn = NoConn
    NumWorker = 2
    NumUser = 3
    UserIds = {0, 2, 3}
    Strays <- MCStrays
    MaxOrders = 1
    MaxRsp = 1
    MaxBreak = 0
SPECIFICATION Spec
INVARIANTS
    IdsChecked
CHECK_DEADLOCK FALSE
