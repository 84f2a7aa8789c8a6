CONSTANTS
    c1 = c1
    c2 = c2
    Conns <- MCConns
    NumUser = 2
    Leavers = {c1}
    UserIds = {0, 1, 2}
    LoginIds <- MCLoginIds
    Senders <- MCSenders
    MaxLink = 2
    ChanCapacity = 3
    Order <- MCOrder
    MaxOrders = 2
    MaxRsp = 2
    MaxOrderQueued = 2
SPECIFICATION OrdersSpec
INVARIANTS
    OrdersTypeOK
    OneLinkInTheWorks
    WritesToLive
    PointerCaughtUp
    OrdersInOrder
PROPERTIES
    LinkedAgain
    BrokenLinkFreed
    OrderAnswered
    ImplementsGateway
CHECK_DEADLOCK FALSE
