CONSTANTS
    Uint32 = 16
    total_orders = 4
    round = 2
    order_per_round = 2
    MaxRsp = 3
    MaxLost = 1
    MaxForeign = 1
SPECIFICATION Spec
INVARIANTS
    TypeOK
    CompletedIsComplete
PROPERTIES
    RunEnds
CHECK_DEADLOCK FALSE
