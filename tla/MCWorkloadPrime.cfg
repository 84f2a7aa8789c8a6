CONSTANTS
    Starts <- MCStarts
    Num = 3
    Margin = 1
    Uint64 = 8
    Leftover = {0, 6}
    Total = 5
    Uint32 = 8
    Rounds = {0, 1, 2, 3, 7}
    PerRound = {1, 2, 3, 7}
    Delays = {1, 2}
    Parts = 3
SPECIFICATION Spec
INVARIANTS
    PrimesOnly
