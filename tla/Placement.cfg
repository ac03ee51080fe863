SPECIFICATION PlacementSpec
CONSTANTS
    Slots = {s1, s2}
    ClientKeys = {k1}
    Stock = 3
    Attempts = 2
    MaxRequests = 4
    MaxMissed = 1
    MaxExpired = 1
SYMMETRY Symmetry
CHECK_DEADLOCK FALSE
INVARIANTS
    NeverOversold
    
    OkIsComplete
    OrdersPerKey
