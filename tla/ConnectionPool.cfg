SPECIFICATION PoolSpec
CONSTANTS
    Requests = {r1, r2, r3, r4}
    PoolMax = 2
INVARIANTS
    StallIsByPatches
PROPERTIES
    RequestsEnd
