SPECIFICATION ListSpec
CONSTANTS
    NOrders = 2
    Servers = {p1}
    Slots = {r1, r2}
    Limit = 1
    ListTTL = 1
    PermTTL = 1
    MaxRead = 1
    MaxTime = 3
SYMMETRY Symmetry
CHECK_DEADLOCK FALSE
INVARIANTS
    ListIsRecent
    PermissionIsRecent
