SPECIFICATION Spec
CONSTANTS
    NOrders = 1
    Agents = {a1, a2}
    Workers = {w1, w2}
    Claimers = {c1, c2}
    Rejecters = {r1}
    MaxAttempts = 1
    Batch = 1
    None = None
SYMMETRY Symmetry
CHECK_DEADLOCK FALSE
INVARIANTS
    TypeOK
    OneWinner
    WinnerWasInvited
