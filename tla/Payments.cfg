SPECIFICATION Spec
CONSTANTS
    Orders = {o1}
    Txns = {t1, t2}
    Hooks = {h1, h2}
    Refunders = {r1, r2}
    Amount = 1
    Attempts = 2
    MaxDeliveries = 2
    MaxReturned = 3
SYMMETRY Symmetry
CHECK_DEADLOCK FALSE
INVARIANTS
    CompletedOnce
    PaymentIsWhole
    ProcessedIsCharged
    RefundsAddUp
