\* Two deliveries and two payouts at a time, each with its failures.
SPECIFICATION Spec
CONSTANTS
  o1 = o1
  o2 = o2
  Orders = {o1, o2}
  Bill <- MCBill
  CommissionBps = 5000
  ShareBps = 5000
  Nobody = Nobody
  Couriers = {c1, c2}
  Payers = {p1, p2}
  Keys = {k1, k2}
  Amounts = {1, 2}
SYMMETRY Symmetry
INVARIANTS BalanceNonNegative BalanceMatchesEvents CommissionIsDeducted
CHECK_DEADLOCK FALSE
