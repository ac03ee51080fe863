\* Two handlers at a time, of two orders or where they do not race; claims beside them.
SPECIFICATION RaceFreeSpec
CONSTANTS
  Orders = {o1, o2}
  Agents = {a1, a2}
  Reqs = {r1, r2}
  NoAgent = NoAgent
  NoOrder = NoOrder
  MaxEvents = 6
SYMMETRY Symmetry
INVARIANTS ReadyIsClaimable
PROPERTIES KeepsPromise
CHECK_DEADLOCK FALSE
