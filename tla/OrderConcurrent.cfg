\* Up to three handlers at a time on one order.
SPECIFICATION Spec
CONSTANTS
  Orders = {o1}
  Agents = {a1, a2}
  Reqs = {r1, r2, r3}
  NoAgent = NoAgent
  NoOrder = NoOrder
  MaxEvents = 7
SYMMETRY Symmetry
INVARIANTS DeliveryHasAgent PaidAgentIsAssigned CapturedBeforeServed PlacedEventLeads
PROPERTIES AgentIsWriteOnce FinalStands
CHECK_DEADLOCK FALSE
