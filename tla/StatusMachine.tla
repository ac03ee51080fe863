--------------------------- MODULE StatusMachine ---------------------------
(***************************************************************************)
(* What the order component promises its clients: an order appears as      *)
(* `placed` or `pending_payment`, its status then only follows the matrix  *)
(* of OrderStatus, and the one move that needs a delivery agent, ready to  *)
(* assigned, is the one that records him, once and for all.                *)
(***************************************************************************)
EXTENDS OrderStatus

CONSTANTS Orders,   \* public ids of the orders of one region
          Agents,   \* delivery agents
          NoAgent   \* delivery_agent_id IS NULL

VARIABLES status,   \* order -> its status, or Absent
          agent     \* order -> the agent recorded on it, or NoAgent

machineVars == <<status, agent>>

Init == /\ status = [o \in Orders |-> Absent]
        /\ agent = [o \in Orders |-> NoAgent]

Create(o) ==
    /\ status[o] = Absent
    /\ \E s \in {"placed", "pending_payment"} :
          status' = [status EXCEPT ![o] = s]
    /\ UNCHANGED agent

Move(o) ==
    /\ \E next \in Statuses \ {"assigned"} :
          /\ Legal(status[o], next)
          /\ status' = [status EXCEPT ![o] = next]
    /\ UNCHANGED agent

Assign(o) ==
    /\ Legal(status[o], "assigned")
    /\ agent[o] = NoAgent
    /\ status' = [status EXCEPT ![o] = "assigned"]
    /\ \E a \in Agents : agent' = [agent EXCEPT ![o] = a]

Next == \E o \in Orders : Create(o) \/ Move(o) \/ Assign(o)

Spec == Init /\ [][Next]_machineVars

=============================================================================
