--------------------------- MODULE OrderLifecycle ---------------------------
(***************************************************************************)
(* The life of an order row as the API server's handlers write it:         *)
(*   - OrderService.placeOrder and updateStatus,                           *)
(*   - WebhookService.verifyAndProcessWebhook on a payment,                *)
(*   - AssignmentService.claim / adminAssign, which share one conditional  *)
(*     UPDATE,                                                             *)
(*   - DeliveryLifecycleService.pickup and deliver.                        *)
(*                                                                         *)
(* A handler reads the row, decides on what it read and writes later: a    *)
(* request slot holds what a handler in progress has read (its snapshot)   *)
(* and which statement it runs next.  One action is one committed          *)
(* statement or transaction of PostgreSQL; between two actions of a slot   *)
(* any other slot may run, and the slot may die (Fail).                    *)
(*                                                                         *)
(* Money, stock, offers and caches are the matter of other modules; the    *)
(* settlement of a delivery is represented by the order.delivered event    *)
(* that is inserted in its transaction, a charge by the capture of the     *)
(* payment session it is inserted with.  PresenceService.goOffline, which  *)
(* would release assigned orders, is not here: it tests a list of orders   *)
(* for truth and throws every time before its UPDATE.                      *)
(***************************************************************************)
EXTENDS Naturals, Sequences, FiniteSets, OrderStatus

CONSTANTS Orders,     \* public ids of the orders of one region
          Agents,     \* delivery agents
          Reqs,       \* request slots: how many handlers may be in progress
          NoAgent,    \* delivery_agent_id IS NULL
          NoOrder,    \* the order of a slot that is not in use
          MaxEvents   \* bound on the length of the outbox table

ASSUME ConstantsAssumption ==
    /\ NoAgent \notin Agents
    /\ NoOrder \notin Orders
    /\ MaxEvents \in Nat

VARIABLES orders,   \* order -> its row
          session,  \* order -> its payment session: "none", "open", "captured"
          outbox,   \* events_outbox by id
          req       \* slot -> the handler in progress

vars == <<orders, session, outbox, req>>

Methods == {"cod", "online"}
Stamps == {"accepted", "rejected", "ready", "assigned", "picked", "delivered",
           "cancelled"}
Row == [status : Statuses \cup {Absent}, method : Methods,
        agent : Agents \cup {NoAgent}, stamps : SUBSET Stamps]
NewRow(status, method) ==
    [status |-> status, method |-> method, agent |-> NoAgent, stamps |-> {}]
NoRow == NewRow(Absent, "cod")

SessionStates == {"none", "open", "captured"}

EventTypes == {"order.placed", "accepted", "rejected", "cancelled",
               "order.delivered", "payment.completed"}
Event == [order : Orders, type : EventTypes, by : Agents \cup {NoAgent}]
EventOf(o, type, a) == [order |-> o, type |-> type, by |-> a]

\* OUTBOX_EVENT_FOR_STATUS: the statuses whose PATCH also inserts an event.
EventStatuses == {"accepted", "rejected", "cancelled"}

\* What a handler runs next: "init" a payment session, "write" a PATCHed
\* status, "emit" its event, "pickup", "deliver", "capture" a payment.
Pcs == {"idle", "init", "write", "emit", "pickup", "deliver", "capture"}
Slot == [pc : Pcs, order : Orders \cup {NoOrder},
         from : Statuses \cup {Absent}, next : Statuses \cup {Absent},
         agent : Agents \cup {NoAgent}]
IdleSlot == [pc |-> "idle", order |-> NoOrder, from |-> Absent,
             next |-> Absent, agent |-> NoAgent]

TypeOK == /\ orders \in [Orders -> Row]
          /\ session \in [Orders -> SessionStates]
          /\ outbox \in Seq(Event)
          /\ req \in [Reqs -> Slot]

Init == /\ orders = [o \in Orders |-> NoRow]
        /\ session = [o \in Orders |-> "none"]
        /\ outbox = <<>>
        /\ req = [r \in Reqs |-> IdleSlot]

Exists(o) == orders[o].status # Absent

\* MaxEvents: a handler starts only if the outbox has room for the two events
\* it and each handler in progress may insert.
Room == Len(outbox) + 2 * (1 + Cardinality({r \in Reqs : req[r].pc # "idle"}))
            <= MaxEvents

\* Slot r starts: it has read the row of o and goes on with statement pc.
Begin(r, pc, o, next, a) ==
    /\ req[r].pc = "idle"
    /\ Room
    /\ req' = [req EXCEPT ![r] = [pc |-> pc, order |-> o,
                                  from |-> orders[o].status, next |-> next,
                                  agent |-> a]]

Finish(r) == req' = [req EXCEPT ![r] = IdleSlot]

\* updateOrderStatus: WHERE public_id = o, whatever the status is by now.
SetStatus(o, next) ==
    orders' = [orders EXCEPT ![o].status = next,
                             ![o].stamps = @ \cup StampOf(next)]

-----------------------------------------------------------------------------
(* placeOrder *)

\* Mistaken variant: placement announces nothing.
NoPlacementEvents(o) == <<>>

PlacementEvents(o) == <<EventOf(o, "order.placed", NoAgent)>>

\* Cash on delivery: order, items and order.placed in one transaction.
PlaceCod(o) ==
    /\ Room
    /\ ~Exists(o)
    /\ orders' = [orders EXCEPT ![o] = NewRow("placed", "cod")]
    /\ outbox' = outbox \o PlacementEvents(o)
    /\ UNCHANGED <<session, req>>

\* Online: the row is committed as pending_payment, without an event; then
\* the handler goes to the gateway for a payment session.
PlaceOnline(r, o) ==
    /\ ~Exists(o)
    /\ Begin(r, "init", o, Absent, NoAgent)
    /\ orders' = [orders EXCEPT ![o] = NewRow("pending_payment", "online")]
    /\ UNCHANGED <<session, outbox>>

\* The gateway answered and payment_sessions has the row.  When it does not,
\* the handler's compensation runs on the committed transaction and throws
\* before it changes anything: that is Fail.
InitSession(r) ==
    /\ req[r].pc = "init"
    /\ session' = [session EXCEPT ![req[r].order] = "open"]
    /\ Finish(r)
    /\ UNCHANGED <<orders, outbox>>

-----------------------------------------------------------------------------
(* updateStatus, the PATCH of restaurants, customers, admins and agents *)

\* resolveStatusActor: whom a caller may count as.  Nobody is the system, and
\* only the agent recorded on the order is its agent.
Callers(o) == {"customer", "restaurant_member", "admin"}
                  \cup (IF orders[o].agent # NoAgent THEN {"agent"} ELSE {})

PatchRead(r, o) ==
    /\ Exists(o)
    /\ \E actor \in Callers(o), next \in Statuses, hasReason \in BOOLEAN :
          /\ AssertTransition(orders[o].status, next, actor, hasReason)
          /\ Begin(r, "write", o, next, NoAgent)
    /\ UNCHANGED <<orders, session, outbox>>

\* The update runs on `conn`, not on the transaction the handler opened: it
\* commits on its own, before the event.
PatchWrite(r) ==
    /\ req[r].pc = "write"
    /\ SetStatus(req[r].order, req[r].next)
    /\ IF req[r].next \in EventStatuses
       THEN req' = [req EXCEPT ![r].pc = "emit"]
       ELSE Finish(r)
    /\ UNCHANGED <<session, outbox>>

PatchEmit(r) ==
    /\ req[r].pc = "emit"
    /\ outbox' = Append(outbox, EventOf(req[r].order, req[r].next, NoAgent))
    /\ Finish(r)
    /\ UNCHANGED <<orders, session>>

-----------------------------------------------------------------------------
(* verifyAndProcessWebhook on a `pay` event that is not a duplicate *)

\* Order and active session are read without a lock.
WebhookRead(r, o) ==
    /\ Exists(o)
    /\ session[o] = "open"
    /\ Begin(r, "capture", o, "placed", NoAgent)
    /\ UNCHANGED <<orders, session, outbox>>

\* Mistaken variant: a paid order is placed whatever its handler had read.
AwaitsAnything(r) == TRUE

\* The order that the handler read was waiting for its payment.
AwaitsPayment(r) == req[r].from = "pending_payment"

\* Session, charge, events and status commit together; whether the order
\* still waits for its payment is decided on the snapshot.  The outcome of the
\* payment is not asked for: `envelope.event === "pay" || ...` is true of a
\* FAILED event too, which captures and places like any other (module Payments
\* has the outcomes).
WebhookCommit(r) ==
    LET o == req[r].order
        paid == Append(outbox, EventOf(o, "payment.completed", NoAgent))
    IN  /\ req[r].pc = "capture"
        /\ session' = [session EXCEPT ![o] = "captured"]
        /\ IF AwaitsPayment(r)
           THEN /\ SetStatus(o, "placed")
                /\ outbox' = paid \o PlacementEvents(o)
           ELSE /\ outbox' = paid
                /\ UNCHANGED orders
        /\ Finish(r)

-----------------------------------------------------------------------------
(* Delivery *)

\* Mistaken variant: the status alone decides.
IsReady(o) == orders[o].status = "ready"

IsClaimable(o) == orders[o].status = "ready" /\ orders[o].agent = NoAgent

\* Mistaken variant: the claim records the agent and leaves the status.
ClaimWithoutStatus(o, a) ==
    /\ IsClaimable(o)
    /\ orders' = [orders EXCEPT ![o].agent = a]
    /\ UNCHANGED <<session, outbox, req>>

\* claimReadyOrderForAgent: one UPDATE, WHERE status = ready AND
\* delivery_agent_id IS NULL, for the winning agent and for an admin alike.
Claim(o, a) ==
    /\ IsClaimable(o)
    /\ orders' = [orders EXCEPT ![o].status = "assigned", ![o].agent = a,
                                ![o].stamps = @ \cup {"assigned"}]
    /\ UNCHANGED <<session, outbox, req>>

\* Mistaken variant: any agent may report on the order.
AnyAgent(o, a) == TRUE

\* updateStatus of the delivery service: only the order's agent goes on.
Owns(o, a) == orders[o].agent = a

PickupRead(r, o, a) ==
    /\ Owns(o, a)
    /\ orders[o].status = "assigned"
    /\ Begin(r, "pickup", o, "picked", a)
    /\ UNCHANGED <<orders, session, outbox>>

PickupWrite(r) ==
    /\ req[r].pc = "pickup"
    /\ SetStatus(req[r].order, "picked")
    /\ Finish(r)
    /\ UNCHANGED <<session, outbox>>

DeliverRead(r, o, a) ==
    /\ Owns(o, a)
    /\ orders[o].status = "picked"
    /\ Begin(r, "deliver", o, "delivered", a)
    /\ UNCHANGED <<orders, session, outbox>>

\* Status, settlement (for the agent of the request) and order.delivered.
DeliverCommit(r) ==
    /\ req[r].pc = "deliver"
    /\ SetStatus(req[r].order, "delivered")
    /\ outbox' = Append(outbox, EventOf(req[r].order, "order.delivered", req[r].agent))
    /\ Finish(r)
    /\ UNCHANGED session

-----------------------------------------------------------------------------

\* A statement fails, the connection is lost or the server dies: what the
\* handler has committed stays, the rest never happens.
Fail(r) ==
    /\ req[r].pc # "idle"
    /\ Finish(r)
    /\ UNCHANGED <<orders, session, outbox>>

Next ==
    \/ \E o \in Orders : PlaceCod(o)
    \/ \E o \in Orders, a \in Agents : Claim(o, a)
    \/ \E r \in Reqs, o \in Orders :
          PlaceOnline(r, o) \/ PatchRead(r, o) \/ WebhookRead(r, o)
    \/ \E r \in Reqs, o \in Orders, a \in Agents :
          PickupRead(r, o, a) \/ DeliverRead(r, o, a)
    \/ \E r \in Reqs : InitSession(r) \/ PatchWrite(r) \/ PatchEmit(r)
          \/ WebhookCommit(r) \/ PickupWrite(r) \/ DeliverCommit(r) \/ Fail(r)

Spec == Init /\ [][Next]_vars

-----------------------------------------------------------------------------
(* Properties that hold whatever the interleaving *)

\* Once claimReadyOrderForAgent has recorded an agent on an order, no handler
\* replaces or clears him: not a second claim, not a stale write that brings
\* the order back to `ready`.
AgentIsWriteOnce ==
    [][\A o \in Orders : orders[o].agent # NoAgent
                            => orders'[o].agent = orders[o].agent]_vars

\* An order that is assigned, picked or delivered has an agent: nobody but a
\* claim writes `assigned`, and pickup and delivery start from there, however
\* stale the row they read.
DeliveryHasAgent ==
    \A o \in Orders : orders[o].status \in {"assigned", "picked", "delivered"}
                          => orders[o].agent # NoAgent

\* The agent a settlement pays is the agent of the order, although the
\* ownership check of updateStatus ran on an earlier read of the row.
PaidAgentIsAssigned ==
    \A i \in 1..Len(outbox) : outbox[i].type = "order.delivered"
        => outbox[i].by = orders[outbox[i].order].agent

\* An online order reaches the restaurant only once a `pay` event of the gateway
\* has captured its session: no race of PATCH, webhook and session set-up
\* releases an order whose payment the gateway has not reported on.  Captured is
\* not paid: verifyAndProcessWebhook captures on a FAILED event as well.
CapturedBeforeServed ==
    \A o \in Orders :
        /\ orders[o].method = "online"
        /\ orders[o].status \notin {"pending_payment", "cancelled"}
        => session[o] = "captured"

\* The outbox has the order.placed of an order before its decision and its
\* delivery.  That is the order of the ids: one relay keeps it, the workers of
\* several processes may overtake each other (OvertakingIsBounded of Outbox).
PlacedEventLeads ==
    \A i \in 1..Len(outbox) :
        outbox[i].type \in {"accepted", "rejected", "order.delivered"}
            => \E j \in 1..(i - 1) : /\ outbox[j].order = outbox[i].order
                                     /\ outbox[j].type = "order.placed"

\* What an event of updateStatus says did happen to the row: its timestamp
\* column is set, even though status and event commit separately.
EventHasStamp ==
    \A i \in 1..Len(outbox) : outbox[i].type \in EventStatuses
        => outbox[i].type \in orders[outbox[i].order].stamps

\* Between its read of a row and its write of the status.
Deciding == {"write", "capture", "pickup", "deliver"}

\* The statuses no rule leads out of.
Final == {"rejected", "delivered", "cancelled"}

\* A rejected, delivered or cancelled order is taken out of its status only by a
\* handler that was under way before: that had read a status from which its move
\* was legal, and now writes over the final one.  Nothing that starts once the
\* order is final changes it, so it stands when those handlers have ended.
FinalStands ==
    [][\A o \in Orders :
          orders[o].status \in Final /\ orders'[o].status # orders[o].status
              => \E r \in Reqs : /\ req[r].pc \in Deciding
                                /\ req[r].order = o
                                /\ Legal(req[r].from, req[r].next)
                                /\ orders'[o].status = req[r].next]_vars

-----------------------------------------------------------------------------
(* Properties while the handlers of an order do not race *)

\* No two handlers of an order are between their read of it and their write.
\* Handlers of other orders, and claims, run beside them as they like.
NoRaces ==
    \A p, q \in Reqs :
        req[p].pc \in Deciding /\ req[q].pc \in Deciding /\ req[p].order = req[q].order
            => p = q

\* Without races the component keeps the promise of StatusMachine, claims and
\* failures at any point included.
Machine == INSTANCE StatusMachine
    WITH status <- [o \in Orders |-> orders[o].status],
         agent  <- [o \in Orders |-> orders[o].agent]

KeepsPromise == Machine!Spec

\* While the handlers of an order do not overlap, a ready order is one the
\* assignment service finds (findReadyUnassigned) and an agent may claim.
ReadyIsClaimable ==
    \A o \in Orders : orders[o].status = "ready" => orders[o].agent = NoAgent

=============================================================================
