----------------------- MODULE OrderLifecycle_proofs -----------------------
(***************************************************************************)
(* The safety of OrderLifecycle for any number of orders, agents and       *)
(* concurrent handlers, and that it implements StatusMachine while those   *)
(* of an order do not race.                                                *)
(*                                                                         *)
(* None of the properties is inductive: what keeps a stale write harmless  *)
(* is that everything a handler relied on when it read the row is stable   *)
(* (StepsOnlyAdd) and was true at the read (SlotsAreSound).                *)
(***************************************************************************)
EXTENDS OrderLifecycle, SequenceTheorems, TLAPS

\* o was announced to the restaurant and, if it is paid online, captured.
Released(o) ==
    /\ \E j \in 1..Len(outbox) : /\ outbox[j].order = o
                                 /\ outbox[j].type = "order.placed"
    /\ orders[o].method = "online" => session[o] = "captured"

\* Before placeOrder commits there is nothing of an order.
AbsentIsBlank ==
    \A o \in Orders : ~Exists(o) => orders[o] = NoRow /\ session[o] = "none"

ServedIsReleased ==
    \A o \in Orders :
        orders[o].status \notin {Absent, "pending_payment", "cancelled"}
            => Released(o)

\* What the snapshot of a handler in progress still guarantees.
SlotIsSound(s) ==
    /\ s.pc # "idle" => s.order \in Orders /\ Exists(s.order)
    /\ s.pc = "init" => session[s.order] = "none"
    /\ s.pc = "capture" => session[s.order] # "none"
    /\ s.pc \in {"write", "emit"} /\ s.next # "cancelled" => Released(s.order)
    /\ s.pc = "write" => s.next \in Statuses \ {"assigned", "pending_payment"}
    /\ s.pc = "write" /\ s.next \in {"picked", "delivered"}
          => orders[s.order].agent # NoAgent
    /\ s.pc = "emit" => s.next \in EventStatuses \cap orders[s.order].stamps
    /\ s.pc \in {"pickup", "deliver"}
          => /\ s.agent # NoAgent
             /\ orders[s.order].agent = s.agent
             /\ Released(s.order)

SlotsAreSound == \A r \in Reqs : SlotIsSound(req[r])

\* An order is placed once, so one handler at most sets up its session.
OneInitEach ==
    \A r, q \in Reqs : /\ req[r].pc = "init"
                       /\ req[q].pc = "init"
                       /\ req[r].order = req[q].order
                       => r = q

DeliveryEventsNameTheAgent ==
    \A i \in 1..Len(outbox) : outbox[i].type = "order.delivered"
        => /\ outbox[i].by # NoAgent
           /\ outbox[i].by = orders[outbox[i].order].agent

\* The inductive invariant.
IInv == /\ TypeOK
        /\ AbsentIsBlank
        /\ DeliveryHasAgent
        /\ ServedIsReleased
        /\ SlotsAreSound
        /\ OneInitEach
        /\ DeliveryEventsNameTheAgent
        /\ EventHasStamp
        /\ PlacedEventLeads

\* What no step takes away: rows, captures and events only accumulate.
StepsOnlyAdd ==
    /\ \A o \in Orders :
          /\ Exists(o) => /\ Exists(o)'
                         /\ orders'[o].method = orders[o].method
                         /\ orders[o].stamps \subseteq orders'[o].stamps
          /\ orders[o].agent # NoAgent => orders'[o].agent = orders[o].agent
          /\ session[o] = "captured" => session'[o] = "captured"
          /\ session[o] # "none" => session'[o] # "none"
    /\ Len(outbox) \in Nat /\ Len(outbox') \in Nat
    /\ Len(outbox) <= Len(outbox')
    /\ \A i \in 1..Len(outbox) : outbox'[i] = outbox[i]

-----------------------------------------------------------------------------

\* The initial state has no orders, handlers or events.
LEMMA InitIInv == Init => IInv
<1> SUFFICES ASSUME Init PROVE IInv
    OBVIOUS
<1> USE ConstantsAssumption DEF Init
<1>1. TypeOK
  BY DEF TypeOK, NoRow, NewRow, Row, Methods, Stamps, Slot, IdleSlot, Pcs, SessionStates
<1>2. Len(outbox) = 0
  OBVIOUS
<1>3. AbsentIsBlank /\ DeliveryHasAgent /\ ServedIsReleased
  BY DEF AbsentIsBlank, DeliveryHasAgent, ServedIsReleased, NoRow, NewRow, Absent
<1>4. SlotsAreSound /\ OneInitEach
  BY DEF SlotsAreSound, SlotIsSound, OneInitEach, IdleSlot
<1>5. DeliveryEventsNameTheAgent /\ EventHasStamp /\ PlacedEventLeads
  BY <1>2 DEF DeliveryEventsNameTheAgent, EventHasStamp, PlacedEventLeads
<1> QED
  BY <1>1, <1>3, <1>4, <1>5 DEF IInv

-----------------------------------------------------------------------------

\* SetStatus keeps the table well typed and writes one row only.
LEMMA SetStatusRow ==
    ASSUME orders \in [Orders -> Row],
           NEW o \in Orders, NEW next \in Statuses \ {"pending_payment"},
           SetStatus(o, next)
    PROVE  /\ orders' \in [Orders -> Row]
           /\ orders'[o].status = next
           /\ orders'[o].method = orders[o].method
           /\ orders'[o].agent = orders[o].agent
           /\ orders'[o].stamps = orders[o].stamps \cup StampOf(next)
           /\ \A p \in Orders \ {o} : orders'[p] = orders[p]
<1>1. StampOf(next) \subseteq Stamps
  BY DEF StampOf, Stamps, Statuses
<1> QED
  BY <1>1 DEF SetStatus, Row

\* A claim assigns one row.
LEMMA ClaimRow ==
    ASSUME orders \in [Orders -> Row],
           NEW o \in Orders, NEW a \in Agents, Claim(o, a)
    PROVE  /\ orders' \in [Orders -> Row]
           /\ orders'[o].status = "assigned"
           /\ orders'[o].method = orders[o].method
           /\ orders'[o].agent = a
           /\ orders'[o].stamps = orders[o].stamps \cup {"assigned"}
           /\ \A p \in Orders \ {o} : orders'[p] = orders[p]
<1>1. "assigned" \in Statuses \cup {Absent} /\ {"assigned"} \subseteq Stamps
  BY DEF Statuses, Stamps
<1>2. orders' = [orders EXCEPT ![o] = [[[orders[o]
                     EXCEPT !.status = "assigned"] EXCEPT !.agent = a]
                     EXCEPT !.stamps = orders[o].stamps \cup {"assigned"}]]
  BY DEF Claim, Row
<1>3. /\ [[[orders[o] EXCEPT !.status = "assigned"] EXCEPT !.agent = a]
            EXCEPT !.stamps = orders[o].stamps \cup {"assigned"}] \in Row
      /\ orders'[o].status = "assigned"
      /\ orders'[o].method = orders[o].method
      /\ orders'[o].agent = a
      /\ orders'[o].stamps = orders[o].stamps \cup {"assigned"}
  BY <1>1, <1>2 DEF Row
<1> QED
  BY <1>2, <1>3

\* A slot that starts holds what the handler has read.
LEMMA BeginSlot ==
    ASSUME TypeOK, NEW r \in Reqs, NEW pc \in Pcs, NEW o \in Orders,
           NEW next \in Statuses \cup {Absent}, NEW a \in Agents \cup {NoAgent},
           Begin(r, pc, o, next, a)
    PROVE  /\ req' \in [Reqs -> Slot]
           /\ req'[r].pc = pc
           /\ req'[r].order = o
           /\ req'[r].from = orders[o].status
           /\ req'[r].next = next
           /\ req'[r].agent = a
           /\ \A q \in Reqs \ {r} : req'[q] = req[q]
  BY DEF TypeOK, Begin, Slot, Row

\* A slot that ends is idle again.
LEMMA FinishSlot ==
    ASSUME TypeOK, NEW r \in Reqs, Finish(r)
    PROVE  /\ req' \in [Reqs -> Slot]
           /\ req'[r].pc = "idle"
           /\ \A q \in Reqs \ {r} : req'[q] = req[q]
  BY DEF TypeOK, Finish, Slot, IdleSlot, Pcs

\* One event more.
LEMMA OneEvent ==
    ASSUME outbox \in Seq(Event), NEW e \in Event, outbox' = Append(outbox, e)
    PROVE  /\ outbox' \in Seq(Event)
           /\ Len(outbox) \in Nat
           /\ Len(outbox') = Len(outbox) + 1
           /\ \A i \in 1..Len(outbox) : outbox'[i] = outbox[i]
           /\ outbox'[Len(outbox) + 1] = e
  BY AppendProperties, LenProperties

\* Two events more.
LEMMA TwoEvents ==
    ASSUME outbox \in Seq(Event), NEW e \in Event, NEW f \in Event,
           outbox' = Append(outbox, e) \o <<f>>
    PROVE  /\ outbox' \in Seq(Event)
           /\ Len(outbox) \in Nat
           /\ Len(outbox') = Len(outbox) + 2
           /\ \A i \in 1..Len(outbox) : outbox'[i] = outbox[i]
           /\ outbox'[Len(outbox) + 1] = e
           /\ outbox'[Len(outbox) + 2] = f
<1> DEFINE one == Append(outbox, e)
<1>1. /\ one \in Seq(Event)
      /\ Len(outbox) \in Nat
      /\ Len(one) = Len(outbox) + 1
      /\ \A i \in 1..Len(outbox) : one[i] = outbox[i]
      /\ one[Len(outbox) + 1] = e
  BY AppendProperties, LenProperties
<1> HIDE DEF one
<1>2. <<f>> \in Seq(Event) /\ Len(<<f>>) = 1 /\ <<f>>[1] = f
  OBVIOUS
<1>3. outbox' = one \o <<f>>
  BY DEF one
<1> QED
  BY <1>1, <1>2, <1>3, ConcatProperties

-----------------------------------------------------------------------------

\* The type invariant survives every step.
LEMMA TypeStep == IInv /\ Next => TypeOK'
<1> SUFFICES ASSUME IInv, Next PROVE TypeOK'
    OBVIOUS
<1> USE DEF IInv
<1>a. /\ orders \in [Orders -> Row] /\ session \in [Orders -> SessionStates]
      /\ outbox \in Seq(Event) /\ req \in [Reqs -> Slot]
  BY DEF TypeOK
<1>b. ASSUME NEW o \in Orders, NEW t \in EventTypes, NEW a \in Agents \cup {NoAgent}
      PROVE  EventOf(o, t, a) \in Event
  BY <1>b DEF EventOf, Event
<1>c. ASSUME NEW r \in Reqs, req[r].pc # "idle"
      PROVE  req[r].order \in Orders /\ req[r].agent \in Agents \cup {NoAgent}
  BY <1>c, <1>a DEF SlotsAreSound, SlotIsSound, Slot
<1>1. ASSUME NEW o \in Orders, PlaceCod(o) PROVE TypeOK'
  <2>1. orders' \in [Orders -> Row]
    BY <1>1, <1>a DEF PlaceCod, Row, NewRow, Statuses, Methods
  <2>2. outbox' \in Seq(Event)
    BY <1>1, <1>a, <1>b DEF PlaceCod, PlacementEvents, EventTypes
  <2> QED
    BY <1>1, <1>a, <2>1, <2>2 DEF PlaceCod, TypeOK
<1>2. ASSUME NEW o \in Orders, NEW a \in Agents, Claim(o, a) PROVE TypeOK'
  <2>1. orders' \in [Orders -> Row]
    BY <1>2, <1>a, ClaimRow
  <2> QED
    BY <1>2, <1>a, <2>1 DEF Claim, TypeOK
<1>3. ASSUME NEW r \in Reqs, NEW o \in Orders, PlaceOnline(r, o) PROVE TypeOK'
  <2>1. orders' \in [Orders -> Row]
    BY <1>3, <1>a DEF PlaceOnline, Row, NewRow, Statuses, Methods
  <2>2. req' \in [Reqs -> Slot]
    BY <1>3, BeginSlot DEF PlaceOnline, Pcs
  <2> QED
    BY <1>3, <1>a, <2>1, <2>2 DEF PlaceOnline, TypeOK
<1>4. ASSUME NEW r \in Reqs, NEW o \in Orders, PatchRead(r, o) PROVE TypeOK'
  <2>1. PICK next \in Statuses : Begin(r, "write", o, next, NoAgent)
    BY <1>4 DEF PatchRead
  <2>2. req' \in [Reqs -> Slot]
    BY <2>1, BeginSlot DEF Pcs
  <2> QED
    BY <1>4, <1>a, <2>2 DEF PatchRead, TypeOK
<1>5. ASSUME NEW r \in Reqs, NEW o \in Orders, WebhookRead(r, o) PROVE TypeOK'
  <2>1. req' \in [Reqs -> Slot]
    BY <1>5, BeginSlot DEF WebhookRead, Pcs, Statuses
  <2> QED
    BY <1>5, <1>a, <2>1 DEF WebhookRead, TypeOK
<1>6. ASSUME NEW r \in Reqs, NEW o \in Orders, NEW a \in Agents, PickupRead(r, o, a)
      PROVE TypeOK'
  <2>1. req' \in [Reqs -> Slot]
    BY <1>6, BeginSlot DEF PickupRead, Pcs, Statuses
  <2> QED
    BY <1>6, <1>a, <2>1 DEF PickupRead, TypeOK
<1>7. ASSUME NEW r \in Reqs, NEW o \in Orders, NEW a \in Agents, DeliverRead(r, o, a)
      PROVE TypeOK'
  <2>1. req' \in [Reqs -> Slot]
    BY <1>7, BeginSlot DEF DeliverRead, Pcs, Statuses
  <2> QED
    BY <1>7, <1>a, <2>1 DEF DeliverRead, TypeOK
<1>8. ASSUME NEW r \in Reqs, InitSession(r) PROVE TypeOK'
  <2>1. session' \in [Orders -> SessionStates]
    BY <1>8, <1>a, <1>c DEF InitSession, SessionStates
  <2> QED
    BY <1>8, <1>a, <2>1, FinishSlot DEF InitSession, TypeOK
<1>9. ASSUME NEW r \in Reqs, PatchWrite(r) PROVE TypeOK'
  <2>1. req[r].order \in Orders /\ req[r].next \in Statuses \ {"pending_payment"}
    BY <1>9, <1>c DEF PatchWrite, SlotsAreSound, SlotIsSound
  <2>2. orders' \in [Orders -> Row]
    BY <1>9, <1>a, <2>1, SetStatusRow DEF PatchWrite
  <2>3. req' \in [Reqs -> Slot]
    <3>1. [req EXCEPT ![r].pc = "emit"] \in [Reqs -> Slot]
      BY <1>a DEF Slot, Pcs
    <3> QED
      BY <1>9, <3>1, FinishSlot DEF PatchWrite
  <2> QED
    BY <1>9, <1>a, <2>2, <2>3 DEF PatchWrite, TypeOK
<1>10. ASSUME NEW r \in Reqs, PatchEmit(r) PROVE TypeOK'
  <2>1. req[r].next \in EventTypes
    BY <1>10 DEF PatchEmit, SlotsAreSound, SlotIsSound, EventStatuses, EventTypes
  <2>2. outbox' \in Seq(Event)
    BY <1>10, <1>a, <1>b, <1>c, <2>1 DEF PatchEmit
  <2> QED
    BY <1>10, <1>a, <2>2, FinishSlot DEF PatchEmit, TypeOK
<1>11. ASSUME NEW r \in Reqs, WebhookCommit(r) PROVE TypeOK'
  <2>1. req[r].order \in Orders
    BY <1>11, <1>c DEF WebhookCommit
  <2>2. session' \in [Orders -> SessionStates] /\ req' \in [Reqs -> Slot]
    BY <1>11, <1>a, <2>1, FinishSlot DEF WebhookCommit, SessionStates
  <2>3. orders' \in [Orders -> Row]
    BY <1>11, <1>a, <2>1, SetStatusRow DEF WebhookCommit, AwaitsPayment, Statuses
  <2>4. outbox' \in Seq(Event)
    <3> DEFINE o == req[r].order
               e == EventOf(o, "payment.completed", NoAgent)
               f == EventOf(o, "order.placed", NoAgent)
    <3>1. e \in Event /\ f \in Event
      BY <1>b, <2>1 DEF EventTypes
    <3>2. outbox' = Append(outbox, e) \o <<f>> \/ outbox' = Append(outbox, e)
      BY <1>11 DEF WebhookCommit, AwaitsPayment, PlacementEvents
    <3> HIDE DEF e, f
    <3> QED
      BY <1>a, <3>1, <3>2, OneEvent, TwoEvents
  <2> QED
    BY <2>2, <2>3, <2>4 DEF TypeOK
<1>12. ASSUME NEW r \in Reqs, PickupWrite(r) PROVE TypeOK'
  <2>1. orders' \in [Orders -> Row]
    BY <1>12, <1>a, <1>c, SetStatusRow DEF PickupWrite, Statuses
  <2> QED
    BY <1>12, <1>a, <2>1, FinishSlot DEF PickupWrite, TypeOK
<1>13. ASSUME NEW r \in Reqs, DeliverCommit(r) PROVE TypeOK'
  <2>1. orders' \in [Orders -> Row]
    BY <1>13, <1>a, <1>c, SetStatusRow DEF DeliverCommit, Statuses
  <2>2. outbox' \in Seq(Event)
    BY <1>13, <1>a, <1>b, <1>c DEF DeliverCommit, EventTypes
  <2> QED
    BY <1>13, <1>a, <2>1, <2>2, FinishSlot DEF DeliverCommit, TypeOK
<1>14. ASSUME NEW r \in Reqs, Fail(r) PROVE TypeOK'
  BY <1>14, <1>a, FinishSlot DEF Fail, TypeOK
<1> QED
  BY <1>1, <1>2, <1>3, <1>4, <1>5, <1>6, <1>7, <1>8, <1>9, <1>10, <1>11, <1>12,
     <1>13, <1>14 DEF Next

-----------------------------------------------------------------------------

\* placeOrder fills a blank row, and writes no other.
LEMMA PlacedRow ==
    ASSUME orders \in [Orders -> Row], NEW o \in Orders,
           NEW s \in Statuses, NEW m \in Methods,
           orders' = [orders EXCEPT ![o] = NewRow(s, m)]
    PROVE  /\ Exists(o)'
           /\ orders'[o].status = s
           /\ orders'[o].method = m
           /\ orders'[o].agent = NoAgent
           /\ orders'[o].stamps = {}
           /\ \A p \in Orders \ {o} : orders'[p] = orders[p]
  BY DEF Exists, NewRow, Row, Statuses, Absent

\* The events of the steps that insert some.
LEMMA Inserts ==
    ASSUME IInv
    PROVE  /\ Len(outbox) \in Nat
           /\ \A o \in Orders : PlaceCod(o) =>
                /\ Len(outbox') = Len(outbox) + 1
                /\ \A i \in 1..Len(outbox) : outbox'[i] = outbox[i]
                /\ outbox'[Len(outbox) + 1] = EventOf(o, "order.placed", NoAgent)
           /\ \A r \in Reqs : PatchEmit(r) =>
                /\ Len(outbox') = Len(outbox) + 1
                /\ \A i \in 1..Len(outbox) : outbox'[i] = outbox[i]
                /\ outbox'[Len(outbox) + 1]
                      = EventOf(req[r].order, req[r].next, NoAgent)
           /\ \A r \in Reqs : DeliverCommit(r) =>
                /\ Len(outbox') = Len(outbox) + 1
                /\ \A i \in 1..Len(outbox) : outbox'[i] = outbox[i]
                /\ outbox'[Len(outbox) + 1]
                      = EventOf(req[r].order, "order.delivered", req[r].agent)
           /\ \A r \in Reqs : WebhookCommit(r) /\ req[r].from # "pending_payment" =>
                /\ Len(outbox') = Len(outbox) + 1
                /\ \A i \in 1..Len(outbox) : outbox'[i] = outbox[i]
                /\ outbox'[Len(outbox) + 1]
                      = EventOf(req[r].order, "payment.completed", NoAgent)
           /\ \A r \in Reqs : WebhookCommit(r) /\ req[r].from = "pending_payment" =>
                /\ Len(outbox') = Len(outbox) + 2
                /\ \A i \in 1..Len(outbox) : outbox'[i] = outbox[i]
                /\ outbox'[Len(outbox) + 1]
                      = EventOf(req[r].order, "payment.completed", NoAgent)
                /\ outbox'[Len(outbox) + 2]
                      = EventOf(req[r].order, "order.placed", NoAgent)
<1>a. outbox \in Seq(Event) /\ Len(outbox) \in Nat
  BY LenProperties DEF IInv, TypeOK
<1>b. ASSUME NEW o \in Orders, NEW t \in EventTypes, NEW a \in Agents \cup {NoAgent}
      PROVE  EventOf(o, t, a) \in Event
  BY <1>b DEF EventOf, Event
<1>c. ASSUME NEW r \in Reqs, req[r].pc # "idle"
      PROVE  req[r].order \in Orders /\ req[r].agent \in Agents \cup {NoAgent}
  BY <1>c DEF IInv, TypeOK, SlotsAreSound, SlotIsSound, Slot
<1>1. ASSUME NEW o \in Orders, PlaceCod(o)
      PROVE  /\ Len(outbox') = Len(outbox) + 1
             /\ \A i \in 1..Len(outbox) : outbox'[i] = outbox[i]
             /\ outbox'[Len(outbox) + 1] = EventOf(o, "order.placed", NoAgent)
  <2> DEFINE e == EventOf(o, "order.placed", NoAgent)
  <2>1. e \in Event
    BY <1>b DEF EventTypes
  <2>2. outbox' = outbox \o <<e>>
    BY <1>1 DEF PlaceCod, PlacementEvents
  <2> HIDE DEF e
  <2>3. <<e>> \in Seq(Event) /\ Len(<<e>>) = 1 /\ <<e>>[1] = e
    BY <2>1
  <2>4. /\ Len(outbox') = Len(outbox) + 1
        /\ \A i \in 1..Len(outbox) : outbox'[i] = outbox[i]
        /\ outbox'[Len(outbox) + 1] = e
    BY <1>a, <2>2, <2>3, ConcatProperties
  <2> QED
    BY <2>4 DEF e
<1>2. ASSUME NEW r \in Reqs, PatchEmit(r)
      PROVE  /\ Len(outbox') = Len(outbox) + 1
             /\ \A i \in 1..Len(outbox) : outbox'[i] = outbox[i]
             /\ outbox'[Len(outbox) + 1]
                   = EventOf(req[r].order, req[r].next, NoAgent)
  <2>1. req[r].next \in EventTypes
    BY <1>2 DEF IInv, PatchEmit, SlotsAreSound, SlotIsSound, EventStatuses, EventTypes
  <2>2. EventOf(req[r].order, req[r].next, NoAgent) \in Event
    BY <1>2, <1>b, <1>c, <2>1 DEF PatchEmit
  <2> QED
    BY <1>2, <1>a, <2>2, OneEvent DEF PatchEmit
<1>3. ASSUME NEW r \in Reqs, DeliverCommit(r)
      PROVE  /\ Len(outbox') = Len(outbox) + 1
             /\ \A i \in 1..Len(outbox) : outbox'[i] = outbox[i]
             /\ outbox'[Len(outbox) + 1]
                   = EventOf(req[r].order, "order.delivered", req[r].agent)
  <2>1. EventOf(req[r].order, "order.delivered", req[r].agent) \in Event
    BY <1>3, <1>b, <1>c DEF DeliverCommit, EventTypes
  <2> QED
    BY <1>3, <1>a, <2>1, OneEvent DEF DeliverCommit
<1>4. ASSUME NEW r \in Reqs, WebhookCommit(r)
      PROVE  /\ EventOf(req[r].order, "payment.completed", NoAgent) \in Event
             /\ EventOf(req[r].order, "order.placed", NoAgent) \in Event
  BY <1>4, <1>b, <1>c DEF WebhookCommit, EventTypes
<1>5. ASSUME NEW r \in Reqs, WebhookCommit(r), req[r].from # "pending_payment"
      PROVE  /\ Len(outbox') = Len(outbox) + 1
             /\ \A i \in 1..Len(outbox) : outbox'[i] = outbox[i]
             /\ outbox'[Len(outbox) + 1]
                   = EventOf(req[r].order, "payment.completed", NoAgent)
  BY <1>5, <1>a, <1>4, OneEvent DEF WebhookCommit, AwaitsPayment
<1>6. ASSUME NEW r \in Reqs, WebhookCommit(r), req[r].from = "pending_payment"
      PROVE  /\ Len(outbox') = Len(outbox) + 2
             /\ \A i \in 1..Len(outbox) : outbox'[i] = outbox[i]
             /\ outbox'[Len(outbox) + 1]
                   = EventOf(req[r].order, "payment.completed", NoAgent)
             /\ outbox'[Len(outbox) + 2]
                   = EventOf(req[r].order, "order.placed", NoAgent)
  BY <1>6, <1>a, <1>4, TwoEvents DEF WebhookCommit, AwaitsPayment, PlacementEvents
<1> QED
  BY <1>a, <1>1, <1>2, <1>3, <1>5, <1>6

-----------------------------------------------------------------------------

\* No step takes away a row, an agent, a stamp, a capture or an event.
LEMMA StepsAdd == IInv /\ Next => StepsOnlyAdd
<1> SUFFICES ASSUME IInv, Next PROVE StepsOnlyAdd
    OBVIOUS
<1> USE DEF IInv
<1>a. /\ orders \in [Orders -> Row] /\ session \in [Orders -> SessionStates]
      /\ Len(outbox) \in Nat
  BY LenProperties DEF TypeOK
<1>c. ASSUME NEW r \in Reqs, req[r].pc # "idle"
      PROVE  req[r].order \in Orders /\ Exists(req[r].order)
  BY <1>c DEF SlotsAreSound, SlotIsSound
<1> DEFINE RowsStay == \A o \in Orders :
              /\ Exists(o) => /\ Exists(o)'
                              /\ orders'[o].method = orders[o].method
                              /\ orders[o].stamps \subseteq orders'[o].stamps
              /\ orders[o].agent # NoAgent => orders'[o].agent = orders[o].agent
           SessionsStay == \A o \in Orders :
              /\ session[o] = "captured" => session'[o] = "captured"
              /\ session[o] # "none" => session'[o] # "none"
           EventsStay == /\ Len(outbox') \in Nat
                         /\ Len(outbox) <= Len(outbox')
                         /\ \A i \in 1..Len(outbox) : outbox'[i] = outbox[i]
<1>1. orders' = orders => RowsStay
  BY DEF Exists
<1>2. session' = session => SessionsStay
  OBVIOUS
<1>3. outbox' = outbox => EventsStay
  BY <1>a
<1>4. \A o \in Orders, s \in Statuses, m \in Methods :
         ~Exists(o) /\ orders' = [orders EXCEPT ![o] = NewRow(s, m)] => RowsStay
  <2> SUFFICES ASSUME NEW o \in Orders, NEW s \in Statuses, NEW m \in Methods,
                      ~Exists(o), orders' = [orders EXCEPT ![o] = NewRow(s, m)]
               PROVE  RowsStay
      OBVIOUS
  <2>1. \A p \in Orders \ {o} : orders'[p] = orders[p]
    BY <1>a, PlacedRow
  <2>2. orders[o].agent = NoAgent
    BY DEF AbsentIsBlank, NoRow, NewRow
  <2> QED
    BY <2>1, <2>2 DEF Exists
<1>5. \A o \in Orders, s \in Statuses \ {"pending_payment"} :
         SetStatus(o, s) => RowsStay
  <2> SUFFICES ASSUME NEW o \in Orders, NEW s \in Statuses \ {"pending_payment"},
                      SetStatus(o, s)
               PROVE  RowsStay
      OBVIOUS
  <2>1. /\ orders'[o].status = s
        /\ orders'[o].method = orders[o].method
        /\ orders'[o].agent = orders[o].agent
        /\ orders'[o].stamps = orders[o].stamps \cup StampOf(s)
        /\ \A p \in Orders \ {o} : orders'[p] = orders[p]
    BY <1>a, SetStatusRow
  <2>2. s # Absent
    BY DEF Statuses, Absent
  <2> QED
    BY <2>1, <2>2 DEF Exists
<1>6. ASSUME NEW o \in Orders, NEW a \in Agents, Claim(o, a) PROVE RowsStay
  <2>1. /\ orders'[o].status = "assigned"
        /\ orders'[o].method = orders[o].method
        /\ orders'[o].stamps = orders[o].stamps \cup {"assigned"}
        /\ \A p \in Orders \ {o} : orders'[p] = orders[p]
    BY <1>a, <1>6, ClaimRow
  <2>2. orders[o].agent = NoAgent
    BY <1>6 DEF Claim, IsClaimable
  <2> QED
    BY <2>1, <2>2 DEF Exists, Absent
<1>7. RowsStay
  <2>1. ASSUME NEW o \in Orders, PlaceCod(o) PROVE RowsStay
    BY <2>1, <1>4 DEF PlaceCod, Statuses, Methods
  <2>2. ASSUME NEW r \in Reqs, NEW o \in Orders, PlaceOnline(r, o) PROVE RowsStay
    BY <2>2, <1>4 DEF PlaceOnline, Statuses, Methods
  <2>3. ASSUME NEW r \in Reqs, PatchWrite(r) PROVE RowsStay
    BY <2>3, <1>5, <1>c DEF PatchWrite, SlotsAreSound, SlotIsSound
  <2>4. ASSUME NEW r \in Reqs, WebhookCommit(r) PROVE RowsStay
    BY <2>4, <1>1, <1>5, <1>c DEF WebhookCommit, AwaitsPayment, Statuses
  <2>5. ASSUME NEW r \in Reqs, PickupWrite(r) PROVE RowsStay
    BY <2>5, <1>5, <1>c DEF PickupWrite, Statuses
  <2>6. ASSUME NEW r \in Reqs, DeliverCommit(r) PROVE RowsStay
    BY <2>6, <1>5, <1>c DEF DeliverCommit, Statuses
  <2> HIDE DEF RowsStay
  <2> QED
    BY <1>1, <1>6, <2>1, <2>2, <2>3, <2>4, <2>5, <2>6
       DEF Next, PatchRead, WebhookRead, PickupRead, DeliverRead, InitSession,
           PatchEmit, Fail
<1>8. SessionsStay
  <2>1. ASSUME NEW r \in Reqs, InitSession(r) PROVE SessionsStay
    <3>1. session[req[r].order] = "none"
      BY <2>1 DEF InitSession, SlotsAreSound, SlotIsSound
    <3> QED
      BY <2>1, <3>1, <1>a DEF InitSession
  <2>2. ASSUME NEW r \in Reqs, WebhookCommit(r) PROVE SessionsStay
    BY <2>2, <1>a DEF WebhookCommit
  <2> HIDE DEF SessionsStay
  <2> QED
    BY <1>2, <2>1, <2>2
       DEF Next, PlaceCod, PlaceOnline, Claim, PatchRead, WebhookRead, PickupRead,
           DeliverRead, PatchWrite, PatchEmit, PickupWrite, DeliverCommit, Fail
<1>9. EventsStay
  <2>1. ASSUME NEW o \in Orders, PlaceCod(o) PROVE EventsStay
    BY <2>1, Inserts
  <2>2. ASSUME NEW r \in Reqs, PatchEmit(r) PROVE EventsStay
    BY <2>2, Inserts
  <2>3. ASSUME NEW r \in Reqs, DeliverCommit(r) PROVE EventsStay
    BY <2>3, Inserts
  <2>4. ASSUME NEW r \in Reqs, WebhookCommit(r) PROVE EventsStay
    <3>1. CASE req[r].from = "pending_payment"
      BY <2>4, <3>1, Inserts
    <3>2. CASE req[r].from # "pending_payment"
      BY <2>4, <3>2, Inserts
    <3> QED
      BY <3>1, <3>2
  <2> HIDE DEF EventsStay
  <2> QED
    BY <1>3, <2>1, <2>2, <2>3, <2>4
       DEF Next, PlaceOnline, Claim, PatchRead, WebhookRead, PickupRead,
           DeliverRead, InitSession, PatchWrite, PickupWrite, Fail
<1> QED
  BY <1>a, <1>7, <1>8, <1>9 DEF StepsOnlyAdd

-----------------------------------------------------------------------------

\* A released order stays released.
LEMMA ReleasedStays ==
    ASSUME StepsOnlyAdd, NEW o \in Orders, Exists(o), Released(o)
    PROVE  Released(o)'
<1>1. PICK j \in 1..Len(outbox) : /\ outbox[j].order = o
                                  /\ outbox[j].type = "order.placed"
  BY DEF Released
<1>2. j \in 1..Len(outbox') /\ outbox'[j] = outbox[j]
  BY DEF StepsOnlyAdd
<1>3. orders'[o].method = "online" => session'[o] = "captured"
  BY DEF StepsOnlyAdd, Released
<1> QED
  BY <1>1, <1>2, <1>3 DEF Released

\* The claims about one row that the inductive invariant makes.
RowIsSound(o) ==
    /\ ~Exists(o) => orders[o] = NoRow /\ session[o] = "none"
    /\ orders[o].status \in {"assigned", "picked", "delivered"}
          => orders[o].agent # NoAgent
    /\ orders[o].status \notin {Absent, "pending_payment", "cancelled"}
          => Released(o)

\* A row that is not written stays sound.
LEMMA SoundRowStays ==
    ASSUME IInv, StepsOnlyAdd, NEW o \in Orders, orders'[o] = orders[o],
           session'[o] = session[o] \/ Exists(o)
    PROVE  RowIsSound(o)'
<1>1. RowIsSound(o)
  BY DEF IInv, AbsentIsBlank, DeliveryHasAgent, ServedIsReleased, RowIsSound
<1>2. Exists(o) <=> Exists(o)'
  BY DEF Exists
<1>3. Exists(o) /\ Released(o) => Released(o)'
  BY ReleasedStays
<1> QED
  BY <1>1, <1>2, <1>3 DEF RowIsSound, Exists

\* A row whose status a handler overwrites stays sound if the handler's
\* snapshot vouches for the new status.
LEMMA WrittenRowIsSound ==
    ASSUME IInv, StepsOnlyAdd, NEW o \in Orders, Exists(o),
           NEW s \in Statuses \ {"pending_payment"}, SetStatus(o, s),
           s \in {"assigned", "picked", "delivered"} => orders[o].agent # NoAgent,
           s # "cancelled" => Released(o)'
    PROVE  RowIsSound(o)'
<1>1. orders'[o].status = s /\ s # Absent
  BY SetStatusRow DEF IInv, TypeOK, Statuses, Absent
<1>2. orders[o].agent # NoAgent => orders'[o].agent # NoAgent
  BY DEF StepsOnlyAdd
<1> QED
  BY <1>1, <1>2 DEF RowIsSound, Exists

\* Every row is sound after every step.
LEMMA RowsStep == IInv /\ Next => \A o \in Orders : RowIsSound(o)'
<1> SUFFICES ASSUME IInv, Next, NEW p \in Orders PROVE RowIsSound(p)'
    OBVIOUS
<1> USE DEF IInv
<1>a. /\ orders \in [Orders -> Row] /\ session \in [Orders -> SessionStates]
  BY DEF TypeOK
<1>b. StepsOnlyAdd
  BY StepsAdd
<1>c. ASSUME NEW r \in Reqs, req[r].pc # "idle"
      PROVE  req[r].order \in Orders /\ Exists(req[r].order)
  BY <1>c DEF SlotsAreSound, SlotIsSound
<1>d. orders' = orders /\ session' = session => RowIsSound(p)'
  BY <1>b, SoundRowStays
<1>1. ASSUME NEW o \in Orders, PlaceCod(o) PROVE RowIsSound(p)'
  <2>1. /\ Exists(o)' /\ orders'[o].status = "placed" /\ orders'[o].method = "cod"
        /\ \A q \in Orders \ {o} : orders'[q] = orders[q]
    BY <1>1, <1>a, PlacedRow DEF PlaceCod, Statuses, Methods
  <2>2. /\ Len(outbox) + 1 \in 1..Len(outbox')
        /\ outbox'[Len(outbox) + 1] = EventOf(o, "order.placed", NoAgent)
    BY <1>1, Inserts
  <2>3. Released(o)'
    BY <2>1, <2>2 DEF Released, EventOf
  <2>4. CASE p = o
    BY <2>1, <2>3, <2>4 DEF RowIsSound
  <2>5. CASE p # o
    BY <1>1, <1>b, <2>1, <2>5, SoundRowStays DEF PlaceCod
  <2> QED
    BY <2>4, <2>5
<1>2. ASSUME NEW o \in Orders, NEW a \in Agents, Claim(o, a) PROVE RowIsSound(p)'
  <2>1. /\ orders'[o].status = "assigned" /\ orders'[o].agent = a
        /\ \A q \in Orders \ {o} : orders'[q] = orders[q]
    BY <1>2, <1>a, ClaimRow
  <2>2. orders[o].status = "ready"
    BY <1>2 DEF Claim, IsClaimable
  <2>3. Released(o)'
    BY <1>b, <2>2, ReleasedStays DEF ServedIsReleased, Exists, Absent
  <2>4. CASE p = o
    BY <2>1, <2>3, <2>4, ConstantsAssumption DEF RowIsSound, Exists, Absent
  <2>5. CASE p # o
    BY <1>2, <1>b, <2>1, <2>5, SoundRowStays DEF Claim
  <2> QED
    BY <2>4, <2>5
<1>3. ASSUME NEW r \in Reqs, NEW o \in Orders, PlaceOnline(r, o) PROVE RowIsSound(p)'
  <2>1. /\ Exists(o)' /\ orders'[o].status = "pending_payment"
        /\ \A q \in Orders \ {o} : orders'[q] = orders[q]
    BY <1>3, <1>a, PlacedRow DEF PlaceOnline, Statuses, Methods
  <2>4. CASE p = o
    BY <2>1, <2>4 DEF RowIsSound
  <2>5. CASE p # o
    BY <1>3, <1>b, <2>1, <2>5, SoundRowStays DEF PlaceOnline
  <2> QED
    BY <2>4, <2>5
<1>4. ASSUME NEW r \in Reqs, InitSession(r) PROVE RowIsSound(p)'
  <2>1. session'[p] = session[p] \/ Exists(p)
    BY <1>4, <1>a, <1>c DEF InitSession
  <2> QED
    BY <1>4, <1>b, <2>1, SoundRowStays DEF InitSession
<1>5. ASSUME NEW o \in Orders, Exists(o),
             NEW s \in Statuses \ {"pending_payment"}, SetStatus(o, s),
             s \in {"assigned", "picked", "delivered"} => orders[o].agent # NoAgent,
             s # "cancelled" => Released(o)',
             session'[p] = session[p] \/ Exists(p)
      PROVE  RowIsSound(p)'
  <2>1. CASE p = o
    BY <1>5, <1>b, <2>1, WrittenRowIsSound
  <2>2. CASE p # o
    <3>1. orders'[p] = orders[p]
      BY <1>5, <1>a, <2>2, SetStatusRow
    <3> QED
      BY <1>5, <1>b, <3>1, SoundRowStays
  <2> QED
    BY <2>1, <2>2
<1>6. ASSUME NEW r \in Reqs, PatchWrite(r) PROVE RowIsSound(p)'
  <2>1. PICK o \in Orders : o = req[r].order /\ Exists(o)
    BY <1>6, <1>c DEF PatchWrite
  <2>2. PICK s \in Statuses \ {"pending_payment"} :
           /\ SetStatus(o, s)
           /\ s \in {"assigned", "picked", "delivered"} => orders[o].agent # NoAgent
           /\ s # "cancelled" => Released(o)
    BY <1>6, <2>1 DEF PatchWrite, SlotsAreSound, SlotIsSound
  <2>3. s # "cancelled" => Released(o)'
    BY <1>b, <2>1, <2>2, ReleasedStays
  <2> QED
    BY <1>6, <1>5, <2>1, <2>2, <2>3 DEF PatchWrite
<1>7. ASSUME NEW r \in Reqs, PickupWrite(r) \/ DeliverCommit(r) PROVE RowIsSound(p)'
  <2>1. PICK o \in Orders : o = req[r].order /\ Exists(o)
    BY <1>7, <1>c DEF PickupWrite, DeliverCommit
  <2>2. orders[o].agent # NoAgent /\ Released(o)
    BY <1>7, <2>1 DEF PickupWrite, DeliverCommit, SlotsAreSound, SlotIsSound
  <2>3. Released(o)'
    BY <1>b, <2>1, <2>2, ReleasedStays
  <2>4. SetStatus(o, "picked") \/ SetStatus(o, "delivered")
    BY <1>7, <2>1 DEF PickupWrite, DeliverCommit
  <2> QED
    BY <1>7, <1>5, <2>1, <2>2, <2>3, <2>4 DEF PickupWrite, DeliverCommit, Statuses
<1>8. ASSUME NEW r \in Reqs, WebhookCommit(r) PROVE RowIsSound(p)'
  <2>1. PICK o \in Orders : o = req[r].order /\ Exists(o)
    BY <1>8, <1>c DEF WebhookCommit
  <2>2. session'[o] = "captured" /\ (session'[p] = session[p] \/ Exists(p))
    BY <1>8, <1>a, <2>1 DEF WebhookCommit, AwaitsPayment
  <2>3. CASE req[r].from = "pending_payment"
    <3>1. /\ Len(outbox) + 2 \in 1..Len(outbox')
          /\ outbox'[Len(outbox) + 2] = EventOf(o, "order.placed", NoAgent)
      BY <1>8, <2>1, <2>3, Inserts
    <3>2. Released(o)'
      BY <2>2, <3>1 DEF Released, EventOf
    <3> QED
      BY <1>8, <1>5, <2>1, <2>2, <2>3, <3>2 DEF WebhookCommit, AwaitsPayment, Statuses
  <2>4. CASE req[r].from # "pending_payment"
    BY <1>8, <1>b, <2>2, <2>4, SoundRowStays DEF WebhookCommit, AwaitsPayment
  <2> QED
    BY <2>3, <2>4
<1> QED
  BY <1>d, <1>1, <1>2, <1>3, <1>4, <1>6, <1>7, <1>8
     DEF Next, PatchRead, WebhookRead, PickupRead, DeliverRead, PatchEmit, Fail

-----------------------------------------------------------------------------

\* The claims about one event that the inductive invariant makes.
EventIsSound(i) ==
    /\ outbox[i].type = "order.delivered"
          => /\ outbox[i].by # NoAgent
             /\ outbox[i].by = orders[outbox[i].order].agent
    /\ outbox[i].type \in EventStatuses
          => outbox[i].type \in orders[outbox[i].order].stamps
    /\ outbox[i].type \in {"accepted", "rejected", "order.delivered"}
          => \E j \in 1..(i - 1) : /\ outbox[j].order = outbox[i].order
                                   /\ outbox[j].type = "order.placed"

\* An event stays sound.
LEMMA SoundEventStays ==
    ASSUME IInv, StepsOnlyAdd, NEW i \in 1..Len(outbox)
    PROVE  EventIsSound(i)'
<1>1. /\ outbox[i] \in Event
      /\ outbox'[i] = outbox[i]
      /\ \A j \in 1..(i - 1) : outbox'[j] = outbox[j]
  BY ElementOfSeq DEF IInv, TypeOK, StepsOnlyAdd
<1>2. PICK o \in Orders : o = outbox[i].order
  BY <1>1 DEF Event
<1>3. outbox[i].type = "order.delivered"
         => outbox[i].by # NoAgent /\ outbox[i].by = orders'[o].agent
  BY <1>2 DEF IInv, DeliveryEventsNameTheAgent, StepsOnlyAdd
<1>4. outbox[i].type \in EventStatuses => outbox[i].type \in orders'[o].stamps
  <2> SUFFICES ASSUME outbox[i].type \in EventStatuses
               PROVE  outbox[i].type \in orders'[o].stamps
      OBVIOUS
  <2>1. outbox[i].type \in orders[o].stamps
    BY <1>2 DEF IInv, EventHasStamp
  <2>2. Exists(o)
    BY <2>1 DEF IInv, AbsentIsBlank, NoRow, NewRow
  <2> QED
    BY <2>1, <2>2 DEF StepsOnlyAdd
<1>5. outbox[i].type \in {"accepted", "rejected", "order.delivered"}
         => \E j \in 1..(i - 1) : /\ outbox'[j].order = o
                                  /\ outbox'[j].type = "order.placed"
  BY <1>1, <1>2 DEF IInv, PlacedEventLeads
<1> QED
  BY <1>1, <1>2, <1>3, <1>4, <1>5 DEF EventIsSound

\* Every event is sound after every step.
LEMMA EventsStep ==
    IInv /\ Next => \A i \in 1..Len(outbox') : EventIsSound(i)'
<1> SUFFICES ASSUME IInv, Next, NEW i \in 1..Len(outbox') PROVE EventIsSound(i)'
    OBVIOUS
<1> DEFINE n == Len(outbox)
<1>b. StepsOnlyAdd /\ n \in Nat
  BY StepsAdd, Inserts
<1>o. CASE i \in 1..n
  BY <1>o, <1>b, SoundEventStays
<1>n. CASE i \notin 1..n
  <2>a. outbox' # outbox /\ i > n /\ i \in Nat
    BY <1>n, <1>b DEF StepsOnlyAdd
  <2>c. ASSUME NEW o \in Orders, Released(o)
        PROVE  \E j \in 1..n : /\ outbox'[j].order = o
                               /\ outbox'[j].type = "order.placed"
    BY <1>b, <2>c DEF Released, StepsOnlyAdd
  <2>1. ASSUME NEW o \in Orders, PlaceCod(o) PROVE EventIsSound(i)'
    <3>1. i = n + 1 /\ outbox'[i] = EventOf(o, "order.placed", NoAgent)
      BY <1>b, <2>a, <2>1, Inserts
    <3> QED
      BY <3>1 DEF EventIsSound, EventOf, EventStatuses
  <2>2. ASSUME NEW r \in Reqs, PatchEmit(r) PROVE EventIsSound(i)'
    <3>1. PICK o \in Orders : o = req[r].order /\ Exists(o)
      BY <2>2 DEF IInv, PatchEmit, SlotsAreSound, SlotIsSound
    <3>2. PICK t \in EventStatuses \cap orders[o].stamps :
             t = req[r].next /\ (t # "cancelled" => Released(o))
      BY <2>2, <3>1 DEF IInv, PatchEmit, SlotsAreSound, SlotIsSound
    <3>3. i = n + 1 /\ outbox'[i] = EventOf(o, t, NoAgent)
      BY <1>b, <2>a, <2>2, <3>1, <3>2, Inserts
    <3>4. t \in orders'[o].stamps
      BY <1>b, <3>1 DEF StepsOnlyAdd
    <3>5. t # "cancelled" => \E j \in 1..(i - 1) : /\ outbox'[j].order = o
                                                   /\ outbox'[j].type = "order.placed"
      BY <1>b, <2>c, <3>2, <3>3
    <3>6. /\ outbox'[i].order = o /\ outbox'[i].type = t
          /\ t \in {"accepted", "rejected", "cancelled"}
      BY <3>3 DEF EventOf, EventStatuses
    <3> QED
      BY <3>4, <3>5, <3>6 DEF EventIsSound
  <2>3. ASSUME NEW r \in Reqs, DeliverCommit(r) PROVE EventIsSound(i)'
    <3>1. PICK o \in Orders : o = req[r].order /\ Exists(o)
      BY <2>3 DEF IInv, DeliverCommit, SlotsAreSound, SlotIsSound
    <3>2. /\ req[r].agent # NoAgent /\ req[r].agent = orders[o].agent
          /\ Released(o)
      BY <2>3, <3>1 DEF IInv, DeliverCommit, SlotsAreSound, SlotIsSound
    <3>3. i = n + 1 /\ outbox'[i] = EventOf(o, "order.delivered", req[r].agent)
      BY <1>b, <2>a, <2>3, <3>1, Inserts
    <3>4. orders'[o].agent = req[r].agent
      BY <1>b, <3>2 DEF StepsOnlyAdd
    <3>5. \E j \in 1..(i - 1) : /\ outbox'[j].order = o
                                /\ outbox'[j].type = "order.placed"
      BY <1>b, <2>c, <3>2, <3>3
    <3> QED
      BY <3>2, <3>3, <3>4, <3>5 DEF EventIsSound, EventOf, EventStatuses
  <2>4. ASSUME NEW r \in Reqs, WebhookCommit(r) PROVE EventIsSound(i)'
    <3>1. outbox'[i].type \in {"payment.completed", "order.placed"}
      <4>1. CASE req[r].from = "pending_payment"
        <5>1. i = n + 1 \/ i = n + 2
          BY <1>b, <2>a, <2>4, <4>1, Inserts
        <5>2. \/ outbox'[i] = EventOf(req[r].order, "payment.completed", NoAgent)
              \/ outbox'[i] = EventOf(req[r].order, "order.placed", NoAgent)
          BY <2>4, <4>1, <5>1, Inserts
        <5> QED
          BY <5>2 DEF EventOf
      <4>2. CASE req[r].from # "pending_payment"
        <5>1. i = n + 1
          BY <1>b, <2>a, <2>4, <4>2, Inserts
        <5>2. outbox'[i] = EventOf(req[r].order, "payment.completed", NoAgent)
          BY <2>4, <4>2, <5>1, Inserts
        <5> QED
          BY <5>2 DEF EventOf
      <4> QED
        BY <4>1, <4>2
    <3> QED
      BY <3>1 DEF EventIsSound, EventStatuses
  <2> QED
    BY <2>a, <2>1, <2>2, <2>3, <2>4
       DEF Next, PlaceOnline, Claim, PatchRead, WebhookRead, PickupRead,
           DeliverRead, InitSession, PatchWrite, PickupWrite, Fail
<1> QED
  BY <1>o, <1>n

-----------------------------------------------------------------------------

\* What vouches for a slot is stable.
LEMMA SoundSlotStays ==
    ASSUME StepsOnlyAdd, NEW s, SlotIsSound(s),
           s.pc = "init" => session'[s.order] = "none"
    PROVE  SlotIsSound(s)'
<1>1. ASSUME s.order \in Orders, Exists(s.order), Released(s.order)
      PROVE  Released(s.order)'
  BY <1>1, ReleasedStays
<1>2. s.pc # "idle" => s.order \in Orders /\ Exists(s.order)
  BY DEF SlotIsSound
<1>3. s.pc # "idle" =>
         /\ Exists(s.order)'
         /\ orders[s.order].stamps \subseteq orders'[s.order].stamps
         /\ orders[s.order].agent # NoAgent
               => orders'[s.order].agent = orders[s.order].agent
         /\ session[s.order] # "none" => session'[s.order] # "none"
  BY <1>2 DEF StepsOnlyAdd
<1> QED
  BY <1>1, <1>2, <1>3 DEF SlotIsSound

\* While a payment session is being set up nobody else touches it.
LEMMA InitSlotStays ==
    ASSUME IInv, Next, NEW q \in Reqs, req'[q] = req[q], req[q].pc = "init"
    PROVE  session'[req[q].order] = "none"
<1>a. req \in [Reqs -> Slot] /\ session \in [Orders -> SessionStates]
  BY DEF IInv, TypeOK
<1>b. req[q].order \in Orders /\ session[req[q].order] = "none"
  BY DEF IInv, SlotsAreSound, SlotIsSound
<1>1. ASSUME NEW r \in Reqs, InitSession(r)
      PROVE  session'[req[q].order] = "none"
  <2>1. req'[r].pc = "idle"
    BY <1>1, FinishSlot DEF IInv, InitSession
  <2>2. req[r].order # req[q].order
    BY <1>1, <2>1 DEF IInv, InitSession, OneInitEach
  <2> QED
    BY <1>1, <1>a, <1>b, <2>2 DEF InitSession
<1>2. ASSUME NEW r \in Reqs, WebhookCommit(r)
      PROVE  session'[req[q].order] = "none"
  <2>1. session[req[r].order] # "none"
    BY <1>2 DEF IInv, WebhookCommit, SlotsAreSound, SlotIsSound
  <2> QED
    BY <1>2, <1>a, <1>b, <2>1 DEF WebhookCommit
<1>3. session' = session => session'[req[q].order] = "none"
  BY <1>b
<1> QED
  BY <1>1, <1>2, <1>3
     DEF Next, PlaceCod, PlaceOnline, Claim, PatchRead, WebhookRead, PickupRead,
         DeliverRead, PatchWrite, PatchEmit, PickupWrite, DeliverCommit, Fail

\* Every slot is sound after every step.
LEMMA SlotsStep == IInv /\ Next => SlotsAreSound'
<1> SUFFICES ASSUME IInv, Next, NEW q \in Reqs PROVE SlotIsSound(req[q])'
    BY DEF SlotsAreSound
<1>a. req \in [Reqs -> Slot] /\ orders \in [Orders -> Row] /\ SlotIsSound(req[q])
  BY DEF IInv, TypeOK, SlotsAreSound
<1>b. StepsOnlyAdd
  BY StepsAdd
<1> DEFINE s == req[q]
<1>1. CASE req'[q] = req[q]
  <2>1. PICK t : t = req[q]
    OBVIOUS
  <2>2. SlotIsSound(t)'
    BY <1>1, <1>a, <1>b, <2>1, InitSlotStays, SoundSlotStays
  <2> QED
    BY <1>1, <2>1, <2>2 DEF SlotIsSound
<1>2. CASE req'[q].pc = "idle"
  BY <1>2 DEF SlotIsSound
<1>3. ASSUME NEW r \in Reqs, NEW o \in Orders, PlaceOnline(r, o)
      PROVE  SlotIsSound(req[q])'
  <2>1. CASE q = r
    <3>1. req'[q].pc = "init" /\ req'[q].order = o
      BY <1>3, <2>1, BeginSlot DEF PlaceOnline, IInv, Pcs
    <3>2. Exists(o)'
      BY <1>3, <1>a, PlacedRow DEF PlaceOnline, Statuses, Methods
    <3>3. session'[o] = "none"
      BY <1>3 DEF PlaceOnline, IInv, AbsentIsBlank
    <3> QED
      BY <3>1, <3>2, <3>3 DEF SlotIsSound, Exists
  <2>2. CASE q # r
    BY <1>1, <1>3, <2>2, BeginSlot DEF PlaceOnline, IInv, Pcs
  <2> QED
    BY <2>1, <2>2
<1>4. ASSUME NEW r \in Reqs, NEW o \in Orders, PatchRead(r, o)
      PROVE  SlotIsSound(req[q])'
  <2>1. PICK actor \in Callers(o), next \in Statuses, hasReason \in BOOLEAN :
           /\ AssertTransition(orders[o].status, next, actor, hasReason)
           /\ Begin(r, "write", o, next, NoAgent)
    BY <1>4 DEF PatchRead
  <2>2. CASE q = r
    <3>1. req'[q].pc = "write" /\ req'[q].order = o /\ req'[q].next = next
      BY <2>1, <2>2, BeginSlot DEF IInv, Pcs
    <3>2. actor # "system"
      BY <2>1 DEF Callers
    <3>3. PICK t \in Transitions :
             t.from = orders[o].status /\ t.to = next /\ actor \in t.actors
      BY <2>1 DEF AssertTransition
    <3>4. next \notin {"assigned", "pending_payment"}
      BY <3>2, <3>3 DEF Transitions, Rule
    <3>5. next # "cancelled"
             => orders[o].status \notin {Absent, "pending_payment", "cancelled"}
      BY <3>2, <3>3 DEF Transitions, Rule, Absent
    <3>6. next \in {"picked", "delivered"} => orders[o].status \in {"assigned", "picked"}
      BY <3>3 DEF Transitions, Rule
    <3>7. Exists(o) /\ orders' = orders
      BY <1>4 DEF PatchRead
    <3>8. next # "cancelled" => Released(o)'
      BY <1>b, <3>5, <3>7, ReleasedStays DEF IInv, ServedIsReleased
    <3>9. next \in {"picked", "delivered"} => orders'[o].agent # NoAgent
      BY <3>6, <3>7 DEF IInv, DeliveryHasAgent
    <3> QED
      BY <3>1, <3>4, <3>7, <3>8, <3>9 DEF SlotIsSound, Exists, Released
  <2>3. CASE q # r
    BY <1>1, <2>1, <2>3, BeginSlot DEF IInv, Pcs
  <2> QED
    BY <2>2, <2>3
<1>5. ASSUME NEW r \in Reqs, NEW o \in Orders, WebhookRead(r, o)
      PROVE  SlotIsSound(req[q])'
  <2>1. CASE q = r
    <3>1. req'[q].pc = "capture" /\ req'[q].order = o
      BY <1>5, <2>1, BeginSlot DEF WebhookRead, IInv, Pcs, Statuses
    <3> QED
      BY <1>5, <3>1 DEF WebhookRead, SlotIsSound, Exists
  <2>2. CASE q # r
    BY <1>1, <1>5, <2>2, BeginSlot DEF WebhookRead, IInv, Pcs, Statuses
  <2> QED
    BY <2>1, <2>2
<1>6. ASSUME NEW r \in Reqs, NEW o \in Orders, NEW a \in Agents,
             PickupRead(r, o, a) \/ DeliverRead(r, o, a)
      PROVE  SlotIsSound(req[q])'
  <2>1. PICK pc \in {"pickup", "deliver"}, next \in Statuses :
             Begin(r, pc, o, next, a)
    BY <1>6 DEF PickupRead, DeliverRead, Statuses
  <2>2. CASE q = r
    <3>1. req'[q].pc = pc /\ req'[q].order = o /\ req'[q].agent = a
      BY <2>1, <2>2, BeginSlot DEF IInv, Pcs
    <3>2. /\ orders[o].agent = a /\ orders[o].status \in {"assigned", "picked"}
          /\ orders' = orders
      BY <1>6 DEF PickupRead, DeliverRead, Owns
    <3>3. Exists(o) /\ Released(o)
      BY <3>2 DEF IInv, ServedIsReleased, Exists, Absent
    <3>4. Released(o)'
      BY <1>b, <3>3, ReleasedStays
    <3> QED
      BY <3>1, <3>2, <3>3, <3>4, ConstantsAssumption DEF SlotIsSound, Exists, Released
  <2>3. CASE q # r
    BY <1>1, <2>1, <2>3, BeginSlot DEF IInv, Pcs
  <2> QED
    BY <2>2, <2>3
<1>7. ASSUME NEW r \in Reqs, PatchWrite(r) PROVE SlotIsSound(req[q])'
  <2>1. CASE req[r].next \in EventStatuses
    <3>1. CASE q = r
      <4>1. /\ req'[q].pc = "emit" /\ req'[q].order = req[q].order
            /\ req'[q].next = req[q].next
        BY <1>7, <1>a, <2>1, <3>1 DEF PatchWrite, Slot
      <4>2. PICK o \in Orders : o = req[q].order /\ Exists(o)
        BY <1>7, <1>a, <3>1 DEF PatchWrite, SlotIsSound
      <4>3. PICK next \in Statuses \ {"assigned", "pending_payment"} :
               next = req[q].next /\ (next # "cancelled" => Released(o))
        BY <1>7, <1>a, <3>1, <4>2 DEF PatchWrite, SlotIsSound
      <4>4. next # "cancelled" => Released(o)'
        BY <1>b, <4>2, <4>3, ReleasedStays
      <4>5. next \in orders'[o].stamps
        <5>1. SetStatus(o, next)
          BY <1>7, <3>1, <4>2, <4>3 DEF PatchWrite
        <5>2. orders'[o].stamps = orders[o].stamps \cup StampOf(next)
          BY <1>a, <5>1, SetStatusRow
        <5> QED
          BY <2>1, <3>1, <4>3, <5>2 DEF StampOf, EventStatuses
      <4>6. Exists(o)'
        BY <1>b, <4>2 DEF StepsOnlyAdd
      <4> QED
        BY <2>1, <3>1, <4>1, <4>2, <4>3, <4>4, <4>5, <4>6
           DEF SlotIsSound, Exists, Released
    <3>2. CASE q # r
      BY <1>1, <1>7, <1>a, <2>1, <3>2 DEF PatchWrite
    <3> QED
      BY <3>1, <3>2
  <2>2. CASE req[r].next \notin EventStatuses
    BY <1>1, <1>2, <1>7, <2>2, FinishSlot DEF PatchWrite, IInv
  <2> QED
    BY <2>1, <2>2
<1>8. ASSUME NEW r \in Reqs, Finish(r) PROVE SlotIsSound(req[q])'
  BY <1>1, <1>2, <1>8, FinishSlot DEF IInv
<1> QED
  BY <1>1, <1>3, <1>4, <1>5, <1>6, <1>7, <1>8
     DEF Next, PlaceCod, Claim, InitSession, PatchEmit, WebhookCommit,
         PickupWrite, DeliverCommit, Fail

-----------------------------------------------------------------------------

\* A slot becomes "init" in PlaceOnline only.
LEMMA NewInitSlot ==
    ASSUME IInv, Next, NEW q \in Reqs, req'[q].pc = "init"
    PROVE  \/ req'[q] = req[q]
           \/ /\ \E o \in Orders : PlaceOnline(q, o) /\ req'[q].order = o
              /\ \A p \in Reqs \ {q} : req'[p] = req[p]
<1>a. TypeOK
  BY DEF IInv
<1>1. ASSUME NEW r \in Reqs, NEW o \in Orders, PlaceOnline(r, o), r # q
      PROVE  req'[q] = req[q]
  BY <1>1, <1>a, BeginSlot DEF PlaceOnline, Pcs
<1>2. ASSUME NEW o \in Orders, PlaceOnline(q, o)
      PROVE  req'[q].order = o /\ \A p \in Reqs \ {q} : req'[p] = req[p]
  BY <1>2, <1>a, BeginSlot DEF PlaceOnline, Pcs
<1>3. ASSUME NEW r \in Reqs, NEW o \in Orders, NEW pc \in {"write", "capture", "pickup", "deliver"},
             NEW next \in Statuses, NEW a \in Agents \cup {NoAgent},
             Begin(r, pc, o, next, a)
      PROVE  req'[q] = req[q]
  BY <1>3, <1>a, BeginSlot DEF Pcs
<1>4. ASSUME NEW r \in Reqs, Finish(r)
      PROVE  req'[q] = req[q]
  BY <1>4, <1>a, FinishSlot
<1>5. ASSUME NEW r \in Reqs, PatchWrite(r)
      PROVE  req'[q] = req[q]
  BY <1>4, <1>5, <1>a DEF PatchWrite, TypeOK, Slot
<1>6. ASSUME NEW r \in Reqs, NEW o \in Orders, PatchRead(r, o)
      PROVE  req'[q] = req[q]
  BY <1>3, <1>6 DEF PatchRead
<1>7. ASSUME NEW r \in Reqs, NEW o \in Orders, WebhookRead(r, o)
      PROVE  req'[q] = req[q]
  BY <1>3, <1>7 DEF WebhookRead, Statuses
<1>8. ASSUME NEW r \in Reqs, NEW o \in Orders, NEW a \in Agents,
             PickupRead(r, o, a) \/ DeliverRead(r, o, a)
      PROVE  req'[q] = req[q]
  BY <1>3, <1>8 DEF PickupRead, DeliverRead, Statuses
<1> QED
  BY <1>1, <1>2, <1>4, <1>5, <1>6, <1>7, <1>8
     DEF Next, PlaceCod, Claim, InitSession, PatchEmit, WebhookCommit,
         PickupWrite, DeliverCommit, Fail

\* Two handlers never set up sessions for the same order.
LEMMA OneInitStep == IInv /\ Next => OneInitEach'
<1> SUFFICES ASSUME IInv, Next, NEW p \in Reqs, NEW q \in Reqs,
                    req'[p].pc = "init", req'[q].pc = "init",
                    req'[p].order = req'[q].order
             PROVE  p = q
    BY DEF OneInitEach
<1>1. ASSUME NEW a \in Reqs, NEW b \in Reqs, NEW o \in Orders, PlaceOnline(a, o),
             req'[b] = req[b], req[b].pc = "init"
      PROVE  req[b].order # o
  BY <1>1 DEF IInv, PlaceOnline, SlotsAreSound, SlotIsSound
<1>2. CASE req'[p] = req[p] /\ req'[q] = req[q]
  BY <1>2 DEF IInv, OneInitEach
<1>3. CASE req'[p] # req[p]
  BY <1>1, <1>3, NewInitSlot
<1>4. CASE req'[q] # req[q]
  BY <1>1, <1>4, NewInitSlot
<1> QED
  BY <1>2, <1>3, <1>4

\* IInv is inductive.
LEMMA StepIInv == IInv /\ [Next]_vars => IInv'
<1> SUFFICES ASSUME IInv, [Next]_vars PROVE IInv'
    OBVIOUS
<1>1. CASE Next
  <2>1. TypeOK' /\ SlotsAreSound' /\ OneInitEach'
    BY <1>1, TypeStep, SlotsStep, OneInitStep
  <2>2. \A o \in Orders : RowIsSound(o)'
    BY <1>1, RowsStep
  <2>3. AbsentIsBlank' /\ DeliveryHasAgent' /\ ServedIsReleased'
    BY <2>2 DEF RowIsSound, AbsentIsBlank, DeliveryHasAgent, ServedIsReleased
  <2>4. \A i \in 1..Len(outbox') : EventIsSound(i)'
    BY <1>1, EventsStep
  <2>5. DeliveryEventsNameTheAgent' /\ EventHasStamp' /\ PlacedEventLeads'
    BY <2>4 DEF EventIsSound, DeliveryEventsNameTheAgent, EventHasStamp,
                PlacedEventLeads
  <2> QED
    BY <2>1, <2>3, <2>5 DEF IInv
<1>2. CASE UNCHANGED vars
  BY <1>2 DEF vars, IInv, TypeOK, AbsentIsBlank, DeliveryHasAgent, ServedIsReleased,
     SlotsAreSound, SlotIsSound, OneInitEach, DeliveryEventsNameTheAgent,
     EventHasStamp, PlacedEventLeads, Released, Exists
<1> QED
  BY <1>1, <1>2

\* Every reachable state satisfies the inductive invariant.
LEMMA Invariance == Spec => []IInv
<1> QED
  BY InitIInv, StepIInv, PTL DEF Spec

-----------------------------------------------------------------------------
(* One handler of an order at a time: the promise of StatusMachine *)

\* Without races what a slot has read of the status is still right, or the
\* claim that came between allows the same move.
SlotIsFresh(s) ==
    /\ s.pc = "write" => /\ s.next \in Statuses \ {"assigned"}
                         /\ Legal(orders[s.order].status, s.next)
    /\ s.pc = "capture" /\ s.from = "pending_payment"
          => orders[s.order].status = "pending_payment"
    /\ s.pc = "pickup" => orders[s.order].status = "assigned"
    /\ s.pc = "deliver" => orders[s.order].status = "picked"

\* An agent is recorded on an order from its claim on, and no move of the
\* matrix leads back before it.
RecordedIsUnderWay ==
    \A o \in Orders : orders[o].agent # NoAgent =>
        orders[o].status \in {"assigned", "picked", "delivered", "cancelled"}

\* What behaviours without races keep in addition to IInv.
FreshInv == RecordedIsUnderWay /\ \A r \in Reqs : SlotIsFresh(req[r])

\* What the matrix says of the moves the handlers make.
LEMMA MatrixMoves ==
    /\ \A from \in {"assigned", "picked", "delivered", "cancelled"} : \A to :
           Legal(from, to) => to \in {"picked", "delivered", "cancelled"}
    /\ \A to : Legal("ready", to) /\ to # "assigned" => Legal("assigned", to)
    /\ Legal("ready", "assigned") /\ Legal("assigned", "picked")
    /\ Legal("picked", "delivered") /\ Legal("pending_payment", "placed")
  BY DEF Legal, Transitions, Rule

\* What a handler that has read a row is going to write follows the matrix from
\* what it read.
SlotFollowsMatrix(s) ==
    /\ s.pc = "write" => Legal(s.from, s.next)
    /\ s.pc = "capture" => s.next = "placed"
    /\ s.pc = "pickup" => s.from = "assigned" /\ s.next = "picked"
    /\ s.pc = "deliver" => s.from = "picked" /\ s.next = "delivered"

SlotsFollowMatrix == \A r \in Reqs : SlotFollowsMatrix(req[r])

LEMMA StepFollowsMatrix ==
    IInv /\ SlotsFollowMatrix /\ [Next]_vars => SlotsFollowMatrix'
<1> SUFFICES ASSUME IInv, SlotsFollowMatrix, [Next]_vars, NEW r \in Reqs
             PROVE  SlotFollowsMatrix(req'[r])
  BY DEF SlotsFollowMatrix, SlotFollowsMatrix
<1>1. TypeOK /\ SlotFollowsMatrix(req[r])
  BY DEF IInv, SlotsFollowMatrix
<1>2. CASE req'[r] = req[r]
  BY <1>1, <1>2
<1>3. ASSUME NEW o \in Orders, PlaceOnline(r, o)
      PROVE  SlotFollowsMatrix(req'[r])
  <2>1. req'[r].pc = "init"
    BY <1>1, <1>3, BeginSlot DEF PlaceOnline, Pcs
  <2> QED
    BY <2>1 DEF SlotFollowsMatrix
<1>4. ASSUME NEW o \in Orders, PatchRead(r, o)
      PROVE  SlotFollowsMatrix(req'[r])
  <2>1. PICK actor \in Callers(o), next \in Statuses, hasReason \in BOOLEAN :
            /\ AssertTransition(orders[o].status, next, actor, hasReason)
            /\ Begin(r, "write", o, next, NoAgent)
    BY <1>4 DEF PatchRead
  <2>2. Legal(orders[o].status, next)
    BY <2>1 DEF AssertTransition, Legal
  <2>3. /\ req'[r].pc = "write" /\ req'[r].next = next
        /\ req'[r].from = orders[o].status
    BY <1>1, <2>1, BeginSlot DEF Pcs
  <2> QED
    BY <2>2, <2>3 DEF SlotFollowsMatrix
<1>5. ASSUME NEW o \in Orders, WebhookRead(r, o)
      PROVE  SlotFollowsMatrix(req'[r])
  <2>1. req'[r].pc = "capture" /\ req'[r].next = "placed"
    BY <1>1, <1>5, BeginSlot DEF WebhookRead, Pcs, Statuses
  <2> QED
    BY <2>1 DEF SlotFollowsMatrix
<1>6. ASSUME NEW o \in Orders, NEW a \in Agents, PickupRead(r, o, a)
      PROVE  SlotFollowsMatrix(req'[r])
  <2>1. /\ req'[r].pc = "pickup" /\ req'[r].next = "picked"
        /\ req'[r].from = "assigned"
    BY <1>1, <1>6, BeginSlot DEF PickupRead, Pcs, Statuses
  <2> QED
    BY <2>1 DEF SlotFollowsMatrix
<1>7. ASSUME NEW o \in Orders, NEW a \in Agents, DeliverRead(r, o, a)
      PROVE  SlotFollowsMatrix(req'[r])
  <2>1. /\ req'[r].pc = "deliver" /\ req'[r].next = "delivered"
        /\ req'[r].from = "picked"
    BY <1>1, <1>7, BeginSlot DEF DeliverRead, Pcs, Statuses
  <2> QED
    BY <2>1 DEF SlotFollowsMatrix
<1>8. ASSUME \/ InitSession(r) \/ PatchWrite(r) \/ PatchEmit(r) \/ WebhookCommit(r)
             \/ PickupWrite(r) \/ DeliverCommit(r) \/ Fail(r)
      PROVE  SlotFollowsMatrix(req'[r])
  <2>1. CASE Finish(r)
    BY <1>1, <2>1, FinishSlot DEF SlotFollowsMatrix
  <2>2. CASE PatchWrite(r) /\ ~Finish(r)
    <3>1. req'[r].pc = "emit"
      BY <1>1, <2>2 DEF PatchWrite, TypeOK, Slot
    <3> QED
      BY <3>1 DEF SlotFollowsMatrix
  <2> QED
    BY <1>8, <2>1, <2>2 DEF InitSession, PatchEmit, WebhookCommit, PickupWrite,
       DeliverCommit, Fail
<1>9. CASE /\ ~ \E o \in Orders : PlaceOnline(r, o) \/ PatchRead(r, o) \/ WebhookRead(r, o)
           /\ ~ \E o \in Orders, a \in Agents : PickupRead(r, o, a) \/ DeliverRead(r, o, a)
           /\ ~ (\/ InitSession(r) \/ PatchWrite(r) \/ PatchEmit(r) \/ WebhookCommit(r)
                 \/ PickupWrite(r) \/ DeliverCommit(r) \/ Fail(r))
  <2>1. req'[r] = req[r]
    <3>1. CASE UNCHANGED vars \/ (\E o \in Orders : PlaceCod(o))
               \/ (\E o \in Orders, a \in Agents : Claim(o, a))
      BY <3>1 DEF vars, PlaceCod, Claim
    <3>2. ASSUME NEW q \in Reqs \ {r},
                 \/ \E o \in Orders :
                       \/ PlaceOnline(q, o) \/ PatchRead(q, o) \/ WebhookRead(q, o)
                       \/ \E a \in Agents : PickupRead(q, o, a) \/ DeliverRead(q, o, a)
                 \/ InitSession(q) \/ PatchWrite(q) \/ PatchEmit(q) \/ WebhookCommit(q)
                 \/ PickupWrite(q) \/ DeliverCommit(q) \/ Fail(q)
          PROVE  req'[r] = req[r]
      BY <1>1, <3>2 DEF TypeOK, PlaceOnline, PatchRead, WebhookRead, PickupRead,
         DeliverRead, InitSession, PatchWrite, PatchEmit, WebhookCommit, PickupWrite,
         DeliverCommit, Fail, Begin, Finish
    <3> QED
      BY <1>9, <3>1, <3>2 DEF Next
  <2> QED
    BY <1>2, <2>1
<1> QED
  BY <1>3, <1>4, <1>5, <1>6, <1>7, <1>8, <1>9

\* A final status is left only by a write that its handler had decided on before.
LEMMA StepLeavesFinal ==
    ASSUME IInv, SlotsFollowMatrix, [Next]_vars, NEW o \in Orders,
           orders[o].status \in Final, orders'[o].status # orders[o].status
    PROVE  \E r \in Reqs : /\ req[r].pc \in Deciding
                           /\ req[r].order = o
                           /\ Legal(req[r].from, req[r].next)
                           /\ orders'[o].status = req[r].next
<1>1. orders \in [Orders -> Row] /\ Exists(o) /\ orders[o].status # "ready"
  BY DEF IInv, TypeOK, Exists, Final, Absent
<1>2. ASSUME NEW r \in Reqs, NEW next \in Statuses \ {"pending_payment"},
             req[r].order \in Orders, SetStatus(req[r].order, next)
      PROVE  req[r].order = o /\ orders'[o].status = next
  BY <1>1, <1>2, SetStatusRow
<1>3. ASSUME NEW r \in Reqs,
             PatchWrite(r) \/ PickupWrite(r) \/ DeliverCommit(r) \/ WebhookCommit(r)
      PROVE  /\ req[r].pc \in Deciding
             /\ req[r].order = o
             /\ Legal(req[r].from, req[r].next)
             /\ orders'[o].status = req[r].next
  <2>1. req[r].pc \in Deciding
    BY <1>3 DEF PatchWrite, PickupWrite, DeliverCommit, WebhookCommit, Deciding
  <2>2. req[r].order \in Orders /\ SlotIsSound(req[r]) /\ SlotFollowsMatrix(req[r])
    BY <2>1 DEF IInv, SlotsAreSound, SlotIsSound, SlotsFollowMatrix, Deciding
  <2>3. CASE PatchWrite(r)
    BY <1>2, <2>1, <2>2, <2>3 DEF PatchWrite, SlotIsSound, SlotFollowsMatrix
  <2>4. CASE PickupWrite(r) \/ DeliverCommit(r)
    BY <1>2, <2>1, <2>2, <2>4, MatrixMoves
       DEF PickupWrite, DeliverCommit, SlotFollowsMatrix, Statuses
  <2>5. CASE WebhookCommit(r)
    <3>1. req[r].from = "pending_payment" /\ SetStatus(req[r].order, "placed")
      BY <2>5 DEF WebhookCommit, AwaitsPayment
    <3> QED
      BY <1>2, <2>1, <2>2, <2>5, <3>1, MatrixMoves
         DEF WebhookCommit, AwaitsPayment, SlotFollowsMatrix, Statuses
  <2> QED
    BY <1>3, <2>3, <2>4, <2>5
<1>4. ASSUME NEW p \in Orders,
             PlaceCod(p) \/ (\E r \in Reqs : PlaceOnline(r, p))
      PROVE  FALSE
  BY <1>1, <1>4 DEF PlaceCod, PlaceOnline
<1>5. ASSUME NEW p \in Orders, NEW a \in Agents, Claim(p, a)
      PROVE  FALSE
  BY <1>1, <1>5 DEF Claim, IsClaimable
<1> QED
  BY <1>3, <1>4, <1>5
     DEF Next, vars, PatchRead, WebhookRead, PickupRead, DeliverRead, InitSession,
         PatchEmit, Fail

\* What a step does to the rows: it places an order, claims one, makes a move
\* of the matrix that is not a claim, or none of it.
Places(o) ==
    /\ ~Exists(o)
    /\ \E status \in {"placed", "pending_payment"}, method \in Methods :
           orders' = [orders EXCEPT ![o] = NewRow(status, method)]
Moves(o) ==
    /\ Exists(o)
    /\ \E next \in Statuses \ {"assigned", "pending_payment"} :
           Legal(orders[o].status, next) /\ SetStatus(o, next)

LEMMA WritesAreMoves ==
    ASSUME IInv, FreshInv, NEW r \in Reqs,
           PatchWrite(r) \/ PickupWrite(r) \/ DeliverCommit(r) \/ WebhookCommit(r)
    PROVE  /\ req[r].order \in Orders
           /\ Moves(req[r].order) \/ UNCHANGED orders
<1>1. req[r].pc # "idle"
  BY DEF PatchWrite, PickupWrite, DeliverCommit, WebhookCommit
<1>2. /\ req[r].order \in Orders /\ Exists(req[r].order)
      /\ SlotIsFresh(req[r])
      /\ req[r].pc = "write" => req[r].next # "pending_payment"
  BY <1>1 DEF IInv, SlotsAreSound, SlotIsSound, FreshInv
<1>3. CASE PatchWrite(r)
  BY <1>2, <1>3 DEF PatchWrite, SlotIsFresh, Moves
<1>4. CASE PickupWrite(r)
  BY <1>2, <1>4, MatrixMoves DEF PickupWrite, SlotIsFresh, Moves, Statuses
<1>5. CASE DeliverCommit(r)
  BY <1>2, <1>5, MatrixMoves DEF DeliverCommit, SlotIsFresh, Moves, Statuses
<1>6. CASE WebhookCommit(r)
  BY <1>2, <1>6, MatrixMoves DEF WebhookCommit, AwaitsPayment, SlotIsFresh, Moves, Statuses
<1> QED
  BY <1>2, <1>3, <1>4, <1>5, <1>6

LEMMA RowSteps ==
    ASSUME IInv, FreshInv, Next
    PROVE  \/ \E o \in Orders : Places(o) \/ Moves(o)
           \/ \E o \in Orders, a \in Agents : Claim(o, a)
           \/ UNCHANGED orders
<1>1. CASE \E o \in Orders : PlaceCod(o)
  BY <1>1 DEF PlaceCod, Places, Methods
<1>2. CASE \E r \in Reqs, o \in Orders : PlaceOnline(r, o)
  BY <1>2 DEF PlaceOnline, Places, Methods
<1> QED
  BY <1>1, <1>2, WritesAreMoves
     DEF Next, PatchRead, WebhookRead, PickupRead, DeliverRead, InitSession,
         PatchEmit, Fail

\* An agent stays with an order that is under way.
LEMMA RecordedStep ==
    ASSUME IInv, FreshInv, Next
    PROVE  RecordedIsUnderWay'
<1> SUFFICES ASSUME NEW p \in Orders, orders'[p].agent # NoAgent
             PROVE  orders'[p].status \in {"assigned", "picked", "delivered", "cancelled"}
  BY DEF RecordedIsUnderWay
<1>1. orders \in [Orders -> Row]
  BY DEF IInv, TypeOK
<1>2. CASE UNCHANGED orders
  BY <1>2 DEF FreshInv, RecordedIsUnderWay
<1>3. ASSUME NEW o \in Orders, Places(o)
      PROVE  orders'[p].status \in {"assigned", "picked", "delivered", "cancelled"}
  BY <1>1, <1>3 DEF Places, NewRow, FreshInv, RecordedIsUnderWay
<1>4. ASSUME NEW o \in Orders, NEW a \in Agents, Claim(o, a)
      PROVE  orders'[p].status \in {"assigned", "picked", "delivered", "cancelled"}
  BY <1>1, <1>4, ClaimRow DEF FreshInv, RecordedIsUnderWay
<1>5. ASSUME NEW o \in Orders, Moves(o)
      PROVE  orders'[p].status \in {"assigned", "picked", "delivered", "cancelled"}
  <2>1. PICK next \in Statuses \ {"assigned", "pending_payment"} :
            Legal(orders[o].status, next) /\ SetStatus(o, next)
    BY <1>5 DEF Moves
  <2>2. /\ orders'[o].status = next /\ orders'[o].agent = orders[o].agent
        /\ \A q \in Orders \ {o} : orders'[q] = orders[q]
    BY <1>1, <2>1, SetStatusRow
  <2> QED
    BY <2>1, <2>2, MatrixMoves DEF FreshInv, RecordedIsUnderWay
<1> QED
  BY <1>2, <1>3, <1>4, <1>5, RowSteps

\* A slot that was fresh stays so while the rows only see claims, placements
\* and, if it is about to write, moves of other orders.
LEMMA FreshSlotStays ==
    ASSUME IInv, FreshInv, NEW r \in Reqs, req'[r] = req[r],
           \/ UNCHANGED orders
           \/ \E o \in Orders : Places(o)
           \/ \E o \in Orders, a \in Agents : Claim(o, a)
           \/ \E o \in Orders : Moves(o) /\ (req[r].pc \in Deciding => req[r].order # o)
    PROVE  SlotIsFresh(req[r])'
<1>1. orders \in [Orders -> Row]
  BY DEF IInv, TypeOK
<1>2. PICK s \in Slot : s = req[r] /\ s = req'[r]
  BY DEF IInv, TypeOK
<1>3. SlotIsFresh(s) /\ SlotIsSound(s)
  BY <1>2 DEF FreshInv, IInv, SlotsAreSound
<1> SUFFICES SlotIsFresh(s)'
  BY <1>2 DEF SlotIsFresh
<1>4. CASE s.pc \notin Deciding
  BY <1>4 DEF SlotIsFresh, Deciding
<1>5. CASE s.pc \in Deciding
  <2>1. s.order \in Orders /\ Exists(s.order)
    BY <1>3, <1>5 DEF SlotIsSound, Deciding
  <2>2. ASSUME NEW o \in Orders, Places(o)
        PROVE  SlotIsFresh(s)'
    <3>1. orders'[s.order] = orders[s.order]
      BY <1>1, <2>1, <2>2 DEF Places
    <3> QED
      BY <1>3, <3>1 DEF SlotIsFresh
  <2>3. ASSUME NEW o \in Orders, NEW a \in Agents, Claim(o, a)
        PROVE  SlotIsFresh(s)'
    <3>1. /\ orders[o].status = "ready" /\ orders'[o].status = "assigned"
          /\ \A q \in Orders \ {o} : orders'[q] = orders[q]
      BY <1>1, <2>3, ClaimRow DEF Claim, IsClaimable
    <3>2. CASE s.order # o
      BY <1>3, <2>1, <3>1, <3>2 DEF SlotIsFresh
    <3>3. CASE s.order = o
      BY <1>3, <3>1, <3>3, MatrixMoves DEF SlotIsFresh
    <3> QED
      BY <3>2, <3>3
  <2>4. ASSUME NEW o \in Orders, Moves(o), s.order # o
        PROVE  SlotIsFresh(s)'
    <3>1. orders'[s.order] = orders[s.order]
      BY <1>1, <2>1, <2>4, SetStatusRow DEF Moves
    <3> QED
      BY <1>3, <3>1 DEF SlotIsFresh
  <2>5. CASE UNCHANGED orders
    BY <1>3, <2>5 DEF SlotIsFresh
  <2>6. ASSUME NEW o \in Orders, Moves(o), req[r].pc \in Deciding => req[r].order # o
        PROVE  SlotIsFresh(s)'
    <3>1. s.order # o
      BY <1>2, <1>5, <2>6
    <3> QED
      BY <2>4, <2>6, <3>1
  <2> QED
    BY <2>2, <2>3, <2>5, <2>6
<1> QED
  BY <1>4, <1>5

\* A slot that starts is fresh.
LEMMA NewSlotIsFresh ==
    ASSUME IInv, NEW r \in Reqs, NEW o \in Orders,
           \/ PlaceOnline(r, o) \/ PatchRead(r, o) \/ WebhookRead(r, o)
           \/ \E a \in Agents : PickupRead(r, o, a) \/ DeliverRead(r, o, a)
    PROVE  SlotIsFresh(req[r])'
<1>1. TypeOK
  BY DEF IInv
<1>2. CASE PlaceOnline(r, o)
  <2>1. req'[r].pc = "init"
    BY <1>1, <1>2, BeginSlot DEF PlaceOnline, Pcs
  <2> QED
    BY <2>1 DEF SlotIsFresh
<1>3. CASE PatchRead(r, o)
  <2>1. PICK actor \in Callers(o), next \in Statuses, hasReason \in BOOLEAN :
            /\ AssertTransition(orders[o].status, next, actor, hasReason)
            /\ Begin(r, "write", o, next, NoAgent)
    BY <1>3 DEF PatchRead
  <2>2. Legal(orders[o].status, next)
    BY <2>1 DEF AssertTransition, Legal
  <2>3. actor # "system"
    BY <2>1 DEF Callers
  <2>4. next # "assigned"
    BY <2>1, <2>3 DEF AssertTransition, Transitions, Rule
  <2>5. req'[r].pc = "write" /\ req'[r].order = o /\ req'[r].next = next
    BY <1>1, <2>1, BeginSlot DEF Pcs
  <2>6. orders' = orders
    BY <1>3 DEF PatchRead
  <2> QED
    BY <2>2, <2>4, <2>5, <2>6 DEF SlotIsFresh
<1>4. CASE WebhookRead(r, o)
  <2>1. /\ req'[r].pc = "capture" /\ req'[r].order = o
        /\ req'[r].from = orders[o].status
    BY <1>1, <1>4, BeginSlot DEF WebhookRead, Pcs, Statuses
  <2> QED
    BY <1>4, <2>1 DEF WebhookRead, SlotIsFresh
<1>5. ASSUME NEW a \in Agents, PickupRead(r, o, a)
      PROVE  SlotIsFresh(req[r])'
  <2>1. req'[r].pc = "pickup" /\ req'[r].order = o
    BY <1>1, <1>5, BeginSlot DEF PickupRead, Pcs, Statuses
  <2> QED
    BY <1>5, <2>1 DEF PickupRead, SlotIsFresh
<1>6. ASSUME NEW a \in Agents, DeliverRead(r, o, a)
      PROVE  SlotIsFresh(req[r])'
  <2>1. req'[r].pc = "deliver" /\ req'[r].order = o
    BY <1>1, <1>6, BeginSlot DEF DeliverRead, Pcs, Statuses
  <2> QED
    BY <1>6, <2>1 DEF DeliverRead, SlotIsFresh
<1> QED
  BY <1>2, <1>3, <1>4, <1>5, <1>6

\* After its last write of the row a slot expects nothing of it.
LEMMA LateSlotIsFresh ==
    ASSUME IInv, NEW r \in Reqs,
           \/ InitSession(r) \/ PatchWrite(r) \/ PatchEmit(r) \/ WebhookCommit(r)
           \/ PickupWrite(r) \/ DeliverCommit(r) \/ Fail(r)
    PROVE  SlotIsFresh(req[r])'
<1>1. TypeOK
  BY DEF IInv
<1>2. req'[r].pc \in {"idle", "emit"}
  <2>1. CASE Finish(r)
    BY <1>1, <2>1, FinishSlot
  <2>2. CASE PatchWrite(r) /\ ~Finish(r)
    BY <1>1, <2>2 DEF PatchWrite, TypeOK, Slot
  <2> QED
    BY <2>1, <2>2 DEF InitSession, PatchEmit, WebhookCommit, PickupWrite,
       DeliverCommit, Fail
<1> QED
  BY <1>2 DEF SlotIsFresh

\* What the step of another slot does to the rows.
LEMMA OtherSlotsSteps ==
    ASSUME IInv, FreshInv, NoRaces, NEW r \in Reqs, NEW q \in Reqs, q # r,
           \/ \E o \in Orders :
                  \/ PlaceOnline(q, o) \/ PatchRead(q, o) \/ WebhookRead(q, o)
                  \/ \E a \in Agents : PickupRead(q, o, a) \/ DeliverRead(q, o, a)
           \/ InitSession(q) \/ PatchWrite(q) \/ PatchEmit(q) \/ WebhookCommit(q)
           \/ PickupWrite(q) \/ DeliverCommit(q) \/ Fail(q)
    PROVE  SlotIsFresh(req[r])'
<1>1. req'[r] = req[r]
  BY DEF IInv, TypeOK, PlaceOnline, PatchRead, WebhookRead, PickupRead, DeliverRead,
     InitSession, PatchWrite, PatchEmit, WebhookCommit, PickupWrite, DeliverCommit, Fail,
     Begin, Finish
<1>2. req[q].pc \in Deciding /\ req[r].pc \in Deciding => req[q].order # req[r].order
  BY DEF NoRaces
<1>3. CASE \E o \in Orders : PlaceOnline(q, o)
  BY <1>1, <1>3, FreshSlotStays DEF PlaceOnline, Places, Methods
<1>4. CASE PatchWrite(q) \/ PickupWrite(q) \/ DeliverCommit(q) \/ WebhookCommit(q)
  <2>1. req[q].pc \in Deciding
    BY <1>4 DEF PatchWrite, PickupWrite, DeliverCommit, WebhookCommit, Deciding
  <2>2. req[q].order \in Orders /\ (Moves(req[q].order) \/ UNCHANGED orders)
    BY <1>4, WritesAreMoves
  <2> QED
    BY <1>1, <1>2, <2>1, <2>2, FreshSlotStays
<1>5. CASE UNCHANGED orders
  BY <1>1, <1>5, FreshSlotStays
<1> QED
  BY <1>3, <1>4, <1>5 DEF PatchRead, WebhookRead, PickupRead, DeliverRead, InitSession,
     PatchEmit, Fail

LEMMA StepFreshInv == IInv /\ FreshInv /\ NoRaces /\ [Next]_vars => FreshInv'
<1> SUFFICES ASSUME IInv, FreshInv, NoRaces, [Next]_vars
             PROVE  FreshInv'
  OBVIOUS
<1>1. CASE UNCHANGED vars
  BY <1>1 DEF vars, FreshInv, RecordedIsUnderWay, SlotIsFresh
<1>2. CASE Next
  <2>1. RecordedIsUnderWay'
    BY <1>2, RecordedStep
  <2>2. ASSUME NEW r \in Reqs
        PROVE  SlotIsFresh(req[r])'
    <3>2. ASSUME NEW o \in Orders, PlaceCod(o)
          PROVE  SlotIsFresh(req[r])'
      BY <3>2, FreshSlotStays DEF PlaceCod, Places, Methods
    <3>3. ASSUME NEW o \in Orders, NEW a \in Agents, Claim(o, a)
          PROVE  SlotIsFresh(req[r])'
      BY <3>3, FreshSlotStays DEF Claim
    <3>4. ASSUME NEW q \in Reqs, NEW o \in Orders,
                 \/ PlaceOnline(q, o) \/ PatchRead(q, o) \/ WebhookRead(q, o)
                 \/ \E a \in Agents : PickupRead(q, o, a) \/ DeliverRead(q, o, a)
          PROVE  SlotIsFresh(req[r])'
      <4>1. CASE q = r
        BY <3>4, <4>1, NewSlotIsFresh
      <4>2. CASE q # r
        BY <3>4, <4>2, OtherSlotsSteps
      <4> QED
        BY <4>1, <4>2
    <3>5. ASSUME NEW q \in Reqs,
                 \/ InitSession(q) \/ PatchWrite(q) \/ PatchEmit(q) \/ WebhookCommit(q)
                 \/ PickupWrite(q) \/ DeliverCommit(q) \/ Fail(q)
          PROVE  SlotIsFresh(req[r])'
      <4>1. CASE q = r
        BY <3>5, <4>1, LateSlotIsFresh
      <4>2. CASE q # r
        BY <3>5, <4>2, OtherSlotsSteps
      <4> QED
        BY <4>1, <4>2
    <3> QED
      BY <1>2, <3>2, <3>3, <3>4, <3>5 DEF Next
  <2> QED
    BY <2>1, <2>2 DEF FreshInv
<1> QED
  BY <1>1, <1>2

\* The reachable states of behaviours without races.
LEMMA RaceFreeInvariance == Spec /\ []NoRaces => [](IInv /\ FreshInv)
<1>1. Init => FreshInv
  BY DEF Init, FreshInv, RecordedIsUnderWay, SlotIsFresh, NoRow, NewRow, IdleSlot
<1> QED
  BY <1>1, StepFreshInv, InitIInv, StepIInv, PTL DEF Spec

\* The matrix of StatusMachine is the matrix of the handlers.
LEMMA MachineLegal == \A from, to : Machine!Legal(from, to) <=> Legal(from, to)
  BY DEF Machine!Legal, Machine!Transitions, Machine!Rule, Legal, Transitions, Rule

\* The steps of StatusMachine that the steps on a row are.
LEMMA PlacesIsCreate ==
    ASSUME IInv, NEW o \in Orders, Places(o)
    PROVE  Machine!Create(o)
<1>1. PICK s \in {"placed", "pending_payment"}, m \in Methods :
          orders' = [orders EXCEPT ![o] = NewRow(s, m)]
  BY DEF Places
<1>2. orders[o].status = Absent /\ orders[o].agent = NoAgent
  BY DEF Places, Exists, IInv, AbsentIsBlank, NoRow, NewRow
<1>3. orders'[o].status = s /\ orders'[o].agent = NoAgent
  BY <1>1 DEF NewRow, IInv, TypeOK
<1>4. \A p \in Orders \ {o} : orders'[p] = orders[p]
  BY <1>1 DEF IInv, TypeOK
<1>5. [p \in Orders |-> orders'[p].status]
          = [[p \in Orders |-> orders[p].status] EXCEPT ![o] = s]
  BY <1>3, <1>4
<1>6. [p \in Orders |-> orders'[p].agent] = [p \in Orders |-> orders[p].agent]
  BY <1>2, <1>3, <1>4
<1> QED
  BY <1>2, <1>5, <1>6 DEF Machine!Create, Machine!Absent, Absent

LEMMA MovesIsMove ==
    ASSUME IInv, NEW o \in Orders, Moves(o)
    PROVE  Machine!Move(o)
<1>1. PICK next \in Statuses \ {"assigned", "pending_payment"} :
          Legal(orders[o].status, next) /\ SetStatus(o, next)
  BY DEF Moves
<1>2. orders \in [Orders -> Row]
  BY DEF IInv, TypeOK
<1>3. /\ orders'[o].status = next /\ orders'[o].agent = orders[o].agent
      /\ \A p \in Orders \ {o} : orders'[p] = orders[p]
  BY <1>1, <1>2, SetStatusRow
<1>4. [p \in Orders |-> orders'[p].status]
          = [[p \in Orders |-> orders[p].status] EXCEPT ![o] = next]
  BY <1>3
<1>5. [p \in Orders |-> orders'[p].agent] = [p \in Orders |-> orders[p].agent]
  BY <1>3
<1>6. next \in Machine!Statuses \ {"assigned"}
  BY <1>1 DEF Machine!Statuses, Statuses
<1>7. Machine!Legal([p \in Orders |-> orders[p].status][o], next)
  BY <1>1, MachineLegal
<1> QED
  BY <1>4, <1>5, <1>6, <1>7 DEF Machine!Move

LEMMA ClaimIsAssign ==
    ASSUME IInv, NEW o \in Orders, NEW a \in Agents, Claim(o, a)
    PROVE  Machine!Assign(o)
<1>1. orders \in [Orders -> Row]
  BY DEF IInv, TypeOK
<1>2. /\ orders'[o].status = "assigned" /\ orders'[o].agent = a
      /\ \A p \in Orders \ {o} : orders'[p] = orders[p]
  BY <1>1, ClaimRow
<1>3. orders[o].status = "ready" /\ orders[o].agent = NoAgent
  BY DEF Claim, IsClaimable
<1>4. [p \in Orders |-> orders'[p].status]
          = [[p \in Orders |-> orders[p].status] EXCEPT ![o] = "assigned"]
  BY <1>2
<1>5. [p \in Orders |-> orders'[p].agent]
          = [[p \in Orders |-> orders[p].agent] EXCEPT ![o] = a]
  BY <1>2
<1>6. Machine!Legal([p \in Orders |-> orders[p].status][o], "assigned")
  BY <1>3, MachineLegal, MatrixMoves
<1> QED
  BY <1>3, <1>4, <1>5, <1>6 DEF Machine!Assign

\* Every step of the handlers is one of StatusMachine, or changes nothing that
\* it shows.
LEMMA StepsKeepPromise ==
    IInv /\ FreshInv /\ [Next]_vars => [Machine!Next]_(Machine!machineVars)
<1> SUFFICES ASSUME IInv, FreshInv, [Next]_vars
             PROVE  [Machine!Next]_(Machine!machineVars)
  OBVIOUS
<1>1. CASE UNCHANGED orders
  BY <1>1 DEF Machine!machineVars
<1>2. CASE \E o \in Orders : Places(o)
  BY <1>2, PlacesIsCreate DEF Machine!Next
<1>3. CASE \E o \in Orders : Moves(o)
  BY <1>3, MovesIsMove DEF Machine!Next
<1>4. CASE \E o \in Orders, a \in Agents : Claim(o, a)
  BY <1>4, ClaimIsAssign DEF Machine!Next
<1> QED
  BY <1>1, <1>2, <1>3, <1>4, RowSteps DEF vars

-----------------------------------------------------------------------------
(* The theorems *)

\* Rows, sessions, events and slots have their types, whatever runs at once.
THEOREM TypeCorrect == Spec => []TypeOK
<1>1. IInv => TypeOK
  BY DEF IInv
<1> QED
  BY Invariance, <1>1, PTL

\* claimReadyOrderForAgent writes the agent of an order once and for all.
THEOREM AgentWriteOnce == Spec => AgentIsWriteOnce
<1>1. IInv /\ [Next]_vars =>
         [\A o \in Orders : orders[o].agent # NoAgent
                                => orders'[o].agent = orders[o].agent]_vars
  BY StepsAdd DEF StepsOnlyAdd
<1> QED
  BY Invariance, <1>1, PTL DEF Spec, AgentIsWriteOnce

\* No stale PATCH, pickup or delivery leaves an order under way without agent.
THEOREM DeliveryAlwaysHasAgent == Spec => []DeliveryHasAgent
<1>1. IInv => DeliveryHasAgent
  BY DEF IInv
<1> QED
  BY Invariance, <1>1, PTL

\* Every settlement pays the agent recorded on the order.
THEOREM SettlementPaysAssigned == Spec => []PaidAgentIsAssigned
<1>1. IInv => PaidAgentIsAssigned
  BY DEF IInv, DeliveryEventsNameTheAgent, PaidAgentIsAssigned
<1> QED
  BY Invariance, <1>1, PTL

\* The restaurant never works on an online order whose session no `pay` event
\* of the gateway has captured (which is not to say that the event was of a
\* payment that succeeded: the webhook does not ask).
THEOREM NothingServedUncaptured == Spec => []CapturedBeforeServed
<1>1. IInv => CapturedBeforeServed
  <2> SUFFICES ASSUME IInv, NEW o \in Orders, orders[o].method = "online",
                      orders[o].status \notin {"pending_payment", "cancelled"}
               PROVE  session[o] = "captured"
      BY DEF CapturedBeforeServed
  <2>1. Exists(o)
    BY DEF IInv, AbsentIsBlank, NoRow, NewRow
  <2> QED
    BY <2>1 DEF IInv, ServedIsReleased, Released, Exists
<1> QED
  BY Invariance, <1>1, PTL

\* In the outbox order.placed comes before every decision and delivery.
THEOREM PlacementLeads == Spec => []PlacedEventLeads
<1>1. IInv => PlacedEventLeads
  BY DEF IInv
<1> QED
  BY Invariance, <1>1, PTL

\* An event of updateStatus is never about a write that did not happen.
THEOREM EventsTellTheTruth == Spec => []EventHasStamp
<1>1. IInv => EventHasStamp
  BY DEF IInv
<1> QED
  BY Invariance, <1>1, PTL

\* A rejected, delivered or cancelled order is taken out of its status only by
\* handlers that had read it before it was final.
THEOREM FinalStatusStands == Spec => FinalStands
<1>1. Init => SlotsFollowMatrix
  BY DEF Init, SlotsFollowMatrix, SlotFollowsMatrix, IdleSlot
<1>2. IInv /\ SlotsFollowMatrix /\ [Next]_vars =>
         [\A o \in Orders :
             orders[o].status \in Final /\ orders'[o].status # orders[o].status
                 => \E r \in Reqs : /\ req[r].pc \in Deciding
                                   /\ req[r].order = o
                                   /\ Legal(req[r].from, req[r].next)
                                   /\ orders'[o].status = req[r].next]_vars
  BY StepLeavesFinal
<1> QED
  BY <1>1, <1>2, Invariance, StepFollowsMatrix, PTL DEF Spec, FinalStands

\* While no two handlers of an order overlap, and with claims, failures and
\* the handlers of other orders at any point, an order that becomes ready is
\* one the assignment service finds and an agent may claim.
THEOREM ReadyCanBeClaimed == Spec /\ []NoRaces => []ReadyIsClaimable
<1>1. IInv /\ FreshInv => ReadyIsClaimable
  BY DEF FreshInv, RecordedIsUnderWay, ReadyIsClaimable
<1> QED
  BY <1>1, RaceFreeInvariance, PTL

\* Under the same condition the handlers implement StatusMachine: the status
\* of an order only follows the matrix, and its agent comes with the claim.
THEOREM PromiseIsKept == Spec /\ []NoRaces => KeepsPromise
<1>1. Init => Machine!Init
  BY DEF Init, Machine!Init, Machine!Absent, NoRow, NewRow, Absent
<1> QED
  BY <1>1, StepsKeepPromise, RaceFreeInvariance, PTL
     DEF Spec, KeepsPromise, Machine!Spec

=============================================================================
