--------------------------- MODULE Payments_proofs ---------------------------
(***************************************************************************)
(* The safety of Payments, webhooks and refunds, for any orders, attempts, *)
(* requests and faults of the gateway.                                     *)
(***************************************************************************)
EXTENDS Payments, FiniteSums, FiniteSetTheorems, TLAPS

\* What the proof needs of TypeOK.
Typed ==
    /\ order \in [Orders -> OrderStates]
    /\ session \in [Orders -> SessionStates]
    /\ gateway \in [Txns -> Attempt]
    /\ event \in [Txns -> EventStates]
    /\ charge \in [Txns -> ChargeStates]
    /\ completed \in [Txns -> Nat]
    /\ announced \in [Orders -> Nat]
    /\ hook \in [Hooks -> Hook]

\* The charged attempts of an order.
Paid(o) == {t \in Txns : gateway[t].order = o /\ charge[t] # "none"}

\* An attempt of the gateway is about one of the orders.
AttemptHasOrder ==
    \A t \in Txns : gateway[t] = NoAttempt \/ gateway[t].order \in Orders

\* A charge is of an attempt, and its webhook came to an end.
ChargeHasWebhook ==
    \A t \in Txns : charge[t] # "none" =>
        gateway[t] # NoAttempt /\ event[t] \in {"processed", "error"}

\* payment.completed goes with the charge.
ChargeIsCompleted ==
    \A t \in Txns : completed[t] = IF charge[t] = "none" THEN 0 ELSE 1

\* A webhook at work has its row, and its attempt no charge before the commit.
HookHasRow ==
    \A h \in Hooks : hook[h].pc # "idle" =>
        /\ hook[h].txn \in Txns
        /\ gateway[hook[h].txn] # NoAttempt
        /\ event[hook[h].txn] # "none"
        /\ hook[h].pc # "after" => charge[hook[h].txn] = "none"

\* No two webhooks are at work on one attempt: the row admits the first only.
HooksAreApart ==
    \A g, h \in Hooks :
        g # h /\ hook[g].pc # "idle" /\ hook[h].pc # "idle"
            => hook[g].txn # hook[h].txn

\* What a webhook has read of its order may be out of date, but an order
\* never is pending again.
StatusWasRead ==
    \A h \in Hooks : hook[h].pc \in {"session", "write"} =>
        \/ hook[h].status = "pending_payment"
        \/ order[gateway[hook[h].txn].order] # "pending_payment"

\* The parts of PaymentIsWhole about orders.
CaptureIsCharged == \A o \in Orders : session[o] = "captured" <=> Paid(o) # {}
ChargedIsReleased ==
    \A t \in Txns : charge[t] # "none" => order[gateway[t].order] # "pending_payment"
AnnouncedPerCharge == \A o \in Orders : announced[o] <= Cardinality(Paid(o))

\* The inductive invariant.
HookInv == HookHasRow /\ HooksAreApart /\ StatusWasRead
MoneyInv == /\ AttemptHasOrder /\ ChargeHasWebhook /\ ChargeIsCompleted
            /\ CaptureIsCharged /\ ChargedIsReleased /\ AnnouncedPerCharge
IInv == Typed /\ HookInv /\ MoneyInv /\ ProcessedIsCharged

-----------------------------------------------------------------------------

\* Sets of attempts are finite.
LEMMA PaidIsFinite == \A o \in Orders : IsFiniteSet(Paid(o))
<1> TAKE o \in Orders
<1>1. Paid(o) \subseteq Txns /\ IsFiniteSet(Txns)
  BY ConstantsAssumption DEF Paid
<1> QED
  BY <1>1, FS_Subset

LEMMA InitIInv == Init => IInv
<1> SUFFICES ASSUME Init
             PROVE  IInv
  OBVIOUS
<1>1. NoAttempt \in Attempt /\ NoHook \in Hook
  BY DEF NoAttempt, Attempt, NoHook, Hook
<1>2. Typed
  BY <1>1 DEF Init, Typed, OrderStates, SessionStates, EventStates, ChargeStates
<1>3. \A o \in Orders : Paid(o) = {}
  BY DEF Init, Paid
<1>4. Cardinality({}) = 0
  BY FS_EmptySet
<1>5. \A h \in Hooks : hook[h].pc = "idle"
  BY DEF Init, NoHook
<1>6. HookInv
  BY <1>5 DEF HookInv, HookHasRow, HooksAreApart, StatusWasRead
<1>7. AnnouncedPerCharge /\ CaptureIsCharged
  BY <1>3, <1>4 DEF Init, AnnouncedPerCharge, CaptureIsCharged
<1>8. MoneyInv
  BY <1>7 DEF Init, MoneyInv, AttemptHasOrder, ChargeHasWebhook, ChargeIsCompleted,
     ChargedIsReleased
<1>9. ProcessedIsCharged
  BY DEF Init, ProcessedIsCharged, Charged
<1> QED
  BY <1>2, <1>6, <1>8, <1>9 DEF IInv

\* Steps that leave charges and attempts as they are leave Paid.
LEMMA PaidStays ==
    ASSUME \A t \in Txns : charge'[t] # "none" <=> charge[t] # "none",
           \A t \in Txns : charge[t] # "none" => gateway'[t] = gateway[t]
    PROVE  \A o \in Orders : Paid(o)' = Paid(o)
BY DEF Paid

\* Steps of the order, its session, the gateway and the refunds.
LEMMA OutsideKeepsIInv ==
    ASSUME IInv, UNCHANGED <<event, completed, announced, hook>>,
           Typed', AttemptHasOrder',
           \A t \in Txns : charge'[t] # "none" <=> charge[t] # "none",
           \A t \in Txns : gateway[t] # NoAttempt => gateway'[t] = gateway[t],
           \A o \in Orders : session'[o] = "captured" <=> session[o] = "captured",
           \A o \in Orders : order[o] # "pending_payment"
                                => order'[o] # "pending_payment"
    PROVE  IInv'
<1>1. \A t \in Txns : charge[t] # "none" => gateway'[t] = gateway[t]
  BY DEF IInv, MoneyInv, ChargeHasWebhook
<1>2. \A o \in Orders : Paid(o)' = Paid(o)
  BY <1>1, PaidStays
<1>3. HookInv'
  <2>1. \A h \in Hooks : hook[h].pc # "idle" =>
            /\ hook[h].txn \in Txns
            /\ gateway'[hook[h].txn] = gateway[hook[h].txn]
            /\ gateway[hook[h].txn].order \in Orders
    BY DEF IInv, HookInv, HookHasRow, MoneyInv, AttemptHasOrder
  <2>2. HookHasRow'
    BY <2>1 DEF IInv, HookInv, HookHasRow
  <2>3. HooksAreApart'
    BY DEF IInv, HookInv, HooksAreApart
  <2>4. StatusWasRead'
    BY <2>1 DEF IInv, HookInv, StatusWasRead
  <2> QED
    BY <2>2, <2>3, <2>4 DEF HookInv
<1>4. MoneyInv'
  <2>1. ChargeHasWebhook'
    BY <1>1 DEF IInv, MoneyInv, ChargeHasWebhook
  <2>2. ChargeIsCompleted'
    BY DEF IInv, MoneyInv, ChargeIsCompleted
  <2>3. CaptureIsCharged'
    BY <1>2 DEF IInv, MoneyInv, CaptureIsCharged
  <2>4. ChargedIsReleased'
    BY <1>1 DEF IInv, MoneyInv, ChargedIsReleased, ChargeHasWebhook, AttemptHasOrder
  <2>5. AnnouncedPerCharge'
    BY <1>2 DEF IInv, MoneyInv, AnnouncedPerCharge
  <2> QED
    BY <2>1, <2>2, <2>3, <2>4, <2>5 DEF MoneyInv
<1>5. ProcessedIsCharged'
  BY DEF IInv, ProcessedIsCharged, Charged
<1> QED
  BY <1>3, <1>4, <1>5 DEF IInv

LEMMA OrdersKeepIInv ==
    ASSUME IInv, NEW o \in Orders, OpenSession(o) \/ CancelOrder(o)
    PROVE  IInv'
<1>1. CASE OpenSession(o)
  <2>1. /\ session' = [session EXCEPT ![o] = "initialized"] /\ session[o] = "none"
        /\ UNCHANGED <<order, gateway, event, charge, completed, announced, hook>>
    BY <1>1 DEF OpenSession, AddsSession
  <2>2. Typed'
    BY <2>1 DEF IInv, Typed, SessionStates
  <2>3. AttemptHasOrder'
    BY <2>1 DEF IInv, MoneyInv, AttemptHasOrder
  <2>4. \A u \in Orders : session'[u] = "captured" <=> session[u] = "captured"
    BY <2>1 DEF IInv, Typed
  <2> QED
    BY <2>1, <2>2, <2>3, <2>4, OutsideKeepsIInv
<1>2. CASE CancelOrder(o)
  <2>1. /\ order' = [order EXCEPT ![o] = "cancelled"]
        /\ UNCHANGED <<session, gateway, event, charge, completed, announced, hook>>
    BY <1>2 DEF CancelOrder, hookVars
  <2>2. Typed'
    BY <2>1 DEF IInv, Typed, OrderStates
  <2>3. AttemptHasOrder'
    BY <2>1 DEF IInv, MoneyInv, AttemptHasOrder
  <2>4. \A u \in Orders : order[u] # "pending_payment"
                              => order'[u] # "pending_payment"
    BY <2>1 DEF IInv, Typed
  <2> QED
    BY <2>1, <2>2, <2>3, <2>4, OutsideKeepsIInv
<1> QED
  BY <1>1, <1>2

LEMMA PayKeepsIInv ==
    ASSUME IInv, NEW t \in Txns, NEW o \in Orders, Pay(t, o)
    PROVE  IInv'
<1>1. PICK x \in {"SUCCESS", "FAILED"} :
          gateway' = [gateway EXCEPT ![t] = [order |-> o, outcome |-> x]]
  BY DEF Pay
<1>2. /\ gateway[t] = NoAttempt
      /\ UNCHANGED <<order, session, event, charge, completed, announced, hook>>
  BY DEF Pay, hookVars
<1>3. [order |-> o, outcome |-> x] \in Attempt
  BY DEF Attempt
<1>4. Typed'
  BY <1>1, <1>2, <1>3 DEF IInv, Typed
<1>5. AttemptHasOrder'
  BY <1>1, <1>2 DEF IInv, Typed, MoneyInv, AttemptHasOrder
<1>6. \A u \in Txns : gateway[u] # NoAttempt => gateway'[u] = gateway[u]
  BY <1>1, <1>2 DEF IInv, Typed
<1> QED
  BY <1>2, <1>4, <1>5, <1>6, OutsideKeepsIInv

\* A refund leaves every charge a charge.
LEMMA RefundKeepsIInv ==
    ASSUME IInv, NEW r \in Refunders,
           \/ \E t \in Txns, a \in 1..Amount : RefundRead(r, t, a)
           \/ GatewayRefunds(r) \/ AnswerLost(r) \/ RefundFails(r)
           \/ CommitRefund(r) /\ refund[r].txn \in Txns
              /\ charge[refund[r].txn] # "none"
    PROVE  IInv'
<1>1. UNCHANGED <<order, session, gateway, event, completed, announced, hook>>
  BY DEF RefundRead, GatewayRefunds, AnswerLost, RefundFails, CommitRefund, hookVars
<1>2. \/ charge' = charge
      \/ \E t \in Txns : charge[t] # "none"
                        /\ charge' = [charge EXCEPT ![t] = "refunded"]
  BY DEF RefundRead, GatewayRefunds, AnswerLost, RefundFails, CommitRefund,
     MarksRefunded, hookVars
<1>3. /\ charge' \in [Txns -> ChargeStates]
      /\ \A t \in Txns : charge'[t] # "none" <=> charge[t] # "none"
  BY <1>2 DEF IInv, Typed, ChargeStates
<1>4. Typed' /\ AttemptHasOrder'
  BY <1>1, <1>3 DEF IInv, Typed, MoneyInv, AttemptHasOrder
<1> QED
  BY <1>1, <1>3, <1>4, OutsideKeepsIInv

-----------------------------------------------------------------------------

\* The steps of a webhook before its commit, and its end: its record, and the
\* row of its attempt.
LEMMA HookStepKeepsIInv ==
    ASSUME IInv, NEW h \in Hooks,
           UNCHANGED <<order, session, gateway, charge, completed, announced>>,
           hook' \in [Hooks -> Hook],
           \A g \in Hooks \ {h} : hook'[g] = hook[g],
           \/ hook'[h].pc = "idle"
           \/ hook[h].pc \notin {"idle", "after"} /\ hook'[h].txn = hook[h].txn,
           hook'[h].pc \in {"session", "write"} =>
               \/ hook'[h].status = "pending_payment"
               \/ order[gateway[hook'[h].txn].order] # "pending_payment",
           \/ event' = event
           \/ hook[h].pc # "idle" /\ event' = [event EXCEPT ![hook[h].txn] = "error"]
    PROVE  IInv'
<1>1. event' \in [Txns -> EventStates]
  BY DEF IInv, Typed, EventStates
<1>2. \A t \in Txns : /\ event'[t] \in {event[t], "error"}
                      /\ event[t] = "none" => event'[t] = "none"
  BY DEF IInv, Typed, HookInv, HookHasRow
<1>3. Typed'
  BY <1>1 DEF IInv, Typed
<1>4. HookInv'
  <2>1. HookHasRow'
    BY <1>2 DEF IInv, HookInv, HookHasRow
  <2>2. HooksAreApart'
    BY DEF IInv, HookInv, HooksAreApart
  <2>3. StatusWasRead'
    BY DEF IInv, HookInv, StatusWasRead
  <2> QED
    BY <2>1, <2>2, <2>3 DEF HookInv
<1>5. \A o \in Orders : Paid(o)' = Paid(o)
  BY PaidStays
<1>6. MoneyInv'
  BY <1>2, <1>5 DEF IInv, MoneyInv, AttemptHasOrder, ChargeHasWebhook,
     ChargeIsCompleted, CaptureIsCharged, ChargedIsReleased, AnnouncedPerCharge
<1>7. ProcessedIsCharged'
  BY <1>2 DEF IInv, MoneyInv, ProcessedIsCharged, Charged, ChargeHasWebhook
<1> QED
  BY <1>3, <1>4, <1>6, <1>7 DEF IInv

\* A webhook that ends, with its row stamped or not.
LEMMA EndKeepsIInv ==
    ASSUME IInv, NEW h \in Hooks,
           \/ NoSession(h) \/ AnswerWebhook(h)
           \/ WebhookFails(h) \/ WebhookCrashes(h)
    PROVE  IInv'
<1>1. /\ hook' = [hook EXCEPT ![h] = NoHook] /\ hook[h].pc # "idle"
      /\ UNCHANGED <<order, session, gateway, charge, completed, announced>>
      /\ \/ event' = event
         \/ event' = [event EXCEPT ![hook[h].txn] = "error"]
  BY DEF NoSession, AnswerWebhook, WebhookFails, WebhookCrashes, StampError
<1>2. NoHook \in Hook /\ NoHook.pc = "idle"
  BY DEF NoHook, Hook
<1>3. /\ hook' \in [Hooks -> Hook] /\ hook'[h].pc = "idle"
      /\ \A g \in Hooks \ {h} : hook'[g] = hook[g]
  BY <1>1, <1>2 DEF IInv, Typed
<1>4. hook'[h].pc \in {"session", "write"} =>
          \/ hook'[h].status = "pending_payment"
          \/ order[gateway[hook'[h].txn].order] # "pending_payment"
  BY <1>3
<1>5. \/ event' = event
      \/ hook[h].pc # "idle" /\ event' = [event EXCEPT ![hook[h].txn] = "error"]
  BY <1>1
<1>6. UNCHANGED <<order, session, gateway, charge, completed, announced>>
  BY <1>1
<1>7. \/ hook'[h].pc = "idle"
      \/ hook[h].pc \notin {"idle", "after"} /\ hook'[h].txn = hook[h].txn
  BY <1>3
<1>8. /\ hook' \in [Hooks -> Hook]
      /\ \A g \in Hooks \ {h} : hook'[g] = hook[g]
  BY <1>3
<1> QED
  BY <1>4, <1>5, <1>6, <1>7, <1>8, HookStepKeepsIInv

LEMMA ReadKeepsIInv ==
    ASSUME IInv, NEW h \in Hooks, ReadOrder(h) \/ ReadSession(h)
    PROVE  IInv'
<1>1. CASE ReadOrder(h)
  <2> DEFINE o == gateway[hook[h].txn].order
  <2> DEFINE moved == [hook EXCEPT ![h].pc = "session"]
  <2>1. /\ hook[h].pc = "order" /\ hook' = [moved EXCEPT ![h].status = order[o]]
        /\ UNCHANGED <<order, session, gateway, event, charge, completed, announced>>
    BY <1>1 DEF ReadOrder, OrderOf
  <2>2. order[o] \in OrderStates
    BY <2>1 DEF IInv, Typed, HookInv, HookHasRow, MoneyInv, AttemptHasOrder
  <2>3. /\ moved \in [Hooks -> Hook] /\ moved[h].pc = "session"
        /\ moved[h].txn = hook[h].txn
        /\ \A g \in Hooks \ {h} : moved[g] = hook[g]
    BY DEF IInv, Typed, Hook
  <2> HIDE DEF moved, o
  <2>4. /\ hook' \in [Hooks -> Hook] /\ hook'[h].pc = "session"
        /\ hook'[h].txn = hook[h].txn /\ hook'[h].status = order[o]
        /\ \A g \in Hooks \ {h} : hook'[g] = hook[g]
    BY <2>1, <2>2, <2>3 DEF Hook
  <2> QED
    BY <2>1, <2>4, HookStepKeepsIInv DEF o
<1>2. CASE ReadSession(h)
  <2>1. /\ hook[h].pc = "session" /\ hook' = [hook EXCEPT ![h].pc = "write"]
        /\ UNCHANGED <<order, session, gateway, event, charge, completed, announced>>
    BY <1>2 DEF ReadSession
  <2>2. /\ hook' \in [Hooks -> Hook] /\ hook'[h].pc = "write"
        /\ hook'[h].txn = hook[h].txn /\ hook'[h].status = hook[h].status
        /\ \A g \in Hooks \ {h} : hook'[g] = hook[g]
    BY <2>1 DEF IInv, Typed, Hook
  <2>3. \/ hook[h].status = "pending_payment"
        \/ order[gateway[hook[h].txn].order] # "pending_payment"
    BY <2>1 DEF IInv, HookInv, StatusWasRead
  <2> QED
    BY <2>1, <2>2, <2>3, HookStepKeepsIInv
<1> QED
  BY <1>1, <1>2

\* The first webhook of an attempt gets the row, a duplicate nothing.
LEMMA ReceiveKeepsIInv ==
    ASSUME IInv, NEW h \in Hooks, NEW t \in Txns, Receive(h, t)
    PROVE  IInv'
<1> DEFINE new == [NoHook EXCEPT !.pc = "order", !.txn = t]
<1>1. /\ hook[h].pc = "idle" /\ gateway[t] # NoAttempt
      /\ UNCHANGED <<order, session, gateway, charge, completed, announced>>
  BY DEF Receive, IsSigned
<1>2. CASE IsDuplicate(t)
  <2>1. UNCHANGED <<event, hook>>
    BY <1>2 DEF Receive
  <2> QED
    BY <1>1, <2>1, HookStepKeepsIInv DEF IInv, Typed
<1>3. CASE ~IsDuplicate(t)
  <2>1. /\ event[t] = "none" /\ event' = [event EXCEPT ![t] = "received"]
        /\ hook' = [hook EXCEPT ![h] = new]
    BY <1>3 DEF Receive, IsDuplicate
  <2>2. new \in Hook /\ new.pc = "order" /\ new.txn = t
    BY DEF NoHook, Hook
  <2> HIDE DEF new
  <2>3. /\ hook' \in [Hooks -> Hook]
        /\ hook'[h].pc = "order" /\ hook'[h].txn = t
        /\ \A g \in Hooks \ {h} : hook'[g] = hook[g]
    BY <2>1, <2>2 DEF IInv, Typed
  <2>4. /\ event' \in [Txns -> EventStates] /\ event'[t] = "received"
        /\ \A u \in Txns \ {t} : event'[u] = event[u]
    BY <2>1 DEF IInv, Typed, EventStates
  <2>5. charge[t] = "none"
    BY <2>1 DEF IInv, MoneyInv, ChargeHasWebhook
  <2>6. \A g \in Hooks : hook[g].pc # "idle" => hook[g].txn # t
    BY <2>1 DEF IInv, HookInv, HookHasRow
  <2>7. Typed'
    BY <1>1, <2>3, <2>4 DEF IInv, Typed
  <2>8. HookInv'
    <3>1. HookHasRow'
      BY <1>1, <2>3, <2>4, <2>5, <2>6 DEF IInv, HookInv, HookHasRow
    <3>2. HooksAreApart'
      BY <2>3, <2>6 DEF IInv, HookInv, HooksAreApart
    <3>3. StatusWasRead'
      BY <1>1, <2>3 DEF IInv, HookInv, StatusWasRead
    <3> QED
      BY <3>1, <3>2, <3>3 DEF HookInv
  <2>9. \A o \in Orders : Paid(o)' = Paid(o)
    BY <1>1, PaidStays
  <2>10. MoneyInv'
    <3>1. ChargeHasWebhook'
      BY <1>1, <2>4, <2>5 DEF IInv, MoneyInv, ChargeHasWebhook
    <3> QED
      BY <1>1, <2>9, <3>1 DEF IInv, MoneyInv, AttemptHasOrder, ChargeIsCompleted,
         CaptureIsCharged, ChargedIsReleased, AnnouncedPerCharge
  <2>11. ProcessedIsCharged'
    BY <1>1, <2>4, <2>5 DEF IInv, ProcessedIsCharged, Charged
  <2> QED
    BY <2>7, <2>8, <2>10, <2>11 DEF IInv
<1> QED
  BY <1>2, <1>3

\* The commit: the first charge of its attempt, for the session, the order
\* and the row at once.
LEMMA CommitKeepsIInv ==
    ASSUME IInv, NEW h \in Hooks, CommitWebhook(h)
    PROVE  IInv'
<1>0. hook[h].txn \in Txns /\ gateway[hook[h].txn].order \in Orders
  BY DEF CommitWebhook, IInv, HookInv, HookHasRow, MoneyInv, AttemptHasOrder
<1>1. PICK t \in Txns, o \in Orders :
          /\ t = hook[h].txn /\ o = gateway[t].order
          /\ hook[h].pc = "write"
          /\ gateway[t] # NoAttempt /\ charge[t] = "none" /\ completed[t] = 0
  BY <1>0 DEF CommitWebhook, IInv, HookInv, HookHasRow, MoneyInv, ChargeIsCompleted
<1>2. gateway' = gateway
  BY DEF CommitWebhook
<1>3. /\ session' \in [Orders -> SessionStates] /\ session'[o] = "captured"
      /\ \A u \in Orders \ {o} : session'[u] = session[u]
  BY <1>1 DEF CommitWebhook, Captures, OrderOf, IInv, Typed, SessionStates
<1>4. /\ charge' \in [Txns -> ChargeStates] /\ charge'[t] = "succeeded"
      /\ \A u \in Txns \ {t} : charge'[u] = charge[u]
  <2>1. charge' = [charge EXCEPT ![t] = "succeeded"]
    BY <1>1 DEF CommitWebhook, AddsCharge, Charges, IInv, Typed
  <2> QED
    BY <1>1, <2>1 DEF IInv, Typed, ChargeStates
<1>5. /\ completed' \in [Txns -> Nat] /\ completed'[t] = 1
      /\ \A u \in Txns \ {t} : completed'[u] = completed[u]
  BY <1>1 DEF CommitWebhook, IInv, Typed
<1>6. /\ event' \in [Txns -> EventStates] /\ event'[t] = "processed"
      /\ \A u \in Txns \ {t} : event'[u] = event[u]
  BY <1>1 DEF CommitWebhook, StampProcessed, IInv, Typed, EventStates
<1>7. /\ hook' \in [Hooks -> Hook] /\ hook'[h].pc = "after" /\ hook'[h].txn = t
      /\ \A g \in Hooks \ {h} : hook'[g] = hook[g]
  BY <1>1 DEF CommitWebhook, IInv, Typed, Hook
<1>8. ToPlace(h) \subseteq {o}
      /\ (hook[h].status = "pending_payment" => ToPlace(h) = {o})
  BY <1>1 DEF ToPlace, OrderOf
<1>9. order' = [u \in Orders |-> IF u \in ToPlace(h) THEN "placed" ELSE order[u]]
  BY DEF CommitWebhook
<1>10. /\ order' \in [Orders -> OrderStates]
       /\ \A u \in Orders : order[u] # "pending_payment"
                                => order'[u] # "pending_payment"
  BY <1>9 DEF IInv, Typed, OrderStates
<1>11. order'[o] # "pending_payment"
  <2>1. CASE hook[h].status = "pending_payment"
    BY <1>1, <1>8, <1>9, <2>1
  <2>2. CASE hook[h].status # "pending_payment"
    BY <1>1, <1>10, <2>2 DEF IInv, HookInv, StatusWasRead
  <2> QED
    BY <2>1, <2>2
<1>12. /\ announced' \in [Orders -> Nat] /\ announced'[o] <= announced[o] + 1
       /\ \A u \in Orders \ {o} : announced'[u] = announced[u]
  <2>1. announced' = [u \in Orders |-> announced[u]
                                          + (IF u \in ToPlace(h) THEN 1 ELSE 0)]
    BY DEF CommitWebhook
  <2> QED
    BY <1>1, <1>8, <2>1 DEF IInv, Typed
<1>13. \A u \in Orders \ {o} : Paid(u)' = Paid(u)
  BY <1>1, <1>2, <1>4 DEF Paid
<1>14. Paid(o)' = Paid(o) \cup {t} /\ t \notin Paid(o)
  BY <1>1, <1>2, <1>4 DEF Paid
<1>15. /\ IsFiniteSet(Paid(o)) /\ Cardinality(Paid(o)) \in Nat
       /\ Cardinality(Paid(o) \cup {t}) = Cardinality(Paid(o)) + 1
  BY <1>1, <1>14, PaidIsFinite, FS_AddElement, FS_CardinalityType
<1>16. Typed'
  BY <1>2, <1>3, <1>4, <1>5, <1>6, <1>7, <1>10, <1>12 DEF IInv, Typed
<1>17. HookInv'
  <2>1. \A g \in Hooks \ {h} : hook[g].pc # "idle" => hook[g].txn # t
    BY <1>1 DEF IInv, HookInv, HooksAreApart
  <2>2. HookHasRow'
    BY <1>1, <1>2, <1>4, <1>6, <1>7, <2>1 DEF IInv, HookInv, HookHasRow
  <2>3. HooksAreApart'
    BY <1>1, <1>7 DEF IInv, HookInv, HooksAreApart
  <2>4. StatusWasRead'
    BY <1>2, <1>7, <1>10 DEF IInv, HookInv, StatusWasRead, HookHasRow, MoneyInv,
       AttemptHasOrder
  <2> QED
    BY <2>2, <2>3, <2>4 DEF HookInv
<1>18. MoneyInv'
  <2>1. AttemptHasOrder'
    BY <1>2 DEF IInv, MoneyInv, AttemptHasOrder
  <2>2. ChargeHasWebhook'
    BY <1>1, <1>2, <1>4, <1>6 DEF IInv, MoneyInv, ChargeHasWebhook
  <2>3. ChargeIsCompleted'
    BY <1>1, <1>4, <1>5 DEF IInv, MoneyInv, ChargeIsCompleted
  <2>4. CaptureIsCharged'
    BY <1>3, <1>13, <1>14 DEF IInv, MoneyInv, CaptureIsCharged
  <2>5. ChargedIsReleased'
    BY <1>1, <1>2, <1>4, <1>10, <1>11 DEF IInv, MoneyInv, ChargedIsReleased,
       ChargeHasWebhook, AttemptHasOrder
  <2>6. AnnouncedPerCharge'
    <3> SUFFICES ASSUME NEW u \in Orders
                 PROVE  announced'[u] <= Cardinality(Paid(u)')
      BY DEF AnnouncedPerCharge
    <3>1. announced[u] <= Cardinality(Paid(u)) /\ announced[u] \in Nat
          /\ announced'[u] \in Nat
      BY <1>12 DEF IInv, MoneyInv, AnnouncedPerCharge, Typed
    <3>2. CASE u = o
      BY <1>12, <1>14, <1>15, <3>1, <3>2
    <3>3. CASE u # o
      BY <1>12, <1>13, <3>1, <3>3
    <3> QED
      BY <3>2, <3>3
  <2> QED
    BY <2>1, <2>2, <2>3, <2>4, <2>5, <2>6 DEF MoneyInv
<1>19. ProcessedIsCharged'
  BY <1>1, <1>4, <1>6 DEF IInv, ProcessedIsCharged, Charged
<1> QED
  BY <1>16, <1>17, <1>18, <1>19 DEF IInv

-----------------------------------------------------------------------------

\* A refund in progress is of a charge.
RefundHasCharge ==
    /\ refund \in [Refunders -> Refund]
    /\ \A r \in Refunders : refund[r].pc # "idle" =>
           refund[r].txn \in Txns /\ charge[refund[r].txn] # "none"

LEMMA StepIInv == IInv /\ RefundHasCharge /\ [Next]_vars => IInv'
<1> SUFFICES ASSUME IInv, RefundHasCharge, [Next]_vars
             PROVE  IInv'
  OBVIOUS
<1>1. CASE UNCHANGED vars
  <2>1. UNCHANGED <<order, session, gateway, event, charge, completed, announced, hook>>
    BY <1>1 DEF vars
  <2>2. Typed' /\ AttemptHasOrder'
    BY <2>1 DEF IInv, Typed, MoneyInv, AttemptHasOrder
  <2> QED
    BY <2>1, <2>2, OutsideKeepsIInv
<1>2. ASSUME NEW r \in Refunders, CommitRefund(r)
      PROVE  IInv'
  BY <1>2, RefundKeepsIInv DEF CommitRefund, RefundHasCharge
<1>3. CASE Next
  BY <1>2, <1>3, OrdersKeepIInv, PayKeepsIInv, ReceiveKeepsIInv, ReadKeepsIInv,
     EndKeepsIInv, CommitKeepsIInv, RefundKeepsIInv DEF Next
<1> QED
  BY <1>1, <1>3

\* No step takes a charge back.
LEMMA ChargesStay ==
    ASSUME IInv, RefundHasCharge, [Next]_vars
    PROVE  \A t \in Txns : charge[t] # "none" => charge'[t] # "none"
<1>1. CASE \E h \in Hooks : CommitWebhook(h)
  BY <1>1 DEF CommitWebhook, AddsCharge, IInv, Typed
<1>2. CASE \E r \in Refunders : CommitRefund(r)
  BY <1>2 DEF CommitRefund, MarksRefunded, IInv, Typed
<1>3. CASE UNCHANGED charge
  BY <1>3
<1> QED
  BY <1>1, <1>2, <1>3 DEF Next, vars, hookVars, moneyVars, OpenSession, CancelOrder,
     Pay, Receive, ReadOrder, ReadSession, NoSession, AnswerWebhook, WebhookFails,
     WebhookCrashes, RefundRead, GatewayRefunds, AnswerLost, RefundFails

LEMMA StepRefundHasCharge ==
    IInv /\ RefundHasCharge /\ [Next]_vars => RefundHasCharge'
<1> SUFFICES ASSUME IInv, RefundHasCharge, [Next]_vars
             PROVE  RefundHasCharge'
  OBVIOUS
<1>1. \A t \in Txns : charge[t] # "none" => charge'[t] # "none"
  BY ChargesStay
<1>2. NoRefund \in Refund /\ NoRefund.pc = "idle"
  BY ConstantsAssumption DEF NoRefund, Refund
<1>3. CASE UNCHANGED refund
  BY <1>1, <1>3 DEF RefundHasCharge
<1>4. ASSUME NEW r \in Refunders, NEW t \in Txns, NEW a \in 1..Amount,
             RefundRead(r, t, a)
      PROVE  RefundHasCharge'
  <2> DEFINE new == [pc |-> "gateway", txn |-> t, amount |-> a, try |-> 1]
  <2>1. new \in Refund
    BY ConstantsAssumption DEF Refund
  <2>2. charge[t] # "none" /\ refund' = [refund EXCEPT ![r] = new]
    BY <1>4 DEF RefundRead, IsRefundable
  <2> QED
    BY <1>1, <2>1, <2>2 DEF RefundHasCharge
<1>5. ASSUME NEW r \in Refunders, refund' = [refund EXCEPT ![r] = NoRefund]
      PROVE  RefundHasCharge'
  BY <1>1, <1>2, <1>5 DEF RefundHasCharge
<1>6. ASSUME NEW r \in Refunders, refund' = [refund EXCEPT ![r].pc = "record"],
             refund[r].pc # "idle"
      PROVE  RefundHasCharge'
  BY <1>1, <1>6 DEF RefundHasCharge, Refund
<1>7. ASSUME NEW r \in Refunders, refund[r].try < Attempts, refund[r].pc # "idle",
             refund' = [refund EXCEPT ![r].try = @ + 1]
      PROVE  RefundHasCharge'
  <2>1. refund[r].try + 1 \in 0..Attempts
    BY <1>7, ConstantsAssumption DEF RefundHasCharge, Refund
  <2> QED
    BY <1>1, <1>7, <2>1 DEF RefundHasCharge, Refund
<1>8. ASSUME NEW r \in Refunders,
             \/ GatewayRefunds(r) \/ AnswerLost(r)
             \/ CommitRefund(r) \/ RefundFails(r)
      PROVE  RefundHasCharge'
  <2>1. CASE GatewayRefunds(r)
    BY <1>6, <2>1 DEF GatewayRefunds, Accepted
  <2>2. CASE AnswerLost(r)
    BY <1>5, <1>7, <2>2 DEF AnswerLost, AfterLostAnswer
  <2>3. CASE CommitRefund(r) \/ RefundFails(r)
    BY <1>5, <2>3 DEF CommitRefund, RefundFails
  <2> QED
    BY <1>8, <2>1, <2>2, <2>3
<1> QED
  BY <1>3, <1>4, <1>8 DEF Next, vars, moneyVars, OpenSession, CancelOrder,
     Pay, Receive, ReadOrder, ReadSession, NoSession, CommitWebhook, AnswerWebhook,
     WebhookFails, WebhookCrashes

\* The invariant holds of every behaviour of webhooks and refunds.
LEMMA SpecIInv == Spec => [](IInv /\ RefundHasCharge)
<1>1. Init => RefundHasCharge
  BY ConstantsAssumption DEF Init, RefundHasCharge, NoRefund, Refund
<1> QED
  BY <1>1, InitIInv, StepIInv, StepRefundHasCharge, PTL DEF Spec

-----------------------------------------------------------------------------

\* The row that insertWebhookEvent inserts, or not, is enough: no repetition
\* of a webhook completes its transaction a second time.  Two transactions of
\* one order may each complete, when both read the session as active.
THEOREM TransactionCompletesOnce == Spec => []CompletedOnce
<1>1. IInv => CompletedOnce
  BY DEF IInv, MoneyInv, ChargeIsCompleted, CompletedOnce
<1> QED
  BY <1>1, SpecIInv, PTL

\* A payment is in the books whole or not at all, whatever fails and whatever
\* becomes of the order meanwhile (payments.md, invariant 3).
THEOREM PaymentsAreWhole == Spec => []PaymentIsWhole
<1>1. IInv => PaymentIsWhole
  <2> SUFFICES ASSUME IInv
               PROVE  PaymentIsWhole
    OBVIOUS
  <2>1. \A o \in Orders : AttemptsOf(o) \cap Charged = Paid(o)
    BY DEF AttemptsOf, Charged, Paid
  <2>2. \A t \in Txns : t \in Charged <=> completed[t] > 0
    BY DEF Charged, IInv, MoneyInv, ChargeIsCompleted
  <2>3. \A t \in Charged : order[gateway[t].order] # "pending_payment"
    BY DEF Charged, IInv, MoneyInv, ChargedIsReleased
  <2> QED
    BY <2>1, <2>2, <2>3 DEF PaymentIsWhole, IInv, MoneyInv, CaptureIsCharged,
       AnnouncedPerCharge
<1> QED
  BY <1>1, SpecIInv, PTL

\* Rows that are stamped as processed have their payment in the ledger: what
\* a crash or an error loses can be found by its row.
THEOREM ProcessedIsInLedger == Spec => []ProcessedIsCharged
<1>1. IInv => ProcessedIsCharged
  BY DEF IInv
<1> QED
  BY <1>1, SpecIInv, PTL

-----------------------------------------------------------------------------
(* Refunds: the sums of what the requests of a charge are about to do *)

\* What each request is about to pay back of a charge.
Paying(t) == [r \in Refunders |-> IF refund[r].txn = t THEN refund[r].amount ELSE 0]

\* What the gateway has paid back of a charge and is not on record.
Owed(t) == [r \in Refunders |->
               IF refund[r].pc = "record" /\ refund[r].txn = t
               THEN refund[r].amount ELSE 0]

PayingInAll(t) == SumFunctionOnSet(Paying(t), Refunders)
OwedInAll(t) == SumFunctionOnSet(Owed(t), Refunders)

\* The first refund on record is the last to be let in: until then nothing is
\* refunded, and from then on the requests that got through can only end.
RefundInv ==
    /\ refunded \in [Txns -> Nat]
    /\ returned \in [Txns -> Nat]
    /\ \A r \in Refunders : refund[r].pc = "idle" => refund[r].amount = 0
    /\ \A t \in Txns : charge[t] # "refunded" => refunded[t] = 0
    /\ \A t \in Txns : refunded[t] + OwedInAll(t) <= returned[t]
    /\ \A t \in Txns : refunded[t] + PayingInAll(t) <= Amount * Cardinality(Refunders)

\* The sums are natural, and the requests together pay a charge once each.
LEMMA RefundSums ==
    ASSUME refund \in [Refunders -> Refund], NEW t
    PROVE  /\ \A r \in Refunders : Owed(t)[r] \in 0..Amount /\ Paying(t)[r] \in 0..Amount
           /\ OwedInAll(t) \in Nat /\ PayingInAll(t) \in Nat
           /\ PayingInAll(t) <= Amount * Cardinality(Refunders)
<1>1. \A r \in Refunders : Owed(t)[r] \in 0..Amount /\ Paying(t)[r] \in 0..Amount
  <2> TAKE r \in Refunders
  <2>1. refund[r].amount \in 0..Amount /\ 0 \in 0..Amount
    BY ConstantsAssumption DEF Refund
  <2> QED
    BY <2>1 DEF Owed, Paying
<1>2. IsFiniteSet(Refunders) /\ Amount \in Nat
  BY ConstantsAssumption
<1>3. \A f : (\A r \in Refunders : f[r] \in 0..Amount) =>
          /\ SumFunctionOnSet(f, Refunders) \in Nat
          /\ SumFunctionOnSet(f, Refunders) <= Amount * Cardinality(Refunders)
  BY <1>2, SumBounds
<1> QED
  BY <1>1, <1>3 DEF OwedInAll, PayingInAll

\* A step of one request changes the sums by what it changes of its own.
LEMMA RefundSumsChange ==
    ASSUME refund \in [Refunders -> Refund], refund' \in [Refunders -> Refund],
           NEW r \in Refunders, \A q \in Refunders \ {r} : refund'[q] = refund[q],
           NEW t
    PROVE  /\ OwedInAll(t)' = OwedInAll(t) + Owed(t)'[r] - Owed(t)[r]
           /\ PayingInAll(t)' = PayingInAll(t) + Paying(t)'[r] - Paying(t)[r]
<1>1. \A q \in Refunders : Owed(t)[q] \in Int /\ Paying(t)[q] \in Int
  BY RefundSums
<1>2. \A q \in Refunders : Owed(t)'[q] \in Int /\ Paying(t)'[q] \in Int
  <2> TAKE q \in Refunders
  <2>1. refund'[q].amount \in Int
    BY ConstantsAssumption DEF Refund
  <2> QED
    BY <2>1 DEF Owed, Paying
<1>3. \A q \in Refunders \ {r} : Owed(t)'[q] = Owed(t)[q] /\ Paying(t)'[q] = Paying(t)[q]
  BY DEF Owed, Paying
<1>4. IsFiniteSet(Refunders)
  BY ConstantsAssumption
<1>5. \A f, g : /\ \A q \in Refunders : f[q] \in Int /\ g[q] \in Int
                /\ \A q \in Refunders \ {r} : g[q] = f[q]
                => SumFunctionOnSet(g, Refunders)
                       = SumFunctionOnSet(f, Refunders) + g[r] - f[r]
  BY <1>4, SumChanges
<1>6. SumFunctionOnSet(Owed(t)', Refunders)
          = SumFunctionOnSet(Owed(t), Refunders) + Owed(t)'[r] - Owed(t)[r]
  BY <1>1, <1>2, <1>3, <1>5
<1>7. SumFunctionOnSet(Paying(t)', Refunders)
          = SumFunctionOnSet(Paying(t), Refunders) + Paying(t)'[r] - Paying(t)[r]
  BY <1>1, <1>2, <1>3, <1>5
<1> QED
  BY <1>6, <1>7 DEF OwedInAll, PayingInAll

LEMMA InitRefundInv == Init => RefundInv
<1> SUFFICES ASSUME Init
             PROVE  RefundInv
  OBVIOUS
<1>1. refund \in [Refunders -> Refund]
  BY ConstantsAssumption DEF Init, NoRefund, Refund
<1>2. \A t : OwedInAll(t) = 0
  <2> TAKE t
  <2>1. \A r \in Refunders : Owed(t)[r] \in 0..0
    BY DEF Init, NoRefund, Owed
  <2>2. IsFiniteSet(Refunders) /\ Cardinality(Refunders) \in Nat
    BY ConstantsAssumption, FS_CardinalityType
  <2>3. OwedInAll(t) \in Nat /\ OwedInAll(t) <= 0 * Cardinality(Refunders)
    BY <2>1, <2>2, SumBounds DEF OwedInAll
  <2> QED
    BY <2>2, <2>3
<1>3. \A t : PayingInAll(t) \in Nat /\ PayingInAll(t) <= Amount * Cardinality(Refunders)
  BY <1>1, RefundSums
<1>4. Amount * Cardinality(Refunders) \in Nat
  BY ConstantsAssumption, FS_CardinalityType
<1> QED
  BY <1>2, <1>3, <1>4 DEF Init, RefundInv, NoRefund

\* Steps of one request, by what they do to its record and to the two sums of
\* its charge.
LEMMA RefundStepKeeps ==
    ASSUME RefundHasCharge, RefundHasCharge', RefundInv, NEW r \in Refunders,
           \A q \in Refunders \ {r} : refund'[q] = refund[q],
           refund'[r].pc = "idle" => refund'[r].amount = 0,
           refunded' \in [Txns -> Nat], returned' \in [Txns -> Nat],
           \A t \in Txns : charge'[t] # "refunded" => refunded'[t] = 0,
           \A t \in Txns :
               refunded'[t] - refunded[t] + Owed(t)'[r] - Owed(t)[r]
                   <= returned'[t] - returned[t],
           \A t \in Txns :
               \/ refunded'[t] = 0
               \/ refunded'[t] - refunded[t] + Paying(t)'[r] - Paying(t)[r] <= 0
    PROVE  RefundInv'
<1>1. refund \in [Refunders -> Refund] /\ refund' \in [Refunders -> Refund]
  BY DEF RefundHasCharge
<1>2. \A q \in Refunders : refund'[q].pc = "idle" => refund'[q].amount = 0
  BY DEF RefundInv
<1>3. Amount * Cardinality(Refunders) \in Nat
  BY ConstantsAssumption, FS_CardinalityType
<1>4. ASSUME NEW t \in Txns
      PROVE  /\ refunded'[t] + OwedInAll(t)' <= returned'[t]
             /\ refunded'[t] + PayingInAll(t)' <= Amount * Cardinality(Refunders)
  <2>1. /\ OwedInAll(t)' = OwedInAll(t) + Owed(t)'[r] - Owed(t)[r]
        /\ PayingInAll(t)' = PayingInAll(t) + Paying(t)'[r] - Paying(t)[r]
    BY <1>1, RefundSumsChange
  <2>2. /\ OwedInAll(t) \in Nat /\ PayingInAll(t) \in Nat
        /\ Owed(t)[r] \in Nat /\ Paying(t)[r] \in Nat
    BY <1>1, RefundSums, ConstantsAssumption
  <2>3. Owed(t)'[r] \in Nat /\ Paying(t)'[r] \in Nat
    <3>1. refund'[r].amount \in Nat
      BY <1>1, ConstantsAssumption DEF Refund
    <3> QED
      BY <3>1 DEF Owed, Paying
  <2>4. PayingInAll(t)' \in Nat /\ PayingInAll(t)' <= Amount * Cardinality(Refunders)
    <3>1. \A q \in Refunders : Paying(t)'[q] \in 0..Amount
      <4> TAKE q \in Refunders
      <4>1. refund'[q].amount \in 0..Amount /\ 0 \in 0..Amount
        BY <1>1, ConstantsAssumption DEF Refund
      <4> QED
        BY <4>1 DEF Paying
    <3>2. IsFiniteSet(Refunders) /\ Amount \in Nat
      BY ConstantsAssumption
    <3> QED
      BY <3>1, <3>2, SumBounds DEF PayingInAll
  <2>5. /\ refunded[t] + OwedInAll(t) <= returned[t]
        /\ refunded[t] + PayingInAll(t) <= Amount * Cardinality(Refunders)
        /\ refunded[t] \in Nat /\ returned[t] \in Nat
        /\ refunded'[t] \in Nat /\ returned'[t] \in Nat
    BY DEF RefundInv
  <2>6. /\ refunded'[t] - refunded[t] + Owed(t)'[r] - Owed(t)[r]
               <= returned'[t] - returned[t]
        /\ \/ refunded'[t] = 0
           \/ refunded'[t] - refunded[t] + Paying(t)'[r] - Paying(t)[r] <= 0
    OBVIOUS
  <2>7. refunded'[t] + OwedInAll(t)' <= returned'[t]
    BY <2>1, <2>2, <2>3, <2>5, <2>6
  <2>8. refunded'[t] + PayingInAll(t)' <= Amount * Cardinality(Refunders)
    BY <1>3, <2>1, <2>2, <2>3, <2>4, <2>5, <2>6
  <2> QED
    BY <2>7, <2>8
<1> QED
  BY <1>2, <1>4 DEF RefundInv

\* The steps of a refund: it is let in only while its charge is not refunded,
\* and what it puts on record the gateway has paid back before.
LEMMA RefundReadKeeps ==
    ASSUME RefundHasCharge, RefundHasCharge', RefundInv, NEW r \in Refunders,
           NEW u \in Txns, NEW a \in 1..Amount, RefundRead(r, u, a)
    PROVE  RefundInv'
<1>1. /\ refund[r].pc = "idle" /\ charge[u] = "succeeded" /\ charge' = charge
      /\ refund' = [refund EXCEPT ![r] = [pc |-> "gateway", txn |-> u,
                                          amount |-> a, try |-> 1]]
      /\ UNCHANGED <<refunded, returned>>
  BY DEF RefundRead, IsRefundable, hookVars
<1>2. /\ \A q \in Refunders \ {r} : refund'[q] = refund[q]
      /\ refund'[r].pc = "gateway" /\ refund'[r].txn = u
      /\ refund[r].amount = 0
  BY <1>1 DEF RefundHasCharge, RefundInv
<1>3. /\ refunded \in [Txns -> Nat] /\ returned \in [Txns -> Nat]
      /\ \A t \in Txns : charge[t] # "refunded" => refunded[t] = 0
  BY DEF RefundInv
<1>4. \A t \in Txns : Owed(t)[r] = 0 /\ Owed(t)'[r] = 0
  BY <1>1, <1>2 DEF Owed
<1>5. \A t \in Txns \ {u} : Paying(t)'[r] = 0 /\ Paying(t)[r] = 0
  BY <1>2 DEF Paying
<1>6. refunded'[u] = 0
  BY <1>1, <1>3
<1>7. \A t \in Txns :
          \/ refunded'[t] = 0
          \/ refunded'[t] - refunded[t] + Paying(t)'[r] - Paying(t)[r] <= 0
  BY <1>1, <1>3, <1>5, <1>6
<1>8. \A t \in Txns :
          refunded'[t] - refunded[t] + Owed(t)'[r] - Owed(t)[r]
              <= returned'[t] - returned[t]
  BY <1>1, <1>3, <1>4
<1>9. refund'[r].pc = "idle" => refund'[r].amount = 0
  BY <1>2
<1>10. /\ refunded' \in [Txns -> Nat] /\ returned' \in [Txns -> Nat]
       /\ \A t \in Txns : charge'[t] # "refunded" => refunded'[t] = 0
  BY <1>1, <1>3
<1> QED
  BY <1>2, <1>7, <1>8, <1>9, <1>10, RefundStepKeeps

LEMMA GatewayStepKeeps ==
    ASSUME RefundHasCharge, RefundHasCharge', RefundInv, NEW r \in Refunders,
           GatewayRefunds(r) \/ AnswerLost(r)
    PROVE  RefundInv'
<1>1. PICK u \in Txns, a \in Nat : u = refund[r].txn /\ a = refund[r].amount
  BY ConstantsAssumption DEF GatewayRefunds, AnswerLost, RefundHasCharge, Refund
<1>2. /\ refund[r].pc = "gateway" /\ UNCHANGED <<charge, refunded>>
      /\ returned' \in {returned, [returned EXCEPT ![u] = @ + a]}
  BY <1>1 DEF GatewayRefunds, AnswerLost, PayBack, hookVars
<1>3. /\ \A q \in Refunders \ {r} : refund'[q] = refund[q]
      /\ \/ refund'[r].txn = u /\ refund'[r].amount = a /\ refund'[r].pc # "idle"
         \/ refund'[r].pc = "idle" /\ refund'[r].amount = 0
      /\ refund'[r].pc = "record" => returned' = [returned EXCEPT ![u] = @ + a]
  <2>1. CASE GatewayRefunds(r)
    BY <1>1, <2>1 DEF GatewayRefunds, Accepted, PayBack, RefundHasCharge, Refund
  <2>2. CASE AnswerLost(r) /\ refund[r].try < Attempts
    <3>1. refund' = [refund EXCEPT ![r].try = @ + 1]
      BY <2>2 DEF AnswerLost, AfterLostAnswer
    <3>2. refund'[r].pc = "gateway"
      BY <1>2, <3>1 DEF RefundHasCharge, Refund
    <3>3. refund'[r].txn = u /\ refund'[r].amount = a
      BY <1>1, <3>1 DEF RefundHasCharge, Refund
    <3> QED
      BY <3>1, <3>2, <3>3 DEF RefundHasCharge
  <2>3. CASE AnswerLost(r) /\ ~(refund[r].try < Attempts)
    BY <2>3 DEF AnswerLost, AfterLostAnswer, RefundHasCharge, NoRefund
  <2> QED
    BY <2>1, <2>2, <2>3
<1>4. /\ refunded \in [Txns -> Nat] /\ returned \in [Txns -> Nat]
      /\ \A t \in Txns : charge[t] # "refunded" => refunded[t] = 0
  BY DEF RefundInv
<1>5. /\ returned' \in [Txns -> Nat]
      /\ \A t \in Txns : returned[t] <= returned'[t]
  BY <1>1, <1>2, <1>4
<1>6. \A t \in Txns : Owed(t)[r] = 0 /\ Paying(t)[r] = IF t = u THEN a ELSE 0
  BY <1>1, <1>2 DEF Owed, Paying
<1>7. \A t \in Txns : Paying(t)'[r] <= Paying(t)[r] /\ Paying(t)'[r] \in Nat
  BY <1>1, <1>3, <1>6 DEF Paying
<1>8. \A t \in Txns : Owed(t)'[r] <= returned'[t] - returned[t] /\ Owed(t)'[r] \in Nat
  <2> TAKE t \in Txns
  <2>1. CASE refund'[r].pc = "record" /\ t = u
    BY <1>1, <1>3, <1>4, <2>1 DEF Owed
  <2>2. CASE refund'[r].pc # "record" \/ t # u
    <3>1. Owed(t)'[r] = 0
      BY <1>3, <2>2 DEF Owed
    <3> QED
      BY <3>1, <1>4, <1>5
  <2> QED
    BY <2>1, <2>2
<1>9. \A t \in Txns :
          \/ refunded'[t] = 0
          \/ refunded'[t] - refunded[t] + Paying(t)'[r] - Paying(t)[r] <= 0
  <2> TAKE t \in Txns
  <2>1. Paying(t)[r] \in Nat /\ refunded[t] \in Nat /\ refunded'[t] = refunded[t]
    BY <1>1, <1>2, <1>4, <1>6
  <2> QED
    BY <1>7, <2>1
<1>10. \A t \in Txns :
           refunded'[t] - refunded[t] + Owed(t)'[r] - Owed(t)[r]
               <= returned'[t] - returned[t]
  <2> TAKE t \in Txns
  <2>1. /\ Owed(t)[r] = 0 /\ refunded[t] \in Nat /\ refunded'[t] = refunded[t]
        /\ returned[t] \in Nat /\ returned'[t] \in Nat
    BY <1>2, <1>4, <1>5, <1>6
  <2> QED
    BY <1>8, <2>1
<1>11. refund'[r].pc = "idle" => refund'[r].amount = 0
  BY <1>3
<1>12. /\ refunded' \in [Txns -> Nat]
       /\ \A t \in Txns : charge'[t] # "refunded" => refunded'[t] = 0
  BY <1>2, <1>4
<1> QED
  BY <1>3, <1>5, <1>9, <1>10, <1>11, <1>12, RefundStepKeeps

LEMMA RefundEndKeeps ==
    ASSUME IInv, RefundHasCharge, RefundHasCharge', RefundInv, NEW r \in Refunders,
           CommitRefund(r) \/ RefundFails(r)
    PROVE  RefundInv'
<1>1. PICK u \in Txns, a \in Nat : u = refund[r].txn /\ a = refund[r].amount
  BY ConstantsAssumption DEF CommitRefund, RefundFails, RefundHasCharge, Refund
<1>2. /\ \A q \in Refunders \ {r} : refund'[q] = refund[q]
      /\ refund'[r].pc = "idle" /\ refund'[r].amount = 0
      /\ returned' = returned
  BY DEF CommitRefund, RefundFails, RefundHasCharge, NoRefund
<1>3. /\ refunded \in [Txns -> Nat] /\ returned \in [Txns -> Nat]
      /\ \A t \in Txns : charge[t] # "refunded" => refunded[t] = 0
  BY DEF RefundInv
<1>4. \A t \in Txns : /\ Owed(t)'[r] = 0 /\ Paying(t)'[r] = 0
                      /\ Paying(t)[r] = IF t = u THEN a ELSE 0
                      /\ Owed(t)[r] \in Nat
  BY <1>1, <1>2 DEF Owed, Paying
<1>5. \/ /\ refunded' = [refunded EXCEPT ![u] = @ + a]
         /\ charge' = [charge EXCEPT ![u] = "refunded"]
         /\ Owed(u)[r] = a
      \/ refunded' = refunded /\ charge' = charge
  <2>1. CASE CommitRefund(r)
    BY <1>1, <2>1 DEF CommitRefund, MarksRefunded, Owed
  <2>2. CASE RefundFails(r)
    BY <2>2 DEF RefundFails, hookVars
  <2> QED
    BY <2>1, <2>2
<1>6. /\ refunded' \in [Txns -> Nat]
      /\ \A t \in Txns : charge'[t] # "refunded" => refunded'[t] = 0
  BY <1>1, <1>3, <1>5 DEF IInv, Typed
<1>7. \A t \in Txns : /\ refunded'[t] - refunded[t] <= Owed(t)[r]
                      /\ refunded'[t] - refunded[t] <= Paying(t)[r]
  BY <1>1, <1>3, <1>4, <1>5
<1>8. \A t \in Txns :
          /\ refunded'[t] - refunded[t] + Owed(t)'[r] - Owed(t)[r]
                 <= returned'[t] - returned[t]
          /\ refunded'[t] - refunded[t] + Paying(t)'[r] - Paying(t)[r] <= 0
  <2> TAKE t \in Txns
  <2>1. /\ refunded[t] \in Nat /\ refunded'[t] \in Nat
        /\ Owed(t)[r] \in Nat /\ Paying(t)[r] \in Nat
        /\ returned[t] \in Nat /\ returned'[t] = returned[t]
    BY <1>1, <1>2, <1>3, <1>4, <1>6
  <2> QED
    BY <1>4, <1>7, <2>1
<1> QED
  BY <1>2, <1>3, <1>6, <1>8, RefundStepKeeps

\* Webhooks and the rest do not touch a refund, and charge only what has no
\* charge yet.
LEMMA OthersKeepRefundInv ==
    ASSUME RefundInv, UNCHANGED moneyVars,
           \A t \in Txns : charge'[t] # "refunded" => charge[t] # "refunded"
    PROVE  RefundInv'
<1>1. \A t : OwedInAll(t)' = OwedInAll(t) /\ PayingInAll(t)' = PayingInAll(t)
  BY DEF moneyVars, OwedInAll, PayingInAll, Owed, Paying
<1> QED
  BY <1>1 DEF moneyVars, RefundInv

LEMMA StepRefundInv ==
    IInv /\ RefundHasCharge /\ RefundInv /\ [Next]_vars => RefundInv'
<1> SUFFICES ASSUME IInv, RefundHasCharge, RefundInv, [Next]_vars
             PROVE  RefundInv'
  OBVIOUS
<1>1. RefundHasCharge'
  BY StepRefundHasCharge
<1>2. CASE UNCHANGED moneyVars
  <2>1. \A t \in Txns : charge'[t] # "refunded" => charge[t] # "refunded"
    <3>1. CASE \E h \in Hooks : CommitWebhook(h)
      <4>1. PICK u : charge' = AddsCharge(u)
        BY <3>1 DEF CommitWebhook
      <4> QED
        BY <4>1 DEF AddsCharge, IInv, Typed
    <3>2. CASE \E r \in Refunders : CommitRefund(r)
      BY <3>2 DEF CommitRefund, MarksRefunded, IInv, Typed
    <3>3. CASE UNCHANGED charge
      BY <3>3
    <3> QED
      BY <3>1, <3>2, <3>3 DEF Next, vars, hookVars, OpenSession, CancelOrder,
         Pay, Receive, ReadOrder, ReadSession, NoSession, AnswerWebhook,
         WebhookFails, WebhookCrashes, RefundRead, GatewayRefunds, AnswerLost,
         RefundFails
  <2> QED
    BY <1>2, <2>1, OthersKeepRefundInv
<1>3. CASE \E r \in Refunders, t \in Txns, a \in 1..Amount : RefundRead(r, t, a)
  BY <1>1, <1>3, RefundReadKeeps
<1>4. CASE \E r \in Refunders : \/ GatewayRefunds(r) \/ AnswerLost(r)
                                \/ CommitRefund(r) \/ RefundFails(r)
  BY <1>1, <1>4, GatewayStepKeeps, RefundEndKeeps
<1> QED
  BY <1>2, <1>3, <1>4 DEF Next, vars, moneyVars, OpenSession, CancelOrder,
     Pay, Receive, ReadOrder, ReadSession, NoSession, CommitWebhook, AnswerWebhook,
     WebhookFails, WebhookCrashes

\* What is on record as refunded the gateway has paid back, and requests that
\* race for one charge refund it once each at most (payments.md, invariant 1,
\* as far as the code keeps it).
THEOREM RefundsAreBounded == Spec => []RefundsAddUp
<1>1. IInv /\ RefundHasCharge /\ RefundInv => RefundsAddUp
  <2> SUFFICES ASSUME RefundHasCharge, RefundInv, NEW t \in Txns
               PROVE  /\ refunded[t] <= returned[t]
                      /\ refunded[t] <= Amount * Cardinality(Refunders)
    BY DEF RefundsAddUp
  <2>1. /\ OwedInAll(t) \in Nat /\ PayingInAll(t) \in Nat
        /\ refunded[t] \in Nat /\ returned[t] \in Nat
        /\ Amount * Cardinality(Refunders) \in Nat
    BY RefundSums, ConstantsAssumption, FS_CardinalityType DEF RefundHasCharge, RefundInv
  <2>2. /\ refunded[t] + OwedInAll(t) <= returned[t]
        /\ refunded[t] + PayingInAll(t) <= Amount * Cardinality(Refunders)
    BY DEF RefundInv
  <2> QED
    BY <2>1, <2>2
<1> QED
  BY <1>1, SpecIInv, InitRefundInv, StepRefundInv, PTL DEF Spec

-----------------------------------------------------------------------------
(* Types *)

\* A webhook is delivered MaxDeliveries times at the most.
DeliveriesAreCapped == sent \in [Txns -> 0..MaxDeliveries]

LEMMA StepDeliveriesAreCapped ==
    DeliveriesAreCapped /\ [Next]_vars => DeliveriesAreCapped'
<1> SUFFICES ASSUME DeliveriesAreCapped, [Next]_vars
             PROVE  DeliveriesAreCapped'
  OBVIOUS
<1>1. ASSUME NEW h \in Hooks, NEW t \in Txns, Receive(h, t)
      PROVE  DeliveriesAreCapped'
  <2>1. sent[t] + 1 \in 0..MaxDeliveries
    BY <1>1, ConstantsAssumption DEF Receive, DeliveriesAreCapped
  <2> QED
    BY <1>1, <2>1 DEF Receive, DeliveriesAreCapped
<1>2. CASE UNCHANGED sent
  BY <1>2 DEF DeliveriesAreCapped
<1> QED
  BY <1>1, <1>2 DEF Next, vars, hookVars, moneyVars, OpenSession, CancelOrder,
     Pay, ReadOrder, ReadSession, NoSession, CommitWebhook, AnswerWebhook,
     WebhookFails, WebhookCrashes, RefundRead, GatewayRefunds, AnswerLost,
     CommitRefund, RefundFails

\* Orders, sessions, rows and requests have the values they may have: a
\* refund in progress never retries beyond Attempts nor pays beyond the
\* charge.
THEOREM TypeCorrect == Spec => []TypeOK
<1>1. Init => DeliveriesAreCapped
  BY ConstantsAssumption DEF Init, DeliveriesAreCapped
<1>2. IInv /\ RefundHasCharge /\ RefundInv /\ DeliveriesAreCapped => TypeOK
  BY DEF IInv, Typed, RefundHasCharge, RefundInv, DeliveriesAreCapped, TypeOK
<1> QED
  BY <1>1, <1>2, SpecIInv, StepDeliveriesAreCapped, InitRefundInv, StepRefundInv,
     PTL DEF Spec
=============================================================================
