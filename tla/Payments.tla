------------------------------ MODULE Payments ------------------------------
(***************************************************************************)
(* Online payments: the session of an order, the gateway's transactions    *)
(* and webhooks, their processing, and refunds (app/payment).  A webhook   *)
(* is deduplicated by a row that is committed before it is processed; the  *)
(* processing is one transaction, whose two reads are separate steps and   *)
(* whose writes are made under the lock of the session row.  A refund      *)
(* calls the gateway in the middle of its transaction.                     *)
(*                                                                         *)
(* The gateway is external: it repeats and reorders webhooks, answers late *)
(* or not at all, and does not check amounts for the service.  Webhooks    *)
(* with a wrong signature, of another event type or of a provider that is  *)
(* disabled return before they write anything and are left out.            *)
(***************************************************************************)
EXTENDS Naturals, FiniteSets

CONSTANTS Orders,         \* online orders, placed with status pending_payment
          Txns,           \* payment attempts, named by their transactionId
          Hooks,          \* webhook requests that run at a time
          Refunders,      \* refund requests that run at a time
          Amount,         \* total of an order, in minor units
          Attempts,       \* tries of retry() around the gateway's refund
          MaxDeliveries,  \* bound on the deliveries of one webhook
          MaxReturned     \* bound: no refund starts once so much was paid back

ASSUME ConstantsAssumption ==
    /\ Amount \in Nat \ {0}
    /\ Attempts \in Nat \ {0}
    /\ MaxDeliveries \in Nat
    /\ MaxReturned \in Nat
    /\ IsFiniteSet(Txns)
    /\ IsFiniteSet(Refunders)

VARIABLES order,      \* orders.status
          session,    \* payment_sessions.status of the order's session
          gateway,    \* the gateway's transactions (external)
          sent,       \* deliveries of a transaction's webhook so far
          event,      \* payment_webhook_events row of a transaction
          charge,     \* charge row of a transaction
          completed,  \* payment.completed events of a transaction
          announced,  \* order.placed events of an order
          refunded,   \* sum of the refund rows of a charge
          returned,   \* sum the gateway has paid back (external)
          hook,       \* webhook requests in progress
          refund      \* refund requests in progress

vars == <<order, session, gateway, sent, event, charge, completed,
          announced, refunded, returned, hook, refund>>

moneyVars == <<refunded, returned, refund>>
hookVars == <<session, event, charge, completed, announced, hook>>

OrderStates == {"pending_payment", "placed", "cancelled"}
\* pending, authorized, failed, expired and cancelled are never written.
SessionStates == {"none", "initialized", "captured"}

None == "none"
Attempt == [order : Orders \cup {None}, outcome : {"none", "SUCCESS", "FAILED"}]
NoAttempt == [order |-> None, outcome |-> "none"]

\* A charge row, if there is one: is_refunded is the second state of it.
ChargeStates == {"none", "succeeded", "refunded"}

\* "received" until processed_at is stamped, with or without process_error.
EventStates == {"none", "received", "processed", "error"}

\* status: what was read of the order.
Hook == [pc : {"idle", "order", "session", "write", "after"},
         txn : Txns \cup {None}, status : OrderStates \cup {None}]
NoHook == [pc |-> "idle", txn |-> None, status |-> None]

Refund == [pc : {"idle", "gateway", "record"}, txn : Txns \cup {None},
           amount : 0..Amount, try : 0..Attempts]
NoRefund == [pc |-> "idle", txn |-> None, amount |-> 0, try |-> 0]

TypeOK ==
    /\ order \in [Orders -> OrderStates]
    /\ session \in [Orders -> SessionStates]
    /\ gateway \in [Txns -> Attempt]
    /\ sent \in [Txns -> 0..MaxDeliveries]
    /\ event \in [Txns -> EventStates]
    /\ charge \in [Txns -> ChargeStates]
    /\ completed \in [Txns -> Nat]
    /\ announced \in [Orders -> Nat]
    /\ refunded \in [Txns -> Nat]
    /\ returned \in [Txns -> Nat]
    /\ hook \in [Hooks -> Hook]
    /\ refund \in [Refunders -> Refund]

Init ==
    /\ order = [o \in Orders |-> "pending_payment"]
    /\ session = [o \in Orders |-> "none"]
    /\ gateway = [t \in Txns |-> NoAttempt]
    /\ sent = [t \in Txns |-> 0]
    /\ event = [t \in Txns |-> "none"]
    /\ charge = [t \in Txns |-> "none"]
    /\ completed = [t \in Txns |-> 0]
    /\ announced = [o \in Orders |-> 0]
    /\ refunded = [t \in Txns |-> 0]
    /\ returned = [t \in Txns |-> 0]
    /\ hook = [h \in Hooks |-> NoHook]
    /\ refund = [r \in Refunders |-> NoRefund]

-----------------------------------------------------------------------------
(* The order, its session and the gateway *)

\* createPaymentSession.
AddsSession(o) == [session EXCEPT ![o] = "initialized"]

\* initializePaymentSession, called once per order: the gateway creates the
\* session, then the row is inserted.  A failure of either leaves "none".
OpenSession(o) ==
    /\ session[o] = "none"
    /\ session' = AddsSession(o)
    /\ UNCHANGED <<order, gateway, sent, event, charge, completed,
                   announced, hook, moneyVars>>

\* A PATCH of the order (module OrderLifecycle has the handler).
CancelOrder(o) ==
    /\ order[o] # "cancelled"
    /\ order' = [order EXCEPT ![o] = "cancelled"]
    /\ UNCHANGED <<gateway, sent, hookVars, moneyVars>>

AttemptsOf(o) == {t \in Txns : gateway[t].order = o}

\* External: the customer pays in the session; he may try again after a
\* failed attempt.
Pay(t, o) ==
    /\ session[o] # "none"
    /\ gateway[t] = NoAttempt
    /\ \A u \in AttemptsOf(o) : gateway[u].outcome = "FAILED"
    /\ \E x \in {"SUCCESS", "FAILED"} :
           gateway' = [gateway EXCEPT ![t] = [order |-> o, outcome |-> x]]
    /\ UNCHANGED <<order, sent, hookVars, moneyVars>>

-----------------------------------------------------------------------------
(* verifyAndProcessWebhook *)

\* Mistaken variant: webhooks are not deduplicated.
NeverDuplicate(t) == FALSE

\* insertWebhookEvent: ON CONFLICT (provider_id, provider_event_id) DO NOTHING.
IsDuplicate(t) == event[t] # "none"

\* The signature over the fields of the transaction: the gateway alone can
\* make it, and made it for its own transactions.
IsSigned(t) == gateway[t] # NoAttempt

\* A signed `pay` webhook arrives.  The row is committed by itself; a
\* duplicate is answered with 200 at once.
Receive(h, t) ==
    /\ hook[h].pc = "idle"
    /\ IsSigned(t)
    /\ sent[t] < MaxDeliveries
    /\ sent' = [sent EXCEPT ![t] = @ + 1]
    /\ IF IsDuplicate(t)
       THEN UNCHANGED <<event, hook>>
       ELSE /\ event' = [event EXCEPT ![t] = "received"]
            /\ hook' = [hook EXCEPT ![h] = [NoHook EXCEPT !.pc = "order",
                                                          !.txn = t]]
    /\ UNCHANGED <<order, session, gateway, charge, completed, announced,
                   moneyVars>>

OrderOf(h) == gateway[hook[h].txn].order

\* findOrderByPublicId in the transaction.
ReadOrder(h) ==
    /\ hook[h].pc = "order"
    /\ hook' = [hook EXCEPT ![h].pc = "session",
                            ![h].status = order[OrderOf(h)]]
    /\ UNCHANGED <<order, gateway, sent, session, event, charge,
                   completed, announced, moneyVars>>

\* findPaymentSessionByOrderId looks for an active session only.
IsActive(o) == session[o] = "initialized"

ReadSession(h) ==
    /\ hook[h].pc = "session"
    /\ IsActive(OrderOf(h))
    /\ hook' = [hook EXCEPT ![h].pc = "write"]
    /\ UNCHANGED <<order, gateway, sent, session, event, charge,
                   completed, announced, moneyVars>>

\* updateWebhookEventStatus without an error.
StampProcessed(h) == [event EXCEPT ![hook[h].txn] = "processed"]

\* rollback, then the row is stamped with the error; the answer is a 500.
StampError(h) == [event EXCEPT ![hook[h].txn] = "error"]

\* 404: the session was captured by a webhook of another attempt.
NoSession(h) ==
    /\ hook[h].pc = "session"
    /\ ~IsActive(OrderOf(h))
    /\ event' = StampError(h)
    /\ hook' = [hook EXCEPT ![h] = NoHook]
    /\ UNCHANGED <<order, gateway, sent, session, charge, completed,
                   announced, moneyVars>>

\* updateOrderStatus and order.placed, by the status that was read.
ToPlace(h) == IF hook[h].status = "pending_payment" THEN {OrderOf(h)} ELSE {}

\* Mistaken variant: no charge for a failed attempt, and all the rest for it.
ChargesSuccess(t) == gateway[t].outcome = "SUCCESS"

\* Every `pay` event is captured, a failed payment's too: the condition is
\* envelope.event = "pay" or status = "SUCCESS".
Charges(t) == TRUE

\* updatePaymentSessionStatus, by the id of the session.
Captures(h) == [session EXCEPT ![OrderOf(h)] = "captured"]

\* createTransaction, unless the provider's reference has a charge.
AddsCharge(t) ==
    [charge EXCEPT ![t] = IF Charges(t) /\ @ = "none" THEN "succeeded" ELSE @]

\* The rest of the transaction and its commit: session captured, charge
\* unless there is one, payment.completed, order placed, row processed.
\* If the order was placed, its branch's list is dropped from the cache next.
CommitWebhook(h) ==
    LET t == hook[h].txn IN
    /\ hook[h].pc = "write"
    /\ session' = Captures(h)
    /\ charge' = AddsCharge(t)
    /\ completed' = [completed EXCEPT ![t] = @ + 1]
    /\ order' = [o \in Orders |-> IF o \in ToPlace(h) THEN "placed" ELSE order[o]]
    /\ announced' = [o \in Orders |-> announced[o] + (IF o \in ToPlace(h) THEN 1 ELSE 0)]
    /\ event' = StampProcessed(h)
    /\ hook' = [hook EXCEPT ![h].pc = "after"]
    /\ UNCHANGED <<gateway, sent, moneyVars>>

AnswerWebhook(h) ==
    /\ hook[h].pc = "after"
    /\ hook' = [hook EXCEPT ![h] = NoHook]
    /\ UNCHANGED <<order, gateway, sent, session, event, charge, completed,
                   announced, moneyVars>>

\* An error after the row was inserted: rolled back and stamped.  Redis may
\* fail after the commit, the rollback then does nothing, but the row of the
\* payment is stamped with the error and the answer is a 500 all the same.
WebhookFails(h) ==
    /\ hook[h].pc # "idle"
    /\ hook[h].pc = "after" => ToPlace(h) # {}
    /\ event' = StampError(h)
    /\ hook' = [hook EXCEPT ![h] = NoHook]
    /\ UNCHANGED <<order, gateway, sent, session, charge, completed,
                   announced, moneyVars>>

\* The process dies: the open transaction is gone, the row stays as it was.
WebhookCrashes(h) ==
    /\ hook[h].pc # "idle"
    /\ hook' = [hook EXCEPT ![h] = NoHook]
    /\ UNCHANGED <<order, gateway, sent, session, event, charge,
                   completed, announced, moneyVars>>

-----------------------------------------------------------------------------
(* refundPayment *)

\* Mistaken variant: is_refunded is not looked at.
IsCharge(t) == charge[t] # "none"

\* A successful charge that is_refunded is not set on.
IsRefundable(t) == charge[t] = "succeeded"

RefundRead(r, t, a) ==
    /\ refund[r].pc = "idle"
    /\ IsRefundable(t)
    /\ a <= Amount
    /\ returned[t] < MaxReturned
    /\ refund' = [refund EXCEPT ![r] = [pc |-> "gateway", txn |-> t,
                                        amount |-> a, try |-> 1]]
    /\ UNCHANGED <<order, gateway, sent, hookVars, refunded, returned>>

\* Where the request goes on after an answer of the gateway.
Accepted(r) == [refund EXCEPT ![r].pc = "record"]

PayBack(r) == [returned EXCEPT ![refund[r].txn] = @ + refund[r].amount]

\* The gateway refunds and says so.
GatewayRefunds(r) ==
    /\ refund[r].pc = "gateway"
    /\ returned' = PayBack(r)
    /\ refund' = Accepted(r)
    /\ UNCHANGED <<order, gateway, sent, hookVars, refunded>>

\* retry(): up to Attempts requests, none of them with an idempotency key;
\* then success is false and the transaction is rolled back.
AfterLostAnswer(r) ==
    IF refund[r].try < Attempts THEN [refund EXCEPT ![r].try = @ + 1]
                                ELSE [refund EXCEPT ![r] = NoRefund]

\* A 5xx or a broken connection: the gateway may have refunded or not.
AnswerLost(r) ==
    /\ refund[r].pc = "gateway"
    /\ returned' \in {returned, PayBack(r)}
    /\ refund' = AfterLostAnswer(r)
    /\ UNCHANGED <<order, gateway, sent, hookVars, refunded>>

\* markTransactionAsRefunded.
MarksRefunded(t) == [charge EXCEPT ![t] = "refunded"]

\* The charge is marked refunded, whatever the amount, and a refund row
\* inserted; both are committed.
CommitRefund(r) ==
    LET t == refund[r].txn IN
    /\ refund[r].pc = "record"
    /\ charge' = MarksRefunded(t)
    /\ refunded' = [refunded EXCEPT ![t] = @ + refund[r].amount]
    /\ refund' = [refund EXCEPT ![r] = NoRefund]
    /\ UNCHANGED <<order, gateway, sent, session, event, completed,
                   announced, hook, returned>>

\* The gateway refuses (4xx), an error or a crash: nothing is committed.
RefundFails(r) ==
    /\ refund[r].pc # "idle"
    /\ refund' = [refund EXCEPT ![r] = NoRefund]
    /\ UNCHANGED <<order, gateway, sent, hookVars, refunded, returned>>

-----------------------------------------------------------------------------
Next ==
    \/ \E o \in Orders : OpenSession(o) \/ CancelOrder(o)
    \/ \E t \in Txns, o \in Orders : Pay(t, o)
    \/ \E h \in Hooks, t \in Txns : Receive(h, t)
    \/ \E h \in Hooks : \/ ReadOrder(h) \/ ReadSession(h) \/ NoSession(h)
                        \/ CommitWebhook(h) \/ AnswerWebhook(h)
                        \/ WebhookFails(h) \/ WebhookCrashes(h)
    \/ \E r \in Refunders, t \in Txns, a \in 1..Amount : RefundRead(r, t, a)
    \/ \E r \in Refunders : \/ GatewayRefunds(r) \/ AnswerLost(r)
                            \/ CommitRefund(r) \/ RefundFails(r)

Spec == Init /\ [][Next]_vars

-----------------------------------------------------------------------------
(* Properties *)

Charged == {t \in Txns : charge[t] # "none"}

\* However often and however close together the gateway repeats a webhook,
\* its transaction is completed once: payment.completed is sent once for it
\* (the deduplication of verifyAndProcessWebhook).  Two attempts to pay one
\* order are two transactions, and each may complete.
CompletedOnce == \A t \in Txns : completed[t] <= 1

\* A payment is recorded whole or not at all: a captured session has a charge
\* and a charge its captured session and its payment.completed event
\* (payments.md, invariant 3); whatever the webhook had read of the order, it
\* is pending no more; and order.placed is sent once per charge at most.
PaymentIsWhole ==
    /\ \A o \in Orders : session[o] = "captured" <=> AttemptsOf(o) \cap Charged # {}
    /\ \A t \in Txns : t \in Charged <=> completed[t] > 0
    /\ \A t \in Charged : order[gateway[t].order] # "pending_payment"
    /\ \A o \in Orders :
           announced[o] <= Cardinality(AttemptsOf(o) \cap Charged)

\* The webhook table tells the truth about money that is missing: a row
\* processed without error has its payment in the ledger, so a payment lost
\* by a crash or an error can be found there; and no payment is in the ledger
\* behind a row that was never processed.
ProcessedIsCharged ==
    \A t \in Txns : /\ event[t] = "processed" => t \in Charged
                    /\ t \in Charged => event[t] \in {"processed", "error"}

\* A refund on record was paid back by the gateway; the converse fails: an
\* answer lost or a commit that fails leaves money returned without a row.
\* The refunds of a charge add up to the charge at most (payments.md,
\* invariant 1) for each request that may run at a time: only those that had
\* read the charge before the first of them was committed get through.
RefundsAddUp ==
    \A t \in Txns : /\ refunded[t] <= returned[t]
                    /\ refunded[t] <= Amount * Cardinality(Refunders)

=============================================================================
