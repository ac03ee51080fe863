------------------------------- MODULE Ledger -------------------------------
(***************************************************************************)
(* The money of one restaurant in one currency: settlements of delivered   *)
(* orders (DeliveryLifecycleService.deliver with SettlementService) credit *)
(* its balance, payouts (FinanceService.recordPayout) debit it, both write *)
(* the `transactions` table.                                               *)
(*                                                                         *)
(* A delivery holds the lock of the order row from its UPDATE to its       *)
(* commit, and nothing else touches the settlement's rows of that order:   *)
(* it is one action.  A payout is several, around the FOR UPDATE lock of   *)
(* the balance row.  A balance row that does not exist and one of 0 are    *)
(* the same to every handler: they differ only below a payout of 0, which  *)
(* CreatePayoutRequestDTO refuses.                                         *)
(***************************************************************************)
EXTENDS Integers, Sequences, FiniteSets, Functions

CONSTANTS Orders,          \* picked orders of the restaurant
          Couriers,        \* slots of `delivered` requests in progress
          Payers,          \* slots of payout requests in progress
          Keys,            \* Idempotency-Key headers of payout requests
          Amounts,         \* payout amounts
          Bill,            \* order -> method, subtotal, serviceFee, deliveryFee
          CommissionBps,   \* of the branch, as the core service has it
          ShareBps,        \* env.delivery.agentEarningShareBps
          Nobody           \* no order, no key, no lock holder

Bills == [method : {"cod", "online"}, subtotal : Nat, serviceFee : Nat,
          deliveryFee : Nat, total : Nat]

ASSUME ConstantsAssumption ==
    /\ Amounts \subseteq Nat \ {0}
    /\ Bill \in [Orders -> Bills]
    /\ CommissionBps \in Nat /\ CommissionBps <= 10000
    /\ ShareBps \in Nat /\ ShareBps <= 10000
    /\ Nobody \notin Orders \cup Payers

VARIABLES status,    \* order -> "picked" or "delivered"
          balance,   \* restaurant_balances.balance
          ledger,    \* rows of transactions
          earnings,  \* rows of agent_earnings
          outbox,    \* order.delivered events
          courier,   \* slot -> order it has read as picked, or Nobody
          payer,     \* slot -> the payout in progress
          lock       \* the payout that holds the balance row, or Nobody

vars == <<status, balance, ledger, earnings, outbox, courier, payer, lock>>

\* findTransactionByOrderAndType looks at order and type; key is the
\* idempotency_key, which the table keeps unique.
Entry(type, o, key, amount) ==
    [type |-> type, order |-> o, key |-> key, amount |-> amount]

IdlePayout == [pc |-> "idle", key |-> Nobody, amount |-> 0]

TypeOK ==
    /\ status \in [Orders -> {"picked", "delivered"}]
    /\ balance \in Int
    /\ \A t \in ledger : t.order \in Orders \cup {Nobody} /\ t.amount \in Nat \ {0}
    /\ earnings \subseteq [order : Orders, amount : Nat \ {0}]
    /\ outbox \in Seq([order : Orders, commission : Nat])
    /\ courier \in [Couriers -> Orders \cup {Nobody}]
    /\ payer \in [Payers -> [pc : {"idle", "checked", "locked"},
                             key : Keys \cup {Nobody}, amount : Amounts \cup {0}]]
    /\ lock \in Payers \cup {Nobody}

Init == /\ status = [o \in Orders |-> "picked"]
        /\ balance = 0
        /\ ledger = {}
        /\ earnings = {}
        /\ outbox = <<>>
        /\ courier = [c \in Couriers |-> Nobody]
        /\ payer = [p \in Payers |-> IdlePayout]
        /\ lock = Nobody

-----------------------------------------------------------------------------
(* settleDeliveredOrder *)

\* A share of n in basis points, rounded down.
Share(n, bps) == (n * bps) \div 10000

\* What getBranch makes of the rate: it is 0 when the core service does not
\* answer.
Rates == {CommissionBps, 0}

Commission(o, bps) == Share(Bill[o].subtotal, bps)
Earning(o) == Share(Bill[o].deliveryFee, ShareBps)

Booked(o, type) == \E t \in ledger : t.order = o /\ t.type = type

\* A positive amount is booked unless the order has a row of that type.
EntryOnce(o, type, key, amount) ==
    IF amount > 0 /\ ~Booked(o, type)
    THEN {Entry(type, o, <<key, o>>, amount)} ELSE {}

\* Mistaken variant: the commission is booked as of the branch's rate though
\* the rate could not be read.
EntriesAtFullRate(o, commission) ==
    EntryOnce(o, "commission", "commission", Commission(o, CommissionBps))

\* The delivery fee is an adjustment like the service fee, and is looked for
\* after it: it finds the service fee's row.
Entries(o, commission) ==
    LET fee == EntryOnce(o, "adjustment", "service-fee", Bill[o].serviceFee)
    IN  (IF Bill[o].method = "cod"
         THEN EntryOnce(o, "cod_collection", "cod-collect", Bill[o].total) ELSE {})
        \cup EntryOnce(o, "commission", "commission", commission)
        \cup fee
        \cup (IF fee = {}
              THEN EntryOnce(o, "adjustment", "delivery-fee", Bill[o].deliveryFee)
              ELSE {})

\* lockBalance waits for whoever has the row.
LockIsFree == lock = Nobody

\* upsertBalance, by an amount that may be negative.
Upsert(delta) == balance' = balance + delta

\* The balance is locked and moves only if the net is not 0.
Credit(net) ==
    /\ net # 0 => LockIsFree
    /\ Upsert(net)

EarningRow(o) == [order |-> o, amount |-> Earning(o)]

\* insertEarning: ON CONFLICT (order_id) DO NOTHING.
Earned(o) == \E e \in earnings : e.order = o

\* A positive earning is inserted.
EarningOnce(o) ==
    IF Earning(o) > 0 /\ ~Earned(o) THEN {EarningRow(o)} ELSE {}

\* The order.delivered event of a settlement.
Announces(o, commission) ==
    outbox' = Append(outbox, [order |-> o, commission |-> commission])

-----------------------------------------------------------------------------
(* deliver *)

DeliverRead(c, o) ==
    /\ courier[c] = Nobody
    /\ status[o] = "picked"
    /\ courier' = [courier EXCEPT ![c] = o]
    /\ UNCHANGED <<status, balance, ledger, earnings, outbox, payer, lock>>

\* Update and settlement in one transaction; the update does not look at the
\* status again.
Deliver(c) ==
    LET o == courier[c]
    IN  /\ o # Nobody
        /\ \E bps \in Rates :
              LET commission == Commission(o, bps)
              IN  /\ Credit(Bill[o].subtotal - commission)
                  /\ ledger' = ledger \cup Entries(o, commission)
                  /\ Announces(o, commission)
        /\ earnings' = earnings \cup EarningOnce(o)
        /\ status' = [status EXCEPT ![o] = "delivered"]
        /\ courier' = [courier EXCEPT ![c] = Nobody]
        /\ UNCHANGED <<payer, lock>>

-----------------------------------------------------------------------------
(* recordPayout *)

Recorded(k) == \E t \in ledger : t.key = k

\* A key that has its row gets that row as its answer; another goes on.
PayoutRead(p, k, amount) ==
    /\ payer[p].pc = "idle"
    /\ ~Recorded(k)
    /\ payer' = [payer EXCEPT ![p] = [pc |-> "checked", key |-> k, amount |-> amount]]
    /\ UNCHANGED <<status, balance, ledger, earnings, outbox, courier, lock>>

\* Mistaken variant: the balance is read without FOR UPDATE.
PayoutLockNothing(p) ==
    /\ payer[p].pc = "checked"
    /\ balance >= payer[p].amount
    /\ payer' = [payer EXCEPT ![p].pc = "locked"]
    /\ UNCHANGED <<status, balance, ledger, earnings, outbox, courier, lock>>

\* lockBalance, and the check of what it read.
PayoutLock(p) ==
    /\ payer[p].pc = "checked"
    /\ LockIsFree
    /\ balance >= payer[p].amount
    /\ payer' = [payer EXCEPT ![p].pc = "locked"]
    /\ lock' = p
    /\ UNCHANGED <<status, balance, ledger, earnings, outbox, courier>>

\* The transaction ends, and its lock with it.
EndPayout(p) ==
    /\ payer' = [payer EXCEPT ![p] = IdlePayout]
    /\ lock' = IF lock = p THEN Nobody ELSE lock

\* Mistaken variant: a key that was recorded meanwhile is passed over, and
\* the debit commits.
PayoutCommitAnyway(p) ==
    /\ payer[p].pc = "locked"
    /\ Upsert(-payer[p].amount)
    /\ ledger' = IF Recorded(payer[p].key) THEN ledger
                 ELSE ledger \cup {Entry("payout", Nobody, payer[p].key, payer[p].amount)}
    /\ EndPayout(p)
    /\ UNCHANGED <<status, earnings, outbox, courier>>

\* Debit and row commit together.  The insert ignores a conflict on the key
\* and returns no row, on which createTransaction throws: a payout whose key
\* was recorded meanwhile can only fail.
PayoutCommit(p) ==
    /\ payer[p].pc = "locked"
    /\ ~Recorded(payer[p].key)
    /\ Upsert(-payer[p].amount)
    /\ ledger' = ledger \cup {Entry("payout", Nobody, payer[p].key, payer[p].amount)}
    /\ EndPayout(p)
    /\ UNCHANGED <<status, earnings, outbox, courier>>

\* Refused, rolled back, or the server is gone.
PayoutFails(p) ==
    /\ payer[p].pc # "idle"
    /\ EndPayout(p)
    /\ UNCHANGED <<status, balance, ledger, earnings, outbox, courier>>

DeliverFails(c) ==
    /\ courier[c] # Nobody
    /\ courier' = [courier EXCEPT ![c] = Nobody]
    /\ UNCHANGED <<status, balance, ledger, earnings, outbox, payer, lock>>

Next == \/ \E c \in Couriers, o \in Orders : DeliverRead(c, o)
        \/ \E c \in Couriers : Deliver(c) \/ DeliverFails(c)
        \/ \E p \in Payers, k \in Keys, amount \in Amounts : PayoutRead(p, k, amount)
        \/ \E p \in Payers : PayoutLock(p) \/ PayoutCommit(p) \/ PayoutFails(p)

Spec == Init /\ [][Next]_vars

-----------------------------------------------------------------------------
(* Properties *)

Payouts == {t \in ledger : t.type = "payout"}
AmountOf == [t \in Payouts |-> t.amount]
PaidOut == SumFunction(AmountOf)

\* What the i-th event announced as credited.
NetOf == [i \in 1..Len(outbox) |-> Bill[outbox[i].order].subtotal - outbox[i].commission]

\* restaurant-finance.md 6.1: the balance never goes negative, however
\* payouts, settlements and failures interleave on the balance row.
BalanceNonNegative == balance >= 0

\* The balance is what the order.delivered events announced, less the payouts
\* on record: no transaction credits without announcing, debits without a row,
\* or debits twice under one key.
BalanceMatchesEvents == balance = SumFunction(NetOf) - PaidOut

\* A commission on record was deducted from a credit of its order, and a
\* credit that deducted one left the order with a commission on record, even
\* when the core service fails for one of two concurrent settlements.
CommissionIsDeducted ==
    /\ \A t \in ledger : t.type = "commission"
          => \E i \in 1..Len(outbox) : /\ outbox[i].order = t.order
                                       /\ outbox[i].commission = t.amount
    /\ \A i \in 1..Len(outbox) : outbox[i].commission > 0
          => Booked(outbox[i].order, "commission")

=============================================================================
