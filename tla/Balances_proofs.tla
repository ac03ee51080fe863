--------------------------- MODULE Balances_proofs ---------------------------
(***************************************************************************)
(* What must add up, whoever dies between two steps: the restaurant's      *)
(* balance and its movements (Ledger), the units on sale and those sold    *)
(* (Placement), the connections of a pool (ConnectionPool).  For any       *)
(* orders, bills, payouts, requests, keys, tries and pool.                 *)
(***************************************************************************)
EXTENDS Ledger, Placement, ConnectionPool, FiniteSums, SequenceTheorems

-----------------------------------------------------------------------------
(* Ledger *)

\* A payout past its check holds the lock, and the balance still covers it.
LockCoversPayout ==
    \A p \in Payers : payer[p].pc = "locked"
        => lock = p /\ balance >= payer[p].amount

\* A slot in use is at work on an amount.
PayoutsArePositive ==
    \A p \in Payers : payer[p].pc # "idle"
        => payer[p].key \in Keys /\ payer[p].amount \in Amounts

\* The inductive invariant.
IInv == /\ TypeOK
        /\ LockCoversPayout
        /\ PayoutsArePositive
        /\ BalanceNonNegative
        /\ CommissionIsDeducted
        /\ IsFiniteSet(Payouts)
        /\ BalanceMatchesEvents

-----------------------------------------------------------------------------
(* The two sums of the ledger. *)

\* No payout is recorded.
LEMMA PaidOutStays ==
    ASSUME Payouts' = Payouts
    PROVE  PaidOut' = PaidOut
BY DEF PaidOut, AmountOf

\* One more payout is recorded.
LEMMA PaidOutGrows ==
    ASSUME IInv, NEW t, t \notin ledger, t.type = "payout", t.amount \in Int,
           ledger' = ledger \cup {t}
    PROVE  /\ PaidOut \in Int /\ PaidOut' = PaidOut + t.amount
           /\ IsFiniteSet(Payouts')
<1>1. t \notin Payouts /\ Payouts' = Payouts \cup {t}
  BY DEF Payouts
<1>2. \A y \in Payouts : y.amount \in Int
  BY DEF Payouts, IInv, TypeOK
<1>3. IsFiniteSet(Payouts) /\ IsFiniteSet(Payouts')
  BY <1>1, FS_AddElement DEF IInv
<1>4. /\ DOMAIN AmountOf = Payouts
      /\ DOMAIN AmountOf' = Payouts \cup {t}
      /\ AmountOf'[t] = t.amount
      /\ \A y \in Payouts : AmountOf[y] \in Int /\ AmountOf'[y] = AmountOf[y]
  BY <1>1, <1>2 DEF AmountOf
<1>5. SumFunction(AmountOf) \in Int
      /\ SumFunction(AmountOf') = SumFunction(AmountOf) + AmountOf'[t]
  BY <1>1, <1>3, <1>4, SumGrows
<1> QED
  BY <1>3, <1>4, <1>5 DEF PaidOut

\* What is paid out is an integer.
LEMMA PaidOutType ==
    ASSUME IInv
    PROVE  PaidOut \in Int
<1>1. \A y \in Payouts : AmountOf[y] \in Int
  BY DEF Payouts, AmountOf, IInv, TypeOK
<1>2. DOMAIN AmountOf = Payouts /\ IsFiniteSet(Payouts)
  BY DEF AmountOf, IInv
<1> QED
  BY <1>1, <1>2, SumType DEF PaidOut, SumFunction

\* What is announced is an integer.
LEMMA NetType ==
    ASSUME TypeOK
    PROVE  SumFunction(NetOf) \in Int
<1> DEFINE n == Len(outbox)
<1>1. n \in Nat /\ \A i \in 1..n : outbox[i] \in [order : Orders, commission : Nat]
  BY LenProperties, ElementOfSeq DEF TypeOK
<1>2. \A x \in Orders : Bill[x].subtotal \in Nat
  BY ConstantsAssumption DEF Bills
<1>3. DOMAIN NetOf = 1..n /\ \A i \in 1..n : NetOf[i] \in Int
  BY <1>1, <1>2 DEF NetOf
<1> HIDE DEF n
<1> QED
  BY <1>1, <1>3, FS_Interval, SumType DEF SumFunction

\* What is announced, when one more event is.
LEMMA NetGrows ==
    ASSUME TypeOK, NEW o \in Orders, NEW commission \in Nat,
           outbox' = Append(outbox, [order |-> o, commission |-> commission])
    PROVE  /\ SumFunction(NetOf) \in Int
           /\ SumFunction(NetOf') = SumFunction(NetOf) + (Bill[o].subtotal - commission)
<1> DEFINE e == [order |-> o, commission |-> commission]
<1>0. PICK n \in Nat : n = Len(outbox)
  BY LenProperties DEF TypeOK
<1> DEFINE E == [order : Orders, commission : Nat]
<1>1. /\ Len(outbox') = n + 1 /\ outbox'[n + 1] = e
      /\ \A i \in 1..n : outbox'[i] = outbox[i] /\ outbox[i] \in E
  <2>1. outbox \in Seq(E) /\ e \in E /\ outbox' = Append(outbox, e)
    BY DEF TypeOK
  <2> HIDE DEF E, e
  <2> QED
    BY <1>0, <2>1, AppendProperties, ElementOfSeq
<1>2. \A x \in Orders : Bill[x].subtotal \in Nat
  BY ConstantsAssumption DEF Bills
<1>3. /\ DOMAIN NetOf = 1..n
      /\ DOMAIN NetOf' = 1..(n + 1)
      /\ NetOf'[n + 1] = Bill[o].subtotal - commission
      /\ \A i \in 1..n : NetOf[i] \in Int /\ NetOf'[i] = NetOf[i]
  BY <1>0, <1>1, <1>2 DEF NetOf
<1>4. IsFiniteSet(1..n)
  BY FS_Interval
<1>5. n + 1 \notin 1..n /\ 1..(n + 1) = (1..n) \cup {n + 1}
  OBVIOUS
<1>6. NetOf'[n + 1] \in Int
  BY <1>2, <1>3
<1>7. SumFunction(NetOf) \in Int
      /\ SumFunction(NetOf') = SumFunction(NetOf) + NetOf'[n + 1]
  BY <1>3, <1>4, <1>5, <1>6, SumGrows
<1> QED
  BY <1>3, <1>7

------------------------------------------------------------------------------

\* A share of at most 100% of an amount, rounded down.
LEMMA ShareBounds ==
    ASSUME NEW n \in Nat, NEW bps \in Nat, bps <= 10000
    PROVE  Share(n, bps) \in Nat /\ Share(n, bps) <= n
<1> DEFINE d == 10000 - bps
<1>1. d \in Nat /\ n * d \in Nat
  OBVIOUS
<1>2. n * bps \in Nat /\ n * bps = n * 10000 - n * d
  OBVIOUS
<1> HIDE DEF d
<1>3. n * bps <= n * 10000
  BY <1>1, <1>2
<1> DEFINE m == n * bps
<1>4. m \in Nat /\ m <= n * 10000
  BY <1>2, <1>3
<1> HIDE DEF m
<1>5. m \div 10000 \in Nat /\ m \div 10000 <= n
  BY <1>4
<1> QED
  BY <1>5 DEF Share, m

\* The commission of an order, at the branch's rate or at none.
LEMMA CommissionBounds ==
    ASSUME NEW o \in Orders, NEW bps \in {CommissionBps, 0}
    PROVE  /\ Commission(o, bps) \in Nat
           /\ Commission(o, bps) <= Bill[o].subtotal
           /\ Bill[o].subtotal \in Nat
<1>1. Bill[o] \in Bills /\ bps \in Nat /\ bps <= 10000
  BY ConstantsAssumption
<1>2. Bill[o].subtotal \in Nat
  BY <1>1 DEF Bills
<1>3. PICK n \in Nat : n = Bill[o].subtotal
  BY <1>2
<1>4. Share(n, bps) \in Nat /\ Share(n, bps) <= n
  BY <1>1, ShareBounds
<1> QED
  BY <1>3, <1>4 DEF Commission

\* What a settlement books: positive amounts of its own order.
LEMMA EntriesType ==
    ASSUME NEW o \in Orders, NEW commission \in Nat
    PROVE  \A t \in Entries(o, commission) :
              /\ t.order = o
              /\ t.amount \in Nat \ {0}
              /\ t.type # "payout"
              /\ t.type = "commission" => t.amount = commission
<1>1. /\ Bill[o].serviceFee \in Nat
      /\ Bill[o].deliveryFee \in Nat
      /\ Bill[o].total \in Nat
  BY ConstantsAssumption DEF Bills
<1>2. ASSUME NEW type, NEW key, NEW n \in Nat
      PROVE  \A t \in EntryOnce(o, type, key, n) :
                t.order = o /\ t.type = type /\ t.amount = n /\ n # 0
  BY DEF EntryOnce, Entry
<1> QED
  BY <1>1, <1>2 DEF Entries

\* A settlement that deducts a commission leaves it on record.
LEMMA EntriesBookCommission ==
    ASSUME NEW o \in Orders, NEW commission \in Nat \ {0},
           ledger' = ledger \cup Entries(o, commission)
    PROVE  \E t \in ledger' : t.order = o /\ t.type = "commission"
<1>1. CASE Booked(o, "commission")
  BY <1>1 DEF Booked
<1>2. CASE ~Booked(o, "commission")
  <2> DEFINE t == Entry("commission", o, <<"commission", o>>, commission)
  <2>1. t \in EntryOnce(o, "commission", "commission", commission)
    BY <1>2 DEF EntryOnce
  <2>2. t \in ledger'
    BY <2>1 DEF Entries
  <2>3. t.order = o /\ t.type = "commission"
    BY DEF Entry
  <2> QED
    BY <2>2, <2>3
<1> QED
  BY <1>1, <1>2

\* Payouts are no commissions.
LEMMA PayoutKeepsCommissions ==
    ASSUME CommissionIsDeducted, UNCHANGED outbox,
           \/ UNCHANGED ledger
           \/ \E k, n : ledger' = ledger \cup {Entry("payout", Nobody, k, n)}
    PROVE  CommissionIsDeducted'
<1>1. \A t \in ledger' : t.type = "commission" => t \in ledger
  BY DEF Entry
<1>2. ledger \subseteq ledger'
  OBVIOUS
<1> QED
  BY <1>1, <1>2 DEF CommissionIsDeducted, Booked

-----------------------------------------------------------------------------

\* Nothing is booked, claimed or locked at the start.
LEMMA InitIInv == Init => IInv
<1> SUFFICES ASSUME Init PROVE IInv
    OBVIOUS
<1> USE DEF Init
<1>1. TypeOK
  BY DEF TypeOK, IdlePayout
<1>2. LockCoversPayout /\ PayoutsArePositive
  BY DEF LockCoversPayout, PayoutsArePositive, IdlePayout
<1>3. BalanceNonNegative /\ CommissionIsDeducted
  BY DEF BalanceNonNegative, CommissionIsDeducted
<1>4. IsFiniteSet(Payouts) /\ BalanceMatchesEvents
  <2>1. Payouts = {} /\ DOMAIN AmountOf = {} /\ DOMAIN NetOf = {}
    BY DEF Payouts, AmountOf, NetOf
  <2>2. SumFunction(AmountOf) = 0 /\ SumFunction(NetOf) = 0
    BY <2>1, SumOfNone DEF SumFunction
  <2> QED
    BY <2>1, <2>2, FS_EmptySet DEF BalanceMatchesEvents, PaidOut
<1> QED
  BY <1>1, <1>2, <1>3, <1>4 DEF IInv

\* The settlement: it credits only while no payout holds the balance row, or
\* credits nothing.
LEMMA DeliverKeepsIInv ==
    ASSUME IInv, NEW c \in Couriers, Deliver(c)
    PROVE  IInv'
<1> DEFINE o == courier[c]
<1>1. o \in Orders
  BY DEF Deliver, IInv, TypeOK
<1>2. PICK bps \in Rates :
          /\ Credit(Bill[o].subtotal - Commission(o, bps))
          /\ ledger' = ledger \cup Entries(o, Commission(o, bps))
          /\ outbox' = Append(outbox, [order |-> o, commission |-> Commission(o, bps)])
  BY DEF Deliver, Announces
<1> DEFINE commission == Commission(o, bps)
           net == Bill[o].subtotal - commission
<1>3. commission \in Nat /\ net \in Nat
  BY <1>1, CommissionBounds DEF Rates
<1>4. ledger' = ledger \cup Entries(o, commission)
  BY <1>2
<1>5. /\ outbox' = Append(outbox, [order |-> o, commission |-> commission])
      /\ Credit(net)
  BY <1>2
<1>6. UNCHANGED <<payer, lock>>
  BY DEF Deliver
<1> HIDE DEF o, commission, net
<1>7. Earning(o) \in Nat
  <2>1. Bill[o].deliveryFee \in Nat
    BY <1>1, ConstantsAssumption DEF Bills
  <2> QED
    BY <2>1, ConstantsAssumption, ShareBounds DEF Earning
<1>8. outbox' \in Seq([order : Orders, commission : Nat])
  BY <1>1, <1>3, <1>5, AppendProperties DEF IInv, TypeOK
<1>9. TypeOK'
  <2>1. balance' \in Int
    BY <1>3, <1>5 DEF Credit, Upsert, IInv, TypeOK
  <2>2. earnings' \subseteq [order : Orders, amount : Nat \ {0}]
    BY <1>1, <1>7 DEF Deliver, EarningOnce, EarningRow, IInv, TypeOK, o
  <2>3. \A t \in ledger' : t.order \in Orders \cup {Nobody} /\ t.amount \in Nat \ {0}
    BY <1>1, <1>3, <1>4, EntriesType DEF IInv, TypeOK
  <2>4. /\ status' \in [Orders -> {"picked", "delivered"}]
        /\ courier' \in [Couriers -> Orders \cup {Nobody}]
    BY DEF Deliver, IInv, TypeOK
  <2> QED
    BY <2>1, <2>2, <2>3, <2>4, <1>6, <1>8 DEF IInv, TypeOK
<1>10. LockCoversPayout'
  <2>1. balance \in Int
    BY DEF IInv, TypeOK
  <2>2. \A p \in Payers : payer[p].pc = "locked" => lock # Nobody
    BY ConstantsAssumption DEF IInv, LockCoversPayout
  <2> QED
    BY <2>1, <2>2, <1>3, <1>5, <1>6 DEF IInv, LockCoversPayout, Credit, LockIsFree, Upsert
<1>11. PayoutsArePositive'
  BY <1>6 DEF IInv, PayoutsArePositive
<1>12. BalanceNonNegative'
  BY <1>3, <1>5 DEF IInv, BalanceNonNegative, Credit, Upsert, TypeOK
<1>13. CommissionIsDeducted'
  <2> DEFINE e == [order |-> o, commission |-> commission]
  <2>1. /\ Len(outbox) \in Nat
        /\ Len(outbox') = Len(outbox) + 1
        /\ \A i \in 1..Len(outbox) : outbox'[i] = outbox[i]
        /\ outbox'[Len(outbox) + 1] = e
    BY <1>1, <1>3, <1>5, AppendProperties, LenProperties DEF IInv, TypeOK
  <2>2. ASSUME NEW t \in ledger', t.type = "commission"
        PROVE  \E i \in 1..Len(outbox') : /\ outbox'[i].order = t.order
                                          /\ outbox'[i].commission = t.amount
    <3>1. CASE t \in ledger
      <4>1. PICK i \in 1..Len(outbox) : /\ outbox[i].order = t.order
                                        /\ outbox[i].commission = t.amount
        BY <2>2, <3>1 DEF IInv, CommissionIsDeducted
      <4> QED
        BY <4>1, <2>1
    <3>2. CASE t \in Entries(o, commission)
      <4>1. t.order = o /\ t.amount = commission
        BY <3>2, <2>2, <1>1, <1>3, EntriesType
      <4> QED
        BY <4>1, <2>1
    <3> QED
      BY <3>1, <3>2, <1>4
  <2>3. ASSUME NEW i \in 1..Len(outbox'), outbox'[i].commission > 0
        PROVE  \E t \in ledger' : t.order = outbox'[i].order /\ t.type = "commission"
    <3>1. CASE i \in 1..Len(outbox)
      <4>1. Booked(outbox[i].order, "commission")
        BY <3>1, <2>1, <2>3 DEF IInv, CommissionIsDeducted
      <4> QED
        BY <4>1, <3>1, <2>1, <1>4 DEF Booked
    <3>2. CASE i = Len(outbox) + 1
      <4>1. outbox'[i].order = o /\ commission \in Nat \ {0}
        BY <3>2, <2>1, <2>3, <1>3
      <4>2. \E t \in ledger' : t.order = o /\ t.type = "commission"
        BY <4>1, <1>1, <1>4, EntriesBookCommission
      <4> QED
        BY <4>1, <4>2
    <3> QED
      BY <3>1, <3>2, <2>1
  <2> QED
    BY <2>2, <2>3 DEF CommissionIsDeducted, Booked
<1>14. IsFiniteSet(Payouts)' /\ BalanceMatchesEvents'
  <2>1. Payouts' = Payouts
    BY <1>1, <1>3, <1>4, EntriesType DEF Payouts
  <2>2. PaidOut' = PaidOut /\ PaidOut \in Int
    BY <2>1, PaidOutStays, PaidOutType
  <2>3. /\ SumFunction(NetOf) \in Int
        /\ SumFunction(NetOf') = SumFunction(NetOf) + net
    BY <1>1, <1>3, <1>5, NetGrows DEF IInv, net
  <2>4. balance' = balance + net /\ balance = SumFunction(NetOf) - PaidOut
    BY <1>5 DEF Credit, Upsert, IInv, BalanceMatchesEvents
  <2>5. SumFunction(NetOf') = balance' + PaidOut'
    BY <1>3, <2>2, <2>3, <2>4
  <2> QED
    BY <1>3, <2>1, <2>2, <2>3, <2>4 DEF IInv, BalanceMatchesEvents
<1> QED
  BY <1>9, <1>10, <1>11, <1>12, <1>13, <1>14 DEF IInv

\* The debit: the lock kept the balance above the amount it was checked for.
LEMMA PayoutCommitKeepsIInv ==
    ASSUME IInv, NEW p \in Payers, PayoutCommit(p)
    PROVE  IInv'
<1>0. payer[p].pc = "locked"
  BY DEF PayoutCommit
<1>1. /\ balance \in Int
      /\ payer[p].amount \in Nat \ {0}
      /\ payer[p].amount <= balance
      /\ lock = p
  <2>1. payer[p].amount \in Amounts
    BY <1>0 DEF IInv, PayoutsArePositive
  <2>2. balance >= payer[p].amount /\ lock = p /\ balance \in Int
    BY <1>0 DEF IInv, LockCoversPayout, TypeOK
  <2>3. Amounts \subseteq Nat \ {0}
    BY ConstantsAssumption
  <2> QED
    BY <2>1, <2>2, <2>3
<1> USE DEF PayoutCommit, EndPayout, Upsert
<1>2. payer' \in [Payers -> [pc : {"idle", "checked", "locked"},
                             key : Keys \cup {Nobody}, amount : Amounts \cup {0}]]
  BY DEF IInv, TypeOK, IdlePayout
<1>3. \A t \in ledger' : t.order \in Orders \cup {Nobody} /\ t.amount \in Nat \ {0}
  BY <1>1 DEF IInv, TypeOK, Entry
<1>4. TypeOK'
  BY <1>1, <1>2, <1>3 DEF IInv, TypeOK
<1>5. \A q \in Payers : payer'[q].pc # "idle" => q # p /\ payer'[q] = payer[q]
  BY DEF IInv, TypeOK, IdlePayout
<1>6. LockCoversPayout'
  BY <1>1, <1>5 DEF IInv, LockCoversPayout
<1>7. PayoutsArePositive'
  BY <1>5 DEF IInv, PayoutsArePositive
<1>8. BalanceNonNegative'
  BY <1>1 DEF BalanceNonNegative
<1>9. CommissionIsDeducted'
  BY PayoutKeepsCommissions DEF IInv
<1>10. IsFiniteSet(Payouts)' /\ BalanceMatchesEvents'
  <2> DEFINE t == Entry("payout", Nobody, payer[p].key, payer[p].amount)
  <2>1. /\ t.type = "payout" /\ t.amount = payer[p].amount /\ t.key = payer[p].key
        /\ ledger' = ledger \cup {t}
    BY DEF Entry
  <2>2. t \notin ledger
    BY <2>1 DEF Recorded
  <2> HIDE DEF t
  <2>3. /\ PaidOut \in Int /\ PaidOut' = PaidOut + payer[p].amount
        /\ IsFiniteSet(Payouts')
    BY <1>1, <2>1, <2>2, PaidOutGrows
  <2>4. NetOf' = NetOf
    BY DEF NetOf
  <2>5. balance = SumFunction(NetOf) - PaidOut /\ balance' = balance - payer[p].amount
    BY <1>1 DEF IInv, BalanceMatchesEvents
  <2>6. SumFunction(NetOf) \in Int
    BY NetType DEF IInv
  <2> QED
    BY <1>1, <2>3, <2>4, <2>5, <2>6 DEF BalanceMatchesEvents
<1> QED
  BY <1>4, <1>6, <1>7, <1>8, <1>9, <1>10 DEF IInv

\* A step that leaves the money alone.
LEMMA MoneyStays ==
    ASSUME IInv, UNCHANGED <<balance, ledger, outbox>>
    PROVE  IsFiniteSet(Payouts)' /\ BalanceMatchesEvents'
<1>1. Payouts' = Payouts /\ NetOf' = NetOf
  BY DEF Payouts, NetOf
<1>2. PaidOut' = PaidOut
  BY <1>1, PaidOutStays
<1> QED
  BY <1>1, <1>2 DEF IInv, BalanceMatchesEvents

\* Every step of deliver and recordPayout keeps the invariant.
LEMMA StepIInv == IInv /\ [Next]_vars => IInv'
<1> SUFFICES ASSUME IInv, [Next]_vars PROVE IInv'
    OBVIOUS
<1>1. ASSUME NEW c \in Couriers, NEW o \in Orders, DeliverRead(c, o) PROVE IInv'
  BY <1>1, MoneyStays DEF DeliverRead, IInv, TypeOK, LockCoversPayout, PayoutsArePositive,
     BalanceNonNegative, CommissionIsDeducted, Booked
<1>2. ASSUME NEW c \in Couriers, DeliverFails(c) PROVE IInv'
  BY <1>2, MoneyStays DEF DeliverFails, IInv, TypeOK, LockCoversPayout, PayoutsArePositive,
     BalanceNonNegative, CommissionIsDeducted, Booked
<1>3. ASSUME NEW p \in Payers, NEW k \in Keys, NEW amount \in Amounts,
             PayoutRead(p, k, amount)
      PROVE  IInv'
  <2> USE <1>3 DEF PayoutRead
  <2>1. TypeOK'
    BY DEF IInv, TypeOK
  <2>2. \A q \in Payers : payer'[q] = payer[q] \/ (q = p /\ payer'[q].pc = "checked")
    BY DEF IInv, TypeOK
  <2>3. LockCoversPayout'
    BY <2>2 DEF IInv, LockCoversPayout
  <2>4. PayoutsArePositive'
    BY DEF IInv, TypeOK, PayoutsArePositive
  <2>6. IsFiniteSet(Payouts)' /\ BalanceMatchesEvents'
    BY MoneyStays
  <2>5. BalanceNonNegative' /\ CommissionIsDeducted'
    BY DEF IInv, BalanceNonNegative, CommissionIsDeducted, Booked
  <2> QED
    BY <2>1, <2>3, <2>4, <2>5, <2>6 DEF IInv
<1>4. ASSUME NEW p \in Payers, PayoutLock(p) PROVE IInv'
  <2> USE <1>4 DEF PayoutLock, LockIsFree
  <2>1. TypeOK'
    BY DEF IInv, TypeOK
  <2>2. LockCoversPayout'
    BY ConstantsAssumption DEF IInv, TypeOK, LockCoversPayout
  <2>3. PayoutsArePositive'
    BY DEF IInv, TypeOK, PayoutsArePositive
  <2>6. IsFiniteSet(Payouts)' /\ BalanceMatchesEvents'
    BY MoneyStays
  <2>4. BalanceNonNegative' /\ CommissionIsDeducted'
    BY DEF IInv, BalanceNonNegative, CommissionIsDeducted, Booked
  <2> QED
    BY <2>1, <2>2, <2>3, <2>4, <2>6 DEF IInv
<1>5. ASSUME NEW p \in Payers, PayoutFails(p) PROVE IInv'
  <2> USE <1>5 DEF PayoutFails, EndPayout
  <2>1. TypeOK'
    BY DEF IInv, TypeOK, IdlePayout
  <2>2. \A q \in Payers : payer'[q].pc # "idle" => q # p /\ payer'[q] = payer[q]
    BY DEF IInv, TypeOK, IdlePayout
  <2>3. LockCoversPayout'
    BY <2>2 DEF IInv, LockCoversPayout
  <2>4. PayoutsArePositive'
    BY <2>2 DEF IInv, PayoutsArePositive
  <2>6. IsFiniteSet(Payouts)' /\ BalanceMatchesEvents'
    BY MoneyStays
  <2>5. BalanceNonNegative' /\ CommissionIsDeducted'
    BY DEF IInv, BalanceNonNegative, CommissionIsDeducted, Booked
  <2> QED
    BY <2>1, <2>3, <2>4, <2>5, <2>6 DEF IInv
<1>6. CASE UNCHANGED vars
  BY <1>6, MoneyStays DEF vars, IInv, TypeOK, LockCoversPayout, PayoutsArePositive,
     BalanceNonNegative, CommissionIsDeducted, Booked
<1> QED
  BY <1>1, <1>2, <1>3, <1>4, <1>5, <1>6, DeliverKeepsIInv, PayoutCommitKeepsIInv
     DEF Next

\* The invariant holds of every behaviour of the handlers.
LEMMA SpecIInv == Spec => []IInv
  BY InitIInv, StepIInv, PTL DEF Spec

-----------------------------------------------------------------------------

\* Every reachable state has the types of TypeOK; no row of the transactions
\* table has an amount of 0 or less.
THEOREM TypeCorrect == Spec => []TypeOK
<1>1. IInv => TypeOK
  BY DEF IInv
<1> QED
  BY <1>1, SpecIInv, PTL

\* The FOR UPDATE check of recordPayout is enough: no interleaving of
\* settlements and payouts takes the balance below zero.
THEOREM NeverOverdrawn == Spec => []BalanceNonNegative
<1>1. IInv => BalanceNonNegative
  BY DEF IInv
<1> QED
  BY <1>1, SpecIInv, PTL

\* Commissions on record and commissions deducted from credits go together,
\* also when settlements of one order overlap or the core service is away.
THEOREM CommissionsAgree == Spec => []CommissionIsDeducted
<1>1. IInv => CommissionIsDeducted
  BY DEF IInv
<1> QED
  BY <1>1, SpecIInv, PTL

\* The balance is what the events announced less the payouts on record: in no
\* interleaving does a transaction credit without announcing it, debit without
\* a row, or debit twice under one key.
THEOREM BalanceAgrees == Spec => []BalanceMatchesEvents
<1>1. IInv => BalanceMatchesEvents
  BY DEF IInv
<1> QED
  BY <1>1, SpecIInv, PTL

-----------------------------------------------------------------------------
(* Placement *)

\* Where a request may still get the unit it reserved, or give it back.
Pending == {"reserve", "insert", "undo"}

\* The reservations that are in use: the order is there or may yet be, or the
\* unit is to be given back.
Using ==
    {i \in reserved :
        i \in orders \/ \E s \in Slots : slot[s].pc \in Pending /\ slot[s].id = i}

\* Requests have numbers of their own, and keys; what is ordered was reserved.
RequestsAreNamed ==
    /\ orders \subseteq reserved /\ reserved \subseteq 1..requests
    /\ \A i \in 1..requests : keyOf[i] \in ClientKeys
    /\ \A s \in Slots : slot[s].pc # "idle" => slot[s].id \in 1..requests
    /\ \A s, t \in Slots :
           slot[s].pc # "idle" /\ slot[t].pc # "idle" /\ slot[s].id = slot[t].id
           => s = t

\* What a request knows by where it is.
PlaceIsSound(s) ==
    LET i == slot[s].id IN
    /\ slot[s].pc \in {"reserve", "insert"} => i \notin orders
    /\ slot[s].pc \in {"insert", "undo"} => i \in reserved
    /\ slot[s].pc = "undo" /\ i \in orders => "commit" \in faults
    /\ slot[s].pc \in {"session", "after"} \/ slot[s].ok => i \in orders
    /\ slot[s].pc = "session" => slot[s].online
    /\ slot[s].pc = "after" \/ slot[s].ok => (slot[s].online => i \in sessions)

\* Every unit is on sale or in use, as far as nothing went wrong.
StockIsAccounted ==
    /\ faults \cap {"undo", "commit"} = {} => stock + Cardinality(Using) <= Stock
    /\ faults \cap {"reserve", "undo", "crash"} = {} =>
           stock + Cardinality(Using) >= Stock

OkIsAnOrder ==
    \A k \in ClientKeys : answered[k] = "ok" => \E i \in orders : keyOf[i] = k

RequestsOf(k) == {i \in 1..requests : keyOf[i] = k}
ActiveOf(k) == {s \in Slots : slot[s].pc # "idle" /\ keyOf[slot[s].id] = k}

\* What a key may have had before its last answer expired: each answer let in
\* as many requests as run at a time.
Before(k) == Cardinality(Slots) * expired[k]

\* While no answer is stored, the requests of a key since the last one expired
\* are in progress or missed.
RequestsAreCounted ==
    \A k \in ClientKeys :
        /\ answered[k] = "none" =>
               Cardinality(RequestsOf(k)) <= Cardinality(ActiveOf(k)) + missed[k] + Before(k)
        /\ Cardinality(RequestsOf(k)) <= Cardinality(Slots) + missed[k] + Before(k)

\* The inductive invariant.
PlacementInv == /\ PlacementTypeOK
                /\ RequestsAreNamed
                /\ \A s \in Slots : PlaceIsSound(s)
                /\ StockIsAccounted
                /\ OkIsAnOrder
                /\ RequestsAreCounted

LEMMA PlacementInitInv == PlacementInit => PlacementInv
<1> SUFFICES ASSUME PlacementInit
             PROVE  PlacementInv
  OBVIOUS
<1>1. /\ Stock \in Nat /\ Attempts \in Nat \ {0} /\ MaxRequests \in Nat
      /\ MaxMissed \in Nat /\ MaxExpired \in Nat /\ Cardinality(Slots) \in Nat
  BY PlacementAssumption, FS_CardinalityType
<1>2. Idle \in Slot /\ Idle.pc = "idle" /\ Idle.ok = FALSE
  BY <1>1 DEF Idle, Slot
<1>3. PlacementTypeOK
  BY <1>1, <1>2 DEF PlacementInit, PlacementTypeOK, Faults
<1>4. RequestsAreNamed
  BY <1>2 DEF PlacementInit, RequestsAreNamed
<1>5. \A s \in Slots : PlaceIsSound(s)
  BY <1>2 DEF PlacementInit, PlaceIsSound
<1>6. StockIsAccounted
  <2>1. Using = {}
    BY DEF PlacementInit, Using
  <2> QED
    BY <1>1, <2>1, FS_EmptySet DEF PlacementInit, StockIsAccounted
<1>7. RequestsAreCounted
  <2>1. ASSUME NEW k
        PROVE  RequestsOf(k) = {} /\ ActiveOf(k) = {}
    BY <1>2 DEF PlacementInit, RequestsOf, ActiveOf
  <2>2. \A k \in ClientKeys : missed[k] = 0 /\ Before(k) = 0
    BY <1>1 DEF PlacementInit, Before
  <2>3. \A k : Cardinality(RequestsOf(k)) = 0 /\ Cardinality(ActiveOf(k)) = 0
    BY <2>1, FS_EmptySet
  <2> QED
    BY <1>1, <2>2, <2>3 DEF RequestsAreCounted
<1> QED
  BY <1>3, <1>4, <1>5, <1>6, <1>7 DEF PlacementInv, OkIsAnOrder, PlacementInit

\* One more expired answer is one more time the requests that run at a time.
LEMMA BeforeIsANumber ==
    ASSUME PlacementTypeOK, NEW k \in ClientKeys
    PROVE  /\ Before(k) \in Nat
           /\ Cardinality(Slots) * (1 + expired[k]) = Cardinality(Slots) + Before(k)
<1>1. Cardinality(Slots) \in Nat /\ expired[k] \in Nat
  BY PlacementAssumption, FS_CardinalityType DEF PlacementTypeOK
<1>2. \A n, e \in Nat : n * e \in Nat /\ n * (1 + e) = n + n * e
  OBVIOUS
<1> QED
  BY <1>1, <1>2 DEF Before

LEMMA SetsAreFinite ==
    ASSUME PlacementInv
    PROVE  /\ IsFiniteSet(Using) /\ Cardinality(Using) \in Nat
           /\ \A k : /\ IsFiniteSet(RequestsOf(k)) /\ Cardinality(RequestsOf(k)) \in Nat
                     /\ IsFiniteSet(ActiveOf(k)) /\ Cardinality(ActiveOf(k)) \in Nat
                     /\ Cardinality(ActiveOf(k)) <= Cardinality(Slots)
           /\ \A k \in ClientKeys : missed[k] \in Nat /\ Before(k) \in Nat
           /\ Cardinality(Slots) \in Nat
<1>1. requests \in Nat /\ IsFiniteSet(1..requests)
  BY PlacementAssumption, FS_Interval DEF PlacementInv, PlacementTypeOK
<1>2. Using \in SUBSET (1..requests)
  BY DEF PlacementInv, RequestsAreNamed, Using
<1>3. \A k : RequestsOf(k) \in SUBSET (1..requests) /\ ActiveOf(k) \in SUBSET Slots
  BY DEF RequestsOf, ActiveOf
<1>4. IsFiniteSet(Using) /\ Cardinality(Using) \in Nat
  BY <1>1, <1>2, FS_Subset, FS_CardinalityType
<1>5. ASSUME NEW k
      PROVE  /\ IsFiniteSet(RequestsOf(k)) /\ Cardinality(RequestsOf(k)) \in Nat
             /\ IsFiniteSet(ActiveOf(k)) /\ Cardinality(ActiveOf(k)) \in Nat
             /\ Cardinality(ActiveOf(k)) <= Cardinality(Slots)
  BY <1>1, <1>3, PlacementAssumption, FS_Subset, FS_CardinalityType
<1>6. ASSUME NEW k \in ClientKeys
      PROVE  missed[k] \in Nat /\ Before(k) \in Nat
  <2>1. missed[k] \in Nat
    BY PlacementAssumption DEF PlacementInv, PlacementTypeOK
  <2> QED
    BY <2>1, BeforeIsANumber DEF PlacementInv
<1> QED
  BY <1>4, <1>5, <1>6, PlacementAssumption, FS_CardinalityType

-----------------------------------------------------------------------------
(* The steps of a request *)

\* A request goes to pc, or has an answer.
SlotStep(s, pc, ok) ==
    /\ slot' \in [Slots -> Slot]
    /\ slot'[s].pc = pc /\ slot'[s].ok = ok
    /\ slot'[s].id = slot[s].id /\ slot'[s].online = slot[s].online
    /\ \A t \in Slots \ {s} : slot'[t] = slot[t]

LEMMA SlotSteps ==
    ASSUME PlacementTypeOK, NEW s \in Slots, NEW x \in Slot,
           x.id = slot[s].id, x.online = slot[s].online,
           slot' = [slot EXCEPT ![s] = x]
    PROVE  SlotStep(s, x.pc, x.ok)
BY DEF PlacementTypeOK, SlotStep

LEMMA GoesSteps ==
    ASSUME PlacementTypeOK, NEW s \in Slots,
           NEW pc \in {"reserve", "insert", "undo", "session", "after"},
           slot' = Goes(s, pc)
    PROVE  SlotStep(s, pc, slot[s].ok)
<1> DEFINE x == [[slot[s] EXCEPT !.pc = pc] EXCEPT !.try = 1]
<1>1. 1 \in 0..Attempts
  BY PlacementAssumption
<1>2. /\ x \in Slot /\ x.pc = pc /\ x.ok = slot[s].ok
      /\ x.id = slot[s].id /\ x.online = slot[s].online
  BY <1>1 DEF PlacementTypeOK, Slot
<1>3. slot' = [slot EXCEPT ![s] = x]
  BY DEF PlacementTypeOK, Goes
<1> HIDE DEF x
<1> QED
  BY <1>2, <1>3, SlotSteps

LEMMA AnswersSteps ==
    ASSUME PlacementTypeOK, NEW s \in Slots, NEW ok \in BOOLEAN, slot' = Answers(s, ok)
    PROVE  SlotStep(s, "answer", ok)
<1> DEFINE x == [[slot[s] EXCEPT !.pc = "answer"] EXCEPT !.ok = ok]
<1>1. /\ x \in Slot /\ x.pc = "answer" /\ x.ok = ok
      /\ x.id = slot[s].id /\ x.online = slot[s].online
  BY DEF PlacementTypeOK, Slot
<1>2. slot' = [slot EXCEPT ![s] = x]
  BY DEF PlacementTypeOK, Answers
<1> HIDE DEF x
<1> QED
  BY <1>1, <1>2, SlotSteps

LEMMA RetrySteps ==
    ASSUME PlacementTypeOK, NEW s \in Slots, MayRetry(s),
           slot' = [slot EXCEPT ![s].try = @ + 1]
    PROVE  SlotStep(s, slot[s].pc, slot[s].ok)
<1> DEFINE x == [slot[s] EXCEPT !.try = slot[s].try + 1]
<1>1. slot[s] \in Slot /\ slot[s].try \in 0..Attempts /\ Attempts \in Nat
  BY PlacementAssumption DEF PlacementTypeOK, Slot
<1>2. slot[s].try + 1 \in 0..Attempts
  BY <1>1 DEF MayRetry
<1>3. /\ x \in Slot /\ x.pc = slot[s].pc /\ x.ok = slot[s].ok
      /\ x.id = slot[s].id /\ x.online = slot[s].online
  BY <1>1, <1>2 DEF Slot
<1>4. slot' = [slot EXCEPT ![s] = x]
  BY DEF PlacementTypeOK
<1> HIDE DEF x
<1> QED
  BY <1>3, <1>4, SlotSteps

\* A request makes use of its unit.
Uses(s) ==
    slot[s].id \in reserved /\ (slot[s].id \in orders \/ slot[s].pc \in Pending)

\* The unit of a request and those on sale.
StockAt(s) == stock + (IF Uses(s) THEN 1 ELSE 0)

\* The request in s neither finds nor loses a unit, as far as that is promised.
NothingFoundOrLost(s) ==
    /\ faults' \cap {"undo", "commit"} = {} => StockAt(s)' <= StockAt(s)
    /\ faults' \cap {"reserve", "undo", "crash"} = {} => StockAt(s)' >= StockAt(s)

\* What a step of the request in s may touch.
StepOf(s, pc, ok) ==
    /\ slot[s].pc # "idle"
    /\ pc \in {"reserve", "insert", "undo", "session", "after", "answer"}
    /\ SlotStep(s, pc, ok)
    /\ UNCHANGED clients
    /\ reserved' \in {reserved, reserved \cup {slot[s].id}}
    /\ orders' \in {orders, orders \cup {slot[s].id}}
    /\ sessions' \in {sessions, sessions \cup {slot[s].id}}
    /\ stock' \in Nat
    /\ faults \subseteq faults' /\ faults' \subseteq Faults

LEMMA StepKeepsNames ==
    ASSUME PlacementInv, NEW s \in Slots, NEW pc, NEW ok, StepOf(s, pc, ok),
           orders' \subseteq reserved', sessions' \subseteq orders'
    PROVE  RequestsAreNamed' /\ PlacementTypeOK'
<1>1. slot[s].id \in 1..requests /\ 1..requests \subseteq Ids
  BY PlacementAssumption
     DEF PlacementInv, PlacementTypeOK, RequestsAreNamed, StepOf, Ids
<1>2. PlacementTypeOK'
  BY <1>1 DEF PlacementInv, PlacementTypeOK, StepOf, SlotStep, clients
<1>3. \A t \in Slots : slot'[t].id = slot[t].id /\ (slot'[t].pc # "idle" => slot[t].pc # "idle")
  BY DEF StepOf, SlotStep
<1>4. RequestsAreNamed'
  BY <1>1, <1>3 DEF PlacementInv, RequestsAreNamed, StepOf, clients
<1> QED
  BY <1>2, <1>4

LEMMA StepKeepsPlaces ==
    ASSUME PlacementInv, NEW s \in Slots, NEW pc, NEW ok, StepOf(s, pc, ok),
           PlaceIsSound(s)'
    PROVE  \A t \in Slots : PlaceIsSound(t)'
<1> SUFFICES ASSUME NEW t \in Slots \ {s}
             PROVE  PlaceIsSound(t)'
  OBVIOUS
<1>1. slot'[t] = slot[t]
  BY DEF StepOf, SlotStep
<1>2. PlaceIsSound(t)
  BY DEF PlacementInv
<1>3. CASE slot[t].pc # "idle"
  <2>1. slot[t].id # slot[s].id
    BY <1>3 DEF PlacementInv, RequestsAreNamed, StepOf
  <2> QED
    BY <1>1, <1>2, <2>1 DEF PlaceIsSound, StepOf
<1>4. CASE slot[t].pc = "idle"
  BY <1>1, <1>2, <1>4 DEF PlaceIsSound, StepOf
<1> QED
  BY <1>3, <1>4

LEMMA StepKeepsKeys ==
    ASSUME PlacementInv, NEW s \in Slots, NEW pc, NEW ok, StepOf(s, pc, ok)
    PROVE  OkIsAnOrder' /\ RequestsAreCounted'
<1>1. OkIsAnOrder'
  BY DEF PlacementInv, OkIsAnOrder, StepOf, clients
<1>2. \A t \in Slots : slot'[t].id = slot[t].id /\ (slot'[t].pc # "idle" <=> slot[t].pc # "idle")
  BY DEF StepOf, SlotStep
<1>3. \A k : RequestsOf(k)' = RequestsOf(k) /\ ActiveOf(k)' = ActiveOf(k)
  BY <1>2 DEF RequestsOf, ActiveOf, StepOf, clients
<1> QED
  BY <1>1, <1>3 DEF PlacementInv, RequestsAreCounted, Before, StepOf, clients

\* A step changes the use of its own request alone.
LEMMA UsingChanges ==
    ASSUME PlacementInv, NEW s \in Slots, NEW pc, NEW ok, StepOf(s, pc, ok)
    PROVE  /\ Cardinality(Using') \in Nat
           /\ Cardinality(Using') - (IF Uses(s)' THEN 1 ELSE 0)
                  = Cardinality(Using) - (IF Uses(s) THEN 1 ELSE 0)
<1> DEFINE i == slot[s].id
<1>1. i \in Using <=> Uses(s)
  BY DEF PlacementInv, RequestsAreNamed, Using, Uses, StepOf, Pending
<1>2. i \in Using' <=> Uses(s)'
  BY DEF PlacementInv, RequestsAreNamed, Using, Uses, StepOf, SlotStep, Pending
<1>3. \A j : j # i => (j \in Using' <=> j \in Using)
  BY DEF Using, StepOf, SlotStep
<1> HIDE DEF i
<1>4. IsFiniteSet(Using) /\ Cardinality(Using) \in Nat
  BY SetsAreFinite
<1>5. /\ IsFiniteSet(Using \ {i})
      /\ Cardinality(Using \ {i}) = IF i \in Using THEN Cardinality(Using) - 1
                                                   ELSE Cardinality(Using)
  BY <1>4, FS_RemoveElement
<1>6. Cardinality(Using \ {i}) \in Nat
  BY <1>5, FS_CardinalityType
<1>7. Using' = IF i \in Using' THEN (Using \ {i}) \cup {i} ELSE Using \ {i}
  BY <1>3
<1>8. Cardinality((Using \ {i}) \cup {i}) = Cardinality(Using \ {i}) + 1
  BY <1>5, FS_AddElement
<1>9. Cardinality(Using') = Cardinality(Using \ {i}) + (IF i \in Using' THEN 1 ELSE 0)
  BY <1>6, <1>7, <1>8
<1> QED
  BY <1>1, <1>2, <1>4, <1>5, <1>6, <1>9

\* Then the accounts are kept.
LEMMA StepKeepsStock ==
    ASSUME PlacementInv, NEW s \in Slots, NEW pc, NEW ok, StepOf(s, pc, ok),
           NothingFoundOrLost(s)
    PROVE  StockIsAccounted'
<1>1. PICK c \in Int, d \in Int, u \in Int, v \in Int :
          /\ c = Cardinality(Using) /\ d = Cardinality(Using')
          /\ u = (IF Uses(s) THEN 1 ELSE 0) /\ v = (IF Uses(s)' THEN 1 ELSE 0)
  BY SetsAreFinite, UsingChanges
<1>2. d - v = c - u
  BY <1>1, UsingChanges
<1>3. PICK x \in Int, y \in Int, n \in Int : x = stock /\ y = stock' /\ n = Stock
  BY PlacementAssumption DEF PlacementInv, PlacementTypeOK, StepOf
<1>4. StockAt(s) = x + u /\ StockAt(s)' = y + v
  BY <1>1, <1>3 DEF StockAt
<1>5. ASSUME faults' \cap {"undo", "commit"} = {}
      PROVE  y + d <= n
  <2>1. faults \cap {"undo", "commit"} = {}
    BY <1>5 DEF StepOf
  <2>2. x + c <= n /\ y + v <= x + u
    BY <1>1, <1>3, <1>4, <1>5, <2>1 DEF PlacementInv, StockIsAccounted, NothingFoundOrLost
  <2> QED
    BY <1>2, <2>2
<1>6. ASSUME faults' \cap {"reserve", "undo", "crash"} = {}
      PROVE  y + d >= n
  <2>1. faults \cap {"reserve", "undo", "crash"} = {}
    BY <1>6 DEF StepOf
  <2>2. x + c >= n /\ y + v >= x + u
    BY <1>1, <1>3, <1>4, <1>6, <2>1 DEF PlacementInv, StockIsAccounted, NothingFoundOrLost
  <2> QED
    BY <1>2, <2>2
<1> QED
  BY <1>1, <1>3, <1>5, <1>6 DEF StockIsAccounted

LEMMA StepKeepsPlacement ==
    ASSUME PlacementInv, NEW s \in Slots, NEW pc, NEW ok, StepOf(s, pc, ok),
           orders' \subseteq reserved', sessions' \subseteq orders', PlaceIsSound(s)',
           NothingFoundOrLost(s)
    PROVE  PlacementInv'
BY StepKeepsNames, StepKeepsPlaces, StepKeepsKeys, StepKeepsStock DEF PlacementInv

LEMMA StockIsInt ==
    ASSUME PlacementInv, NEW s \in Slots
    PROVE  stock \in Nat /\ StockAt(s) \in Int
BY DEF PlacementInv, PlacementTypeOK, StockAt

LEMMA EqualIsKept ==
    ASSUME PlacementInv, NEW s \in Slots, StockAt(s)' = StockAt(s)
    PROVE  NothingFoundOrLost(s)
<1>1. PICK n \in Int : n = StockAt(s)
  BY StockIsInt
<1>2. n <= n /\ n >= n
  OBVIOUS
<1> QED
  BY <1>1, <1>2 DEF NothingFoundOrLost

\* Fewer units are no harm to NeverOversold, more are none to NothingLeaks.
LEMMA LessIsKept ==
    ASSUME PlacementInv, NEW s \in Slots, StockAt(s)' \in {StockAt(s), StockAt(s) - 1},
           faults' \cap {"reserve", "undo", "crash"} # {}
    PROVE  NothingFoundOrLost(s)
<1>1. PICK n \in Int : n = StockAt(s)
  BY StockIsInt
<1>2. n <= n /\ n - 1 <= n
  OBVIOUS
<1> QED
  BY <1>1, <1>2 DEF NothingFoundOrLost

LEMMA MoreIsKept ==
    ASSUME PlacementInv, NEW s \in Slots, StockAt(s)' = StockAt(s) + 1,
           faults' \cap {"undo", "commit"} # {}
    PROVE  NothingFoundOrLost(s)
<1>1. PICK n \in Int : n = StockAt(s)
  BY StockIsInt
<1>2. n + 1 >= n
  OBVIOUS
<1> QED
  BY <1>1, <1>2 DEF NothingFoundOrLost

LEMMA SubsetsHold ==
    ASSUME PlacementInv
    PROVE  /\ orders \subseteq reserved /\ sessions \subseteq orders
           /\ faults \subseteq Faults /\ stock \in Nat
           /\ \A s \in Slots : slot[s] \in Slot /\ slot[s].online \in BOOLEAN
BY DEF PlacementInv, RequestsAreNamed, PlacementTypeOK, Slot

\* The reservation was not made.
LEMMA RefusalKeepsPlacement ==
    ASSUME PlacementInv, NEW s \in Slots, Refuse(s) \/ ReserveRefused(s)
    PROVE  PlacementInv'
<1>1. /\ slot' = Answers(s, FALSE) /\ slot[s].pc = "reserve"
      /\ UNCHANGED <<core, rows, clients, faults>> /\ slot[s].id \notin reserved
  BY DEF Refuse, ReserveRefused, IsReserved, At, Id
<1>2. SlotStep(s, "answer", FALSE)
  BY <1>1, AnswersSteps DEF PlacementInv
<1>3. StepOf(s, "answer", FALSE)
  BY <1>1, <1>2, SubsetsHold DEF StepOf, core, rows
<1>4. PlaceIsSound(s)'
  BY <1>2 DEF PlaceIsSound, SlotStep
<1>5. StockAt(s)' = StockAt(s)
  BY <1>1, <1>2 DEF StockAt, Uses, SlotStep, core
<1> QED
  BY <1>1, <1>3, <1>4, <1>5, SubsetsHold, EqualIsKept, StepKeepsPlacement DEF core, rows

\* The core service takes a unit for a new reservation, and none for one it
\* knows.
LEMMA TakeStockIsUse ==
    ASSUME PlacementInv, NEW s \in Slots, slot[s].pc = "reserve", TakeStock(s)
    PROVE  /\ stock' \in Nat
           /\ slot[s].id \in reserved' /\ reserved' = reserved \cup {slot[s].id}
           /\ stock' + 1 = StockAt(s)
<1>1. slot[s].id \notin orders
  BY DEF PlacementInv, PlaceIsSound
<1>2. CASE IsReserved(s)
  <2>1. Uses(s) /\ stock' = stock
    BY <1>2 DEF Uses, Pending, IsReserved, TakeStock, Id
  <2> QED
    BY <2>1, StockIsInt DEF StockAt, TakeStock, Id
<1>3. CASE ~IsReserved(s)
  <2>1. ~Uses(s) /\ stock' = stock - 1 /\ stock > 0
    BY <1>3 DEF Uses, IsReserved, TakeStock, Id
  <2>2. PICK n \in Nat : n = stock
    BY StockIsInt
  <2>3. n > 0 /\ stock' = n - 1 /\ StockAt(s) = n
    BY <2>1, <2>2 DEF StockAt
  <2>4. n - 1 \in Nat /\ (n - 1) + 1 = n
    BY <2>3
  <2> QED
    BY <2>3, <2>4 DEF TakeStock, Id
<1> QED
  BY <1>2, <1>3

LEMMA ReserveKeepsPlacement ==
    ASSUME PlacementInv, NEW s \in Slots, Reserve(s)
    PROVE  PlacementInv'
<1>1. /\ slot' = Goes(s, "insert") /\ slot[s].pc = "reserve" /\ TakeStock(s)
      /\ UNCHANGED <<rows, clients, faults>>
  BY DEF Reserve, At
<1>2. SlotStep(s, "insert", slot[s].ok)
  BY <1>1, GoesSteps DEF PlacementInv
<1>3. StepOf(s, "insert", slot[s].ok)
  BY <1>1, <1>2, TakeStockIsUse, SubsetsHold DEF StepOf, rows
<1>4. PlaceIsSound(s)'
  BY <1>1, <1>2, TakeStockIsUse DEF PlacementInv, PlaceIsSound, SlotStep, rows
<1>5. StockAt(s)' = StockAt(s)
  <2>1. Uses(s)'
    BY <1>1, <1>2, TakeStockIsUse DEF Uses, Pending, SlotStep
  <2> QED
    BY <1>1, <2>1, TakeStockIsUse DEF StockAt
<1>6. orders' \subseteq reserved' /\ sessions' \subseteq orders'
  BY <1>1, SubsetsHold, TakeStockIsUse DEF rows
<1> QED
  BY <1>3, <1>4, <1>5, <1>6, EqualIsKept, StepKeepsPlacement

\* Whether the reservation was made or not: the retry sends the same key.
LEMMA ReserveLostKeepsPlacement ==
    ASSUME PlacementInv, NEW s \in Slots, ReserveLost(s)
    PROVE  PlacementInv'
<1>1. /\ slot[s].pc = "reserve" /\ (TakeStock(s) \/ UNCHANGED core)
      /\ UNCHANGED <<rows, clients>>
  BY DEF ReserveLost, At
<1>2. /\ reserved' \in {reserved, reserved \cup {slot[s].id}} /\ stock' \in Nat
      /\ orders' \subseteq reserved' /\ sessions' \subseteq orders'
  BY <1>1, TakeStockIsUse, SubsetsHold DEF core, rows
<1>3. slot[s].id \notin orders /\ (slot[s].ok => slot[s].id \in orders)
  BY <1>1 DEF PlacementInv, PlaceIsSound
<1>4. CASE MayRetry(s)
  <2>1. slot' = [slot EXCEPT ![s].try = @ + 1] /\ UNCHANGED faults
    BY <1>4 DEF ReserveLost
  <2>2. SlotStep(s, "reserve", slot[s].ok)
    BY <1>1, <1>4, <2>1, RetrySteps DEF PlacementInv
  <2>3. StepOf(s, "reserve", slot[s].ok)
    BY <1>1, <1>2, <2>1, <2>2, SubsetsHold DEF StepOf, rows
  <2>4. PlaceIsSound(s)'
    BY <1>1, <1>3, <2>2 DEF PlaceIsSound, SlotStep, rows
  <2>5. StockAt(s)' = StockAt(s)
    <3>1. CASE TakeStock(s)
      <4>1. Uses(s)'
        BY <1>1, <2>2, <3>1, TakeStockIsUse DEF Uses, Pending, SlotStep
      <4> QED
        BY <1>1, <3>1, <4>1, TakeStockIsUse DEF StockAt
    <3>2. CASE UNCHANGED core
      BY <1>1, <2>2, <3>2 DEF StockAt, Uses, SlotStep, core, rows
    <3> QED
      BY <1>1, <3>1, <3>2
  <2> QED
    BY <1>2, <2>3, <2>4, <2>5, EqualIsKept, StepKeepsPlacement
<1>5. CASE ~MayRetry(s)
  <2>1. slot' = Answers(s, FALSE) /\ faults' = faults \cup {"reserve"}
    BY <1>5 DEF ReserveLost
  <2>2. SlotStep(s, "answer", FALSE)
    BY <2>1, AnswersSteps DEF PlacementInv
  <2>3. StepOf(s, "answer", FALSE)
    BY <1>1, <1>2, <2>1, <2>2, SubsetsHold DEF StepOf, rows, Faults
  <2>4. PlaceIsSound(s)'
    BY <2>2 DEF PlaceIsSound, SlotStep
  <2>5. ~Uses(s)'
    BY <1>1, <1>3, <2>2 DEF Uses, SlotStep, Pending, rows
  <2>6. StockAt(s)' \in {StockAt(s), StockAt(s) - 1}
    <3>1. PICK m \in Nat, n \in Nat : m = stock /\ n = stock'
      BY <1>2, StockIsInt
    <3>2. StockAt(s)' = n + 0 /\ StockAt(s) = m + (IF Uses(s) THEN 1 ELSE 0)
      BY <2>5, <3>1 DEF StockAt
    <3>3. TakeStock(s) => n + 1 = StockAt(s)
      BY <1>1, <3>1, TakeStockIsUse
    <3>4. UNCHANGED core => n = m
      BY <3>1 DEF core
    <3> QED
      BY <1>1, <3>2, <3>3, <3>4
  <2> QED
    BY <1>2, <2>1, <2>3, <2>4, <2>6, LessIsKept, StepKeepsPlacement
<1> QED
  BY <1>4, <1>5

\* The order takes the place of the reservation, also when nobody knows.
LEMMA CommitKeepsPlacement ==
    ASSUME PlacementInv, NEW s \in Slots, Commit(s) \/ CommitFails(s)
    PROVE  PlacementInv'
<1>1. /\ slot[s].pc = "insert" /\ UNCHANGED <<core, sessions, clients>>
      /\ orders' \in {orders, orders \cup {slot[s].id}}
      /\ faults \subseteq faults' /\ faults' \subseteq faults \cup {"commit"}
  BY DEF Commit, CommitFails, Inserts, At, Id
<1>2. /\ slot[s].id \in reserved /\ slot[s].id \notin orders
      /\ (slot[s].ok => slot[s].id \in orders)
  BY <1>1 DEF PlacementInv, PlaceIsSound
<1>3. PICK pc \in {"session", "after", "undo"} :
          /\ slot' = Goes(s, pc)
          /\ pc # "undo" => slot[s].id \in orders'
          /\ pc = "session" <=> pc # "undo" /\ slot[s].online
          /\ pc = "undo" /\ slot[s].id \in orders' => "commit" \in faults'
  BY <1>2 DEF Commit, CommitFails, Inserts, Id
<1>4. SlotStep(s, pc, slot[s].ok)
  BY <1>3, GoesSteps DEF PlacementInv
<1>5. StepOf(s, pc, slot[s].ok)
  BY <1>1, <1>4, SubsetsHold DEF StepOf, core, Faults
<1>6. PlaceIsSound(s)'
  BY <1>1, <1>2, <1>3, <1>4 DEF PlaceIsSound, SlotStep, core
<1>7. StockAt(s)' = StockAt(s)
  <2>1. Uses(s) /\ Uses(s)'
    BY <1>1, <1>2, <1>3, <1>4 DEF Uses, Pending, SlotStep, core
  <2> QED
    BY <1>1, <2>1 DEF StockAt, core
<1>8. orders' \subseteq reserved' /\ sessions' \subseteq orders'
  BY <1>1, <1>2, SubsetsHold DEF core
<1> QED
  BY <1>5, <1>6, <1>7, <1>8, EqualIsKept, StepKeepsPlacement

\* The unit is given back; one that was sold only if a commit took effect
\* that reported an error.
LEMMA UndoKeepsPlacement ==
    ASSUME PlacementInv, NEW s \in Slots, Undo(s) \/ UndoFails(s)
    PROVE  PlacementInv'
<1>1. /\ slot[s].pc = "undo" /\ UNCHANGED <<reserved, rows, clients>>
      /\ stock' \in {stock, stock + 1}
      /\ faults' \in {faults, faults \cup {"undo"}}
  BY DEF Undo, UndoFails, At
<1>2. /\ slot[s].id \in reserved
      /\ slot[s].id \in orders => "commit" \in faults
      /\ slot[s].ok => slot[s].id \in orders /\ (slot[s].online => slot[s].id \in sessions)
  BY <1>1 DEF PlacementInv, PlaceIsSound
<1>3. stock' \in Nat
  BY <1>1, SubsetsHold
<1>4. faults \subseteq faults' /\ faults' \subseteq Faults
  BY <1>1, SubsetsHold DEF Faults
<1>5. CASE slot' = Answers(s, FALSE)
  <2>1. SlotStep(s, "answer", FALSE)
    BY <1>5, AnswersSteps DEF PlacementInv
  <2>2. StepOf(s, "answer", FALSE)
    BY <1>1, <1>3, <1>4, <2>1 DEF StepOf, rows
  <2>3. PlaceIsSound(s)'
    BY <2>1 DEF PlaceIsSound, SlotStep
  <2>4. NothingFoundOrLost(s)
    <3>1. CASE "undo" \in faults'
      BY <3>1 DEF NothingFoundOrLost
    <3>2. CASE "undo" \notin faults'
      <4>1. stock' = stock + 1
        BY <3>2 DEF Undo, UndoFails
      <4>2. Uses(s) /\ (Uses(s)' <=> slot[s].id \in orders)
        BY <1>1, <1>2, <2>1 DEF Uses, Pending, SlotStep, rows
      <4>3. PICK n \in Nat : n = stock
        BY StockIsInt
      <4>4. CASE slot[s].id \in orders
        <5>1. StockAt(s)' = (n + 1) + 1 /\ StockAt(s) = n + 1
          BY <4>1, <4>2, <4>3, <4>4 DEF StockAt
        <5>2. "commit" \in faults'
          BY <1>2, <1>4, <4>4
        <5> QED
          BY <5>1, <5>2, MoreIsKept
      <4>5. CASE slot[s].id \notin orders
        <5>1. StockAt(s)' = (n + 1) + 0 /\ StockAt(s) = n + 1
          BY <4>1, <4>2, <4>3, <4>5 DEF StockAt
        <5>2. (n + 1) + 0 = n + 1
          OBVIOUS
        <5> QED
          BY <5>1, <5>2, EqualIsKept
      <4> QED
        BY <4>4, <4>5
    <3> QED
      BY <3>1, <3>2
  <2> QED
    BY <1>1, <2>2, <2>3, <2>4, SubsetsHold, StepKeepsPlacement DEF rows
<1>6. CASE slot' # Answers(s, FALSE)
  <2>1. /\ MayRetry(s) /\ slot' = [slot EXCEPT ![s].try = @ + 1]
        /\ faults' = faults \cup {"undo"}
    BY <1>6 DEF Undo, UndoFails
  <2>2. SlotStep(s, "undo", slot[s].ok)
    BY <1>1, <2>1, RetrySteps DEF PlacementInv
  <2>3. StepOf(s, "undo", slot[s].ok)
    BY <1>1, <1>3, <1>4, <2>2 DEF StepOf, rows
  <2>4. PlaceIsSound(s)'
    BY <1>1, <1>2, <1>4, <2>2 DEF PlaceIsSound, SlotStep, rows
  <2>5. NothingFoundOrLost(s)
    BY <2>1 DEF NothingFoundOrLost
  <2> QED
    BY <1>1, <2>3, <2>4, <2>5, SubsetsHold, StepKeepsPlacement DEF rows
<1> QED
  BY <1>5, <1>6

\* Session and answer: the order is there and stays.
LEMMA AfterKeepsPlacement ==
    ASSUME PlacementInv, NEW s \in Slots, InitSession(s) \/ SessionFails(s) \/ Finish(s)
    PROVE  PlacementInv'
<1>1. /\ slot[s].pc \in {"session", "after"} /\ UNCHANGED <<core, orders, clients, faults>>
      /\ sessions' \in {sessions, sessions \cup {slot[s].id}}
  BY DEF InitSession, SessionFails, Finish, OpensSession, At, Id, rows
<1>2. /\ slot[s].id \in orders /\ slot[s].id \in reserved
      /\ slot[s].pc = "after" /\ slot[s].online => slot[s].id \in sessions
      /\ slot[s].ok /\ slot[s].online => slot[s].id \in sessions
  BY <1>1, SubsetsHold DEF PlacementInv, PlaceIsSound
<1>3. PICK pc \in {"after", "answer"}, ok \in BOOLEAN :
          /\ SlotStep(s, pc, ok)
          /\ ok \/ pc = "after" => (slot[s].online => slot[s].id \in sessions')
  <2>1. CASE InitSession(s)
    <3>1. SlotStep(s, "after", slot[s].ok) /\ slot[s].ok \in BOOLEAN
      BY <2>1, GoesSteps, SubsetsHold DEF InitSession, PlacementInv, Slot
    <3>2. slot[s].id \in sessions'
      BY <2>1 DEF InitSession, OpensSession, Id
    <3> QED
      BY <3>1, <3>2
  <2>2. CASE SessionFails(s)
    BY <2>2, AnswersSteps DEF SessionFails, PlacementInv
  <2>3. CASE Finish(s)
    <3>1. PICK ok \in BOOLEAN : slot' = Answers(s, ok)
      BY <2>3 DEF Finish
    <3>2. SlotStep(s, "answer", ok) /\ UNCHANGED sessions /\ slot[s].pc = "after"
      BY <2>3, <3>1, AnswersSteps DEF Finish, PlacementInv, rows, At
    <3> QED
      BY <1>2, <3>2
  <2> QED
    BY <2>1, <2>2, <2>3
<1>4. StepOf(s, pc, ok)
  BY <1>1, <1>3, SubsetsHold DEF StepOf, core
<1>5. PlaceIsSound(s)'
  BY <1>1, <1>2, <1>3 DEF PlaceIsSound, SlotStep, core
<1>6. StockAt(s)' = StockAt(s)
  <2>1. Uses(s) /\ Uses(s)'
    BY <1>1, <1>2, <1>3 DEF Uses, SlotStep, core
  <2> QED
    BY <1>1, <2>1 DEF StockAt, core
<1>7. orders' \subseteq reserved' /\ sessions' \subseteq orders'
  BY <1>1, <1>2, SubsetsHold DEF core
<1> QED
  BY <1>4, <1>5, <1>6, <1>7, EqualIsKept, StepKeepsPlacement

\* A request with a number of its own and a key begins.
LEMMA BeginKeepsPlacement ==
    ASSUME PlacementInv, NEW s \in Slots, NEW k \in ClientKeys, NEW online \in BOOLEAN,
           Begin(s, k, online)
    PROVE  PlacementInv'
<1> DEFINE i == requests + 1
           x == [pc |-> "reserve", id |-> i, online |-> online, try |-> 1, ok |-> FALSE]
<1>1. /\ slot[s].pc = "idle" /\ answered[k] = "none" /\ requests < MaxRequests
      /\ requests' = i /\ keyOf' = [keyOf EXCEPT ![i] = k]
      /\ slot' = [slot EXCEPT ![s] = x]
      /\ UNCHANGED <<core, rows, answered, missed, expired, faults>>
  BY DEF Begin, At, IsAnswered
<1>2. requests \in Nat /\ MaxRequests \in Nat /\ Attempts \in Nat \ {0}
  BY PlacementAssumption DEF PlacementInv, PlacementTypeOK
<1>3. /\ i \in Ids /\ i \in 0..MaxRequests /\ i \notin 1..requests
      /\ 1..requests' = (1..requests) \cup {i} /\ 1 \in 0..Attempts
  BY <1>1, <1>2 DEF Ids
<1>4. x \in Slot /\ x.pc = "reserve" /\ x.id = i /\ x.ok = FALSE
  BY <1>3 DEF Slot
<1> HIDE DEF i, x
<1>5. /\ slot' \in [Slots -> Slot] /\ slot'[s] = x
      /\ \A t \in Slots \ {s} : slot'[t] = slot[t]
  BY <1>1, <1>4 DEF PlacementInv, PlacementTypeOK
<1>6. keyOf' \in [Ids -> ClientKeys \cup {"none"}] /\ keyOf'[i] = k
      /\ \A j \in 1..requests : keyOf'[j] = keyOf[j]
  BY <1>1, <1>3 DEF PlacementInv, PlacementTypeOK
<1>7. PlacementTypeOK'
  BY <1>1, <1>3, <1>5, <1>6 DEF PlacementInv, PlacementTypeOK, core, rows
<1>8. RequestsAreNamed'
  BY <1>1, <1>3, <1>4, <1>5, <1>6 DEF PlacementInv, RequestsAreNamed, core, rows
<1>9. \A t \in Slots : PlaceIsSound(t)'
  BY <1>1, <1>3, <1>4, <1>5 DEF PlacementInv, PlaceIsSound, RequestsAreNamed, core, rows
<1>10. StockIsAccounted'
  <2>1. i \notin reserved
    BY <1>3 DEF PlacementInv, RequestsAreNamed
  <2>2. Using' = Using
    BY <1>1, <1>4, <1>5, <2>1 DEF Using, Pending, core, rows
  <2> QED
    BY <1>1, <2>2 DEF PlacementInv, StockIsAccounted, core
<1>11. OkIsAnOrder'
  BY <1>1, <1>6 DEF PlacementInv, OkIsAnOrder, RequestsAreNamed, core, rows
<1>12. RequestsAreCounted'
  <2> SUFFICES ASSUME NEW l \in ClientKeys
               PROVE  /\ answered[l] = "none" =>
                             Cardinality(RequestsOf(l)')
                                 <= Cardinality(ActiveOf(l)') + missed[l] + Before(l)
                      /\ Cardinality(RequestsOf(l)')
                             <= Cardinality(Slots) + missed[l] + Before(l)
    BY <1>1 DEF RequestsAreCounted, Before
  <2>1. \A t \in Slots : slot[t].pc # "idle" => keyOf'[slot[t].id] = keyOf[slot[t].id]
    BY <1>6 DEF PlacementInv, RequestsAreNamed
  <2>2. CASE l # k
    <3>1. RequestsOf(l)' = RequestsOf(l)
      BY <1>1, <1>3, <1>6, <2>2 DEF RequestsOf
    <3>2. ActiveOf(l)' = ActiveOf(l)
      BY <1>1, <1>4, <1>5, <1>6, <2>1, <2>2 DEF ActiveOf
    <3> QED
      BY <3>1, <3>2 DEF PlacementInv, RequestsAreCounted
  <2>3. CASE l = k
    <3>1. RequestsOf(k)' = RequestsOf(k) \cup {i} /\ i \notin RequestsOf(k)
      BY <1>1, <1>3, <1>6 DEF RequestsOf
    <3>2. ActiveOf(k)' = ActiveOf(k) \cup {s} /\ s \notin ActiveOf(k)
      BY <1>1, <1>4, <1>5, <1>6, <2>1 DEF ActiveOf
    <3>3. PICK m \in Nat, a \in Nat, r \in Nat, n \in Nat, e \in Nat :
              /\ m = missed[k] /\ a = Cardinality(ActiveOf(k))
              /\ r = Cardinality(RequestsOf(k)) /\ n = Cardinality(Slots)
              /\ e = Before(k)
      BY SetsAreFinite
    <3>4. Cardinality(RequestsOf(k)') = r + 1 /\ Cardinality(ActiveOf(k)') = a + 1
      BY <3>1, <3>2, <3>3, SetsAreFinite, FS_AddElement
    <3>5. r <= a + m + e
      BY <1>1, <3>3 DEF PlacementInv, RequestsAreCounted
    <3>6. ActiveOf(k)' \in SUBSET Slots
      BY DEF ActiveOf
    <3>7. a + 1 <= n
      BY <3>3, <3>4, <3>6, FS_Subset, PlacementAssumption
    <3>8. r + 1 <= (a + 1) + m + e /\ r + 1 <= n + m + e
      BY <3>5, <3>7
    <3> QED
      BY <2>3, <3>3, <3>4, <3>8
  <2> QED
    BY <2>2, <2>3
<1> QED
  BY <1>7, <1>8, <1>9, <1>10, <1>11, <1>12 DEF PlacementInv

\* The slot is free again: the answer was stored, or is missed.
LEMMA EndKeepsPlacement ==
    ASSUME PlacementInv, NEW s \in Slots, Store(s) \/ StoreFails(s) \/ Crash(s)
    PROVE  PlacementInv'
<1> DEFINE k == keyOf[slot[s].id]
<1>1. /\ slot[s].pc # "idle" /\ slot' = [slot EXCEPT ![s] = Idle]
      /\ UNCHANGED <<core, rows, requests, keyOf, expired>>
      /\ slot[s].pc # "answer" => faults' = faults \cup {"crash"}
      /\ faults' \in {faults, faults \cup {"crash"}}
  BY DEF Store, StoreFails, Crash, Miss, At
<1>2. Idle \in Slot /\ Idle.pc = "idle" /\ Idle.ok = FALSE
  BY PlacementAssumption DEF Idle, Slot
<1>3. /\ slot' \in [Slots -> Slot] /\ slot'[s] = Idle
      /\ \A t \in Slots \ {s} : slot'[t] = slot[t]
  BY <1>1, <1>2 DEF PlacementInv, PlacementTypeOK
<1>4. k \in ClientKeys
  BY <1>1 DEF PlacementInv, RequestsAreNamed
<1>5. \/ UNCHANGED missed /\ \E body \in {"ok", "error"} :
             /\ answered' = [answered EXCEPT ![k] = body]
             /\ body = "ok" => slot[s].ok
      \/ UNCHANGED answered /\ missed[k] < MaxMissed
         /\ missed' = [missed EXCEPT ![k] = @ + 1]
  BY DEF Store, StoreFails, Crash, Miss, Body, Id
<1> HIDE DEF k
<1>6. /\ missed[k] \in 0..MaxMissed /\ MaxMissed \in Nat
      /\ missed[k] < MaxMissed => missed[k] + 1 \in 0..MaxMissed
  BY <1>4, PlacementAssumption DEF PlacementInv, PlacementTypeOK
<1>7. missed' \in [ClientKeys -> 0..MaxMissed]
  BY <1>4, <1>5, <1>6 DEF PlacementInv, PlacementTypeOK
<1>8. answered' \in [ClientKeys -> {"none", "ok", "error"}]
  BY <1>4, <1>5 DEF PlacementInv, PlacementTypeOK
<1>9. PlacementTypeOK'
  BY <1>1, <1>3, <1>7, <1>8 DEF PlacementInv, PlacementTypeOK, core, rows, Faults
<1>10. RequestsAreNamed'
  BY <1>1, <1>2, <1>3 DEF PlacementInv, RequestsAreNamed, core, rows
<1>11. \A t \in Slots : PlaceIsSound(t)'
  BY <1>1, <1>2, <1>3 DEF PlacementInv, PlaceIsSound, core, rows
<1>12. StockIsAccounted'
  <2>1. Using' \subseteq Using
    BY <1>1, <1>2, <1>3 DEF Using, Pending, core, rows
  <2>2. slot[s].pc = "answer" => Using' = Using
    BY <1>1, <1>2, <1>3 DEF Using, Pending, core, rows
  <2>3. PICK c \in Nat, d \in Nat, n \in Nat, m \in Nat :
            /\ c = Cardinality(Using) /\ d = Cardinality(Using')
            /\ n = stock /\ m = Stock
    BY <2>1, SetsAreFinite, FS_Subset, FS_CardinalityType, PlacementAssumption
       DEF PlacementInv, PlacementTypeOK
  <2>4. d <= c
    BY <2>1, <2>3, SetsAreFinite, FS_Subset
  <2>5. faults' \cap {"undo", "commit"} = {} => n + c <= m
    BY <1>1, <2>3 DEF PlacementInv, StockIsAccounted
  <2>6. faults' \cap {"reserve", "undo", "crash"} = {} => n + c >= m /\ c = d
    BY <1>1, <2>2, <2>3 DEF PlacementInv, StockIsAccounted
  <2>7. /\ faults' \cap {"undo", "commit"} = {} => n + d <= m
        /\ faults' \cap {"reserve", "undo", "crash"} = {} => n + d >= m
    BY <2>4, <2>5, <2>6
  <2> QED
    BY <1>1, <2>3, <2>7 DEF StockIsAccounted, core
<1>13. OkIsAnOrder'
  <2>1. slot[s].ok => slot[s].id \in orders
    BY DEF PlacementInv, PlaceIsSound
  <2> QED
    BY <1>1, <1>4, <1>5, <2>1 DEF PlacementInv, PlacementTypeOK, OkIsAnOrder, rows, k
<1>14. RequestsAreCounted'
  <2> SUFFICES ASSUME NEW l \in ClientKeys
               PROVE  /\ answered'[l] = "none" =>
                             Cardinality(RequestsOf(l))
                                 <= Cardinality(ActiveOf(l)') + missed'[l] + Before(l)
                      /\ Cardinality(RequestsOf(l))
                             <= Cardinality(Slots) + missed'[l] + Before(l)
    BY <1>1 DEF RequestsAreCounted, RequestsOf, Before
  <2>1. PICK m \in Nat, w \in Nat, a \in Nat, r \in Nat, n \in Nat, e \in Nat :
            /\ m = missed[l] /\ w = missed'[l] /\ a = Cardinality(ActiveOf(l))
            /\ r = Cardinality(RequestsOf(l)) /\ n = Cardinality(Slots)
            /\ e = Before(l)
    <3>1. missed'[l] \in Nat
      BY <1>7, PlacementAssumption
    <3> QED
      BY <3>1, SetsAreFinite
  <2>2. r <= n + m + e /\ (answered[l] = "none" => r <= a + m + e)
    BY <2>1 DEF PlacementInv, RequestsAreCounted
  <2>3. CASE l # k
    <3>1. ActiveOf(l)' = ActiveOf(l)
      BY <1>1, <1>2, <1>3, <2>3 DEF ActiveOf, k
    <3>2. w = m /\ answered'[l] = answered[l]
      BY <1>5, <2>1, <2>3 DEF PlacementInv, PlacementTypeOK
    <3> QED
      BY <2>1, <2>2, <3>1, <3>2
  <2>4. CASE l = k /\ answered'[k] # "none"
    <3>1. w = m \/ w = m + 1
      BY <1>4, <1>5, <2>1, <2>4 DEF PlacementInv, PlacementTypeOK
    <3>2. r <= n + w + e
      BY <2>2, <3>1
    <3> QED
      BY <2>1, <2>4, <3>2
  <2>5. CASE l = k /\ answered'[k] = "none"
    <3>1. w = m + 1 /\ answered[k] = "none"
      BY <1>4, <1>5, <2>1, <2>5 DEF PlacementInv, PlacementTypeOK
    <3>2. ActiveOf(l)' = ActiveOf(l) \ {s} /\ s \in ActiveOf(l)
      BY <1>1, <1>2, <1>3, <2>5 DEF ActiveOf, k
    <3>3. Cardinality(ActiveOf(l)') = a - 1
      BY <2>1, <3>2, SetsAreFinite, FS_RemoveElement
    <3>4. r <= (a - 1) + w + e /\ r <= n + w + e
      BY <2>2, <2>5, <3>1
    <3> QED
      BY <2>1, <3>3, <3>4
  <2> QED
    BY <2>3, <2>4, <2>5
<1> QED
  BY <1>9, <1>10, <1>11, <1>12, <1>13, <1>14 DEF PlacementInv

\* The key may run as many requests again as there are slots.
LEMMA ExpiryKeepsPlacement ==
    ASSUME PlacementInv, NEW k \in ClientKeys, AnswerExpires(k)
    PROVE  PlacementInv'
<1>1. /\ UNCHANGED <<core, rows, slot, requests, keyOf, missed, faults>>
      /\ expired[k] < MaxExpired
      /\ answered' = [answered EXCEPT ![k] = "none"]
      /\ expired' = [expired EXCEPT ![k] = @ + 1]
  BY DEF AnswerExpires
<1>2. /\ expired[k] \in 0..MaxExpired /\ MaxExpired \in Nat
      /\ expired' \in [ClientKeys -> 0..MaxExpired]
      /\ expired'[k] = expired[k] + 1
      /\ \A l \in ClientKeys \ {k} : expired'[l] = expired[l]
  BY <1>1, PlacementAssumption DEF PlacementInv, PlacementTypeOK
<1>3. /\ answered' \in [ClientKeys -> {"none", "ok", "error"}]
      /\ \A l \in ClientKeys \ {k} : answered'[l] = answered[l]
      /\ answered'[k] = "none"
  BY <1>1 DEF PlacementInv, PlacementTypeOK
<1>4. PlacementTypeOK'
  BY <1>1, <1>2, <1>3 DEF PlacementInv, PlacementTypeOK, core, rows
<1>5. RequestsAreNamed' /\ \A t \in Slots : PlaceIsSound(t)'
  BY <1>1 DEF PlacementInv, RequestsAreNamed, PlaceIsSound, core, rows
<1>6. StockIsAccounted'
  BY <1>1 DEF PlacementInv, StockIsAccounted, Using, Pending, core, rows
<1>7. OkIsAnOrder'
  BY <1>1, <1>3 DEF PlacementInv, OkIsAnOrder, rows
<1>8. RequestsAreCounted'
  <2> SUFFICES ASSUME NEW l \in ClientKeys
               PROVE  /\ answered'[l] = "none" =>
                             Cardinality(RequestsOf(l))
                                 <= Cardinality(ActiveOf(l)) + missed[l] + Before(l)'
                      /\ Cardinality(RequestsOf(l))
                             <= Cardinality(Slots) + missed[l] + Before(l)'
    BY <1>1 DEF RequestsAreCounted, RequestsOf, ActiveOf
  <2>1. PICK m \in Nat, a \in Nat, r \in Nat, n \in Nat, e \in Nat :
            /\ m = missed[l] /\ a = Cardinality(ActiveOf(l))
            /\ r = Cardinality(RequestsOf(l)) /\ n = Cardinality(Slots)
            /\ e = Before(l)
    BY SetsAreFinite
  <2>2. r <= n + m + e /\ (answered[l] = "none" => r <= a + m + e)
    BY <2>1 DEF PlacementInv, RequestsAreCounted
  <2>3. CASE l # k
    BY <1>2, <1>3, <2>1, <2>2, <2>3 DEF Before
  <2>4. CASE l = k
    <3>1. Before(l)' = n + e
      <4>1. Before(l)' = Cardinality(Slots) * (1 + expired[l])
        BY <1>2, <2>4 DEF Before
      <4> QED
        BY <4>1, <2>1, BeforeIsANumber DEF PlacementInv
    <3>2. r <= a + m + (n + e) /\ r <= n + m + (n + e)
      BY <2>2
    <3> QED
      BY <2>1, <3>1, <3>2
  <2> QED
    BY <2>3, <2>4
<1> QED
  BY <1>4, <1>5, <1>6, <1>7, <1>8 DEF PlacementInv

LEMMA PlacementStepInv == PlacementInv /\ [PlacementNext]_placementVars => PlacementInv'
<1> SUFFICES ASSUME PlacementInv, [PlacementNext]_placementVars
             PROVE  PlacementInv'
  OBVIOUS
<1>1. CASE UNCHANGED placementVars
  BY <1>1 DEF placementVars, PlacementInv, PlacementTypeOK, RequestsAreNamed, PlaceIsSound,
     StockIsAccounted, Using, OkIsAnOrder, RequestsAreCounted, RequestsOf, ActiveOf, Before
<1>2. CASE PlacementNext
  BY <1>2, BeginKeepsPlacement, RefusalKeepsPlacement, ReserveKeepsPlacement,
     ReserveLostKeepsPlacement, CommitKeepsPlacement, UndoKeepsPlacement,
     AfterKeepsPlacement, EndKeepsPlacement, ExpiryKeepsPlacement DEF PlacementNext
<1> QED
  BY <1>1, <1>2

LEMMA PlacementIsSound == PlacementSpec => []PlacementInv
  BY PlacementInitInv, PlacementStepInv, PTL DEF PlacementSpec

-----------------------------------------------------------------------------

\* Stock, reservations, orders, answers and requests are well typed.
THEOREM PlacementTypeCorrect == PlacementSpec => []PlacementTypeOK
<1>1. PlacementInv => PlacementTypeOK
  BY DEF PlacementInv
<1> QED
  BY <1>1, PlacementIsSound, PTL

\* For any stock, requests, keys and tries: units on sale and units sold are
\* never more than there were, whatever crashes and however often the
\* reservations are repeated; only a repeated or refused undo, or a commit
\* that took effect and reported an error, can change that.
THEOREM NothingOversold == PlacementSpec => []NeverOversold
<1>1. PlacementInv => NeverOversold
  <2> SUFFICES ASSUME PlacementInv, faults \cap {"undo", "commit"} = {}
               PROVE  stock + Sold <= Stock
    BY DEF NeverOversold
  <2>1. orders \in SUBSET Using
    BY SubsetsHold DEF Using
  <2>2. PICK c \in Nat, d \in Nat, n \in Nat, m \in Nat :
            /\ c = Cardinality(Using) /\ d = Sold /\ n = stock /\ m = Stock
    BY <2>1, SetsAreFinite, FS_Subset, FS_CardinalityType, PlacementAssumption
       DEF PlacementInv, PlacementTypeOK, Sold
  <2>3. d <= c
    BY <2>1, <2>2, SetsAreFinite, FS_Subset DEF Sold
  <2>4. n + c <= m
    BY <2>2 DEF PlacementInv, StockIsAccounted
  <2>5. n + d <= m
    BY <2>3, <2>4
  <2> QED
    BY <2>2, <2>5
<1> QED
  BY <1>1, PlacementIsSound, PTL

\* For any of them: no unit is lost, except by a crash, a reservation whose
\* last answer was lost or an undo that failed.
THEOREM NothingLost == PlacementSpec => []NothingLeaks
<1>1. PlacementInv => NothingLeaks
  <2> SUFFICES ASSUME PlacementInv, faults \cap {"reserve", "undo", "crash"} = {},
                      \A s \in Slots : slot[s].pc \in {"idle", "answer"}
               PROVE  stock + Sold >= Stock
    BY DEF NothingLeaks
  <2>1. Using = orders
    BY SubsetsHold DEF Using, Pending
  <2> QED
    BY <2>1 DEF PlacementInv, StockIsAccounted, Sold
<1> QED
  BY <1>1, PlacementIsSound, PTL

\* For any of them: who is told that his order was placed has the order, its
\* unit and, online, its session; a success that is replayed is about an
\* order of its key.
THEOREM OkAnswersAreComplete == PlacementSpec => []OkIsComplete
<1>1. PlacementInv => OkIsComplete
  BY SubsetsHold DEF PlacementInv, OkIsComplete, OkIsAnOrder, PlaceIsSound, At, Id
<1> QED
  BY <1>1, PlacementIsSound, PTL

\* For any of them: the orders of a key are as many at the most as requests
\* run at a time, at first and again for every stored answer that expired, and
\* as answers were missed, although no request looks for another in progress.
THEOREM OrdersPerKeyAreBounded == PlacementSpec => []OrdersPerKey
<1>1. PlacementInv => OrdersPerKey
  <2> SUFFICES ASSUME PlacementInv, NEW k \in ClientKeys
               PROVE  Cardinality({i \in orders : keyOf[i] = k})
                          <= Cardinality(Slots) * (1 + expired[k]) + missed[k]
    BY DEF OrdersPerKey
  <2> DEFINE made == {i \in orders : keyOf[i] = k}
  <2>1. made \in SUBSET RequestsOf(k)
    BY DEF PlacementInv, RequestsAreNamed, RequestsOf
  <2> HIDE DEF made
  <2>2. PICK c \in Nat, r \in Nat, n \in Nat, m \in Nat, e \in Nat :
            /\ c = Cardinality(made) /\ r = Cardinality(RequestsOf(k))
            /\ n = Cardinality(Slots) /\ m = missed[k] /\ e = Before(k)
    <3>1. IsFiniteSet(made) /\ Cardinality(made) \in Nat
      BY <2>1, SetsAreFinite, FS_Subset, FS_CardinalityType
    <3>2. missed[k] \in Nat
      BY PlacementAssumption DEF PlacementInv, PlacementTypeOK
    <3> QED
      BY <3>1, <3>2, SetsAreFinite, BeforeIsANumber DEF PlacementInv
  <2>3. c <= r
    BY <2>1, <2>2, SetsAreFinite, FS_Subset
  <2>4. r <= n + m + e
    BY <2>2 DEF PlacementInv, RequestsAreCounted
  <2>5. c <= (n + e) + m
    BY <2>3, <2>4
  <2>6. Cardinality(Slots) * (1 + expired[k]) = n + e
    BY <2>2, BeforeIsANumber DEF PlacementInv
  <2> QED
    BY <2>2, <2>5, <2>6 DEF made
<1> QED
  BY <1>1, PlacementIsSound, PTL

-----------------------------------------------------------------------------
(* ConnectionPool *)

HeldOf == [r \in Requests |-> req[r].held]

\* A request has no connection, one or two by where it is.
HeldAt(pc) == IF pc \in {"idle", "wait", "open"} THEN 0
              ELSE IF pc = "write" THEN 2 ELSE 1

RequestsAreSound ==
    /\ req \in [Requests -> Request]
    /\ \A r \in Requests :
           /\ req[r].held = HeldAt(req[r].pc)
           /\ req[r].pc \in {"statement", "write"} => req[r].left > 0

\* The queue has every request that waits, once, and no other.
QueueIsOfWaiting ==
    /\ queue \in Seq(Requests)
    /\ \A i \in 1..Len(queue) : Waits(queue[i])
    /\ \A i, j \in 1..Len(queue) : queue[i] = queue[j] => i = j
    /\ \A r \in Requests : Waits(r) => \E i \in 1..Len(queue) : queue[i] = r

\* A request waits after the step.
NowWaits(r) == req'[r].pc \in Waiting

\* The inductive invariant.
PoolInv == /\ RequestsAreSound
           /\ QueueIsOfWaiting
           /\ Held <= PoolMax

LEMMA PoolInitInv == PoolInit => PoolInv
<1> SUFFICES ASSUME PoolInit
             PROVE  PoolInv
  OBVIOUS
<1>1. RequestsAreSound
  BY DEF PoolInit, RequestsAreSound, Request, NoRequest, HeldAt
<1>2. QueueIsOfWaiting
  BY DEF PoolInit, QueueIsOfWaiting, Waits, Waiting, NoRequest
<1>3. Held <= PoolMax
  <2>1. \A r \in Requests : HeldOf[r] \in 0..0
    BY DEF PoolInit, NoRequest, HeldOf
  <2>2. /\ SumFunctionOnSet(HeldOf, Requests) \in Nat
        /\ SumFunctionOnSet(HeldOf, Requests) <= 0 * Cardinality(Requests)
    BY <2>1, SumBounds, PoolAssumption
  <2>3. Cardinality(Requests) \in Nat /\ PoolMax \in Nat
    BY FS_CardinalityType, PoolAssumption
  <2>4. Held = SumFunctionOnSet(HeldOf, Requests)
    BY DEF Held, SumFunction, HeldOf
  <2> QED
    BY <2>2, <2>3, <2>4
<1> QED
  BY <1>1, <1>2, <1>3 DEF PoolInv

\* What a step of one request does to the connections held.
LEMMA HeldChanges ==
    ASSUME RequestsAreSound, NEW r \in Requests, NEW x \in Request, 
           req' = [req EXCEPT ![r] = x]
    PROVE  /\ Held \in Int /\ Held' \in Int
           /\ Held' = Held - req[r].held + x.held
<1>1. \A t \in Requests : HeldOf[t] \in Int /\ HeldOf'[t] \in Int
  BY DEF HeldOf, RequestsAreSound, Request
<1>2. \A t \in Requests \ {r} : HeldOf'[t] = HeldOf[t]
  BY DEF HeldOf, RequestsAreSound
<1>3. HeldOf[r] = req[r].held /\ HeldOf'[r] = x.held
  BY DEF HeldOf, RequestsAreSound
<1>4. /\ Held = SumFunctionOnSet(HeldOf, Requests)
      /\ Held' = SumFunctionOnSet(HeldOf', Requests)
  BY DEF Held, SumFunction, HeldOf
<1> QED
  BY <1>1, <1>2, <1>3, <1>4, SumChanges, PoolAssumption

\* Where a request may go, and what it then holds.
LEMMA RequestSteps ==
    ASSUME PoolInv, NEW r \in Requests, NEW x \in Request, x.held = HeldAt(x.pc),
           x.pc \in {"statement", "write"} => x.left > 0,
           x.held <= req[r].held \/ (x.held = req[r].held + 1 /\ Held < PoolMax),
           req' = [req EXCEPT ![r] = x]
    PROVE  RequestsAreSound' /\ Held' <= PoolMax
<1>1. RequestsAreSound'
  BY DEF PoolInv, RequestsAreSound
<1>0. /\ Held \in Int /\ Held' \in Int /\ Held' = Held - req[r].held + x.held
      /\ req[r].held \in Int /\ x.held \in Int /\ PoolMax \in Int
  <2>1. RequestsAreSound
    BY DEF PoolInv
  <2>2. req[r].held \in Int /\ x.held \in Int /\ PoolMax \in Int
    BY <2>1, PoolAssumption DEF RequestsAreSound, Request
  <2> QED
    BY <2>1, <2>2, HeldChanges
<1>2. PICK h \in Int, g \in Int, a \in Int, b \in Int, n \in Int :
          /\ h = Held /\ g = Held' /\ a = req[r].held /\ b = x.held /\ n = PoolMax
  BY <1>0
<1>3. g = h - a + b /\ h <= n
  BY <1>0, <1>2 DEF PoolInv
<1>4. b <= a \/ (b = a + 1 /\ h < n)
  BY <1>2
<1>5. g <= n
  BY <1>3, <1>4
<1> QED
  BY <1>1, <1>2, <1>5

\* The queue when a request comes, is served, gives up, or goes on.
LEMMA QueueGrows ==
    ASSUME QueueIsOfWaiting, NEW r \in Requests, ~Waits(r), NowWaits(r),
           \A t \in Requests \ {r} : NowWaits(t) <=> Waits(t), queue' = Append(queue, r)
    PROVE  QueueIsOfWaiting'
<1>1. queue \in Seq(Requests)
  BY DEF QueueIsOfWaiting
<1>2. \A i \in 1..Len(queue) : queue[i] \in Requests /\ queue[i] # r
  BY <1>1 DEF QueueIsOfWaiting
<1>3. /\ queue' \in Seq(Requests) /\ Len(queue') = Len(queue) + 1
      /\ \A i \in 1..Len(queue) : queue'[i] = queue[i]
      /\ queue'[Len(queue) + 1] = r
  BY <1>1, AppendProperties
<1>4. /\ 1..Len(queue') = (1..Len(queue)) \cup {Len(queue) + 1}
      /\ Len(queue) + 1 \notin 1..Len(queue)
  BY <1>1, <1>3
<1>5. \A i \in 1..Len(queue') : NowWaits(queue'[i])
  BY <1>2, <1>3, <1>4 DEF QueueIsOfWaiting
<1>6. \A i, j \in 1..Len(queue') : queue'[i] = queue'[j] => i = j
  BY <1>2, <1>3, <1>4 DEF QueueIsOfWaiting
<1>7. \A t \in Requests : NowWaits(t) => \E i \in 1..Len(queue') : queue'[i] = t
  BY <1>3, <1>4 DEF QueueIsOfWaiting
<1> QED
  BY <1>3, <1>5, <1>6, <1>7 DEF QueueIsOfWaiting, Waits, NowWaits

LEMMA QueueShrinks ==
    ASSUME QueueIsOfWaiting, NEW k \in 1..Len(queue), ~NowWaits(queue[k]),
           \A t \in Requests \ {queue[k]} : NowWaits(t) <=> Waits(t),
           queue' \in Seq(Requests), Len(queue') = Len(queue) - 1,
           \A i \in 1..Len(queue') : queue'[i] = queue[IF i < k THEN i ELSE i + 1]
    PROVE  QueueIsOfWaiting'
<1>1. Len(queue) \in Nat /\ Len(queue') \in Nat
  BY DEF QueueIsOfWaiting
<1> DEFINE from == [i \in 1..Len(queue') |-> IF i < k THEN i ELSE i + 1]
<1>2. /\ \A i \in 1..Len(queue') : from[i] \in 1..Len(queue) /\ from[i] # k
      /\ \A i, j \in 1..Len(queue') : from[i] = from[j] => i = j
      /\ \A l \in 1..Len(queue) : l # k => \E i \in 1..Len(queue') : from[i] = l
  <2>1. PICK n \in Nat, m \in Nat : n = Len(queue) /\ m = Len(queue') /\ m = n - 1
    BY <1>1
  <2>2. \A i \in 1..m : (IF i < k THEN i ELSE i + 1) \in 1..n
    BY <2>1
  <2>3. ASSUME NEW l \in 1..n, l # k
        PROVE  \E i \in 1..m : l = IF i < k THEN i ELSE i + 1
    <3>1. CASE l < k
      <4>1. l \in 1..m
        BY <2>1, <3>1
      <4> QED
        BY <3>1, <4>1
    <3>2. CASE l > k
      <4>1. l - 1 \in 1..m /\ ~(l - 1 < k) /\ (l - 1) + 1 = l
        BY <2>1, <3>2
      <4> QED
        BY <4>1
    <3> QED
      BY <2>1, <2>3, <3>1, <3>2
  <2> QED
    BY <2>1, <2>2, <2>3
<1>3. \A i \in 1..Len(queue') : queue'[i] = queue[from[i]]
  OBVIOUS
<1> HIDE DEF from
<1>4. \A i \in 1..Len(queue') : queue[from[i]] \in Requests /\ queue[from[i]] # queue[k]
  BY <1>2 DEF QueueIsOfWaiting
<1>5. \A i \in 1..Len(queue') : NowWaits(queue'[i])
  <2> SUFFICES ASSUME NEW i \in 1..Len(queue')
               PROVE  NowWaits(queue[from[i]])
    BY <1>3
  <2>1. Waits(queue[from[i]])
    BY <1>2 DEF QueueIsOfWaiting
  <2> QED
    BY <1>4, <2>1
<1>6. \A i, j \in 1..Len(queue') : queue'[i] = queue'[j] => i = j
  <2> SUFFICES ASSUME NEW i \in 1..Len(queue'), NEW j \in 1..Len(queue'),
                      queue[from[i]] = queue[from[j]]
               PROVE  i = j
    BY <1>3
  <2>1. from[i] = from[j]
    BY <1>2 DEF QueueIsOfWaiting
  <2> QED
    BY <1>2, <2>1
<1>7. ASSUME NEW t \in Requests, NowWaits(t)
      PROVE  \E i \in 1..Len(queue') : queue'[i] = t
  <2>1. t # queue[k] /\ Waits(t)
    BY <1>7
  <2>2. PICK l \in 1..Len(queue) : queue[l] = t
    BY <2>1 DEF QueueIsOfWaiting
  <2>3. l # k
    BY <2>1, <2>2
  <2>4. PICK i \in 1..Len(queue') : from[i] = l
    BY <1>2, <2>3
  <2> QED
    BY <1>3, <2>2, <2>4
<1> QED
  BY <1>5, <1>6, <1>7 DEF QueueIsOfWaiting, Waits, NowWaits

LEMMA QueueStays ==
    ASSUME QueueIsOfWaiting, UNCHANGED queue, \A t \in Requests : NowWaits(t) <=> Waits(t)
    PROVE  QueueIsOfWaiting'
<1>1. \A i \in 1..Len(queue) : queue[i] \in Requests
  BY DEF QueueIsOfWaiting
<1>2. \A i \in 1..Len(queue) : NowWaits(queue[i])
  BY <1>1 DEF QueueIsOfWaiting
<1> QED
  BY <1>2 DEF QueueIsOfWaiting, Waits, NowWaits

\* A step that changes the place of r alone, as RequestSteps has it.
RequestGoes(r, x) ==
    /\ x \in Request /\ x.held = HeldAt(x.pc)
    /\ x.pc \in {"statement", "write"} => x.left > 0
    /\ x.held <= req[r].held \/ (x.held = req[r].held + 1 /\ Held < PoolMax)
    /\ req' = [req EXCEPT ![r] = x]

LEMMA StepKeepsPool ==
    ASSUME PoolInv, NEW r \in Requests, NEW x, RequestGoes(r, x),
           \/ UNCHANGED queue /\ (x.pc \in Waiting <=> Waits(r))
           \/ queue' = Append(queue, r) /\ x.pc \in Waiting /\ ~Waits(r)
           \/ /\ x.pc \notin Waiting
              /\ \E k \in 1..Len(queue) : queue[k] = r /\ queue' = RemoveAt(queue, k)
    PROVE  PoolInv'
<1>1. RequestsAreSound' /\ Held' <= PoolMax
  BY RequestSteps DEF RequestGoes
<1>2. /\ \A t \in Requests \ {r} : NowWaits(t) <=> Waits(t)
      /\ NowWaits(r) <=> x.pc \in Waiting
  BY DEF PoolInv, RequestsAreSound, RequestGoes, NowWaits, Waits
<1>3. QueueIsOfWaiting /\ queue \in Seq(Requests)
  BY DEF PoolInv, QueueIsOfWaiting
<1>4. CASE UNCHANGED queue /\ (x.pc \in Waiting <=> Waits(r))
  <2>1. \A t \in Requests : NowWaits(t) <=> Waits(t)
    BY <1>2, <1>4
  <2> QED
    BY <1>1, <1>3, <1>4, <2>1, QueueStays DEF PoolInv
<1>5. CASE queue' = Append(queue, r) /\ x.pc \in Waiting /\ ~Waits(r)
  BY <1>1, <1>2, <1>3, <1>5, QueueGrows DEF PoolInv
<1>6. ASSUME x.pc \notin Waiting,
             NEW k \in 1..Len(queue), queue[k] = r, queue' = RemoveAt(queue, k)
      PROVE  PoolInv'
  <2>1. PICK n \in Nat : n = Len(queue) /\ k \in 1..n
    BY <1>3
  <2> DEFINE front == SubSeq(queue, 1, k - 1)
             back == SubSeq(queue, k + 1, n)
  <2>2. /\ front \in Seq(Requests) /\ Len(front) = k - 1
        /\ \A i \in 1..k - 1 : front[i] = queue[i]
    <3>1. /\ \A i \in 1..k - 1 : queue[i] \in Requests
          /\ 1 \in Int /\ k - 1 \in Int /\ (k - 1) - 1 + 1 = k - 1
          /\ (1 > k - 1 => k - 1 = 0) /\ \A i \in 1..k - 1 : 1 + i - 1 = i
      BY <1>3, <2>1
    <3> QED
      BY <3>1, SubSeqProperties
  <2>3. /\ back \in Seq(Requests) /\ Len(back) = n - k
        /\ \A i \in 1..n - k : back[i] = queue[k + i]
    <3>1. /\ \A i \in k + 1..n : queue[i] \in Requests
          /\ k + 1 \in Int /\ n \in Int /\ n - (k + 1) + 1 = n - k
          /\ (k + 1 > n => n - k = 0) /\ \A i \in 1..n - k : (k + 1) + i - 1 = k + i
      BY <1>3, <2>1
    <3> QED
      BY <3>1, SubSeqProperties
  <2>4. queue' = front \o back
    BY <1>6, <2>1 DEF RemoveAt
  <2> HIDE DEF front, back
  <2>5. /\ queue' \in Seq(Requests) /\ Len(queue') = Len(front) + Len(back)
        /\ \A i \in 1..Len(front) + Len(back) :
               queue'[i] = IF i <= Len(front) THEN front[i] ELSE back[i - Len(front)]
    BY <2>2, <2>3, <2>4, ConcatProperties
  <2>6. Len(queue') = n - 1
    BY <2>1, <2>2, <2>3, <2>5
  <2>7. ASSUME NEW i \in 1..Len(queue')
        PROVE  queue'[i] = queue[IF i < k THEN i ELSE i + 1]
    <3>1. i \in 1..n - 1 /\ i \in 1..Len(front) + Len(back)
      BY <2>5, <2>6
    <3>2. CASE i < k
      <4>1. i <= k - 1 /\ i \in 1..k - 1
        BY <2>1, <3>1, <3>2
      <4> QED
        BY <2>2, <2>5, <3>1, <3>2, <4>1
    <3>3. CASE ~(i < k)
      <4>1. ~(i <= k - 1) /\ i - (k - 1) \in 1..n - k /\ k + (i - (k - 1)) = i + 1
        BY <2>1, <3>1, <3>3
      <4>2. queue'[i] = back[i - (k - 1)]
        BY <2>2, <2>5, <3>1, <4>1
      <4>3. back[i - (k - 1)] = queue[k + (i - (k - 1))]
        BY <2>3, <4>1
      <4> QED
        BY <3>3, <4>1, <4>2, <4>3
    <3> QED
      BY <3>2, <3>3
  <2>8. QueueIsOfWaiting'
    BY <1>2, <1>3, <1>6, <2>1, <2>5, <2>6, <2>7, QueueShrinks
  <2> QED
    BY <1>1, <2>8 DEF PoolInv
<1> QED
  BY <1>4, <1>5, <1>6

\* A request by the place it is at.
LEMMA RequestIsAt ==
    ASSUME PoolInv, NEW r \in Requests
    PROVE  /\ req[r] \in Request
           /\ req[r].held = HeldAt(req[r].pc) /\ req[r].held \in 0..2
           /\ req[r].left \in 0..2
           /\ req[r].pc \in {"statement", "write"} => req[r].left > 0
           /\ Waits(r) <=> req[r].pc \in {"wait", "open", "statement"}
BY DEF PoolInv, RequestsAreSound, Request, Waits, Waiting

LEMMA ReleaseGoes ==
    ASSUME PoolInv, NEW r \in Requests, req' = Released(r)
    PROVE  RequestGoes(r, NoRequest) /\ NoRequest.pc = "idle"
BY RequestIsAt DEF RequestGoes, NoRequest, Released, Request, HeldAt

\* A step that changes where a request is, as a change of its record.
LEMMA RequestMoves ==
    ASSUME PoolInv, NEW r \in Requests, NEW pc, req' = [req EXCEPT ![r].pc = pc]
    PROVE  req' = [req EXCEPT ![r] = [kind |-> req[r].kind, pc |-> pc,
                                      held |-> req[r].held, left |-> req[r].left]]
<1>1. [req[r] EXCEPT !.pc = pc] = [kind |-> req[r].kind, pc |-> pc,
                                   held |-> req[r].held, left |-> req[r].left]
  BY RequestIsAt DEF Request
<1> QED
  BY <1>1

LEMMA ArriveKeepsPool ==
    ASSUME PoolInv, NEW r \in Requests, Arrive(r) \/ ArrivePatch(r) \/ AskStatement(r)
    PROVE  PoolInv'
<1>1. queue' = Append(queue, r) /\ ~Waits(r)
  BY DEF Arrive, ArrivePatch, AskStatement, Ask, Waits, Waiting
<1>2. CASE Arrive(r)
  <2> DEFINE x == [kind |-> req[r].kind, pc |-> "wait", held |-> req[r].held,
                   left |-> req[r].left]
  <2>1. req' = [req EXCEPT ![r] = x] /\ req[r].held = 0
    <3>1. req' = [req EXCEPT ![r].pc = "wait"] /\ req[r].pc = "idle"
      BY <1>2 DEF Arrive
    <3> QED
      BY <3>1, RequestIsAt, RequestMoves DEF HeldAt
  <2>2. RequestGoes(r, x)
    BY <2>1, RequestIsAt DEF RequestGoes, Request, HeldAt
  <2> QED
    BY <1>1, <2>2, StepKeepsPool DEF Waiting
<1>3. CASE ArrivePatch(r)
  <2>1. PICK n \in 1..2 : req' = [req EXCEPT ![r] = [kind |-> "patch", pc |-> "open",
                                                     held |-> 0, left |-> n]]
    BY <1>3 DEF ArrivePatch
  <2>2. RequestGoes(r, [kind |-> "patch", pc |-> "open", held |-> 0, left |-> n])
    BY <2>1, RequestIsAt DEF RequestGoes, Request, HeldAt
  <2> QED
    BY <1>1, <2>2, StepKeepsPool DEF Waiting
<1>4. CASE AskStatement(r)
  <2> DEFINE x == [kind |-> req[r].kind, pc |-> "statement", held |-> req[r].held,
                   left |-> req[r].left]
  <2>1. req' = [req EXCEPT ![r] = x] /\ req[r].held = 1 /\ req[r].left > 0
    <3>1. /\ req' = [req EXCEPT ![r].pc = "statement"]
          /\ req[r].pc = "trx" /\ req[r].left > 0
      BY <1>4 DEF AskStatement, Ask
    <3> QED
      BY <3>1, RequestIsAt, RequestMoves DEF HeldAt
  <2>2. RequestGoes(r, x)
    BY <2>1, RequestIsAt DEF RequestGoes, Request, HeldAt
  <2> QED
    BY <1>1, <2>2, StepKeepsPool DEF Waiting
<1> QED
  BY <1>2, <1>3, <1>4

\* The first in the queue gets a connection; the timer lets go of everything.
LEMMA ServedKeepsPool ==
    ASSUME PoolInv, NEW r \in Requests, Acquire(r) \/ Timeout(r)
    PROVE  PoolInv'
<1>1. queue \in Seq(Requests)
  BY DEF PoolInv, QueueIsOfWaiting
<1>2. CASE Acquire(r)
  <2>1. /\ queue # <<>> /\ Head(queue) = r /\ Held < PoolMax /\ queue' = Tail(queue)
        /\ req' = [req EXCEPT ![r].pc = After[@], ![r].held = @ + 1]
    BY <1>2 DEF Acquire
  <2>2. 1 \in 1..Len(queue) /\ queue[1] = r
    BY <1>1, <2>1
  <2>3. Waits(r)
    BY <2>2 DEF PoolInv, QueueIsOfWaiting
  <2>4. queue' = RemoveAt(queue, 1)
    <3>1. SubSeq(queue, 1, 1 - 1) = <<>>
      BY SubSeqEmpty
    <3>2. Tail(queue) = SubSeq(queue, 2, Len(queue)) /\ Tail(queue) \in Seq(Requests)
      BY <1>1, <2>1, TailIsSubSeq, HeadTailProperties
    <3>3. <<>> \o Tail(queue) = Tail(queue)
      BY <3>2, ConcatEmptySeq
    <3>4. 1 + 1 = 2
      OBVIOUS
    <3> QED
      BY <2>1, <3>1, <3>2, <3>3, <3>4 DEF RemoveAt
  <2>5. PICK pc \in {"use", "trx", "write"} :
            /\ pc = After[req[r].pc]
            /\ req[r].pc = "statement" <=> pc = "write"
    BY <2>3, RequestIsAt DEF After, Waiting
  <2> DEFINE x == [kind |-> req[r].kind, pc |-> pc, held |-> req[r].held + 1,
                   left |-> req[r].left]
  <2>6. req' = [req EXCEPT ![r] = x]
    BY <2>1, <2>5, RequestIsAt DEF Request, PoolInv, RequestsAreSound
  <2>7. req[r].held = IF pc = "write" THEN 1 ELSE 0
    BY <2>3, <2>5, RequestIsAt DEF HeldAt
  <2>8. RequestGoes(r, x)
    <3>1. req[r].held + 1 = HeldAt(pc) /\ req[r].held + 1 \in 0..2
      BY <2>5, <2>7 DEF HeldAt
    <3>2. req[r].left \in 0..2 /\ (pc \in {"statement", "write"} => req[r].left > 0)
      BY <2>5, RequestIsAt
    <3>3. req[r].kind \in {"plain", "patch"}
      BY RequestIsAt DEF Request
    <3>4. x \in Request
      BY <2>5, <3>1, <3>2, <3>3 DEF Request
    <3> QED
      BY <2>1, <2>6, <3>1, <3>2, <3>4 DEF RequestGoes
  <2> QED
    BY <2>2, <2>4, <2>8, StepKeepsPool DEF Waiting
<1>3. CASE Timeout(r)
  BY <1>3, ReleaseGoes, StepKeepsPool DEF Timeout, RolledBack, Waiting
<1> QED
  BY <1>2, <1>3

LEMMA EndKeepsPool ==
    ASSUME PoolInv, NEW r \in Requests,
           FinishPlain(r) \/ CommitPatch(r) \/ StatementFails(r) \/ EndStatement(r)
    PROVE  PoolInv'
<1>1. UNCHANGED queue /\ ~Waits(r)
  BY RequestIsAt DEF FinishPlain, CommitPatch, StatementFails, EndStatement
<1>2. CASE req' = Released(r)
  BY <1>1, <1>2, ReleaseGoes, StepKeepsPool DEF Waiting
<1>3. CASE EndStatement(r)
  <2> DEFINE x == [kind |-> req[r].kind, pc |-> "trx", held |-> req[r].held - 1,
                   left |-> req[r].left - 1]
  <2>1. req' = [req EXCEPT ![r] = x] /\ req[r].held = 2 /\ req[r].left > 0
    BY <1>3, RequestIsAt DEF EndStatement, Request, HeldAt, PoolInv, RequestsAreSound
  <2>2. RequestGoes(r, x)
    BY <2>1, RequestIsAt DEF RequestGoes, Request, HeldAt
  <2> QED
    BY <1>1, <2>2, StepKeepsPool DEF Waiting
<1> QED
  BY <1>2, <1>3 DEF FinishPlain, CommitPatch, StatementFails, RolledBack

LEMMA PoolStepInv == PoolInv /\ [PoolNext]_poolVars => PoolInv'
<1> SUFFICES ASSUME PoolInv, [PoolNext]_poolVars
             PROVE  PoolInv'
  OBVIOUS
<1>1. CASE UNCHANGED poolVars
  BY <1>1 DEF poolVars, PoolInv, RequestsAreSound, QueueIsOfWaiting, Waits, Held
<1>2. CASE PoolNext
  BY <1>2, ArriveKeepsPool, ServedKeepsPool, EndKeepsPool DEF PoolNext
<1> QED
  BY <1>1, <1>2

LEMMA PoolIsSound == PoolSpec => []PoolInv
  BY PoolInitInv, PoolStepInv, PTL DEF PoolSpec

\* For any pool and any number of requests: no more connections are held than
\* there are, the queue has who waits, and every path of a request gives back
\* what it took.
THEOREM PoolTypeCorrect == PoolSpec => []PoolTypeOK
<1>1. PoolInv => PoolTypeOK
  BY DEF PoolInv, RequestsAreSound, QueueIsOfWaiting, PoolTypeOK
<1> QED
  BY <1>1, PoolIsSound, PTL

\* For any of them: requests block one another only when every connection is
\* the transaction of a PATCH that waits for a second one.
THEOREM OnlyPatchesStall == PoolSpec => []StallIsByPatches
<1>1. PoolInv => StallIsByPatches
  <2> SUFFICES ASSUME PoolInv, Stalled
               PROVE  Cardinality({r \in Requests : req[r].pc = "statement"}) = PoolMax
    BY DEF StallIsByPatches
  <2> DEFINE Patches == {r \in Requests : req[r].pc = "statement"}
  <2>1. \A r \in Requests : HeldOf[r] = IF r \in Patches THEN 1 ELSE 0
    BY RequestIsAt DEF Stalled, HeldOf, HeldAt
  <2>2. Held = Cardinality(Patches)
    <3>1. /\ Patches \in SUBSET Requests
          /\ \A r \in Patches : HeldOf[r] = 1
          /\ \A r \in Requests \ Patches : HeldOf[r] = 0
      BY <2>1
    <3>2. Held = SumFunctionOnSet(HeldOf, Requests)
      BY DEF Held, SumFunction, HeldOf
    <3> HIDE DEF Patches
    <3> QED
      BY <3>1, <3>2, SumCounts, PoolAssumption
  <2>3. Held <= PoolMax /\ Held >= PoolMax /\ PoolMax \in Nat
    BY PoolAssumption DEF PoolInv, Stalled
  <2>4. Cardinality(Patches) \in Nat
    BY PoolAssumption, FS_Subset, FS_CardinalityType
  <2> QED
    BY <2>2, <2>3, <2>4
<1> QED
  BY <1>1, PoolIsSound, PTL
=============================================================================
