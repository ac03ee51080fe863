------------------------------ MODULE MCLedger ------------------------------
(* Ledger for TLC: two orders whose commissions round to 1 and to 0. *)
EXTENDS Ledger, TLC

CONSTANTS o1, o2

\* One order paid in cash, one online; every order has a service fee.
MCBill == o1 :> [method |-> "cod", subtotal |-> 3, serviceFee |-> 1,
                 deliveryFee |-> 1, total |-> 5]
       @@ o2 :> [method |-> "online", subtotal |-> 1, serviceFee |-> 1,
                 deliveryFee |-> 2, total |-> 4]

Symmetry == Permutations(Couriers) \cup Permutations(Payers) \cup Permutations(Keys)

=============================================================================
