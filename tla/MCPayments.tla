----------------------------- MODULE MCPayments -----------------------------
(* Payments on a small instance.  Two attempts of one order differ in their *)
(* outcome only, so they are interchangeable, and so are the requests.      *)
EXTENDS Payments, TLC

Symmetry == Permutations(Txns) \cup Permutations(Hooks) \cup Permutations(Refunders)
=============================================================================
