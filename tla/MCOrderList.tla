----------------------------- MODULE MCOrderList -----------------------------
(* OrderList on a small instance: the requests are interchangeable.  One    *)
(* server is enough: an event that another takes is one it never takes.    *)
EXTENDS OrderList, TLC

Symmetry == Permutations(Slots)
=============================================================================
