---------------------------- MODULE MCPlacement ----------------------------
(* Placement on a small instance.  The slots are interchangeable. *)
EXTENDS Placement, TLC

Symmetry == Permutations(Slots)
=============================================================================
