----------------------------- MODULE MCPresence -----------------------------
(* Presence on a small instance.  Which agent is which does not matter. *)
EXTENDS Presence, TLC

Symmetry == Permutations(Agents)
=============================================================================
