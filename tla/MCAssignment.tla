---------------------------- MODULE MCAssignment ----------------------------
(* Assignment on a small instance.  Requests and agents are interchangeable. *)
EXTENDS Assignment, TLC

Symmetry == Permutations(Claimers) \cup Permutations(Agents)
            \cup Permutations(Workers)
=============================================================================
