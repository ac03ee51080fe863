-------------------------- MODULE MCOrderLifecycle --------------------------
(* OrderLifecycle for TLC: agents and slots are interchangeable. *)
EXTENDS OrderLifecycle, TLC

Symmetry == Permutations(Agents) \cup Permutations(Reqs)

\* The behaviours of Spec without races.
RaceFreeSpec == Init /\ [][Next /\ NoRaces']_vars

=============================================================================
