----------------------------- MODULE MCArchival -----------------------------
(* Archival on a small instance: two charges and an order in two tables. *)
EXTENDS Archival, TLC

CONSTANTS charge1, charge2, order

MCTableOf == (charge1 :> 1) @@ (charge2 :> 1) @@ (order :> 2)
MCParents == {<<charge1, order>>, <<charge2, order>>}
=============================================================================
