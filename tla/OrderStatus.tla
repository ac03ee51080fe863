---------------------------- MODULE OrderStatus ----------------------------
(***************************************************************************)
(* The order status matrix of order-status.service.ts, as constant         *)
(* operators: which actor may move an order from which status to which,    *)
(* which moves need a reason and which timestamp column a move stamps.     *)
(* A timestamp column `<verb>_at` is named by its verb.                    *)
(***************************************************************************)

\* The CHECK constraint of orders.status; "absent" is an order without a row.
Statuses == {"pending_payment", "placed", "accepted", "rejected", "preparing",
             "ready", "assigned", "picked", "delivered", "cancelled"}

Absent == "absent"

Rule(from, to, actors) == [from |-> from, to |-> to, actors |-> actors]

Transitions ==
    { Rule("pending_payment", "placed", {"system"}),
      Rule("pending_payment", "cancelled", {"customer", "system"}),
      Rule("placed", "accepted", {"restaurant_member"}),
      Rule("placed", "rejected", {"restaurant_member"}),
      Rule("placed", "cancelled",
           {"customer", "restaurant_member", "system", "admin"}),
      Rule("accepted", "preparing", {"restaurant_member"}),
      Rule("accepted", "cancelled", {"restaurant_member", "admin"}),
      Rule("preparing", "ready", {"restaurant_member"}),
      Rule("preparing", "cancelled", {"restaurant_member", "admin"}),
      Rule("ready", "assigned", {"system"}),
      Rule("ready", "cancelled", {"restaurant_member", "admin"}),
      Rule("assigned", "picked", {"agent"}),
      Rule("assigned", "cancelled", {"admin"}),
      Rule("picked", "delivered", {"agent"}) }

RequiresReason(from, to) ==
    to = "rejected" \/ (to = "cancelled" /\ from # "pending_payment")

\* `stamp: null` for placed and preparing, the target's own column otherwise.
StampOf(to) == IF to \in {"placed", "preparing"} THEN {} ELSE {to}

\* Mistaken variant: an admin may make every move of the matrix.
AssertTransitionAdminOverride(current, next, actor, hasReason) ==
    /\ \E t \in Transitions :
          t.from = current /\ t.to = next /\ actor \in t.actors \cup {"admin"}
    /\ RequiresReason(current, next) => hasReason

(***************************************************************************)
(* assertTransition: unknown moves, wrong actors and missing reasons throw. *)
(* The customer cancel window of the method guards the move cancelled ->   *)
(* placed, which no rule allows, so it never decides anything.             *)
(***************************************************************************)
AssertTransition(current, next, actor, hasReason) ==
    /\ \E t \in Transitions :
          t.from = current /\ t.to = next /\ actor \in t.actors
    /\ RequiresReason(current, next) => hasReason

\* Some actor may make this move.
Legal(current, next) ==
    \E t \in Transitions : t.from = current /\ t.to = next

=============================================================================
