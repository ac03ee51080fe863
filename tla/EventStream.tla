---------------------------- MODULE EventStream ----------------------------
(***************************************************************************)
(* What the transactional outbox promises: what a committed transaction    *)
(* announced, and nothing else, reaches the broker, sooner or later.  How  *)
(* often and in which order is not promised.                               *)
(***************************************************************************)
CONSTANT Events

VARIABLES announced,   \* events of committed transactions
          delivered    \* events the broker has got at least once

streamVars == <<announced, delivered>>

Init == announced = {} /\ delivered = {}

\* A transaction commits with its event.
Announce(e) ==
    /\ e \notin announced
    /\ announced' = announced \cup {e}
    /\ UNCHANGED delivered

Deliver(e) ==
    /\ e \in announced \ delivered
    /\ delivered' = delivered \cup {e}
    /\ UNCHANGED announced

Next == \E e \in Events : Announce(e) \/ Deliver(e)

Spec == Init /\ [][Next]_streamVars

\* No event is delivered twice, so that this delivers each of finitely many.
FairSpec == Spec /\ WF_streamVars(\E e \in Events : Deliver(e))

=============================================================================
