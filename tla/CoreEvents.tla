----------------------------- MODULE CoreEvents -----------------------------
(***************************************************************************)
(* Events of the core service (lib/core-events): a durable queue, consumed *)
(* by the servers and the workers alike, several messages of a process at  *)
(* a time; deduplication by a Redis key that is set before the handler     *)
(* runs; a dead letter queue that operators may replay.  The handlers keep *)
(* the reject flag of a branch and merge fields into a cached product,     *)
(* which getBranchProducts fetches whole when it cannot use it.            *)
(*                                                                         *)
(* One branch with one product.  Restaurant and permission events only     *)
(* delete a key and are left out.  All within the day a key lives.         *)
(***************************************************************************)
EXTENDS Naturals, FiniteSets

CONSTANTS Processes,  \* processes that consume the queue
          Prefetch,   \* unacknowledged messages of a process
          MaxEvents   \* bound on the events the core service publishes

ASSUME ConstantsAssumption ==
    /\ "none" \notin Processes
    /\ Prefetch \in Nat \ {0}
    /\ MaxEvents \in Nat

VARIABLES event,      \* events published so far and where they are
          seen,       \* core-events:dedupe:<eventId>
          rejecting,  \* branch:reject-new-orders:<branch> is "1"
          product,    \* the fields of the cached product; {} is no key
          applied,    \* history: how often an event's handler finished
          lost,       \* history: events whose handler was cut off
          disordered  \* history: an event was begun beside or behind a later

vars == <<event, seen, rejecting, product, applied, lost, disordered>>

Events == 1..MaxEvents
BranchKinds == {"branch.updated", "branch.deactivated"}
FieldOf == [k \in {"product.stock.changed", "product.price.changed"} |->
                IF k = "product.stock.changed" THEN "stock" ELSE "price"]
Handled == BranchKinds \cup DOMAIN FieldOf
Kinds == Handled \cup {"unhandled", "malformed"}

\* An entry filled by events has no name.
Whole == {"name", "stock", "price"}

\* queued - taken (delivered) - reading, writing (the handler's two calls of
\* Redis) - handled - acked; or dead, in the dead letter queue.  read: the
\* product as the handler read it.
Event == [kind : Kinds \cup {"none"}, by : Processes \cup {"none"},
          at : {"none", "queued", "taken", "reading", "writing", "handled",
                "acked", "dead"},
          read : SUBSET Whole]
NoEvent == [kind |-> "none", by |-> "none", at |-> "none", read |-> {}]

Held == {"taken", "reading", "writing", "handled"}

In(e, places) == event[e].at \in places
Moves(e, place) == [event EXCEPT ![e].at = place]
Unacked(p) == {e \in Events : event[e].by = p}

\* ack and nack: the message is the process's no more.
Settles(e, place) == [event EXCEPT ![e].at = place, ![e].by = "none",
                                   ![e].read = {}]

TypeOK ==
    /\ event \in [Events -> Event]
    /\ \A e \in Events : event[e].by # "none" <=> In(e, Held)
    /\ \A p \in Processes : Cardinality(Unacked(p)) <= Prefetch
    /\ seen \subseteq Events
    /\ rejecting \in BOOLEAN
    /\ product \in SUBSET Whole
    /\ applied \in [Events -> Nat]
    /\ lost \subseteq Events
    /\ disordered \in BOOLEAN

Init ==
    /\ event = [e \in Events |-> NoEvent]
    /\ seen = {}
    /\ rejecting = FALSE
    /\ product = {}
    /\ applied = [e \in Events |-> 0]
    /\ lost = {}
    /\ disordered = FALSE

-----------------------------------------------------------------------------
(* The broker and the consumer *)

\* External: the core service publishes its next event.
Publish(e, k) ==
    /\ In(e, {"none"})
    /\ \A f \in Events : f < e => ~In(f, {"none"})
    /\ event' = [event EXCEPT ![e] = [NoEvent EXCEPT !.kind = k, !.at = "queued"]]
    /\ UNCHANGED <<seen, rejecting, product, applied, lost, disordered>>

\* Every server and every worker binds itself to the one queue at its start.
Consumes(p) == Cardinality(Unacked(p)) < Prefetch

\* The head of the queue is delivered; a requeued message is back in its place.
Take(p, e) ==
    /\ In(e, {"queued"})
    /\ \A f \in Events : f < e => ~In(f, {"queued"})
    /\ Consumes(p)
    /\ event' = [event EXCEPT ![e].at = "taken", ![e].by = p]
    /\ UNCHANGED <<seen, rejecting, product, applied, lost, disordered>>

InHandler(e) == In(e, {"reading", "writing"})

\* SETNX of the event's key.
Marks(e) == seen' = seen \cup {e}

\* Mistaken variant: one key for all events of a type.
IsDuplicateOfKind(e) == \E f \in seen : event[f].kind = event[e].kind

IsDuplicate(e) == e \in seen

\* Mistaken variant: a duplicate is queued again, for the one that has the key.
DismissToQueue(e) == Settles(e, "queued")

Dismiss(e) == Settles(e, "acked")

\* parseEnvelope.
Parses(e) == event[e].kind # "malformed"

\* A handler is registered for the type.
HasHandler(e) == event[e].kind \in Handled

\* nack without requeue: to the dead letter queue.
Nacks(e) == Settles(e, "dead")

Discard(e) ==
    /\ In(e, {"taken"})
    /\ ~Parses(e)
    /\ event' = Nacks(e)
    /\ UNCHANGED <<seen, rejecting, product, applied, lost, disordered>>

\* A duplicate is acknowledged, and so is an event without a handler;
\* otherwise the handler begins.
Dedupe(e) ==
    /\ In(e, {"taken"})
    /\ Parses(e)
    /\ IF IsDuplicate(e)
       THEN /\ event' = Dismiss(e)
            /\ UNCHANGED <<seen, disordered>>
       ELSE /\ Marks(e)
            /\ event' = IF HasHandler(e) THEN Moves(e, "reading")
                                         ELSE Settles(e, "acked")
            /\ disordered' = (disordered \/ \E f \in Events \ {e} :
                                  InHandler(f) \/ (f > e /\ f \in seen))
    /\ UNCHANGED <<rejecting, product, applied, lost>>

\* The first call: the branch's cache key is deleted, or the product read.
HandlerReads(e) ==
    /\ In(e, {"reading"})
    /\ event' = [event EXCEPT ![e].at = "writing",
                              ![e].read = IF event[e].kind \in BranchKinds
                                          THEN {} ELSE product]
    /\ UNCHANGED <<seen, rejecting, product, applied, lost, disordered>>

\* Mistaken variant: an update leaves the flag of an earlier event.
FlagAfterSticky(k) == rejecting \/ k = "branch.deactivated"

\* handleBranchDeactivated sets the flag, handleBranchUpdated deletes it.
FlagAfter(k) == k = "branch.deactivated"

\* The second call: the flag, or the product as it was read with one field
\* more.
HandlerWrites(e) ==
    LET k == event[e].kind IN
    /\ In(e, {"writing"})
    /\ IF k \in BranchKinds
       THEN rejecting' = FlagAfter(k) /\ UNCHANGED product
       ELSE product' = event[e].read \cup {FieldOf[k]} /\ UNCHANGED rejecting
    /\ applied' = [applied EXCEPT ![e] = @ + 1]
    /\ event' = Moves(e, "handled")
    /\ UNCHANGED <<seen, lost, disordered>>

Ack(e) ==
    /\ In(e, {"handled"})
    /\ event' = Settles(e, "acked")
    /\ UNCHANGED <<seen, rejecting, product, applied, lost, disordered>>

\* Redis fails, at the key or in the handler.
HandlerFails(e) ==
    /\ In(e, {"taken", "reading", "writing"})
    /\ Parses(e)
    /\ event' = Nacks(e)
    /\ lost' = lost \cup {e}
    /\ UNCHANGED <<seen, rejecting, product, applied, disordered>>

\* Unacknowledged messages of a dead process are queued again.
Crash(p) ==
    /\ Unacked(p) # {}
    /\ event' = [e \in Events |->
                    IF event[e].by # p THEN event[e]
                    ELSE [event[e] EXCEPT !.at = "queued", !.by = "none",
                                          !.read = {}]]
    /\ lost' = lost \cup {e \in Unacked(p) : InHandler(e)}
    /\ UNCHANGED <<seen, rejecting, product, applied, disordered>>

\* An operator replays a dead letter.
Replay(e) ==
    /\ In(e, {"dead"})
    /\ event' = Moves(e, "queued")
    /\ UNCHANGED <<seen, rejecting, product, applied, lost, disordered>>

-----------------------------------------------------------------------------
(* getBranchProducts *)

\* Mistaken variant: any entry with a stock will do.
IsUsableWithStock(entry) == "stock" \in entry

\* A partial entry is a miss.
IsUsable(entry) == "name" \in entry

\* A miss: the whole row is fetched and replaces the entry.
FetchProduct ==
    /\ ~IsUsable(product)
    /\ product' = Whole
    /\ UNCHANGED <<event, seen, rejecting, applied, lost, disordered>>

ProductExpires ==
    /\ product # {}
    /\ product' = {}
    /\ UNCHANGED <<event, seen, rejecting, applied, lost, disordered>>

Next ==
    \/ \E e \in Events, k \in Kinds : Publish(e, k)
    \/ \E p \in Processes, e \in Events : Take(p, e)
    \/ \E p \in Processes : Crash(p)
    \/ \E e \in Events : \/ Discard(e) \/ Dedupe(e) \/ HandlerReads(e) \/ HandlerWrites(e)
                         \/ Ack(e) \/ HandlerFails(e)
                         \/ Replay(e)
    \/ FetchProduct \/ ProductExpires

\* The broker delivers again and again, and handlers come to an end.
Fairness ==
    \A e \in Events :
        /\ SF_vars(\E p \in Processes : Take(p, e))
        /\ SF_vars(Discard(e) \/ Dedupe(e))
        /\ WF_vars(HandlerReads(e))
        /\ WF_vars(HandlerWrites(e))
        /\ WF_vars(Ack(e))

Spec == Init /\ [][Next]_vars /\ Fairness

-----------------------------------------------------------------------------
(* Properties *)

Settled == \A e \in Events : In(e, {"none", "acked", "dead"})

\* However often a message is redelivered or replayed, its handler finishes
\* once at most, so that it is not applied again over newer ones
\* (handleMessage's key); and of the events with a handler only one that was
\* cut off, by a crash or an error of Redis, is acknowledged without having
\* been applied.
AckedIsAppliedOnce ==
    \A e \in Events :
        /\ applied[e] <= 1
        /\ In(e, {"acked"}) /\ HasHandler(e) => applied[e] = 1 \/ e \in lost

\* When the queue is empty the flag is what the last event made it, unless an
\* event was cut off or begun beside or behind a later one.
FlagIsLatest ==
    LET branch == {e \in Events : event[e].kind \in BranchKinds} IN
    Settled /\ lost = {} /\ ~disordered =>
        (rejecting <=> \E e \in branch :
             /\ event[e].kind = "branch.deactivated"
             /\ \A f \in branch : f <= e)

\* What getBranchProducts takes from the cache has a name, a stock and a
\* price, however events, fetches and expiry interleave.
UsedProductIsWhole == IsUsable(product) => product = Whole

\* Whatever crashes and is redelivered, every message is acknowledged or ends
\* in the dead letter queue: none goes round for ever.
EventsSettle ==
    \A e \in Events : In(e, {"queued"}) ~> In(e, {"acked", "dead"})
=============================================================================
