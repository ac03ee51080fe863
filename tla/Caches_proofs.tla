---------------------------- MODULE Caches_proofs ----------------------------
(***************************************************************************)
(* The copies that the service keeps of what others decide, and how wrong  *)
(* they may be: the flag and the product that core events keep up to date  *)
(* (CoreEvents), the permissions and lists that time out (OrderList), the  *)
(* agents who were there a moment ago (Presence).  For any processes,      *)
(* requests, orders, agents, events and times.                             *)
(***************************************************************************)
EXTENDS CoreEvents, OrderList, Presence, FiniteSums, FiniteSetTheorems, TLAPS

-----------------------------------------------------------------------------
(* CoreEvents *)

\* What the proof needs of TypeOK.
Typed ==
    /\ event \in [Events -> Event]
    /\ seen \subseteq Events
    /\ product \in SUBSET Whole
    /\ applied \in [Events -> Nat]
    /\ lost \subseteq Events

\* A handler that has begun has the key of its event, and an event that has
\* ended has it too.
BegunIsSeen ==
    \A e \in Events :
        /\ event[e].at \in {"reading", "writing", "handled", "acked"} => e \in seen
        /\ event[e].at = "none" => e \notin seen
        /\ event[e].at \in {"reading", "writing"} => event[e].kind \in Handled

\* The count of an event is told by its key and its place.
CountIsKnown ==
    \A e \in Events :
        /\ applied[e] \in {0, 1}
        /\ e \notin seen => applied[e] = 0
        /\ event[e].at \in {"reading", "writing"} => applied[e] = 0
        /\ event[e].at = "handled" => applied[e] = 1

\* An event with a key and a handler was applied, is at it, or was cut off.
SeenIsAccounted ==
    \A e \in seen : event[e].kind \in Handled =>
        \/ applied[e] = 1
        \/ e \in lost
        \/ event[e].at \in {"reading", "writing"}

\* What a handler has read is whole if it has a name.
ReadIsWhole ==
    \A e \in Events : "name" \in event[e].read => event[e].read = Whole

\* The inductive invariant.
IInv == /\ Typed
        /\ BegunIsSeen
        /\ CountIsKnown
        /\ SeenIsAccounted
        /\ ReadIsWhole
        /\ UsedProductIsWhole

-----------------------------------------------------------------------------

\* The kinds of an event that is handled and not a branch's have a field.
LEMMA HandledFields ==
    \A k \in Handled \ BranchKinds : FieldOf[k] \in {"stock", "price"}
BY DEF Handled, BranchKinds, FieldOf

\* A step of an event to another place, as Moves and Settles do it.
LEMMA MoveOfOne ==
    ASSUME Typed, NEW e \in Events,
           NEW place \in {"queued", "taken", "reading", "writing", "handled",
                          "acked", "dead"},
           event' = Moves(e, place) \/ event' = Settles(e, place)
    PROVE  /\ event' \in [Events -> Event]
           /\ event'[e].at = place
           /\ event'[e].kind = event[e].kind
           /\ event'[e].read \in {event[e].read, {}}
           /\ \A f \in Events \ {e} : event'[f] = event[f]
<1>1. CASE event' = Moves(e, place)
  BY <1>1 DEF Typed, Moves, Event
<1>2. CASE event' = Settles(e, place)
  <2>1. event' \in [Events -> Event]
    <3> DEFINE moved == [event EXCEPT ![e].at = place]
    <3> DEFINE freed == [moved EXCEPT ![e].by = "none"]
    <3>1. moved \in [Events -> Event]
      BY DEF Typed, Event
    <3>2. event' = [freed EXCEPT ![e].read = {}]
      BY <1>2 DEF Settles
    <3> HIDE DEF moved
    <3>3. freed \in [Events -> Event]
      BY <3>1 DEF Event
    <3> HIDE DEF freed
    <3> QED
      BY <3>2, <3>3 DEF Event
  <2>2. event'[e].at = place
    BY <1>2 DEF Typed, Settles, Event
  <2>3. event'[e].kind = event[e].kind
    BY <1>2 DEF Typed, Settles, Event
  <2>4. event'[e].read = {}
    BY <1>2 DEF Typed, Settles, Event
  <2>5. \A f \in Events \ {e} : event'[f] = event[f]
    BY <1>2 DEF Typed, Settles
  <2> QED
    BY <2>1, <2>2, <2>3, <2>4, <2>5
<1> QED
  BY <1>1, <1>2

LEMMA InitIInv == Init => IInv
<1> SUFFICES ASSUME Init
             PROVE  IInv
  OBVIOUS
<1>1. NoEvent \in Event
  BY DEF NoEvent, Event
<1>2. Typed
  BY <1>1 DEF Init, Typed
<1>3. \A e \in Events : event[e].at = "none" /\ event[e].read = {}
  BY DEF Init, NoEvent
<1>4. ReadIsWhole
  BY <1>3 DEF ReadIsWhole
<1> QED
  BY <1>2, <1>3, <1>4 DEF IInv, Init, BegunIsSeen, CountIsKnown, SeenIsAccounted,
     UsedProductIsWhole, IsUsable

\* The core service's next event is new to everyone.
LEMMA PublishKeepsIInv ==
    ASSUME IInv, NEW e \in Events, NEW k \in Kinds, Publish(e, k)
    PROVE  IInv'
<1> DEFINE new == [NoEvent EXCEPT !.kind = k, !.at = "queued"]
<1>1. new.at = "queued" /\ new.read = {}
  BY DEF NoEvent
<1>2. new \in Event
  BY DEF NoEvent, Event
<1>3. event' = [event EXCEPT ![e] = new] /\ event[e].at = "none"
      /\ UNCHANGED <<seen, product, applied, lost>>
  BY DEF Publish, In
<1> HIDE DEF new
<1>5. event'[e] = new /\ \A f \in Events \ {e} : event'[f] = event[f]
  BY <1>3 DEF IInv, Typed
<1>6. Typed'
  BY <1>2, <1>3 DEF IInv, Typed
<1>7. e \notin seen
  BY <1>3 DEF IInv, BegunIsSeen
<1>8. BegunIsSeen'
  BY <1>1, <1>3, <1>5, <1>7 DEF IInv, BegunIsSeen
<1>9. CountIsKnown'
  BY <1>1, <1>3, <1>5, <1>7 DEF IInv, CountIsKnown
<1>10. SeenIsAccounted'
  BY <1>3, <1>5, <1>7 DEF IInv, Typed, SeenIsAccounted
<1>11. ReadIsWhole'
  BY <1>1, <1>3, <1>5 DEF IInv, ReadIsWhole
<1>12. UsedProductIsWhole'
  BY <1>3 DEF IInv, UsedProductIsWhole, IsUsable
<1> QED
  BY <1>6, <1>8, <1>9, <1>10, <1>11, <1>12 DEF IInv

\* A step of an event that neither begins nor ends its handler.
LEMMA PassKeepsIInv ==
    ASSUME IInv, NEW e \in Events,
           NEW place \in {"queued", "taken", "acked", "dead"},
           event' = Moves(e, place) \/ event' = Settles(e, place),
           event[e].at # "none",
           event[e].at \notin {"reading", "writing"} \/ e \in lost',
           place = "acked" => e \in seen,
           lost \subseteq lost', lost' \subseteq Events,
           UNCHANGED <<seen, product, applied>>
    PROVE  IInv'
<1>1. /\ event' \in [Events -> Event]
      /\ event'[e].at = place
      /\ event'[e].kind = event[e].kind
      /\ event'[e].read \in {event[e].read, {}}
      /\ \A f \in Events \ {e} : event'[f] = event[f]
  BY MoveOfOne DEF IInv
<1>2. Typed'
  BY <1>1 DEF IInv, Typed
<1>3. BegunIsSeen'
  BY <1>1 DEF IInv, BegunIsSeen
<1>4. CountIsKnown'
  BY <1>1 DEF IInv, CountIsKnown
<1>5. SeenIsAccounted'
  BY <1>1 DEF IInv, SeenIsAccounted, Typed
<1>6. ReadIsWhole'
  BY <1>1 DEF IInv, ReadIsWhole
<1>7. UsedProductIsWhole'
  BY DEF IInv, UsedProductIsWhole, IsUsable
<1> QED
  BY <1>2, <1>3, <1>4, <1>5, <1>6, <1>7 DEF IInv

\* A delivery.
LEMMA TakeKeepsIInv ==
    ASSUME IInv, NEW p \in Processes, NEW e \in Events, Take(p, e)
    PROVE  IInv'
<1> DEFINE moved == [event EXCEPT ![e].at = "taken"]
<1>1. event' = [moved EXCEPT ![e].by = p] /\ event[e].at = "queued"
      /\ UNCHANGED <<seen, product, applied, lost>>
  BY DEF Take, In
<1>2. /\ moved \in [Events -> Event]
      /\ moved[e].at = "taken" /\ moved[e].kind = event[e].kind
      /\ moved[e].read = event[e].read
      /\ \A f \in Events \ {e} : moved[f] = event[f]
  BY DEF IInv, Typed, Event
<1> HIDE DEF moved
<1>3. /\ event' \in [Events -> Event]
      /\ event'[e].at = "taken" /\ event'[e].kind = event[e].kind
      /\ event'[e].read = event[e].read
      /\ \A f \in Events \ {e} : event'[f] = event[f]
  BY <1>1, <1>2 DEF Event
<1>4. Typed' /\ ReadIsWhole' /\ UsedProductIsWhole'
  BY <1>1, <1>3 DEF IInv, Typed, ReadIsWhole, UsedProductIsWhole, IsUsable
<1>5. BegunIsSeen'
  BY <1>1, <1>3 DEF IInv, BegunIsSeen
<1>6. CountIsKnown'
  BY <1>1, <1>3 DEF IInv, CountIsKnown
<1>7. SeenIsAccounted'
  BY <1>1, <1>3 DEF IInv, SeenIsAccounted, Typed
<1> QED
  BY <1>4, <1>5, <1>6, <1>7 DEF IInv

\* The key is looked up: a duplicate is dismissed, another event is marked
\* and its handler, if there is one, begins.
LEMMA DedupeKeepsIInv ==
    ASSUME IInv, NEW e \in Events, Dedupe(e)
    PROVE  IInv'
<1>1. event[e].at = "taken" /\ UNCHANGED <<product, applied, lost>>
  BY DEF Dedupe, In
<1>2. CASE IsDuplicate(e)
  <2>1. event' = Settles(e, "acked") /\ e \in seen /\ seen' = seen
    BY <1>2 DEF Dedupe, Dismiss, IsDuplicate
  <2> QED
    BY <1>1, <2>1, PassKeepsIInv DEF IInv, Typed
<1>3. CASE ~IsDuplicate(e)
  <2>1. /\ e \notin seen /\ seen' = seen \cup {e}
        /\ \/ event' = Moves(e, "reading") /\ event[e].kind \in Handled
           \/ event' = Settles(e, "acked") /\ event[e].kind \notin Handled
    BY <1>3 DEF Dedupe, IsDuplicate, Marks, HasHandler
  <2>2. /\ event' \in [Events -> Event]
        /\ event'[e].at \in {"reading", "acked"}
        /\ event'[e].kind \in Handled <=> event'[e].at = "reading"
        /\ event'[e].read \in {event[e].read, {}}
        /\ \A f \in Events \ {e} : event'[f] = event[f]
    BY <2>1, MoveOfOne DEF IInv
  <2>3. Typed' /\ ReadIsWhole' /\ UsedProductIsWhole'
    BY <1>1, <2>1, <2>2 DEF IInv, Typed, ReadIsWhole, UsedProductIsWhole, IsUsable
  <2>4. BegunIsSeen'
    BY <1>1, <2>1, <2>2 DEF IInv, BegunIsSeen
  <2>5. CountIsKnown'
    BY <1>1, <2>1, <2>2 DEF IInv, CountIsKnown
  <2>6. SeenIsAccounted'
    BY <1>1, <2>1, <2>2 DEF IInv, SeenIsAccounted, Typed
  <2> QED
    BY <2>3, <2>4, <2>5, <2>6 DEF IInv
<1> QED
  BY <1>2, <1>3

\* The product is read as it is.
LEMMA HandlerReadsKeepsIInv ==
    ASSUME IInv, NEW e \in Events, HandlerReads(e)
    PROVE  IInv'
<1> DEFINE moved == [event EXCEPT ![e].at = "writing"]
<1>1. PICK r \in {{}, product} : event' = [moved EXCEPT ![e].read = r]
  BY DEF HandlerReads
<1>2. event[e].at = "reading" /\ UNCHANGED <<seen, product, applied, lost>>
  BY DEF HandlerReads, In
<1>3. r \in SUBSET Whole /\ ("name" \in r => r = Whole)
  BY DEF IInv, Typed, UsedProductIsWhole, IsUsable
<1>4. /\ moved \in [Events -> Event]
      /\ moved[e].at = "writing" /\ moved[e].kind = event[e].kind
      /\ \A f \in Events \ {e} : moved[f] = event[f]
  BY DEF IInv, Typed, Event
<1> HIDE DEF moved
<1>5. /\ event' \in [Events -> Event]
      /\ event'[e].at = "writing" /\ event'[e].kind = event[e].kind
      /\ event'[e].read = r
      /\ \A f \in Events \ {e} : event'[f] = event[f]
  BY <1>1, <1>3, <1>4 DEF Event
<1>6. Typed' /\ ReadIsWhole' /\ UsedProductIsWhole'
  BY <1>2, <1>3, <1>5 DEF IInv, Typed, ReadIsWhole, UsedProductIsWhole, IsUsable
<1>7. BegunIsSeen'
  BY <1>2, <1>5 DEF IInv, BegunIsSeen
<1>8. CountIsKnown'
  BY <1>2, <1>5 DEF IInv, CountIsKnown
<1>9. SeenIsAccounted'
  BY <1>2, <1>5 DEF IInv, SeenIsAccounted, Typed
<1> QED
  BY <1>6, <1>7, <1>8, <1>9 DEF IInv

\* The handler of a marked event that was not applied finishes.
LEMMA HandlerWritesKeepsIInv ==
    ASSUME IInv, NEW e \in Events, HandlerWrites(e)
    PROVE  IInv'
<1>1. /\ event[e].at = "writing"
      /\ event' = Moves(e, "handled")
      /\ applied' = [applied EXCEPT ![e] = @ + 1]
      /\ UNCHANGED <<seen, lost>>
  BY DEF HandlerWrites, In
<1>2. /\ event' \in [Events -> Event]
      /\ event'[e].at = "handled" /\ event'[e].kind = event[e].kind
      /\ event'[e].read \in {event[e].read, {}}
      /\ \A f \in Events \ {e} : event'[f] = event[f]
  BY <1>1, MoveOfOne DEF IInv
<1>3. e \in seen /\ applied[e] = 0 /\ event[e].kind \in Handled
  BY <1>1 DEF IInv, BegunIsSeen, CountIsKnown
<1>4. /\ applied' \in [Events -> Nat] /\ applied'[e] = 1
      /\ \A f \in Events \ {e} : applied'[f] = applied[f]
  BY <1>1, <1>3 DEF IInv, Typed
<1>5. product' \in SUBSET Whole /\ UsedProductIsWhole'
  <2>1. CASE event[e].kind \in BranchKinds
    BY <2>1 DEF HandlerWrites, IInv, Typed, UsedProductIsWhole, IsUsable
  <2>2. CASE event[e].kind \notin BranchKinds
    <3>1. PICK field \in {"stock", "price"} :
              product' = event[e].read \cup {field}
      BY <1>3, <2>2, HandledFields DEF HandlerWrites
    <3>2. event[e].read \in SUBSET Whole
          /\ ("name" \in event[e].read => event[e].read = Whole)
      BY DEF IInv, Typed, Event, ReadIsWhole
    <3> QED
      BY <3>1, <3>2 DEF Whole, UsedProductIsWhole, IsUsable
  <2> QED
    BY <2>1, <2>2
<1>6. Typed' /\ ReadIsWhole'
  BY <1>1, <1>2, <1>4, <1>5 DEF IInv, Typed, ReadIsWhole
<1>7. BegunIsSeen'
  BY <1>1, <1>2, <1>3 DEF IInv, BegunIsSeen
<1>8. CountIsKnown'
  BY <1>1, <1>2, <1>3, <1>4 DEF IInv, CountIsKnown
<1>9. SeenIsAccounted'
  BY <1>1, <1>2, <1>3, <1>4 DEF IInv, SeenIsAccounted, Typed
<1> QED
  BY <1>5, <1>6, <1>7, <1>8, <1>9 DEF IInv

\* A dead process: what it held is queued, and cut off if it was at work.
LEMMA CrashKeepsIInv ==
    ASSUME IInv, NEW p \in Processes, Crash(p)
    PROVE  IInv'
<1> DEFINE held == {e \in Events : event[e].by = p}
<1> DEFINE cut == {e \in held : event[e].at \in {"reading", "writing"}}
<1> DEFINE back(e) == [event[e] EXCEPT !.at = "queued", !.by = "none", !.read = {}]
<1>1. /\ event' = [e \in Events |-> IF event[e].by # p THEN event[e] ELSE back(e)]
      /\ lost' = lost \cup cut
      /\ UNCHANGED <<seen, product, applied>>
  BY DEF Crash, Unacked, InHandler, In
<1>2. \A e \in Events : /\ back(e) \in Event
                         /\ back(e).at = "queued" /\ back(e).read = {}
                         /\ back(e).kind = event[e].kind
  <2> TAKE e \in Events
  <2>1. event[e] \in Event
    BY DEF IInv, Typed
  <2> QED
    BY <2>1 DEF Event
<1> HIDE DEF back
<1>3. /\ event' \in [Events -> Event]
      /\ \A e \in Events : event'[e].kind = event[e].kind
      /\ \A e \in held : event'[e].at = "queued" /\ event'[e].read = {}
      /\ \A e \in Events \ held : event'[e] = event[e]
  BY <1>1, <1>2 DEF IInv, Typed
<1>4. \A e \in held : event[e].at # "none" \/ e \notin seen
  BY DEF IInv, BegunIsSeen
<1>5. Typed' /\ ReadIsWhole' /\ UsedProductIsWhole'
  BY <1>1, <1>3 DEF IInv, Typed, ReadIsWhole, UsedProductIsWhole, IsUsable
<1>6. BegunIsSeen'
  BY <1>1, <1>3 DEF IInv, BegunIsSeen
<1>7. CountIsKnown'
  BY <1>1, <1>3 DEF IInv, CountIsKnown
<1>8. SeenIsAccounted'
  <2> SUFFICES ASSUME NEW e \in seen, event[e].kind \in Handled
               PROVE  \/ applied[e] = 1 \/ e \in lost'
                      \/ event'[e].at \in {"reading", "writing"}
    BY <1>1, <1>3 DEF IInv, Typed, SeenIsAccounted
  <2>1. \/ applied[e] = 1 \/ e \in lost
        \/ event[e].at \in {"reading", "writing"}
    BY DEF IInv, SeenIsAccounted
  <2>2. e \in Events
    BY DEF IInv, Typed
  <2> QED
    BY <1>1, <1>3, <2>1, <2>2
<1> QED
  BY <1>5, <1>6, <1>7, <1>8 DEF IInv

\* The other steps of a message: what Redis has of it stays.
LEMMA MessageKeepsIInv ==
    ASSUME IInv, NEW e \in Events,
           Discard(e) \/ Ack(e) \/ HandlerFails(e) \/ Replay(e)
    PROVE  IInv'
<1>1. CASE Discard(e)
  BY <1>1, PassKeepsIInv DEF Discard, In, Nacks, IInv, Typed
<1>2. CASE Ack(e)
  <2>1. e \in seen
    BY <1>2 DEF Ack, In, IInv, BegunIsSeen
  <2> QED
    BY <1>2, <2>1, PassKeepsIInv DEF Ack, In, IInv, Typed
<1>3. CASE HandlerFails(e)
  BY <1>3, PassKeepsIInv DEF HandlerFails, In, Nacks, IInv, Typed
<1>4. CASE Replay(e)
  BY <1>4, PassKeepsIInv DEF Replay, In, IInv, Typed
<1> QED
  BY <1>1, <1>2, <1>3, <1>4

\* The entry of the product is filled whole, or expires.
LEMMA EntryKeepsIInv ==
    ASSUME IInv, FetchProduct \/ ProductExpires
    PROVE  IInv'
<1>1. product' \in {Whole, {}} /\ UNCHANGED <<event, seen, applied, lost>>
  BY DEF FetchProduct, ProductExpires
<1> QED
  BY <1>1 DEF IInv, Typed, BegunIsSeen, CountIsKnown, SeenIsAccounted, ReadIsWhole,
     UsedProductIsWhole, IsUsable

LEMMA StepIInv == IInv /\ [Next]_vars => IInv'
<1> SUFFICES ASSUME IInv, [Next]_vars
             PROVE  IInv'
  OBVIOUS
<1>1. CASE UNCHANGED vars
  BY <1>1 DEF vars, IInv, Typed, BegunIsSeen, CountIsKnown, SeenIsAccounted,
     ReadIsWhole, UsedProductIsWhole, IsUsable
<1>2. CASE Next
  BY <1>2, PublishKeepsIInv, TakeKeepsIInv, CrashKeepsIInv, DedupeKeepsIInv,
     HandlerReadsKeepsIInv, HandlerWritesKeepsIInv, MessageKeepsIInv, EntryKeepsIInv
     DEF Next
<1> QED
  BY <1>1, <1>2

\* The invariant holds of every behaviour of the consumers.
LEMMA SpecIInv == Spec => []IInv
  BY InitIInv, StepIInv, PTL DEF Spec

-----------------------------------------------------------------------------

\* The key that handleMessage sets before the handler runs is enough: however
\* messages are redelivered and replayed and whoever crashes, an event is
\* applied once at most, and an acknowledged one was applied or cut off.
THEOREM AppliedAtMostOnce == Spec => []AckedIsAppliedOnce
<1>1. IInv => AckedIsAppliedOnce
  <2> SUFFICES ASSUME IInv, NEW e \in Events
               PROVE  /\ applied[e] <= 1
                      /\ event[e].at = "acked" /\ event[e].kind \in Handled
                            => applied[e] = 1 \/ e \in lost
    BY DEF AckedIsAppliedOnce, In, HasHandler
  <2>1. applied[e] \in {0, 1}
    BY DEF IInv, CountIsKnown
  <2>2. event[e].at = "acked" => e \in seen
    BY DEF IInv, BegunIsSeen
  <2>3. e \in seen /\ event[e].kind \in Handled =>
            applied[e] = 1 \/ e \in lost \/ event[e].at \in {"reading", "writing"}
    BY DEF IInv, SeenIsAccounted
  <2> QED
    BY <2>1, <2>2, <2>3
<1> QED
  BY <1>1, SpecIInv, PTL

\* getBranchProducts never takes a partial entry for a product, in whatever
\* order events merge their fields and fetches replace the entry.
THEOREM NoPartialProduct == Spec => []UsedProductIsWhole
<1>1. IInv => UsedProductIsWhole
  BY DEF IInv
<1> QED
  BY <1>1, SpecIInv, PTL

-----------------------------------------------------------------------------
(* The reject flag *)

\* Events that were not published have no kind, and an event that could be
\* parsed is dead only if it was cut off.
PlaceTells ==
    \A e \in Events :
        /\ event[e].at = "none" => event[e].kind = "none"
        /\ event[e].at = "dead" => event[e].kind = "malformed" \/ e \in lost

\* While no event was begun beside or behind a later one, the one whose
\* handler runs is the last that was begun.
HandlerIsLast ==
    ~disordered => \A e \in Events : InHandler(e) => \A f \in seen : f <= e

\* The branch's events that were applied, and the last of them.
AppliedToBranch(e) == applied[e] = 1 /\ event[e].kind \in BranchKinds
LastApplied(e) ==
    AppliedToBranch(e) /\ \A f \in Events : AppliedToBranch(f) => f <= e

\* While none was, the flag is what the last applied event made it.
FlagIsOfLast ==
    ~disordered =>
        (rejecting <=> \E e \in Events : /\ LastApplied(e)
                                         /\ event[e].kind = "branch.deactivated")

FlagInv == PlaceTells /\ HandlerIsLast /\ FlagIsOfLast

\* Steps that neither begin nor finish a handler.
LEMMA FlagStays ==
    ASSUME IInv, HandlerIsLast, FlagIsOfLast,
           UNCHANGED <<seen, rejecting, applied, disordered>>,
           \A e \in Events : event[e].at # "none" => event'[e].kind = event[e].kind,
           \A e \in Events : event'[e].at \in {"reading", "writing"} => InHandler(e)
    PROVE  HandlerIsLast' /\ FlagIsOfLast'
<1>1. HandlerIsLast'
  BY DEF HandlerIsLast, InHandler, In
<1>2. \A e \in Events : applied[e] = 1 => event'[e].kind = event[e].kind
  BY DEF IInv, CountIsKnown, BegunIsSeen
<1>3. \A e \in Events : AppliedToBranch(e)' <=> AppliedToBranch(e)
  BY <1>2 DEF AppliedToBranch
<1>4. \A e \in Events : LastApplied(e)' <=> LastApplied(e)
  BY <1>3 DEF LastApplied
<1>5. \A e \in Events : LastApplied(e) => event'[e].kind = event[e].kind
  BY <1>2 DEF LastApplied, AppliedToBranch
<1> QED
  BY <1>1, <1>4, <1>5 DEF FlagIsOfLast

LEMMA InitFlagInv == Init => FlagInv
<1> SUFFICES ASSUME Init
             PROVE  FlagInv
  OBVIOUS
<1>1. \A e \in Events : event[e].at = "none" /\ event[e].kind = "none"
  BY DEF Init, NoEvent
<1>2. \A e \in Events : ~LastApplied(e)
  BY <1>1 DEF LastApplied, AppliedToBranch, BranchKinds
<1> QED
  BY <1>1, <1>2 DEF Init, FlagInv, PlaceTells, HandlerIsLast, InHandler, In,
     FlagIsOfLast

\* A step of one event that is neither.
LEMMA PassKeepsFlagInv ==
    ASSUME IInv, FlagInv, NEW e \in Events,
           UNCHANGED <<seen, rejecting, applied, disordered>>,
           lost \subseteq lost',
           event'[e].kind = event[e].kind \/ event[e].at = "none",
           event'[e].at # "none",
           event'[e].at = "dead" => event[e].kind = "malformed" \/ e \in lost',
           event[e].at # "none" \/ event'[e].at = "queued",
           event'[e].at \in {"reading", "writing"} => InHandler(e),
           \A f \in Events \ {e} : event'[f] = event[f]
    PROVE  FlagInv'
<1>1. PlaceTells'
  BY DEF FlagInv, PlaceTells
<1>2. HandlerIsLast' /\ FlagIsOfLast'
  <2>1. \A f \in Events : event[f].at # "none" => event'[f].kind = event[f].kind
    OBVIOUS
  <2>2. \A f \in Events : event'[f].at \in {"reading", "writing"} => InHandler(f)
    BY DEF InHandler, In
  <2> QED
    BY <2>1, <2>2, FlagStays DEF FlagInv
<1> QED
  BY <1>1, <1>2 DEF FlagInv

LEMMA MessageKeepsFlagInv ==
    ASSUME IInv, FlagInv, NEW e \in Events,
           \/ \E k \in Kinds : Publish(e, k)
           \/ \E p \in Processes : Take(p, e)
           \/ Discard(e) \/ Ack(e) \/ HandlerFails(e) \/ Replay(e)
           \/ HandlerReads(e)
    PROVE  FlagInv'
<1>1. Typed
  BY DEF IInv
<1>2. ASSUME NEW k \in Kinds, Publish(e, k)
      PROVE  FlagInv'
  <2>1. /\ event' = [event EXCEPT ![e] = [NoEvent EXCEPT !.kind = k, !.at = "queued"]]
        /\ event[e].at = "none"
        /\ UNCHANGED <<seen, rejecting, applied, lost, disordered>>
    BY <1>2 DEF Publish, In
  <2>2. event'[e].at = "queued" /\ \A f \in Events \ {e} : event'[f] = event[f]
    BY <1>1, <2>1 DEF Typed, NoEvent
  <2> QED
    BY <2>1, <2>2, PassKeepsFlagInv
<1>3. ASSUME NEW p \in Processes, Take(p, e)
      PROVE  FlagInv'
  <2>1. /\ event[e].at = "queued" /\ event'[e].at = "taken"
        /\ event'[e].kind = event[e].kind
        /\ UNCHANGED <<seen, rejecting, applied, lost, disordered>>
        /\ \A f \in Events \ {e} : event'[f] = event[f]
    BY <1>1, <1>3 DEF Take, In, Typed, Event
  <2> QED
    BY <2>1, PassKeepsFlagInv
<1>4. ASSUME Discard(e)
      PROVE  FlagInv'
  <2>1. /\ event[e].at = "taken" /\ event[e].kind = "malformed"
        /\ event' = Settles(e, "dead")
        /\ UNCHANGED <<seen, rejecting, applied, lost, disordered>>
    BY <1>4 DEF Discard, In, Parses, Nacks
  <2> QED
    BY <1>1, <2>1, MoveOfOne, PassKeepsFlagInv
<1>5. ASSUME Ack(e)
      PROVE  FlagInv'
  <2>1. /\ event[e].at = "handled" /\ event' = Settles(e, "acked")
        /\ UNCHANGED <<seen, rejecting, applied, lost, disordered>>
    BY <1>5 DEF Ack, In
  <2> QED
    BY <1>1, <2>1, MoveOfOne, PassKeepsFlagInv
<1>6. ASSUME HandlerFails(e)
      PROVE  FlagInv'
  <2>1. /\ event[e].at # "none" /\ event' = Settles(e, "dead")
        /\ e \in lost' /\ lost \subseteq lost'
        /\ UNCHANGED <<seen, rejecting, applied, disordered>>
    BY <1>6 DEF HandlerFails, In, Nacks
  <2> QED
    BY <1>1, <2>1, MoveOfOne, PassKeepsFlagInv
<1>7. ASSUME Replay(e)
      PROVE  FlagInv'
  <2>1. /\ event[e].at = "dead" /\ event' = Moves(e, "queued")
        /\ UNCHANGED <<seen, rejecting, applied, lost, disordered>>
    BY <1>7 DEF Replay, In
  <2> QED
    BY <1>1, <2>1, MoveOfOne, PassKeepsFlagInv
<1>8. ASSUME HandlerReads(e)
      PROVE  FlagInv'
  <2>1. /\ event[e].at = "reading" /\ event'[e].at = "writing"
        /\ event'[e].kind = event[e].kind
        /\ UNCHANGED <<seen, rejecting, applied, lost, disordered>>
        /\ \A f \in Events \ {e} : event'[f] = event[f]
    BY <1>1, <1>8 DEF HandlerReads, In, Typed, Event
  <2> QED
    BY <2>1, PassKeepsFlagInv DEF InHandler, In
<1> QED
  BY <1>2, <1>3, <1>4, <1>5, <1>6, <1>7, <1>8

\* An event is begun in order, or that it is not is on record.
LEMMA DedupeKeepsFlagInv ==
    ASSUME IInv, FlagInv, NEW e \in Events, Dedupe(e)
    PROVE  FlagInv'
<1>1. event[e].at = "taken" /\ UNCHANGED <<rejecting, applied, lost>> /\ Typed
  BY DEF Dedupe, In, IInv
<1>2. CASE IsDuplicate(e)
  <2>1. event' = Settles(e, "acked") /\ UNCHANGED <<seen, disordered>>
    BY <1>2 DEF Dedupe, Dismiss
  <2> QED
    BY <1>1, <2>1, MoveOfOne, PassKeepsFlagInv
<1>3. CASE ~IsDuplicate(e)
  <2>1. /\ e \notin seen /\ seen' = seen \cup {e}
        /\ event' = Moves(e, "reading") \/ event' = Settles(e, "acked")
        /\ disordered' = (disordered \/ \E f \in Events \ {e} :
                              InHandler(f) \/ (f > e /\ f \in seen))
    BY <1>3 DEF Dedupe, IsDuplicate, Marks
  <2>2. /\ event'[e].at \in {"reading", "acked"}
        /\ event'[e].kind = event[e].kind
        /\ \A f \in Events \ {e} : event'[f] = event[f]
    BY <1>1, <2>1, MoveOfOne
  <2>3. PlaceTells'
    BY <1>1, <2>2 DEF FlagInv, PlaceTells
  <2>4. HandlerIsLast'
    <3> SUFFICES ASSUME ~disordered', NEW f \in Events, InHandler(f)', NEW g \in seen'
                 PROVE  g <= f
      BY DEF HandlerIsLast
    <3>1. /\ \A h \in Events \ {e} : ~InHandler(h)
          /\ \A h \in Events \ {e} : h \in seen => ~(h > e)
      BY <2>1
    <3>2. f = e
      BY <2>2, <3>1 DEF InHandler, In
    <3>3. g \in Events /\ (g = e \/ g \in seen) /\ Events \subseteq Nat
      BY <1>1, <2>1, ConstantsAssumption DEF Typed, Events
    <3> QED
      BY <3>1, <3>2, <3>3
  <2>5. FlagIsOfLast'
    <3>1. \A f \in Events : AppliedToBranch(f)' <=> AppliedToBranch(f)
      BY <1>1, <2>2 DEF AppliedToBranch
    <3>2. \A f \in Events : LastApplied(f)' <=> LastApplied(f)
      BY <3>1 DEF LastApplied
    <3>3. \A f \in Events : event'[f].kind = event[f].kind
      BY <2>2
    <3> QED
      BY <1>1, <2>1, <3>2, <3>3 DEF FlagInv, FlagIsOfLast
  <2> QED
    BY <2>3, <2>4, <2>5 DEF FlagInv
<1> QED
  BY <1>2, <1>3

\* A handler that finishes in order is of the last event of all.
LEMMA HandlerWritesKeepsFlagInv ==
    ASSUME IInv, FlagInv, NEW e \in Events, HandlerWrites(e)
    PROVE  FlagInv'
<1>1. /\ event[e].at = "writing" /\ event' = Moves(e, "handled")
      /\ applied' = [applied EXCEPT ![e] = @ + 1]
      /\ UNCHANGED <<seen, lost, disordered>>
      /\ Typed
  BY DEF HandlerWrites, In, IInv
<1>2. /\ event'[e].at = "handled" /\ event'[e].kind = event[e].kind
      /\ \A f \in Events \ {e} : event'[f] = event[f]
  BY <1>1, MoveOfOne
<1>3. /\ applied[e] = 0 /\ applied'[e] = 1
      /\ \A f \in Events \ {e} : applied'[f] = applied[f]
  BY <1>1 DEF IInv, CountIsKnown, Typed
<1>4. PlaceTells'
  BY <1>1, <1>2 DEF FlagInv, PlaceTells
<1>5. HandlerIsLast'
  BY <1>1, <1>2 DEF FlagInv, HandlerIsLast, InHandler, In
<1>6. \A f \in Events : AppliedToBranch(f)' <=>
          AppliedToBranch(f) \/ (f = e /\ event[e].kind \in BranchKinds)
  BY <1>2, <1>3 DEF AppliedToBranch
<1>7. CASE event[e].kind \notin BranchKinds
  <2>1. rejecting' = rejecting
    BY <1>7 DEF HandlerWrites
  <2>2. \A f \in Events : LastApplied(f)' <=> LastApplied(f)
    BY <1>6, <1>7 DEF LastApplied
  <2>3. \A f \in Events : event'[f].kind = event[f].kind
    BY <1>2
  <2>4. FlagIsOfLast'
    BY <1>1, <2>1, <2>2, <2>3 DEF FlagInv, FlagIsOfLast
  <2> QED
    BY <1>4, <1>5, <2>4 DEF FlagInv
<1>8. CASE event[e].kind \in BranchKinds
  <2>1. rejecting' = (event[e].kind = "branch.deactivated")
    BY <1>8 DEF HandlerWrites, FlagAfter
  <2>2. ASSUME ~disordered
        PROVE  \A f \in Events : LastApplied(f)' <=> f = e
    <3>1. \A f \in Events : AppliedToBranch(f) => f \in seen
      BY DEF AppliedToBranch, IInv, CountIsKnown
    <3>2. \A f \in seen : f <= e
      BY <1>1, <2>2 DEF FlagInv, HandlerIsLast, InHandler, In
    <3>3. \A f \in Events : AppliedToBranch(f)' => f <= e
      BY <1>6, <3>1, <3>2, ConstantsAssumption DEF Events
    <3>4. AppliedToBranch(e)'
      BY <1>6, <1>8
    <3>5. LastApplied(e)'
      BY <3>3, <3>4 DEF LastApplied
    <3>6. \A f \in Events : LastApplied(f)' => e <= f /\ f <= e
      BY <3>3, <3>4 DEF LastApplied
    <3> QED
      BY <3>5, <3>6, ConstantsAssumption DEF Events
  <2>3. FlagIsOfLast'
    BY <1>1, <1>2, <2>1, <2>2 DEF FlagIsOfLast
  <2> QED
    BY <1>4, <1>5, <2>3 DEF FlagInv
<1> QED
  BY <1>7, <1>8

LEMMA CrashKeepsFlagInv ==
    ASSUME IInv, FlagInv, NEW p \in Processes, Crash(p)
    PROVE  FlagInv'
<1>1. /\ event' = [e \in Events |->
                      IF event[e].by # p THEN event[e]
                      ELSE [event[e] EXCEPT !.at = "queued", !.by = "none",
                                            !.read = {}]]
      /\ lost \subseteq lost'
      /\ UNCHANGED <<seen, rejecting, applied, disordered>>
  BY DEF Crash
<1>2. \A e \in Events : \/ event'[e] = event[e]
                        \/ event'[e].at = "queued" /\ event'[e].kind = event[e].kind
  <2> TAKE e \in Events
  <2>1. event[e] \in Event
    BY DEF IInv, Typed
  <2> QED
    BY <1>1, <2>1 DEF Event
<1>3. PlaceTells'
  BY <1>1, <1>2 DEF FlagInv, PlaceTells
<1>4. HandlerIsLast' /\ FlagIsOfLast'
  <2>1. \A e \in Events : event[e].at # "none" => event'[e].kind = event[e].kind
    BY <1>2
  <2>2. \A e \in Events : event'[e].at \in {"reading", "writing"} => InHandler(e)
    BY <1>2 DEF InHandler, In
  <2> QED
    BY <1>1, <2>1, <2>2, FlagStays DEF FlagInv
<1> QED
  BY <1>3, <1>4 DEF FlagInv

LEMMA StepFlagInv == IInv /\ FlagInv /\ [Next]_vars => FlagInv'
<1> SUFFICES ASSUME IInv, FlagInv, [Next]_vars
             PROVE  FlagInv'
  OBVIOUS
<1>1. CASE UNCHANGED <<event, seen, rejecting, applied, lost, disordered>>
  BY <1>1 DEF FlagInv, PlaceTells, HandlerIsLast, FlagIsOfLast, LastApplied,
     AppliedToBranch, InHandler, In
<1>2. CASE FetchProduct \/ ProductExpires
  BY <1>1, <1>2 DEF FetchProduct, ProductExpires
<1>3. CASE \E e \in Events : Dedupe(e) \/ HandlerWrites(e)
  BY <1>3, DedupeKeepsFlagInv, HandlerWritesKeepsFlagInv
<1>4. CASE \E p \in Processes : Crash(p)
  BY <1>4, CrashKeepsFlagInv
<1> QED
  BY <1>1, <1>2, <1>3, <1>4, MessageKeepsFlagInv DEF Next, vars

\* Once the queue is empty a branch rejects new orders exactly if the last
\* event about it says so, provided that no event was cut off and none begun
\* beside or behind a later one: no order of the other steps can do harm.
THEOREM FlagFollowsLastEvent == Spec => []FlagIsLatest
<1>1. IInv /\ FlagInv => FlagIsLatest
  <2> DEFINE branch == {e \in Events : event[e].kind \in BranchKinds}
  <2> SUFFICES ASSUME IInv, FlagInv, Settled, lost = {}, ~disordered
               PROVE  rejecting <=> \E e \in branch :
                                        /\ event[e].kind = "branch.deactivated"
                                        /\ \A f \in branch : f <= e
    BY DEF FlagIsLatest
  <2>1. \A e \in branch : event[e].at = "acked"
    BY DEF Settled, In, FlagInv, PlaceTells, BranchKinds
  <2>2. \A e \in branch : e \in seen /\ applied[e] = 1
    BY <2>1 DEF IInv, BegunIsSeen, SeenIsAccounted, Handled
  <2>3. \A e \in Events : AppliedToBranch(e) <=> e \in branch
    BY <2>2 DEF AppliedToBranch
  <2>4. \A e \in Events : LastApplied(e) <=>
            e \in branch /\ \A f \in branch : f <= e
    BY <2>3 DEF LastApplied
  <2> QED
    BY <2>4 DEF FlagInv, FlagIsOfLast
<1> QED
  BY <1>1, InitIInv, StepIInv, InitFlagInv, StepFlagInv, PTL DEF Spec

-----------------------------------------------------------------------------
(* Types, and who holds a message *)

\* A message is held by the process that has it delivered, and by nobody
\* otherwise; and no process holds more than its prefetch.
HoldersAreKnown == \A e \in Events : event[e].by # "none" <=> In(e, Held)
PrefetchIsKept == \A p \in Processes : Cardinality(Unacked(p)) <= Prefetch
FlagsTyped == rejecting \in BOOLEAN /\ disordered \in BOOLEAN
HeldInv == HoldersAreKnown /\ PrefetchIsKept /\ FlagsTyped

\* What a process holds is counted.
LEMMA UnackedIsFinite ==
    ASSUME NEW p
    PROVE  IsFiniteSet(Unacked(p)) /\ Cardinality(Unacked(p)) \in Nat
<1>1. IsFiniteSet(Events)
  BY ConstantsAssumption, FS_Interval DEF Events
<1>2. Unacked(p) \subseteq Events
  BY DEF Unacked
<1> QED
  BY <1>1, <1>2, FS_Subset, FS_CardinalityType

\* A step that gives no message to a process keeps to the prefetch.
LEMMA LettingGoKeepsHeldInv ==
    ASSUME PrefetchIsKept, FlagsTyped',
           \A e \in Events : event'[e].by \in {event[e].by, "none"},
           HoldersAreKnown'
    PROVE  HeldInv'
<1>1. ASSUME NEW p \in Processes
      PROVE  Cardinality(Unacked(p)') <= Prefetch
  <2>1. Unacked(p)' \subseteq Unacked(p)
    BY ConstantsAssumption DEF Unacked
  <2>2. /\ IsFiniteSet(Unacked(p))
        /\ Cardinality(Unacked(p)) \in Nat
        /\ Cardinality(Unacked(p)) <= Prefetch
    BY UnackedIsFinite DEF PrefetchIsKept
  <2>3. /\ Cardinality(Unacked(p)') \in Nat
        /\ Cardinality(Unacked(p)') <= Cardinality(Unacked(p))
    BY <2>1, <2>2, FS_Subset, FS_CardinalityType
  <2> QED
    BY <2>2, <2>3, ConstantsAssumption
<1>2. PrefetchIsKept'
  BY <1>1 DEF PrefetchIsKept
<1> QED
  BY <1>2 DEF HeldInv

\* One event goes to another place: it is held there as it was before, or by
\* nobody.
LEMMA MoveKeepsHeldInv ==
    ASSUME Typed, HeldInv, FlagsTyped', NEW e \in Events,
           NEW place \in {"queued", "taken", "reading", "writing", "handled",
                          "acked", "dead"},
           \/ event' = Moves(e, place) /\ (place \in Held <=> In(e, Held))
           \/ event' = Settles(e, place) /\ place \notin Held
    PROVE  HeldInv'
<1>1. /\ event'[e].at = place
      /\ \A f \in Events \ {e} : event'[f] = event[f]
  BY MoveOfOne
<1>2. \/ event'[e].by = event[e].by /\ (place \in Held <=> In(e, Held))
      \/ event'[e].by = "none" /\ place \notin Held
  <2>1. CASE event' = Moves(e, place) /\ (place \in Held <=> In(e, Held))
    BY <2>1 DEF Typed, Moves, Event
  <2>2. CASE event' = Settles(e, place) /\ place \notin Held
    BY <2>2 DEF Typed, Settles, Event
  <2> QED
    BY <2>1, <2>2
<1>3. HoldersAreKnown'
  BY <1>1, <1>2 DEF HeldInv, HoldersAreKnown, In
<1>4. \A f \in Events : event'[f].by \in {event[f].by, "none"}
  BY <1>1, <1>2
<1> QED
  BY <1>3, <1>4, LettingGoKeepsHeldInv DEF HeldInv

\* A delivery, to a process that has room for it.
LEMMA TakeKeepsHeldInv ==
    ASSUME Typed, HeldInv, NEW p \in Processes, NEW e \in Events, Take(p, e)
    PROVE  HeldInv'
<1>1. /\ event' = [event EXCEPT ![e].at = "taken", ![e].by = p]
      /\ Cardinality(Unacked(p)) < Prefetch
      /\ UNCHANGED <<rejecting, disordered>>
  BY DEF Take, Consumes
<1>2. /\ event'[e].at = "taken" /\ event'[e].by = p
      /\ \A f \in Events \ {e} : event'[f] = event[f]
  BY <1>1 DEF Typed, Event
<1>3. p # "none"
  BY ConstantsAssumption
<1>4. HoldersAreKnown'
  BY <1>2, <1>3 DEF HeldInv, HoldersAreKnown, In, Held
<1>5. ASSUME NEW q \in Processes
      PROVE  Cardinality(Unacked(q)') <= Prefetch
  <2>1. /\ IsFiniteSet(Unacked(q)) /\ Cardinality(Unacked(q)) \in Nat
        /\ Cardinality(Unacked(q)) <= Prefetch
    BY UnackedIsFinite DEF HeldInv, PrefetchIsKept
  <2>2. CASE q = p
    <3>1. Unacked(q)' \subseteq Unacked(q) \cup {e}
      BY <1>2 DEF Unacked
    <3>2. /\ IsFiniteSet(Unacked(q) \cup {e})
          /\ Cardinality(Unacked(q) \cup {e}) \in Nat
          /\ Cardinality(Unacked(q) \cup {e}) <= Cardinality(Unacked(q)) + 1
      <4>1. \A S : IsFiniteSet(S) =>
                /\ IsFiniteSet(S \cup {e})
                /\ Cardinality(S \cup {e}) \in {Cardinality(S), Cardinality(S) + 1}
        BY FS_AddElement
      <4> QED
        BY <2>1, <4>1
    <3>3. /\ Cardinality(Unacked(q)') \in Nat
          /\ Cardinality(Unacked(q)') <= Cardinality(Unacked(q) \cup {e})
      BY <3>1, <3>2, FS_Subset, FS_CardinalityType
    <3> QED
      BY <1>1, <2>1, <2>2, <3>2, <3>3, ConstantsAssumption
  <2>3. CASE q # p
    <3>1. Unacked(q)' \subseteq Unacked(q)
      BY <1>2, <2>3 DEF Unacked
    <3>2. /\ Cardinality(Unacked(q)') \in Nat
          /\ Cardinality(Unacked(q)') <= Cardinality(Unacked(q))
      BY <2>1, <3>1, FS_Subset, FS_CardinalityType
    <3> QED
      BY <2>1, <3>2, ConstantsAssumption
  <2> QED
    BY <2>2, <2>3
<1>6. PrefetchIsKept' /\ FlagsTyped'
  BY <1>1, <1>5 DEF PrefetchIsKept, FlagsTyped, HeldInv
<1> QED
  BY <1>4, <1>6 DEF HeldInv

\* A new event is nobody's.
LEMMA PublishKeepsHeldInv ==
    ASSUME Typed, HeldInv, NEW e \in Events, NEW k \in Kinds, Publish(e, k)
    PROVE  HeldInv'
<1> DEFINE new == [NoEvent EXCEPT !.kind = k, !.at = "queued"]
<1>1. new.at = "queued" /\ new.by = "none"
  BY DEF NoEvent
<1>2. event' = [event EXCEPT ![e] = new] /\ UNCHANGED <<rejecting, disordered>>
  BY DEF Publish
<1> HIDE DEF new
<1>3. event'[e] = new /\ \A f \in Events \ {e} : event'[f] = event[f]
  BY <1>2 DEF Typed
<1>4. HoldersAreKnown'
  BY <1>1, <1>3 DEF HeldInv, HoldersAreKnown, In, Held
<1>5. \A f \in Events : event'[f].by \in {event[f].by, "none"}
  BY <1>1, <1>3
<1>6. FlagsTyped'
  BY <1>2 DEF HeldInv, FlagsTyped
<1> QED
  BY <1>4, <1>5, <1>6, LettingGoKeepsHeldInv DEF HeldInv

\* A dead process holds nothing.
LEMMA CrashKeepsHeldInv ==
    ASSUME Typed, HeldInv, NEW p \in Processes, Crash(p)
    PROVE  HeldInv'
<1>1. /\ \A e \in Events :
             event'[e] = IF event[e].by # p THEN event[e]
                         ELSE [event[e] EXCEPT !.at = "queued", !.by = "none",
                                               !.read = {}]
      /\ UNCHANGED <<rejecting, disordered>>
  BY DEF Crash
<1>2. \A e \in Events :
          \/ event'[e] = event[e]
          \/ event'[e].at = "queued" /\ event'[e].by = "none"
  <2> TAKE e \in Events
  <2>1. event[e] \in Event
    BY DEF Typed
  <2> QED
    BY <1>1, <2>1 DEF Event
<1>3. HoldersAreKnown'
  BY <1>2 DEF HeldInv, HoldersAreKnown, In, Held
<1>4. \A e \in Events : event'[e].by \in {event[e].by, "none"}
  BY <1>2
<1>5. FlagsTyped'
  BY <1>1 DEF HeldInv, FlagsTyped
<1> QED
  BY <1>3, <1>4, <1>5, LettingGoKeepsHeldInv DEF HeldInv

\* The steps of one message from its delivery to its end, and its replay.
LEMMA MessageKeepsHeldInv ==
    ASSUME Typed, HeldInv, NEW e \in Events,
           \/ Discard(e) \/ Dedupe(e) \/ HandlerWrites(e)
           \/ Ack(e) \/ HandlerFails(e) \/ Replay(e)
    PROVE  HeldInv'
<1>1. CASE Discard(e) \/ HandlerFails(e)
  <2>1. event' = Settles(e, "dead") /\ FlagsTyped'
    BY <1>1 DEF Discard, HandlerFails, Nacks, HeldInv, FlagsTyped
  <2> QED
    BY <2>1, MoveKeepsHeldInv DEF Held
<1>2. CASE Dedupe(e)
  <2>1. FlagsTyped'
    <3>1. disordered' = disordered
          \/ disordered' = (disordered \/ \E f \in Events \ {e} :
                                InHandler(f) \/ (f > e /\ f \in seen))
      BY <1>2 DEF Dedupe
    <3>2. disordered' \in BOOLEAN
      BY <3>1 DEF HeldInv, FlagsTyped
    <3> QED
      BY <1>2, <3>2 DEF Dedupe, HeldInv, FlagsTyped
  <2>2. \/ event' = Settles(e, "acked")
        \/ event' = Moves(e, "reading") /\ In(e, {"taken"})
    BY <1>2 DEF Dedupe, Dismiss
  <2>3. "reading" \in Held /\ "acked" \notin Held /\ (In(e, {"taken"}) => In(e, Held))
    BY DEF Held, In
  <2> QED
    BY <2>1, <2>2, <2>3, MoveKeepsHeldInv
<1>3. CASE HandlerWrites(e)
  <2>1. event' = Moves(e, "handled") /\ In(e, {"writing"}) /\ FlagsTyped'
    BY <1>3 DEF HandlerWrites, FlagAfter, HeldInv, FlagsTyped
  <2>2. "handled" \in Held /\ In(e, Held)
    BY <2>1 DEF Held, In
  <2> QED
    BY <2>1, <2>2, MoveKeepsHeldInv
<1>4. CASE Ack(e)
  <2>1. event' = Settles(e, "acked") /\ FlagsTyped'
    BY <1>4 DEF Ack, HeldInv, FlagsTyped
  <2> QED
    BY <2>1, MoveKeepsHeldInv DEF Held
<1>5. CASE Replay(e)
  <2>1. event' = Moves(e, "queued") /\ In(e, {"dead"}) /\ FlagsTyped'
    BY <1>5 DEF Replay, HeldInv, FlagsTyped
  <2>2. "queued" \notin Held /\ ~In(e, Held)
    BY <2>1 DEF Held, In
  <2> QED
    BY <2>1, <2>2, MoveKeepsHeldInv
<1> QED
  BY <1>1, <1>2, <1>3, <1>4, <1>5

\* A handler reads the product.
LEMMA HandlerReadsKeepsHeldInv ==
    ASSUME Typed, HeldInv, NEW e \in Events, HandlerReads(e)
    PROVE  HeldInv'
<1> DEFINE moved == [event EXCEPT ![e].at = "writing"]
<1>1. PICK r : event' = [moved EXCEPT ![e].read = r]
  BY DEF HandlerReads
<1>2. event[e].at = "reading" /\ UNCHANGED <<rejecting, disordered>>
  BY DEF HandlerReads, In
<1>3. /\ moved[e].at = "writing" /\ moved[e].by = event[e].by
      /\ moved \in [Events -> Event]
      /\ \A f \in Events \ {e} : moved[f] = event[f]
  BY DEF Typed, Event
<1> HIDE DEF moved
<1>4. /\ event'[e].at = "writing" /\ event'[e].by = event[e].by
      /\ \A f \in Events \ {e} : event'[f] = event[f]
  BY <1>1, <1>3 DEF Event
<1>5. HoldersAreKnown'
  BY <1>2, <1>4 DEF HeldInv, HoldersAreKnown, In, Held
<1>6. \A f \in Events : event'[f].by \in {event[f].by, "none"}
  BY <1>4
<1>7. FlagsTyped'
  BY <1>2 DEF HeldInv, FlagsTyped
<1> QED
  BY <1>5, <1>6, <1>7, LettingGoKeepsHeldInv DEF HeldInv

LEMMA StepHeldInv == Typed /\ HeldInv /\ [Next]_vars => HeldInv'
<1> SUFFICES ASSUME Typed, HeldInv, [Next]_vars
             PROVE  HeldInv'
  OBVIOUS
<1>1. CASE UNCHANGED <<event, rejecting, disordered>>
  <2>1. HoldersAreKnown' /\ FlagsTyped'
    BY <1>1 DEF HeldInv, HoldersAreKnown, FlagsTyped, In
  <2>2. \A e \in Events : event'[e].by \in {event[e].by, "none"}
    BY <1>1
  <2> QED
    BY <2>1, <2>2, LettingGoKeepsHeldInv DEF HeldInv
<1>2. CASE FetchProduct \/ ProductExpires
  BY <1>1, <1>2 DEF FetchProduct, ProductExpires
<1> QED
  BY <1>1, <1>2, PublishKeepsHeldInv, TakeKeepsHeldInv, CrashKeepsHeldInv,
     MessageKeepsHeldInv, HandlerReadsKeepsHeldInv DEF Next, vars

\* Every variable has the values it may have; a message is held exactly while
\* a process has it, and a process has at most its prefetch, crashes,
\* redeliveries and replays included.
THEOREM TypeCorrect == Spec => []TypeOK
<1>1. Init => HeldInv
  <2> SUFFICES ASSUME Init
               PROVE  HeldInv
    OBVIOUS
  <2>1. \A e \in Events : event[e].by = "none" /\ event[e].at = "none"
    BY DEF Init, NoEvent
  <2>2. HoldersAreKnown /\ FlagsTyped
    BY <2>1 DEF Init, HoldersAreKnown, FlagsTyped, In, Held
  <2>3. \A p \in Processes : Unacked(p) = {}
    BY <2>1, ConstantsAssumption DEF Unacked
  <2>4. PrefetchIsKept
    BY <2>3, FS_EmptySet, ConstantsAssumption DEF PrefetchIsKept
  <2> QED
    BY <2>2, <2>4 DEF HeldInv
<1>2. IInv => Typed
  BY DEF IInv
<1>3. Typed /\ HeldInv => TypeOK
  BY DEF Typed, HeldInv, HoldersAreKnown, PrefetchIsKept, FlagsTyped, TypeOK
<1> QED
  BY <1>1, <1>2, <1>3, InitIInv, StepIInv, StepHeldInv, PTL DEF Spec

-----------------------------------------------------------------------------
(* OrderList: types, and how stale a permission may be *)

\* A request in progress began in time; and one that holds an answer of the
\* core service holds the truth, unless that changed since it began.
SlotIsSound(s) ==
    s.pc # "idle" =>
        /\ s.started <= now
        /\ now <= s.started + MaxRead
        /\ s.pc = "grant" /\ changed < s.started => (s.perm = "yes" <=> granted)
SlotsAreSound == \A r \in Slots : SlotIsSound(slot[r])

\* An entry was stored by a request that took MaxRead at the most: it is the
\* truth unless that changed after, or shortly before, it was stored.
EntryIsSound(e) ==
    e.perm # "none" =>
        /\ e.at <= now
        /\ changed + MaxRead < e.at => (e.perm = "yes" <=> granted)
EntriesAreSound == \A p \in Servers : EntryIsSound(cached[p])

\* The inductive invariant.
ListIInv == /\ ListTypeOK
            /\ changed <= now
            /\ SlotsAreSound
            /\ EntriesAreSound

-----------------------------------------------------------------------------

LEMMA IdleIsSound == Idle \in Slot /\ Idle.pc = "idle"
BY ListAssumption DEF Idle, Slot, Cursors, Times, Orders

LEMMA NoEntryIsSound == NoEntry \in Entry /\ NoEntry.perm = "none"
BY ListAssumption DEF NoEntry, Entry, Times

LEMMA NoListIsList == NoList \in List
BY ListAssumption DEF NoList, List, Times

LEMMA TimesAreNat == Times \subseteq Nat /\ MaxRead \in Nat /\ PermTTL \in Nat
BY ListAssumption DEF Times

LEMMA StampsAreNat ==
    ASSUME ListTypeOK
    PROVE  /\ now \in Nat /\ changed \in Nat
           /\ \A r \in Slots : slot[r].started \in Nat
           /\ \A p \in Servers : cached[p].at \in Nat
<1>1. now \in Nat /\ changed \in Nat
  BY TimesAreNat DEF ListTypeOK
<1>2. \A s \in Slot : s.started \in Nat
  BY TimesAreNat DEF Slot
<1>3. \A e \in Entry : e.at \in Nat
  BY TimesAreNat DEF Entry
<1> QED
  BY <1>1, <1>2, <1>3 DEF ListTypeOK

LEMMA ListInitIInv == ListInit => ListIInv
<1> SUFFICES ASSUME ListInit
             PROVE  ListIInv
  OBVIOUS
<1> USE IdleIsSound, NoEntryIsSound, NoListIsList DEF ListInit
<1>1. ListTypeOK
  <2>1. 0 \in Times
    BY ListAssumption DEF Times
  <2> QED
    BY <2>1 DEF ListTypeOK
<1>2. changed <= now
  OBVIOUS
<1>3. SlotsAreSound /\ EntriesAreSound
  BY DEF SlotsAreSound, SlotIsSound, EntriesAreSound, EntryIsSound
<1> QED
  BY <1>1, <1>2, <1>3 DEF ListIInv

\* One slot moves.
LEMMA OneSlotMoves ==
    ASSUME ListIInv, NEW r \in Slots, NEW s \in Slot, SlotIsSound(s),
           slot' = [slot EXCEPT ![r] = s],
           UNCHANGED <<granted, changed, now>>
    PROVE  SlotsAreSound' /\ slot' \in [Slots -> Slot]
<1>1. slot \in [Slots -> Slot]
  BY DEF ListIInv, ListTypeOK
<1>2. slot' \in [Slots -> Slot]
  BY <1>1
<1>3. ASSUME NEW q \in Slots
      PROVE  SlotIsSound(slot'[q])
  BY <1>1 DEF ListIInv, SlotsAreSound
<1> QED
  BY <1>2, <1>3 DEF SlotsAreSound, SlotIsSound

\* A step that leaves what the requests decide on.
LEMMA RequestKeepsIInv ==
    ASSUME ListIInv, NEW r \in Slots, NEW s \in Slot, SlotIsSound(s),
           slot' = [slot EXCEPT ![r] = s],
           UNCHANGED <<rowVars, rbacVars, now>>, list' \in List
    PROVE  ListIInv'
<1>1. UNCHANGED <<status, since, granted, changed, pending, cached, now>>
  BY DEF rowVars, rbacVars
<1>2. SlotsAreSound' /\ slot' \in [Slots -> Slot]
  BY <1>1, OneSlotMoves
<1>3. ListTypeOK'
  BY <1>1, <1>2 DEF ListIInv, ListTypeOK
<1>4. EntriesAreSound'
  BY <1>1 DEF ListIInv, EntriesAreSound, EntryIsSound
<1> QED
  BY <1>1, <1>2, <1>3, <1>4 DEF ListIInv

\* The slot goes on to a step that stores no permission.
LEMMA GoesOnIsSound ==
    ASSUME ListIInv, NEW r \in Slots, slot[r].pc # "idle",
           NEW s \in Slot, s.started = slot[r].started, s.pc # "grant"
    PROVE  SlotIsSound(s)
BY DEF ListIInv, SlotsAreSound, SlotIsSound

LEMMA DecideIsSound ==
    ASSUME ListIInv, NEW r \in Slots, slot[r].pc # "idle", NEW perm
    PROVE  \E s \in Slot : /\ SlotIsSound(s)
                           /\ Decide(r, perm) = [slot EXCEPT ![r] = s]
<1>1. slot \in [Slots -> Slot] /\ slot[r] \in Slot
  BY DEF ListIInv, ListTypeOK
<1>2. CASE perm = "yes"
  <2> DEFINE s == [slot[r] EXCEPT !.pc = "cache", !.perm = "none"]
  <2>1. s \in Slot /\ s.started = slot[r].started /\ s.pc = "cache"
    BY <1>1 DEF Slot
  <2>2. Decide(r, perm) = [slot EXCEPT ![r] = s]
    BY <1>1, <1>2 DEF Decide
  <2>3. SlotIsSound(s)
    <3> HIDE DEF s
    <3> QED
      BY <2>1, GoesOnIsSound
  <2> QED
    BY <2>1, <2>2, <2>3
<1>3. CASE perm # "yes"
  BY <1>3, IdleIsSound DEF Decide, Ends, SlotIsSound
<1> QED
  BY <1>2, <1>3

-----------------------------------------------------------------------------

\* What is outside of the requests.
LEMMA SurroundingsKeepIInv ==
    ASSUME ListIInv,
           \/ \E o \in Orders, s \in {"placed", "accepted"} : Enter(o, s)
           \/ Change \/ Tick
           \/ \E p \in Servers : Invalidate(p) \/ Dies(p)
    PROVE  ListIInv'
<1> USE TimesAreNat
<1>1. ASSUME NEW o \in Orders, NEW s \in {"placed", "accepted"}, Enter(o, s)
      PROVE  ListIInv'
  <2>1. ListTypeOK'
    BY <1>1 DEF Enter, rbacVars, ListIInv, ListTypeOK
  <2> QED
    BY <1>1, <2>1 DEF Enter, rbacVars, ListIInv, SlotsAreSound, SlotIsSound,
       EntriesAreSound, EntryIsSound
<1>2. ASSUME Change
      PROVE  ListIInv'
  <2>1. ListTypeOK'
    BY <1>2 DEF Change, rowVars, ListIInv, ListTypeOK
  <2>2. changed' = now /\ now' = now /\ slot' = slot /\ cached' = cached
    BY <1>2 DEF Change
  <2>3. /\ now \in Nat
        /\ \A r \in Slots : slot[r].started \in Nat
        /\ \A p \in Servers : cached[p].at \in Nat
    BY StampsAreNat DEF ListIInv
  <2>4. SlotsAreSound'
    BY <2>2, <2>3 DEF ListIInv, SlotsAreSound, SlotIsSound
  <2>5. EntriesAreSound'
    BY <2>2, <2>3 DEF ListIInv, EntriesAreSound, EntryIsSound
  <2> QED
    BY <2>1, <2>2, <2>3, <2>4, <2>5 DEF ListIInv
<1>3. ASSUME Tick
      PROVE  ListIInv'
  <2>1. /\ now' = now + 1 /\ now + 1 \in Times /\ now \in Nat /\ changed \in Nat
        /\ UNCHANGED <<rowVars, rbacVars, slot>>
    BY <1>3, ListAssumption DEF Tick, ListIInv, ListTypeOK, Times
  <2>2. list' \in List
    BY <1>3, NoListIsList DEF Tick, ListIInv, ListTypeOK
  <2>3. ListTypeOK'
    BY <2>1, <2>2 DEF rowVars, rbacVars, ListIInv, ListTypeOK
  <2>4. /\ \A r \in Slots : slot[r].started \in Nat
        /\ \A r \in Slots : slot[r].pc # "idle" => now < slot[r].started + MaxRead
        /\ \A p \in Servers : cached[p].at \in Nat
    BY <1>3, StampsAreNat DEF Tick, ListIInv
  <2>5. SlotsAreSound'
    BY <2>1, <2>4 DEF rbacVars, ListIInv, SlotsAreSound, SlotIsSound
  <2>6. EntriesAreSound'
    BY <2>1, <2>4 DEF rbacVars, ListIInv, EntriesAreSound, EntryIsSound
  <2>7. changed' <= now'
    BY <2>1 DEF rbacVars, ListIInv
  <2> QED
    BY <2>3, <2>5, <2>6, <2>7 DEF ListIInv
<1>4. ASSUME NEW p \in Servers, Invalidate(p)
      PROVE  ListIInv'
  <2>1. ListTypeOK'
    BY <1>4, NoEntryIsSound DEF Invalidate, rowVars, ListIInv, ListTypeOK
  <2>2. EntriesAreSound'
    BY <1>4, NoEntryIsSound DEF Invalidate, rowVars, ListIInv, ListTypeOK,
       EntriesAreSound, EntryIsSound
  <2> QED
    BY <1>4, <2>1, <2>2 DEF Invalidate, ListIInv, SlotsAreSound, SlotIsSound
<1>5. ASSUME NEW p \in Servers, Dies(p)
      PROVE  ListIInv'
  <2>1. ListTypeOK'
    BY <1>5, NoEntryIsSound, IdleIsSound DEF Dies, rowVars, ListIInv, ListTypeOK
  <2>2. EntriesAreSound'
    BY <1>5, NoEntryIsSound DEF Dies, rowVars, ListIInv, ListTypeOK,
       EntriesAreSound, EntryIsSound
  <2>3. SlotsAreSound'
    BY <1>5, IdleIsSound DEF Dies, ListIInv, SlotsAreSound, SlotIsSound
  <2> QED
    BY <1>5, <2>1, <2>2, <2>3 DEF Dies, ListIInv
<1> QED
  BY <1>1, <1>2, <1>3, <1>4, <1>5

\* A request arrives, or is refused or served from a cache.
LEMMA EntryStepsKeepIInv ==
    ASSUME ListIInv, NEW r \in Slots,
           \/ \E p \in Servers, cursor \in Cursors : Arrive(r, p, cursor)
           \/ RbacHit(r) \/ RbacFetch(r) \/ ListHit(r) \/ Fails(r)
    PROVE  ListIInv'
<1> USE TimesAreNat
<1>0. /\ slot \in [Slots -> Slot] /\ slot[r] \in Slot /\ list \in List
      /\ now \in Times /\ granted \in BOOLEAN
  BY DEF ListIInv, ListTypeOK
<1>1. ASSUME NEW p \in Servers, NEW cursor \in Cursors, Arrive(r, p, cursor)
      PROVE  ListIInv'
  <2> DEFINE s == [Idle EXCEPT !.pc = "rbac", !.by = p, !.cursor = cursor,
                               !.started = now]
  <2>1. s \in Slot /\ s.pc = "rbac" /\ s.started = now
    BY <1>0, IdleIsSound DEF Slot, Idle
  <2>2. slot' = [slot EXCEPT ![r] = s] /\ UNCHANGED <<rowVars, rbacVars, list, now>>
    BY <1>1 DEF Arrive
  <2> HIDE DEF s
  <2>3. SlotIsSound(s)
    BY <1>0, <2>1 DEF SlotIsSound
  <2> QED
    BY <1>0, <2>1, <2>2, <2>3, RequestKeepsIInv
<1>2. ASSUME RbacHit(r)
      PROVE  ListIInv'
  <2>1. PICK perm : /\ slot' = Decide(r, perm) /\ slot[r].pc # "idle"
                    /\ UNCHANGED <<rowVars, rbacVars, list, now>>
    BY <1>2 DEF RbacHit, At
  <2> QED
    BY <1>0, <2>1, DecideIsSound, RequestKeepsIInv
<1>3. ASSUME RbacFetch(r)
      PROVE  ListIInv'
  <2>1. PICK answer \in {"yes", "no"} : answer = IF granted THEN "yes" ELSE "no"
    OBVIOUS
  <2> DEFINE s == [slot[r] EXCEPT !.pc = "grant", !.perm = answer]
  <2>2. s \in Slot /\ s.pc = "grant" /\ s.started = slot[r].started /\ s.perm = answer
    BY <1>0 DEF Slot
  <2>3. slot' = [slot EXCEPT ![r] = s]
    BY <1>0, <1>3, <2>1 DEF RbacFetch
  <2>4. UNCHANGED <<rowVars, rbacVars, list, now>> /\ slot[r].pc = "rbac"
    BY <1>3 DEF RbacFetch, At
  <2> HIDE DEF s
  <2>5. SlotIsSound(s)
    BY <2>1, <2>2, <2>4 DEF ListIInv, SlotsAreSound, SlotIsSound
  <2> QED
    BY <1>0, <2>2, <2>3, <2>4, <2>5, RequestKeepsIInv
<1>4. ASSUME ListHit(r) \/ Fails(r)
      PROVE  ListIInv'
  <2>1. slot' = [slot EXCEPT ![r] = Idle] /\ UNCHANGED <<rowVars, rbacVars, list, now>>
    BY <1>4 DEF ListHit, Fails, Ends
  <2> QED
    BY <1>0, <2>1, IdleIsSound, RequestKeepsIInv DEF SlotIsSound
<1> QED
  BY <1>1, <1>2, <1>3, <1>4

\* The first branch of the query's IF ends the request, the other holds a page.
LEMMA QueryStepsKeepIInv ==
    ASSUME ListIInv, NEW r \in Slots, ListMiss(r) \/ Query(r) \/ Store(r)
    PROVE  ListIInv'
<1>0. /\ slot \in [Slots -> Slot] /\ slot[r] \in Slot /\ list \in List
      /\ now \in Times
  BY DEF ListIInv, ListTypeOK
<1>1. ASSUME ListMiss(r)
      PROVE  ListIInv'
  <2> DEFINE s == [slot[r] EXCEPT !.pc = "query"]
  <2>1. s \in Slot /\ s.pc = "query" /\ s.started = slot[r].started
    BY <1>0 DEF Slot
  <2>2. slot' = [slot EXCEPT ![r] = s]
    BY <1>0, <1>1 DEF ListMiss, Goes
  <2>3. UNCHANGED <<rowVars, rbacVars, list, now>> /\ slot[r].pc = "cache"
    BY <1>1 DEF ListMiss, At
  <2> HIDE DEF s
  <2> QED
    BY <1>0, <2>1, <2>2, <2>3, GoesOnIsSound, RequestKeepsIInv
<1>2. ASSUME Query(r), slot[r].cursor = "undefined"
      PROVE  ListIInv'
  <2>1. slot' = [slot EXCEPT ![r] = Idle] /\ UNCHANGED <<rowVars, rbacVars, list, now>>
    BY <1>2 DEF Query, Ends
  <2> QED
    BY <1>0, <2>1, IdleIsSound, RequestKeepsIInv DEF SlotIsSound
<1>3. ASSUME Query(r), slot[r].cursor # "undefined"
      PROVE  ListIInv'
  <2>1. PICK page, more : page = Page /\ more = HasMore
    OBVIOUS
  <2>2. page \in SUBSET Orders /\ more \in BOOLEAN
    BY <2>1 DEF Page, Found, HasMore, Newest, Placed
  <2> DEFINE s == [slot[r] EXCEPT !.pc = "store", !.rows = page, !.more = more]
  <2>3. s \in Slot /\ s.pc = "store" /\ s.started = slot[r].started
    BY <1>0, <2>2 DEF Slot
  <2>4. slot' = [slot EXCEPT ![r] = s]
    BY <1>0, <1>3, <2>1 DEF Query
  <2>5. UNCHANGED <<rowVars, rbacVars, list, now>> /\ slot[r].pc = "query"
    BY <1>3 DEF Query, At
  <2> HIDE DEF s
  <2> QED
    BY <1>0, <2>3, <2>4, <2>5, GoesOnIsSound, RequestKeepsIInv
<1>4. ASSUME Store(r)
      PROVE  ListIInv'
  <2>1. list' \in List
    BY <1>0, <1>4 DEF Store, List, Slot
  <2>2. slot' = [slot EXCEPT ![r] = Idle] /\ UNCHANGED <<rowVars, rbacVars, now>>
    BY <1>4 DEF Store, Ends
  <2> QED
    BY <2>1, <2>2, IdleIsSound, RequestKeepsIInv DEF SlotIsSound
<1> QED
  BY <1>1, <1>2, <1>3, <1>4

\* An answer is cached: the request that holds it is not older than MaxRead.
LEMMA RbacStoreKeepsIInv ==
    ASSUME ListIInv, NEW r \in Slots, RbacStore(r)
    PROVE  ListIInv'
<1>0. /\ slot \in [Slots -> Slot] /\ slot[r] \in Slot
      /\ cached \in [Servers -> Entry]
      /\ now \in Times /\ changed \in Nat /\ now \in Nat /\ MaxRead \in Nat
      /\ slot[r].started \in Nat /\ slot[r].pc = "grant"
  BY TimesAreNat DEF ListIInv, ListTypeOK, RbacStore, At, Slot
<1> DEFINE e == [perm |-> slot[r].perm, at |-> now]
<1>1. e \in Entry /\ e.perm = slot[r].perm /\ e.at = now
  BY <1>0 DEF Entry, Slot
<1>2. /\ cached' = [cached EXCEPT ![slot[r].by] = e]
      /\ slot' = Decide(r, slot[r].perm)
      /\ UNCHANGED <<rowVars, granted, changed, pending, list, now>>
  BY DEF RbacStore
<1> HIDE DEF e
<1>3. EntryIsSound(e)
  BY <1>0, <1>1 DEF ListIInv, SlotsAreSound, SlotIsSound, EntryIsSound
<1>4. cached' \in [Servers -> Entry] /\ EntriesAreSound'
  BY <1>0, <1>1, <1>2, <1>3 DEF ListIInv, EntriesAreSound, EntryIsSound
<1>5. SlotsAreSound' /\ slot' \in [Slots -> Slot]
  <2>1. PICK s \in Slot : SlotIsSound(s) /\ slot' = [slot EXCEPT ![r] = s]
    BY <1>0, <1>2, DecideIsSound
  <2> QED
    BY <1>2, <2>1, OneSlotMoves
<1>6. ListTypeOK'
  BY <1>2, <1>4, <1>5 DEF rowVars, ListIInv, ListTypeOK
<1> QED
  BY <1>2, <1>4, <1>5, <1>6 DEF ListIInv

LEMMA ListStepIInv == ListIInv /\ [ListNext]_listVars => ListIInv'
<1> SUFFICES ASSUME ListIInv, [ListNext]_listVars
             PROVE  ListIInv'
  OBVIOUS
<1>1. CASE UNCHANGED listVars
  BY <1>1 DEF listVars, rowVars, ListIInv, ListTypeOK, SlotsAreSound, SlotIsSound,
     EntriesAreSound, EntryIsSound
<1>2. CASE ListNext
  BY <1>2, SurroundingsKeepIInv, EntryStepsKeepIInv, QueryStepsKeepIInv,
     RbacStoreKeepsIInv DEF ListNext
<1> QED
  BY <1>1, <1>2

-----------------------------------------------------------------------------

\* Every reachable state is well typed: the lists hold orders of the branch,
\* permissions and cursors are what the code may store or send.
THEOREM ListTypeCorrect == ListSpec => []ListTypeOK
<1>1. ListIInv => ListTypeOK
  BY DEF ListIInv
<1> QED
  BY <1>1, ListInitIInv, ListStepIInv, PTL DEF ListSpec

\* For any number of processes and any TTL: a process that still uses its entry
\* decides on a permission that was the truth within the last
\* PermTTL + MaxRead, although the event that invalidates reaches one process.
THEOREM PermissionsAreRecent == ListSpec => []PermissionIsRecent
<1>1. ListIInv => PermissionIsRecent
  <2> SUFFICES ASSUME ListIInv, NEW p \in Servers, IsCached(p),
                      changed + PermTTL + MaxRead <= now
               PROVE  cached[p].perm = "yes" <=> granted
    BY DEF PermissionIsRecent
  <2>1. /\ changed \in Nat /\ now \in Nat /\ cached[p].at \in Nat
        /\ PermTTL \in Nat /\ MaxRead \in Nat
    BY TimesAreNat DEF ListIInv, ListTypeOK, Entry
  <2>2. cached[p].perm # "none" /\ now < cached[p].at + PermTTL
    BY DEF IsCached
  <2>3. changed + MaxRead < cached[p].at
    BY <2>1, <2>2
  <2> QED
    BY <2>2, <2>3 DEF ListIInv, EntriesAreSound, EntryIsSound
<1> QED
  BY <1>1, ListInitIInv, ListStepIInv, PTL DEF ListSpec

-----------------------------------------------------------------------------
(* OrderList: how stale a list may be *)

\* The newest orders of a page: those with fewer than n above them.
Above(S, o) == {p \in S : p > o}

LEMMA OrdersAreFinite ==
    ASSUME NEW S \in SUBSET Orders
    PROVE  /\ IsFiniteSet(S) /\ Cardinality(S) \in Nat
           /\ \A T \in SUBSET S : /\ Cardinality(T) \in Nat
                                  /\ Cardinality(T) <= Cardinality(S)
           /\ \A o : IsFiniteSet(Above(S, o)) /\ Cardinality(Above(S, o)) \in Nat
<1>1. IsFiniteSet(Orders)
  BY ListAssumption, FS_Interval DEF Orders
<1>2. IsFiniteSet(S) /\ Cardinality(S) \in Nat
  BY <1>1, FS_Subset, FS_CardinalityType
<1>3. \A T \in SUBSET S : /\ IsFiniteSet(T) /\ Cardinality(T) \in Nat
                          /\ Cardinality(T) <= Cardinality(S)
  BY <1>2, FS_Subset, FS_CardinalityType
<1>4. \A o : Above(S, o) \in SUBSET S
  BY DEF Above
<1> QED
  BY <1>2, <1>3, <1>4

\* An order has less above it than an older one.
LEMMA AboveShrinks ==
    ASSUME NEW S \in SUBSET Orders, NEW x \in S, NEW p \in S, p > x
    PROVE  /\ Cardinality(Above(S, p)) < Cardinality(Above(S, x))
           /\ Above(S, p) \subseteq Above(S, x)
<1>1. Above(S, p) \cup {p} \subseteq Above(S, x) /\ p \notin Above(S, p)
  <2>1. x \in Nat /\ p \in Nat /\ \A q \in S : q \in Nat
    BY DEF Orders
  <2>2. \A q \in S : q > p => q > x
    BY <2>1
  <2>3. ~(p > p)
    BY <2>1
  <2> QED
    BY <2>2, <2>3 DEF Above
<1>2. Cardinality(Above(S, p) \cup {p}) = Cardinality(Above(S, p)) + 1
  BY <1>1, OrdersAreFinite, FS_AddElement
<1>3. Cardinality(Above(S, p) \cup {p}) <= Cardinality(Above(S, x))
  BY <1>1, OrdersAreFinite, FS_Subset
<1>4. Cardinality(Above(S, p)) \in Nat /\ Cardinality(Above(S, x)) \in Nat
  BY OrdersAreFinite
<1>5. Cardinality(Above(S, p)) < Cardinality(Above(S, x))
  BY <1>2, <1>3, <1>4
<1> QED
  BY <1>1, <1>5

\* With an order all newer ones are among the newest.
LEMMA NewestIsClosed ==
    ASSUME NEW S \in SUBSET Orders, NEW n \in Nat
    PROVE  /\ Newest(S, n) = {o \in S : Cardinality(Above(S, o)) < n}
           /\ \A x \in Newest(S, n), p \in S : p > x => p \in Newest(S, n)
<1>1. Newest(S, n) = {o \in S : Cardinality(Above(S, o)) < n}
  BY DEF Newest, Above
<1>2. ASSUME NEW x \in Newest(S, n), NEW p \in S, p > x
      PROVE  p \in Newest(S, n)
  <2>1. Cardinality(Above(S, p)) < Cardinality(Above(S, x))
    BY <1>1, <1>2, AboveShrinks
  <2>2. Cardinality(Above(S, p)) \in Nat /\ Cardinality(Above(S, x)) \in Nat
    BY OrdersAreFinite
  <2> QED
    BY <1>1, <2>1, <2>2
<1> QED
  BY <1>1, <1>2

\* A page of a page and one row more is a page.
LEMMA NewestAgain ==
    ASSUME NEW S \in SUBSET Orders, NEW n \in Nat
    PROVE  Newest(Newest(S, n + 1), n) = Newest(S, n)
<1> DEFINE found == Newest(S, n + 1)
<1>1. found = {o \in S : Cardinality(Above(S, o)) < n + 1}
  BY NewestIsClosed
<1>2. \A x \in found : Above(found, x) = Above(S, x)
  <2>1. \A x \in found, p \in S : p > x => p \in found
    BY NewestIsClosed
  <2>2. found \subseteq S
    BY <1>1
  <2> HIDE DEF found
  <2> QED
    BY <2>1, <2>2 DEF Above
<1>3. found \in SUBSET Orders
  BY <1>1
<1>4. Newest(found, n) = {o \in found : Cardinality(Above(found, o)) < n}
  <2> HIDE DEF found
  <2> QED
    BY <1>3, NewestIsClosed
<1>5. Newest(S, n) = {o \in S : Cardinality(Above(S, o)) < n}
  BY NewestIsClosed
<1>6. \A o : Cardinality(Above(S, o)) \in Nat
  BY OrdersAreFinite
<1>7. \A o \in S : Cardinality(Above(S, o)) < n => o \in found
  BY <1>1, <1>6
<1>8. Newest(found, n) = {o \in S : Cardinality(Above(S, o)) < n}
  <2> HIDE DEF found
  <2> QED
    BY <1>1, <1>2, <1>4, <1>7
<1> QED
  BY <1>5, <1>8

\* Orders that there are have a newest one.
LEMMA NewestOfAll ==
    ASSUME NEW T \in SUBSET Orders, T # {}
    PROVE  \E x \in T : \A p \in T : p <= x
<1> DEFINE D == {k \in Nat : NOrders - k \in T}
<1>1. PICK o \in T : o \in 1..NOrders
  BY DEF Orders
<1>2. NOrders - o \in D
  BY <1>1, ListAssumption
<1>3. PICK k \in D : \A m \in D : k <= m
  BY <1>2, LeastNatural
<1>4. \A p \in T : NOrders - p \in D /\ p \in Nat
  BY ListAssumption DEF Orders
<1>5. k \in Nat /\ NOrders - k \in T /\ NOrders \in Nat
  BY ListAssumption
<1> HIDE DEF D
<1>6. \A p \in T : p <= NOrders - k
  BY <1>3, <1>4, <1>5
<1> QED
  BY <1>5, <1>6

\* The newest n are n, all above an order that is not one of them.
LEMMA NewestFills ==
    ASSUME NEW S \in SUBSET Orders, NEW n \in Nat
    PROVE  \A o \in S \ Newest(S, n) : Cardinality(Above(Newest(S, n), o)) = n
<1> DEFINE Full(m) == \A o \in S \ Newest(S, m) : Cardinality(Above(Newest(S, m), o)) = m
<1> DEFINE T == {m \in Nat : Full(m)}
<1>1. 0 \in T
  <2>1. Newest(S, 0) = {}
    <3>1. \A o : Cardinality(Above(S, o)) \in Nat
      BY OrdersAreFinite
    <3> QED
      BY <3>1, NewestIsClosed
  <2>2. \A o : Above({}, o) = {}
    BY DEF Above
  <2> QED
    BY <2>1, <2>2, FS_EmptySet
<1>2. ASSUME NEW m \in Nat, m \in T
      PROVE  m + 1 \in T
  <2> SUFFICES ASSUME NEW o \in S \ Newest(S, m + 1)
               PROVE  Cardinality(Above(Newest(S, m + 1), o)) = m + 1
    OBVIOUS
  <2>1. PICK newest \in SUBSET Orders : newest = Newest(S, m)
    BY DEF Newest
  <2>2. PICK next \in SUBSET Orders : next = Newest(S, m + 1)
    BY DEF Newest
  <2>3. /\ newest = {p \in S : Cardinality(Above(S, p)) < m}
        /\ next = {p \in S : Cardinality(Above(S, p)) < m + 1}
        /\ \A x \in newest, p \in S : p > x => p \in newest
        /\ \A x \in next, p \in S : p > x => p \in next
    BY <2>1, <2>2, NewestIsClosed
  <2>4. /\ \A p : Cardinality(Above(S, p)) \in Nat
        /\ \A p \in S : p \in Nat
        /\ o \in S /\ o \notin next
    BY <2>2, OrdersAreFinite DEF Orders
  <2>5. o \notin newest /\ Cardinality(Above(newest, o)) = m
    <3>1. o \notin newest
      BY <2>3, <2>4
    <3> QED
      BY <1>2, <2>1, <2>4, <3>1
  <2>6. Above(newest, o) = newest /\ Above(next, o) = next
    BY <2>3, <2>4, <2>5 DEF Above
  <2> DEFINE others == Above(S, o) \ newest
  <2>7. others # {}
    <3>1. Cardinality(Above(S, o)) # m
      BY <2>3, <2>4
    <3>2. newest \subseteq Above(S, o)
      BY <2>3, <2>6 DEF Above
    <3>3. newest # Above(S, o)
      BY <2>5, <2>6, <3>1
    <3> QED
      BY <3>2, <3>3
  <2>8. PICK x \in others : \A p \in others : p <= x
    <3>1. others \in SUBSET Orders
      BY DEF Above
    <3> QED
      BY <2>7, <3>1, NewestOfAll
  <2>9. x \in S /\ x \notin newest /\ x > o
    BY <2>8 DEF Above
  <2>10. Above(S, x) = newest
    <3>1. \A p \in S : p > x => p \in newest
      <4> TAKE p \in S
      <4> HAVE p > x
      <4>1. p > o /\ ~(p <= x)
        BY <2>4, <2>9
      <4> QED
        BY <2>8, <4>1 DEF Above
    <3>2. \A p \in newest : p \in S /\ p > x
      BY <2>3, <2>4, <2>9
    <3> QED
      BY <3>1, <3>2 DEF Above
  <2>11. Cardinality(Above(S, x)) = m
    BY <2>5, <2>6, <2>10
  <2>12. next = newest \cup {x}
    <3>1. x \in next
      BY <2>3, <2>9, <2>11
    <3>2. ASSUME NEW z \in next, z \notin newest
          PROVE  z = x
      <4>1. z \in S /\ Cardinality(Above(S, z)) = m
        BY <2>3, <2>4, <3>2
      <4>2. ~(z > x) /\ ~(x > z)
        BY <2>9, <2>11, <4>1, AboveShrinks
      <4> QED
        BY <2>4, <2>9, <4>1, <4>2
    <3>3. newest \subseteq next
      BY <2>3, <2>4
    <3> QED
      BY <3>1, <3>2, <3>3
  <2>13. Cardinality(newest \cup {x}) = Cardinality(newest) + 1
    BY <2>9, OrdersAreFinite, FS_AddElement
  <2> QED
    BY <2>2, <2>5, <2>6, <2>12, <2>13
<1>3. Nat \subseteq T
  <2> HIDE DEF T
  <2> QED
    BY <1>1, <1>2, Induction
<1> QED
  BY <1>3 DEF Full

\* A page is right about the orders whose status was set before t: a placed
\* order is on it or the page is full of newer ones, an accepted one is off.
PageIsRight(rows, t) ==
    \A o \in Orders : since[o] < t =>
        /\ status[o] = "placed" =>
               o \in rows \/ Cardinality({p \in rows : p > o}) = Limit
        /\ status[o] = "accepted" => o \notin rows

\* A page that was read is right up to the begin of its request; the entry was
\* stored by one that took MaxRead at the most, and Redis forgets it in time.
PagesInv ==
    /\ \A r \in Slots : slot[r].pc = "store" =>
           PageIsRight(slot[r].rows, slot[r].started)
    /\ list.stored =>
           /\ list.at <= now /\ now < list.at + ListTTL
           /\ PageIsRight(list.rows, list.at - MaxRead)

\* What the query finds is right, however many orders there are.
LEMMA QueryIsRight ==
    ASSUME ListIInv, NEW t
    PROVE  PageIsRight(Page, t)
<1>1. Placed \in SUBSET Orders /\ Limit \in Nat
  BY ListAssumption DEF Placed
<1>2. Page = Newest(Placed, Limit)
  BY <1>1, NewestAgain DEF Page, Found
<1>3. \A o \in Placed \ Newest(Placed, Limit) :
          Cardinality(Above(Newest(Placed, Limit), o)) = Limit
  BY <1>1, NewestFills
<1>4. Newest(Placed, Limit) \subseteq Placed
  BY DEF Newest
<1>5. \A o \in Orders : /\ status[o] = "placed" => o \in Placed
                        /\ status[o] = "accepted" => o \notin Placed
  BY DEF Placed
<1> QED
  BY <1>2, <1>3, <1>4, <1>5 DEF PageIsRight, Above

\* An order that is set now is not one a page has to be right about.
LEMMA PageStaysRight ==
    ASSUME ListIInv, NEW rows, NEW t \in Int, PageIsRight(rows, t),
           \/ UNCHANGED rowVars
           \/ t <= now /\ \E o \in Orders, s \in {"placed", "accepted"} : Enter(o, s)
    PROVE  PageIsRight(rows, t)'
<1>1. CASE UNCHANGED rowVars
  BY <1>1 DEF rowVars, PageIsRight
<1>2. ASSUME NEW u \in Orders, NEW s, Enter(u, s), t <= now
      PROVE  PageIsRight(rows, t)'
  <2>1. /\ since' = [since EXCEPT ![u] = now]
        /\ status' = [status EXCEPT ![u] = s]
        /\ now \in Nat
    BY <1>2, StampsAreNat DEF Enter, ListIInv
  <2>2. since'[u] = now /\ ~(now < t)
    BY <1>2, <2>1 DEF ListIInv, ListTypeOK
  <2>3. \A o \in Orders \ {u} : since'[o] = since[o] /\ status'[o] = status[o]
    BY <2>1 DEF ListIInv, ListTypeOK
  <2> QED
    BY <2>2, <2>3 DEF PageIsRight
<1> QED
  BY <1>1, <1>2

\* A page comes into a request by its query alone.
LEMMA PageIsRead ==
    ASSUME ListIInv, ListNext, NEW q \in Slots, slot'[q].pc = "store"
    PROVE  \/ slot'[q] = slot[q]
           \/ /\ Query(q)
              /\ slot'[q].rows = Page /\ slot'[q].started = slot[q].started
<1>1. slot \in [Slots -> Slot]
  BY DEF ListIInv, ListTypeOK
<1>2. CASE UNCHANGED slot
  BY <1>2
<1>3. CASE \E r \in Slots : slot' = [slot EXCEPT ![r] = Idle]
  BY <1>1, <1>3, IdleIsSound
<1>4. ASSUME NEW r \in Slots, NEW p \in Servers, NEW cursor \in Cursors,
             Arrive(r, p, cursor)
      PROVE  slot'[q] = slot[q]
  <2>1. slot'[r].pc = "rbac" /\ \A u \in Slots \ {r} : slot'[u] = slot[u]
    BY <1>1, <1>4 DEF Arrive, Idle
  <2> QED
    BY <2>1
<1>5. ASSUME NEW r \in Slots, NEW perm, slot' = Decide(r, perm)
      PROVE  slot'[q] = slot[q]
  <2>1. slot'[r].pc # "store" /\ \A u \in Slots \ {r} : slot'[u] = slot[u]
    BY <1>1, <1>5, IdleIsSound DEF Decide, Ends, Slot
  <2> QED
    BY <2>1
<1>6. ASSUME NEW r \in Slots, RbacFetch(r) \/ ListMiss(r)
      PROVE  slot'[q] = slot[q]
  <2>1. slot'[r].pc # "store" /\ \A u \in Slots \ {r} : slot'[u] = slot[u]
    BY <1>1, <1>6 DEF RbacFetch, ListMiss, Goes, Slot
  <2> QED
    BY <2>1
<1>7. ASSUME NEW p \in Servers, Dies(p)
      PROVE  slot'[q] = slot[q]
  BY <1>1, <1>7, IdleIsSound DEF Dies
<1>8. ASSUME NEW r \in Slots, Query(r), slot[r].cursor # "undefined"
      PROVE  \/ slot'[q] = slot[q]
             \/ /\ Query(q)
                /\ slot'[q].rows = Page /\ slot'[q].started = slot[q].started
  <2>1. PICK page, more : page = Page /\ more = HasMore
    OBVIOUS
  <2>2. slot' = [slot EXCEPT ![r].pc = "store", ![r].rows = page, ![r].more = more]
    BY <1>8, <2>1 DEF Query
  <2>3. /\ slot'[r].rows = page /\ slot'[r].started = slot[r].started
        /\ \A u \in Slots \ {r} : slot'[u] = slot[u]
    BY <1>1, <2>2 DEF Slot
  <2> QED
    BY <1>8, <2>1, <2>3
<1>9. ASSUME NEW r \in Slots, Query(r), slot[r].cursor = "undefined"
      PROVE  slot' = [slot EXCEPT ![r] = Idle]
  BY <1>9 DEF Query, Ends
<1> QED
  BY <1>2, <1>3, <1>4, <1>5, <1>6, <1>7, <1>8, <1>9
     DEF ListNext, Enter, Change, Tick, Invalidate, RbacHit, RbacStore, ListHit,
         Store, Fails, Ends

LEMMA OnlyTickTells == ASSUME ListNext, ~Tick PROVE UNCHANGED now
<1>1. ASSUME NEW o \in Orders, NEW s \in {"placed", "accepted"}, Enter(o, s)
      PROVE  UNCHANGED now
  BY <1>1 DEF Enter
<1>2. CASE Change
  BY <1>2 DEF Change
<1>3. ASSUME NEW p \in Servers, Invalidate(p) \/ Dies(p)
      PROVE  UNCHANGED now
  BY <1>3 DEF Invalidate, Dies
<1>4. ASSUME NEW r \in Slots, NEW p \in Servers, NEW cursor \in Cursors,
             Arrive(r, p, cursor)
      PROVE  UNCHANGED now
  BY <1>4 DEF Arrive
<1>5. ASSUME NEW r \in Slots,
             \/ RbacHit(r) \/ RbacFetch(r) \/ RbacStore(r) \/ ListHit(r)
             \/ ListMiss(r) \/ Query(r) \/ Store(r) \/ Fails(r)
      PROVE  UNCHANGED now
  BY <1>5 DEF RbacHit, RbacFetch, RbacStore, ListHit, ListMiss, Query, Store, Fails
<1> QED
  BY <1>1, <1>2, <1>3, <1>4, <1>5 DEF ListNext

LEMMA StepPagesInv == ListIInv /\ PagesInv /\ [ListNext]_listVars => PagesInv'
<1> SUFFICES ASSUME ListIInv, PagesInv, [ListNext]_listVars
             PROVE  PagesInv'
  OBVIOUS
<1>1. CASE UNCHANGED listVars
  BY <1>1 DEF listVars, PagesInv, PageIsRight
<1>2. CASE ListNext
  <2>1. UNCHANGED rowVars
            \/ \E o \in Orders, s \in {"placed", "accepted"} : Enter(o, s)
    BY <1>2 DEF ListNext, Change, Tick, Invalidate, Dies, Arrive, RbacHit,
       RbacFetch, RbacStore, ListHit, ListMiss, Query, Store, Fails
  <2>2. /\ now \in Nat /\ MaxRead \in Nat /\ ListTTL \in Nat \ {0}
        /\ \A r \in Slots : slot[r] \in Slot /\ slot[r].started \in Nat
        /\ list \in List /\ list.at \in Nat
    BY StampsAreNat, TimesAreNat, ListAssumption DEF ListIInv, ListTypeOK, List
  <2>3. ASSUME NEW q \in Slots, slot'[q].pc = "store"
        PROVE  PageIsRight(slot[q].rows, slot[q].started)'
    <3>1. CASE slot'[q] = slot[q]
      <4>1. PICK rows \in SUBSET Orders, t \in Nat : rows = slot[q].rows /\ t = slot[q].started
        BY <2>2 DEF Slot
      <4>2. PageIsRight(rows, t) /\ t <= now
        BY <2>3, <3>1, <4>1 DEF PagesInv, ListIInv, SlotsAreSound, SlotIsSound
      <4>3. PageIsRight(rows, t)'
        BY <2>1, <4>2, PageStaysRight
      <4> QED
        BY <3>1, <4>1, <4>3 DEF PageIsRight
    <3>2. CASE Query(q) /\ slot'[q].rows = Page /\ slot'[q].started = slot[q].started
      <4>1. PICK rows \in SUBSET Orders, t \in Nat : rows = Page /\ t = slot[q].started
        BY <2>2 DEF Page, Found, Newest, Placed
      <4>2. PageIsRight(rows, t)
        BY <4>1, QueryIsRight
      <4>3. UNCHANGED rowVars
        BY <3>2 DEF Query
      <4>4. PageIsRight(rows, t)'
        BY <4>2, <4>3, PageStaysRight
      <4> QED
        BY <3>2, <4>1, <4>4 DEF PageIsRight
    <3> QED
      BY <1>2, <2>3, <3>1, <3>2, PageIsRead
  <2>4. ASSUME list'.stored
        PROVE  /\ list'.at <= now' /\ now' < list'.at + ListTTL
               /\ PageIsRight(list.rows, list.at - MaxRead)'
    <3>1. CASE list' = list
      <4>1. PICK rows \in SUBSET Orders, t \in Int : rows = list.rows /\ t = list.at - MaxRead
        BY <2>2 DEF List
      <4>2. PageIsRight(rows, t) /\ t <= now
        BY <2>2, <2>4, <3>1, <4>1 DEF PagesInv
      <4>3. PageIsRight(rows, t)'
        BY <2>1, <4>2, PageStaysRight
      <4>4. PageIsRight(list.rows, list.at - MaxRead)'
        BY <3>1, <4>1, <4>3 DEF PageIsRight
      <4>5. list.at <= now /\ now < list.at + ListTTL
        BY <2>4, <3>1 DEF PagesInv
      <4>6. now' = now \/ (now' = now + 1 /\ now' # list.at + ListTTL)
        <5>1. CASE Tick
          <6>1. now' = now + 1 /\ list' = IF Forgets(list, now + 1) THEN NoList ELSE list
            BY <5>1 DEF Tick
          <6>2. ~NoList.stored
            BY DEF NoList
          <6>3. ~Forgets(list, now + 1) /\ list.stored
            BY <2>4, <3>1, <6>1, <6>2
          <6>4. now + 1 # list.at + ListTTL
            BY <6>3 DEF Forgets
          <6> QED
            BY <6>1, <6>4
        <5>2. CASE ~Tick
          <6>1. UNCHANGED now
            BY <1>2, <5>2, OnlyTickTells
          <6> QED
            BY <6>1
        <5> QED
          BY <5>1, <5>2
      <4> QED
        BY <2>2, <3>1, <4>4, <4>5, <4>6
    <3>2. ASSUME NEW r \in Slots, Store(r)
          PROVE  /\ list'.at <= now' /\ now' < list'.at + ListTTL
                 /\ PageIsRight(list.rows, list.at - MaxRead)'
      <4>1. PICK rows \in SUBSET Orders, t \in Nat : rows = slot[r].rows /\ t = slot[r].started
        BY <2>2 DEF Slot
      <4>2. /\ list'.rows = rows /\ list'.at = now /\ now' = now
            /\ UNCHANGED rowVars /\ slot[r].pc = "store"
        BY <3>2, <4>1 DEF Store, At
      <4>3. PageIsRight(rows, t) /\ now <= t + MaxRead
        BY <4>1, <4>2 DEF PagesInv, ListIInv, SlotsAreSound, SlotIsSound
      <4>4. \A o \in Orders : since[o] < now - MaxRead => since[o] < t
        <5>1. \A o \in Orders : since[o] \in Nat
          BY TimesAreNat DEF ListIInv, ListTypeOK
        <5> QED
          BY <2>2, <4>3, <5>1
      <4>5. PageIsRight(rows, now - MaxRead)
        BY <4>3, <4>4 DEF PageIsRight
      <4>6. PageIsRight(list.rows, list.at - MaxRead)'
        BY <4>2, <4>5 DEF PageIsRight, rowVars
      <4> QED
        BY <2>2, <4>2, <4>6
    <3>3. list' = list \/ list' = NoList \/ \E r \in Slots : Store(r)
      BY <1>2 DEF ListNext, Enter, Change, Tick, Invalidate, Dies, Arrive, RbacHit,
         RbacFetch, RbacStore, ListHit, ListMiss, Query, Fails
    <3> QED
      BY <2>4, <3>1, <3>2, <3>3 DEF NoList
  <2> QED
    BY <2>3, <2>4 DEF PagesInv
<1> QED
  BY <1>1, <1>2

\* For any page, TTL and number of requests: the list that withCache serves
\* is right about every order that was set ListTTL + MaxRead ago or earlier,
\* although nothing ever invalidates it and stores overlap.
THEOREM ListsAreRecent == ListSpec => []ListIsRecent
<1>1. ListInit => PagesInv
  BY IdleIsSound DEF ListInit, PagesInv, Idle, NoList
<1>2. ListIInv /\ PagesInv => ListIsRecent
  <2> SUFFICES ASSUME ListIInv, PagesInv, list.stored, NEW o \in Orders,
                      since[o] + ListTTL + MaxRead <= now
               PROVE  /\ status[o] = "placed" =>
                             \/ o \in list.rows
                             \/ Cardinality({p \in list.rows : p > o}) = Limit
                      /\ status[o] = "accepted" => o \notin list.rows
    BY DEF ListIsRecent
  <2>1. /\ since[o] \in Nat /\ now \in Nat /\ list.at \in Nat
        /\ ListTTL \in Nat /\ MaxRead \in Nat
    BY StampsAreNat, TimesAreNat, ListAssumption DEF ListIInv, ListTypeOK, List
  <2>2. now < list.at + ListTTL /\ PageIsRight(list.rows, list.at - MaxRead)
    BY DEF PagesInv
  <2>3. since[o] < list.at - MaxRead
    BY <2>1, <2>2
  <2> QED
    BY <2>2, <2>3 DEF PageIsRight
<1> QED
  BY <1>1, <1>2, ListInitIInv, ListStepIInv, StepPagesInv, PTL DEF ListSpec

-----------------------------------------------------------------------------
(* Presence *)

\* A hash lives for the TTL from when its agent went online last.
HashesExpire ==
    \A a \in Agents :
        /\ heard[a] <= clock
        /\ meta[a] # 0 => clock < meta[a] /\ meta[a] <= heard[a] + TTL

\* A search takes no longer than MaxSearch.
SearchIsShort ==
    search.pc # "idle" => search.started <= clock /\ clock <= search.started + MaxSearch

\* Who is found, or about to be, had a hash when the search came to him.
FoundIsRecent ==
    /\ search.pc = "idle" => search.result = {}
    /\ \A a \in search.result : search.started < heard[a] + TTL
    /\ search.pc = "busy" => /\ search.left # <<>>
                             /\ search.started < heard[Head(search.left)] + TTL

\* Who was there throughout is there now.
ThereIsThere == \A a \in search.there : IsThere(a)

\* While a search goes on it has not enough, and has found or will look at
\* everybody who was there throughout, unless the geo set had too many.
NobodyIsMissed ==
    search.pc \in {"scan", "busy"} =>
        /\ Cardinality(search.result) < Wanted
        /\ \/ search.full
           \/ \A a \in search.there : a \in search.result \cup Range(search.left)

\* The inductive invariant.
PresenceInv ==
    /\ PresenceTypeOK
    /\ HashesExpire
    /\ SearchIsShort
    /\ FoundIsRecent
    /\ ThereIsThere
    /\ NobodyIsMissed
    /\ WhoIsThereIsFound

\* An agent is there after the step.
NowThere(a) ==
    geo'[a] # 0 /\ geo'[a] <= Radius /\ meta'[a] # 0 /\ a \notin busy'

LEMMA PresenceInitInv == PresenceInit => PresenceInv
<1> SUFFICES ASSUME PresenceInit
             PROVE  PresenceInv
  OBVIOUS
<1>1. TTL \in Nat \ {0} /\ MaxClock \in Nat /\ 0 \in Clock
  BY PresenceAssumption DEF Clock
<1>2. NoSearch \in Search
  BY <1>1 DEF NoSearch, Search
<1>3. PresenceTypeOK
  BY <1>1, <1>2 DEF PresenceInit, PresenceTypeOK, Forever
<1> QED
  BY <1>1, <1>3
     DEF PresenceInit, PresenceInv, HashesExpire, SearchIsShort, FoundIsRecent,
         ThereIsThere, NobodyIsMissed, WhoIsThereIsFound, NoSearch

\* A step that the search does not take, but may see.
Watched ==
    /\ search' \in Search
    /\ search'.pc = search.pc /\ search'.left = search.left
    /\ search'.result = search.result /\ search'.full = search.full
    /\ search'.started = search.started
    /\ \A a \in search'.there : a \in search.there /\ NowThere(a)

LEMMA WatchWatches ==
    ASSUME PresenceInv, Watch
    PROVE  Watched
<1>1. search \in Search
  BY DEF PresenceInv, PresenceTypeOK
<1>2. search' = [search EXCEPT !.there = {a \in search.there : NowThere(a)}]
  BY DEF Watch, IsThere, IsNear, NowThere
<1>3. {a \in search.there : NowThere(a)} \in SUBSET Agents
  BY <1>1 DEF Search
<1> HIDE DEF NowThere
<1> QED
  BY <1>1, <1>2, <1>3 DEF Watched, Search

LEMMA UnwatchedIsWatched ==
    ASSUME PresenceInv, UNCHANGED search, \A a \in search.there : NowThere(a)
    PROVE  Watched
BY DEF Watched, PresenceInv, PresenceTypeOK

LEMMA WatchedKeepsSearch ==
    ASSUME PresenceInv, Watched,
           \A a \in Agents : heard'[a] \in Nat /\ heard[a] <= heard'[a]
    PROVE  FoundIsRecent' /\ ThereIsThere' /\ NobodyIsMissed' /\ WhoIsThereIsFound'
<1>1. /\ search \in Search /\ TTL \in Nat /\ search.started \in Nat
      /\ \A a \in Agents : heard[a] \in Nat
  BY PresenceAssumption DEF PresenceInv, PresenceTypeOK, Search, Clock
<1>2. FoundIsRecent'
  <2>1. search.result \subseteq Agents /\ search.left \in Seq(Agents)
    BY <1>1 DEF Search
  <2>2. \A a \in Agents : search.started < heard[a] + TTL => search.started < heard'[a] + TTL
    BY <1>1
  <2>3. search.left # <<>> => Head(search.left) \in Agents
    BY <2>1
  <2> QED
    BY <2>1, <2>2, <2>3 DEF PresenceInv, FoundIsRecent, Watched
<1>3. ThereIsThere'
  BY DEF ThereIsThere, Watched, NowThere, IsThere, IsNear
<1>4. NobodyIsMissed' /\ WhoIsThereIsFound'
  BY DEF PresenceInv, NobodyIsMissed, WhoIsThereIsFound, Watched
<1> QED
  BY <1>2, <1>3, <1>4

\* What an agent or the clock does, beside the search.
LEMMA AgentsKeepPresence ==
    ASSUME PresenceInv, Watched,
           geo' \in [Agents -> Distances \cup {0}], busy' \subseteq Agents,
           coming' \in [Agents -> Distances \cup {0}],
           meta' \in [Agents -> 0..Forever], heard' \in [Agents -> Clock],
           clock' \in Clock, clock <= clock',
           \A a \in Agents : heard[a] <= heard'[a],
           HashesExpire', SearchIsShort'
    PROVE  PresenceInv'
<1>1. PresenceTypeOK'
  BY DEF Watched, PresenceTypeOK
<1>2. \A a \in Agents : heard'[a] \in Nat /\ heard[a] <= heard'[a]
  BY PresenceAssumption DEF Clock
<1> QED
  BY <1>1, <1>2, WatchedKeepsSearch DEF PresenceInv

LEMMA GoOnlineKeepsPresence ==
    ASSUME PresenceInv, NEW a \in Agents, NEW distance \in Distances, GoOnline(a, distance)
    PROVE  PresenceInv'
<1>1. /\ meta' = [meta EXCEPT ![a] = clock + TTL] /\ heard' = [heard EXCEPT ![a] = clock]
      /\ coming' = [coming EXCEPT ![a] = distance]
      /\ UNCHANGED <<geo, busy, search, clock>>
  BY DEF GoOnline, HsetWithTtl
<1>2. /\ clock \in Clock /\ clock \in Nat /\ TTL \in Nat \ {0} /\ clock + TTL \in 0..Forever
      /\ MaxClock \in Nat
  BY PresenceAssumption DEF PresenceInv, PresenceTypeOK, Clock, Forever
<1>3. /\ meta' \in [Agents -> 0..Forever] /\ heard' \in [Agents -> Clock]
      /\ coming' \in [Agents -> Distances \cup {0}] /\ geo' \in [Agents -> Distances \cup {0}]
      /\ busy' \subseteq Agents /\ clock' \in Clock /\ clock <= clock'
  BY <1>1, <1>2 DEF PresenceInv, PresenceTypeOK
<1>4. \A b \in Agents : heard[b] <= heard'[b]
  BY <1>1, <1>2 DEF PresenceInv, PresenceTypeOK, HashesExpire, Clock
<1>5. HashesExpire' /\ SearchIsShort'
  BY <1>1, <1>2 DEF PresenceInv, PresenceTypeOK, HashesExpire, SearchIsShort
<1>6. Watched
  <2>1. \A b \in search.there : b \in Agents /\ IsThere(b)
    BY DEF PresenceInv, PresenceTypeOK, Search, ThereIsThere
  <2>2. \A b \in search.there : meta'[b] # 0
    BY <1>1, <1>2, <2>1 DEF PresenceInv, PresenceTypeOK, IsThere
  <2>3. \A b \in search.there : NowThere(b)
    BY <1>1, <2>1, <2>2 DEF IsThere, IsNear, NowThere
  <2> QED
    BY <1>1, <2>3, UnwatchedIsWatched
<1> QED
  BY <1>3, <1>4, <1>5, <1>6, AgentsKeepPresence

\* What touches no hash.
LEMMA HashesStay ==
    ASSUME PresenceInv, Watched, UNCHANGED <<meta, heard, clock>>,
           geo' \in [Agents -> Distances \cup {0}], busy' \subseteq Agents,
           coming' \in [Agents -> Distances \cup {0}]
    PROVE  PresenceInv'
<1>1. /\ meta' \in [Agents -> 0..Forever] /\ heard' \in [Agents -> Clock]
      /\ clock' \in Clock /\ clock <= clock' /\ \A b \in Agents : heard[b] <= heard'[b]
  BY PresenceAssumption DEF PresenceInv, PresenceTypeOK, Clock
<1>2. HashesExpire' /\ SearchIsShort'
  BY DEF PresenceInv, HashesExpire, SearchIsShort, Watched
<1> QED
  BY <1>1, <1>2, AgentsKeepPresence

LEMMA MarksKeepPresence ==
    ASSUME PresenceInv, NEW a \in Agents,
           GeoAdd(a) \/ GoOnlineFails(a) \/ MarkBusy(a) \/ MarkFree(a)
    PROVE  PresenceInv'
<1>1. /\ geo \in [Agents -> Distances \cup {0}] /\ busy \subseteq Agents
      /\ coming \in [Agents -> Distances \cup {0}]
      /\ \A b \in search.there : IsThere(b)
  BY DEF PresenceInv, PresenceTypeOK, ThereIsThere
<1>2. CASE GeoAdd(a)
  BY <1>1, <1>2, WatchWatches, HashesStay DEF GeoAdd
<1>3. CASE GoOnlineFails(a)
  <2>1. \A b \in search.there : NowThere(b)
    BY <1>1, <1>3 DEF GoOnlineFails, NowThere, IsThere, IsNear
  <2> QED
    BY <1>1, <1>3, <2>1, UnwatchedIsWatched, HashesStay DEF GoOnlineFails
<1>4. CASE MarkBusy(a)
  BY <1>1, <1>4, WatchWatches, HashesStay DEF MarkBusy
<1>5. CASE MarkFree(a)
  <2>1. \A b \in search.there : NowThere(b)
    BY <1>1, <1>5 DEF MarkFree, NowThere, IsThere, IsNear
  <2> QED
    BY <1>1, <1>5, <2>1, UnwatchedIsWatched, HashesStay DEF MarkFree
<1> QED
  BY <1>2, <1>3, <1>4, <1>5

LEMMA TickKeepsPresence ==
    ASSUME PresenceInv, ClockTicks
    PROVE  PresenceInv'
<1>1. /\ clock < MaxClock /\ clock' = clock + 1 /\ UNCHANGED <<geo, busy, coming, heard>>
      /\ search.pc # "idle" => clock < search.started + MaxSearch
      /\ meta' = [b \in Agents |-> IF meta[b] <= clock + 1 THEN 0 ELSE meta[b]]
  BY DEF ClockTicks
<1>2. Watched
  BY WatchWatches DEF ClockTicks
<1>3. /\ clock \in Nat /\ MaxClock \in Nat /\ TTL \in Nat /\ MaxSearch \in Nat
      /\ heard \in [Agents -> Clock] /\ meta \in [Agents -> 0..Forever]
      /\ search.started \in Nat /\ 0 \in 0..Forever
  BY PresenceAssumption DEF PresenceInv, PresenceTypeOK, Clock, Search, Forever
<1>4. /\ meta' \in [Agents -> 0..Forever] /\ heard' \in [Agents -> Clock]
      /\ clock' \in Clock /\ clock <= clock' /\ \A b \in Agents : heard[b] <= heard'[b]
  BY <1>1, <1>3 DEF Clock
<1>5. HashesExpire'
  <2> SUFFICES ASSUME NEW b \in Agents
               PROVE  /\ heard[b] <= clock + 1
                      /\ meta'[b] # 0 => clock + 1 < meta'[b] /\ meta'[b] <= heard[b] + TTL
    BY <1>1 DEF HashesExpire
  <2>1. /\ heard[b] \in Nat /\ meta[b] \in Nat /\ heard[b] <= clock
        /\ meta[b] # 0 => meta[b] <= heard[b] + TTL
    BY <1>3 DEF PresenceInv, HashesExpire, Clock
  <2>2. meta'[b] = IF meta[b] <= clock + 1 THEN 0 ELSE meta[b]
    BY <1>1
  <2> QED
    BY <1>3, <2>1, <2>2
<1>6. SearchIsShort'
  <2>1. /\ search'.pc # "idle" => clock < search.started + MaxSearch /\ search.started <= clock
        /\ search'.started = search.started
    BY <1>1, <1>2 DEF PresenceInv, SearchIsShort, Watched
  <2>2. PICK s \in Nat, m \in Nat, c \in Nat :
            s = search.started /\ m = MaxSearch /\ c = clock
    BY <1>3
  <2>3. clock' = c + 1 /\ (search'.pc # "idle" => c < s + m /\ s <= c) /\ search'.started = s
    BY <1>1, <2>1, <2>2
  <2>4. search'.pc # "idle" => s <= c + 1 /\ c + 1 <= s + m
    BY <2>3
  <2> QED
    BY <2>2, <2>3, <2>4 DEF SearchIsShort
<1> QED
  BY <1>1, <1>2, <1>3, <1>4, <1>5, <1>6, AgentsKeepPresence
     DEF PresenceInv, PresenceTypeOK

-----------------------------------------------------------------------------
\* A step of the search alone.
LEMMA SearchKeepsPresence ==
    ASSUME PresenceInv, UNCHANGED <<meta, geo, busy, coming, heard, clock>>,
           search' \in Search, SearchIsShort', FoundIsRecent',
           \A a \in search'.there : IsThere(a), NobodyIsMissed', WhoIsThereIsFound'
    PROVE  PresenceInv'
<1>1. PresenceTypeOK' /\ HashesExpire'
  BY DEF PresenceInv, PresenceTypeOK, HashesExpire
<1>2. ThereIsThere'
  BY DEF ThereIsThere, IsThere, IsNear
<1> QED
  BY <1>1, <1>2 DEF PresenceInv

\* The first of a list and the rest have all of it.
LEMMA RangeOfTail ==
    ASSUME NEW S, NEW s \in Seq(S), s # <<>>
    PROVE  /\ Head(s) \in S /\ Tail(s) \in Seq(S)
           /\ Range(s) = {Head(s)} \cup Range(Tail(s))
<1>1. /\ Head(s) = s[1] /\ Tail(s) \in Seq(S) /\ Len(Tail(s)) = Len(s) - 1
      /\ \A i \in 1..Len(s) - 1 : Tail(s)[i] = s[i + 1]
      /\ Head(s) \in S
  OBVIOUS
<1>2. DOMAIN s = 1..Len(s) /\ DOMAIN Tail(s) = 1..Len(s) - 1 /\ Len(s) \in Nat \ {0}
  BY <1>1
<1>3. \A x \in Range(s) : x \in {Head(s)} \cup Range(Tail(s))
  <2> SUFFICES ASSUME NEW i \in 1..Len(s), i # 1
               PROVE  s[i] \in Range(Tail(s))
    BY <1>1, <1>2 DEF Range
  <2>1. i - 1 \in 1..Len(s) - 1 /\ (i - 1) + 1 = i
    BY <1>2
  <2>2. Tail(s)[i - 1] = s[i]
    BY <1>1, <2>1
  <2> QED
    BY <1>2, <2>1, <2>2 DEF Range
<1>4. \A x \in Range(Tail(s)) : x \in Range(s)
  <2> SUFFICES ASSUME NEW i \in 1..Len(s) - 1
               PROVE  s[i + 1] \in Range(s)
    BY <1>1, <1>2 DEF Range
  <2>1. i + 1 \in 1..Len(s)
    BY <1>2
  <2> QED
    BY <1>2, <2>1 DEF Range
<1>5. Head(s) \in Range(s)
  BY <1>1, <1>2 DEF Range
<1> QED
  BY <1>3, <1>4, <1>5

\* The search as its guards find it.
LEMMA SearchIsTyped ==
    ASSUME PresenceInv
    PROVE  /\ search \in Search
           /\ search.left \in Seq(Agents) /\ search.result \subseteq Agents
           /\ search.started \in Nat /\ search.there \subseteq Agents
           /\ IsFiniteSet(search.result) /\ Cardinality(search.result) \in Nat
BY FS_Subset, FS_CardinalityType, PresenceAssumption
   DEF PresenceInv, PresenceTypeOK, Search, Clock

LEMMA SkipKeepsPresence ==
    ASSUME PresenceInv, search.pc \in {"scan", "busy"}, search.left # <<>>,
           ~IsThere(Head(search.left)), search' = Skips,
           UNCHANGED <<meta, geo, busy, coming, heard, clock>>
    PROVE  PresenceInv'
<1>1. /\ Head(search.left) \in Agents /\ Tail(search.left) \in Seq(Agents)
      /\ Range(search.left) = {Head(search.left)} \cup Range(Tail(search.left))
  BY SearchIsTyped, RangeOfTail
<1>2. /\ search' \in Search /\ search'.pc = "scan" /\ search'.left = Tail(search.left)
      /\ search'.result = search.result /\ search'.full = search.full
      /\ search'.started = search.started /\ search'.there = search.there
  BY <1>1, SearchIsTyped DEF Skips, Search
<1>3. SearchIsShort'
  BY <1>2 DEF PresenceInv, SearchIsShort
<1>4. FoundIsRecent'
  BY <1>2 DEF PresenceInv, FoundIsRecent
<1>5. \A a \in search.there : IsThere(a)
  BY DEF PresenceInv, ThereIsThere
<1>6. Head(search.left) \notin search.there
  BY <1>5
<1>7. NobodyIsMissed'
  BY <1>1, <1>2, <1>6 DEF PresenceInv, NobodyIsMissed
<1>8. WhoIsThereIsFound'
  BY <1>2 DEF WhoIsThereIsFound
<1> QED
  BY <1>2, <1>3, <1>4, <1>5, <1>7, <1>8, SearchKeepsPresence

LEMMA PickKeepsPresence ==
    ASSUME PresenceInv, search.pc = "busy", search' = Picks,
           UNCHANGED <<meta, geo, busy, coming, heard, clock>>
    PROVE  PresenceInv'
<1>1. search.left # <<>> /\ search.started < heard[Head(search.left)] + TTL
  BY DEF PresenceInv, FoundIsRecent
<1>2. /\ Head(search.left) \in Agents /\ Tail(search.left) \in Seq(Agents)
      /\ Range(search.left) = {Head(search.left)} \cup Range(Tail(search.left))
  BY <1>1, SearchIsTyped, RangeOfTail
<1> DEFINE found == search.result \cup {Head(search.left)}
<1>3. PICK pc \in {"done", "scan"} : pc = IF Cardinality(found) >= Wanted THEN "done" ELSE "scan"
  OBVIOUS
<1>4. found \in SUBSET Agents
  BY <1>2, SearchIsTyped
<1>5. /\ search' \in Search /\ search'.pc = pc /\ search'.left = Tail(search.left)
      /\ search'.result = found /\ search'.full = search.full
      /\ search'.started = search.started /\ search'.there = search.there
  <2>1. search' = [search EXCEPT !.result = found, !.left = Tail(@), !.pc = pc]
    BY <1>3 DEF Picks
  <2> HIDE DEF found
  <2> QED
    BY <1>2, <1>4, <2>1, SearchIsTyped DEF Search
<1>6. Cardinality(found) \in Nat /\ Cardinality(search.result) < Wanted
      /\ Cardinality(found) <= Cardinality(search.result) + 1
  <2>1. Cardinality(search.result) < Wanted
    BY DEF PresenceInv, NobodyIsMissed
  <2>2. IsFiniteSet(found)
        /\ Cardinality(found) = IF Head(search.left) \in search.result
                                THEN Cardinality(search.result)
                                ELSE Cardinality(search.result) + 1
    BY SearchIsTyped, FS_AddElement
  <2> HIDE DEF found
  <2> QED
    BY <2>1, <2>2, SearchIsTyped
<1>7. SearchIsShort'
  BY <1>5 DEF PresenceInv, SearchIsShort
<1>8. FoundIsRecent'
  BY <1>1, <1>3, <1>5 DEF PresenceInv, FoundIsRecent
<1>9. \A a \in search.there : IsThere(a)
  BY DEF PresenceInv, ThereIsThere
<1>10. search.full \/ \A a \in search.there : a \in found \cup Range(Tail(search.left))
  BY <1>2 DEF PresenceInv, NobodyIsMissed
<1>11. pc = "done" => Cardinality(found) = Wanted
  <2>1. Wanted \in Nat /\ Cardinality(search.result) \in Nat
    BY PresenceAssumption, SearchIsTyped
  <2> HIDE DEF found
  <2> QED
    BY <1>3, <1>6, <2>1
<1>12. pc = "scan" => Cardinality(found) < Wanted
  <2>1. Wanted \in Nat
    BY PresenceAssumption
  <2> HIDE DEF found
  <2> QED
    BY <1>3, <1>6, <2>1
<1> HIDE DEF found
<1>13. NobodyIsMissed'
  BY <1>3, <1>5, <1>10, <1>12 DEF NobodyIsMissed
<1>14. WhoIsThereIsFound'
  BY <1>3, <1>5, <1>11 DEF WhoIsThereIsFound
<1> QED
  BY <1>5, <1>7, <1>8, <1>9, <1>13, <1>14, SearchKeepsPresence

LEMMA CheckKeepsPresence ==
    ASSUME PresenceInv, CheckFresh \/ CheckBusy
    PROVE  PresenceInv'
<1>1. CASE CheckFresh /\ meta[Head(search.left)] = 0
  BY <1>1, SkipKeepsPresence DEF CheckFresh, IsThere
<1>2. CASE CheckFresh /\ meta[Head(search.left)] # 0
  <2>1. /\ search.pc = "scan" /\ search.left # <<>>
        /\ search' = [search EXCEPT !.pc = "busy"]
        /\ UNCHANGED <<meta, geo, busy, coming, heard, clock>>
    BY <1>2 DEF CheckFresh
  <2>2. /\ search' \in Search /\ search'.pc = "busy" /\ search'.left = search.left
        /\ search'.result = search.result /\ search'.full = search.full
        /\ search'.started = search.started /\ search'.there = search.there
    BY <2>1, SearchIsTyped DEF Search
  <2>3. Head(search.left) \in Agents
    BY <2>1, SearchIsTyped, RangeOfTail
  <2>4. search.started < heard[Head(search.left)] + TTL
    <3>1. /\ search.started <= clock /\ clock < meta[Head(search.left)]
          /\ meta[Head(search.left)] <= heard[Head(search.left)] + TTL
      BY <1>2, <2>1, <2>3 DEF PresenceInv, SearchIsShort, HashesExpire
    <3>2. /\ clock \in Nat /\ meta[Head(search.left)] \in Nat
          /\ heard[Head(search.left)] \in Nat /\ TTL \in Nat /\ search.started \in Nat
      BY <2>3, SearchIsTyped, PresenceAssumption DEF PresenceInv, PresenceTypeOK, Clock
    <3> QED
      BY <3>1, <3>2
  <2>5. SearchIsShort' /\ FoundIsRecent'
    BY <2>1, <2>2, <2>4 DEF PresenceInv, SearchIsShort, FoundIsRecent
  <2>6. NobodyIsMissed' /\ WhoIsThereIsFound'
    BY <2>1, <2>2 DEF PresenceInv, NobodyIsMissed, WhoIsThereIsFound
  <2>7. \A a \in search'.there : IsThere(a)
    BY <2>2 DEF PresenceInv, ThereIsThere
  <2> QED
    BY <2>1, <2>2, <2>5, <2>6, <2>7, SearchKeepsPresence
<1>3. CASE CheckBusy /\ Head(search.left) \in busy
  <2>1. search.left # <<>>
    BY <1>3 DEF CheckBusy, PresenceInv, FoundIsRecent
  <2> QED
    BY <1>3, <2>1, SkipKeepsPresence DEF CheckBusy, IsThere
<1>4. CASE CheckBusy /\ Head(search.left) \notin busy
  BY <1>4, PickKeepsPresence DEF CheckBusy
<1> QED
  BY <1>1, <1>2, <1>3, <1>4

\* What geosearch finds is everybody near, unless there are too many.
LEMMA NearestAreNear ==
    ASSUME NEW s \in Nearest
    PROVE  /\ s \in Seq(Agents)
           /\ Cardinality(Near) <= Scanned => Range(s) = Near
<1>1. Near \subseteq Agents /\ IsFiniteSet(Near) /\ Cardinality(Near) \in Nat
  BY FS_Subset, FS_CardinalityType, PresenceAssumption DEF Near
<1>2. Scanned \in Nat
  BY PresenceAssumption DEF Scanned
<1>3. PICK n \in Nat : n = Least(Scanned, Cardinality(Near))
  BY <1>1, <1>2 DEF Least
<1>4. s \in Injection(1..n, Near)
  BY <1>3 DEF Nearest
<1>5. s \in [1..n -> Near]
  BY <1>4 DEF Injection
<1>6. s \in Seq(Agents)
  BY <1>1, <1>5
<1>7. ASSUME Cardinality(Near) <= Scanned
      PROVE  Range(s) = Near
  <2>1. n = Cardinality(Near)
    BY <1>1, <1>2, <1>3, <1>7 DEF Least
  <2>2. Cardinality(1..n) = n
    BY FS_Interval
  <2>3. s \in Surjection(1..n, Near)
    BY <1>1, <1>4, <2>1, <2>2, FS_Injection
  <2> QED
    BY <1>5, <2>3 DEF Surjection, Range
<1> QED
  BY <1>6, <1>7

LEMMA GeoSearchKeepsPresence ==
    ASSUME PresenceInv, GeoSearch
    PROVE  PresenceInv'
<1> DEFINE free == {a \in Agents : IsThere(a)}
           full == Cardinality(Near) > Scanned
<1>1. PICK s \in Nearest :
          search' = [NoSearch EXCEPT !.pc = "scan", !.left = s, !.full = full,
                                     !.started = clock, !.there = free]
  BY DEF GeoSearch
<1>2. UNCHANGED <<meta, geo, busy, coming, heard, clock>>
  BY DEF GeoSearch
<1>3. s \in Seq(Agents) /\ full \in BOOLEAN /\ clock \in Clock /\ free \in SUBSET Agents
  BY NearestAreNear DEF PresenceInv, PresenceTypeOK
<1>4. full \/ \A a \in free : a \in Range(s)
  <2>1. free \subseteq Near
    BY DEF IsThere, Near
  <2>2. Cardinality(Near) \in Nat /\ Scanned \in Nat
    BY FS_Subset, FS_CardinalityType, PresenceAssumption DEF Near, Scanned
  <2> QED
    BY <2>1, <2>2, NearestAreNear
<1>5. \A a \in free : IsThere(a)
  OBVIOUS
<1> HIDE DEF free, full
<1>6. /\ search' \in Search /\ search'.pc = "scan" /\ search'.left = s
      /\ search'.result = {} /\ search'.full = full
      /\ search'.started = clock /\ search'.there = free
  BY <1>1, <1>3 DEF NoSearch, Search
<1>7. clock \in Nat /\ MaxSearch \in Nat /\ Wanted \in Nat \ {0}
  BY <1>3, PresenceAssumption DEF Clock
<1>8. SearchIsShort' /\ FoundIsRecent'
  BY <1>2, <1>6, <1>7 DEF SearchIsShort, FoundIsRecent
<1>9. NobodyIsMissed' /\ WhoIsThereIsFound'
  BY <1>4, <1>6, <1>7, FS_EmptySet DEF NobodyIsMissed, WhoIsThereIsFound
<1> QED
  BY <1>2, <1>5, <1>6, <1>8, <1>9, SearchKeepsPresence

LEMMA EndKeepsPresence ==
    ASSUME PresenceInv, Exhaust \/ EndSearch
    PROVE  PresenceInv'
<1>1. CASE Exhaust
  <2>1. /\ search.pc = "scan" /\ search.left = <<>>
        /\ search' = [search EXCEPT !.pc = "done"]
        /\ UNCHANGED <<meta, geo, busy, coming, heard, clock>>
    BY <1>1 DEF Exhaust
  <2>2. /\ search' \in Search /\ search'.pc = "done" /\ search'.left = search.left
        /\ search'.result = search.result /\ search'.full = search.full
        /\ search'.started = search.started /\ search'.there = search.there
    BY <2>1, SearchIsTyped DEF Search
  <2>3. SearchIsShort' /\ FoundIsRecent' /\ NobodyIsMissed'
    BY <2>1, <2>2 DEF PresenceInv, SearchIsShort, FoundIsRecent, NobodyIsMissed
  <2>4. Range(search.left) = {}
    BY <2>1 DEF Range
  <2>5. WhoIsThereIsFound'
    BY <2>1, <2>2, <2>4 DEF PresenceInv, NobodyIsMissed, WhoIsThereIsFound
  <2>6. \A a \in search'.there : IsThere(a)
    BY <2>2 DEF PresenceInv, ThereIsThere
  <2> QED
    BY <2>1, <2>2, <2>3, <2>5, <2>6, SearchKeepsPresence
<1>2. CASE EndSearch
  <2>1. search' = NoSearch /\ UNCHANGED <<meta, geo, busy, coming, heard, clock>>
    BY <1>2 DEF EndSearch
  <2>2. NoSearch \in Search
    BY PresenceAssumption DEF NoSearch, Search, Clock
  <2>3. /\ search'.pc = "idle" /\ search'.result = {} /\ search'.there = {}
    BY <2>1 DEF NoSearch
  <2>4. SearchIsShort' /\ FoundIsRecent' /\ NobodyIsMissed' /\ WhoIsThereIsFound'
    BY <2>3 DEF SearchIsShort, FoundIsRecent, NobodyIsMissed, WhoIsThereIsFound
  <2> QED
    BY <2>1, <2>2, <2>3, <2>4, SearchKeepsPresence
<1> QED
  BY <1>1, <1>2

LEMMA PresenceStaysPut == PresenceInv /\ UNCHANGED presenceVars => PresenceInv'
BY DEF PresenceInv, presenceVars, PresenceTypeOK, HashesExpire, SearchIsShort,
       FoundIsRecent, ThereIsThere, IsThere, IsNear, NobodyIsMissed, WhoIsThereIsFound

LEMMA PresenceStepInv == PresenceInv /\ [PresenceNext]_presenceVars => PresenceInv'
<1> SUFFICES ASSUME PresenceInv, [PresenceNext]_presenceVars
             PROVE  PresenceInv'
  OBVIOUS
<1>1. CASE UNCHANGED presenceVars
  BY <1>1, PresenceStaysPut
<1>2. ASSUME NEW a \in Agents, GoOffline(a)
      PROVE  PresenceInv'
  BY <1>2, PresenceStaysPut DEF GoOffline, HasActive
<1>3. CASE PresenceNext
  BY <1>2, <1>3, GoOnlineKeepsPresence, MarksKeepPresence, TickKeepsPresence,
     GeoSearchKeepsPresence, CheckKeepsPresence, EndKeepsPresence DEF PresenceNext
<1> QED
  BY <1>1, <1>3

LEMMA PresenceIsSound == PresenceSpec => []PresenceInv
BY PresenceInitInv, PresenceStepInv, PTL DEF PresenceSpec

\* The keys of Redis, the search and the clock are well typed.
THEOREM PresenceTypeCorrect == PresenceSpec => []PresenceTypeOK
<1>1. PresenceInv => PresenceTypeOK
  BY DEF PresenceInv
<1> QED
  BY <1>1, PresenceIsSound, PTL

\* For any agents, distances, radius and times: nobody is a candidate who has
\* not been heard of for longer than the TTL and the time of a search.
THEOREM CandidatesWereHeardOf == PresenceSpec => []CandidatesAreRecent
<1>1. PresenceInv => CandidatesAreRecent
  <2> SUFFICES ASSUME PresenceInv, NEW a \in search.result
               PROVE  clock < heard[a] + TTL + MaxSearch
    BY DEF CandidatesAreRecent
  <2>1. search.pc # "idle" /\ search.started < heard[a] + TTL
    BY DEF PresenceInv, FoundIsRecent
  <2>2. clock <= search.started + MaxSearch
    BY <2>1 DEF PresenceInv, SearchIsShort
  <2>3. /\ search.started \in Nat /\ heard[a] \in Nat /\ TTL \in Nat
        /\ clock \in Nat /\ MaxSearch \in Nat
    BY SearchIsTyped, PresenceAssumption DEF PresenceInv, PresenceTypeOK, Clock
  <2> QED
    BY <2>1, <2>2, <2>3
<1> QED
  BY <1>1, PresenceIsSound, PTL

\* For any of them: who is near, fresh and free throughout a search is found,
\* unless it found enough or the geo set had too many in the radius.
THEOREM SearchMissesNobody == PresenceSpec => []WhoIsThereIsFound
<1>1. PresenceInv => WhoIsThereIsFound
  BY DEF PresenceInv
<1> QED
  BY <1>1, PresenceIsSound, PTL
=============================================================================
