----------------------------- MODULE Placement -----------------------------
(***************************************************************************)
(* Placing an order (OrderService.placeOrder behind the idempotency        *)
(* middleware): stock is reserved in the core service, the order is        *)
(* committed here, the reservation undone when the commit fails, and an    *)
(* online order gets its payment session after the commit.  Every call of  *)
(* the core service is repeated by retry() when its answer is lost.        *)
(*                                                                         *)
(* The core service is external: it decreases the stock atomically, once   *)
(* for a reservation's key, and increases it for every undo it gets, since *)
(* undos are sent without a key.  One product, one unit per order.         *)
(***************************************************************************)
EXTENDS Naturals, FiniteSets

CONSTANTS Slots,       \* requests of the region that run at a time
          ClientKeys,  \* Idempotency-Key headers of clients
          Stock,       \* units on sale at first
          Attempts,    \* tries of retry() around the core service
          MaxRequests, \* bound on the requests that are processed
          MaxMissed,   \* bound on the answers that are not stored
          MaxExpired   \* bound on the stored answers that expire

ASSUME PlacementAssumption ==
    /\ Stock \in Nat
    /\ Attempts \in Nat \ {0}
    /\ MaxRequests \in Nat
    /\ MaxMissed \in Nat
    /\ MaxExpired \in Nat
    /\ IsFiniteSet(Slots)

VARIABLES stock,     \* the core service's stock (external)
          reserved,  \* publicIds it has a reservation of (external)
          orders,    \* orders committed here, named by their publicId
          sessions,  \* orders with a payment session
          answered,  \* idempotency:<...>:<key> in Redis
          slot,      \* the request in progress of a slot
          requests,  \* requests processed so far: request n has publicId n
          keyOf,     \* the key of a request
          missed,    \* requests whose answer was not stored
          expired,   \* history: stored answers of a key that expired
          faults     \* history: kinds of trouble there were

placementVars == <<stock, reserved, orders, sessions, answered, slot, requests,
          keyOf, missed, expired, faults>>

Ids == 1..MaxRequests

\* reserve: the answer of the core service was lost three times.
\* undo: the answer was lost, or the core service refused.
\* commit: the order is there although the commit reported an error.
Faults == {"reserve", "undo", "commit", "crash"}

Slot == [pc : {"idle", "reserve", "insert", "undo", "session", "after", "answer"},
         id : Ids \cup {0}, online : BOOLEAN, try : 0..Attempts,
         ok : BOOLEAN]
Idle == [pc |-> "idle", id |-> 0, online |-> FALSE, try |-> 0, ok |-> FALSE]

PlacementTypeOK ==
    /\ stock \in Nat
    /\ reserved \subseteq Ids
    /\ orders \subseteq Ids
    /\ sessions \subseteq orders
    /\ answered \in [ClientKeys -> {"none", "ok", "error"}]
    /\ slot \in [Slots -> Slot]
    /\ requests \in 0..MaxRequests
    /\ keyOf \in [Ids -> ClientKeys \cup {"none"}]
    /\ missed \in [ClientKeys -> 0..MaxMissed]
    /\ expired \in [ClientKeys -> 0..MaxExpired]
    /\ faults \subseteq Faults

PlacementInit ==
    /\ stock = Stock
    /\ reserved = {}
    /\ orders = {}
    /\ sessions = {}
    /\ answered = [k \in ClientKeys |-> "none"]
    /\ slot = [s \in Slots |-> Idle]
    /\ requests = 0
    /\ keyOf = [i \in Ids |-> "none"]
    /\ missed = [k \in ClientKeys |-> 0]
    /\ expired = [k \in ClientKeys |-> 0]
    /\ faults = {}

core == <<stock, reserved>>
rows == <<orders, sessions>>
clients == <<answered, requests, keyOf, missed, expired>>

At(s, pc) == slot[s].pc = pc
Id(s) == slot[s].id
Goes(s, pc) == [slot EXCEPT ![s].pc = pc, ![s].try = 1]
Answers(s, ok) == [slot EXCEPT ![s].pc = "answer", ![s].ok = ok]

\* retry(): not after the last attempt.
MayRetry(s) == slot[s].try < Attempts

-----------------------------------------------------------------------------
(* The middleware, admission and the reservation *)

\* Mistaken variant: only an order that was placed is remembered.
IsAnsweredOk(k) == answered[k] = "ok"

IsAnswered(k) == answered[k] # "none"

\* No answer is stored for the key, not yet or no more; whether another request with the key
\* is in progress nobody looks.  A stored answer, an error too, is replayed
\* with status 200 and nothing else happens.
Begin(s, k, online) ==
    /\ At(s, "idle")
    /\ ~IsAnswered(k)
    /\ requests < MaxRequests
    /\ requests' = requests + 1
    /\ keyOf' = [keyOf EXCEPT ![requests + 1] = k]
    /\ slot' = [slot EXCEPT ![s] = [pc |-> "reserve", id |-> requests + 1,
                                    online |-> online, try |-> 1, ok |-> FALSE]]
    /\ UNCHANGED <<core, rows, answered, missed, expired, faults>>

\* The branch, the address, a product or the cached stock will not do.
Refuse(s) ==
    /\ At(s, "reserve")
    /\ slot[s].try = 1
    /\ Id(s) \notin reserved
    /\ slot' = Answers(s, FALSE)
    /\ UNCHANGED <<core, rows, clients, faults>>

\* Mistaken variant: the reservation is sent without a key.
NeverReserved(s) == FALSE

\* The core service knows the key: the reservation was made.
IsReserved(s) == Id(s) \in reserved

\* What a reservation does in the core service.
TakeStock(s) ==
    /\ IsReserved(s) \/ stock > 0
    /\ stock' = IF IsReserved(s) THEN stock ELSE stock - 1
    /\ reserved' = reserved \cup {Id(s)}

Reserve(s) ==
    /\ At(s, "reserve")
    /\ TakeStock(s)
    /\ slot' = Goes(s, "insert")
    /\ UNCHANGED <<rows, clients, faults>>

\* 4xx: out of stock.
ReserveRefused(s) ==
    /\ At(s, "reserve")
    /\ ~IsReserved(s) /\ stock = 0
    /\ slot' = Answers(s, FALSE)
    /\ UNCHANGED <<core, rows, clients, faults>>

\* A 5xx or a broken connection.  After the last one the customer gets an
\* error, and a reservation that was made stays.
ReserveLost(s) ==
    /\ At(s, "reserve")
    /\ TakeStock(s) \/ UNCHANGED core
    /\ IF MayRetry(s)
       THEN /\ slot' = [slot EXCEPT ![s].try = @ + 1]
            /\ UNCHANGED faults
       ELSE /\ slot' = Answers(s, FALSE)
            /\ faults' = faults \cup {"reserve"}
    /\ UNCHANGED <<rows, clients>>

-----------------------------------------------------------------------------
(* The order and the undo of the reservation *)

\* The order with its items.
Inserts(s) == orders' = orders \cup {Id(s)}

\* Order, items and event, committed.
Commit(s) ==
    /\ At(s, "insert")
    /\ Inserts(s)
    /\ slot' = Goes(s, IF slot[s].online THEN "session" ELSE "after")
    /\ UNCHANGED <<core, sessions, clients, faults>>

\* Rollback; if the connection broke, the commit may have taken effect.
CommitFails(s) ==
    /\ At(s, "insert")
    /\ \/ UNCHANGED <<orders, faults>>
       \/ Inserts(s) /\ faults' = faults \cup {"commit"}
    /\ slot' = Goes(s, "undo")
    /\ UNCHANGED <<core, sessions, clients>>

Undo(s) ==
    /\ At(s, "undo")
    /\ stock' = stock + 1
    /\ slot' = Answers(s, FALSE)
    /\ UNCHANGED <<reserved, rows, clients, faults>>

\* The answer is lost, or the core service refuses; the error of the undo is
\* only logged.
UndoFails(s) ==
    /\ At(s, "undo")
    /\ stock' \in {stock, stock + 1}
    /\ slot' \in IF MayRetry(s)
                 THEN {[slot EXCEPT ![s].try = @ + 1], Answers(s, FALSE)}
                 ELSE {Answers(s, FALSE)}
    /\ faults' = faults \cup {"undo"}
    /\ UNCHANGED <<reserved, rows, clients>>

-----------------------------------------------------------------------------
(* The payment session and the answer *)

\* The gateway makes a session for the total; the row of it is inserted.
OpensSession(s) == sessions' = sessions \cup {Id(s)}

InitSession(s) ==
    /\ At(s, "session")
    /\ OpensSession(s)
    /\ slot' = Goes(s, "after")
    /\ UNCHANGED <<core, orders, clients, faults>>

\* Mistaken variant: the error of the session is swallowed.
SessionFailsQuietly(s) ==
    /\ At(s, "session")
    /\ slot' = Goes(s, "after")
    /\ UNCHANGED <<core, rows, clients, faults>>

\* Mistaken variant: the stock is given back, the order stays.
SessionFailsAndUndoes(s) ==
    /\ At(s, "session")
    /\ slot' = Goes(s, "undo")
    /\ UNCHANGED <<core, rows, clients, faults>>

\* The update to cancelled uses the committed transaction and throws: the
\* undo behind it is not reached and the order stays as it is.
SessionFails(s) ==
    /\ At(s, "session")
    /\ slot' = Answers(s, FALSE)
    /\ UNCHANGED <<core, rows, clients, faults>>

\* The list of the branch is dropped from Redis; if that fails the customer
\* gets an error, order or not.
Finish(s) ==
    /\ At(s, "after")
    /\ slot' \in {Answers(s, TRUE), Answers(s, FALSE)}
    /\ UNCHANGED <<core, rows, clients, faults>>

Body(s) == IF slot[s].ok THEN "ok" ELSE "error"

\* The patched res.json stores the body, whatever it is, for a day.
Store(s) ==
    /\ At(s, "answer")
    /\ answered' = [answered EXCEPT ![keyOf[Id(s)]] = Body(s)]
    /\ slot' = [slot EXCEPT ![s] = Idle]
    /\ UNCHANGED <<core, rows, requests, keyOf, missed, expired, faults>>

Miss(s) ==
    LET k == keyOf[Id(s)] IN
    /\ missed[k] < MaxMissed
    /\ missed' = [missed EXCEPT ![k] = @ + 1]
    /\ slot' = [slot EXCEPT ![s] = Idle]

\* The SET is not waited for and its error is ignored.
StoreFails(s) ==
    /\ At(s, "answer")
    /\ Miss(s)
    /\ UNCHANGED <<core, rows, answered, requests, keyOf, expired, faults>>

\* A day after it was stored Redis drops the answer: the key runs the handler
\* again.
AnswerExpires(k) ==
    /\ IsAnswered(k)
    /\ expired[k] < MaxExpired
    /\ answered' = [answered EXCEPT ![k] = "none"]
    /\ expired' = [expired EXCEPT ![k] = @ + 1]
    /\ UNCHANGED <<core, rows, slot, requests, keyOf, missed, faults>>

\* The server dies.
Crash(s) ==
    /\ ~At(s, "idle")
    /\ Miss(s)
    /\ faults' = faults \cup {"crash"}
    /\ UNCHANGED <<core, rows, answered, requests, keyOf, expired>>

-----------------------------------------------------------------------------
PlacementNext ==
    \/ \E s \in Slots, k \in ClientKeys, online \in BOOLEAN : Begin(s, k, online)
    \/ \E s \in Slots :
           \/ Refuse(s) \/ Reserve(s) \/ ReserveRefused(s) \/ ReserveLost(s)
           \/ Commit(s) \/ CommitFails(s) \/ Undo(s) \/ UndoFails(s)
           \/ InitSession(s) \/ SessionFails(s) \/ Finish(s)
           \/ Store(s) \/ StoreFails(s) \/ Crash(s)
    \/ \E k \in ClientKeys : AnswerExpires(k)

PlacementSpec == PlacementInit /\ [][PlacementNext]_placementVars

-----------------------------------------------------------------------------
(* Properties *)

Sold == Cardinality(orders)

\* Whatever dies and however often reservations are repeated, what is on sale
\* and what was sold is not more than there was, unless an undo had to be
\* repeated or refused, or a commit took effect that reported an error.
NeverOversold ==
    faults \cap {"undo", "commit"} = {} => stock + Sold <= Stock

\* No unit is lost: once nothing is in progress, a unit is on sale or in an
\* order, unless a server died or the core service could not be reached.
NothingLeaks ==
    /\ faults \cap {"reserve", "undo", "crash"} = {}
    /\ \A s \in Slots : slot[s].pc \in {"idle", "answer"}
    => stock + Sold >= Stock

\* A customer who is told that his order was placed holds a unit, and an
\* online customer has a session to pay in.  An answer that is replayed as a
\* success is about an order of that key; errors tell nothing, the order may
\* be there.
OkIsComplete ==
    /\ \A s \in Slots : At(s, "answer") /\ slot[s].ok =>
           /\ Id(s) \in orders \cap reserved
           /\ slot[s].online => Id(s) \in sessions
    /\ \A k \in ClientKeys : answered[k] = "ok" => \E i \in orders : keyOf[i] = k

\* The orders of a key: as many as requests that overlap, once at first and
\* once more for every stored answer that expired, and one for every answer
\* that was not stored.  So within a day of an answer the key makes no order.
OrdersPerKey ==
    \A k \in ClientKeys : Cardinality({i \in orders : keyOf[i] = k})
                        <= Cardinality(Slots) * (1 + expired[k]) + missed[k]

=============================================================================
