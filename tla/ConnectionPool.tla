--------------------------- MODULE ConnectionPool ---------------------------
(***************************************************************************)
(* The database connections of one process and region (lib/knex/shards)    *)
(* and the requests that use them.  A connection is taken for a statement  *)
(* or for a whole transaction; a request that finds none free waits in a   *)
(* queue, and gives up after the pool's acquire timeout.  Most requests    *)
(* use one connection at a time.  OrderService.updateStatus uses two: it   *)
(* opens a transaction and runs its statements beside it, on the pool.     *)
(*                                                                         *)
(* The pool is external (knex): first come, first served.                  *)
(***************************************************************************)
EXTENDS Naturals, Sequences, FiniteSets, Functions, SequencesExt

CONSTANTS Requests,  \* requests that run at a time
          PoolMax    \* DB_POOL_MAX

ASSUME PoolAssumption ==
    /\ IsFiniteSet(Requests)
    /\ PoolMax \in Nat \ {0}

VARIABLES req,   \* what a request does
          queue  \* requests that wait for a connection

poolVars == <<req, queue>>

\* plain: waits for a connection, uses it.  A PATCH: waits for the connection
\* of its transaction (open), has it (trx), waits for another (statement),
\* has it too (write).  held: its connections; left: statements to come.
Request == [kind : {"plain", "patch"},
            pc : {"idle", "wait", "use", "open", "trx", "statement", "write"},
            held : 0..2, left : 0..2]
NoRequest == [kind |-> "plain", pc |-> "idle", held |-> 0, left |-> 0]

Waiting == {"wait", "open", "statement"}
Waits(r) == req[r].pc \in Waiting

Held == SumFunction([r \in Requests |-> req[r].held])

PoolTypeOK ==
    /\ req \in [Requests -> Request]
    /\ queue \in Seq(Requests)
    /\ \A r \in Requests : Waits(r) <=> \E i \in 1..Len(queue) : queue[i] = r
    /\ Held <= PoolMax

PoolInit ==
    /\ req = [r \in Requests |-> NoRequest]
    /\ queue = <<>>

-----------------------------------------------------------------------------
\* r asks the pool for a connection.
Ask(r, pc) ==
    /\ req' = [req EXCEPT ![r].pc = pc]
    /\ queue' = Append(queue, r)

Arrive(r) ==
    /\ req[r].pc = "idle"
    /\ req' = [req EXCEPT ![r].pc = "wait"]
    /\ queue' = Append(queue, r)

\* updateStatus has read the order and opens its transaction; a status with
\* an event is two statements.
ArrivePatch(r) ==
    /\ req[r].pc = "idle"
    /\ \E n \in 1..2 :
           req' = [req EXCEPT ![r] = [kind |-> "patch", pc |-> "open",
                                      held |-> 0, left |-> n]]
    /\ queue' = Append(queue, r)

After == [pc \in Waiting |-> CASE pc = "wait" -> "use"
                               [] pc = "open" -> "trx"
                               [] pc = "statement" -> "write"]

\* The first in the queue gets a free connection.
Acquire(r) ==
    /\ queue # <<>>
    /\ Head(queue) = r
    /\ Held < PoolMax
    /\ queue' = Tail(queue)
    /\ req' = [req EXCEPT ![r].pc = After[@], ![r].held = @ + 1]

\* Mistaken variant: the holder of a connection waits for as long as it takes.
ExpiresEmptyHanded(r) == Waits(r) /\ req[r].held = 0

\* A request may wait for as long as the acquire timeout.
Expires(r) == Waits(r)

\* Everything a request has is given back.
Released(r) == [req EXCEPT ![r] = NoRequest]

\* Mistaken variant: the transaction is not rolled back.
RolledBackNever(r) == [req EXCEPT ![r].pc = "idle"]

\* The error of the pool is caught: rollback, if there is a transaction.
RolledBack(r) == Released(r)

Timeout(r) ==
    /\ Expires(r)
    /\ req' = RolledBack(r)
    /\ \E i \in 1..Len(queue) : queue[i] = r /\ queue' = RemoveAt(queue, i)

\* The statement or transaction of a plain request ends, well or not.
FinishPlain(r) ==
    /\ req[r].pc = "use"
    /\ req' = Released(r)
    /\ UNCHANGED queue

\* updateOrderStatus or insertOutboxEvent, on `conn`.
AskStatement(r) ==
    /\ req[r].pc = "trx"
    /\ req[r].left > 0
    /\ Ask(r, "statement")

EndStatement(r) ==
    /\ req[r].pc = "write"
    /\ req' = [req EXCEPT ![r].pc = "trx", ![r].held = @ - 1, ![r].left = @ - 1]
    /\ UNCHANGED queue

CommitPatch(r) ==
    /\ req[r].pc = "trx"
    /\ req[r].left = 0
    /\ req' = Released(r)
    /\ UNCHANGED queue

\* A statement fails: rollback.
StatementFails(r) ==
    /\ req[r].pc = "write"
    /\ req' = RolledBack(r)
    /\ UNCHANGED queue

PoolNext == \E r \in Requests :
    \/ Arrive(r) \/ ArrivePatch(r) \/ Acquire(r) \/ Timeout(r) \/ FinishPlain(r)
    \/ AskStatement(r) \/ EndStatement(r) \/ CommitPatch(r) \/ StatementFails(r)

\* Timers fire, the pool serves its queue, statements come to an end.
Fairness == \A r \in Requests :
    /\ WF_poolVars(Acquire(r))
    /\ WF_poolVars(Timeout(r))
    /\ WF_poolVars(FinishPlain(r))
    /\ WF_poolVars(AskStatement(r))
    /\ WF_poolVars(EndStatement(r))
    /\ WF_poolVars(CommitPatch(r))

PoolSpec == PoolInit /\ [][PoolNext]_poolVars /\ Fairness

-----------------------------------------------------------------------------
(* Properties *)

\* No request can go on but by its timer.
Stalled ==
    /\ \A r \in Requests : req[r].pc = "idle" \/ Waits(r)
    /\ queue # <<>>
    /\ Held >= PoolMax

\* The requests of a process block one another only when every connection is
\* the transaction of a PATCH that waits for a second one: fewer PATCHes than
\* connections at a time never do, whatever fails or times out (no path of a
\* request keeps a connection).
StallIsByPatches ==
    Stalled => Cardinality({r \in Requests : req[r].pc = "statement"}) = PoolMax

\* A stalled pool recovers, and every request comes to an end.
RequestsEnd ==
    \A r \in Requests : req[r].pc # "idle" ~> req[r].pc = "idle"
=============================================================================
