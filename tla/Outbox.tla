------------------------------- MODULE Outbox -------------------------------
(***************************************************************************)
(* The transactional outbox of one region: services insert rows into       *)
(* events_outbox in their transactions, worker processes drain the table   *)
(* to RabbitMQ (lib/events).  One tick of a worker is one transaction:     *)
(* claimBatch, a confirmed publish and markDispatched for each row, commit.*)
(*                                                                         *)
(* The jobs' scheduler never runs two ticks of a job at once in a process, *)
(* so a worker has at most one tick in progress.  events_outbox.attempts   *)
(* and last_error are written by markFailed and read by nobody; they are   *)
(* left out.                                                               *)
(***************************************************************************)
EXTENDS Naturals, Sequences, FiniteSets

CONSTANTS Workers,     \* worker processes
          BatchSize,   \* OUTBOUND_EVENTS batch size
          MaxRows,     \* bound on the rows of the table
          MaxFaults    \* bound on failed publishes and failed ticks

ASSUME ConstantsAssumption ==
    /\ IsFiniteSet(Workers)
    /\ BatchSize \in Nat \ {0}
    /\ MaxRows \in Nat
    /\ MaxFaults \in Nat

VARIABLES table,    \* events_outbox: rows by id
          broker,   \* ids in the order RabbitMQ got them, repetitions included
          tick,     \* worker -> its tick in progress
          adrift,   \* messages handed over by a tick that has ended since
          faults    \* publishes and ticks that failed so far

vars == <<table, broker, tick, adrift, faults>>

Ids == 1..MaxRows

\* A row is "open" until the transaction that inserted it commits ("pending")
\* or rolls back ("void": its id is spent).
\* before: the rows that were committed when it was inserted (a history
\* field: the events this one may build on).
States == {"open", "pending", "dispatched", "void"}
Row == [state : States, before : SUBSET Ids]

\* claimed: rows locked by the tick; done: rows it has marked dispatched.
Tick == [phase : {"idle", "publishing", "closing"},
         claimed : SUBSET Ids, done : SUBSET Ids]
NoTick == [phase |-> "idle", claimed |-> {}, done |-> {}]

\* A message that no tick waits for any more and that may still reach the
\* broker: its row, and the fault that cut it off from its tick.
Message == [row : Ids, fault : 1..MaxFaults]

TypeOK == /\ table \in Seq(Row)
          /\ Len(table) <= MaxRows
          /\ broker \in Seq(1..Len(table))
          /\ tick \in [Workers -> Tick]
          /\ adrift \subseteq Message
          /\ faults \in 0..MaxFaults

Init == /\ table = <<>>
        /\ broker = <<>>
        /\ tick = [w \in Workers |-> NoTick]
        /\ adrift = {}
        /\ faults = 0

Rows == 1..Len(table)
Pending == {i \in Rows : table[i].state = "pending"}
Locked == UNION {tick[w].claimed : w \in Workers}

-----------------------------------------------------------------------------
(* The services *)

Committed == {i \in Rows : table[i].state \in {"pending", "dispatched"}}

\* insertOutboxEvent: the sequence gives the id at once, whatever transactions
\* are still open.
Insert ==
    /\ Len(table) < MaxRows
    /\ table' = Append(table, [state |-> "open", before |-> Committed])
    /\ UNCHANGED <<broker, tick, adrift, faults>>

\* The transaction around the insert ends.
EndInsert(i) ==
    /\ table[i].state = "open"
    /\ \E s \in {"pending", "void"} : table' = [table EXCEPT ![i].state = s]
    /\ UNCHANGED <<broker, tick, adrift, faults>>

-----------------------------------------------------------------------------
(* drainOutboxForRegion *)

\* Mistaken variant: rows of open transactions are claimed too.
ClaimableDirty == {i \in Rows : table[i].state \in {"open", "pending"}} \ Locked

\* Mistaken variant: FOR UPDATE without SKIP LOCKED on rows read before.
ClaimableShared == Pending

\* claimBatch: WHERE dispatched_at IS NULL ... FOR UPDATE SKIP LOCKED.
Claimable == Pending \ Locked

\* The scheduler drops a tick while the last one runs.
IsIdle(w) == tick[w].phase = "idle"

\* The BatchSize least ids.  A tick that finds nothing ends at once.
ClaimBatch(w) ==
    /\ IsIdle(w)
    /\ Claimable # {}
    /\ LET batch == {i \in Claimable :
                        Cardinality({j \in Claimable : j < i}) < BatchSize}
       IN  tick' = [tick EXCEPT ![w] = [phase |-> "publishing",
                                        claimed |-> batch, done |-> {}]]
    /\ UNCHANGED <<table, broker, adrift, faults>>

ToPublish(w) == tick[w].claimed \ tick[w].done

\* The row the loop is at: the least id left.
AtRow(w, i) ==
    /\ tick[w].phase = "publishing"
    /\ i \in ToPublish(w)
    /\ \A j \in ToPublish(w) : i <= j

\* A persistent message, confirmed by the broker.
Sent(i) == Append(broker, i)

\* markDispatched, in the transaction of the tick.
MarkDispatched(w, i) == [tick EXCEPT ![w].done = @ \cup {i}]

Publish(w) ==
    \E i \in Rows :
        /\ AtRow(w, i)
        /\ broker' = Sent(i)
        /\ tick' = MarkDispatched(w, i)
        /\ UNCHANGED <<table, adrift, faults>>

\* The message of row i is with the client or on its way, and the tick that
\* waits for its confirm ends without it.
CutOff(i) == adrift' = adrift \cup {[row |-> i, fault |-> faults + 1]}

\* Mistaken variant: the tick goes on with the rows behind the failed one.
GoOn(w, i) == [tick EXCEPT ![w].claimed = @ \ {i}]

\* Mistaken variant: the failed row is marked dispatched with the others.
BreakMarked(w, i) == [tick EXCEPT ![w].phase = "closing", ![w].done = @ \cup {i}]

\* After a failed publish, which markFailed counts: the rows marked so far still
\* commit, the rows behind it are left.
Break(w, i) == [tick EXCEPT ![w].phase = "closing"]

\* A publish that fails may have reached the broker all the same, or reach it
\* yet.
PublishFails(w) ==
    \E i \in Rows :
        /\ faults < MaxFaults
        /\ AtRow(w, i)
        /\ \/ broker' \in {broker, Sent(i)} /\ UNCHANGED adrift
           \/ CutOff(i) /\ UNCHANGED broker
        /\ tick' = Break(w, i)
        /\ faults' = faults + 1
        /\ UNCHANGED table

Commit(w) ==
    /\ \/ tick[w].phase = "closing"
       \/ tick[w].phase = "publishing" /\ ToPublish(w) = {}
    /\ table' = [i \in Rows |-> IF i \in tick[w].done
                                THEN [table[i] EXCEPT !.state = "dispatched"]
                                ELSE table[i]]
    /\ tick' = [tick EXCEPT ![w] = NoTick]
    /\ UNCHANGED <<broker, adrift, faults>>

\* Mistaken variant: after an error the transaction is left open and the
\* job in `running`.
TickFailsForGood(w) ==
    /\ faults < MaxFaults
    /\ tick[w].phase # "idle"
    /\ tick' = [tick EXCEPT ![w].phase = "failed"]
    /\ faults' = faults + 1
    /\ UNCHANGED <<table, broker, adrift>>

\* The tick throws, the database aborts it or the process dies: the marks
\* are rolled back and the locks released; the next tick starts afresh.  If
\* its database session died while it waited for a confirm, it did not know,
\* and its message goes out all the same.
TickFails(w) ==
    /\ faults < MaxFaults
    /\ tick[w].phase # "idle"
    /\ UNCHANGED adrift \/ \E i \in Rows : AtRow(w, i) /\ CutOff(i)
    /\ tick' = [tick EXCEPT ![w] = NoTick]
    /\ faults' = faults + 1
    /\ UNCHANGED <<table, broker>>

\* A message that was cut off from its tick reaches the broker, whatever has
\* become of its row by now.  It may as well be lost.
Arrives ==
    \E m \in adrift :
        /\ broker' = Sent(m.row)
        /\ adrift' = adrift \ {m}
        /\ UNCHANGED <<table, tick, faults>>

Next == \/ Insert
        \/ \E i \in Rows : EndInsert(i)
        \/ \E w \in Workers : ClaimBatch(w) \/ Publish(w) \/ PublishFails(w)
              \/ Commit(w) \/ TickFails(w)
        \/ Arrives

Spec == Init /\ [][Next]_vars

\* cron fires every tick, and a tick that is not interrupted runs to its end.
\* The faults are finitely many: the broker comes back.
Fairness == \A w \in Workers :
    WF_vars(ClaimBatch(w)) /\ WF_vars(Publish(w)) /\ WF_vars(Commit(w))

FairSpec == Spec /\ Fairness

-----------------------------------------------------------------------------
(* Properties *)

\* A row is stamped dispatched_at only after the broker got it, whichever
\* publishes and ticks failed before.
DispatchedIsPublished ==
    \A i \in Rows : table[i].state = "dispatched"
        => \E k \in 1..Len(broker) : broker[k] = i

\* The broker never hears of a transaction that rolled back or is still open.
PublishedIsCommitted ==
    \A k \in 1..Len(broker) : broker[k] \in Committed

\* Concurrent workers do not repeat each other: once dispatched_at is
\* committed nobody publishes the row again.  The broker may get it once more
\* from a tick that had failed before: its message was under way.
DispatchedIsOver ==
    [][\A k \in Len(broker) + 1 .. Len(broker') :
          table[broker'[k]].state = "dispatched"
              => \E m \in adrift \ adrift' : m.row = broker'[k]]_vars

\* An event overtakes no more of the events that were committed before it was
\* inserted than the other workers can have in their batches, however
\* transactions overlap and ticks and publishes fail: none at all with one
\* worker.
OvertakingIsBounded ==
    \A k \in 1..Len(broker) :
        Cardinality({i \in table[broker[k]].before :
                        \A l \in 1..(k - 1) : broker[l] # i})
            <= BatchSize * (Cardinality(Workers) - 1)

\* Again and again nothing is left to dispatch: no committed event is starved
\* behind a failing one or left locked by a tick that failed.  (Within MaxRows;
\* with new events all the time a worker need not catch up.)
EveryEventDispatched == []<>(Pending = {})

\* The table, the workers and the broker together are an EventStream.
Stream == INSTANCE EventStream
    WITH Events    <- Ids,
         announced <- Committed,
         delivered <- {broker[k] : k \in 1..Len(broker)}

IsStream == Stream!FairSpec

=============================================================================
