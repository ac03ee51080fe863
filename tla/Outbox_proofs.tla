--------------------------- MODULE Outbox_proofs ---------------------------
(***************************************************************************)
(* The safety of Outbox for any number of workers, rows and faults, and    *)
(* that it implements EventStream (fairness apart).                        *)
(***************************************************************************)
EXTENDS Outbox, SequenceTheorems, FiniteSetTheorems, TLAPS

Published(i) == \E k \in 1..Len(broker) : broker[k] = i

\* A tick works on committed rows of its own, and marks what it published.
TicksAreSound ==
    /\ \A w \in Workers :
          /\ tick[w].claimed \subseteq Pending
          /\ tick[w].done \subseteq tick[w].claimed
          /\ \A i \in tick[w].done : Published(i)
          /\ tick[w].phase = "idle" => tick[w] = NoTick
    /\ \A v, w \in Workers : v # w => tick[v].claimed \cap tick[w].claimed = {}

\* What a tick that has ended left under way is committed.
AdriftIsCommitted == \A m \in adrift : m.row \in Committed

\* The inductive invariant.
IInv == /\ TypeOK
        /\ TicksAreSound
        /\ AdriftIsCommitted
        /\ DispatchedIsPublished
        /\ PublishedIsCommitted

-----------------------------------------------------------------------------

\* Nothing is inserted, claimed or published at the start.
LEMMA InitIInv == Init => IInv
<1> SUFFICES ASSUME Init PROVE IInv
    OBVIOUS
<1> USE ConstantsAssumption DEF Init
<1>1. Len(table) = 0 /\ Len(broker) = 0
  OBVIOUS
<1>2. TypeOK
  BY <1>1 DEF TypeOK, Tick, NoTick, Ids
<1>3. TicksAreSound
  BY DEF TicksAreSound, NoTick
<1> QED
  BY <1>1, <1>2, <1>3
     DEF IInv, AdriftIsCommitted, DispatchedIsPublished, PublishedIsCommitted, Rows

\* One id more at the broker.
LEMMA BrokerAppend ==
    ASSUME TypeOK, NEW i \in Rows, broker' = Append(broker, i)
    PROVE  /\ broker' \in Seq(Rows)
           /\ Len(broker) \in Nat
           /\ Len(broker') = Len(broker) + 1
           /\ \A k \in 1..Len(broker) : broker'[k] = broker[k]
           /\ broker'[Len(broker) + 1] = i
  BY AppendProperties, LenProperties DEF TypeOK, Rows

\* What may reach the broker next: the row a tick is at, and what is adrift.
Underway(i) == (\E w \in Workers : AtRow(w, i)) \/ (\E m \in adrift : m.row = i)

\* All of it is committed.
LEMMA UnderwayIsCommitted ==
    ASSUME IInv, NEW i, Underway(i)
    PROVE  i \in Committed /\ i \in Rows
<1>1. \A w \in Workers : AtRow(w, i) => i \in Committed
  BY DEF AtRow, ToPublish, IInv, TicksAreSound, Pending, Committed
<1>2. \A m \in adrift : m.row = i => i \in Committed
  BY DEF IInv, AdriftIsCommitted
<1> QED
  BY <1>1, <1>2 DEF Underway, Committed

\* The broker gets at most one id more in a step.  It comes from a tick that is
\* at the row or from a message adrift, which is then no longer.
LEMMA BrokerStep ==
    ASSUME IInv, Next
    PROVE  \/ broker' = broker
           \/ \E i \in Rows :
                 /\ broker' = Append(broker, i)
                 /\ table' = table
                 /\ Underway(i)
                 /\ \/ \E w \in Workers : AtRow(w, i)
                    \/ \E m \in adrift : m.row = i /\ adrift' = adrift \ {m}
<1>1. CASE Arrives
  <2>1. PICK m \in adrift : /\ broker' = Append(broker, m.row) /\ table' = table
                            /\ adrift' = adrift \ {m}
    BY <1>1 DEF Arrives, Sent
  <2>2. Underway(m.row)
    BY <2>1 DEF Underway
  <2> QED
    BY <2>1, <2>2, UnderwayIsCommitted
<1>2. ASSUME NEW w \in Workers, Publish(w) \/ PublishFails(w)
      PROVE  \/ broker' = broker
             \/ \E i \in Rows : /\ broker' = Append(broker, i)
                                 /\ table' = table /\ AtRow(w, i)
  BY <1>2 DEF Publish, PublishFails, Sent
<1>3. CASE \E w \in Workers : Publish(w) \/ PublishFails(w)
  BY <1>2, <1>3 DEF Underway
<1> QED
  BY <1>1, <1>3 DEF Next, Insert, EndInsert, ClaimBatch, IsIdle, Commit, TickFails

\* A message comes adrift from a tick that was at its row, and nothing else
\* happens in that step.
LEMMA AdriftStep ==
    ASSUME IInv, Next, NEW m \in adrift'
    PROVE  \/ m \in adrift
           \/ /\ m \in Message
              /\ \E w \in Workers : AtRow(w, m.row)
              /\ table' = table /\ broker' = broker
<1> DEFINE new(i) == [row |-> i, fault |-> faults + 1]
<1>1. Rows \subseteq Ids
  BY LenProperties, ConstantsAssumption DEF IInv, TypeOK, Rows, Ids
<1>2. ASSUME NEW i \in Rows, faults < MaxFaults
      PROVE  new(i) \in Message /\ new(i).row = i
  BY <1>1, <1>2, ConstantsAssumption DEF IInv, TypeOK, Message
<1>3. CASE \E w \in Workers : PublishFails(w)
  <2>1. PICK w \in Workers, i \in Rows :
           /\ faults < MaxFaults /\ AtRow(w, i) /\ table' = table
           /\ \/ adrift' = adrift
              \/ adrift' = adrift \cup {new(i)} /\ broker' = broker
    BY <1>3 DEF PublishFails, CutOff
  <2> QED
    BY <1>2, <2>1
<1>4. CASE \E w \in Workers : TickFails(w)
  <2>1. PICK w \in Workers :
           /\ faults < MaxFaults /\ table' = table /\ broker' = broker
           /\ \/ adrift' = adrift
              \/ \E i \in Rows : AtRow(w, i) /\ adrift' = adrift \cup {new(i)}
    BY <1>4 DEF TickFails, CutOff
  <2> QED
    BY <1>2, <2>1
<1>5. CASE Arrives
  BY <1>5 DEF Arrives
<1> QED
  BY <1>3, <1>4, <1>5 DEF Next, Insert, EndInsert, ClaimBatch, IsIdle, Publish, Commit

\* What the broker has it keeps.
LEMMA PublishedStays ==
    ASSUME IInv, Next
    PROVE  \A i : Published(i) => Published(i)'
<1> SUFFICES ASSUME NEW i, Published(i) PROVE Published(i)'
    OBVIOUS
<1>1. CASE broker' = broker
  BY <1>1 DEF Published
<1>2. ASSUME NEW j \in Rows, broker' = Append(broker, j)
      PROVE  Published(i)'
  BY <1>2, BrokerAppend DEF IInv, Published
<1> QED
  BY <1>1, <1>2, BrokerStep

\* Rows are never removed, and a dispatched or void row stays what it is.
LEMMA TableStep ==
    ASSUME IInv, Next
    PROVE  /\ table' \in Seq(Row)
           /\ Len(table) \in Nat /\ Len(table') \in Nat
           /\ Len(table) <= Len(table') /\ Len(table') <= MaxRows
           /\ \A i \in Rows : /\ i \in Committed => i \in Committed'
                              /\ table[i].state = "dispatched"
                                    => table'[i].state = "dispatched"
           /\ \A i \in Rows' : table'[i].state = "dispatched" =>
                 /\ i \in Rows
                 /\ table[i].state = "dispatched" \/ \E w \in Workers : i \in tick[w].done
<1>a. /\ table \in Seq(Row) /\ Len(table) \in Nat /\ Len(table) <= MaxRows
      /\ MaxRows \in Nat /\ \A i \in Rows : table[i] \in Row
  BY LenProperties, ElementOfSeq, ConstantsAssumption DEF IInv, TypeOK, Rows
<1>1. CASE table' = table
  BY <1>1, <1>a DEF Committed, Rows
<1>2. CASE Insert
  <2>1. [state |-> "open", before |-> Committed] \in Row
    BY <1>a DEF Row, States, Committed, Rows, Ids
  <2>2. /\ table' \in Seq(Row) /\ Len(table') = Len(table) + 1
        /\ \A i \in Rows : table'[i] = table[i]
        /\ table'[Len(table) + 1].state = "open"
    BY <1>2, <1>a, <2>1, AppendProperties DEF Insert, Rows
  <2>3. Len(table') <= MaxRows
    BY <1>2, <1>a, <2>2 DEF Insert
  <2> QED
    BY <1>a, <2>2, <2>3 DEF Committed, Rows
<1>3. ASSUME NEW i \in Rows, EndInsert(i)
      PROVE  /\ table' \in Seq(Row) /\ Len(table') = Len(table)
             /\ table[i].state = "open" /\ table'[i].state \in {"pending", "void"}
             /\ \A j \in Rows \ {i} : table'[j] = table[j]
  <2>1. PICK s \in {"pending", "void"} : table' = [table EXCEPT ![i].state = s]
    BY <1>3 DEF EndInsert
  <2>2. [table[i] EXCEPT !.state = s] \in Row
    BY <1>a, <2>1 DEF Row, States
  <2>3. table' = [table EXCEPT ![i] = [table[i] EXCEPT !.state = s]]
    BY <2>1
  <2>4. table' \in Seq(Row) /\ Len(table') = Len(table)
    BY <1>a, <2>2, <2>3, ExceptSeq DEF Rows
  <2>5. table'[i].state = s /\ \A j \in Rows \ {i} : table'[j] = table[j]
    BY <1>a, <2>3 DEF Rows, Row
  <2> QED
    BY <1>3, <2>1, <2>4, <2>5 DEF EndInsert
<1>4. ASSUME NEW w \in Workers, Commit(w)
      PROVE  /\ table' \in Seq(Row) /\ Len(table') = Len(table)
             /\ \A j \in Rows : table'[j].state = IF j \in tick[w].done
                                   THEN "dispatched" ELSE table[j].state
  <2>1. table' = [j \in Rows |-> IF j \in tick[w].done
                                 THEN [table[j] EXCEPT !.state = "dispatched"]
                                 ELSE table[j]]
    BY <1>4 DEF Commit
  <2>2. \A j \in Rows : /\ table'[j] \in Row
                        /\ table'[j].state = IF j \in tick[w].done
                                THEN "dispatched" ELSE table[j].state
    BY <1>a, <2>1 DEF Row, States
  <2>3. table' \in Seq(Row) /\ Len(table') = Len(table)
    BY <1>a, <2>1, <2>2, IsASeq, LenProperties DEF Rows
  <2> QED
    BY <2>2, <2>3
<1>5. CASE \E i \in Rows : EndInsert(i)
  BY <1>3, <1>5, <1>a DEF Committed, Rows
<1>6. CASE \E w \in Workers : Commit(w)
  BY <1>4, <1>6, <1>a DEF Committed, Rows
<1> QED
  BY <1>1, <1>2, <1>5, <1>6
     DEF Next, ClaimBatch, IsIdle, Publish, PublishFails, MarkDispatched, TickFails,
         Arrives

-----------------------------------------------------------------------------

\* What one step does to the ticks: at most one changes, and it starts on
\* rows nobody holds, marks a row it has just published, or closes.
LEMMA TickStep ==
    ASSUME IInv, Next, NEW w \in Workers
    PROVE  \/ tick'[w] = tick[w] /\ tick[w].claimed \subseteq Pending'
           \/ tick'[w] = NoTick
           \/ /\ tick'[w].claimed \in SUBSET (Pending' \ Locked)
              /\ tick'[w].phase = "publishing" /\ tick'[w].done = {}
              /\ tick'[w] \in Tick
              /\ \A v \in Workers \ {w} : tick'[v] = tick[v]
           \/ /\ tick'[w].claimed = tick[w].claimed
              /\ tick[w].claimed \subseteq Pending'
              /\ tick'[w].phase # "idle"
              /\ tick'[w] \in Tick
              /\ \/ tick'[w].done = tick[w].done
                 \/ \E i \in Rows : /\ tick'[w].done = tick[w].done \cup {i}
                                    /\ i \in tick[w].claimed
                                    /\ Published(i)'
<1>a. /\ tick \in [Workers -> Tick] /\ tick[w].claimed \subseteq Pending
      /\ tick[w].done \subseteq tick[w].claimed
      /\ Len(table) \in Nat /\ Len(table) <= MaxRows /\ MaxRows \in Nat
  BY LenProperties, ConstantsAssumption DEF IInv, TypeOK, TicksAreSound
<1>b. Rows \subseteq Ids
  BY <1>a DEF Rows, Ids
<1>1. CASE table' = table
  <2>1. Pending' = Pending
    BY <1>1 DEF Pending, Rows
  <2>2. CASE tick' = tick
    BY <1>a, <2>1, <2>2
  <2>3. ASSUME NEW v \in Workers, ClaimBatch(v)
        PROVE  \/ tick'[w] = tick[w]
               \/ /\ tick'[w].claimed \in SUBSET (Pending \ Locked)
                  /\ tick'[w].phase = "publishing" /\ tick'[w].done = {}
                  /\ tick'[w] \in Tick
                  /\ \A u \in Workers \ {w} : tick'[u] = tick[u]
    <3>1. PICK batch \in SUBSET Claimable :
             tick' = [tick EXCEPT ![v] = [phase |-> "publishing",
                                          claimed |-> batch, done |-> {}]]
      BY <2>3 DEF ClaimBatch
    <3>2. batch \subseteq Pending \ Locked /\ batch \subseteq Ids
      BY <1>b DEF Claimable, Pending
    <3> QED
      BY <1>a, <3>1, <3>2 DEF Tick
  <2>4. ASSUME NEW v \in Workers, Publish(v)
        PROVE  \/ tick'[w] = tick[w]
               \/ /\ tick'[w].claimed = tick[w].claimed
                  /\ tick'[w].phase # "idle" /\ tick'[w] \in Tick
                  /\ \E i \in Rows : /\ tick'[w].done = tick[w].done \cup {i}
                                     /\ i \in tick[w].claimed
                                     /\ Published(i)'
    <3>1. PICK i \in Rows : /\ AtRow(v, i) /\ broker' = Append(broker, i)
                            /\ tick' = [tick EXCEPT ![v].done = @ \cup {i}]
      BY <2>4 DEF Publish, Sent, MarkDispatched
    <3>2. Published(i)'
      BY <3>1, BrokerAppend DEF IInv, Published
    <3>3. i \in tick[v].claimed /\ tick[v].phase = "publishing" /\ i \in Ids
      BY <1>b, <3>1 DEF AtRow, ToPublish
    <3> QED
      BY <1>a, <3>1, <3>2, <3>3 DEF Tick
  <2>5. ASSUME NEW v \in Workers, PublishFails(v)
        PROVE  \/ tick'[w] = tick[w]
               \/ /\ tick'[w].claimed = tick[w].claimed
                  /\ tick'[w].done = tick[w].done
                  /\ tick'[w].phase # "idle" /\ tick'[w] \in Tick
    BY <2>5, <1>a DEF PublishFails, Sent, Break, Tick
  <2>6. ASSUME NEW v \in Workers, TickFails(v)
        PROVE  tick'[w] = tick[w] \/ tick'[w] = NoTick
    BY <2>6, <1>a DEF TickFails
  <2>7. ASSUME NEW v \in Workers, Commit(v)
        PROVE  tick'[w] = tick[w] \/ tick'[w] = NoTick
    BY <2>7, <1>a DEF Commit
  <2> QED
    BY <1>a, <2>1, <2>2, <2>3, <2>4, <2>5, <2>6, <2>7
       DEF Next, Insert, EndInsert, Arrives
<1>2. CASE Insert
  <2>1. \A i \in Pending : i \in Pending'
    <3>1. [state |-> "open", before |-> Committed] \in Row
      BY <1>b DEF Row, States, Committed
    <3>2. /\ Len(table') = Len(table) + 1
          /\ \A i \in Rows : table'[i] = table[i]
      BY <1>2, <3>1, AppendProperties DEF Insert, Rows, IInv, TypeOK
    <3> QED
      BY <1>a, <3>2 DEF Pending, Rows
  <2> QED
    BY <1>2, <1>a, <2>1 DEF Insert
<1>3. ASSUME NEW i \in Rows, EndInsert(i)
      PROVE  tick'[w] = tick[w] /\ tick[w].claimed \subseteq Pending'
  <2>1. table[i].state = "open" /\ tick' = tick
    BY <1>3 DEF EndInsert
  <2>2. \A j \in Pending : table'[j] = table[j]
    BY <1>3, <2>1 DEF EndInsert, Pending, IInv, TypeOK, Rows
  <2>3. Len(table') = Len(table)
    BY <1>3, <1>a DEF EndInsert, IInv, TypeOK
  <2> QED
    BY <1>a, <2>1, <2>2, <2>3 DEF Pending, Rows
<1>4. ASSUME NEW v \in Workers, Commit(v)
      PROVE  \/ tick'[w] = NoTick
             \/ tick'[w] = tick[w] /\ tick[w].claimed \subseteq Pending'
  <2>1. CASE v = w
    BY <1>4, <1>a, <2>1 DEF Commit
  <2>2. CASE v # w
    <3>1. tick'[w] = tick[w]
      BY <1>4, <1>a, <2>2 DEF Commit
    <3>2. tick[v].claimed \cap tick[w].claimed = {} /\ tick[v].done \subseteq tick[v].claimed
      BY <2>2 DEF IInv, TicksAreSound
    <3>3. table' = [j \in Rows |-> IF j \in tick[v].done
                                   THEN [table[j] EXCEPT !.state = "dispatched"]
                                   ELSE table[j]]
      BY <1>4 DEF Commit
    <3>4. \A j \in tick[w].claimed : j \in Rows /\ table'[j] = table[j]
      BY <1>a, <3>2, <3>3 DEF Pending
    <3>5. Len(table') = Len(table)
      BY <1>a, <3>3, LenProperties DEF Rows
    <3> QED
      BY <1>a, <3>1, <3>4, <3>5 DEF Pending, Rows
  <2> QED
    BY <2>1, <2>2
<1> QED
  BY <1>1, <1>2, <1>3, <1>4
     DEF Next, ClaimBatch, IsIdle, Publish, PublishFails, MarkDispatched, TickFails,
         Arrives

-----------------------------------------------------------------------------

\* Ticks keep working on rows of their own.
LEMMA TicksStep == IInv /\ Next => TicksAreSound' /\ tick' \in [Workers -> Tick]
<1> SUFFICES ASSUME IInv, Next PROVE TicksAreSound' /\ tick' \in [Workers -> Tick]
    OBVIOUS
<1>a. NoTick \in Tick
  BY DEF NoTick, Tick
<1>1. ASSUME NEW w \in Workers
      PROVE  /\ tick'[w].claimed \subseteq Pending'
             /\ tick'[w].done \subseteq tick'[w].claimed
             /\ \A i \in tick'[w].done : Published(i)'
             /\ tick'[w].phase = "idle" => tick'[w] = NoTick
             /\ tick'[w] \in Tick
  <2>1. /\ tick[w] \in Tick
        /\ tick[w].done \subseteq tick[w].claimed
        /\ \A i \in tick[w].done : Published(i)'
        /\ tick[w].phase = "idle" => tick[w] = NoTick
    BY PublishedStays DEF IInv, TypeOK, TicksAreSound
  <2> QED
    BY <1>a, <2>1, TickStep DEF NoTick
<1>2. ASSUME NEW v \in Workers, NEW w \in Workers, v # w
      PROVE  tick'[v].claimed \cap tick'[w].claimed = {}
  <2>1. tick[v].claimed \cap tick[w].claimed = {}
    BY <1>2 DEF IInv, TicksAreSound
  <2>2. tick[v].claimed \subseteq Locked /\ tick[w].claimed \subseteq Locked
    BY DEF Locked
  <2>3. ASSUME NEW u \in Workers
        PROVE  \/ tick'[u].claimed = {}
               \/ tick'[u].claimed = tick[u].claimed
               \/ /\ tick'[u].claimed \cap Locked = {}
                  /\ \A x \in Workers \ {u} : tick'[x] = tick[x]
    BY TickStep DEF NoTick
  <2> QED
    BY <1>2, <2>1, <2>2, <2>3
<1>3. tick' \in [Workers -> Tick]
  <2>1. tick' = [w \in Workers |-> tick'[w]]
    <3>1. tick \in [Workers -> Tick]
      BY DEF IInv, TypeOK
    <3> QED
      BY <3>1 DEF Next, Insert, EndInsert, ClaimBatch, IsIdle, Publish, PublishFails,
         MarkDispatched, Break, Commit, TickFails, Arrives
  <2> QED
    BY <1>1, <2>1
<1> QED
  BY <1>1, <1>2, <1>3 DEF TicksAreSound

\* The type invariant, apart from the ticks.
LEMMA TypeStep == IInv /\ Next => TypeOK'
<1> SUFFICES ASSUME IInv, Next PROVE TypeOK'
    OBVIOUS
<1>1. /\ table' \in Seq(Row) /\ Len(table') <= MaxRows
      /\ Len(table) \in Nat /\ Len(table') \in Nat /\ Len(table) <= Len(table')
  BY TableStep
<1>2. broker' \in Seq(1..Len(table'))
  <2>1. broker' \in Seq(Rows)
    <3>1. CASE broker' = broker
      BY <3>1 DEF IInv, TypeOK, Rows
    <3>2. CASE \E i \in Rows : broker' = Append(broker, i)
      BY <3>2, BrokerAppend DEF IInv
    <3> QED
      BY <3>1, <3>2, BrokerStep
  <2>2. Rows \subseteq 1..Len(table')
    BY <1>1 DEF Rows
  <2> QED
    BY <2>1, <2>2, SeqMonotonic
<1>3. faults' \in 0..MaxFaults
  BY ConstantsAssumption DEF IInv, TypeOK, Next, Insert, EndInsert, ClaimBatch, IsIdle,
     Publish, PublishFails, MarkDispatched, Commit, TickFails, Arrives
<1>4. adrift' \subseteq Message
  BY AdriftStep DEF IInv, TypeOK
<1> QED
  BY <1>1, <1>2, <1>3, <1>4, TicksStep DEF TypeOK

\* IInv is inductive.
LEMMA StepIInv == IInv /\ [Next]_vars => IInv'
<1> SUFFICES ASSUME IInv, [Next]_vars PROVE IInv'
    OBVIOUS
<1>1. CASE Next
  <2>1. DispatchedIsPublished'
    <3> SUFFICES ASSUME NEW i \in Rows', table'[i].state = "dispatched"
                 PROVE  Published(i)'
        BY DEF DispatchedIsPublished, Published
    <3>1. Published(i)
      BY <1>1, TableStep DEF IInv, DispatchedIsPublished, TicksAreSound, Published
    <3> QED
      BY <1>1, <3>1, PublishedStays
  <2>2. PublishedIsCommitted'
    <3> SUFFICES ASSUME NEW k \in 1..Len(broker') PROVE broker'[k] \in Committed'
        BY DEF PublishedIsCommitted
    <3>1. CASE broker' = broker
      <4>1. broker[k] \in Committed /\ broker[k] \in Rows
        BY <3>1 DEF IInv, PublishedIsCommitted, Committed
      <4> QED
        BY <1>1, <3>1, <4>1, TableStep
    <3>2. ASSUME NEW i \in Rows, Underway(i), broker' = Append(broker, i)
          PROVE  broker'[k] \in Committed'
      <4>1. i \in Committed
        BY <3>2, UnderwayIsCommitted
      <4>2. broker'[k] \in Committed /\ broker'[k] \in Rows
        BY <3>2, <4>1, BrokerAppend DEF IInv, PublishedIsCommitted, Committed
      <4> QED
        BY <1>1, <4>2, TableStep
    <3> QED
      BY <1>1, <3>1, <3>2, BrokerStep
  <2>3. AdriftIsCommitted'
    <3> SUFFICES ASSUME NEW m \in adrift' PROVE m.row \in Committed'
        BY DEF AdriftIsCommitted
    <3>1. Underway(m.row)
      BY <1>1, AdriftStep DEF Underway
    <3> QED
      BY <1>1, <3>1, UnderwayIsCommitted, TableStep
  <2> QED
    BY <1>1, <2>1, <2>2, <2>3, TypeStep, TicksStep DEF IInv
<1>2. CASE UNCHANGED vars
  BY <1>2 DEF vars, IInv, TypeOK, TicksAreSound, AdriftIsCommitted, DispatchedIsPublished,
     PublishedIsCommitted, Published, Pending, Committed, Rows
<1> QED
  BY <1>1, <1>2

\* Every reachable state satisfies the inductive invariant.
LEMMA Invariance == Spec => []IInv
<1> QED
  BY InitIInv, StepIInv, PTL DEF Spec

-----------------------------------------------------------------------------
(* How far an event is overtaken *)

\* The most rows the other workers hold between them.
Others == BatchSize * (Cardinality(Workers) - 1)

\* The rows committed before row r that the broker does not have and that are
\* not in the batch of w.
LeftBehind(w, r) == {i \in table[r].before : ~Published(i) /\ i \notin tick[w].claimed}

\* A row follows rows that were committed when it was inserted.
BeforeIsEarlier ==
    \A r \in Rows : table[r].before \subseteq Committed /\ \A i \in table[r].before : i < r

BatchesAreSmall == \A w \in Workers : Cardinality(tick[w].claimed) <= BatchSize

\* What a batch leaves behind was in the batches of the others when it was
\* claimed; since then it may have been released, but is not more.
BatchesLeaveFewBehind ==
    \A w \in Workers : \A r \in tick[w].claimed : Cardinality(LeftBehind(w, r)) <= Others

\* The rows committed before row r that the broker does not have.
Unheard(r) == {i \in table[r].before : ~Published(i)}

\* A message adrift was at the head of its tick: what it would overtake now is
\* no more than it would have overtaken then.
AdriftOvertakesFew == \A m \in adrift : Cardinality(Unheard(m.row)) <= Others

\* The inductive invariant of overtaking, on top of IInv.
OInv == /\ BeforeIsEarlier
        /\ AdriftOvertakesFew
        /\ BatchesAreSmall
        /\ BatchesLeaveFewBehind
        /\ OvertakingIsBounded

\* Rows keep what they follow, and a new row follows what is committed.
LEMMA BeforeStep ==
    ASSUME IInv, Next
    PROVE  /\ Rows \subseteq Rows'
           /\ \A r \in Rows : table'[r].before = table[r].before
           /\ \A r \in Rows' \ Rows :
                 table'[r].before = Committed /\ \A i \in Committed : i < r
<1>a. /\ table \in Seq(Row) /\ Len(table) \in Nat /\ \A i \in Rows : table[i] \in Row
  BY LenProperties, ElementOfSeq DEF IInv, TypeOK, Rows
<1>1. CASE table' = table
  BY <1>1 DEF Rows
<1>2. CASE Insert
  <2> DEFINE e == [state |-> "open", before |-> Committed]
  <2>1. e \in Row
    <3>1. Committed \subseteq Ids
      BY LenProperties, ConstantsAssumption DEF Committed, Rows, Ids, IInv, TypeOK
    <3> QED
      BY <3>1 DEF Row, States
  <2>2. table' = Append(table, e) /\ e.before = Committed
    BY <1>2 DEF Insert
  <2> HIDE DEF e
  <2>3. /\ Len(table') = Len(table) + 1
        /\ \A i \in Rows : table'[i] = table[i]
        /\ table'[Len(table) + 1] = e
    BY <1>a, <2>1, <2>2, AppendProperties DEF Rows
  <2> QED
    BY <1>a, <2>2, <2>3 DEF Committed, Rows
<1>3. ASSUME NEW i \in Rows, EndInsert(i)
      PROVE  Rows' = Rows /\ \A r \in Rows : table'[r].before = table[r].before
  <2>1. PICK s \in {"pending", "void"} : table' = [table EXCEPT ![i].state = s]
    BY <1>3 DEF EndInsert
  <2>2. Len(table') = Len(table)
    BY <1>a, <2>1
  <2>3. \A r \in Rows : table'[r].before = table[r].before
    BY <1>a, <2>1 DEF Rows, Row
  <2> QED
    BY <2>2, <2>3 DEF Rows
<1>4. ASSUME NEW w \in Workers, Commit(w)
      PROVE  Rows' = Rows /\ \A r \in Rows : table'[r].before = table[r].before
  <2>1. table' = [j \in Rows |-> IF j \in tick[w].done
                                 THEN [table[j] EXCEPT !.state = "dispatched"]
                                 ELSE table[j]]
    BY <1>4 DEF Commit
  <2>2. Len(table') = Len(table)
    BY <1>a, <2>1, LenProperties DEF Rows
  <2>3. \A r \in Rows : table'[r].before = table[r].before
    BY <1>a, <2>1 DEF Row
  <2> QED
    BY <2>2, <2>3 DEF Rows
<1> QED
  BY <1>1, <1>2, <1>3, <1>4
     DEF Next, ClaimBatch, IsIdle, Publish, PublishFails, MarkDispatched, TickFails,
         Arrives

\* A set of at most n elements can be numbered by 1..n.
LEMMA Numbering ==
    ASSUME NEW S, IsFiniteSet(S), NEW n \in Nat, Cardinality(S) <= n
    PROVE  \E f : f \in Injection(S, 1..n)
<1> DEFINE m == Cardinality(S)
<1>1. m \in Nat /\ IsFiniteSet(1..m) /\ Cardinality(1..m) = m
  BY FS_CardinalityType, FS_Interval
<1>2. ExistsBijection(S, 1..m)
  BY <1>1, FS_SameCardinalityBij
<1>3. PICK f : f \in Bijection(S, 1..m)
  BY <1>2 DEF ExistsBijection
<1>4. f \in [S -> 1..m] /\ IsInjective(f)
  BY <1>3 DEF Bijection, Injection
<1>5. 1..m \subseteq 1..n
  BY <1>1
<1>6. f \in [S -> 1..n]
  BY <1>4, <1>5
<1> QED
  BY <1>4, <1>6 DEF Injection

\* The workers but one hold at most as many rows as fit in their batches.
LEMMA OthersHoldFew ==
    ASSUME NEW w \in Workers, NEW held, NEW n \in Nat,
           \A v \in Workers \ {w} : IsFiniteSet(held[v]) /\ Cardinality(held[v]) <= n
    PROVE  LET all == UNION {held[v] : v \in Workers \ {w}}
           IN  IsFiniteSet(all) /\ Cardinality(all) <= n * (Cardinality(Workers) - 1)
<1> DEFINE W == Workers \ {w}
           all == UNION {held[v] : v \in W}
           owner == [i \in all |-> CHOOSE v \in W : i \in held[v]]
           number == [v \in W |-> CHOOSE f : f \in Injection(held[v], 1..n)]
           place == [i \in all |-> <<owner[i], number[owner[i]][i]>>]
<1>1. \A v \in W : number[v] \in Injection(held[v], 1..n)
  BY Numbering
<1>2. ASSUME NEW i \in all PROVE owner[i] \in W /\ i \in held[owner[i]]
  <2>1. \E v \in W : i \in held[v]
    OBVIOUS
  <2>2. owner[i] = CHOOSE v \in W : i \in held[v]
    OBVIOUS
  <2> HIDE DEF W, owner
  <2> QED
    BY <2>1, <2>2
<1>3. /\ IsFiniteSet(W) /\ Cardinality(W) = Cardinality(Workers) - 1
      /\ IsFiniteSet(1..n) /\ Cardinality(1..n) = n
      /\ Cardinality(Workers) \in Nat
  <2>1. IsFiniteSet(Workers) /\ Cardinality(Workers) \in Nat
    BY ConstantsAssumption, FS_CardinalityType
  <2>2. IsFiniteSet(1..n) /\ Cardinality(1..n) = n
    BY FS_Interval
  <2>3. IsFiniteSet(W) /\ Cardinality(W) = Cardinality(Workers) - 1
    BY <2>1, FS_RemoveElement
  <2> HIDE DEF W
  <2> QED
    BY <2>1, <2>2, <2>3
<1> HIDE DEF W, owner, number
<1>4. place \in [all -> W \X (1..n)]
  <2>1. ASSUME NEW i \in all PROVE place[i] \in W \X (1..n)
    <3>1. PICK v \in W : v = owner[i]
      BY <1>2, <2>1
    <3>2. number[v] \in [held[v] -> 1..n] /\ i \in held[v]
      BY <1>1, <1>2, <3>1 DEF Injection
    <3> QED
      BY <3>1, <3>2
  <2> QED
    BY <2>1
<1>5. \A i, j \in all : place[i] = place[j] => i = j
  <2> SUFFICES ASSUME NEW i \in all, NEW j \in all, place[i] = place[j]
               PROVE  i = j
    OBVIOUS
  <2>1. owner[i] = owner[j] /\ number[owner[i]][i] = number[owner[i]][j]
    OBVIOUS
  <2>2. i \in held[owner[i]] /\ j \in held[owner[i]] /\ owner[i] \in W
    BY <1>2, <2>1
  <2>3. PICK f : f = number[owner[i]]
    OBVIOUS
  <2>4. DOMAIN f = held[owner[i]] /\ IsInjective(f)
    BY <1>1, <2>2, <2>3 DEF Injection
  <2> QED
    BY <2>1, <2>2, <2>3, <2>4 DEF IsInjective
<1>6. place \in Injection(all, W \X (1..n))
  BY <1>4, <1>5 DEF Injection, IsInjective
<1>7. /\ IsFiniteSet(W \X (1..n))
      /\ Cardinality(W \X (1..n)) = Cardinality(W) * Cardinality(1..n)
  BY <1>3, FS_Product
<1> HIDE DEF all, place
<1>8. IsFiniteSet(all) /\ Cardinality(all) <= Cardinality(W \X (1..n))
  BY <1>6, <1>7, FS_Injection
<1>9. Cardinality(W \X (1..n)) = (Cardinality(Workers) - 1) * n
  BY <1>3, <1>7
<1>10. (Cardinality(Workers) - 1) * n = n * (Cardinality(Workers) - 1)
  BY <1>3
<1> QED
  BY <1>8, <1>9, <1>10 DEF all, W

\* A batch has at most BatchSize rows.
LEMMA BatchIsSmall ==
    ASSUME NEW C, IsFiniteSet(C), C \subseteq Nat, NEW n \in Nat \ {0}
    PROVE  Cardinality({i \in C : Cardinality({j \in C : j < i}) < n}) <= n
<1> DEFINE below(i) == {j \in C : j < i}
           batch == {i \in C : Cardinality(below(i)) < n}
           rank == [i \in batch |-> Cardinality(below(i))]
<1>1. \A i \in C : IsFiniteSet(below(i)) /\ Cardinality(below(i)) \in Nat
  BY FS_Subset, FS_CardinalityType
<1>2. ASSUME NEW i \in batch, NEW j \in batch, i < j
      PROVE  rank[i] # rank[j]
  <2>1. i \in C /\ j \in C /\ \A k \in C : k \in Nat
    OBVIOUS
  <2>2. PICK A, B : A = below(i) /\ B = below(j)
    OBVIOUS
  <2>3. IsFiniteSet(B) /\ A \in SUBSET B /\ A # B
    <3>1. IsFiniteSet(below(j))
      BY <1>1, <2>1
    <3>2. \A k : (k \in A <=> k \in C /\ k < i) /\ (k \in B <=> k \in C /\ k < j)
      BY <2>2
    <3> HIDE DEF below, batch, rank
    <3>3. ASSUME NEW k \in A PROVE k \in B
      <4>1. k \in C /\ k \in Nat /\ k < i /\ i \in Nat /\ j \in Nat
        BY <2>1, <3>2, <3>3
      <4>2. k < j
        BY <1>2, <4>1
      <4> QED
        BY <3>2, <4>1, <4>2
    <3>4. i \in B /\ i \notin A
      BY <1>2, <2>1, <3>2
    <3> QED
      BY <2>2, <3>1, <3>3, <3>4
  <2>4. Cardinality(A) # Cardinality(B)
    BY <2>3, FS_Subset
  <2>5. rank[i] = Cardinality(A) /\ rank[j] = Cardinality(B)
    BY <2>2
  <2> QED
    BY <2>4, <2>5
<1>3. rank \in [batch -> 0..(n - 1)]
  <2>1. ASSUME NEW i \in batch PROVE Cardinality(below(i)) \in 0..(n - 1)
    <3>1. i \in C /\ Cardinality(below(i)) < n
      OBVIOUS
    <3>2. PICK c \in Nat : c = Cardinality(below(i))
      BY <1>1, <3>1
    <3> QED
      BY <3>1, <3>2
  <2> HIDE DEF batch, below
  <2> QED
    BY <2>1
<1>4. \A i, j \in batch : rank[i] = rank[j] => i = j
  <2>1. \A i, j \in batch : i \in Nat /\ j \in Nat
    OBVIOUS
  <2> HIDE DEF rank, batch
  <2> QED
    BY <1>2, <2>1
<1> HIDE DEF rank, batch
<1>5. rank \in Injection(batch, 0..(n - 1))
  BY <1>3, <1>4 DEF Injection, IsInjective
<1>6. IsFiniteSet(0..(n - 1)) /\ Cardinality(0..(n - 1)) = n
  BY FS_Interval
<1>7. Cardinality(batch) <= n
  BY <1>5, <1>6, FS_Injection
<1> QED
  BY <1>7 DEF batch

\* What a claim does, apart from the phase: it takes the least claimable rows.
LEMMA ClaimStep ==
    ASSUME IInv, NEW w \in Workers, ClaimBatch(w)
    PROVE  /\ tick[w].claimed = {} /\ UNCHANGED <<table, broker>>
           /\ \A v \in Workers \ {w} : tick'[v] = tick[v]
           /\ tick'[w].claimed = {i \in Claimable :
                                     Cardinality({j \in Claimable : j < i}) < BatchSize}
           /\ IsFiniteSet(Claimable) /\ Claimable \subseteq Rows
<1>1. tick \in [Workers -> Tick] /\ tick[w] = NoTick /\ UNCHANGED <<table, broker>>
  BY DEF ClaimBatch, IsIdle, IInv, TypeOK, TicksAreSound
<1>2. Claimable \subseteq Rows
  BY DEF Claimable, Pending
<1>3. IsFiniteSet(Rows)
  BY LenProperties, FS_Interval DEF Rows, IInv, TypeOK
<1>4. PICK batch : /\ batch = {i \in Claimable :
                                 Cardinality({j \in Claimable : j < i}) < BatchSize}
                   /\ tick' = [tick EXCEPT ![w] = [phase |-> "publishing",
                                                   claimed |-> batch, done |-> {}]]
  BY DEF ClaimBatch
<1>5. tick'[w].claimed = batch /\ \A v \in Workers \ {w} : tick'[v] = tick[v]
  BY <1>1, <1>4
<1> QED
  BY <1>1, <1>2, <1>3, <1>4, <1>5, FS_Subset DEF NoTick

\* The rows of a batch are finitely many, and so are those before a row.
LEMMA Finite ==
    ASSUME IInv
    PROVE  /\ IsFiniteSet(Ids)
           /\ \A w \in Workers : tick[w].claimed \subseteq Ids
           /\ \A r \in Rows : table[r].before \subseteq Ids
<1>1. IsFiniteSet(Ids)
  BY ConstantsAssumption, FS_Interval DEF Ids
<1>2. \A w \in Workers : tick[w] \in Tick
  BY DEF IInv, TypeOK
<1>3. \A r \in Rows : table[r] \in Row
  BY ElementOfSeq DEF IInv, TypeOK, Rows
<1> QED
  BY <1>1, <1>2, <1>3 DEF Tick, Row

\* The batches of the workers but one hold few rows.
LEMMA OthersBound ==
    ASSUME IInv, OInv, NEW w \in Workers
    PROVE  LET all == UNION {tick[v].claimed : v \in Workers \ {w}}
           IN  IsFiniteSet(all) /\ Cardinality(all) <= Others
<1> DEFINE held == [v \in Workers |-> tick[v].claimed]
           all == UNION {held[v] : v \in Workers \ {w}}
<1>1. \A v \in Workers \ {w} : IsFiniteSet(held[v]) /\ Cardinality(held[v]) <= BatchSize
  BY Finite, FS_Subset DEF OInv, BatchesAreSmall
<1>2. BatchSize \in Nat
  BY ConstantsAssumption
<1>3. {held[v] : v \in Workers \ {w}} = {tick[v].claimed : v \in Workers \ {w}}
  OBVIOUS
<1>4. /\ IsFiniteSet(all)
      /\ Cardinality(all) <= BatchSize * (Cardinality(Workers) - 1)
  <2> HIDE DEF held
  <2> QED
    BY <1>1, <1>2, OthersHoldFew
<1> HIDE DEF held
<1> QED
  BY <1>3, <1>4 DEF Others

\* A batch keeps its rows until it is given up, or it is just claimed.
LEMMA ClaimedStep ==
    ASSUME IInv, Next, NEW w \in Workers
    PROVE  \/ tick'[w].claimed = tick[w].claimed
           \/ tick'[w].claimed = {}
           \/ ClaimBatch(w)
<1>1. tick \in [Workers -> Tick]
  BY DEF IInv, TypeOK
<1>2. ASSUME NEW v \in Workers, ClaimBatch(v), v # w
      PROVE  tick'[w] = tick[w]
  BY <1>1, <1>2 DEF ClaimBatch
<1>3. ASSUME NEW v \in Workers, Commit(v) \/ TickFails(v)
      PROVE  tick'[w].claimed = tick[w].claimed \/ tick'[w].claimed = {}
  BY <1>1, <1>3 DEF Commit, TickFails, NoTick
<1>4. ASSUME NEW v \in Workers, Publish(v) \/ PublishFails(v)
      PROVE  tick'[w].claimed = tick[w].claimed
  BY <1>1, <1>4 DEF Publish, PublishFails, MarkDispatched, Break, Tick
<1>5. CASE Insert \/ Arrives \/ \E i \in Rows : EndInsert(i)
  BY <1>5 DEF Insert, EndInsert, Arrives
<1> QED
  BY <1>2, <1>3, <1>4, <1>5 DEF Next

\* Whatever a claim leaves behind, others have.
LEMMA ClaimLeavesFewBehind ==
    ASSUME IInv, OInv, NEW w \in Workers, ClaimBatch(w), NEW r \in tick'[w].claimed
    PROVE  Cardinality(LeftBehind(w, r)') <= Others
<1> DEFINE all == UNION {tick[v].claimed : v \in Workers \ {w}}
<1>1. /\ tick[w].claimed = {} /\ table' = table /\ broker' = broker
      /\ tick'[w].claimed = {i \in Claimable :
                                Cardinality({j \in Claimable : j < i}) < BatchSize}
      /\ IsFiniteSet(Claimable) /\ Claimable \subseteq Rows
  BY ClaimStep
<1>2. r \in Claimable /\ r \in Rows /\ Cardinality({j \in Claimable : j < r}) < BatchSize
  BY <1>1
<1>3. ASSUME NEW i \in LeftBehind(w, r)'
      PROVE  i \in all
  <2>1. i \in table[r].before /\ ~Published(i) /\ i \notin tick'[w].claimed
    BY <1>1 DEF LeftBehind, Published
  <2>2. i \in Committed /\ i < r
    BY <1>2, <2>1 DEF OInv, BeforeIsEarlier
  <2>3. i \in Pending
    BY <2>1, <2>2 DEF IInv, DispatchedIsPublished, Published, Committed, Pending
  <2>4. i \notin Claimable
    <3> SUFFICES ASSUME i \in Claimable PROVE FALSE
      OBVIOUS
    <3> DEFINE A == {j \in Claimable : j < i}
               B == {j \in Claimable : j < r}
    <3>1. \A j \in Claimable : j \in Nat
      BY <1>1 DEF Rows
    <3>2. A \in SUBSET B
      BY <1>2, <2>2, <3>1
    <3>3. IsFiniteSet(B) /\ IsFiniteSet(A)
      BY <1>1, FS_Subset
    <3> HIDE DEF A, B
    <3>4. Cardinality(A) <= Cardinality(B) /\ Cardinality(A) \in Nat /\ Cardinality(B) \in Nat
      BY <3>2, <3>3, FS_Subset, FS_CardinalityType
    <3>5. Cardinality(A) < BatchSize
      BY <1>2, <3>4, ConstantsAssumption DEF B
    <3> QED
      BY <1>1, <2>1, <3>5 DEF A
  <2>5. i \in Locked
    BY <2>3, <2>4 DEF Claimable
  <2> QED
    BY <1>1, <2>5 DEF Locked
<1>4. IsFiniteSet(all) /\ Cardinality(all) <= Others
  BY OthersBound
<1> HIDE DEF all
<1>5. LeftBehind(w, r)' \in SUBSET all
  BY <1>3
<1>6. PICK A : A = LeftBehind(w, r)'
  OBVIOUS
<1>7. /\ Cardinality(A) <= Cardinality(all)
      /\ Cardinality(A) \in Nat /\ Cardinality(all) \in Nat
  BY <1>4, <1>5, <1>6, FS_Subset, FS_CardinalityType
<1>8. Others \in Int
  BY ConstantsAssumption, FS_CardinalityType DEF Others
<1> QED
  BY <1>4, <1>6, <1>7, <1>8

\* A batch in progress leaves no more behind than it did.
LEMMA LeftBehindShrinks ==
    ASSUME IInv, OInv, Next, NEW w \in Workers, tick'[w].claimed = tick[w].claimed,
           NEW r \in tick[w].claimed
    PROVE  Cardinality(LeftBehind(w, r)') <= Others
<1>1. r \in Rows
  BY DEF IInv, TicksAreSound, Pending
<1>2. table'[r].before = table[r].before
  BY <1>1, BeforeStep
<1>3. LeftBehind(w, r)' \subseteq LeftBehind(w, r)
  BY <1>2, PublishedStays DEF LeftBehind
<1>4. IsFiniteSet(LeftBehind(w, r))
  <2>1. LeftBehind(w, r) \in SUBSET Ids
    BY <1>1, Finite DEF LeftBehind
  <2> QED
    BY <2>1, Finite, FS_Subset
<1>5. PICK A, B : A = LeftBehind(w, r)' /\ B = LeftBehind(w, r)
  OBVIOUS
<1>6. /\ Cardinality(A) <= Cardinality(B)
      /\ Cardinality(A) \in Nat /\ Cardinality(B) \in Nat
  BY <1>3, <1>4, <1>5, FS_Subset, FS_CardinalityType
<1>7. Cardinality(B) <= Others
  BY <1>5 DEF OInv, BatchesLeaveFewBehind
<1>8. Others \in Int
  BY ConstantsAssumption, FS_CardinalityType DEF Others
<1> QED
  BY <1>5, <1>6, <1>7, <1>8

\* A row is published when everything of its batch before it is.
LEMMA PublishOvertakesFew ==
    ASSUME IInv, OInv, NEW w \in Workers, NEW r \in Rows, AtRow(w, r)
    PROVE  Cardinality(Unheard(r)) <= Others
<1>1. r \in tick[w].claimed /\ \A j \in tick[w].claimed \ tick[w].done : r <= j
  BY DEF AtRow, ToPublish
<1>2. \A i \in table[r].before : i < r /\ i \in Nat
  BY DEF OInv, BeforeIsEarlier, Committed, Rows
<1>3. \A i \in table[r].before : ~Published(i) => i \notin tick[w].claimed
  <2> SUFFICES ASSUME NEW i \in table[r].before, i \in tick[w].claimed
               PROVE  Published(i)
    OBVIOUS
  <2>1. r \in Nat /\ i < r /\ i \in Nat
    BY <1>2 DEF Rows
  <2>2. i \in tick[w].done
    BY <1>1, <2>1
  <2> QED
    BY <2>2 DEF IInv, TicksAreSound
<1>4. Unheard(r) = LeftBehind(w, r)
  BY <1>3 DEF LeftBehind, Unheard
<1> QED
  BY <1>1, <1>4 DEF OInv, BatchesLeaveFewBehind

\* So does a message that comes late.
LEMMA UnderwayOvertakesFew ==
    ASSUME IInv, OInv, NEW r \in Rows, Underway(r)
    PROVE  Cardinality(Unheard(r)) <= Others
  BY PublishOvertakesFew DEF Underway, OInv, AdriftOvertakesFew

\* What is committed before a row is soon heard of, and no more is added to it.
LEMMA UnheardShrinks ==
    ASSUME IInv, Next, NEW r \in Rows, Cardinality(Unheard(r)) <= Others
    PROVE  Cardinality(Unheard(r)') <= Others
<1>1. Unheard(r)' \subseteq Unheard(r)
  BY BeforeStep, PublishedStays DEF Unheard
<1>2. IsFiniteSet(Unheard(r))
  <2>1. Unheard(r) \in SUBSET Ids
    BY Finite DEF Unheard
  <2> QED
    BY <2>1, Finite, FS_Subset
<1>3. PICK A, B : A = Unheard(r)' /\ B = Unheard(r)
  OBVIOUS
<1>4. /\ Cardinality(A) <= Cardinality(B)
      /\ Cardinality(A) \in Nat /\ Cardinality(B) \in Nat
  BY <1>1, <1>2, <1>3, FS_Subset, FS_CardinalityType
<1>5. Others \in Int
  BY ConstantsAssumption, FS_CardinalityType DEF Others
<1> QED
  BY <1>3, <1>4, <1>5

\* The messages adrift go on overtaking few.
LEMMA AdriftOvertakesFewStep == IInv /\ OInv /\ Next => AdriftOvertakesFew'
<1> SUFFICES ASSUME IInv, OInv, Next, NEW m \in adrift'
             PROVE  Cardinality(Unheard(m.row)') <= Others
    BY DEF AdriftOvertakesFew, Others
<1>1. Underway(m.row)
  BY AdriftStep DEF Underway
<1> QED
  BY <1>1, UnderwayIsCommitted, UnderwayOvertakesFew, UnheardShrinks

\* Whether an id is new to the broker at its k-th message.
Overtaken(k) == {i \in table[broker[k]].before : \A l \in 1..(k - 1) : broker[l] # i}

\* What the broker has stays in its place and overtook what it overtook.
LEMMA OvertakenStep ==
    ASSUME IInv, OInv, Next
    PROVE  \A k \in 1..Len(broker') : Cardinality(Overtaken(k)') <= Others
<1> TAKE k \in 1..Len(broker')
<1>a. /\ Len(broker) \in Nat /\ \A j \in 1..Len(broker) : broker[j] \in Rows
      /\ \A j \in 1..Len(broker) : Cardinality(Overtaken(j)) <= Others
  BY LenProperties, ElementOfSeq DEF IInv, TypeOK, Rows, OInv, OvertakingIsBounded, Overtaken, Others
<1>1. ASSUME k \in 1..Len(broker), \A j \in 1..Len(broker) : broker'[j] = broker[j]
      PROVE  Overtaken(k)' = Overtaken(k)
  <2>1. broker'[k] = broker[k] /\ broker[k] \in Rows
    BY <1>1, <1>a
  <2>2. table'[broker'[k]].before = table[broker[k]].before
    BY <2>1, BeforeStep
  <2>3. \A l \in 1..(k - 1) : broker'[l] = broker[l]
    BY <1>1, <1>a
  <2> QED
    BY <2>2, <2>3 DEF Overtaken
<1>2. CASE broker' = broker
  BY <1>1, <1>2, <1>a
<1>3. ASSUME NEW r \in Rows, Underway(r), broker' = Append(broker, r), table' = table
      PROVE  Cardinality(Overtaken(k)') <= Others
  <2>1. /\ Len(broker') = Len(broker) + 1
        /\ \A j \in 1..Len(broker) : broker'[j] = broker[j]
        /\ broker'[Len(broker) + 1] = r
    BY <1>3, BrokerAppend DEF IInv
  <2>2. CASE k \in 1..Len(broker)
    BY <1>1, <1>a, <2>1, <2>2
  <2>3. CASE k = Len(broker) + 1
    <3>1. /\ broker'[k] = r /\ table'[r] = table[r] /\ k - 1 = Len(broker)
      BY <1>3, <1>a, <2>1, <2>3
    <3>2. \A i : (\A l \in 1..(k - 1) : broker'[l] # i) <=> ~Published(i)
      BY <2>1, <3>1 DEF Published
    <3>3. Overtaken(k)' = Unheard(r)
      BY <3>1, <3>2 DEF Overtaken, Unheard
    <3> QED
      BY <1>3, <3>3, UnderwayOvertakesFew
  <2> QED
    BY <1>a, <2>1, <2>2, <2>3
<1> QED
  BY <1>2, <1>3, BrokerStep

\* OInv holds at the start.
LEMMA InitOInv == Init => OInv
<1> SUFFICES ASSUME Init PROVE OInv
    OBVIOUS
<1>1. /\ BeforeIsEarlier /\ AdriftOvertakesFew
      /\ BatchesLeaveFewBehind /\ OvertakingIsBounded
  BY DEF Init, BeforeIsEarlier, AdriftOvertakesFew, BatchesLeaveFewBehind,
         OvertakingIsBounded, Rows, NoTick
<1>2. BatchesAreSmall
  <2>1. \A w \in Workers : tick[w].claimed = {}
    BY DEF Init, NoTick
  <2>2. Cardinality({}) <= BatchSize
    BY FS_EmptySet, ConstantsAssumption
  <2> QED
    BY <2>1, <2>2 DEF BatchesAreSmall
<1> QED
  BY <1>1, <1>2 DEF OInv

\* OInv is inductive beside IInv.
LEMMA StepOInv == IInv /\ OInv /\ [Next]_vars => OInv'
<1> SUFFICES ASSUME IInv, OInv, [Next]_vars PROVE OInv'
    OBVIOUS
<1>1. CASE Next
  <2>1. BeforeIsEarlier'
    <3> SUFFICES ASSUME NEW r \in Rows'
                 PROVE  table'[r].before \subseteq Committed' /\ \A i \in table'[r].before : i < r
      BY DEF BeforeIsEarlier
    <3>1. Committed \subseteq Committed'
      BY <1>1, TableStep DEF Committed
    <3>2. CASE r \in Rows
      BY <1>1, <3>1, <3>2, BeforeStep DEF OInv, BeforeIsEarlier
    <3>3. CASE r \notin Rows
      BY <1>1, <3>1, <3>3, BeforeStep
    <3> QED
      BY <3>2, <3>3
  <2>2. BatchesAreSmall'
    <3> SUFFICES ASSUME NEW w \in Workers
                 PROVE  Cardinality(tick'[w].claimed) <= BatchSize
      BY DEF BatchesAreSmall
    <3>1. CASE ClaimBatch(w)
      <4>1. IsFiniteSet(Claimable) /\ Claimable \subseteq Rows
        BY <3>1, ClaimStep
      <4>2. Claimable \subseteq Nat
        BY <4>1 DEF Rows
      <4>3. Cardinality({i \in Claimable : Cardinality({j \in Claimable : j < i})
                                             < BatchSize}) <= BatchSize
        BY <4>1, <4>2, BatchIsSmall, ConstantsAssumption
      <4> QED
        BY <3>1, <4>3, ClaimStep
    <3>2. CASE tick'[w].claimed = {}
      BY <3>2, FS_EmptySet, ConstantsAssumption
    <3>3. CASE tick'[w].claimed = tick[w].claimed
      BY <3>3 DEF OInv, BatchesAreSmall
    <3> QED
      BY <1>1, <3>1, <3>2, <3>3, ClaimedStep
  <2>3. BatchesLeaveFewBehind'
    <3> SUFFICES ASSUME NEW w \in Workers, NEW r \in tick'[w].claimed
                 PROVE  Cardinality(LeftBehind(w, r)') <= Others
      BY DEF BatchesLeaveFewBehind, Others
    <3> QED
      BY <1>1, ClaimedStep, ClaimLeavesFewBehind, LeftBehindShrinks
  <2>4. OvertakingIsBounded'
    BY <1>1, OvertakenStep DEF OvertakingIsBounded, Overtaken, Others
  <2>5. AdriftOvertakesFew'
    BY <1>1, AdriftOvertakesFewStep
  <2> QED
    BY <2>1, <2>2, <2>3, <2>4, <2>5 DEF OInv
<1>2. CASE UNCHANGED vars
  <2>1. UNCHANGED <<table, broker, tick, adrift>>
    BY <1>2 DEF vars
  <2>2. BeforeIsEarlier'
    BY <2>1 DEF OInv, BeforeIsEarlier, Committed, Rows
  <2>3. BatchesAreSmall'
    BY <2>1 DEF OInv, BatchesAreSmall
  <2>4. \A w, r : LeftBehind(w, r)' = LeftBehind(w, r)
    BY <2>1 DEF LeftBehind, Published
  <2>5. BatchesLeaveFewBehind'
    BY <2>1, <2>4 DEF OInv, BatchesLeaveFewBehind
  <2>6. OvertakingIsBounded'
    BY <2>1 DEF OInv, OvertakingIsBounded
  <2>7. \A r : Unheard(r)' = Unheard(r)
    BY <2>1 DEF Unheard, Published
  <2>8. AdriftOvertakesFew'
    BY <2>1, <2>7 DEF OInv, AdriftOvertakesFew
  <2> QED
    BY <2>2, <2>3, <2>5, <2>6, <2>8 DEF OInv
<1> QED
  BY <1>1, <1>2

-----------------------------------------------------------------------------
(* The theorems *)

\* Rows, ticks and the broker's log have their types.
THEOREM TypeCorrect == Spec => []TypeOK
<1>1. IInv => TypeOK
  BY DEF IInv
<1> QED
  BY Invariance, <1>1, PTL

\* dispatched_at is never set on an event the broker has not confirmed.
THEOREM NoEventLost == Spec => []DispatchedIsPublished
<1>1. IInv => DispatchedIsPublished
  BY DEF IInv
<1> QED
  BY Invariance, <1>1, PTL

\* The broker never gets an event of a transaction that did not commit.
THEOREM NoEventInvented == Spec => []PublishedIsCommitted
<1>1. IInv => PublishedIsCommitted
  BY DEF IInv
<1> QED
  BY Invariance, <1>1, PTL

\* SKIP LOCKED keeps any number of workers from repeating what one of them has
\* committed as dispatched; only what a failed tick had under way may follow.
THEOREM NoRepeatAfterDispatch == Spec => DispatchedIsOver
<1>1. IInv /\ [Next]_vars =>
         [\A k \in Len(broker) + 1 .. Len(broker') :
             table[broker'[k]].state = "dispatched"
                 => \E m \in adrift \ adrift' : m.row = broker'[k]]_vars
  <2> SUFFICES ASSUME IInv, Next, NEW k \in Len(broker) + 1 .. Len(broker'),
                      table[broker'[k]].state = "dispatched"
               PROVE  \E m \in adrift \ adrift' : m.row = broker'[k]
      OBVIOUS
  <2>1. broker' # broker
    BY LenProperties DEF IInv, TypeOK
  <2>2. PICK i \in Rows :
           /\ broker' = Append(broker, i)
           /\ \/ \E w \in Workers : AtRow(w, i)
              \/ \E m \in adrift : m.row = i /\ adrift' = adrift \ {m}
    BY <2>1, BrokerStep
  <2>3. broker'[k] = i
    BY <2>2, BrokerAppend DEF IInv
  <2>4. \A w \in Workers : ~AtRow(w, i)
    BY <2>3 DEF AtRow, ToPublish, IInv, TicksAreSound, Pending
  <2> QED
    BY <2>2, <2>3, <2>4
<1> QED
  BY Invariance, <1>1, PTL DEF Spec, DispatchedIsOver

\* An event overtakes no more of the events committed before it than the other
\* workers can hold in their batches, for any number of workers, rows and
\* faults; none with a single worker.
THEOREM OvertakingBounded == Spec => []OvertakingIsBounded
<1>1. OInv => OvertakingIsBounded
  BY DEF OInv
<1> QED
  BY <1>1, Invariance, InitOInv, StepOInv, PTL DEF Spec

\* Every step of the outbox announces committed events, delivers one of them
\* for the first time, or is invisible: the outbox implements EventStream, its
\* liveness apart.
THEOREM ImplementsStream == Spec => Stream!Spec
<1> DEFINE delivered == {broker[k] : k \in 1..Len(broker)}
<1>1. Init => Stream!Init
  BY DEF Init, Stream!Init, Committed, Rows
<1>2. IInv /\ [Next]_vars => [Stream!Next]_(Stream!streamVars)
  <2> SUFFICES ASSUME IInv, [Next]_vars
               PROVE  Stream!Next \/ UNCHANGED <<Committed, delivered>>
      BY DEF Stream!streamVars
  <2>0. Rows \subseteq Ids
    BY LenProperties, ConstantsAssumption DEF IInv, TypeOK, Rows, Ids
  <2>1. ASSUME NEW i \in Rows, Underway(i), broker' = Append(broker, i), table' = table
        PROVE  Stream!Next \/ UNCHANGED <<Committed, delivered>>
    <3>1. Committed' = Committed /\ i \in Committed
      BY <2>1, UnderwayIsCommitted DEF Committed, Rows
    <3>2. delivered' = delivered \cup {i}
      BY <2>1, BrokerAppend DEF IInv
    <3>3. CASE i \in delivered
      BY <3>1, <3>2, <3>3
    <3>4. CASE i \notin delivered
      BY <2>0, <3>1, <3>2, <3>4 DEF Stream!Next, Stream!Deliver
    <3> QED
      BY <3>3, <3>4
  <2>2. CASE Insert
    <3>1. [state |-> "open", before |-> Committed] \in Row
      BY <2>0 DEF Row, States, Committed
    <3>2. /\ Len(table) \in Nat /\ Len(table') = Len(table) + 1
          /\ \A i \in Rows : table'[i] = table[i]
          /\ table'[Len(table) + 1].state = "open"
      BY <2>2, <3>1, AppendProperties, LenProperties DEF Insert, Rows, IInv, TypeOK
    <3> QED
      BY <2>2, <3>2 DEF Insert, Committed, Rows
  <2>3. ASSUME NEW i \in Rows, EndInsert(i)
        PROVE  Stream!Next \/ UNCHANGED <<Committed, delivered>>
    <3>1. PICK s \in {"pending", "void"} : table' = [table EXCEPT ![i].state = s]
      BY <2>3 DEF EndInsert
    <3>2. /\ Len(table') = Len(table) /\ table[i].state = "open"
          /\ table'[i].state = s
          /\ \A j \in Rows \ {i} : table'[j] = table[j]
          /\ broker' = broker
      <4>1. table \in Seq(Row) /\ Len(table) \in Nat /\ table[i] \in Row
        BY ElementOfSeq, LenProperties DEF IInv, TypeOK, Rows
      <4>2. Len(table') = Len(table) /\ \A j \in Rows \ {i} : table'[j] = table[j]
        BY <3>1, <4>1 DEF Rows
      <4>3. table'[i].state = s
        BY <3>1, <4>1 DEF Rows, Row
      <4> QED
        BY <2>3, <4>2, <4>3 DEF EndInsert
    <3>3. CASE s = "void"
      BY <3>2, <3>3 DEF Committed, Rows
    <3>4. CASE s = "pending"
      <4>1. Committed' = Committed \cup {i} /\ i \notin Committed
        BY <3>2, <3>4 DEF Committed, Rows
      <4> QED
        BY <2>0, <3>2, <4>1 DEF Stream!Next, Stream!Announce
    <3> QED
      BY <3>3, <3>4
  <2>4. ASSUME NEW w \in Workers, Commit(w)
        PROVE  UNCHANGED <<Committed, delivered>>
    <3>1. table' = [j \in Rows |-> IF j \in tick[w].done
                                   THEN [table[j] EXCEPT !.state = "dispatched"]
                                   ELSE table[j]]
      BY <2>4 DEF Commit
    <3>2. tick[w].done \subseteq Pending
      BY DEF IInv, TicksAreSound
    <3>3. \A j \in Rows : j \in Committed <=> table'[j].state \in {"pending", "dispatched"}
      BY <3>1, <3>2, ElementOfSeq DEF Committed, Pending, IInv, TypeOK, Rows, Row
    <3>4. Len(table') = Len(table)
      BY <3>1, LenProperties DEF Rows, IInv, TypeOK
    <3> QED
      BY <2>4, <3>3, <3>4 DEF Committed, Rows, Commit
  <2>5. CASE table' = table /\ broker' = broker
    BY <2>5 DEF Committed, Rows
  <2> QED
    BY <2>1, <2>2, <2>3, <2>4, <2>5, BrokerStep
       DEF Next, vars, ClaimBatch, IsIdle, Publish, PublishFails, TickFails, Arrives
<1> QED
  BY <1>1, <1>2, Invariance, PTL DEF Spec, Stream!Spec

=============================================================================
