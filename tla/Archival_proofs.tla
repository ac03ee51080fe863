--------------------------- MODULE Archival_proofs ---------------------------
(***************************************************************************)
(* The safety of Archival for any workers, tables, rows and batch size.    *)
(***************************************************************************)
EXTENDS Archival, FiniteSetTheorems, TLAPS

\* A batch consists of rows of the table that its run is at.
BatchIsOfTable ==
    \A w \in Workers : \A r \in sweep[w].batch : TableOf[r] = sweep[w].table

\* A run has left no row behind in the tables before the one it is at.
EarlierTablesAreEmpty ==
    \A w \in Workers : \A r \in hot : sweep[w].table <= TableOf[r]

\* What is about to be deleted has a committed copy.
DeletesCopies ==
    \A w \in Workers : sweep[w].pc = "delete" => sweep[w].batch \subseteq archive

\* The inductive invariant.
IInv == /\ TypeOK
        /\ BatchIsOfTable
        /\ EarlierTablesAreEmpty
        /\ DeletesCopies
        /\ RowNeverLost
        /\ NoChildStranded

-----------------------------------------------------------------------------

LEMMA InitIInv == Init => IInv
<1> SUFFICES ASSUME Init
             PROVE  IInv
  OBVIOUS
<1>1. NTables \in Nat \ {0} /\ BatchSize \in Nat \ {0}
      /\ TableOf \in [OldRows -> 1..NTables]
  BY ConstantsAssumption
<1>2. Cardinality({}) = 0
  BY FS_EmptySet
<1>3. NoSweep \in Sweep
  BY <1>1 DEF NoSweep, Sweep, Tables
<1>4. TypeOK
  <2>1. \A w \in Workers : sweep[w] = NoSweep /\ sweep[w].batch = {}
                            /\ sweep[w].pc = "idle"
    BY DEF Init, NoSweep
  <2>2. sweep \in [Workers -> Sweep]
    BY <1>3 DEF Init
  <2> QED
    BY <1>1, <1>2, <2>1, <2>2 DEF Init, TypeOK
<1>5. EarlierTablesAreEmpty
  BY <1>1 DEF Init, EarlierTablesAreEmpty, NoSweep
<1>6. NoChildStranded
  BY ParentsAssumption DEF Init, NoChildStranded
<1> QED
  BY <1>4, <1>5, <1>6
     DEF IInv, Init, BatchIsOfTable, DeletesCopies, RowNeverLost, NoSweep

\* The update of a worker's step and batch, as that of its record.
LEMMA RecordUpdate ==
    ASSUME NEW w \in Workers, NEW rows \in SUBSET OldRows,
           NEW pc \in {"idle", "select", "copy", "delete", "release"},
           sweep \in [Workers -> Sweep],
           sweep' = [sweep EXCEPT ![w].pc = pc, ![w].batch = rows]
    PROVE  sweep' = [sweep EXCEPT ![w] = [pc |-> pc, table |-> sweep[w].table,
                                          batch |-> rows]]
<1> DEFINE rec == [pc |-> pc, table |-> sweep[w].table, batch |-> rows]
<1>1. \A v \in Workers : sweep'[v] = IF v = w THEN rec ELSE sweep[v]
  <2>1. sweep' \in [Workers -> Sweep]
    BY DEF Sweep
  <2>2. /\ sweep'[w].pc = pc /\ sweep'[w].batch = rows
        /\ sweep'[w].table = sweep[w].table
    BY DEF Sweep
  <2>3. sweep'[w] = rec
    BY <2>1, <2>2 DEF Sweep
  <2>4. \A v \in Workers : v # w => sweep'[v] = sweep[v]
    OBVIOUS
  <2> QED
    BY <2>3, <2>4
<1>2. DOMAIN sweep' = Workers /\ sweep' = [v \in Workers |-> sweep'[v]]
  OBVIOUS
<1> HIDE DEF rec
<1>3. sweep' = [sweep EXCEPT ![w] = rec]
  BY <1>1, <1>2
<1> QED
  BY <1>3 DEF rec

\* A step that leaves the rows and their copies alone, changes the run of one
\* worker and takes no table from the tables before its own.
LEMMA SweepKeepsIInv ==
    ASSUME IInv, NEW w \in Workers, NEW s \in Sweep,
           sweep' = [sweep EXCEPT ![w] = s],
           hot' = hot, archive \subseteq archive', archive' \subseteq OldRows,
           lock' \in Workers \cup {"none"},
           s.batch # {} <=> s.pc \in {"copy", "delete"},
           Cardinality(s.batch) <= BatchSize,
           \A r \in s.batch : TableOf[r] = s.table,
           \A r \in hot : s.table <= TableOf[r],
           s.pc = "delete" => s.batch \subseteq archive'
    PROVE  IInv'
<1>1. TypeOK'
  BY DEF IInv, TypeOK
<1>2. BatchIsOfTable' /\ EarlierTablesAreEmpty'
  BY DEF IInv, TypeOK, BatchIsOfTable, EarlierTablesAreEmpty
<1>3. DeletesCopies'
  BY DEF IInv, TypeOK, DeletesCopies
<1>4. RowNeverLost' /\ NoChildStranded'
  BY DEF IInv, TypeOK, RowNeverLost, NoChildStranded
<1> QED
  BY <1>1, <1>2, <1>3, <1>4 DEF IInv

\* The run of a worker that stops, at its table or at the first.
LEMMA StopKeepsIInv ==
    ASSUME IInv, NEW w \in Workers, NEW pc \in {"idle", "release"},
           NEW table \in {1, sweep[w].table},
           sweep' = [sweep EXCEPT ![w] = [pc |-> pc, table |-> table,
                                          batch |-> {}]],
           hot' = hot, archive \subseteq archive', archive' \subseteq OldRows,
           lock' \in Workers \cup {"none"}
    PROVE  IInv'
<1> DEFINE s == [pc |-> pc, table |-> table, batch |-> {}]
<1>1. NTables \in Nat \ {0} /\ BatchSize \in Nat \ {0}
      /\ TableOf \in [OldRows -> 1..NTables]
  BY ConstantsAssumption
<1>2. sweep[w].table \in 1..NTables
  BY DEF IInv, TypeOK, Sweep, Tables
<1>3. table \in 1..NTables
  BY <1>1, <1>2
<1>4. s \in Sweep
  BY <1>3 DEF Sweep, Tables
<1>5. \A r \in hot : table <= TableOf[r]
  BY <1>1 DEF IInv, TypeOK, EarlierTablesAreEmpty
<1>6. Cardinality(s.batch) <= BatchSize
  BY <1>1, FS_EmptySet
<1> QED
  BY <1>4, <1>5, <1>6, SweepKeepsIInv

\* What a run finds in its table, in a batch or in none.
LEMMA SelectKeepsIInv ==
    ASSUME IInv, NEW w \in Workers, Select(w)
    PROVE  IInv'
<1>1. NTables \in Nat \ {0} /\ BatchSize \in Nat \ {0}
      /\ TableOf \in [OldRows -> 1..NTables]
  BY ConstantsAssumption
<1>2. /\ sweep[w] \in Sweep /\ sweep[w].pc = "select" /\ sweep[w].batch = {}
      /\ sweep \in [Workers -> Sweep] /\ hot \subseteq OldRows
      /\ archive' = archive /\ archive \subseteq OldRows /\ hot' = hot
      /\ lock' \in Workers \cup {"none"}
  BY DEF IInv, TypeOK, Select
<1>3. \A r \in hot : sweep[w].table <= TableOf[r]
  BY DEF IInv, EarlierTablesAreEmpty
<1>4. CASE RowsAt(w) # {}
  <2>1. PICK rows \in Batches(w) :
            sweep' = [sweep EXCEPT ![w].pc = "copy", ![w].batch = rows]
    BY <1>4 DEF Select
  <2> DEFINE s == [pc |-> "copy", table |-> sweep[w].table, batch |-> rows]
  <2>2. sweep' = [sweep EXCEPT ![w] = s]
    <3>1. rows \in SUBSET OldRows
      BY <1>2 DEF Batches, RowsAt
    <3> QED
      BY <1>2, <2>1, <3>1, RecordUpdate
  <2>3. rows # {} /\ rows \subseteq RowsAt(w) /\ Cardinality(rows) <= BatchSize
    BY <1>1, <2>1 DEF Batches
  <2>4. rows \subseteq OldRows /\ \A r \in rows : TableOf[r] = sweep[w].table
    BY <1>2, <2>3 DEF RowsAt, TableAt
  <2>5. s \in Sweep
    BY <1>2, <2>4 DEF Sweep
  <2> QED
    BY <1>2, <1>3, <2>2, <2>3, <2>4, <2>5, SweepKeepsIInv
<1>5. CASE RowsAt(w) = {} /\ sweep[w].table < NTables
  <2> DEFINE s == [pc |-> "select", table |-> sweep[w].table + 1, batch |-> {}]
  <2>1. sweep' = [sweep EXCEPT ![w] = s]
    BY <1>2, <1>5 DEF Select, Sweep
  <2>2. s \in Sweep
    BY <1>1, <1>2, <1>5 DEF Sweep, Tables
  <2>3. \A r \in hot : s.table <= TableOf[r]
    <3> TAKE r \in hot
    <3>1. TableOf[r] # sweep[w].table /\ sweep[w].table <= TableOf[r]
      BY <1>3, <1>5 DEF RowsAt, TableAt
    <3>2. TableOf[r] \in Nat /\ sweep[w].table \in Nat
      BY <1>1, <1>2 DEF Sweep, Tables
    <3> QED
      BY <3>1, <3>2
  <2>4. Cardinality(s.batch) <= BatchSize
    BY <1>1, FS_EmptySet
  <2> QED
    BY <1>2, <2>1, <2>2, <2>3, <2>4, SweepKeepsIInv
<1>6. CASE RowsAt(w) = {} /\ ~(sweep[w].table < NTables)
  <2>1. sweep' = [sweep EXCEPT ![w] = [pc |-> "release",
                                       table |-> sweep[w].table, batch |-> {}]]
    BY <1>2, <1>6 DEF Select, Sweep
  <2> QED
    BY <1>2, <2>1, StopKeepsIInv
<1> QED
  BY <1>4, <1>5, <1>6

\* A batch is copied and stays the run's batch.
LEMMA CopyKeepsIInv ==
    ASSUME IInv, NEW w \in Workers, Copy(w)
    PROVE  IInv'
<1> DEFINE s == [sweep[w] EXCEPT !.pc = "delete"]
<1>1. /\ sweep[w] \in Sweep /\ sweep[w].pc = "copy"
      /\ sweep' = [sweep EXCEPT ![w] = s]
      /\ hot' = hot /\ lock' \in Workers \cup {"none"}
      /\ archive' = archive \cup sweep[w].batch
      /\ archive \subseteq OldRows
  BY DEF IInv, TypeOK, Copy, Archived
<1>2. s \in Sweep /\ s.batch = sweep[w].batch /\ s.table = sweep[w].table
      /\ s.pc = "delete" /\ s.batch \subseteq OldRows
  BY <1>1 DEF Sweep
<1>3. s.batch # {} /\ Cardinality(s.batch) <= BatchSize
  BY <1>1, <1>2 DEF IInv, TypeOK
<1>4. /\ \A r \in s.batch : TableOf[r] = s.table
      /\ \A r \in hot : s.table <= TableOf[r]
  BY <1>2 DEF IInv, BatchIsOfTable, EarlierTablesAreEmpty
<1> QED
  BY <1>1, <1>2, <1>3, <1>4, SweepKeepsIInv

\* Rows leave the hot cluster whose copies are committed, and whose children
\* have left it before.
LEMMA DeleteKeepsIInv ==
    ASSUME IInv, NEW w \in Workers, Delete(w)
    PROVE  IInv'
<1> DEFINE gone == sweep[w].batch
<1> DEFINE s == [pc |-> "select", table |-> sweep[w].table, batch |-> {}]
<1>1. NTables \in Nat \ {0} /\ BatchSize \in Nat \ {0}
      /\ TableOf \in [OldRows -> 1..NTables]
  BY ConstantsAssumption
<1>2. /\ sweep[w] \in Sweep /\ sweep[w].pc = "delete"
      /\ hot' = hot \ gone /\ archive' = archive /\ lock' = lock
  BY DEF IInv, TypeOK, Delete
<1>3. sweep' = [sweep EXCEPT ![w] = s] /\ s \in Sweep
  BY <1>2 DEF Delete, Sweep, IInv, TypeOK
<1>4. TypeOK'
  BY <1>1, <1>2, <1>3, FS_EmptySet DEF IInv, TypeOK
<1>5. BatchIsOfTable' /\ EarlierTablesAreEmpty'
  BY <1>2, <1>3 DEF IInv, TypeOK, BatchIsOfTable, EarlierTablesAreEmpty
<1>6. DeletesCopies'
  BY <1>2, <1>3 DEF IInv, TypeOK, DeletesCopies
<1>7. RowNeverLost'
  BY <1>2 DEF IInv, RowNeverLost, DeletesCopies, TypeOK
<1>8. NoChildStranded'
  <2> SUFFICES ASSUME NEW e \in Parents, e[1] \in hot, e[1] \notin gone,
                      e[2] \in gone
               PROVE  FALSE
    BY <1>2 DEF IInv, NoChildStranded
  <2>1. /\ e[1] \in OldRows /\ e[2] \in OldRows
        /\ TableOf[e[1]] < TableOf[e[2]]
    BY ParentsAssumption DEF IsChildrenFirst
  <2>2. TableOf[e[2]] = sweep[w].table /\ sweep[w].table <= TableOf[e[1]]
    BY DEF IInv, BatchIsOfTable, EarlierTablesAreEmpty
  <2>3. TableOf[e[1]] \in Nat /\ TableOf[e[2]] \in Nat
    BY <1>1, <2>1
  <2> QED
    BY <2>1, <2>2, <2>3
<1> QED
  BY <1>4, <1>5, <1>6, <1>7, <1>8 DEF IInv

\* An error leaves whole batches behind: copied, or not copied, not deleted.
LEMMA SweepFailsKeepsIInv ==
    ASSUME IInv, NEW w \in Workers, SweepFails(w)
    PROVE  IInv'
<1>1. /\ sweep[w] \in Sweep /\ sweep[w].batch \subseteq OldRows
      /\ sweep \in [Workers -> Sweep]
      /\ hot' = hot /\ lock' \in Workers \cup {"none"}
      /\ archive \subseteq archive' /\ archive' \subseteq OldRows
  BY DEF IInv, TypeOK, SweepFails, Archived, Sweep
<1>2. sweep' = [sweep EXCEPT ![w] = [pc |-> "release",
                                     table |-> sweep[w].table, batch |-> {}]]
  <2>1. sweep' = [sweep EXCEPT ![w].pc = "release", ![w].batch = {}]
    BY DEF SweepFails
  <2> QED
    BY <1>1, <2>1, RecordUpdate
<1> QED
  BY <1>1, <1>2, StopKeepsIInv

\* The steps of the lock, of a tick and of a crash.
LEMMA AcquireKeepsIInv ==
    ASSUME IInv, NEW w \in Workers, Acquire(w)
    PROVE  IInv'
<1> DEFINE s == [sweep[w] EXCEPT !.pc = "select"]
<1>1. /\ sweep[w] \in Sweep /\ sweep[w].pc = "idle" /\ sweep[w].batch = {}
      /\ sweep' = [sweep EXCEPT ![w] = s]
      /\ hot' = hot /\ archive' = archive /\ archive \subseteq OldRows
      /\ lock' \in Workers \cup {"none"}
  BY DEF IInv, TypeOK, Acquire
<1>2. s \in Sweep /\ s.batch = {} /\ s.table = sweep[w].table /\ s.pc = "select"
  BY <1>1 DEF Sweep
<1>3. Cardinality(s.batch) <= BatchSize
  BY <1>1, <1>2 DEF IInv, TypeOK
<1>4. \A r \in hot : s.table <= TableOf[r]
  BY <1>2 DEF IInv, EarlierTablesAreEmpty
<1> QED
  BY <1>1, <1>2, <1>3, <1>4, SweepKeepsIInv

LEMMA RestartKeepsIInv ==
    ASSUME IInv, NEW w \in Workers, Release(w) \/ Crash(w)
    PROVE  IInv'
<1>1. /\ sweep' = [sweep EXCEPT ![w] = [pc |-> "idle", table |-> 1,
                                        batch |-> {}]]
      /\ hot' = hot /\ archive' = archive /\ archive \subseteq OldRows
      /\ lock' \in Workers \cup {"none"}
  BY DEF IInv, TypeOK, Release, Crash, NoSweep
<1> QED
  BY <1>1, StopKeepsIInv

LEMMA StepIInv == IInv /\ [Next]_vars => IInv'
<1> SUFFICES ASSUME IInv, [Next]_vars
             PROVE  IInv'
  OBVIOUS
<1>1. CASE LockExpires
  BY <1>1 DEF LockExpires, IInv, TypeOK, BatchIsOfTable, EarlierTablesAreEmpty,
     DeletesCopies, RowNeverLost, NoChildStranded
<1>2. CASE UNCHANGED vars
  BY <1>2 DEF vars, IInv, TypeOK, BatchIsOfTable, EarlierTablesAreEmpty,
     DeletesCopies, RowNeverLost, NoChildStranded
<1>3. ASSUME NEW w \in Workers,
             \/ Acquire(w) \/ Select(w) \/ Copy(w) \/ Delete(w)
             \/ SweepFails(w) \/ Release(w) \/ Crash(w)
      PROVE  IInv'
  BY <1>3, AcquireKeepsIInv, SelectKeepsIInv, CopyKeepsIInv, DeleteKeepsIInv,
     SweepFailsKeepsIInv, RestartKeepsIInv
<1> QED
  BY <1>1, <1>2, <1>3 DEF Next

\* The invariant holds of every behaviour of the sweeps.
LEMMA SpecIInv == Spec => []IInv
  BY InitIInv, StepIInv, PTL DEF Spec

-----------------------------------------------------------------------------

\* Every reachable state has the types of TypeOK: a run holds a batch exactly
\* between its selection and its deletion, of BATCH_SIZE rows at most.
THEOREM TypeCorrect == Spec => []TypeOK
<1>1. IInv => TypeOK
  BY DEF IInv
<1> QED
  BY <1>1, SpecIInv, PTL

\* However runs of archiveRegion overlap, fail and die, a row of a prior year
\* is in the hot cluster or in the archive.
THEOREM NoRowIsLost == Spec => []RowNeverLost
<1>1. IInv => RowNeverLost
  BY DEF IInv
<1> QED
  BY <1>1, SpecIInv, PTL

\* The order of ARCHIVAL_TABLES is enough for the references between old
\* rows, also when two runs overlap after the lock has expired.
THEOREM ChildrenKeepParents == Spec => []NoChildStranded
<1>1. IInv => NoChildStranded
  BY DEF IInv
<1> QED
  BY <1>1, SpecIInv, PTL

\* Only rows with a committed copy are deleted from the hot cluster.
THEOREM DeletesFollowCopies == Spec => DeletedIsArchived
<1>1. IInv /\ [Next]_vars => [hot \ hot' \subseteq archive]_vars
  <2> SUFFICES ASSUME IInv, Next
               PROVE  hot \ hot' \subseteq archive
    BY DEF vars
  <2>1. CASE LockExpires
    BY <2>1 DEF LockExpires
  <2>2. ASSUME NEW w \in Workers, Delete(w)
        PROVE  hot \ hot' \subseteq archive
    BY <2>2 DEF Delete, IInv, DeletesCopies
  <2>3. ASSUME NEW w \in Workers,
               \/ Acquire(w) \/ Select(w) \/ Copy(w)
               \/ SweepFails(w) \/ Release(w) \/ Crash(w)
        PROVE  hot \ hot' \subseteq archive
    BY <2>3 DEF Acquire, Select, Copy, SweepFails, Release, Crash
  <2> QED
    BY <2>1, <2>2, <2>3 DEF Next
<1> QED
  BY <1>1, SpecIInv, PTL DEF Spec, DeletedIsArchived

=============================================================================
