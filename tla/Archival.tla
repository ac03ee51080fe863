------------------------------ MODULE Archival ------------------------------
(***************************************************************************)
(* The nightly move of prior-year rows to the archive cluster              *)
(* (lib/jobs/archival.worker): per region, under a Redis lock with a TTL;  *)
(* table by table, children first; a batch is copied, then deleted.        *)
(* The two clusters are two databases: nothing is atomic across them.      *)
(*                                                                         *)
(* Rows of the same year and rows that are added belong to no batch and    *)
(* are left out, and so are updates of the rows that are moved.  The year  *)
(* does not change while a sweep runs.                                     *)
(***************************************************************************)
EXTENDS Naturals, FiniteSets

CONSTANTS Workers,     \* worker processes
          NTables,     \* tables, in the order of ARCHIVAL_TABLES
          OldRows,     \* rows of a prior year
          TableOf,     \* row -> its table
          Parents,     \* pairs <<child, parent>> of old rows
          BatchSize    \* ARCHIVAL_BATCH_SIZE

ASSUME ConstantsAssumption ==
    /\ "none" \notin Workers
    /\ NTables \in Nat \ {0}
    /\ BatchSize \in Nat \ {0}
    /\ IsFiniteSet(OldRows)
    /\ TableOf \in [OldRows -> 1..NTables]

\* ARCHIVAL_TABLES has children before their parents.
IsChildrenFirst == \A e \in Parents : TableOf[e[1]] < TableOf[e[2]]

ASSUME ParentsAssumption ==
    /\ Parents \subseteq OldRows \X OldRows
    /\ IsChildrenFirst

VARIABLES hot,      \* old rows in the hot cluster
          archive,  \* old rows in the archive cluster
          lock,     \* archival:<region>:lock, whoever set it
          sweep     \* worker -> its run in progress

vars == <<hot, archive, lock, sweep>>

Tables == 1..NTables
Sweep == [pc : {"idle", "select", "copy", "delete", "release"},
          table : Tables, batch : SUBSET OldRows]
NoSweep == [pc |-> "idle", table |-> 1, batch |-> {}]

TypeOK ==
    /\ hot \subseteq OldRows
    /\ archive \subseteq OldRows
    /\ lock \in Workers \cup {"none"}
    /\ sweep \in [Workers -> Sweep]
    /\ \A w \in Workers :
           /\ sweep[w].batch # {} <=> sweep[w].pc \in {"copy", "delete"}
           /\ Cardinality(sweep[w].batch) <= BatchSize

Init ==
    /\ hot = OldRows
    /\ archive = {}
    /\ lock = "none"
    /\ sweep = [w \in Workers |-> NoSweep]

-----------------------------------------------------------------------------
(* runArchivalWithLock and archiveRegion *)

\* The job's tick; the scheduler drops it while the last one runs.  Where the
\* lock is held the tick has no effect.
Acquire(w) ==
    /\ sweep[w].pc = "idle"
    /\ lock = "none"
    /\ lock' = w
    /\ sweep' = [sweep EXCEPT ![w].pc = "select"]
    /\ UNCHANGED <<hot, archive>>

\* Mistaken variant: the tables in the reverse order.
TableAtReversed(w) == NTables + 1 - sweep[w].table

TableAt(w) == sweep[w].table

RowsAt(w) == {r \in hot : TableOf[r] = TableAt(w)}

\* Full ones, but for the last.
Batches(w) ==
    {rows \in (SUBSET RowsAt(w)) \ {{}} :
        Cardinality(rows) = BatchSize
        \/ (rows = RowsAt(w) /\ Cardinality(rows) <= BatchSize)}

\* The next batch of the table, the next table or the end.
Select(w) ==
    /\ sweep[w].pc = "select"
    /\ IF RowsAt(w) # {}
       THEN \E rows \in Batches(w) :
                sweep' = [sweep EXCEPT ![w].pc = "copy", ![w].batch = rows]
       ELSE sweep' = IF sweep[w].table < NTables
                     THEN [sweep EXCEPT ![w].table = @ + 1]
                     ELSE [sweep EXCEPT ![w].pc = "release"]
    /\ UNCHANGED <<hot, archive, lock>>

\* In the archive's database, which is another: rows that are there already
\* are left alone.
Archived(rows) == archive \cup rows

\* The archive's insert is committed.
Copy(w) ==
    /\ sweep[w].pc = "copy"
    /\ archive' = Archived(sweep[w].batch)
    /\ sweep' = [sweep EXCEPT ![w].pc = "delete"]
    /\ UNCHANGED <<hot, lock>>

Delete(w) ==
    /\ sweep[w].pc = "delete"
    /\ hot' = hot \ sweep[w].batch
    /\ sweep' = [sweep EXCEPT ![w].pc = "select", ![w].batch = {}]
    /\ UNCHANGED <<archive, lock>>

\* Mistaken variant: an error deletes the batch that could not be copied.
SweepFailsAndDeletes(w) ==
    /\ sweep[w].pc \in {"select", "copy", "delete"}
    /\ hot' = hot \ sweep[w].batch
    /\ sweep' = [sweep EXCEPT ![w].pc = "release", ![w].batch = {}]
    /\ UNCHANGED <<archive, lock>>

\* An error, or the run is at its maximal time before a batch.  An insert
\* whose answer is lost may have taken effect.
SweepFails(w) ==
    /\ sweep[w].pc \in {"select", "copy", "delete"}
    /\ archive' \in {archive, Archived(sweep[w].batch)}
    /\ sweep' = [sweep EXCEPT ![w].pc = "release", ![w].batch = {}]
    /\ UNCHANGED <<hot, lock>>

\* finally: the key is deleted, whoever set it.
Release(w) ==
    /\ sweep[w].pc = "release"
    /\ lock' = "none"
    /\ sweep' = [sweep EXCEPT ![w] = NoSweep]
    /\ UNCHANGED <<hot, archive>>

\* Mistaken variant: a lock without TTL.
HasTTLNever(w) == FALSE

HasTTL(w) == TRUE

\* The TTL outlives a run, but not a batch that takes longer than a minute.
LockExpires ==
    /\ lock # "none"
    /\ HasTTL(lock)
    /\ lock' = "none"
    /\ UNCHANGED <<hot, archive, sweep>>

\* The process dies and leaves the lock.
Crash(w) ==
    /\ sweep[w].pc # "idle"
    /\ sweep' = [sweep EXCEPT ![w] = NoSweep]
    /\ UNCHANGED <<hot, archive, lock>>

Next ==
    \/ \E w \in Workers : \/ Acquire(w) \/ Select(w) \/ Copy(w) \/ Delete(w)
                          \/ SweepFails(w) \/ Release(w) \/ Crash(w)
    \/ LockExpires

\* Every worker's job ticks every night, no table's sweep fails every night,
\* and the lock has a TTL.
Fairness ==
    /\ WF_vars(LockExpires)
    /\ \A w \in Workers : /\ SF_vars(Acquire(w))
                          /\ \A t \in Tables : SF_vars(TableAt(w) = t /\ Select(w))
                          /\ SF_vars(Copy(w))
                          /\ SF_vars(Delete(w))
                          /\ WF_vars(Release(w))

Spec == Init /\ [][Next]_vars /\ Fairness

-----------------------------------------------------------------------------
(* Properties *)

\* However runs overlap, fail or crash, every row is in one of the clusters.
RowNeverLost == OldRows = hot \cup archive

\* A row that is left in the hot cluster has its parent there: a run that
\* stops anywhere strands no child (the order of ARCHIVAL_TABLES).  Rows of
\* this year are not covered: an order of last year is moved away from them.
NoChildStranded == \A e \in Parents : e[1] \in hot => e[2] \in hot

\* A row is deleted only after its copy was committed.
DeletedIsArchived == [][hot \ hot' \subseteq archive]_vars

\* Every old row is moved in the end, although runs fail, time out or die
\* holding the lock.
OldRowsAreMoved == <>[](hot = {})
=============================================================================
