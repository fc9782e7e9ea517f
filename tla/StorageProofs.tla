--------------------------- MODULE StorageProofs ---------------------------
(***************************************************************************)
(* Proofs about Storage, for every bound, any number of recovered rows and *)
(* with or without Vacuum: its invariants, two action properties that      *)
(* follow from the one of the heap (repeatable reads, and a Vacuum that    *)
(* leaves the current rows), and that it implements SnapshotIsolation.     *)
(***************************************************************************)
EXTENDS Storage, TLAPS, WellFoundedInduction

\* A nonempty set of naturals has a least element.
LEMMA LeastNatural ==
  ASSUME NEW S \in SUBSET Nat, S # {}
  PROVE  \E m \in S : \A n \in S : m <= n
<1>1. PICK m \in S : \A n \in S : <<n, m>> \notin OpToRel(<, Nat)
  BY NatLessThanWellFounded, WFMin, Zenon
<1>2. \A n \in S : ~(n < m)
  BY <1>1, Zenon DEF OpToRel
<1>3. QED
  BY <1>2

\* The horizon is the least of the active ids and next, so a snapshot's XMin
\* is below every id it excludes (TxManager.Horizon, TxManager.Take).
LEMMA HorizonLeast ==
  ASSUME TypeOK
  PROVE  /\ Horizon \in active \cup {next}
         /\ \A id \in active \cup {next} : Horizon <= id
<1>1. active \cup {next} \in SUBSET Nat /\ active \cup {next} # {}
  BY BoundsAssumption DEF TypeOK, TxIds
<1>2. \E m \in active \cup {next} : \A id \in active \cup {next} : m <= id
  BY <1>1, LeastNatural
<1>3. QED
  BY <1>2, Zenon DEF Horizon

\* A snapshot taken in a typed state is one of Snapshots (TxManager.Take).
LEMMA TakeType ==
  ASSUME TypeOK
  PROVE  Take \in Snapshots
<1>h. /\ Horizon \in active \cup {next}
      /\ \A id \in active \cup {next} : Horizon <= id
  BY HorizonLeast
<1>1. Horizon \in 0..(MaxTx + 1)
  BY <1>h, BoundsAssumption DEF TypeOK, TxIds
<1>2. QED
  BY <1>1, BoundsAssumption DEF Take, Snapshots, TypeOK, TxIds

\* A snapshot taken from a consistent manager is settled.
LEMMA TakeSettled ==
  ASSUME TypeOK, ManagerInv
  PROVE  Settled(Take)
<1>h. /\ Horizon \in active \cup {next}
      /\ \A id \in active \cup {next} : Horizon <= id
  BY HorizonLeast
<1>1. ASSUME NEW id \in TxIds, id < next, ~(id >= Horizon /\ id \in active)
      PROVE  status[id] \in Finished
  <2>1. id \notin active
    BY <1>1, <1>h, BoundsAssumption DEF TypeOK, TxIds
  <2>2. status[id] \in Statuses /\ next \in Int /\ id \in Int
    BY BoundsAssumption DEF TypeOK, TxIds
  <2>3. status[id] # "Unknown" /\ status[id] # "InProgress"
    BY <1>1, <2>1, <2>2 DEF ManagerInv
  <2>4. QED
    BY <2>2, <2>3 DEF Statuses, Finished
<1>2. QED
  BY <1>1, BoundsAssumption DEF Settled, Take, TypeOK

(***************************************************************************)
(* Type correctness.                                                       *)
(***************************************************************************)

\* An empty or a recovered database has the types.
LEMMA InitType == Init => TypeOK
<1>1. InvalidTxID \in 0..MaxTx /\ Boot \in 0..1 /\ Boot \in 0..MaxTx
  BY BoundsAssumption DEF InvalidTxID, Boot
<1>2. NoSnapshot \in Snapshots
  BY BoundsAssumption DEF NoSnapshot, Snapshots
<1>3. QED
  BY <1>1, <1>2, BoundsAssumption
  DEF Init, TypeOK, TxIds, RowIds, Statuses, Phases, Isolations

\* Every step of the manager, a transaction or the heap keeps the types.
LEMMA NextType == TypeOK /\ [Next]_vars => TypeOK'
<1> SUFFICES ASSUME TypeOK, [Next]_vars
             PROVE  TypeOK'
  OBVIOUS
<1> USE BoundsAssumption DEF TypeOK, mgrVars, txVars, heapVars
<1>t. Take \in Snapshots
  BY TakeType
<1>1. ASSUME NEW t \in TxIds, NEW level \in Isolations, NEW ro \in BOOLEAN,
             Begin(t, level, ro)
      PROVE  TypeOK'
  BY <1>1 DEF Begin, TxIds, Statuses, Phases
<1>2. ASSUME NEW t \in TxIds, BeginSnapshot(t)
      PROVE  TypeOK'
  BY <1>2, <1>t DEF BeginSnapshot, Phases
<1>3. ASSUME NEW t \in TxIds, BeginQuery(t)
      PROVE  TypeOK'
  BY <1>3, <1>t DEF BeginQuery, NextStatement, Phases
<1>4. ASSUME NEW t \in TxIds, BeginWrite(t)
      PROVE  TypeOK'
  BY <1>4, <1>t DEF BeginWrite, NextStatement, Phases
<1>5. ASSUME NEW t \in TxIds, Scan(t)
      PROVE  TypeOK'
  BY <1>5 DEF Scan, ScanResult
<1>6. ASSUME NEW t \in TxIds, EndStatement(t)
      PROVE  TypeOK'
  BY <1>6 DEF EndStatement, Phases
<1>7. ASSUME NEW t \in TxIds, FailStatement(t)
      PROVE  TypeOK'
  BY <1>7 DEF FailStatement, Phases
<1>8. ASSUME NEW t \in TxIds, NEW r \in RowIds, Insert(t, r)
      PROVE  TypeOK'
  <2>1. xmin' \in [RowIds -> 0..MaxTx] /\ linked' \in SUBSET RowIds
    BY <1>8 DEF Insert, TxIds
  <2>2. nextRow' \in 1..(MaxRow + 1)
    BY <1>8 DEF Insert, RowIds
  <2>3. phase' \in [TxIds -> Phases]
    BY <1>8 DEF Insert, Phases
  <2>4. QED
    BY <1>8, <2>1, <2>2, <2>3 DEF Insert
<1>9. ASSUME NEW t \in TxIds, NEW r \in RowIds, NEW then \in {"writing", "replacing"},
             Delete(t, r, then)
      PROVE  TypeOK'
  BY <1>9 DEF Delete, Phases, TxIds
<1>10. ASSUME NEW t \in TxIds, NEW r \in RowIds, DeleteConflict(t, r)
       PROVE  TypeOK'
  BY <1>10 DEF DeleteConflict, Phases
<1>11. ASSUME NEW t \in TxIds, NEW s \in Finished, finish(t, s)
       PROVE  TypeOK'
  BY <1>11 DEF finish, Phases, Statuses, Finished
<1>12. ASSUME NEW h \in 1..(MaxTx + 1), Vacuum(h)
       PROVE  TypeOK'
  BY <1>12 DEF Vacuum
<1>13. CASE UNCHANGED vars
  BY <1>13 DEF vars
<1> HIDE DEF TypeOK
<1>14. ASSUME NEW t \in TxIds, NEW flushed \in BOOLEAN, Commit(t, flushed)
       PROVE  TypeOK'
  BY <1>14, <1>11 DEF Commit, Finished
<1>15. ASSUME NEW t \in TxIds, Rollback(t)
       PROVE  TypeOK'
  BY <1>15, <1>11 DEF Rollback, Finished
<1>16. QED
  BY <1>1, <1>2, <1>3, <1>4, <1>5, <1>6, <1>7, <1>8, <1>9, <1>10, <1>12, <1>13, <1>14, <1>15
  DEF Next

\* The manager, the transactions and the heap keep their types in every state
\* of every behaviour.
THEOREM TypeCorrect == Spec => []TypeOK
<1>1. QED
  BY InitType, NextType, PTL DEF Spec

(***************************************************************************)
(* The inductive invariant: the manager is consistent, every snapshot is   *)
(* settled and every standing deletion is stamped.                         *)
(***************************************************************************)

\* An empty or a recovered database satisfies the inductive invariant: the boot
\* transaction is the only one issued and has committed (Engine.recover).
LEMMA InitInv == Init => StorageInv
<1> SUFFICES ASSUME Init PROVE StorageInv
  OBVIOUS
<1> USE BoundsAssumption
<1>1. TypeOK
  BY InitType
<1>2. ManagerInv
  BY DEF Init, ManagerInv, Boot, TxIds, Finished
<1>3. \A t \in TxIds : Settled(snap[t])
  BY DEF Init, Settled, NoSnapshot, Boot, TxIds
<1>4. StampInv
  BY DEF Init, StampInv
<1>5. QED
  BY <1>1, <1>2, <1>3, <1>4 DEF StorageInv

\* next, status and active change together, and only in Begin and finish.
LEMMA NextManager == TypeOK /\ ManagerInv /\ [Next]_vars => ManagerInv'
<1> SUFFICES ASSUME TypeOK, ManagerInv, [Next]_vars
             PROVE  ManagerInv'
  OBVIOUS
<1>t. /\ status \in [TxIds -> Statuses]
      /\ phase \in [TxIds -> Phases]
      /\ active \in SUBSET TxIds
      /\ next \in Int
  BY BoundsAssumption DEF TypeOK
<1>i. TxIds \subseteq Int
  BY BoundsAssumption DEF TxIds
<1>1. ASSUME NEW t \in TxIds, NEW level \in Isolations, NEW ro \in BOOLEAN,
             Begin(t, level, ro)
      PROVE  ManagerInv'
  BY <1>1, <1>t, <1>i DEF Begin, ManagerInv, Finished
<1>2. ASSUME NEW t \in TxIds, NEW s \in Finished, finish(t, s), phase[t] = "ready"
      PROVE  ManagerInv'
  BY <1>2, <1>t, <1>i DEF finish, ManagerInv, Finished
\* A step that moves one running transaction between two running phases.
<1>3. ASSUME NEW t \in TxIds, NEW ph \in Phases \ {"none", "done"},
             phase[t] \notin {"none", "done"},
             phase' = [phase EXCEPT ![t] = ph], UNCHANGED mgrVars
      PROVE  ManagerInv'
  BY <1>3, <1>t, <1>i DEF ManagerInv, mgrVars, Finished
<1>4. ASSUME UNCHANGED <<mgrVars, phase>>
      PROVE  ManagerInv'
  BY <1>4 DEF ManagerInv, mgrVars
<1>5. ASSUME NEW t \in TxIds,
             \/ BeginSnapshot(t) \/ BeginQuery(t) \/ BeginWrite(t)
             \/ EndStatement(t) \/ FailStatement(t)
      PROVE  ManagerInv'
  BY <1>5, <1>3, Zenon
  DEF BeginSnapshot, BeginQuery, BeginWrite, NextStatement, EndStatement, FailStatement, Phases
<1>6. ASSUME NEW t \in TxIds, NEW r \in RowIds,
             Insert(t, r) \/ DeleteConflict(t, r)
      PROVE  ManagerInv'
  BY <1>6, <1>3 DEF Insert, DeleteConflict, Phases
<1>7. ASSUME NEW t \in TxIds, NEW r \in RowIds, NEW then \in {"writing", "replacing"},
             Delete(t, r, then)
      PROVE  ManagerInv'
  BY <1>7, <1>3 DEF Delete, Phases
<1>8. ASSUME NEW t \in TxIds, NEW flushed \in BOOLEAN, Commit(t, flushed) \/ Rollback(t)
      PROVE  ManagerInv'
  BY <1>8, <1>2 DEF Commit, Rollback, Finished
<1>9. ASSUME NEW t \in TxIds, Scan(t)
      PROVE  ManagerInv'
  BY <1>9, <1>4 DEF Scan
<1>10. ASSUME NEW h \in 1..(MaxTx + 1), Vacuum(h)
       PROVE  ManagerInv'
  BY <1>10, <1>4 DEF Vacuum, txVars
<1>11. CASE UNCHANGED vars
  BY <1>11, <1>4 DEF vars, txVars
<1>12. QED
  BY <1>1, <1>5, <1>6, <1>7, <1>8, <1>9, <1>10, <1>11 DEF Next

\* Ids are only ever added, and an outcome is final (TxManager.finish ignores a
\* transaction that is not in progress).
LEMMA OutcomesFinal ==
  ASSUME TypeOK, ManagerInv, [Next]_vars
  PROVE  /\ next \in Int /\ next' \in Int /\ next <= next'
         /\ \A id \in TxIds : status[id] \in Finished => status'[id] = status[id]
<1>t. /\ status \in [TxIds -> Statuses]
      /\ next \in Int
      /\ TxIds \subseteq Int
  BY BoundsAssumption DEF TypeOK, TxIds
<1>1. ASSUME NEW t \in TxIds, NEW level \in Isolations, NEW ro \in BOOLEAN,
             Begin(t, level, ro)
      PROVE  /\ next' \in Int /\ next <= next'
             /\ \A id \in TxIds : status[id] \in Finished => status'[id] = status[id]
  BY <1>1, <1>t DEF Begin, ManagerInv, Finished
<1>2. ASSUME NEW t \in TxIds, NEW s \in Finished, finish(t, s), phase[t] = "ready"
      PROVE  /\ next' \in Int /\ next <= next'
             /\ \A id \in TxIds : status[id] \in Finished => status'[id] = status[id]
  BY <1>2, <1>t DEF finish, ManagerInv, Finished
<1>3. ASSUME UNCHANGED mgrVars
      PROVE  /\ next' \in Int /\ next <= next'
             /\ \A id \in TxIds : status[id] \in Finished => status'[id] = status[id]
  BY <1>3, <1>t DEF mgrVars
<1>4. ASSUME NEW t \in TxIds, NEW flushed \in BOOLEAN, Commit(t, flushed) \/ Rollback(t)
      PROVE  \E s \in Finished : finish(t, s) /\ phase[t] = "ready"
  BY <1>4 DEF Commit, Rollback, Finished
<1>5. \/ UNCHANGED mgrVars
      \/ \E t \in TxIds, level \in Isolations, ro \in BOOLEAN : Begin(t, level, ro)
      \/ \E t \in TxIds, flushed \in BOOLEAN : Commit(t, flushed) \/ Rollback(t)
  BY DEF Next, vars, mgrVars, BeginSnapshot, BeginQuery, BeginWrite, Scan, EndStatement,
         FailStatement, Insert, Delete, DeleteConflict, Vacuum
<1>6. QED
  BY <1>t, <1>1, <1>2, <1>3, <1>4, <1>5

\* A transaction's snapshot is kept or retaken, and retaking it is a step of
\* its own under the manager's lock.
LEMMA SnapshotsRetaken ==
  ASSUME TypeOK, [Next]_vars, NEW u \in TxIds
  PROVE  snap'[u] = snap[u] \/ (snap'[u] = Take /\ UNCHANGED mgrVars)
<1>t. snap \in [TxIds -> Snapshots]
  BY DEF TypeOK
<1>1. ASSUME NEW t \in TxIds, BeginSnapshot(t) \/ BeginQuery(t) \/ BeginWrite(t)
      PROVE  snap'[u] = snap[u] \/ (snap'[u] = Take /\ UNCHANGED mgrVars)
  BY <1>1, <1>t DEF BeginSnapshot, BeginQuery, BeginWrite, NextStatement
<1>2. \/ UNCHANGED snap
      \/ \E t \in TxIds : BeginSnapshot(t) \/ BeginQuery(t) \/ BeginWrite(t)
  BY DEF Next, vars, txVars, Begin, Scan, EndStatement, FailStatement,
         Insert, Delete, DeleteConflict, Commit, Rollback, finish, Vacuum
<1>3. QED
  BY <1>1, <1>2

\* Every step keeps every snapshot settled: an old one because outcomes are
\* final, a new one by TakeSettled (TxManager.Take, TxManager.finish).
LEMMA NextSettled ==
  ASSUME TypeOK, ManagerInv, [Next]_vars, \A t \in TxIds : Settled(snap[t])
  PROVE  (\A t \in TxIds : Settled(snap[t]))'
<1> SUFFICES ASSUME NEW u \in TxIds
             PROVE  Settled(snap[u])'
  OBVIOUS
<1>o. /\ next \in Int /\ next' \in Int /\ next <= next'
      /\ \A id \in TxIds : status[id] \in Finished => status'[id] = status[id]
  BY OutcomesFinal
<1>t. snap[u].xmax \in Int
  BY BoundsAssumption DEF TypeOK, Snapshots
<1>1. CASE snap'[u] = snap[u]
  BY <1>1, <1>o, <1>t DEF Settled
<1>2. CASE snap'[u] = Take /\ UNCHANGED mgrVars
  BY <1>2, TakeSettled DEF Settled, mgrVars
<1>3. QED
  BY <1>1, <1>2, SnapshotsRetaken

\* Heap.Delete is the only step that stamps a version, and it refuses one that
\* carries the stamp of a transaction that has not aborted.
LEMMA NextStamp ==
  ASSUME TypeOK, ManagerInv, StampInv, [Next]_vars
  PROVE  StampInv'
<1>t. /\ xmax \in [RowIds -> 0..MaxTx]
      /\ deletes \in [TxIds -> SUBSET RowIds]
      /\ status \in [TxIds -> Statuses]
      /\ TxIds \subseteq Int /\ InvalidTxID \notin TxIds
  BY BoundsAssumption DEF TypeOK, TxIds, InvalidTxID
<1>o. /\ next \in Int /\ next' \in Int /\ next <= next'
      /\ \A id \in TxIds : status[id] \in Finished => status'[id] = status[id]
  BY OutcomesFinal
<1>1. ASSUME UNCHANGED <<xmax, deletes>>
      PROVE  StampInv'
  BY <1>1, <1>t, <1>o DEF StampInv, Finished
<1>2. ASSUME NEW t \in TxIds, NEW r \in RowIds, NEW then \in {"writing", "replacing"},
             Delete(t, r, then)
      PROVE  StampInv'
  <2> SUFFICES ASSUME NEW u \in TxIds, NEW q \in deletes'[u]
               PROVE  u < next' /\ (status'[u] # "Aborted" => xmax'[q] = u)
    BY DEF StampInv
  <2>1. /\ status' = status /\ next' = next
        /\ xmax' = [xmax EXCEPT ![r] = t]
        /\ deletes' = [deletes EXCEPT ![t] = @ \cup {r}]
        /\ phase[t] = "writing"
        /\ ~Conflict(t, r)
    BY <1>2 DEF Delete, mgrVars
  <2>2. t < next
    BY <2>1, <1>t, <1>o DEF ManagerInv
  <2>3. CASE u = t
    BY <2>1, <2>2, <2>3, <1>t DEF StampInv
  <2>4. CASE u # t /\ q # r
    BY <2>1, <2>4, <1>t DEF StampInv
  <2>5. CASE u # t /\ q = r
    <3>1. r \in deletes[u] /\ u < next
      BY <2>1, <2>5, <1>t DEF StampInv
    <3>2. ASSUME status[u] # "Aborted"
          PROVE  FALSE
      <4>1. xmax[r] = u
        BY <3>1, <3>2 DEF StampInv
      <4>2. status[u] # "Unknown"
        BY <3>1, <1>t, <1>o DEF ManagerInv
      <4>3. Status(u) \in {"InProgress", "Committed"}
        BY <3>2, <4>2, <1>t DEF Status, Statuses
      <4>4. QED
        BY <2>1, <2>5, <4>1, <4>3, <1>t DEF Conflict
    <3>3. QED
      BY <2>1, <3>1, <3>2
  <2>6. QED
    BY <2>3, <2>4, <2>5
<1>3. \/ UNCHANGED <<xmax, deletes>>
      \/ \E t \in TxIds, r \in RowIds, then \in {"writing", "replacing"} : Delete(t, r, then)
  BY DEF Next, vars, heapVars, Begin, BeginSnapshot, BeginQuery, BeginWrite, Scan,
         EndStatement, FailStatement, Insert, DeleteConflict, Commit, Rollback, finish, Vacuum
<1>4. QED
  BY <1>1, <1>2, <1>3

\* The invariant holds in every reachable state.
THEOREM StorageInvariant == Spec => []StorageInv
<1>1. StorageInv /\ [Next]_vars => StorageInv'
  BY NextType, NextManager, NextSettled, NextStamp DEF StorageInv
<1>2. QED
  BY InitInv, <1>1, PTL DEF Spec

\* First updater wins: of two transactions told that they deleted one version,
\* one has aborted, however their statements interleave.
THEOREM NoUpdateLost == Spec => []NoLostUpdate
<1>1. StorageInv => NoLostUpdate
  <2> SUFFICES ASSUME StorageInv, NEW t \in TxIds, NEW u \in TxIds, t # u,
                      NEW r \in deletes[t] \cap deletes[u]
               PROVE  "Aborted" \in {status[t], status[u]}
    BY DEF NoLostUpdate
  <2>1. QED
    BY DEF StorageInv, StampInv
<1>2. QED
  BY StorageInvariant, <1>1, PTL

\* A snapshot that is kept answers as before (Snapshot.committed,
\* TxManager.finish).
LEMMA AnswersFixed ==
  ASSUME StorageInv, [Next]_vars, NEW t \in TxIds, snap'[t] = snap[t], NEW id \in 0..MaxTx
  PROVE  committed(snap[t], id)' = committed(snap[t], id)
<1>1. CASE id = InvalidTxID
  BY <1>1 DEF committed
<1>2. CASE id # InvalidTxID
  <2>0. id \in TxIds
    BY <1>2, BoundsAssumption DEF TxIds, InvalidTxID
  <2>1. \A k \in TxIds : status[k] \in Finished => status'[k] = status[k]
    BY OutcomesFinal DEF StorageInv
  <2>2. CASE id < snap[t].xmax /\ ~(id >= snap[t].xmin /\ id \in snap[t].active)
    <3>1. status[id] \in Finished
      BY <2>0, <2>2 DEF StorageInv, Settled
    <3>2. QED
      BY <2>0, <2>1, <3>1 DEF committed, Status
  <2>3. CASE ~(id < snap[t].xmax /\ ~(id >= snap[t].xmin /\ id \in snap[t].active))
    BY <2>3 DEF committed
  <2>4. QED
    BY <2>2, <2>3
<1>3. QED
  BY <1>1, <1>2

\* A snapshot's answers are fixed when it is taken: nothing that begins,
\* commits or aborts afterwards changes them.
THEOREM SnapshotAnswersStable == Spec => SnapshotsStable
<1>1. StorageInv /\ [Next]_vars =>
        [\A t \in TxIds : snap'[t] = snap[t] =>
           \A id \in TxIds : committed(snap[t], id)' = committed(snap[t], id)]_vars
  <2>1. TxIds \subseteq 0..MaxTx
    BY BoundsAssumption DEF TxIds
  <2>2. QED
    BY <2>1, AnswersFixed
<1>2. QED
  BY StorageInvariant, <1>1, PTL DEF Spec, SnapshotsStable


(***************************************************************************)
(* What versions carry and statements hold.                                *)
(***************************************************************************)

\* An empty or a recovered heap: its rows are the boot transaction's.
LEMMA InitHeap == Init => HeapInv
<1> SUFFICES ASSUME Init PROVE HeapInv
  OBVIOUS
<1> USE BoundsAssumption DEF InvalidTxID
<1>1. StampsIssued
  BY DEF Init, StampsIssued, Boot, RowIds
<1>2. HeldInv
  BY DEF Init, HeldInv
<1>3. \A r \in RowIds \ linked : Gone(r)
  BY DEF Init, Gone, RowIds
<1>4. QED
  BY <1>1, <1>2, <1>3 DEF HeapInv

\* A step inserts one version, stamps one, or leaves the stamps alone.
LEMMA StampsWritten ==
  ASSUME [Next]_vars
  PROVE  \/ UNCHANGED <<xmin, xmax, nextRow>> /\ linked' \subseteq linked
         \/ \E t \in TxIds, r \in RowIds : Insert(t, r)
         \/ \E t \in TxIds, r \in RowIds, then \in {"writing", "replacing"} : Delete(t, r, then)
BY DEF Next, vars, heapVars, Begin, BeginSnapshot, BeginQuery, BeginWrite, Scan,
       EndStatement, FailStatement, DeleteConflict, Commit, Rollback, finish, Vacuum

\* Versions are stamped with the ids of transactions that write, and an inserted
\* version is only seen, and so only deleted, by its own transaction until that
\* has committed.
LEMMA NextStamped ==
  ASSUME TypeOK, ManagerInv, StampsIssued, HeldInv, [Next]_vars
  PROVE  StampsIssued'
<1>t. /\ xmin \in [RowIds -> 0..MaxTx] /\ xmax \in [RowIds -> 0..MaxTx]
      /\ TxIds = 1..MaxTx /\ MaxTx \in Nat /\ InvalidTxID = 0
      /\ nextRow \in Int /\ RowIds \subseteq Int
  BY BoundsAssumption DEF TypeOK, TxIds, InvalidTxID, RowIds
<1>o. /\ next \in Int /\ next' \in Int /\ next <= next'
      /\ \A id \in TxIds : status[id] \in Finished => status'[id] = status[id]
  BY OutcomesFinal
<1>1. ASSUME UNCHANGED <<xmin, xmax, nextRow>>, linked' \subseteq linked
      PROVE  StampsIssued'
  BY <1>1, <1>t, <1>o DEF StampsIssued, Finished
<1>2. ASSUME NEW t \in TxIds, NEW r \in RowIds, Insert(t, r)
      PROVE  StampsIssued'
  <2>1. /\ status' = status /\ next' = next /\ r = nextRow /\ nextRow' = nextRow + 1
        /\ xmin' = [xmin EXCEPT ![r] = t] /\ xmax' = xmax /\ linked' = linked \cup {r}
        /\ phase[t] \in {"writing", "replacing"}
    BY <1>2 DEF Insert, mgrVars
  <2>2. t < next /\ t # InvalidTxID
    BY <2>1, <1>t, <1>o DEF ManagerInv
  <2>3. xmin[r] = InvalidTxID /\ xmax[r] = InvalidTxID
    BY <2>1, <1>t DEF StampsIssued
  <2>4. QED
    BY <2>1, <2>2, <2>3, <1>t DEF StampsIssued
<1>3. ASSUME NEW t \in TxIds, NEW r \in RowIds, NEW then \in {"writing", "replacing"},
             Delete(t, r, then)
      PROVE  StampsIssued'
  <2>1. /\ status' = status /\ next' = next /\ nextRow' = nextRow
        /\ xmax' = [xmax EXCEPT ![r] = t] /\ xmin' = xmin /\ linked' = linked
        /\ phase[t] = "writing" /\ r \in held[t]
    BY <1>3 DEF Delete, mgrVars
  <2>2. t < next /\ t # InvalidTxID
    BY <2>1, <1>t, <1>o DEF ManagerInv
  <2>3. xmin[r] # InvalidTxID /\ (xmin[r] = t \/ status[xmin[r]] = "Committed")
    BY <2>1 DEF HeldInv
  <2>4. QED
    BY <2>1, <2>2, <2>3, <1>t DEF StampsIssued
<1>4. QED
  BY <1>1, <1>2, <1>3, StampsWritten

\* A scan holds what its transaction sees, and every way out of a statement lets
\* it go.
LEMMA NextHeldInv ==
  ASSUME TypeOK, ManagerInv, StampsIssued, HeldInv, [Next]_vars
  PROVE  HeldInv'
<1>t. /\ xmin \in [RowIds -> 0..MaxTx] /\ held \in [TxIds -> SUBSET RowIds]
      /\ phase \in [TxIds -> Phases]
      /\ TxIds = 1..MaxTx /\ MaxTx \in Nat /\ InvalidTxID = 0
      /\ nextRow \in Int /\ RowIds \subseteq Int
  BY BoundsAssumption DEF TypeOK, TxIds, InvalidTxID, RowIds
<1>o. /\ next \in Int /\ next' \in Int /\ next <= next'
      /\ \A id \in TxIds : status[id] \in Finished => status'[id] = status[id]
  BY OutcomesFinal
<1>n. \A t \in TxIds : phase[t] = "none" => ~InStatement(t)
  BY DEF InStatement
<1>x. ASSUME NEW t \in TxIds, NEW r \in held[t]
      PROVE  xmin'[r] = xmin[r] /\ xmin[r] \in TxIds /\ r \in RowIds
  <2>1. xmin[r] # InvalidTxID /\ r \in RowIds /\ xmin[r] \in TxIds
    BY <1>t, <1>x DEF HeldInv
  <2>2. ASSUME NEW u \in TxIds, NEW q \in RowIds, Insert(u, q)
        PROVE  xmin'[r] = xmin[r]
    <3>1. q = nextRow /\ xmin' = [xmin EXCEPT ![q] = u]
      BY <2>2 DEF Insert
    <3>2. q # r
      BY <2>1, <3>1, <1>t DEF StampsIssued
    <3>3. QED
      BY <3>1, <3>2, <2>1, <1>t
  <2>3. ASSUME NEW u \in TxIds, NEW q \in RowIds, NEW then \in {"writing", "replacing"}, Delete(u, q, then)
        PROVE  xmin'[r] = xmin[r]
    BY <2>3 DEF Delete
  <2>4. QED
    BY <2>1, <2>2, <2>3, StampsWritten
\* Nothing new is held, and nothing outside a statement.
<1>1. ASSUME \A u \in TxIds : held'[u] \subseteq held[u] /\ (~InStatement(u)' => held'[u] = {})
      PROVE  HeldInv'
  <2> SUFFICES ASSUME NEW u \in TxIds, NEW r \in held'[u]
               PROVE  xmin'[r] # InvalidTxID /\ (xmin'[r] = u \/ status'[xmin'[r]] = "Committed")
    BY <1>1 DEF HeldInv
  <2>1. r \in held[u]
    BY <1>1
  <2>2. xmin'[r] = xmin[r] /\ xmin[r] \in TxIds
    BY <2>1, <1>x
  <2>3. xmin[r] # InvalidTxID /\ (xmin[r] = u \/ status[xmin[r]] = "Committed")
    BY <2>1 DEF HeldInv
  <2>4. QED
    BY <2>2, <2>3, <1>o DEF Finished
<1>2. ASSUME NEW t \in TxIds, NEW ph, phase' = [phase EXCEPT ![t] = ph],
             \/ held' = held /\ (ph \in {"reading", "writing", "replacing"} \/ ~InStatement(t))
             \/ held' = [held EXCEPT ![t] = {}]
      PROVE  HeldInv'
  <2>1. ASSUME NEW u \in TxIds
        PROVE  held'[u] \subseteq held[u] /\ (~InStatement(u)' => held'[u] = {})
    BY <1>2, <1>t DEF HeldInv, InStatement
  <2>2. QED
    BY <2>1, <1>1
<1>3. ASSUME NEW t \in TxIds, Scan(t)
      PROVE  HeldInv'
  <2>1. /\ held' = [held EXCEPT ![t] = @ \cup ScanResult(t)]
        /\ UNCHANGED <<phase, xmin, status>> /\ phase[t] \in {"reading", "writing"}
    BY <1>3 DEF Scan, mgrVars, heapVars
  <2>2. \A r \in ScanResult(t) : xmin[r] # InvalidTxID /\ (xmin[r] = t \/ status[xmin[r]] = "Committed")
    BY <1>t DEF ScanResult, Visible, committed, Status
  <2>3. QED
    BY <2>1, <2>2, <1>t DEF HeldInv, InStatement
<1>4. ASSUME UNCHANGED <<phase, held>>
      PROVE  HeldInv'
  BY <1>4, <1>1 DEF HeldInv, InStatement
<1>5. ASSUME NEW t \in TxIds, NEW level \in Isolations, NEW ro \in BOOLEAN, Begin(t, level, ro)
      PROVE  HeldInv'
  <2>1. phase[t] = "none"
    BY <1>5, <1>o DEF Begin, ManagerInv
  <2>2. QED
    BY <2>1, <1>5, <1>2, <1>n DEF Begin
<1>6. ASSUME NEW t \in TxIds, BeginSnapshot(t) \/ BeginQuery(t) \/ BeginWrite(t)
      PROVE  HeldInv'
  <2>1. ~InStatement(t) /\ held' = held
    BY <1>6 DEF BeginSnapshot, BeginQuery, BeginWrite, NextStatement, InStatement
  <2>2. \E ph \in Phases : phase' = [phase EXCEPT ![t] = ph]
    BY <1>6 DEF BeginSnapshot, BeginQuery, BeginWrite, NextStatement, Phases
  <2>3. QED
    BY <2>1, <2>2, <1>2
<1>7. ASSUME NEW t \in TxIds, EndStatement(t) \/ FailStatement(t) \/ \E r \in RowIds : DeleteConflict(t, r)
      PROVE  HeldInv'
  BY <1>7, <1>2 DEF EndStatement, FailStatement, DeleteConflict
<1>8. ASSUME NEW t \in TxIds, NEW r \in RowIds, NEW then \in {"writing", "replacing"},
             Insert(t, r) \/ Delete(t, r, then)
      PROVE  HeldInv'
  BY <1>8, <1>2 DEF Insert, Delete
<1>9. ASSUME NEW t \in TxIds, NEW flushed \in BOOLEAN, Commit(t, flushed) \/ Rollback(t)
      PROVE  HeldInv'
  BY <1>9, <1>2 DEF Commit, Rollback, finish, InStatement
<1>10. ASSUME NEW h \in 1..(MaxTx + 1), Vacuum(h)
       PROVE  HeldInv'
  BY <1>10, <1>4 DEF Vacuum, txVars
<1>11. CASE UNCHANGED vars
  BY <1>11, <1>4 DEF vars, txVars
<1>12. QED
  BY <1>3, <1>5, <1>6, <1>7, <1>8, <1>9, <1>10, <1>11 DEF Next

(***************************************************************************)
(* What nobody sees.                                                       *)
(***************************************************************************)

\* A snapshot taken now sees the transactions that have committed, and no other
\* (TxManager.Take).
LEMMA TakeSees ==
  ASSUME TypeOK, ManagerInv
  PROVE  \A id \in 0..MaxTx : committed(Take, id) <=> id \in TxIds /\ status[id] = "Committed"
<1>h. /\ Horizon \in active \cup {next}
      /\ \A id \in active \cup {next} : Horizon <= id
  BY HorizonLeast
<1>t. /\ TxIds = 1..MaxTx /\ MaxTx \in Nat /\ InvalidTxID = 0 /\ next \in Int
  BY BoundsAssumption DEF TypeOK, TxIds, InvalidTxID
<1>1. ASSUME NEW id \in TxIds, status[id] = "Committed"
      PROVE  id < next /\ id \notin active
  BY <1>1, <1>t DEF ManagerInv
<1>2. QED
  BY <1>t, <1>1 DEF committed, Take, Status

\* A transaction that has begun and not ended is active.
LEMMA LiveActive ==
  ASSUME TypeOK, ManagerInv, NEW t \in TxIds, Live(t)
  PROVE  t \in active /\ status[t] = "InProgress" /\ t < next
<1>1. phase[t] # "none" /\ phase[t] # "done"
  BY DEF Live
<1>2. status[t] \in Statuses /\ next \in Int /\ t \in Int
  BY BoundsAssumption DEF TypeOK, TxIds
<1>3. QED
  BY <1>1, <1>2 DEF ManagerInv, Statuses, Finished

\* Whoever is in a transaction has been, with the same snapshot, or has taken one.
LEMMA LiveBegins ==
  ASSUME TypeOK, ManagerInv, [Next]_vars, NEW u \in TxIds, Live(u)'
  PROVE  \/ Live(u) /\ snap'[u] = snap[u]
         \/ snap'[u] = Take /\ UNCHANGED mgrVars
<1>t. phase \in [TxIds -> Phases] /\ snap \in [TxIds -> Snapshots]
  BY DEF TypeOK
<1>1. CASE snap'[u] = Take /\ UNCHANGED mgrVars
  BY <1>1
<1>2. CASE ~(snap'[u] = Take /\ UNCHANGED mgrVars)
  <2>1. snap'[u] = snap[u]
    BY <1>2, SnapshotsRetaken
  <2>2. ASSUME NEW t \in TxIds, BeginSnapshot(t)
        PROVE  Live(u)
    <3>1. UNCHANGED mgrVars /\ snap' = [snap EXCEPT ![t] = Take] /\ phase' = [phase EXCEPT ![t] = "ready"]
      BY <2>2 DEF BeginSnapshot
    <3>2. u # t
      BY <3>1, <1>2, <1>t
    <3>3. QED
      BY <3>1, <3>2, <1>t DEF Live
  <2>3. ASSUME NEW t \in TxIds, NEW level \in Isolations, NEW ro \in BOOLEAN, Begin(t, level, ro)
        PROVE  Live(u)
    BY <2>3, <1>t DEF Begin, Live
  <2>4. ASSUME NEW t \in TxIds,
               \/ BeginQuery(t) \/ BeginWrite(t) \/ EndStatement(t) \/ FailStatement(t)
               \/ \E r \in RowIds : \/ Insert(t, r) \/ DeleteConflict(t, r)
                                    \/ Delete(t, r, "writing") \/ Delete(t, r, "replacing")
        PROVE  Live(u)
    <3>1. \E ph \in Phases : phase' = [phase EXCEPT ![t] = ph] /\ Live(t)
      BY <2>4 DEF BeginQuery, BeginWrite, NextStatement, EndStatement, FailStatement, Insert, DeleteConflict,
                  Delete, Live, Phases
    <3>2. QED
      BY <3>1, <1>t DEF Live
  <2>5. ASSUME NEW t \in TxIds, NEW flushed \in BOOLEAN, Commit(t, flushed) \/ Rollback(t)
        PROVE  Live(u)
    BY <2>5, <1>t DEF Commit, Rollback, finish, Live
  <2>6. ASSUME UNCHANGED phase
        PROVE  Live(u)
    BY <2>6 DEF Live
  <2>7. QED
    BY <2>1, <2>2, <2>3, <2>4, <2>5, <2>6 DEF Next, vars, txVars, Scan, Vacuum
<1>3. QED
  BY <1>1, <1>2

\* What nobody sees stays so: its stamps are final, and a snapshot taken later
\* sees the transaction that deleted it.
LEMMA GoneStays ==
  ASSUME StorageInv, HeapInv, [Next]_vars, NEW r \in RowIds, Gone(r), r \notin linked'
  PROVE  Gone(r)'
<1>i. TypeOK /\ ManagerInv /\ StampsIssued /\ HeldInv
  BY DEF StorageInv, HeapInv
<1>t. /\ xmin \in [RowIds -> 0..MaxTx] /\ xmax \in [RowIds -> 0..MaxTx]
      /\ TxIds = 1..MaxTx /\ MaxTx \in Nat /\ InvalidTxID = 0
  BY <1>i, BoundsAssumption DEF TypeOK, TxIds, InvalidTxID
<1>o. \A id \in TxIds : status[id] \in Finished => status'[id] = status[id]
  BY <1>i, OutcomesFinal
<1>1. xmin'[r] = xmin[r]
  <2>1. ASSUME NEW t \in TxIds, NEW q \in RowIds, Insert(t, q)
        PROVE  xmin'[r] = xmin[r]
    BY <2>1, <1>t DEF Insert
  <2>2. ASSUME NEW t \in TxIds, NEW q \in RowIds, NEW then \in {"writing", "replacing"}, Delete(t, q, then)
        PROVE  xmin'[r] = xmin[r]
    BY <2>2 DEF Delete
  <2>3. QED
    BY <2>1, <2>2, StampsWritten
<1>2. CASE xmin[r] = InvalidTxID
  BY <1>1, <1>2 DEF Gone
<1>3. CASE xmin[r] # InvalidTxID /\ status[xmin[r]] = "Aborted"
  <2>1. xmin[r] \in TxIds
    BY <1>3, <1>t
  <2>2. QED
    BY <1>1, <1>3, <1>o, <2>1 DEF Gone, Finished
<1>4. CASE /\ xmin[r] # InvalidTxID /\ status[xmin[r]] # "Aborted"
           /\ xmax[r] # InvalidTxID /\ status[xmax[r]] = "Committed"
           /\ \A t \in TxIds : Live(t) => committed(snap[t], xmax[r])
  <2>1. xmax[r] \in TxIds
    BY <1>4, <1>t
  <2>2. xmax'[r] = xmax[r]
    <3>1. ASSUME NEW t \in TxIds, NEW q \in RowIds, NEW then \in {"writing", "replacing"}, Delete(t, q, then)
          PROVE  xmax'[r] = xmax[r]
      <4>1. ~Conflict(t, q) /\ xmax' = [xmax EXCEPT ![q] = t] /\ phase[t] = "writing"
        BY <3>1 DEF Delete
      <4>2. status[t] = "InProgress"
        BY <4>1, <1>i, LiveActive DEF Live
      <4>3. q # r
        BY <4>1, <4>2, <1>4 DEF Conflict, Status
      <4>4. QED
        BY <4>1, <4>3, <1>t
    <3>2. ASSUME NEW t \in TxIds, NEW q \in RowIds, Insert(t, q)
          PROVE  xmax'[r] = xmax[r]
      BY <3>2 DEF Insert
    <3>3. QED
      BY <3>1, <3>2, StampsWritten
  <2>3. status'[xmax[r]] = "Committed"
    BY <1>4, <1>o, <2>1 DEF Finished
  <2>4. ASSUME NEW t \in TxIds, Live(t)'
        PROVE  committed(snap[t], xmax[r])'
    <3>1. CASE Live(t) /\ snap'[t] = snap[t]
      <4>1. committed(snap[t], xmax[r])
        BY <3>1, <1>4
      <4>2. committed(snap[t], xmax[r])' = committed(snap[t], xmax[r])
        <5>1. PICK x \in 0..MaxTx : x = xmax[r]
          BY <1>t
        <5>2. committed(snap[t], x)' = committed(snap[t], x)
          BY <3>1, AnswersFixed
        <5>3. QED
          BY <5>1, <5>2, <2>2 DEF committed, Status
      <4>3. QED
        BY <4>1, <4>2
    <3>2. CASE snap'[t] = Take /\ UNCHANGED mgrVars
      <4>1. committed(Take, xmax[r])
        BY <1>i, <1>t, <1>4, <2>1, TakeSees
      <4>2. QED
        BY <4>1, <3>2, <2>2 DEF committed, Status, mgrVars
    <3>3. QED
      BY <2>4, <1>i, <3>1, <3>2, LiveBegins
  <2>5. QED
    BY <1>4, <2>2, <2>3, <2>4 DEF Gone
<1>5. QED
  BY <1>2, <1>3, <1>4 DEF Gone

\* What Vacuum discards between transactions was the work of one that aborted,
\* or deleted by one that committed, and there is no snapshot that could say
\* otherwise (Heap.Vacuum).
LEMMA VacuumedGone ==
  ASSUME TypeOK, ManagerInv, StampsIssued, Vacuuming # "any", NEW h \in 1..(MaxTx + 1), Vacuum(h),
         NEW r \in linked, r \notin linked'
  PROVE  Gone(r)'
<1>1. /\ active = {} /\ UNCHANGED <<status, phase, snap, xmin, xmax>>
      /\ deadTo(r, h)
  BY BoundsAssumption DEF Vacuum, mgrVars, txVars
<1>2. \A t \in TxIds : ~Live(t)
  BY <1>1, LiveActive
<1>3. /\ xmin[r] \in TxIds /\ xmin[r] < next /\ next \in Int
  BY BoundsAssumption DEF TypeOK, TxIds, InvalidTxID, StampsIssued, RowIds
<1>4. status[xmin[r]] # "Unknown"
  BY <1>3 DEF ManagerInv, TxIds
<1>5. CASE Status(xmin[r]) = "Aborted"
  BY <1>1, <1>4, <1>5 DEF Status, Gone
<1>6. CASE xmax[r] # InvalidTxID /\ Status(xmax[r]) = "Committed"
  BY <1>1, <1>2, <1>6 DEF Status, Gone, Live
<1>7. QED
  BY <1>1, <1>5, <1>6 DEF deadTo

\* Every step keeps the invariant.
LEMMA NextHeap == StorageInv /\ HeapInv /\ [Next]_vars => HeapInv'
<1> SUFFICES ASSUME StorageInv, HeapInv, [Next]_vars
             PROVE  HeapInv'
  OBVIOUS
<1>i. TypeOK /\ ManagerInv /\ StampsIssued /\ HeldInv
  BY DEF StorageInv, HeapInv
<1>1. StampsIssued' /\ HeldInv'
  BY <1>i, NextStamped, NextHeldInv
<1>2. ASSUME Vacuuming # "any", NEW r \in RowIds, r \notin linked'
      PROVE  Gone(r)'
  <2>1. CASE r \notin linked
    BY <1>2, <2>1, GoneStays DEF HeapInv
  <2>2. CASE r \in linked
    <3>1. \E h \in 1..(MaxTx + 1) : Vacuum(h)
      BY <1>2, <2>2 DEF Next, vars, heapVars, Begin, BeginSnapshot, BeginQuery, BeginWrite, Scan,
         EndStatement, FailStatement, Insert, Delete, DeleteConflict, Commit, Rollback, finish
    <3>2. QED
      BY <1>2, <1>i, <2>2, <3>1, VacuumedGone
  <2>3. QED
    BY <2>1, <2>2
<1>3. QED
  BY <1>1, <1>2 DEF HeapInv

\* Stamps, statements and discarded versions are in order in every reachable
\* state, for every bound.
THEOREM HeapInvariant == Spec => []HeapInv
<1>1. QED
  BY InitHeap, NextHeap, StorageInvariant, PTL DEF Spec

(***************************************************************************)
(* Two action properties.                                                  *)
(***************************************************************************)

\* Vacuum, given any horizon that has been current and at any time, removes no
\* row that a transaction beginning now would read (Heap.deadTo).
THEOREM VacuumHarmless == Spec => VacuumKeepsCurrent
<1>1. ASSUME StorageInv, HeapInv, [Next]_vars, linked' \subseteq linked, linked' # linked
      PROVE  CurrentRows' = CurrentRows
  <2>i. TypeOK /\ ManagerInv /\ StampsIssued
    BY <1>1 DEF StorageInv, HeapInv
  <2>t. /\ xmin \in [RowIds -> 0..MaxTx] /\ xmax \in [RowIds -> 0..MaxTx] /\ linked \in SUBSET RowIds
        /\ TxIds = 1..MaxTx /\ MaxTx \in Nat /\ InvalidTxID = 0 /\ next \in Int
    BY <2>i, BoundsAssumption DEF TypeOK, TxIds, InvalidTxID
  <2>1. PICK h \in 1..(MaxTx + 1) : Vacuum(h)
    BY <1>1 DEF Next, vars, heapVars, Begin, BeginSnapshot, BeginQuery, BeginWrite, Scan,
       EndStatement, FailStatement, Insert, Delete, DeleteConflict, Commit, Rollback, finish
  <2>2. /\ UNCHANGED <<status, next, active, xmin, xmax>>
        /\ linked' = {r \in linked : ~deadTo(r, h)}
    BY <2>1 DEF Vacuum, mgrVars
  <2>3. ASSUME NEW r \in linked, deadTo(r, h)
        PROVE  ~Visible(r, Take, next)
    <3>1. xmin[r] \in TxIds /\ xmin[r] < next /\ xmax[r] < next /\ xmin[r] \in Int /\ xmax[r] \in Int
      BY <2>i, <2>t, <2>3 DEF StampsIssued
    <3>2. CASE Status(xmin[r]) = "Aborted"
      BY <3>1, <3>2, <2>t DEF Visible, committed
    <3>3. CASE xmax[r] # InvalidTxID /\ Status(xmax[r]) = "Committed"
      <4>1. xmax[r] \in TxIds /\ status[xmax[r]] = "Committed" /\ xmax[r] \in 0..MaxTx
        BY <3>1, <3>3, <2>t DEF Status
      <4>2. committed(Take, xmax[r])
        BY <2>i, <4>1, TakeSees
      <4>3. QED
        BY <3>3, <4>2 DEF Visible
    <3>4. QED
      BY <2>3, <3>2, <3>3 DEF deadTo
  <2>4. Take' = Take
    BY <2>2 DEF Take, Horizon
  <2>5. \A r \in linked : Visible(r, Take, next)' <=> Visible(r, Take, next)
    BY <2>2, <2>4 DEF Visible, committed, Status
  <2>6. QED
    BY <2>2, <2>3, <2>5 DEF CurrentRows
<1>2. StorageInv /\ HeapInv /\ [Next]_vars =>
        [linked' \subseteq linked /\ linked' # linked => CurrentRows' = CurrentRows]_vars
  BY <1>1
<1>3. QED
  BY StorageInvariant, HeapInvariant, <1>2, PTL DEF Spec, VacuumKeepsCurrent

\* What the snapshot of a running transaction says of a version changes only
\* where the transaction itself stamps it.
LEMMA SightFixed ==
  ASSUME StorageInv, HeapInv, [Next]_vars, NEW t \in TxIds, snap'[t] = snap[t], NEW r \in RowIds
  PROVE  /\ committed(snap[t], xmin[r])' = committed(snap[t], xmin[r])
         /\ committed(snap[t], xmax[r])' = committed(snap[t], xmax[r])
<1>i. TypeOK /\ ManagerInv /\ StampsIssued /\ HeldInv
  BY DEF StorageInv, HeapInv
<1>t. /\ xmin \in [RowIds -> 0..MaxTx] /\ xmax \in [RowIds -> 0..MaxTx]
      /\ TxIds = 1..MaxTx /\ MaxTx \in Nat /\ InvalidTxID = 0 /\ nextRow \in Int /\ RowIds \subseteq Int
  BY <1>i, BoundsAssumption DEF TypeOK, TxIds, InvalidTxID, RowIds
<1>a. ASSUME NEW id \in 0..MaxTx
      PROVE  committed(snap[t], id)' = committed(snap[t], id)
  BY AnswersFixed
<1>1. ASSUME UNCHANGED <<xmin, xmax>>
      PROVE  /\ committed(snap[t], xmin[r])' = committed(snap[t], xmin[r])
             /\ committed(snap[t], xmax[r])' = committed(snap[t], xmax[r])
  <2>1. PICK a \in 0..MaxTx, b \in 0..MaxTx : a = xmin[r] /\ b = xmax[r]
    BY <1>t
  <2>2. committed(snap[t], a)' = committed(snap[t], a) /\ committed(snap[t], b)' = committed(snap[t], b)
    BY <1>a
  <2>3. QED
    BY <1>1, <2>1, <2>2 DEF committed, Status
<1>2. ASSUME NEW u \in TxIds, NEW q \in RowIds, Insert(u, q)
      PROVE  /\ committed(snap[t], xmin[r])' = committed(snap[t], xmin[r])
             /\ committed(snap[t], xmax[r])' = committed(snap[t], xmax[r])
  <2>1. /\ xmin' = [xmin EXCEPT ![q] = u] /\ UNCHANGED <<xmax, status, snap>>
        /\ q = nextRow /\ Live(u)
    BY <1>2 DEF Insert, mgrVars, Live
  <2>2. xmin[q] = InvalidTxID
    BY <2>1, <1>i, <1>t DEF StampsIssued
  <2>3. status[u] = "InProgress"
    BY <2>1, <1>i, LiveActive
  <2>4. QED
    BY <2>1, <2>2, <2>3, <1>t DEF committed, Status
<1>3. ASSUME NEW u \in TxIds, NEW q \in RowIds, NEW then \in {"writing", "replacing"}, Delete(u, q, then)
      PROVE  /\ committed(snap[t], xmin[r])' = committed(snap[t], xmin[r])
             /\ committed(snap[t], xmax[r])' = committed(snap[t], xmax[r])
  <2>1. /\ xmax' = [xmax EXCEPT ![q] = u] /\ UNCHANGED <<xmin, status, snap>>
        /\ ~Conflict(u, q) /\ Live(u)
    BY <1>3 DEF Delete, mgrVars, Live
  <2>2. status[u] = "InProgress"
    BY <2>1, <1>i, LiveActive
  <2>3. ~committed(snap[t], xmax[q]) /\ ~committed(snap[t], u)
    BY <2>1, <2>2, <1>t DEF committed, Conflict, Status
  <2>4. QED
    BY <2>1, <2>3, <1>t DEF committed, Status
<1>4. QED
  BY <1>1, <1>2, <1>3, StampsWritten

\* Without a Vacuum beside it, a transaction that keeps its snapshot reads the
\* same rows again, but for those it wrote itself (Tx.NextStatement).
THEOREM ReadsRepeat == ASSUME Vacuuming # "any" PROVE Spec => RepeatableReads
<1>1. ASSUME StorageInv, HeapInv, [Next]_vars, NEW t \in TxIds,
             iso[t] = "RepeatableRead", phase[t] \notin {"none", "begun", "done"},
             NEW r \in RowIds, t \notin {xmin'[r], xmax'[r]}
      PROVE  (r \in ScanResult(t)) = (r \in ScanResult(t)')
  <2>i. TypeOK /\ ManagerInv /\ StampsIssued
    BY <1>1 DEF StorageInv, HeapInv
  <2>t. /\ xmin \in [RowIds -> 0..MaxTx] /\ xmax \in [RowIds -> 0..MaxTx] /\ linked \in SUBSET RowIds
        /\ phase \in [TxIds -> Phases] /\ snap \in [TxIds -> Snapshots]
        /\ TxIds = 1..MaxTx /\ MaxTx \in Nat /\ InvalidTxID = 0 /\ next \in Int
        /\ nextRow \in Int /\ RowIds \subseteq Int
    BY <2>i, BoundsAssumption DEF TypeOK, TxIds, InvalidTxID, RowIds
  <2>1. Live(t)
    BY <1>1, <2>t DEF Live, Phases
  <2>2. t \in active /\ status[t] = "InProgress"
    BY <2>1, <2>i, LiveActive
  <2>3. snap'[t] = snap[t]
    <3>1. ASSUME NEW u \in TxIds, BeginSnapshot(u) \/ BeginQuery(u) \/ BeginWrite(u)
          PROVE  snap'[t] = snap[t]
      BY <3>1, <1>1, <2>t DEF BeginSnapshot, BeginQuery, BeginWrite, NextStatement
    <3>2. \/ UNCHANGED snap
          \/ \E u \in TxIds : BeginSnapshot(u) \/ BeginQuery(u) \/ BeginWrite(u)
      BY <1>1 DEF Next, vars, txVars, Begin, Scan, EndStatement, FailStatement,
         Insert, Delete, DeleteConflict, Commit, Rollback, finish, Vacuum
    <3>3. QED
      BY <3>1, <3>2
  <2>4. /\ committed(snap[t], xmin[r])' = committed(snap[t], xmin[r])
        /\ committed(snap[t], xmax[r])' = committed(snap[t], xmax[r])
    BY <1>1, <2>3, SightFixed
  <2>5. xmin[r] # t /\ xmax[r] # t
    <3>1. ASSUME NEW u \in TxIds, NEW q \in RowIds, Insert(u, q)
          PROVE  xmin[r] # t /\ xmax[r] # t
      <4>1. q = nextRow /\ xmin' = [xmin EXCEPT ![q] = u] /\ xmax' = xmax
        BY <3>1 DEF Insert
      <4>2. xmin[q] = InvalidTxID
        BY <4>1, <2>i, <2>t DEF StampsIssued
      <4>3. QED
        BY <4>1, <4>2, <1>1, <2>t
    <3>2. ASSUME NEW u \in TxIds, NEW q \in RowIds, NEW then \in {"writing", "replacing"}, Delete(u, q, then)
          PROVE  xmin[r] # t /\ xmax[r] # t
      <4>1. xmax' = [xmax EXCEPT ![q] = u] /\ xmin' = xmin /\ ~Conflict(u, q)
        BY <3>2 DEF Delete
      <4>2. CASE q # r
        BY <4>1, <4>2, <1>1, <2>t
      <4>3. CASE q = r
        BY <4>1, <4>3, <1>1, <2>t, <2>2 DEF Conflict, Status
      <4>4. QED
        BY <4>2, <4>3
    <3>3. QED
      BY <3>1, <3>2, <1>1, StampsWritten
  <2>6. Visible(r, snap[t], t)' = Visible(r, snap[t], t)
    <3>1. committed(snap[t], InvalidTxID) = FALSE /\ committed(snap[t], InvalidTxID)' = FALSE
      BY DEF committed
    <3>2. Visible(r, snap[t], t) = (committed(snap[t], xmin[r]) /\ ~committed(snap[t], xmax[r]))
      BY <2>5, <3>1 DEF Visible
    <3>3. Visible(r, snap[t], t)' = (committed(snap[t], xmin[r])' /\ ~committed(snap[t], xmax[r])')
      BY <1>1, <3>1 DEF Visible, committed, Status
    <3>4. QED
      BY <2>4, <3>2, <3>3
  <2>7. Visible(r, snap[t], t) => (r \in linked <=> r \in linked')
    <3>1. ASSUME Visible(r, snap[t], t)
          PROVE  r \in linked /\ r < nextRow
      <4>1. committed(snap[t], xmin[r]) /\ ~committed(snap[t], xmax[r])
        BY <3>1, <2>5 DEF Visible, committed
      <4>2. ~Gone(r)
        BY <4>1, <2>1 DEF Gone, committed, Status
      <4>3. QED
        BY <4>1, <4>2, <1>1, <2>i, <2>t DEF HeapInv, StampsIssued, committed
    <3>2. ASSUME r \in linked, r \notin linked'
          PROVE  FALSE
      <4>1. \E h \in 1..(MaxTx + 1) : Vacuum(h)
        BY <1>1, <3>2 DEF Next, vars, heapVars, Begin, BeginSnapshot, BeginQuery, BeginWrite, Scan,
           EndStatement, FailStatement, Insert, Delete, DeleteConflict, Commit, Rollback, finish
      <4>2. QED
        BY <4>1, <2>2, BoundsAssumption DEF Vacuum
    <3>3. QED
      BY <3>1, <3>2
  <2>8. QED
    BY <2>6, <2>7 DEF ScanResult
<1>2. StorageInv /\ HeapInv /\ [Next]_vars =>
        [\A t \in TxIds :
           (iso[t] = "RepeatableRead" /\ phase[t] \notin {"none", "begun", "done"}) =>
             \A r \in RowIds : (r \in ScanResult(t)) # (r \in ScanResult(t)') =>
               t \in {xmin'[r], xmax'[r]}]_vars
  BY <1>1
<1>3. QED
  BY StorageInvariant, HeapInvariant, <1>2, PTL DEF Spec, RepeatableReads

(***************************************************************************)
(* The refinement.                                                         *)
(***************************************************************************)

\* The transactions that have committed.
Committers == {id \in TxIds : status[id] = "Committed"}

\* The store is what a snapshot taken now sees: the rows of the transactions that
\* have committed, without those that one of them deleted.
LEMMA StoreIs ==
  TypeOK /\ ManagerInv => Store = {r \in RowIds : xmin[r] \in Committers /\ xmax[r] \notin Committers}
<1> SUFFICES ASSUME TypeOK, ManagerInv
             PROVE  Store = {r \in RowIds : xmin[r] \in Committers /\ xmax[r] \notin Committers}
  OBVIOUS
<1>1. \A r \in RowIds : xmin[r] \in 0..MaxTx /\ xmax[r] \in 0..MaxTx
  BY DEF TypeOK
<1>2. QED
  BY <1>1, TakeSees DEF Store, SeenBy, Committers

\* Nothing but a commit changes the store: what a transaction writes, and what it
\* leaves behind when it aborts, counts for nothing in it.
LEMMA StoreFixed ==
  ASSUME StorageInv, HeapInv, StorageInv', [Next]_vars,
         Committers' = Committers
  PROVE  Store' = Store
<1>i. TypeOK /\ ManagerInv /\ StampsIssued
  BY DEF StorageInv, HeapInv
<1>t. /\ xmin \in [RowIds -> 0..MaxTx] /\ xmax \in [RowIds -> 0..MaxTx]
      /\ TxIds = 1..MaxTx /\ MaxTx \in Nat /\ InvalidTxID = 0 /\ nextRow \in Int
  BY <1>i, BoundsAssumption DEF TypeOK, TxIds, InvalidTxID
<1>1. Store = {r \in RowIds : xmin[r] \in Committers /\ xmax[r] \notin Committers}
  BY <1>i, StoreIs
<1>2. Store' = {r \in RowIds : xmin'[r] \in Committers' /\ xmax'[r] \notin Committers'}
  <2>1. (TypeOK /\ ManagerInv)' =>
         (Store = {r \in RowIds : xmin[r] \in Committers /\ xmax[r] \notin Committers})'
    BY StoreIs, PTL
  <2>2. QED
    BY <2>1 DEF StorageInv
<1>3. ASSUME UNCHANGED <<xmin, xmax>>
      PROVE  Store' = Store
  BY <1>1, <1>2, <1>3
<1>4. ASSUME NEW t \in TxIds, NEW q \in RowIds, Insert(t, q)
      PROVE  Store' = Store
  <2>1. xmin' = [xmin EXCEPT ![q] = t] /\ xmax' = xmax /\ q = nextRow /\ Live(t)
    BY <1>4 DEF Insert, Live
  <2>2. xmin[q] = InvalidTxID /\ InvalidTxID \notin Committers /\ t \notin Committers
    BY <2>1, <1>i, <1>t, LiveActive DEF StampsIssued, Committers
  <2>3. QED
    BY <1>1, <1>2, <1>t, <2>1, <2>2
<1>5. ASSUME NEW t \in TxIds, NEW q \in RowIds, NEW then \in {"writing", "replacing"}, Delete(t, q, then)
      PROVE  Store' = Store
  <2>1. xmax' = [xmax EXCEPT ![q] = t] /\ xmin' = xmin /\ ~Conflict(t, q) /\ Live(t)
    BY <1>5 DEF Delete, Live
  <2>2. xmax[q] \notin Committers /\ t \notin Committers
    BY <2>1, <1>i, <1>t, LiveActive DEF Conflict, Status, Committers
  <2>3. QED
    BY <1>1, <1>2, <1>t, <2>1, <2>2
<1>6. QED
  BY <1>3, <1>4, <1>5, StampsWritten

\* A view moves only when its transaction takes a snapshot, and then to the store.
LEMMA ViewFixed ==
  ASSUME StorageInv, HeapInv, [Next]_vars, NEW t \in TxIds, snap'[t] = snap[t]
  PROVE  View'[t] = View[t]
<1>1. \A r \in RowIds : /\ committed(snap[t], xmin[r])' = committed(snap[t], xmin[r])
                        /\ committed(snap[t], xmax[r])' = committed(snap[t], xmax[r])
  BY SightFixed
<1>2. View[t] = {r \in RowIds : committed(snap[t], xmin[r]) /\ ~committed(snap[t], xmax[r])}
  BY DEF View, SeenBy
<1>3. View'[t] = {r \in RowIds : committed(snap[t], xmin[r])' /\ ~committed(snap[t], xmax[r])'}
  BY DEF View, SeenBy
<1>4. QED
  BY <1>1, <1>2, <1>3

LEMMA ViewTaken ==
  ASSUME NEW t \in TxIds, snap'[t] = Take, UNCHANGED <<mgrVars, heapVars>>
  PROVE  View'[t] = Store
BY DEF View, Store, SeenBy, committed, Status, mgrVars, heapVars

\* A scan returns the view with the transaction's own writes laid over it: what
\* Vacuum discarded is in no running transaction's view, and only the transaction
\* itself can have deleted what it inserted.
LEMMA ScanReads ==
  ASSUME StorageInv, HeapInv, Vacuuming # "any", NEW t \in TxIds, Live(t)
  PROVE  ScanResult(t) = (View[t] \cup Inserted[t]) \ Deleted[t]
<1>i. TypeOK /\ ManagerInv /\ StampsIssued
  BY DEF StorageInv, HeapInv
<1>t. /\ xmin \in [RowIds -> 0..MaxTx] /\ xmax \in [RowIds -> 0..MaxTx] /\ linked \in SUBSET RowIds
      /\ TxIds = 1..MaxTx /\ MaxTx \in Nat /\ InvalidTxID = 0
  BY <1>i, BoundsAssumption DEF TypeOK, TxIds, InvalidTxID
<1>1. status[t] = "InProgress"
  BY <1>i, LiveActive
<1>2. ~committed(snap[t], InvalidTxID) /\ ~committed(snap[t], t) /\ t # InvalidTxID
  BY <1>1, <1>t DEF committed, Status
<1>3. ASSUME NEW r \in RowIds
      PROVE  r \in ScanResult(t) <=> r \in (View[t] \cup Inserted[t]) \ Deleted[t]
  <2>1. r \in View[t] <=> committed(snap[t], xmin[r]) /\ ~committed(snap[t], xmax[r])
    BY DEF View, SeenBy
  <2>2. (r \in Inserted[t] <=> xmin[r] = t) /\ (r \in Deleted[t] <=> xmax[r] = t)
    BY <1>1 DEF Inserted, Deleted
  <2>3. xmin[r] = t => xmax[r] \in {InvalidTxID, t}
    BY <1>i, <1>1, <1>2 DEF StampsIssued
  <2>4. Visible(r, snap[t], t) <=> r \in (View[t] \cup Inserted[t]) \ Deleted[t]
    BY <2>1, <2>2, <2>3, <1>2 DEF Visible
  <2>5. Visible(r, snap[t], t) => r \in linked
    <3>1. Visible(r, snap[t], t) => ~Gone(r)
      BY <1>1, <1>2 DEF Visible, Gone, committed, Status
    <3>2. QED
      BY <3>1 DEF HeapInv
  <2>6. QED
    BY <2>4, <2>5 DEF ScanResult
<1>4. ScanResult(t) \subseteq RowIds /\ View[t] \subseteq RowIds /\ Inserted[t] \subseteq RowIds
  BY <1>t DEF ScanResult, View, Inserted
<1>5. QED
  BY <1>3, <1>4

\* A new or a recovered database is an initial state of snapshot isolation.
LEMMA InitRefines == Init => SI!Init
<1> SUFFICES ASSUME Init PROVE SI!Init
  OBVIOUS
<1>1. TypeOK /\ ManagerInv
  BY InitInv DEF StorageInv
<1>t. TxIds = 1..MaxTx /\ MaxTx \in Nat /\ MaxTx > 0 /\ Boot \in {0, 1} /\ InvalidTxID = 0
  BY BoundsAssumption DEF TxIds, Boot, InvalidTxID
<1>2. Store = {r \in RowIds : xmin[r] \in Committers /\ xmax[r] \notin Committers}
  BY <1>1, StoreIs
<1>3. Store \in SUBSET RowIds
  BY <1>2
<1>4. Stage \in [TxIds -> {"idle", "committed"}]
  BY DEF Init, Stage
<1>5. View = [t \in TxIds |-> {}]
  BY <1>t DEF Init, View, SeenBy, committed, NoSnapshot, RowIds
<1>6. Inserted \in [TxIds -> SUBSET Store]
  BY <1>2, <1>t DEF Init, Inserted, Committers, RowIds
<1>7. Deleted = [t \in TxIds |-> {}]
  BY <1>t DEF Init, Deleted, RowIds
<1>8. held = [t \in TxIds |-> {}]
  BY DEF Init
<1>9. QED
  BY <1>3, <1>4, <1>5, <1>6, <1>7, <1>8 DEF SI!Init

\* A step that moves no snapshot and settles no transaction leaves the store and
\* the views alone.
LEMMA SameStoreAndViews ==
  ASSUME StorageInv, HeapInv, StorageInv', [Next]_vars, UNCHANGED <<status, snap>>
  PROVE  Store' = Store /\ View' = View
<1>1. Store' = Store
  BY StoreFixed DEF Committers
<1>2. \A t \in TxIds : View'[t] = View[t]
  BY ViewFixed
<1>3. QED
  BY <1>1, <1>2 DEF View

\* A transaction whose new snapshot becomes its view, and what the others have
\* in theirs (TxManager.Take).
LEMMA RefreshRefines ==
  ASSUME StorageInv, HeapInv, StorageInv', [Next]_vars, NEW t \in TxIds, Stage[t] \in {"idle", "open"},
         Live(t)', snap' = [snap EXCEPT ![t] = Take], UNCHANGED <<mgrVars, heapVars, held>>,
         \A u \in TxIds \ {t} : phase'[u] = phase[u]
  PROVE  SI!Refresh(t)
<1>t. snap \in [TxIds -> Snapshots]
  BY DEF StorageInv, TypeOK
<1>1. Store' = Store
  BY StoreFixed DEF Committers, mgrVars
<1>2. View' = [View EXCEPT ![t] = Store]
  <2>1. View'[t] = Store
    BY <1>t, ViewTaken
  <2>2. \A u \in TxIds \ {t} : View'[u] = View[u]
    BY <1>t, ViewFixed
  <2>3. QED
    BY <2>1, <2>2 DEF View
<1>3. Stage' = [Stage EXCEPT ![t] = "open"]
  BY DEF Stage, Live, mgrVars
<1>4. Inserted' = Inserted /\ Deleted' = Deleted
  BY DEF Inserted, Deleted, mgrVars, heapVars
<1>5. QED
  BY <1>1, <1>2, <1>3, <1>4 DEF SI!Refresh

LEMMA BeginRefines ==
  ASSUME StorageInv, HeapInv, StorageInv', [Next]_vars,
         NEW t \in TxIds, NEW level \in Isolations, NEW ro \in BOOLEAN, Begin(t, level, ro)
  PROVE  UNCHANGED SI!vars
<1>t. /\ phase \in [TxIds -> Phases] /\ status \in [TxIds -> Statuses] /\ TxIds \subseteq Int /\ next \in Int
      /\ phase[t] = "none" /\ status[t] = "Unknown"
  BY BoundsAssumption DEF StorageInv, TypeOK, ManagerInv, TxIds, Begin
<1>b. /\ status' = [status EXCEPT ![t] = "InProgress"] /\ phase' = [phase EXCEPT ![t] = "begun"]
      /\ UNCHANGED <<xmin, xmax, held, snap>>
  BY DEF Begin, heapVars
<1>1. Store' = Store
  BY <1>b, <1>t, StoreFixed DEF Committers
<1>2. View' = View
  <2>1. \A u \in TxIds : View'[u] = View[u]
    BY <1>b, ViewFixed
  <2>2. QED
    BY <2>1 DEF View
<1>3. Stage' = Stage
  BY <1>b, <1>t DEF Stage
<1>4. Inserted' = Inserted /\ Deleted' = Deleted
  BY <1>b, <1>t DEF Inserted, Deleted
<1>5. QED
  BY <1>1, <1>2, <1>3, <1>4, <1>b DEF SI!vars

LEMMA BeginSnapshotRefines ==
  ASSUME StorageInv, HeapInv, StorageInv', [Next]_vars, NEW t \in TxIds, BeginSnapshot(t)
  PROVE  SI!Refresh(t)
<1>1. phase \in [TxIds -> Phases]
  BY DEF StorageInv, TypeOK
<1>2. Stage[t] = "idle"
  BY DEF BeginSnapshot, Stage
<1>3. Live(t)' /\ (\A u \in TxIds \ {t} : phase'[u] = phase[u])
  BY <1>1 DEF BeginSnapshot, Live
<1>4. QED
  BY <1>2, <1>3, RefreshRefines DEF BeginSnapshot

\* Only a statement of a ReadCommitted transaction is a step of the abstract
\* transaction: the others read through the view they have.
LEMMA StatementRefines ==
  ASSUME StorageInv, HeapInv, StorageInv', [Next]_vars, NEW t \in TxIds, BeginQuery(t) \/ BeginWrite(t)
  PROVE  SI!Refresh(t) \/ UNCHANGED SI!vars
<1>t. phase \in [TxIds -> Phases] /\ snap \in [TxIds -> Snapshots]
  BY DEF StorageInv, TypeOK
<1>1. /\ phase[t] = "ready" /\ Live(t)'
      /\ \A u \in TxIds \ {t} : phase'[u] = phase[u]
      /\ snap' = [snap EXCEPT ![t] = IF iso[t] = "ReadCommitted" THEN Take ELSE @]
      /\ UNCHANGED <<mgrVars, heapVars, held>>
  BY <1>t DEF BeginQuery, BeginWrite, NextStatement, Live
<1>2. CASE iso[t] = "ReadCommitted"
  <2>1. Stage[t] = "open"
    BY <1>1 DEF Stage
  <2>2. QED
    BY <1>1, <1>2, <2>1, RefreshRefines
<1>3. CASE iso[t] # "ReadCommitted"
  <2>1. UNCHANGED <<status, snap, xmin, xmax, held>>
    BY <1>1, <1>3, <1>t DEF mgrVars, heapVars
  <2>2. Store' = Store /\ View' = View
    BY <2>1, SameStoreAndViews
  <2>3. Stage' = Stage
    BY <1>1, <2>1 DEF Stage, Live
  <2>4. Inserted' = Inserted /\ Deleted' = Deleted
    BY <2>1 DEF Inserted, Deleted
  <2>5. QED
    BY <2>1, <2>2, <2>3, <2>4 DEF SI!vars
<1>4. QED
  BY <1>2, <1>3

LEMMA ScanRefines ==
  ASSUME StorageInv, HeapInv, StorageInv', [Next]_vars, Vacuuming # "any", NEW t \in TxIds, Scan(t)
  PROVE  SI!Read(t)
<1>1. /\ Live(t) /\ held' = [held EXCEPT ![t] = @ \cup ScanResult(t)]
      /\ UNCHANGED <<status, phase, snap, xmin, xmax>>
  BY DEF Scan, Live, mgrVars, heapVars
<1>2. ScanResult(t) = SI!Reads(t)
  BY <1>1, ScanReads DEF SI!Reads
<1>3. Store' = Store /\ View' = View
  BY <1>1, SameStoreAndViews
<1>4. Stage' = Stage /\ Inserted' = Inserted /\ Deleted' = Deleted /\ Stage[t] = "open"
  BY <1>1 DEF Stage, Inserted, Deleted, Live
<1>5. QED
  BY <1>1, <1>2, <1>3, <1>4 DEF SI!Read

LEMMA ForgetRefines ==
  ASSUME StorageInv, HeapInv, StorageInv', [Next]_vars, NEW t \in TxIds,
         EndStatement(t) \/ FailStatement(t) \/ \E r \in RowIds : DeleteConflict(t, r)
  PROVE  SI!Forget(t)
<1>t. phase \in [TxIds -> Phases]
  BY DEF StorageInv, TypeOK
<1>1. /\ Live(t) /\ held' = [held EXCEPT ![t] = {}] /\ phase' = [phase EXCEPT ![t] = "ready"]
      /\ UNCHANGED <<status, snap, xmin, xmax>>
  BY DEF EndStatement, FailStatement, DeleteConflict, Live, mgrVars, heapVars
<1>2. Store' = Store /\ View' = View
  BY <1>1, SameStoreAndViews
<1>3. Stage' = Stage /\ Inserted' = Inserted /\ Deleted' = Deleted
  BY <1>1, <1>t DEF Stage, Inserted, Deleted, Live
<1>4. QED
  BY <1>1, <1>2, <1>3 DEF SI!Forget

\* A new version is in no view and no store: its id was not allocated before.
LEMMA InsertRefines ==
  ASSUME StorageInv, HeapInv, StorageInv', [Next]_vars, NEW t \in TxIds, NEW r \in RowIds, Insert(t, r)
  PROVE  SI!Insert(t, r)
<1>i. TypeOK /\ ManagerInv /\ StampsIssued
  BY DEF StorageInv, HeapInv
<1>t. /\ phase \in [TxIds -> Phases] /\ xmin \in [RowIds -> 0..MaxTx]
      /\ InvalidTxID = 0 /\ InvalidTxID \notin TxIds
  BY <1>i, BoundsAssumption DEF TypeOK, InvalidTxID, TxIds
<1>1. /\ Live(t) /\ phase' = [phase EXCEPT ![t] = "writing"] /\ xmin' = [xmin EXCEPT ![r] = t]
      /\ UNCHANGED <<status, snap, xmax, held>> /\ r = nextRow
  BY DEF Insert, Live, mgrVars
<1>2. xmin[r] = InvalidTxID
  BY <1>1, <1>i, <1>t DEF StampsIssued, TypeOK
<1>3. Store' = Store /\ View' = View
  BY <1>1, SameStoreAndViews
<1>4. Stage' = Stage /\ Stage[t] = "open" /\ Deleted' = Deleted
  BY <1>1, <1>t DEF Stage, Deleted, Live
<1>5. Inserted' = [Inserted EXCEPT ![t] = @ \cup {r}]
  <2>1. status[t] = "InProgress"
    BY <1>1, <1>i, LiveActive
  <2>2. \A u \in TxIds : Inserted'[u] = IF u = t THEN Inserted[u] \cup {r} ELSE Inserted[u]
    BY <1>1, <1>2, <1>t, <2>1 DEF Inserted
  <2>3. QED
    BY <2>2 DEF Inserted
<1>6. r \notin Store
  BY <1>2 DEF Store, SeenBy, committed
<1>7. \A u \in TxIds : r \notin Inserted[u] /\ r \notin View[u]
  BY <1>2, <1>t DEF Inserted, View, SeenBy, committed
<1>8. QED
  BY <1>1, <1>3, <1>4, <1>5, <1>6, <1>7 DEF SI!Insert

\* First updater wins: the stamp that Delete overwrites is its own or that of a
\* transaction that aborted, so it takes no deletion away from anybody.
LEMMA DeleteRefines ==
  ASSUME StorageInv, HeapInv, StorageInv', [Next]_vars,
         NEW t \in TxIds, NEW r \in RowIds, NEW then \in {"writing", "replacing"}, Delete(t, r, then)
  PROVE  SI!Delete(t, r)
<1>i. TypeOK /\ ManagerInv /\ StampsIssued
  BY DEF StorageInv, HeapInv
<1>t. /\ phase \in [TxIds -> Phases] /\ xmax \in [RowIds -> 0..MaxTx] /\ status \in [TxIds -> Statuses]
      /\ TxIds \subseteq Int /\ next \in Int /\ InvalidTxID \notin TxIds
  BY <1>i, BoundsAssumption DEF TypeOK, TxIds, InvalidTxID
<1>1. /\ Live(t) /\ phase' = [phase EXCEPT ![t] = then] /\ xmax' = [xmax EXCEPT ![r] = t]
      /\ UNCHANGED <<status, snap, xmin, held>> /\ r \in held[t] /\ ~Conflict(t, r)
      /\ then \notin {"none", "begun", "done"}
  BY DEF Delete, Live, mgrVars
<1>2. Store' = Store /\ View' = View
  BY <1>1, SameStoreAndViews
<1>3. Stage' = Stage /\ Stage[t] = "open" /\ Inserted' = Inserted
  BY <1>1, <1>t DEF Stage, Inserted, Live
<1>4. \A u \in TxIds \ {t} : r \notin Deleted[u]
  <2> SUFFICES ASSUME NEW u \in TxIds \ {t}, xmax[r] = u
               PROVE  status[u] = "Aborted"
    BY DEF Deleted
  <2>1. status[u] # "Unknown"
    BY <1>i, <1>t DEF StampsIssued, ManagerInv
  <2>2. Status(u) \notin {"InProgress", "Committed"}
    BY <1>1, <1>t DEF Conflict
  <2>3. QED
    BY <2>1, <2>2, <1>t DEF Status, Statuses
<1>5. Deleted' = [Deleted EXCEPT ![t] = @ \cup {r}]
  <2>1. status[t] = "InProgress"
    BY <1>1, <1>i, LiveActive
  <2>2. \A u \in TxIds \ {t} : Deleted'[u] = Deleted[u]
    BY <1>1, <1>4, <1>t DEF Deleted
  <2>3. Deleted'[t] = Deleted[t] \cup {r}
    BY <1>1, <2>1, <1>t DEF Deleted
  <2>4. QED
    BY <2>2, <2>3 DEF Deleted
<1>6. QED
  BY <1>1, <1>2, <1>3, <1>4, <1>5 DEF SI!Delete

\* What the end of a transaction does to the abstract state, whatever the outcome.
LEMMA EndRefines ==
  ASSUME StorageInv, HeapInv, StorageInv', [Next]_vars,
         NEW t \in TxIds, phase[t] = "ready", NEW s \in Finished, finish(t, s)
  PROVE  /\ Stage[t] = "open" /\ View' = View /\ held' = [held EXCEPT ![t] = {}]
         /\ Stage' = [Stage EXCEPT ![t] = IF s = "Committed" THEN "committed" ELSE "aborted"]
         /\ Inserted' = [Inserted EXCEPT ![t] = IF s = "Committed" THEN @ ELSE {}]
         /\ Deleted' = [Deleted EXCEPT ![t] = IF s = "Committed" THEN @ ELSE {}]
         /\ status[t] = "InProgress"
<1>t. phase \in [TxIds -> Phases] /\ status \in [TxIds -> Statuses] /\ held \in [TxIds -> SUBSET RowIds]
  BY DEF StorageInv, TypeOK
<1>1. /\ phase' = [phase EXCEPT ![t] = "done"] /\ status' = [status EXCEPT ![t] = s]
      /\ UNCHANGED <<snap, xmin, xmax, held>>
  BY DEF finish, heapVars
<1>2. status[t] = "InProgress"
  BY LiveActive DEF StorageInv, Live
<1>3. View' = View
  <2>1. \A u \in TxIds : View'[u] = View[u]
    BY <1>1, ViewFixed
  <2>2. QED
    BY <2>1 DEF View
<1>4. held[t] = {}
  BY DEF HeapInv, HeldInv, InStatement
<1>5. Stage[t] = "open" /\ Stage' = [Stage EXCEPT ![t] = IF s = "Committed" THEN "committed" ELSE "aborted"]
  BY <1>1, <1>t DEF Stage
<1>6. /\ Inserted' = [Inserted EXCEPT ![t] = IF s = "Committed" THEN @ ELSE {}]
      /\ Deleted' = [Deleted EXCEPT ![t] = IF s = "Committed" THEN @ ELSE {}]
  BY <1>1, <1>2, <1>t DEF Inserted, Deleted, Finished
<1>7. QED
  BY <1>1, <1>2, <1>3, <1>4, <1>5, <1>6, <1>t

\* A commit adds all that its transaction inserted to the store and takes away all
\* that it deleted (TxManager.finish).
LEMMA CommitRefines ==
  ASSUME StorageInv, HeapInv, StorageInv', [Next]_vars,
         NEW t \in TxIds, phase[t] = "ready", finish(t, "Committed")
  PROVE  SI!Commit(t)
<1>i. TypeOK /\ ManagerInv /\ StampsIssued
  BY DEF StorageInv, HeapInv
<1>t. /\ status \in [TxIds -> Statuses] /\ xmin \in [RowIds -> 0..MaxTx] /\ xmax \in [RowIds -> 0..MaxTx]
      /\ InvalidTxID \notin TxIds
  BY <1>i, BoundsAssumption DEF TypeOK, TxIds, InvalidTxID
<1>1. /\ status' = [status EXCEPT ![t] = "Committed"] /\ UNCHANGED <<xmin, xmax>>
      /\ status[t] = "InProgress"
  BY EndRefines DEF finish, heapVars, Finished
<1>2. Store = {r \in RowIds : xmin[r] \in Committers /\ xmax[r] \notin Committers}
  BY <1>i, StoreIs
<1>3. Store' = {r \in RowIds : xmin[r] \in Committers' /\ xmax[r] \notin Committers'}
  <2>1. (TypeOK /\ ManagerInv)' =>
         (Store = {r \in RowIds : xmin[r] \in Committers /\ xmax[r] \notin Committers})'
    BY StoreIs, PTL
  <2>2. QED
    BY <2>1, <1>1 DEF StorageInv
<1>4. Committers' = Committers \cup {t} /\ t \notin Committers /\ InvalidTxID \notin Committers
  BY <1>1, <1>t DEF Committers
<1>5. Inserted[t] = {r \in RowIds : xmin[r] = t} /\ Deleted[t] = {r \in RowIds : xmax[r] = t}
  BY <1>1 DEF Inserted, Deleted
<1>6. \A r \in RowIds : xmin[r] = t => xmax[r] \in {InvalidTxID, t}
  BY <1>i, <1>1, <1>t DEF StampsIssued
<1>7. Store' = (Store \cup Inserted[t]) \ Deleted[t]
  BY <1>2, <1>3, <1>4, <1>5, <1>6
<1>8. Inserted' = Inserted /\ Deleted' = Deleted
  BY <1>1, <1>t DEF Inserted, Deleted
<1>9. QED
  BY <1>7, <1>8, EndRefines DEF SI!Commit, Finished

\* A rollback, asked for or forced by a failed statement or a failed flush, leaves
\* nothing of the transaction.
LEMMA AbortRefines ==
  ASSUME StorageInv, HeapInv, StorageInv', [Next]_vars,
         NEW t \in TxIds, phase[t] = "ready", finish(t, "Aborted")
  PROVE  SI!Abort(t)
<1>1. status' = [status EXCEPT ![t] = "Aborted"] /\ status[t] = "InProgress"
  BY EndRefines DEF finish, Finished
<1>2. Committers' = Committers
  BY <1>1 DEF Committers, StorageInv, TypeOK
<1>3. Store' = Store
  BY <1>2, StoreFixed
<1>4. QED
  BY <1>3, EndRefines DEF SI!Abort, Finished

\* Vacuum is no step of snapshot isolation.
LEMMA VacuumRefines ==
  ASSUME StorageInv, HeapInv, StorageInv', [Next]_vars, UNCHANGED <<mgrVars, txVars, xmin, xmax>>
  PROVE  UNCHANGED SI!vars
<1>1. UNCHANGED <<status, snap, xmin, xmax, held, phase>>
  BY DEF mgrVars, txVars
<1>2. Store' = Store /\ View' = View
  BY <1>1, SameStoreAndViews
<1>3. Stage' = Stage /\ Inserted' = Inserted /\ Deleted' = Deleted
  BY <1>1 DEF Stage, Inserted, Deleted
<1>4. QED
  BY <1>1, <1>2, <1>3 DEF SI!vars

\* Storage implements SnapshotIsolation for any number of transactions and rows,
\* as long as Vacuum keeps away from running transactions.
THEOREM Implements == ASSUME Vacuuming # "any" PROVE Spec => ImplementsSnapshotIsolation
<1>1. StorageInv /\ StorageInv' /\ HeapInv /\ [Next]_vars => [SI!Next]_(SI!vars)
  <2> SUFFICES ASSUME StorageInv, StorageInv', HeapInv, [Next]_vars
               PROVE  SI!Next \/ UNCHANGED SI!vars
    OBVIOUS
  <2>1. ASSUME NEW t \in TxIds, NEW level \in Isolations, NEW ro \in BOOLEAN, Begin(t, level, ro)
        PROVE  UNCHANGED SI!vars
    BY <2>1, BeginRefines
  <2>2. ASSUME NEW t \in TxIds, BeginSnapshot(t)
        PROVE  SI!Refresh(t)
    BY <2>2, BeginSnapshotRefines
  <2>3. ASSUME NEW t \in TxIds, BeginQuery(t) \/ BeginWrite(t)
        PROVE  SI!Refresh(t) \/ UNCHANGED SI!vars
    BY <2>3, StatementRefines
  <2>4. ASSUME NEW t \in TxIds, Scan(t)
        PROVE  SI!Read(t)
    BY <2>4, ScanRefines
  <2>5. ASSUME NEW t \in TxIds, EndStatement(t) \/ FailStatement(t) \/ \E r \in RowIds : DeleteConflict(t, r)
        PROVE  SI!Forget(t)
    BY <2>5, ForgetRefines
  <2>6. ASSUME NEW t \in TxIds, NEW r \in RowIds, Insert(t, r)
        PROVE  SI!Insert(t, r)
    BY <2>6, InsertRefines
  <2>7. ASSUME NEW t \in TxIds, NEW r \in RowIds, Delete(t, r, "writing") \/ Delete(t, r, "replacing")
        PROVE  SI!Delete(t, r)
    BY <2>7, DeleteRefines
  <2>8. ASSUME NEW t \in TxIds, (\E flushed \in BOOLEAN : Commit(t, flushed)) \/ Rollback(t)
        PROVE  SI!Commit(t) \/ SI!Abort(t)
    <3>1. phase[t] = "ready" /\ (finish(t, "Committed") \/ finish(t, "Aborted"))
      BY <2>8 DEF Commit, Rollback
    <3>2. QED
      BY <3>1, CommitRefines, AbortRefines
  <2>9. ASSUME NEW h \in 1..(MaxTx + 1), Vacuum(h)
        PROVE  UNCHANGED SI!vars
    BY <2>9, VacuumRefines DEF Vacuum
  <2>10. CASE UNCHANGED vars
    BY <2>10, VacuumRefines DEF vars, heapVars
  <2>11. QED
    BY <2>1, <2>2, <2>3, <2>4, <2>5, <2>6, <2>7, <2>8, <2>9, <2>10 DEF Next, SI!Next
<1>2. QED
  BY InitRefines, <1>1, StorageInvariant, HeapInvariant, PTL
     DEF Spec, ImplementsSnapshotIsolation, SI!Spec
=============================================================================
