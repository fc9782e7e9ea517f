------------------------------ MODULE Storage ------------------------------
(***************************************************************************)
(* internal/storage: the transaction manager, the versioned heap of one    *)
(* table and the transactions that use them.                               *)
(*                                                                         *)
(* Each action is one critical section of TxManager.mu or Heap.mu, with    *)
(* the code the calling goroutine runs up to it: BeginTx takes the         *)
(* manager's lock twice, so it is two actions; a statement reads its rows  *)
(* under the heap's lock and then changes them one at a time, so every     *)
(* row it deletes and every row it inserts is an action.  A transaction    *)
(* belongs to one connection and runs one operation at a time.             *)
(*                                                                         *)
(* A version's values never change once it is in the heap, so its id       *)
(* stands for them.  The manager resolves status for every heap, and heaps *)
(* share nothing else, so one heap is modelled.                            *)
(***************************************************************************)
EXTENDS Naturals, FiniteSets

CONSTANTS MaxTx,      \* bound: transaction ids issued in a behaviour
          MaxRow,     \* bound: row ids allocated in a behaviour
          Recovered,  \* rows that recovery loaded before the first statement
          Vacuuming   \* when Vacuum runs: "never"; "quiet": between transactions; "any" time

ASSUME BoundsAssumption ==
  /\ MaxTx \in Nat /\ MaxTx > 0
  /\ MaxRow \in Nat
  /\ Recovered \in 0..MaxRow
  /\ Vacuuming \in {"never", "quiet", "any"}

InvalidTxID == 0
TxIds  == 1..MaxTx
RowIds == 1..MaxRow

\* Tx.iso.  Serializable takes no branch of its own, so it is RepeatableRead.
Isolations == {"ReadCommitted", "RepeatableRead"}

(***************************************************************************)
(* State.                                                                  *)
(***************************************************************************)
VARIABLES
  \* TxManager
  next,      \* the id the following transaction will receive
  status,    \* outcome per id; "Unknown" where the map has no entry
  active,    \* the transactions that have not finished
  \* Tx
  phase,     \* where the goroutine running the transaction stands
  iso, readOnly, failed,
  snap,      \* the snapshot the transaction reads through
  held,      \* versions the running statement holds from its scans
  \* Heap
  nextRow,   \* the id the next row will take
  xmin, xmax,
  linked,    \* versions in the heap's slice, as opposed to vacuumed out of it
  \* history, read by properties only
  deletes    \* versions whose deletion was reported to the transaction as done

mgrVars  == <<next, status, active>>
txVars   == <<phase, iso, readOnly, failed, snap, held>>
heapVars == <<nextRow, xmin, xmax, linked>>
vars     == <<mgrVars, txVars, heapVars, deletes>>

Statuses == {"Unknown", "InProgress", "Committed", "Aborted"}
Finished == {"Committed", "Aborted"}

\* "none": not begun.  "begun": has an id and no snapshot yet.  "ready":
\* between statements.  "reading", "writing": inside a statement.
\* "replacing": inside Table.Update, the old version deleted and the new one
\* not inserted.  "done": finished.
Phases == {"none", "begun", "ready", "reading", "writing", "replacing", "done"}

InStatement(t) == phase[t] \in {"reading", "writing", "replacing"}

(***************************************************************************)
(* Snapshots and visibility.                                               *)
(***************************************************************************)
Snapshots == [xmin : 0..(MaxTx + 1), xmax : 0..(MaxTx + 1), active : SUBSET TxIds]

NoSnapshot == [xmin |-> 0, xmax |-> 0, active |-> {}]

\* The lowest active id, or next: a snapshot's XMin, and Vacuum's limit.
Horizon ==
  CHOOSE m \in active \cup {next} : \A id \in active \cup {next} : m <= id

\* (variant) the allocation of ids and the snapshot do not share a lock
TakePastNext == [xmin |-> Horizon, xmax |-> next + 1, active |-> active]

Take == [xmin |-> Horizon, xmax |-> next, active |-> active]

\* An id that was never issued reads as aborted.
Status(id) == IF status[id] = "Unknown" THEN "Aborted" ELSE status[id]

\* (variant) transactions that were running are judged by status alone
committedByStatus(s, id) ==
  id # InvalidTxID /\ id < s.xmax /\ Status(id) = "Committed"

\* Whether snapshot s sees the writes of transaction id.
committed(s, id) ==
  /\ id # InvalidTxID
  /\ id < s.xmax
  /\ ~(id >= s.xmin /\ id \in s.active)
  /\ Status(id) = "Committed"

\* (variant) a transaction goes on seeing what it deleted itself
VisibleOwnDeletes(r, s, self) ==
  /\ xmin[r] = self \/ committed(s, xmin[r])
  /\ ~committed(s, xmax[r])

Visible(r, s, self) ==
  /\ xmin[r] = self \/ committed(s, xmin[r])
  /\ \/ xmax[r] = InvalidTxID
     \/ ~(xmax[r] = self \/ committed(s, xmax[r]))

\* Heap.Scan
ScanResult(t) == {r \in linked : Visible(r, snap[t], t)}

(***************************************************************************)
(* Initial states: New() with an empty heap, or a database that recovery   *)
(* rebuilt, in which the transaction that loaded the rows has id 1 and has *)
(* committed.                                                              *)
(***************************************************************************)
Boot == IF Recovered = 0 THEN 0 ELSE 1

Init ==
  /\ next = Boot + 1
  /\ status = [t \in TxIds |-> IF t <= Boot THEN "Committed" ELSE "Unknown"]
  /\ active = {}
  /\ phase = [t \in TxIds |-> IF t <= Boot THEN "done" ELSE "none"]
  /\ iso = [t \in TxIds |-> "ReadCommitted"]
  /\ readOnly = [t \in TxIds |-> FALSE]
  /\ failed = [t \in TxIds |-> FALSE]
  /\ snap = [t \in TxIds |-> NoSnapshot]
  /\ held = [t \in TxIds |-> {}]
  /\ nextRow = Recovered + 1
  /\ xmin = [r \in RowIds |-> IF r <= Recovered THEN Boot ELSE InvalidTxID]
  /\ xmax = [r \in RowIds |-> InvalidTxID]
  /\ linked = 1..Recovered
  /\ deletes = [t \in TxIds |-> {}]

(***************************************************************************)
(* Beginning a transaction: the id first, the snapshot in a second         *)
(* critical section.                                                       *)
(***************************************************************************)
Begin(t, level, ro) ==
  /\ t = next
  /\ next <= MaxTx          \* bound
  /\ next' = next + 1
  /\ status' = [status EXCEPT ![t] = "InProgress"]
  /\ active' = active \cup {t}
  /\ phase' = [phase EXCEPT ![t] = "begun"]
  /\ iso' = [iso EXCEPT ![t] = level]
  /\ readOnly' = [readOnly EXCEPT ![t] = ro]
  /\ UNCHANGED <<failed, snap, held, heapVars, deletes>>

BeginSnapshot(t) ==
  /\ phase[t] = "begun"
  /\ phase' = [phase EXCEPT ![t] = "ready"]
  /\ snap' = [snap EXCEPT ![t] = Take]
  /\ UNCHANGED <<mgrVars, iso, readOnly, failed, held, heapVars, deletes>>

(***************************************************************************)
(* Statements.  An implicit transaction skips NextStatement and so keeps   *)
(* its first snapshot for its only statement: it behaves as a              *)
(* RepeatableRead transaction of one statement.                            *)
(***************************************************************************)
\* (variant) every level takes a snapshot per statement
NextStatementRefresh(t, ph) ==
  /\ phase[t] = "ready"
  /\ ~failed[t]
  /\ snap' = [snap EXCEPT ![t] = Take]
  /\ phase' = [phase EXCEPT ![t] = ph]

NextStatement(t, ph) ==
  /\ phase[t] = "ready"
  /\ ~failed[t]
  /\ snap' = [snap EXCEPT ![t] = IF iso[t] = "ReadCommitted" THEN Take ELSE @]
  /\ phase' = [phase EXCEPT ![t] = ph]

BeginQuery(t) ==
  /\ NextStatement(t, "reading")
  /\ UNCHANGED <<mgrVars, iso, readOnly, failed, held, heapVars, deletes>>

\* CheckWritable refuses the statement, and Fail poisons the transaction.
BeginWrite(t) ==
  /\ NextStatement(t, IF readOnly[t] THEN "ready" ELSE "writing")
  /\ failed' = [failed EXCEPT ![t] = readOnly[t]]
  /\ UNCHANGED <<mgrVars, iso, readOnly, held, heapVars, deletes>>

Scan(t) ==
  /\ phase[t] \in {"reading", "writing"}
  /\ held' = [held EXCEPT ![t] = @ \cup ScanResult(t)]
  /\ UNCHANGED <<mgrVars, phase, iso, readOnly, failed, snap, heapVars, deletes>>

EndStatement(t) ==
  /\ phase[t] \in {"reading", "writing"}
  /\ phase' = [phase EXCEPT ![t] = "ready"]
  /\ held' = [held EXCEPT ![t] = {}]
  /\ UNCHANGED <<mgrVars, iso, readOnly, failed, snap, heapVars, deletes>>

\* An expression, a constraint check or the context ends the statement with an
\* error between two rows.  What it wrote stays in the heap.
FailStatement(t) ==
  /\ phase[t] \in {"reading", "writing"}
  /\ phase' = [phase EXCEPT ![t] = "ready"]
  /\ failed' = [failed EXCEPT ![t] = TRUE]
  /\ held' = [held EXCEPT ![t] = {}]
  /\ UNCHANGED <<mgrVars, iso, readOnly, snap, heapVars, deletes>>

(***************************************************************************)
(* Writes to the heap.                                                     *)
(***************************************************************************)
\* (variant) only a deleter that still runs is a conflict
ConflictRunning(t, r) ==
  xmax[r] # InvalidTxID /\ xmax[r] # t /\ Status(xmax[r]) = "InProgress"

Conflict(t, r) ==
  /\ xmax[r] # InvalidTxID
  /\ xmax[r] # t
  /\ Status(xmax[r]) \in {"InProgress", "Committed"}

\* Table.Insert ("writing"), or the second half of Table.Update ("replacing").
Insert(t, r) ==
  /\ phase[t] \in {"writing", "replacing"}
  /\ r = nextRow
  /\ nextRow <= MaxRow      \* bound
  /\ nextRow' = nextRow + 1
  /\ xmin' = [xmin EXCEPT ![r] = t]
  /\ linked' = linked \cup {r}
  /\ phase' = [phase EXCEPT ![t] = "writing"]
  /\ UNCHANGED <<mgrVars, iso, readOnly, failed, snap, held, xmax, deletes>>

\* Table.Delete, or with then = "replacing" the first half of Table.Update.
Delete(t, r, then) ==
  /\ phase[t] = "writing"
  /\ r \in held[t]
  /\ ~Conflict(t, r)
  /\ then = "replacing" => nextRow <= MaxRow      \* bound
  /\ xmax' = [xmax EXCEPT ![r] = t]
  /\ deletes' = [deletes EXCEPT ![t] = @ \cup {r}]
  /\ phase' = [phase EXCEPT ![t] = then]
  /\ UNCHANGED <<mgrVars, iso, readOnly, failed, snap, held, nextRow, xmin, linked>>

\* ErrWriteConflict ends the statement.
DeleteConflict(t, r) ==
  /\ phase[t] = "writing"
  /\ r \in held[t]
  /\ Conflict(t, r)
  /\ phase' = [phase EXCEPT ![t] = "ready"]
  /\ failed' = [failed EXCEPT ![t] = TRUE]
  /\ held' = [held EXCEPT ![t] = {}]
  /\ UNCHANGED <<mgrVars, iso, readOnly, snap, heapVars, deletes>>

(***************************************************************************)
(* Finishing.                                                              *)
(***************************************************************************)
\* (variant) the outcome is recorded and the id left in the active set
finishActive(t, s) ==
  /\ status' = [status EXCEPT ![t] = s]
  /\ phase' = [phase EXCEPT ![t] = "done"]
  /\ UNCHANGED <<next, active, iso, readOnly, failed, snap, held, heapVars, deletes>>

finish(t, s) ==
  /\ status' = [status EXCEPT ![t] = s]
  /\ active' = active \ {t}
  /\ phase' = [phase EXCEPT ![t] = "done"]
  /\ UNCHANGED <<next, iso, readOnly, failed, snap, held, heapVars, deletes>>

\* A failed transaction's commit is a rollback, and so is one whose records the
\* journal could not write.  The transaction is in progress while they are
\* written.
Commit(t, flushed) ==
  /\ phase[t] = "ready"
  /\ finish(t, IF failed[t] \/ ~flushed THEN "Aborted" ELSE "Committed")

Rollback(t) ==
  /\ phase[t] = "ready"
  /\ finish(t, "Aborted")

(***************************************************************************)
(* Vacuum, given a horizon read earlier: the horizon never moves back.     *)
(***************************************************************************)
\* (variant) a deletion counts before its outcome is known
deadToAnyDelete(r, horizon) ==
  \/ Status(xmin[r]) = "Aborted"
  \/ xmax[r] # InvalidTxID /\ xmax[r] < horizon

deadTo(r, horizon) ==
  \/ Status(xmin[r]) = "Aborted"
  \/ /\ xmax[r] # InvalidTxID
     /\ xmax[r] < horizon
     /\ Status(xmax[r]) = "Committed"

Vacuum(horizon) ==
  /\ Vacuuming # "never"
  /\ Vacuuming = "quiet" => active = {}
  /\ horizon <= Horizon
  /\ linked' = {r \in linked : ~deadTo(r, horizon)}
  /\ UNCHANGED <<mgrVars, txVars, nextRow, xmin, xmax, deletes>>

Next ==
  \/ \E t \in TxIds :
       \/ \E level \in Isolations, ro \in BOOLEAN : Begin(t, level, ro)
       \/ BeginSnapshot(t)
       \/ BeginQuery(t)
       \/ BeginWrite(t)
       \/ Scan(t)
       \/ EndStatement(t)
       \/ FailStatement(t)
       \/ \E r \in RowIds : \/ Insert(t, r)
                            \/ Delete(t, r, "writing")
                            \/ Delete(t, r, "replacing")
                            \/ DeleteConflict(t, r)
       \/ \E flushed \in BOOLEAN : Commit(t, flushed)
       \/ Rollback(t)
  \/ \E h \in 1..(MaxTx + 1) : Vacuum(h)

Spec == Init /\ [][Next]_vars

(***************************************************************************)
(* Properties.                                                             *)
(***************************************************************************)

\* The type invariant of the manager, the transactions and the heap.
TypeOK ==
  /\ next \in 1..(MaxTx + 1)
  /\ status \in [TxIds -> Statuses]
  /\ active \in SUBSET TxIds
  /\ phase \in [TxIds -> Phases]
  /\ iso \in [TxIds -> Isolations]
  /\ readOnly \in [TxIds -> BOOLEAN]
  /\ failed \in [TxIds -> BOOLEAN]
  /\ snap \in [TxIds -> Snapshots]
  /\ held \in [TxIds -> SUBSET RowIds]
  /\ nextRow \in 1..(MaxRow + 1)
  /\ xmin \in [RowIds -> 0..MaxTx]
  /\ xmax \in [RowIds -> 0..MaxTx]
  /\ linked \in SUBSET RowIds
  /\ deletes \in [TxIds -> SUBSET RowIds]

\* First updater wins (Heap.Delete): of the transactions told that they
\* deleted one version, at most one has not aborted, so an update is never
\* silently lost.
NoLostUpdate ==
  \A t, u \in TxIds :
    (t # u /\ deletes[t] \cap deletes[u] # {}) => "Aborted" \in {status[t], status[u]}

(***************************************************************************)
(* The inductive invariant behind the theorems of StorageProofs.           *)
(***************************************************************************)

\* The manager's three fields are one piece of state: the issued ids are
\* those below next, and the active set is the set of unfinished ones.
ManagerInv ==
  \A t \in TxIds :
    /\ status[t] = "Unknown" <=> t >= next
    /\ status[t] = "InProgress" <=> t \in active
    /\ phase[t] = "none" <=> t >= next
    /\ phase[t] = "done" <=> status[t] \in Finished

\* A snapshot is settled: every id it does not exclude has finished.
Settled(s) ==
  /\ s.xmax <= next
  /\ \A id \in TxIds :
       (id < s.xmax /\ ~(id >= s.xmin /\ id \in s.active)) => status[id] \in Finished

\* A deletion that was reported and not rolled back is stamped on its version.
StampInv ==
  \A t \in TxIds : \A r \in deletes[t] :
    t < next /\ (status[t] # "Aborted" => xmax[r] = t)

StorageInv ==
  /\ TypeOK
  /\ ManagerInv
  /\ \A t \in TxIds : Settled(snap[t])
  /\ StampInv

\* A transaction between BeginTx and its end.
Live(t) == phase[t] \in {"ready", "reading", "writing", "replacing"}

\* What a version carries: no id that was not issued, and a deletion only by its
\* own transaction or after that one committed.
StampsIssued ==
  \A r \in RowIds :
    /\ xmin[r] < next /\ xmax[r] < next
    /\ r >= nextRow => xmin[r] = InvalidTxID
    /\ r \in linked => xmin[r] # InvalidTxID
    /\ xmax[r] # InvalidTxID =>
         xmin[r] # InvalidTxID /\ (xmin[r] = xmax[r] \/ status[xmin[r]] = "Committed")

\* What a statement holds is its transaction's own or committed, and is let go
\* when the statement ends.
HeldInv ==
  \A t \in TxIds :
    /\ ~InStatement(t) => held[t] = {}
    /\ \A r \in held[t] : xmin[r] # InvalidTxID /\ (xmin[r] = t \/ status[xmin[r]] = "Committed")

\* Nobody who is running, or begins later, sees version r.
Gone(r) ==
  \/ xmin[r] = InvalidTxID
  \/ status[xmin[r]] = "Aborted"
  \/ /\ xmax[r] # InvalidTxID /\ status[xmax[r]] = "Committed"
     /\ \A t \in TxIds : Live(t) => committed(snap[t], xmax[r])

\* The invariant that reading the heap rests on.  Vacuum between transactions
\* discards only what nobody sees (Heap.Delete, Heap.Scan, Heap.deadTo).
HeapInv ==
  /\ StampsIssued
  /\ HeldInv
  /\ Vacuuming # "any" => \A r \in RowIds \ linked : Gone(r)

\* What a snapshot answers about a transaction never changes: commits and
\* aborts that come after it leave its view alone (Begin and Take under one
\* lock, Snapshot.committed).
SnapshotsStable ==
  [][\A t \in TxIds : snap'[t] = snap[t] =>
       \A id \in TxIds : committed(snap[t], id)' = committed(snap[t], id)]_vars

\* In a RepeatableRead transaction two scans differ only by rows the
\* transaction itself wrote or deleted in between (Tx.NextStatement), whatever
\* the others do, rows they insert, update or roll back included.
RepeatableReads ==
  [][\A t \in TxIds :
       (iso[t] = "RepeatableRead" /\ phase[t] \notin {"none", "begun", "done"}) =>
         \A r \in RowIds : (r \in ScanResult(t)) # (r \in ScanResult(t)') =>
           t \in {xmin'[r], xmax'[r]}]_vars

\* The rows a transaction beginning now would read.
CurrentRows == {r \in linked : Visible(r, Take, next)}

\* Vacuum removes only what no later transaction could read: the current rows
\* stay, and the aborted ones never come back (Heap.deadTo).
VacuumKeepsCurrent ==
  [][linked' \subseteq linked /\ linked' # linked => CurrentRows' = CurrentRows]_vars

\* Vacuum's comment promises more: that no snapshot can ever see what it
\* discards.  No scan of a live transaction may change when it runs.
VacuumUnseen ==
  [][(linked' # linked /\ linked' \subseteq linked) =>
       \A t \in active : ScanResult(t)' = ScanResult(t)]_vars

(***************************************************************************)
(* The heap of stamped versions implements snapshot isolation.             *)
(***************************************************************************)
SeenBy(s, r) ==
  /\ committed(s, xmin[r])
  /\ ~committed(s, xmax[r])

Store == {r \in RowIds : SeenBy(Take, r)}

Stage == [t \in TxIds |->
  IF phase[t] \in {"none", "begun"} THEN "idle"
  ELSE IF phase[t] # "done" THEN "open"
  ELSE IF status[t] = "Committed" THEN "committed" ELSE "aborted"]

View     == [t \in TxIds |-> {r \in RowIds : SeenBy(snap[t], r)}]
Inserted == [t \in TxIds |-> {r \in RowIds : xmin[r] = t /\ status[t] # "Aborted"}]
Deleted  == [t \in TxIds |-> {r \in RowIds : xmax[r] = t /\ status[t] # "Aborted"}]

SI == INSTANCE SnapshotIsolation WITH
  Tx    <- TxIds,
  Row   <- RowIds,
  store <- Store,
  state <- Stage,
  view  <- View,
  ins   <- Inserted,
  del   <- Deleted,
  seen  <- held

\* Every behaviour of the manager and the heap is one of snapshot isolation.
ImplementsSnapshotIsolation == SI!Spec
=============================================================================
