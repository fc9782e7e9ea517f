------------------------- MODULE SnapshotIsolation -------------------------
(***************************************************************************)
(* What internal/storage promises to the layers above it, without ids,    *)
(* snapshots or stamps: a store of committed rows, and for every           *)
(* transaction a private view of it.                                       *)
(*                                                                         *)
(*   - A transaction reads the committed rows as they stood at one instant *)
(*     (its view), plus what it inserted and minus what it deleted.        *)
(*   - A row is deleted by at most one transaction that does not abort.    *)
(*   - A commit applies all of a transaction's writes at once; an abort    *)
(*     applies none of them.                                               *)
(*                                                                         *)
(* Storage.tla implements this specification (see SI there).               *)
(***************************************************************************)
CONSTANTS Tx,     \* the transactions
          Row     \* the row versions that may ever exist

VARIABLES store,    \* the committed rows
          state,    \* "idle", "open", "committed" or "aborted", per transaction
          view,     \* the store as the transaction's snapshot froze it
          ins,      \* rows inserted by the transaction
          del,      \* rows deleted by the transaction
          seen      \* rows the current statement has read

vars == <<store, state, view, ins, del, seen>>

\* What a scan returns to t.
Reads(t) == (view[t] \cup ins[t]) \ del[t]

Init ==
  /\ store \in SUBSET Row
  /\ state \in [Tx -> {"idle", "committed"}]
  /\ view = [t \in Tx |-> {}]
  /\ ins \in [Tx -> SUBSET store]
  /\ del = [t \in Tx |-> {}]
  /\ seen = [t \in Tx |-> {}]

\* t begins, or (read committed) moves its view forward to the present.
Refresh(t) ==
  /\ state[t] \in {"idle", "open"}
  /\ state' = [state EXCEPT ![t] = "open"]
  /\ view' = [view EXCEPT ![t] = store]
  /\ UNCHANGED <<store, ins, del, seen>>

Read(t) ==
  /\ state[t] = "open"
  /\ seen' = [seen EXCEPT ![t] = @ \cup Reads(t)]
  /\ UNCHANGED <<store, state, view, ins, del>>

\* A statement ends: what it has read is forgotten.
Forget(t) ==
  /\ seen' = [seen EXCEPT ![t] = {}]
  /\ UNCHANGED <<store, state, view, ins, del>>

\* A statement begins with a fresh view.
Restart(t) ==
  /\ state[t] = "open"
  /\ view' = [view EXCEPT ![t] = store]
  /\ seen' = [seen EXCEPT ![t] = {}]
  /\ UNCHANGED <<store, state, ins, del>>

\* A row is inserted once: it is in nobody's view yet.
Insert(t, r) ==
  /\ state[t] = "open"
  /\ r \notin store
  /\ \A u \in Tx : r \notin ins[u] /\ r \notin view[u]
  /\ ins' = [ins EXCEPT ![t] = @ \cup {r}]
  /\ UNCHANGED <<store, state, view, del, seen>>

\* Only a row the transaction has read can be deleted, and only if no other
\* transaction has deleted it without aborting.
Delete(t, r) ==
  /\ state[t] = "open"
  /\ r \in seen[t]
  /\ \A u \in Tx \ {t} : r \notin del[u]
  /\ del' = [del EXCEPT ![t] = @ \cup {r}]
  /\ UNCHANGED <<store, state, view, ins, seen>>

Commit(t) ==
  /\ state[t] = "open"
  /\ state' = [state EXCEPT ![t] = "committed"]
  /\ store' = (store \cup ins[t]) \ del[t]
  /\ seen' = [seen EXCEPT ![t] = {}]
  /\ UNCHANGED <<view, ins, del>>

Abort(t) ==
  /\ state[t] = "open"
  /\ state' = [state EXCEPT ![t] = "aborted"]
  /\ ins' = [ins EXCEPT ![t] = {}]
  /\ del' = [del EXCEPT ![t] = {}]
  /\ seen' = [seen EXCEPT ![t] = {}]
  /\ UNCHANGED <<store, view>>

Next ==
  \E t \in Tx :
    \/ Refresh(t) \/ Read(t) \/ Forget(t) \/ Restart(t) \/ Commit(t) \/ Abort(t)
    \/ \E r \in Row : Insert(t, r) \/ Delete(t, r)

Spec == Init /\ [][Next]_vars
=============================================================================
