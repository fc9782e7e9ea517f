------------------------------- MODULE Engine -------------------------------
(***************************************************************************)
(* internal/engine/persist.go over internal/storage and internal/catalog:  *)
(* what a database writes to its log, and what recovery makes of it.       *)
(*                                                                         *)
(* Rows are buffered by their transaction and written when it commits;     *)
(* schema statements change the catalog at once and are written at once.   *)
(* The log names tables by their name, so the two have to agree on it.     *)
(*                                                                         *)
(* A statement runs in one step and reads what has committed: Storage has  *)
(* the interleavings inside it.  A frame is appended whole or not at all:  *)
(* Wal has the crashes that tear it.  An UPDATE is a Delete and an Insert  *)
(* of one transaction.  A row's values are a number nobody else uses.      *)
(***************************************************************************)
EXTENDS Naturals, Sequences, FiniteSets, SequencesExt

CONSTANTS
  Conns,        \* connections, each running one statement at a time
  TableNames,   \* names a table can have
  First,        \* the table the database is created with
  MaxTx,        \* bound: transactions per opening of the database, boot included
  MaxTable,     \* bound: tables created in a behaviour
  MaxDdl,       \* bound: schema statements remembered, the first CREATE included
  MaxVal,       \* bound: rows inserted in a behaviour
  MaxRestarts,  \* bound: crashes and reopenings in a behaviour
  Ddl,          \* schema statements in use, of {"create", "rename", "drop"}
  Alone,        \* whether a schema statement runs only while no other connection
                \* is in a transaction
  Stale,        \* whether an INSERT may have been bound before a schema change
  Checkpoints,  \* "none"; "quiet": only while nothing else runs; "any": always
  Faults        \* of {"append", "sync"}: how Log.Write may fail

ASSUME EngineAssumption ==
  /\ First \in TableNames
  /\ MaxTx \in Nat \ {0} /\ MaxTable \in Nat \ {0} /\ MaxDdl \in Nat /\ MaxVal \in Nat /\ MaxRestarts \in Nat
  /\ Ddl \subseteq {"create", "rename", "drop"}
  /\ Alone \in BOOLEAN /\ Stale \in BOOLEAN
  /\ Checkpoints \in {"none", "quiet", "any"}
  /\ Faults \subseteq {"append", "sync"}

NoTx    == 0
Boot    == 1              \* the transaction recovery loads rows under
TxIds   == Boot..MaxTx
NoTable == 0
Tables  == 1..MaxTable    \* *Table pointers, in order of creation

(***************************************************************************)
(* Log records.                                                            *)
(***************************************************************************)
DDLRecord(op, n, to)    == [op |-> op, name |-> n, to |-> to, id |-> 0, val |-> 0]
InsertRecord(n, id, v)  == [op |-> "insert", name |-> n, to |-> n, id |-> id, val |-> v]
DeleteRecord(n, id)     == [op |-> "delete", name |-> n, to |-> n, id |-> id, val |-> 0]

Records == [op : {"create", "rename", "drop", "insert", "delete"}, name : TableNames,
            to : TableNames, id : 0..MaxVal, val : 0..MaxVal]

isDDL(rec) == rec.op \in {"create", "rename", "drop"}

\* The members of l that are in S, in their order.
Kept(l, S) ==
  LET kept[i \in 0..Len(l)] ==
        IF i = 0 THEN <<>> ELSE IF l[i] \in S THEN Append(kept[i - 1], l[i]) ELSE kept[i - 1]
  IN kept[Len(l)]

\* The schema statements of a log: what recovery makes the history from.
History(l) == Kept(l, {rec \in Records : isDDL(rec)})

VARIABLES
  \* Catalog
  cat,        \* the table a name refers to
  tname,      \* Table.Name, which a dropped table keeps
  tables,     \* tables created since the database was opened
  \* Heap and TxManager
  nextRow, rows, status, nextTx,
  \* each connection's Tx, and the statement it is in
  tx, journaled, pending, step, stmt,
  \* Engine
  schema,     \* the history a checkpoint writes back out
  journal,    \* whether TxManager.journal is set
  ck,         \* the Checkpoint or Close that is running
  \* Log
  log, dirty,
  file,       \* "open"; "failed": closed by an error; "closed"
  vals, restarts

catVars  == <<cat, tname, tables>>
heapVars == <<nextRow, rows, status, nextTx>>
connVars == <<tx, journaled, pending, step, stmt>>
logVars  == <<log, dirty, file>>
vars == <<catVars, heapVars, connVars, schema, journal, ck, logVars, vals, restarts>>

(***************************************************************************)
(* Recovery.                                                               *)
(***************************************************************************)
NothingReplayed ==
  [cat |-> [n \in TableNames |-> NoTable], tname |-> [t \in Tables |-> First], tables |-> 0,
   rows |-> {}, ok |-> TRUE]

\* One record.  A statement that does not run, or a row whose table does not
\* exist, fails the whole recovery.
apply(s, rec) ==
  LET t == s.cat[rec.name]
      others == {r \in s.rows : ~(r.table = t /\ r.id = rec.id)}
      failure == [s EXCEPT !.ok = FALSE]
  IN IF ~s.ok THEN s
     ELSE IF (rec.op = "create") # (t = NoTable) THEN failure
     ELSE CASE rec.op = "create" ->
                 [s EXCEPT !.cat = [@ EXCEPT ![rec.name] = s.tables + 1],
                           !.tname = [@ EXCEPT ![s.tables + 1] = rec.name],
                           !.tables = @ + 1]
            [] rec.op = "rename" ->
                 IF rec.to # rec.name /\ s.cat[rec.to] # NoTable THEN failure
                 ELSE [s EXCEPT !.cat = [@ EXCEPT ![rec.name] = NoTable, ![rec.to] = t],
                                !.tname = [@ EXCEPT ![t] = rec.to]]
            [] rec.op = "drop" -> [s EXCEPT !.cat = [@ EXCEPT ![rec.name] = NoTable]]
            [] rec.op = "insert" ->
                 [s EXCEPT !.rows = others \cup {[table |-> t, id |-> rec.id, val |-> rec.val]}]
            [] rec.op = "delete" -> [s EXCEPT !.rows = others]

\* The records of l, one after the other.
Replay(s, l) ==
  LET after[i \in 0..Len(l)] == IF i = 0 THEN s ELSE apply(after[i - 1], l[i])
  IN after[Len(l)]

Replayed(l) == Replay(NothingReplayed, l)

highest(s, t) ==
  LET ids == {r.id : r \in {q \in s.rows : q.table = t}} \cup {0}
  IN CHOOSE m \in ids : \A i \in ids : i <= m

\* Rows of a table that was dropped are not placed.
loaded(s) ==
  {[table |-> r.table, id |-> r.id, val |-> r.val, xmin |-> Boot, xmax |-> NoTx] :
     r \in {q \in s.rows : \E n \in TableNames : s.cat[n] = q.table}}

NoCheckpoint == [pc |-> "none", closing |-> FALSE, snap |-> {}, recs |-> <<>>]
NoStmt == DDLRecord("none", First, First)

FreshStatus == [t \in TxIds |-> IF t = Boot THEN "Committed" ELSE "Unknown"]
NoConn(x) == [c \in Conns |-> x]

Init ==
  /\ log = <<DDLRecord("create", First, First)>>
  /\ LET s == Replayed(log)
     IN cat = s.cat /\ tname = s.tname /\ tables = s.tables
  /\ nextRow = [t \in Tables |-> 1]
  /\ rows = {}
  /\ status = FreshStatus
  /\ nextTx = Boot + 1
  /\ tx = NoConn(NoTx) /\ journaled = NoConn(FALSE) /\ pending = NoConn(<<>>)
  /\ step = NoConn("ready") /\ stmt = NoConn(NoStmt)
  /\ schema = log
  /\ journal = TRUE
  /\ ck = NoCheckpoint
  /\ dirty = FALSE /\ file = "open"
  /\ vals = 0 /\ restarts = 0

\* The process dies, or the database was closed, and Open runs recover.
Restart ==
  LET s == Replayed(log)
  IN /\ restarts < MaxRestarts      \* bound
     /\ restarts' = restarts + 1
     /\ s.ok
     /\ cat' = s.cat /\ tname' = s.tname /\ tables' = s.tables
     /\ nextRow' = [t \in Tables |-> highest(s, t) + 1]
     /\ rows' = loaded(s)
     /\ status' = FreshStatus
     /\ nextTx' = Boot + 1
     /\ tx' = NoConn(NoTx) /\ journaled' = NoConn(FALSE) /\ pending' = NoConn(<<>>)
     /\ step' = NoConn("ready") /\ stmt' = NoConn(NoStmt)
     /\ schema' = History(log)
     /\ journal' = TRUE
     /\ ck' = NoCheckpoint
     /\ dirty' = FALSE /\ file' = "open"
     /\ UNCHANGED <<log, vals>>

(***************************************************************************)
(* Transactions and their rows.                                            *)
(***************************************************************************)
\* The callers of Close and Checkpoint keep everything else out, or do not.
Admitted == Checkpoints = "any" \/ ck.pc = "none"

\* The journal is captured here and not looked at again.
Begin(c) ==
  /\ Admitted
  /\ Alone => \A d \in Conns : step[d] \notin {"remember", "log"}
  /\ tx[c] = NoTx
  /\ nextTx <= MaxTx      \* bound
  /\ nextTx' = nextTx + 1
  /\ status' = [status EXCEPT ![nextTx] = "InProgress"]
  /\ tx' = [tx EXCEPT ![c] = nextTx]
  /\ journaled' = [journaled EXCEPT ![c] = journal]
  /\ UNCHANGED <<catVars, nextRow, rows, pending, step, stmt, schema, journal, ck, logVars,
                 vals, restarts>>

Ready(c) == tx[c] # NoTx /\ step[c] = "ready"

\* Tx.Log
buffer(c, rec) ==
  pending' = IF journaled[c] THEN [pending EXCEPT ![c] = Append(@, rec)] ELSE pending

\* The tables a statement can be bound to.
Bound == {t \in 1..tables : Stale \/ \E n \in TableNames : cat[n] = t}

Insert(c, t) ==
  /\ Ready(c)
  /\ t \in Bound
  /\ vals < MaxVal      \* bound
  /\ vals' = vals + 1
  /\ rows' = rows \cup {[table |-> t, id |-> nextRow[t], val |-> vals + 1,
                         xmin |-> tx[c], xmax |-> NoTx]}
  /\ nextRow' = [nextRow EXCEPT ![t] = @ + 1]
  /\ buffer(c, InsertRecord(tname[t], nextRow[t], vals + 1))
  /\ UNCHANGED <<catVars, status, nextTx, tx, journaled, step, stmt, schema, journal, ck,
                 logVars, restarts>>

seen(t, self) == t # NoTx /\ (t = self \/ status[t] = "Committed")

\* A version another transaction is deleting is refused; see Storage.
Delete(c, v) ==
  /\ Ready(c)
  /\ v.table \in Bound
  /\ seen(v.xmin, tx[c]) /\ ~seen(v.xmax, tx[c])
  /\ v.xmax # NoTx => status[v.xmax] = "Aborted"
  /\ rows' = (rows \ {v}) \cup {[v EXCEPT !.xmax = tx[c]]}
  /\ buffer(c, DeleteRecord(tname[v.table], v.id))
  /\ UNCHANGED <<catVars, nextRow, status, nextTx, tx, journaled, step, stmt, schema, journal,
                 ck, logVars, vals, restarts>>

\* (variant) the error of a write is not passed on to the caller
writeIgnoresError(c, recs, done) ==
  \E fault \in Faults \cup {"none"} :
    LET appended == file = "open" /\ fault # "append"
    IN /\ log' = IF appended THEN log \o recs ELSE log
       /\ dirty' = (dirty \/ appended)
       /\ file' = IF file = "open" /\ fault # "none" THEN "failed" ELSE file
       /\ step' = [step EXCEPT ![c] = done]

\* Log.Write: the frame is appended and then flushed; an error of either closes
\* the file, and to write to a closed file is an error.
write(c, recs, done) ==
  \E fault \in Faults \cup {"none"} :
    LET appended == file = "open" /\ fault # "append"
        flushed  == appended /\ fault = "none"
    IN /\ log' = IF appended THEN log \o recs ELSE log
       /\ dirty' = (dirty \/ appended)
       /\ file' = IF file = "open" /\ ~flushed THEN "failed" ELSE file
       /\ step' = [step EXCEPT ![c] = IF flushed THEN done ELSE "failed"]

\* The first half of Tx.Commit: durable before visible.
Flush(c) ==
  /\ Ready(c)
  /\ IF pending[c] = <<>> \/ ~journaled[c]
       THEN /\ step' = [step EXCEPT ![c] = "flushed"]
            /\ UNCHANGED logVars
       ELSE write(c, pending[c], "flushed")
  /\ pending' = [pending EXCEPT ![c] = <<>>]
  /\ UNCHANGED <<catVars, heapVars, tx, journaled, stmt, schema, journal, ck, vals, restarts>>

\* (variant) the buffer outlives the transaction
finishKeepsPending(c, outcome) ==
  /\ status' = [status EXCEPT ![tx[c]] = outcome]
  /\ tx' = [tx EXCEPT ![c] = NoTx]
  /\ step' = [step EXCEPT ![c] = "ready"]
  /\ journaled' = [journaled EXCEPT ![c] = FALSE]
  /\ UNCHANGED <<catVars, nextRow, rows, nextTx, pending, stmt, schema, journal, ck, logVars, vals, restarts>>

finish(c, outcome) ==
  /\ status' = [status EXCEPT ![tx[c]] = outcome]
  /\ tx' = [tx EXCEPT ![c] = NoTx]
  /\ step' = [step EXCEPT ![c] = "ready"]
  /\ pending' = [pending EXCEPT ![c] = <<>>]
  /\ journaled' = [journaled EXCEPT ![c] = FALSE]
  /\ UNCHANGED <<catVars, nextRow, rows, nextTx, stmt, schema, journal, ck, logVars, vals, restarts>>

Commit(c) == step[c] = "flushed" /\ finish(c, "Committed")

\* Also the Commit of a transaction a statement or a flush failed in.
Rollback(c) ==
  /\ tx[c] # NoTx
  /\ step[c] \in {"ready", "failed"}
  /\ finish(c, "Aborted")

(***************************************************************************)
(* Schema statements: the catalog and the transaction's own buffer, then   *)
(* the history, then the log.                                              *)
(***************************************************************************)
ddl(c, op, n, to) ==
  /\ Ready(c)
  /\ op \in Ddl
  /\ Alone => \A d \in Conns \ {c} : tx[d] = NoTx
  /\ Len(schema) < MaxDdl      \* bound
  /\ step' = [step EXCEPT ![c] = "remember"]
  /\ stmt' = [stmt EXCEPT ![c] = DDLRecord(op, n, to)]
  /\ UNCHANGED <<rows, status, nextTx, tx, journaled, schema, journal, ck, logVars, vals, restarts>>

CreateTable(c, n) ==
  /\ ddl(c, "create", n, n)
  /\ cat[n] = NoTable
  /\ tables < MaxTable      \* bound
  /\ tables' = tables + 1
  /\ cat' = [cat EXCEPT ![n] = tables + 1]
  /\ tname' = [tname EXCEPT ![tables + 1] = n]
  /\ nextRow' = [nextRow EXCEPT ![tables + 1] = 1]
  /\ UNCHANGED pending

\* (variant) a rename leaves the buffered rows as they are
RenameLoggedNothing(recs, from, to) == recs

RenameLogged(recs, from, to) ==
  [i \in DOMAIN recs |-> IF recs[i].name = from THEN [recs[i] EXCEPT !.name = to, !.to = to]
                                                ELSE recs[i]]

\* (variant) the table moves to its new key and keeps its name
RenameTableKeepsName(c, n, to) ==
  /\ ddl(c, "rename", n, to)
  /\ cat[n] # NoTable
  /\ to = n \/ cat[to] = NoTable
  /\ cat' = [cat EXCEPT ![n] = NoTable, ![to] = cat[n]]
  /\ pending' = [pending EXCEPT ![c] = RenameLogged(@, n, to)]
  /\ UNCHANGED <<tname, tables, nextRow>>

RenameTable(c, n, to) ==
  /\ ddl(c, "rename", n, to)
  /\ cat[n] # NoTable
  /\ to = n \/ cat[to] = NoTable
  /\ cat' = [cat EXCEPT ![n] = NoTable, ![to] = cat[n]]
  /\ tname' = [tname EXCEPT ![cat[n]] = to]
  /\ pending' = [pending EXCEPT ![c] = RenameLogged(@, n, to)]
  /\ UNCHANGED <<tables, nextRow>>

\* (variant) a drop leaves the buffered rows as they are
ForgetLoggedNothing(recs, gone) == recs

ForgetLogged(recs, gone) == Kept(recs, {r \in Records : r.name # gone})

DropTable(c, n) ==
  /\ ddl(c, "drop", n, n)
  /\ cat[n] # NoTable
  /\ cat' = [cat EXCEPT ![n] = NoTable]
  /\ pending' = [pending EXCEPT ![c] = ForgetLogged(@, n)]
  /\ UNCHANGED <<tname, tables, nextRow>>

RememberSchema(c) ==
  /\ step[c] = "remember"
  /\ schema' = Append(schema, stmt[c])
  /\ step' = [step EXCEPT ![c] = "log"]
  /\ UNCHANGED <<catVars, heapVars, tx, journaled, pending, stmt, journal, ck, logVars, vals, restarts>>

\* (variant) a schema statement waits for the commit, like a row
LogNowBuffered(c) ==
  /\ step[c] = "log"
  /\ buffer(c, stmt[c])
  /\ step' = [step EXCEPT ![c] = "ready"]
  /\ stmt' = [stmt EXCEPT ![c] = NoStmt]
  /\ UNCHANGED <<catVars, heapVars, tx, journaled, schema, journal, ck, logVars, vals, restarts>>

LogNow(c) ==
  /\ step[c] = "log"
  /\ IF journaled[c] THEN write(c, <<stmt[c]>>, "ready")
     ELSE /\ step' = [step EXCEPT ![c] = "ready"]
          /\ UNCHANGED logVars
  /\ stmt' = [stmt EXCEPT ![c] = NoStmt]
  /\ UNCHANGED <<catVars, heapVars, tx, journaled, pending, schema, journal, ck, vals, restarts>>

(***************************************************************************)
(* Checkpoint and Close.                                                   *)
(***************************************************************************)
ckStep(from, to) ==
  /\ ck.pc = from
  /\ ck' = to
  /\ UNCHANGED <<catVars, heapVars, connVars, schema, vals, restarts>>

\* e.log is nil after Close.
CheckpointBegin(closing) ==
  /\ Checkpoints # "none"
  /\ Checkpoints = "quiet" => \A c \in Conns : tx[c] = NoTx
  /\ ckStep("none", [ck EXCEPT !.pc = "schema", !.closing = closing,
                               !.snap = {t \in TxIds : status[t] = "Committed"}])
  /\ UNCHANGED <<journal, logVars>>

CheckpointSchema ==
  /\ ckStep("schema", [ck EXCEPT !.pc = "scan", !.recs = schema])
  /\ UNCHANGED <<journal, logVars>>

\* (variant) the checkpoint writes every row that was ever committed
CheckpointScanDeleted ==
  LET recs == {InsertRecord(tname[v.table], v.id, v.val) :
                 v \in {w \in rows : w.xmin \in ck.snap /\ \E n \in TableNames : cat[n] = w.table}}
  IN /\ ckStep("scan", [ck EXCEPT !.pc = "install", !.recs = @ \o SetToSeq(recs)])
     /\ UNCHANGED <<journal, logVars>>

\* One insert for each row the snapshot sees of each table in the catalog.
CheckpointScan ==
  LET inSnap == {v \in rows : v.xmin \in ck.snap /\ v.xmax \notin ck.snap
                              /\ \E n \in TableNames : cat[n] = v.table}
      recs == {InsertRecord(tname[v.table], v.id, v.val) : v \in inSnap}
  IN /\ ckStep("scan", [ck EXCEPT !.pc = "install", !.recs = @ \o SetToSeq(recs)])
     /\ UNCHANGED <<journal, logVars>>

\* Log.Checkpoint.  With the file closed by an error the new log is installed
\* all the same, and the reopening fails.
CheckpointInstall ==
  /\ ckStep("install", IF ck.closing THEN [ck EXCEPT !.pc = "detach", !.recs = <<>>, !.snap = {}]
                                     ELSE NoCheckpoint)
  /\ IF dirty THEN log' = ck.recs /\ dirty' = (file # "open") ELSE UNCHANGED <<log, dirty>>
  /\ UNCHANGED <<journal, file>>

DetachJournal ==
  /\ ckStep("detach", [ck EXCEPT !.pc = "release"])
  /\ journal' = FALSE
  /\ UNCHANGED logVars

CloseLog ==
  /\ ckStep("release", [ck EXCEPT !.pc = "closed"])
  /\ file' = "closed"
  /\ UNCHANGED <<journal, log, dirty>>

Next ==
  \/ \E c \in Conns :
       \/ Begin(c) \/ Flush(c) \/ Commit(c) \/ Rollback(c)
       \/ \E t \in Tables : Insert(c, t)
       \/ \E v \in rows : Delete(c, v)
       \/ \E n \in TableNames : CreateTable(c, n) \/ DropTable(c, n)
       \/ \E n, to \in TableNames : RenameTable(c, n, to)
       \/ RememberSchema(c) \/ LogNow(c)
  \/ \E closing \in BOOLEAN : CheckpointBegin(closing)
  \/ CheckpointSchema \/ CheckpointScan \/ CheckpointInstall
  \/ DetachJournal \/ CloseLog
  \/ Restart

Spec == Init /\ [][Next]_vars

(***************************************************************************)
(* Properties.                                                             *)
(***************************************************************************)
\* The types, and the correspondence of the catalog's two views of a name.
TypeOK ==
  /\ cat \in [TableNames -> Tables \cup {NoTable}]
  /\ tname \in [Tables -> TableNames]
  /\ \A n \in TableNames : cat[n] # NoTable => tname[cat[n]] = n /\ cat[n] <= tables
  /\ tables \in 0..MaxTable
  /\ nextRow \in [Tables -> 1..(MaxVal + 1)]
  /\ \A v \in rows : v \in [table : 1..tables, id : 1..MaxVal, val : 1..MaxVal,
                            xmin : TxIds, xmax : TxIds \cup {NoTx}]
  /\ \A v \in rows : v.id < nextRow[v.table]
  /\ status \in [TxIds -> {"Unknown", "InProgress", "Committed", "Aborted"}]
  /\ nextTx \in 2..(MaxTx + 1)
  /\ tx \in [Conns -> TxIds \cup {NoTx}]
  /\ journaled \in [Conns -> BOOLEAN]
  /\ step \in [Conns -> {"ready", "failed", "flushed", "remember", "log"}]
  /\ \A c \in Conns : pending[c] \in Seq(Records)
  /\ log \in Seq(Records) /\ schema \in Seq(Records)
  /\ ck.pc \in {"none", "schema", "scan", "install", "detach", "release", "closed"}
  /\ journal \in BOOLEAN /\ dirty \in BOOLEAN
  /\ file \in {"open", "failed", "closed"}
  /\ vals \in 0..MaxVal /\ restarts \in 0..MaxRestarts

\* Recovery can read the log at any moment: no record names a table that does
\* not exist when recovery reaches it (RenameLogged, ForgetLogged, recordSchema,
\* the order of a checkpoint's records).
ReplayOK == Replayed(log).ok

Settled(t) == t # NoTx /\ (status[t] = "Committed" \/ \E c \in Conns : tx[c] = t /\ step[c] = "flushed")

\* What the running database holds, by name.
Contents ==
  {[name |-> tname[v.table], id |-> v.id, val |-> v.val] :
     v \in {w \in rows : Settled(w.xmin) /\ ~Settled(w.xmax)
                         /\ \E n \in TableNames : cat[n] = w.table}}

\* What recovery would make of the log now, by name.
Recovered ==
  LET s == Replayed(log)
  IN {[name |-> s.tname[r.table], id |-> r.id, val |-> r.val] :
        r \in {q \in s.rows : \E n \in TableNames : s.cat[n] = q.table}}

\* As long as the log accepts records, and between schema statements, the
\* history a checkpoint would write is the one in the log (recordSchema,
\* Checkpoint, apply).
HistoryLogged ==
  (file = "open" /\ \A c \in Conns : step[c] \notin {"remember", "log"}) =>
    schema = History(log)

\* Whenever the catalog, the history and the log agree on the schema, recovery
\* would find the tables and the rows the running database has, and no others
\* (flush before Commit, LogNow, Checkpoint, Load).
RecoveryMatches ==
  (schema = History(log) /\ \A c \in Conns : step[c] # "remember") =>
    /\ \A n \in TableNames : (cat[n] = NoTable) <=> (Replayed(log).cat[n] = NoTable)
    /\ Contents = Recovered

\* A row whose transaction aborted is not in the database that recovery builds
\* (Status: Aborted means its writes are invisible to everyone, forever).
AbortedStaysOut ==
  \A v \in rows :
    status[v.xmin] = "Aborted" => \A r \in Recovered : r.val # v.val
=============================================================================
