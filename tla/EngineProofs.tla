---------------------------- MODULE EngineProofs ----------------------------
(***************************************************************************)
(* Proofs about Engine: that recovery would find what the database holds,  *)
(* for any number of connections, tables, rows, restarts and checkpoints.  *)
(*                                                                         *)
(* The proofs are about an engine that is used with Care: each of the runs *)
(* Engine_rename, Engine_stale and Engine_checkpoint drops one part of it, *)
(* and TLC then finds recovery going wrong.                                *)
(***************************************************************************)
EXTENDS ReplayProofs

\* No other transaction is open while a schema statement runs, no INSERT is bound
\* to a table that is gone, and a checkpoint has the database to itself.
Careful == Alone /\ ~Stale /\ Checkpoints # "any"

(***************************************************************************)
(* The inductive invariant.                                                *)
(***************************************************************************)

\* The connections in a schema statement, of which there is one at most.
InDdl == {c \in Conns : step[c] \in {"remember", "log"}}
Doing == CHOOSE c \in Conns : step[c] \in {"remember", "log"}

\* The log and the history as that statement will leave them.
LogPlus == IF InDdl = {} THEN log ELSE Append(log, stmt[Doing])
Hist == IF InDdl = {} \/ step[Doing] = "log" THEN schema ELSE Append(schema, stmt[Doing])

\* The tables that have a name, and the rows of theirs that have been committed.
Live == {t \in Tables : \E n \in TableNames : cat[n] = t}

SettledTx == {t \in TxIds : status[t] = "Committed" \/ \E c \in Conns : tx[c] = t /\ step[c] = "flushed"}

Held == {[table |-> v.table, id |-> v.id, val |-> v.val] :
           v \in {w \in rows : w.xmin \in SettledTx /\ w.xmax \notin SettledTx /\ w.table \in Live}}

\* What TypeOK does not say.
Shapes ==
  /\ pending \in [Conns -> Seq(RowRecords)]
  /\ stmt \in [Conns -> Records \cup {NoStmt}]
  /\ \A c \in InDdl : stmt[c] \in DdlRecords
  /\ \A i \in 1..Len(schema) : isDDL(schema[i])
  /\ ck \in [pc : {"none", "schema", "scan", "install", "detach", "release", "closed"},
             closing : BOOLEAN, snap : SUBSET TxIds, recs : Seq(Records)]
  /\ IsFiniteSet(rows)

\* Rows are told apart by their identity, and transactions by the values they insert.
Numbered ==
  /\ \A t \in Tables : nextRow[t] <= vals + 1
  /\ \A v \in rows : v.id <= vals /\ v.val <= vals /\ v.xmin < nextTx /\ v.xmax < nextTx
  /\ \A v, w \in rows : v.table = w.table /\ v.id = w.id => v = w
  /\ \A v, w \in rows : v.val = w.val => v.xmin = w.xmin
  /\ \A v \in rows : v.xmin \in SettledTx \/ v.xmax \in {NoTx, v.xmin}

InRange(l) == \A i \in 1..Len(l) : l[i].op = "insert" => l[i].id \in 1..vals /\ l[i].val \in 1..vals

RecordsNumbered == InRange(log) /\ InRange(ck.recs) /\ \A c \in Conns : InRange(pending[c])

\* Who runs while nobody else does.
Turns ==
  /\ \A c \in Conns : tx[c] = NoTx => step[c] = "ready" /\ pending[c] = <<>>
  /\ \A c \in Conns : tx[c] # NoTx => journaled[c] /\ tx[c] < nextTx /\ status[tx[c]] = "InProgress"
  /\ \A c, d \in Conns : tx[c] = tx[d] /\ tx[c] # NoTx => c = d
  /\ \A t \in TxIds : t >= nextTx => status[t] = "Unknown"
  /\ \A c \in InDdl : tx[c] # NoTx /\ \A d \in Conns \ {c} : tx[d] = NoTx
  /\ ck.pc # "none" => \A c \in Conns : tx[c] = NoTx
  /\ ck.pc \notin {"release", "closed"} => journal

\* The history makes the catalog the database has: the very same tables.
CatalogIsHistory ==
  LET s == Replayed(Hist)
  IN s.ok /\ s.cat = cat /\ s.tname = tname /\ s.tables = tables /\ s.rows = {}

\* The log can be replayed, and is behind the history only once the file has failed.
LogFollows ==
  /\ Len(History(LogPlus)) <= Len(Hist)
  /\ file = "open" => History(LogPlus) = Hist
  /\ Replayed(log).ok /\ Replayed(log).tables <= MaxTable

\* A log that is not behind has the rows of the database.
LogHolds ==
  "sync" \notin Faults /\ History(LogPlus) = Hist =>
    {r \in Replayed(LogPlus).rows : r.table \in Live} = Held

\* Nothing in the log is of a transaction that may still abort.
SettledOnly(l) ==
  \A i \in 1..Len(l) : l[i].op = "insert" => \A v \in rows : v.val = l[i].val => v.xmin \in SettledTx
LoggedSettled == "sync" \notin Faults => SettledOnly(log) /\ SettledOnly(ck.recs)

\* Each record of a buffer is what its transaction did to a row of a live table,
\* and until the buffer is written it has one for everything the transaction did.
Insertion(c, rec, v) == rec.op = "insert" /\ v.table = cat[rec.name] /\ v.id = rec.id /\ v.val = rec.val
                        /\ v.xmin = tx[c]
Deletion(c, rec, v) == rec.op = "delete" /\ v.table = cat[rec.name] /\ v.id = rec.id /\ v.xmax = tx[c]

BufferedRows(c) ==
  LET p == pending[c]
  IN /\ \A i \in 1..Len(p) : cat[p[i].name] # NoTable
                             /\ \E v \in rows : Insertion(c, p[i], v) \/ Deletion(c, p[i], v)
     /\ Orderly(p)
     /\ step[c] \in {"ready", "remember", "log"} /\ tx[c] # NoTx =>
          \A v \in rows : v.table \in Live =>
            /\ v.xmin = tx[c] => \E i \in 1..Len(p) : Insertion(c, p[i], v)
            /\ v.xmax = tx[c] => \E i \in 1..Len(p) : Deletion(c, p[i], v)

Buffered == \A c \in Conns : BufferedRows(c)

\* What a checkpoint has copied is still so when it is installed.
Copied ==
  /\ ck.pc \in {"schema", "scan"} => ck.snap = SettledTx
  /\ ck.pc = "scan" => ck.recs = schema
  /\ ck.pc = "install" =>
       /\ Replayed(ck.recs).ok /\ Replayed(ck.recs).tables <= MaxTable
       /\ History(ck.recs) = schema
       /\ {r \in Replayed(ck.recs).rows : r.table \in Live} = Held

IInv ==
  /\ TypeOK /\ Shapes /\ Numbered /\ RecordsNumbered /\ Turns
  /\ CatalogIsHistory /\ LogFollows /\ LogHolds /\ LoggedSettled /\ Buffered /\ Copied

(***************************************************************************)
(* The initial state.                                                      *)
(***************************************************************************)
LEMMA FirstReplayed ==
  LET l == <<DDLRecord("create", First, First)>>
  IN /\ l \in Seq(Records) /\ Len(l) = 1 /\ l[1] = DDLRecord("create", First, First) /\ isDDL(l[1])
     /\ Replayed(l) = fields([n \in TableNames |-> IF n = First THEN 1 ELSE NoTable],
                             [t \in Tables |-> First], 1, {})
<1> DEFINE rec == DDLRecord("create", First, First)
           l == <<rec>>
           c == [n \in TableNames |-> IF n = First THEN 1 ELSE NoTable]
           m == [t \in Tables |-> First]
<1>1. rec \in Records /\ rec.op = "create" /\ rec.name = First /\ isDDL(rec)
  BY EngineAssumption DEF DDLRecord, Records, isDDL
<1>2. l \in Seq(Records) /\ Len(l) = 1 /\ l[1] = rec /\ l = Append(<<>>, rec)
  BY <1>1
<1> HIDE DEF rec, l
<1>3. Replayed(l) = apply(NothingReplayed, rec)
  <2>1. <<>> \in Seq(Records)
    OBVIOUS
  <2>2. PICK e : e = <<>>
    OBVIOUS
  <2>3. e \in Seq(Records) /\ l = Append(e, rec)
    BY <1>2, <2>1, <2>2
  <2>4. Replay(NothingReplayed, Append(e, rec)) = apply(Replay(NothingReplayed, e), rec)
    BY <1>1, <2>3, ReplayAppend
  <2>5. Replay(NothingReplayed, e) = NothingReplayed
    BY <2>2, ReplayEmpty
  <2>6. QED
    BY <2>3, <2>4, <2>5 DEF Replayed
<1>4. NothingReplayed.ok /\ NothingReplayed.cat[First] = NoTable /\ NothingReplayed.tables = 0
      /\ NothingReplayed.rows = {}
  BY EngineAssumption DEF NothingReplayed
<1>5. [NothingReplayed.cat EXCEPT ![First] = 0 + 1] = c
  BY EngineAssumption DEF NothingReplayed
<1>6. [NothingReplayed.tname EXCEPT ![0 + 1] = First] = m
  BY EngineAssumption DEF NothingReplayed
<1> HIDE DEF c, m
<1>7. apply(NothingReplayed, rec) = fields(c, m, 0 + 1, {})
  BY <1>1, <1>4, <1>5, <1>6, NothingType, ApplyCreate
<1>8. QED
  BY <1>1, <1>2, <1>3, <1>7 DEF rec, l, c, m

\* A database that has just been created satisfies the invariant.
LEMMA InitIInv == Init => IInv
<1> SUFFICES ASSUME Init PROVE IInv
  OBVIOUS
<1> DEFINE first == <<DDLRecord("create", First, First)>>
<1>0. /\ first \in Seq(Records) /\ Len(first) = 1 /\ isDDL(first[1])
      /\ log = first /\ schema = first
      /\ Replayed(first).cat = [n \in TableNames |-> IF n = First THEN 1 ELSE NoTable]
      /\ Replayed(first).tname = [t \in Tables |-> First]
      /\ Replayed(first).tables = 1 /\ Replayed(first).rows = {} /\ Replayed(first).ok
  BY FirstReplayed DEF Init, fields
<1> HIDE DEF first
<1>0a. ASSUME NEW i \in 1..Len(first)
       PROVE  first[i].op \in {"create", "rename", "drop"}
  <2>1. i = 1
    BY <1>0
  <2>2. first[1].op \in {"create", "rename", "drop"}
    BY <1>0 DEF isDDL
  <2>3. QED
    BY <2>1, <2>2
<1>1. cat = Replayed(first).cat /\ tname = Replayed(first).tname /\ tables = Replayed(first).tables
  BY <1>0 DEF Init
<1>2. InDdl = {} /\ rows = {} /\ SettledTx = {Boot} /\ ck = NoCheckpoint
  BY EngineAssumption DEF Init, InDdl, NoConn, SettledTx, FreshStatus, TxIds, Boot
<1>3. LogPlus = first /\ Hist = first
  BY <1>0, <1>2 DEF LogPlus, Hist
<1>4. History(first) = first
  BY <1>0, HistoryOfSchema
<1>5. TypeOK
  <2>1. 1 \in Tables
    BY EngineAssumption DEF Tables
  <2>2. cat \in [TableNames -> Tables \cup {NoTable}] /\ tname \in [Tables -> TableNames]
        /\ (\A n \in TableNames : cat[n] # NoTable => tname[cat[n]] = n /\ cat[n] <= tables)
        /\ tables \in 0..MaxTable
    BY <1>0, <1>1, <2>1, EngineAssumption
  <2>3. nextRow \in [Tables -> 1..(MaxVal + 1)]
    BY EngineAssumption DEF Init
  <2>4. status \in [TxIds -> {"Unknown", "InProgress", "Committed", "Aborted"}] /\ nextTx \in 2..(MaxTx + 1)
    BY EngineAssumption DEF Init, FreshStatus, Boot
  <2>5. tx \in [Conns -> TxIds \cup {NoTx}] /\ journaled \in [Conns -> BOOLEAN]
        /\ step \in [Conns -> {"ready", "failed", "flushed", "remember", "log"}]
        /\ (\A c \in Conns : pending[c] \in Seq(Records))
    BY DEF Init, NoConn
  <2>6. ck.pc \in {"none", "schema", "scan", "install", "detach", "release", "closed"}
    BY <1>2 DEF NoCheckpoint
  <2>7. journal \in BOOLEAN /\ dirty \in BOOLEAN /\ file \in {"open", "failed", "closed"}
        /\ vals \in 0..MaxVal /\ restarts \in 0..MaxRestarts
    <3>1. vals = 0 /\ restarts = 0
      BY DEF Init
    <3>2. vals \in 0..MaxVal /\ restarts \in 0..MaxRestarts
      BY <3>1, EngineAssumption
    <3>3. journal \in BOOLEAN /\ dirty \in BOOLEAN /\ file \in {"open", "failed", "closed"}
      BY DEF Init
    <3>4. QED
      BY <3>2, <3>3
  <2>8. QED
    BY <1>0, <1>2, <2>2, <2>3, <2>4, <2>5, <2>6, <2>7 DEF TypeOK
<1>6. Shapes
  <2>1. pending \in [Conns -> Seq(RowRecords)] /\ stmt \in [Conns -> Records \cup {NoStmt}]
    BY DEF Init, NoConn
  <2>2. \A i \in 1..Len(schema) : isDDL(schema[i])
    BY <1>0, <1>0a DEF isDDL
  <2>3. ck \in [pc : {"none", "schema", "scan", "install", "detach", "release", "closed"},
                closing : BOOLEAN, snap : SUBSET TxIds, recs : Seq(Records)]
    BY <1>2 DEF NoCheckpoint
  <2>4. QED
    BY <1>2, <2>1, <2>2, <2>3, FS_EmptySet DEF Shapes
<1>7. Numbered
  BY <1>2, EngineAssumption DEF Numbered, Init
<1>8. RecordsNumbered
  <2>1. InRange(log)
    <3>1. \A i \in 1..Len(log) : log[i].op # "insert"
      BY <1>0, <1>0a
    <3>2. QED
      BY <3>1 DEF InRange
  <2>2. InRange(<<>>)
    BY DEF InRange
  <2>3. ck.recs = <<>> /\ \A c \in Conns : pending[c] = <<>>
    BY <1>2 DEF Init, NoConn, NoCheckpoint
  <2>4. QED
    BY <2>1, <2>2, <2>3 DEF RecordsNumbered
<1>9. Turns
  <2>1. \A t \in TxIds : t >= nextTx => status[t] = "Unknown"
    BY EngineAssumption DEF Init, FreshStatus, TxIds, Boot
  <2>2. QED
    BY <1>2, <2>1 DEF Turns, Init, NoConn, NoCheckpoint
<1>10. CatalogIsHistory
  BY <1>0, <1>1, <1>3 DEF CatalogIsHistory
<1>11. LogFollows
  BY <1>0, <1>3, <1>4, EngineAssumption DEF LogFollows
<1>12. LogHolds
  BY <1>0, <1>2, <1>3 DEF LogHolds, Held
<1>13. LoggedSettled
  BY <1>2 DEF LoggedSettled, SettledOnly
<1>14. Buffered
  <2>1. \A c \in Conns : pending[c] = <<>>
    BY DEF Init, NoConn
  <2>2. QED
    BY <1>2, <2>1 DEF Buffered, BufferedRows, Orderly
<1>15. Copied
  BY <1>2 DEF Copied, NoCheckpoint
<1>16. QED
  BY <1>5, <1>6, <1>7, <1>8, <1>9, <1>10, <1>11, <1>12, <1>13, <1>14, <1>15 DEF IInv

(***************************************************************************)
(* Who runs, and which transactions have been settled.                     *)
(***************************************************************************)

\* While a transaction is anywhere but in a schema statement, nobody is in one.
LEMMA QuietFor ==
  ASSUME NEW c \in Conns
  PROVE  IInv /\ tx[c] # NoTx /\ step[c] \notin {"remember", "log"} => InDdl = {}
  BY DEF IInv, Turns, InDdl

\* No transaction, no schema statement.
LEMMA QuietInCheckpoint == IInv /\ (\A c \in Conns : tx[c] = NoTx) => InDdl = {}
  BY DEF IInv, Turns, InDdl

\* A connection in a schema statement is the only one.
LEMMA OnlyOne ==
  ASSUME NEW c \in Conns
  PROVE  IInv /\ step[c] \in {"remember", "log"} => InDdl = {c}
<1> SUFFICES ASSUME IInv, step[c] \in {"remember", "log"} PROVE InDdl = {c}
  OBVIOUS
<1>1. c \in InDdl
  BY DEF InDdl
<1>2. ASSUME NEW d \in InDdl PROVE d = c
  <2>1. tx[c] # NoTx /\ tx[d] # NoTx /\ d \in Conns
    BY <1>1 DEF IInv, Turns, InDdl
  <2>2. d # c => tx[d] = NoTx
    BY <1>1, <2>1 DEF IInv, Turns
  <2>3. QED
    BY <2>1, <2>2
<1>3. QED
  BY <1>1, <1>2

\* LogPlus and Hist during a schema statement,
LEMMA PlusIn ==
  ASSUME NEW c \in Conns
  PROVE  InDdl = {c} => /\ LogPlus = Append(log, stmt[c])
                        /\ Hist = IF step[c] = "log" THEN schema ELSE Append(schema, stmt[c])
<1> SUFFICES ASSUME InDdl = {c}
             PROVE  /\ LogPlus = Append(log, stmt[c])
                    /\ Hist = IF step[c] = "log" THEN schema ELSE Append(schema, stmt[c])
  OBVIOUS
<1>1. Doing = c
  BY DEF Doing, InDdl
<1>2. QED
  BY <1>1 DEF LogPlus, Hist

\* and outside of one.
LEMMA PlusOut == InDdl = {} => LogPlus = log /\ Hist = schema
  BY DEF LogPlus, Hist

\* Rows are read and written, and transactions begin and end, outside of schema statements.
LEMMA QuietAction ==
  ASSUME NEW c \in Conns
  PROVE  /\ Careful /\ IInv
         /\ Begin(c) \/ (\E t \in Tables : Insert(c, t)) \/ (\E v \in rows : Delete(c, v))
            \/ Flush(c) \/ Commit(c) \/ Rollback(c)
         => InDdl = {} /\ InDdl' = {}
<1> SUFFICES ASSUME Careful, IInv
             PROVE  /\ Begin(c) \/ (\E t \in Tables : Insert(c, t)) \/ (\E v \in rows : Delete(c, v))
                       \/ Flush(c) \/ Commit(c) \/ Rollback(c)
                    => InDdl = {} /\ InDdl' = {}
  OBVIOUS
<1>1. step \in [Conns -> {"ready", "failed", "flushed", "remember", "log"}]
  BY DEF IInv, TypeOK
<1>2. CASE Begin(c)
  BY <1>2 DEF Careful, Begin, InDdl
<1>3. ASSUME NEW t \in Tables, Insert(c, t) PROVE InDdl = {} /\ InDdl' = {}
  <2>1. InDdl = {}
    BY <1>3, QuietFor DEF Insert, Ready
  <2>2. QED
    BY <2>1, <1>3 DEF Insert, InDdl
<1>4. ASSUME NEW v \in rows, Delete(c, v) PROVE InDdl = {} /\ InDdl' = {}
  <2>1. InDdl = {}
    BY <1>4, QuietFor DEF Delete, Ready
  <2>2. QED
    BY <2>1, <1>4 DEF Delete, InDdl
<1>5. CASE Flush(c)
  <2>1. InDdl = {}
    BY <1>5, QuietFor DEF Flush, Ready
  <2>2. \E x \in {"flushed", "failed"} : step' = [step EXCEPT ![c] = x]
    BY <1>5 DEF Flush, write
  <2>3. QED
    BY <1>1, <2>1, <2>2 DEF InDdl
<1>6. CASE Commit(c) \/ Rollback(c)
  <2>1. tx[c] # NoTx /\ step[c] \notin {"remember", "log"} /\ step' = [step EXCEPT ![c] = "ready"]
    BY <1>6 DEF Commit, Rollback, finish, IInv, Turns
  <2>2. InDdl = {}
    BY <2>1, QuietFor
  <2>3. QED
    BY <1>1, <2>1, <2>2 DEF InDdl
<1>7. QED
  BY <1>2, <1>3, <1>4, <1>5, <1>6

Checkpointing ==
  (\E closing \in BOOLEAN : CheckpointBegin(closing)) \/ CheckpointSchema \/ CheckpointScan
  \/ CheckpointInstall \/ DetachJournal \/ CloseLog

\* A checkpoint has the database to itself.
LEMMA CheckpointAlone ==
  Careful /\ IInv /\ Checkpointing =>
    /\ \A c \in Conns : tx[c] = NoTx
    /\ UNCHANGED <<catVars, heapVars, connVars, schema, vals, restarts>>
    /\ InDdl = {} /\ InDdl' = {}
<1> SUFFICES ASSUME Careful, IInv, Checkpointing
             PROVE  /\ \A c \in Conns : tx[c] = NoTx
                    /\ UNCHANGED <<catVars, heapVars, connVars, schema, vals, restarts>>
                    /\ InDdl = {} /\ InDdl' = {}
  OBVIOUS
<1>1. UNCHANGED <<catVars, heapVars, connVars, schema, vals, restarts>>
  BY DEF Checkpointing, CheckpointBegin, CheckpointSchema, CheckpointScan, CheckpointInstall,
         DetachJournal, CloseLog, ckStep
<1>2. \A c \in Conns : tx[c] = NoTx
  <2>1. CASE \E closing \in BOOLEAN : CheckpointBegin(closing)
    BY <2>1, EngineAssumption DEF CheckpointBegin, Careful
  <2>2. CASE ~\E closing \in BOOLEAN : CheckpointBegin(closing)
    <3>1. ck.pc # "none"
      BY <2>2 DEF Checkpointing, CheckpointSchema, CheckpointScan, CheckpointInstall, DetachJournal,
                  CloseLog, ckStep
    <3>2. QED
      BY <3>1 DEF IInv, Turns
  <2>3. QED
    BY <2>1, <2>2
<1>3. InDdl = {}
  BY <1>2, QuietInCheckpoint
<1>4. InDdl' = {}
  BY <1>1, <1>3 DEF InDdl, connVars
<1>5. QED
  BY <1>1, <1>2, <1>3, <1>4

\* The statements that change the catalog.
Ddl3(c) ==
  \/ \E n \in TableNames : CreateTable(c, n) \/ DropTable(c, n)
  \/ \E n, to \in TableNames : RenameTable(c, n, to)

\* A schema statement begins when its transaction is the only one.
LEMMA DdlBegins ==
  ASSUME NEW c \in Conns
  PROVE  Careful /\ IInv /\ Ddl3(c) =>
           /\ InDdl = {} /\ InDdl' = {c}
           /\ tx[c] # NoTx /\ step[c] = "ready" /\ \A d \in Conns \ {c} : tx[d] = NoTx
           /\ step' = [step EXCEPT ![c] = "remember"]
           /\ stmt'[c] \in DdlRecords /\ stmt' \in [Conns -> Records \cup {NoStmt}]
           /\ UNCHANGED <<rows, status, nextTx, tx, journaled, schema, journal, ck, logVars, vals, restarts>>
<1> SUFFICES ASSUME Careful, IInv, Ddl3(c)
             PROVE  /\ InDdl = {} /\ InDdl' = {c}
                    /\ tx[c] # NoTx /\ step[c] = "ready" /\ \A d \in Conns \ {c} : tx[d] = NoTx
                    /\ step' = [step EXCEPT ![c] = "remember"]
                    /\ stmt'[c] \in DdlRecords /\ stmt' \in [Conns -> Records \cup {NoStmt}]
                    /\ UNCHANGED <<rows, status, nextTx, tx, journaled, schema, journal, ck, logVars, vals, restarts>>
  OBVIOUS
<1>1. PICK op \in {"create", "rename", "drop"}, n \in TableNames, to \in TableNames : ddl(c, op, n, to)
  BY DEF Ddl3, CreateTable, DropTable, RenameTable
<1>2. tx[c] # NoTx /\ step[c] = "ready" /\ \A d \in Conns \ {c} : tx[d] = NoTx
  BY <1>1 DEF ddl, Ready, Careful
<1>3. InDdl = {}
  BY <1>2, QuietFor
<1>4. step \in [Conns -> {"ready", "failed", "flushed", "remember", "log"}]
      /\ stmt \in [Conns -> Records \cup {NoStmt}]
  BY DEF IInv, TypeOK, Shapes
<1>5. step' = [step EXCEPT ![c] = "remember"] /\ stmt' = [stmt EXCEPT ![c] = DDLRecord(op, n, to)]
  BY <1>1 DEF ddl
<1>6. DDLRecord(op, n, to) \in DdlRecords
  BY <1>1, EngineAssumption DEF DDLRecord, DdlRecords, Records, isDDL
<1>7. InDdl' = {c}
  BY <1>3, <1>4, <1>5 DEF InDdl
<1>8. stmt'[c] \in DdlRecords /\ stmt' \in [Conns -> Records \cup {NoStmt}]
  BY <1>4, <1>5, <1>6 DEF DdlRecords
<1>9. QED
  BY <1>1, <1>2, <1>3, <1>5, <1>7, <1>8 DEF ddl

\* The types the steps below need.
LEMMA Typed ==
  IInv => /\ step \in [Conns -> {"ready", "failed", "flushed", "remember", "log"}]
          /\ tx \in [Conns -> TxIds \cup {NoTx}] /\ journaled \in [Conns -> BOOLEAN]
          /\ pending \in [Conns -> Seq(RowRecords)] /\ stmt \in [Conns -> Records \cup {NoStmt}]
          /\ status \in [TxIds -> {"Unknown", "InProgress", "Committed", "Aborted"}]
          /\ nextTx \in 2..(MaxTx + 1) /\ tables \in 0..MaxTable /\ vals \in 0..MaxVal
          /\ nextRow \in [Tables -> 1..(MaxVal + 1)]
          /\ cat \in [TableNames -> Tables \cup {NoTable}] /\ tname \in [Tables -> TableNames]
          /\ log \in Seq(Records) /\ schema \in Seq(Records) /\ ck.recs \in Seq(Records)
          /\ MaxTable \in Nat /\ MaxVal \in Nat /\ MaxTx \in Nat
  BY EngineAssumption DEF IInv, TypeOK, Shapes

\* LogPlus and Hist are logs.
LEMMA PlusTyped ==
  IInv => LogPlus \in Seq(Records) /\ Hist \in Seq(Records)
<1> SUFFICES ASSUME IInv PROVE LogPlus \in Seq(Records) /\ Hist \in Seq(Records)
  OBVIOUS
<1>1. log \in Seq(Records) /\ schema \in Seq(Records)
  BY Typed
<1>2. CASE InDdl = {}
  BY <1>1, <1>2, PlusOut
<1>3. CASE InDdl # {}
  <2>1. PICK c \in Conns : c \in InDdl
    BY <1>3 DEF InDdl
  <2>2. InDdl = {c}
    BY <2>1, OnlyOne DEF InDdl
  <2>3. stmt[c] \in Records
    BY <2>1 DEF IInv, Shapes, DdlRecords
  <2>4. Append(log, stmt[c]) \in Seq(Records) /\ Append(schema, stmt[c]) \in Seq(Records)
    BY <1>1, <2>3
  <2>5. LogPlus = Append(log, stmt[c]) /\ (Hist = schema \/ Hist = Append(schema, stmt[c]))
    BY <2>2, PlusIn
  <2>6. QED
    BY <1>1, <2>4, <2>5, Zenon
<1>4. QED
  BY <1>2, <1>3

\* A transaction is settled when its rows are durable, and only then.
LEMMA SettledSame ==
  ASSUME NEW c \in Conns
  PROVE  /\ Careful /\ IInv
         /\ Begin(c) \/ (\E t \in Tables : Insert(c, t)) \/ (\E v \in rows : Delete(c, v))
            \/ Commit(c) \/ Rollback(c) \/ Ddl3(c) \/ RememberSchema(c) \/ LogNow(c)
         => SettledTx' = SettledTx
<1> SUFFICES ASSUME Careful, IInv
             PROVE  /\ Begin(c) \/ (\E t \in Tables : Insert(c, t)) \/ (\E v \in rows : Delete(c, v))
                       \/ Commit(c) \/ Rollback(c) \/ Ddl3(c) \/ RememberSchema(c) \/ LogNow(c)
                    => SettledTx' = SettledTx
  OBVIOUS
<1>1. /\ step \in [Conns -> {"ready", "failed", "flushed", "remember", "log"}]
      /\ tx \in [Conns -> TxIds \cup {NoTx}]
      /\ status \in [TxIds -> {"Unknown", "InProgress", "Committed", "Aborted"}]
  BY Typed
<1>2. CASE Begin(c)
  <2>1. tx[c] = NoTx /\ step[c] = "ready"
    BY <1>2 DEF Begin, IInv, Turns
  <2>2. nextTx \in TxIds /\ nextTx # NoTx
    BY <1>2, Typed, EngineAssumption DEF Begin, TxIds, Boot, NoTx
  <2>3. status[nextTx] = "Unknown"
    BY <2>2, Typed DEF IInv, Turns
  <2>4. status' = [status EXCEPT ![nextTx] = "InProgress"] /\ tx' = [tx EXCEPT ![c] = nextTx]
        /\ step' = step
    BY <1>2 DEF Begin
  <2>5. \A t \in TxIds : status'[t] = "Committed" <=> status[t] = "Committed"
    BY <1>1, <2>2, <2>3, <2>4
  <2>6. \A t \in TxIds : (\E d \in Conns : tx'[d] = t /\ step'[d] = "flushed")
                         <=> (\E d \in Conns : tx[d] = t /\ step[d] = "flushed")
    BY <1>1, <2>1, <2>4
  <2>7. QED
    BY <2>5, <2>6 DEF SettledTx
<1>3. CASE (\E t \in Tables : Insert(c, t)) \/ (\E v \in rows : Delete(c, v))
  <2>1. status' = status /\ tx' = tx /\ step' = step
    BY <1>3 DEF Insert, Delete
  <2>2. QED
    BY <2>1 DEF SettledTx
<1>4. CASE Commit(c) \/ Rollback(c)
  <2>1. tx[c] # NoTx /\ tx[c] \in TxIds /\ status[tx[c]] = "InProgress"
    BY <1>1, <1>4 DEF Commit, Rollback, IInv, Turns
  <2>2. PICK outcome \in {"Committed", "Aborted"} :
          /\ outcome = "Committed" <=> step[c] = "flushed"
          /\ status' = [status EXCEPT ![tx[c]] = outcome]
          /\ tx' = [tx EXCEPT ![c] = NoTx] /\ step' = [step EXCEPT ![c] = "ready"]
    BY <1>4 DEF Commit, Rollback, finish
  <2>3. \A d \in Conns : tx[d] = tx[c] => d = c
    BY <2>1 DEF IInv, Turns
  <2>4. ASSUME NEW t \in TxIds
        PROVE  (status'[t] = "Committed" \/ \E d \in Conns : tx'[d] = t /\ step'[d] = "flushed")
               <=> (status[t] = "Committed" \/ \E d \in Conns : tx[d] = t /\ step[d] = "flushed")
    <3>1. CASE t = tx[c]
      <4>1. status'[t] = outcome
        BY <1>1, <2>1, <2>2, <3>1
      <4>2. ~ \E d \in Conns : tx'[d] = t /\ step'[d] = "flushed"
        BY <1>1, <2>1, <2>2, <2>3, <3>1
      <4>3. (\E d \in Conns : tx[d] = t /\ step[d] = "flushed") <=> step[c] = "flushed"
        BY <2>3, <3>1
      <4>4. QED
        BY <2>1, <2>2, <3>1, <4>1, <4>2, <4>3
    <3>2. CASE t # tx[c]
      <4>1. status'[t] = status[t]
        BY <1>1, <2>1, <2>2, <3>2
      <4>2. t # NoTx
        BY EngineAssumption DEF TxIds, Boot, NoTx
      <4>3. \A d \in Conns : (tx'[d] = t /\ step'[d] = "flushed") <=> (tx[d] = t /\ step[d] = "flushed")
        BY <1>1, <2>2, <3>2, <4>2
      <4>4. QED
        BY <4>1, <4>3
    <3>3. QED
      BY <3>1, <3>2
  <2>5. QED
    BY <2>4 DEF SettledTx
<1>5. CASE Ddl3(c) \/ RememberSchema(c) \/ LogNow(c)
  <2>1. status' = status /\ tx' = tx /\ step[c] # "flushed"
        /\ \E x \in {"ready", "failed", "remember", "log"} : step' = [step EXCEPT ![c] = x]
    <3>1. CASE Ddl3(c)
      BY <3>1, DdlBegins
    <3>2. CASE RememberSchema(c)
      BY <3>2 DEF RememberSchema, heapVars
    <3>3. CASE LogNow(c)
      BY <3>3 DEF LogNow, write, heapVars
    <3>4. QED
      BY <1>5, <3>1, <3>2, <3>3
  <2>2. \A d \in Conns : step'[d] = "flushed" <=> step[d] = "flushed"
    BY <1>1, <2>1
  <2>3. QED
    BY <2>1, <2>2 DEF SettledTx
<1>6. QED
  BY <1>2, <1>3, <1>4, <1>5

\* A checkpoint settles nothing.
LEMMA SettledInCheckpoint == Careful /\ IInv /\ Checkpointing => SettledTx' = SettledTx
<1> SUFFICES ASSUME Careful, IInv, Checkpointing PROVE SettledTx' = SettledTx
  OBVIOUS
<1>1. status' = status /\ tx' = tx /\ step' = step
  BY CheckpointAlone DEF heapVars, connVars
<1>2. QED
  BY <1>1 DEF SettledTx

\* What Flush writes, and that it is then that a transaction is settled.
LEMMA FlushSettles ==
  ASSUME NEW c \in Conns
  PROVE  IInv /\ Flush(c) =>
           /\ tx[c] \in TxIds /\ tx[c] \notin SettledTx /\ step[c] = "ready"
           /\ pending' = [pending EXCEPT ![c] = <<>>]
           /\ UNCHANGED <<catVars, heapVars, tx, journaled, stmt, schema, journal, ck, vals, restarts>>
           /\ \/ step' = [step EXCEPT ![c] = "flushed"] /\ SettledTx' = SettledTx \cup {tx[c]}
                 /\ log' = log \o pending[c] /\ (pending[c] # <<>> => file = "open") /\ file' = file
              \/ step' = [step EXCEPT ![c] = "failed"] /\ SettledTx' = SettledTx
                 /\ file' # "open"
                 /\ log' = log
              \/ step' = [step EXCEPT ![c] = "failed"] /\ SettledTx' = SettledTx
                 /\ file' # "open"
                 /\ "sync" \in Faults /\ file = "open" /\ log' = log \o pending[c]
<1> SUFFICES ASSUME IInv, Flush(c)
             PROVE  /\ tx[c] \in TxIds /\ tx[c] \notin SettledTx /\ step[c] = "ready"
                    /\ \/ step' = [step EXCEPT ![c] = "flushed"] /\ SettledTx' = SettledTx \cup {tx[c]}
                          /\ log' = log \o pending[c] /\ (pending[c] # <<>> => file = "open")
                          /\ file' = file
                       \/ step' = [step EXCEPT ![c] = "failed"] /\ SettledTx' = SettledTx
                          /\ file' # "open"
                          /\ log' = log
                       \/ step' = [step EXCEPT ![c] = "failed"] /\ SettledTx' = SettledTx
                          /\ file' # "open"
                          /\ "sync" \in Faults /\ file = "open" /\ log' = log \o pending[c]
  BY DEF Flush
<1>1. /\ step \in [Conns -> {"ready", "failed", "flushed", "remember", "log"}]
      /\ tx \in [Conns -> TxIds \cup {NoTx}] /\ log \in Seq(Records)
      /\ pending \in [Conns -> Seq(RowRecords)] /\ Faults \subseteq {"append", "sync"}
  BY Typed, EngineAssumption
<1>2. tx[c] # NoTx /\ step[c] = "ready" /\ tx' = tx /\ status' = status
  BY DEF Flush, Ready, heapVars
<1>3. tx[c] \in TxIds /\ status[tx[c]] = "InProgress" /\ journaled[c]
      /\ \A d \in Conns : tx[d] = tx[c] => d = c
  BY <1>1, <1>2 DEF IInv, Turns
<1>4. tx[c] \notin SettledTx
  BY <1>2, <1>3 DEF SettledTx
<1>5. step' = [step EXCEPT ![c] = "flushed"] => SettledTx' = SettledTx \cup {tx[c]}
  <2>1. SUFFICES ASSUME step' = [step EXCEPT ![c] = "flushed"]
                 PROVE  SettledTx' = SettledTx \cup {tx[c]}
    OBVIOUS
  <2>2. \A t \in TxIds : (\E d \in Conns : tx'[d] = t /\ step'[d] = "flushed")
                         <=> t = tx[c] \/ (\E d \in Conns : tx[d] = t /\ step[d] = "flushed")
    BY <1>1, <1>2, <2>1
  <2>3. QED
    BY <1>2, <1>3, <2>2 DEF SettledTx
<1>6. step' = [step EXCEPT ![c] = "failed"] => SettledTx' = SettledTx
  <2>1. SUFFICES ASSUME step' = [step EXCEPT ![c] = "failed"]
                 PROVE  SettledTx' = SettledTx
    OBVIOUS
  <2>2. \A d \in Conns : step'[d] = "flushed" <=> step[d] = "flushed"
    BY <1>1, <1>2, <2>1
  <2>3. QED
    BY <1>2, <2>2 DEF SettledTx
<1>7. CASE pending[c] = <<>>
  <2>1. step' = [step EXCEPT ![c] = "flushed"] /\ log' = log /\ file' = file
    BY <1>7 DEF Flush, logVars
  <2>2. PICK l \in Seq(Records) : l = log
    BY <1>1
  <2>3. log \o pending[c] = log
    BY <1>7, <2>2
  <2>4. QED
    BY <1>2, <1>3, <1>4, <1>5, <1>7, <2>1, <2>3
<1>8. CASE pending[c] # <<>>
  <2>1. write(c, pending[c], "flushed")
    BY <1>3, <1>8 DEF Flush
  <2>2. PICK fault \in Faults \cup {"none"} :
          LET appended == file = "open" /\ fault # "append"
              flushed  == appended /\ fault = "none"
          IN /\ log' = IF appended THEN log \o pending[c] ELSE log
             /\ dirty' = (dirty \/ appended)
             /\ file' = IF file = "open" /\ ~flushed THEN "failed" ELSE file
             /\ step' = [step EXCEPT ![c] = IF flushed THEN "flushed" ELSE "failed"]
    BY <2>1 DEF write
  <2>3. CASE file = "open" /\ fault = "none"
    BY <1>2, <1>3, <1>4, <1>5, <2>2, <2>3
  <2>4. CASE file # "open" \/ fault = "append"
    BY <1>2, <1>3, <1>4, <1>6, <2>2, <2>4
  <2>5. CASE file = "open" /\ fault = "sync"
    BY <1>1, <1>2, <1>3, <1>4, <1>6, <2>2, <2>5
  <2>6. QED
    BY <1>1, <2>3, <2>4, <2>5
<1>9. QED
  BY <1>7, <1>8

(***************************************************************************)
(* The log and the history as a schema statement will leave them.          *)
(***************************************************************************)

\* The same two facts of the next state.
LEMMA PlusInNext ==
  ASSUME NEW c \in Conns
  PROVE  InDdl' = {c} => /\ LogPlus' = Append(log', stmt'[c])
                         /\ Hist' = IF step'[c] = "log" THEN schema' ELSE Append(schema', stmt'[c])
<1> SUFFICES ASSUME InDdl' = {c}
             PROVE  /\ LogPlus' = Append(log', stmt'[c])
                    /\ Hist' = IF step'[c] = "log" THEN schema' ELSE Append(schema', stmt'[c])
  OBVIOUS
<1>1. Doing' = c
  BY DEF Doing, InDdl
<1>2. QED
  BY <1>1 DEF LogPlus, Hist

\* And outside of a schema statement.
LEMMA PlusOutNext == InDdl' = {} => LogPlus' = log' /\ Hist' = schema'
  BY DEF LogPlus, Hist

\* To remember a statement is what the history had been going to do.
LEMMA Remembers ==
  ASSUME NEW c \in Conns
  PROVE  Careful /\ IInv /\ RememberSchema(c) =>
           /\ InDdl = {c} /\ InDdl' = {c} /\ LogPlus' = LogPlus /\ Hist' = Hist
           /\ schema' = Append(schema, stmt[c]) /\ stmt[c] \in DdlRecords /\ tx[c] # NoTx
           /\ step' = [step EXCEPT ![c] = "log"]
           /\ UNCHANGED <<catVars, heapVars, tx, journaled, pending, stmt, journal, ck, logVars, vals, restarts>>
<1> SUFFICES ASSUME Careful, IInv, RememberSchema(c)
             PROVE  /\ InDdl = {c} /\ InDdl' = {c} /\ LogPlus' = LogPlus /\ Hist' = Hist
                    /\ stmt[c] \in DdlRecords /\ tx[c] # NoTx
  BY DEF RememberSchema
<1>1. step \in [Conns -> {"ready", "failed", "flushed", "remember", "log"}]
  BY Typed
<1>2. InDdl = {c}
  BY OnlyOne DEF RememberSchema
<1>3. step[c] = "remember" /\ step' = [step EXCEPT ![c] = "log"] /\ schema' = Append(schema, stmt[c])
      /\ stmt' = stmt /\ log' = log
  BY DEF RememberSchema, logVars
<1>4. InDdl' = {c}
  BY <1>1, <1>2, <1>3 DEF InDdl
<1>5. step'[c] = "log"
  BY <1>1, <1>3
<1>6. LogPlus' = LogPlus /\ Hist' = Hist
  BY <1>2, <1>3, <1>4, <1>5, PlusIn, PlusInNext
<1>7. c \in InDdl
  BY <1>2
<1>8. QED
  BY <1>2, <1>4, <1>6, <1>7 DEF IInv, Turns, Shapes

\* To log it is what the log had been going to do, unless the write fails.
LEMMA Logs ==
  ASSUME NEW c \in Conns
  PROVE  Careful /\ IInv /\ LogNow(c) =>
           /\ InDdl = {c} /\ InDdl' = {} /\ Hist' = Hist /\ LogPlus' = log' /\ Hist = schema
           /\ LogPlus = Append(log, stmt[c]) /\ stmt[c] \in DdlRecords /\ tx[c] # NoTx
           /\ stmt' = [stmt EXCEPT ![c] = NoStmt]
           /\ UNCHANGED <<catVars, heapVars, tx, journaled, pending, schema, journal, ck, vals, restarts>>
           /\ \/ step' = [step EXCEPT ![c] = "ready"] /\ log' = LogPlus /\ file = "open"
              \/ step' = [step EXCEPT ![c] = "failed"] /\ file' # "open" /\ log' = log
              \/ step' = [step EXCEPT ![c] = "failed"] /\ file' # "open" /\ log' = LogPlus
                 /\ "sync" \in Faults /\ file = "open"
<1> SUFFICES ASSUME Careful, IInv, LogNow(c)
             PROVE  /\ InDdl = {c} /\ InDdl' = {} /\ Hist' = Hist /\ LogPlus' = log' /\ Hist = schema
                    /\ LogPlus = Append(log, stmt[c]) /\ stmt[c] \in DdlRecords /\ tx[c] # NoTx
                    /\ \/ step' = [step EXCEPT ![c] = "ready"] /\ log' = LogPlus /\ file = "open"
                       \/ step' = [step EXCEPT ![c] = "failed"] /\ file' # "open" /\ log' = log
                       \/ step' = [step EXCEPT ![c] = "failed"] /\ file' # "open" /\ log' = LogPlus
                          /\ "sync" \in Faults /\ file = "open"
  BY DEF LogNow
<1>1. step \in [Conns -> {"ready", "failed", "flushed", "remember", "log"}] /\ log \in Seq(Records)
      /\ Faults \subseteq {"append", "sync"}
  BY Typed, EngineAssumption
<1>2. InDdl = {c}
  BY OnlyOne DEF LogNow
<1>3. c \in InDdl
  BY <1>2
<1>4. stmt[c] \in DdlRecords /\ tx[c] # NoTx /\ journaled[c]
  BY <1>3 DEF IInv, Turns, Shapes
<1>5. LogPlus = Append(log, stmt[c]) /\ Hist = schema
  BY <1>2, PlusIn DEF LogNow
<1>6. PICK fault \in Faults \cup {"none"} :
        LET appended == file = "open" /\ fault # "append"
            flushed  == appended /\ fault = "none"
        IN /\ log' = IF appended THEN log \o <<stmt[c]>> ELSE log
           /\ dirty' = (dirty \/ appended)
           /\ file' = IF file = "open" /\ ~flushed THEN "failed" ELSE file
           /\ step' = [step EXCEPT ![c] = IF flushed THEN "ready" ELSE "failed"]
  BY <1>4 DEF LogNow, write
<1>7. log \o <<stmt[c]>> = Append(log, stmt[c])
  <2>1. stmt[c] \in Records
    BY <1>4 DEF DdlRecords
  <2>2. QED
    BY <1>1, <2>1
<1>8. \/ step' = [step EXCEPT ![c] = "ready"] /\ log' = LogPlus /\ file = "open"
      \/ step' = [step EXCEPT ![c] = "failed"] /\ file' # "open" /\ log' = log
      \/ step' = [step EXCEPT ![c] = "failed"] /\ file' # "open" /\ log' = LogPlus
         /\ "sync" \in Faults /\ file = "open"
  <2>1. CASE file = "open" /\ fault = "none"
    BY <1>5, <1>6, <1>7, <2>1
  <2>2. CASE file # "open" \/ fault = "append"
    BY <1>6, <2>2
  <2>3. CASE file = "open" /\ fault = "sync"
    BY <1>1, <1>5, <1>6, <1>7, <2>3
  <2>4. QED
    BY <1>1, <2>1, <2>2, <2>3
<1>9. InDdl' = {}
  <2>1. \E x \in {"ready", "failed"} : step' = [step EXCEPT ![c] = x]
    BY <1>8
  <2>2. QED
    BY <1>1, <1>2, <2>1 DEF InDdl
<1>10. LogPlus' = log' /\ Hist' = Hist
  BY <1>5, <1>9, PlusOutNext DEF LogNow
<1>11. QED
  BY <1>2, <1>4, <1>5, <1>8, <1>9, <1>10

\* Recovery makes the tables of the database from a log that is not behind.
LEMMA LogMakesTables ==
  IInv /\ History(LogPlus) = Hist /\ Replayed(LogPlus).ok =>
    /\ Replayed(LogPlus).cat = cat /\ Replayed(LogPlus).tname = tname /\ Replayed(LogPlus).tables = tables
<1> SUFFICES ASSUME IInv, History(LogPlus) = Hist, Replayed(LogPlus).ok
             PROVE  /\ Replayed(LogPlus).cat = cat /\ Replayed(LogPlus).tname = tname
                    /\ Replayed(LogPlus).tables = tables
  OBVIOUS
<1>1. LogPlus \in Seq(Records)
  BY PlusTyped
<1>2. Alike(Replayed(Hist), Replayed(LogPlus))
  BY <1>1, HistoryMakesTables
<1>3. QED
  BY <1>2 DEF Alike, IInv, CatalogIsHistory

\* A statement that runs against the history runs at the end of the log as well.
LEMMA LogTakesStatement ==
  ASSUME NEW l \in Seq(Records), NEW rec \in DdlRecords, Replayed(l).ok
  PROVE  /\ Alike(Replayed(Append(l, rec)), Replayed(Append(History(l), rec)))
         /\ Replayed(Append(l, rec)).rows = Replayed(l).rows
<1>1. rec \in Records
  BY DEF DdlRecords
<1>2. History(l) \in Seq(Records)
  BY HistoryType
<1>3. Alike(Replayed(History(l)), Replayed(l))
  BY HistoryMakesTables
<1>4. Replayed(l) \in States /\ Replayed(History(l)) \in States
  BY <1>2, ReplayedType
<1>5. Replayed(Append(l, rec)) = apply(Replayed(l), rec)
  BY <1>1, ReplayAppend DEF Replayed
<1>6. Replayed(Append(History(l), rec)) = apply(Replayed(History(l)), rec)
  BY <1>1, <1>2, ReplayAppend DEF Replayed
<1>7. Alike(Replayed(l), Replayed(History(l)))
  BY <1>3 DEF Alike
<1>8. QED
  BY <1>4, <1>5, <1>6, <1>7, DdlAlike, DdlEffect

(***************************************************************************)
(* The steps, by what they have in common.                                 *)
(***************************************************************************)

\* The steps of a connection inside its transaction.
Working(c) ==
  \/ \E t \in Tables : Insert(c, t)
  \/ \E v \in rows : Delete(c, v)
  \/ Flush(c) \/ Ddl3(c) \/ RememberSchema(c) \/ LogNow(c)

\* The steps, by who takes them.
LEMMA NextCases ==
  [Next]_vars =>
    \/ \E c \in Conns : Begin(c) \/ Working(c) \/ Commit(c) \/ Rollback(c)
    \/ Checkpointing \/ Restart \/ UNCHANGED vars
  BY DEF Next, Working, Ddl3, Checkpointing

\* What a statement or a flush of one connection leaves alone.
LEMMA Works ==
  ASSUME NEW c \in Conns
  PROVE  Careful /\ IInv /\ Working(c) =>
           /\ tx[c] # NoTx /\ tx[c] \in TxIds /\ ck.pc = "none"
           /\ tx' = tx /\ journaled' = journaled /\ status' = status /\ nextTx' = nextTx
           /\ ck' = ck /\ journal' = journal /\ restarts' = restarts
           /\ \A d \in Conns \ {c} : step'[d] = step[d] /\ pending'[d] = pending[d]
           /\ InDdl' \subseteq {c} /\ (c \in InDdl' => \A d \in Conns \ {c} : tx[d] = NoTx)
<1> SUFFICES ASSUME Careful, IInv, Working(c)
             PROVE  /\ tx[c] # NoTx /\ tx[c] \in TxIds /\ ck.pc = "none"
                    /\ tx' = tx /\ journaled' = journaled /\ status' = status /\ nextTx' = nextTx
                    /\ ck' = ck /\ journal' = journal /\ restarts' = restarts
                    /\ \A d \in Conns \ {c} : step'[d] = step[d] /\ pending'[d] = pending[d]
                    /\ InDdl' \subseteq {c} /\ (c \in InDdl' => \A d \in Conns \ {c} : tx[d] = NoTx)
  OBVIOUS
<1>1. /\ step \in [Conns -> {"ready", "failed", "flushed", "remember", "log"}]
      /\ tx \in [Conns -> TxIds \cup {NoTx}] /\ pending \in [Conns -> Seq(RowRecords)]
  BY Typed
<1>2. tx[c] # NoTx => tx[c] \in TxIds /\ ck.pc = "none"
  BY <1>1 DEF IInv, Turns
<1>3. CASE (\E t \in Tables : Insert(c, t)) \/ \E v \in rows : Delete(c, v)
  <2>1. InDdl' = {}
    BY <1>3, QuietAction
  <2>2. tx[c] # NoTx /\ step' = step /\ \E r : pending' = [pending EXCEPT ![c] = r] \/ pending' = pending
    BY <1>3 DEF Insert, Delete, Ready, buffer
  <2>3. QED
    BY <1>1, <1>2, <1>3, <2>1, <2>2 DEF Insert, Delete
<1>4. CASE Flush(c)
  <2>1. InDdl' = {}
    BY <1>4, QuietAction
  <2>2. tx[c] \in TxIds /\ tx[c] # NoTx /\ \E x : step' = [step EXCEPT ![c] = x]
    BY <1>4, FlushSettles, EngineAssumption DEF TxIds, Boot, NoTx
  <2>3. QED
    BY <1>1, <1>2, <1>4, <2>1, <2>2 DEF Flush, heapVars
<1>5. CASE Ddl3(c)
  <2>1. \E r : pending' = [pending EXCEPT ![c] = r] \/ pending' = pending
    BY <1>5 DEF Ddl3, CreateTable, DropTable, RenameTable
  <2>2. /\ InDdl' = {c} /\ tx[c] # NoTx /\ \A d \in Conns \ {c} : tx[d] = NoTx
        /\ step' = [step EXCEPT ![c] = "remember"]
        /\ UNCHANGED <<rows, status, nextTx, tx, journaled, schema, journal, ck, logVars, vals, restarts>>
    BY <1>5, DdlBegins
  <2>3. QED
    BY <1>1, <1>2, <2>1, <2>2
<1>6. CASE RememberSchema(c)
  <2>1. /\ InDdl = {c} /\ InDdl' = {c} /\ tx[c] # NoTx /\ step' = [step EXCEPT ![c] = "log"]
        /\ UNCHANGED <<catVars, heapVars, tx, journaled, pending, stmt, journal, ck, logVars, vals, restarts>>
    BY <1>6, Remembers
  <2>2. \A d \in Conns \ {c} : tx[d] = NoTx
    BY <2>1 DEF IInv, Turns
  <2>3. QED
    BY <1>1, <1>2, <2>1, <2>2 DEF heapVars
<1>7. CASE LogNow(c)
  <2>1. /\ InDdl' = {} /\ tx[c] # NoTx /\ \E x : step' = [step EXCEPT ![c] = x]
        /\ UNCHANGED <<catVars, heapVars, tx, journaled, pending, schema, journal, ck, vals, restarts>>
    BY <1>7, Logs
  <2>2. QED
    BY <1>1, <1>2, <2>1 DEF heapVars
<1>8. QED
  BY <1>3, <1>4, <1>5, <1>6, <1>7 DEF Working

\* The end of a transaction.
LEMMA Ends ==
  ASSUME NEW c \in Conns
  PROVE  IInv /\ (Commit(c) \/ Rollback(c)) =>
           /\ tx[c] \in TxIds /\ tx[c] # NoTx /\ ck.pc = "none"
           /\ tx' = [tx EXCEPT ![c] = NoTx] /\ step' = [step EXCEPT ![c] = "ready"]
           /\ pending' = [pending EXCEPT ![c] = <<>>] /\ journaled' = [journaled EXCEPT ![c] = FALSE]
           /\ \E outcome \in {"Committed", "Aborted"} : status' = [status EXCEPT ![tx[c]] = outcome]
           /\ UNCHANGED <<catVars, nextRow, rows, nextTx, stmt, schema, journal, ck, logVars, vals, restarts>>
<1> SUFFICES ASSUME IInv, Commit(c) \/ Rollback(c) PROVE tx[c] \in TxIds /\ tx[c] # NoTx /\ ck.pc = "none"
  BY DEF Commit, Rollback, finish
<1>1. tx[c] # NoTx
  BY DEF Commit, Rollback, IInv, Turns
<1>2. QED
  BY <1>1, Typed DEF IInv, Turns

\* A transaction begins, and has nothing yet.
LEMMA Begins ==
  ASSUME NEW c \in Conns
  PROVE  Careful /\ IInv /\ Begin(c) =>
           /\ ck.pc = "none" /\ journal /\ tx[c] = NoTx /\ pending[c] = <<>>
           /\ nextTx \in TxIds /\ status[nextTx] = "Unknown" /\ nextTx' = nextTx + 1
           /\ status' = [status EXCEPT ![nextTx] = "InProgress"] /\ tx' = [tx EXCEPT ![c] = nextTx]
           /\ journaled' = [journaled EXCEPT ![c] = TRUE]
           /\ UNCHANGED <<catVars, nextRow, rows, pending, step, stmt, schema, journal, ck, logVars,
                          vals, restarts>>
<1> SUFFICES ASSUME Careful, IInv, Begin(c)
             PROVE  /\ ck.pc = "none" /\ journal /\ tx[c] = NoTx /\ pending[c] = <<>>
                    /\ nextTx \in TxIds /\ status[nextTx] = "Unknown"
                    /\ journaled' = [journaled EXCEPT ![c] = TRUE]
  BY DEF Begin
<1>1. ck.pc = "none"
  BY DEF Begin, Admitted, Careful
<1>2. journal /\ journal \in BOOLEAN
  BY <1>1 DEF IInv, Turns, TypeOK
<1>3. nextTx \in TxIds
  BY Typed, EngineAssumption DEF Begin, TxIds, Boot
<1>4. nextTx >= nextTx
  BY Typed
<1>5. status[nextTx] = "Unknown" /\ tx[c] = NoTx /\ pending[c] = <<>>
  BY <1>3, <1>4 DEF Begin, IInv, Turns
<1>6. journaled' = [journaled EXCEPT ![c] = TRUE]
  <2>1. journal = TRUE
    BY <1>2
  <2>2. QED
    BY <2>1 DEF Begin
<1>7. QED
  BY <1>1, <1>2, <1>3, <1>5, <1>6

(***************************************************************************)
(* Turns is preserved.                                                     *)
(***************************************************************************)
LEMMA StepTurns == Careful /\ IInv /\ [Next]_vars => Turns'
<1> SUFFICES ASSUME Careful, IInv, [Next]_vars PROVE Turns'
  OBVIOUS
<1>1. /\ step \in [Conns -> {"ready", "failed", "flushed", "remember", "log"}]
      /\ tx \in [Conns -> TxIds \cup {NoTx}] /\ journaled \in [Conns -> BOOLEAN]
      /\ pending \in [Conns -> Seq(RowRecords)]
      /\ status \in [TxIds -> {"Unknown", "InProgress", "Committed", "Aborted"}]
      /\ nextTx \in 2..(MaxTx + 1) /\ MaxTx \in Nat
  BY Typed
<1>2. Turns
  BY DEF IInv
<1>3. TxIds \subseteq Nat /\ NoTx \notin TxIds
  BY EngineAssumption DEF TxIds, Boot, NoTx
<1>4. ASSUME NEW c \in Conns, Begin(c) PROVE Turns'
  <2>1. /\ ck.pc = "none" /\ journal /\ tx[c] = NoTx /\ pending[c] = <<>>
        /\ nextTx \in TxIds /\ status[nextTx] = "Unknown" /\ nextTx' = nextTx + 1
        /\ status' = [status EXCEPT ![nextTx] = "InProgress"] /\ tx' = [tx EXCEPT ![c] = nextTx]
        /\ journaled' = [journaled EXCEPT ![c] = TRUE]
        /\ UNCHANGED <<catVars, nextRow, rows, pending, step, stmt, schema, journal, ck, logVars,
                       vals, restarts>>
    BY <1>4, Begins
  <2>2. InDdl' = {}
    BY <1>4, QuietAction
  <2>3. \A d \in Conns : tx'[d] = NoTx => step'[d] = "ready" /\ pending'[d] = <<>>
    BY <1>1, <1>2, <2>1 DEF Turns
  <2>4. \A d \in Conns : tx'[d] # NoTx => journaled'[d] /\ tx'[d] < nextTx' /\ status'[tx'[d]] = "InProgress"
    <3> SUFFICES ASSUME NEW d \in Conns, tx'[d] # NoTx
                 PROVE  journaled'[d] /\ tx'[d] < nextTx' /\ status'[tx'[d]] = "InProgress"
      OBVIOUS
    <3>1. CASE d = c
      BY <1>1, <2>1, <3>1
    <3>2. CASE d # c
      <4>1. tx'[d] = tx[d] /\ journaled'[d] = journaled[d] /\ tx[d] \in TxIds
        BY <1>1, <2>1, <3>2
      <4>2. journaled[d] /\ tx[d] < nextTx /\ status[tx[d]] = "InProgress"
        BY <1>2, <4>1 DEF Turns
      <4>3. tx[d] < nextTx + 1 /\ tx[d] # nextTx
        <5>1. tx[d] \in Nat
          BY <1>3, <4>1, Zenon
        <5>2. nextTx \in Nat
          BY <1>1
        <5>3. QED
          BY <4>2, <5>1, <5>2
      <4>4. status'[tx[d]] = status[tx[d]]
        BY <1>1, <2>1, <4>1, <4>3
      <4>5. QED
        BY <2>1, <4>1, <4>2, <4>3, <4>4
    <3>3. QED
      BY <3>1, <3>2
  <2>5. \A d, e \in Conns : tx'[d] = tx'[e] /\ tx'[d] # NoTx => d = e
    <3>1. \A d \in Conns \ {c} : tx'[d] = tx[d] /\ (tx[d] # NoTx => tx[d] < nextTx)
      BY <1>1, <1>2, <2>1 DEF Turns
    <3>2. \A d \in Conns \ {c} : tx[d] # NoTx => tx[d] # nextTx
      BY <1>1, <1>3, <3>1
    <3>3. tx'[c] = nextTx
      BY <1>1, <2>1
    <3>4. QED
      BY <1>2, <1>3, <2>1, <3>1, <3>2, <3>3 DEF Turns
  <2>6. \A t \in TxIds : t >= nextTx' => status'[t] = "Unknown"
    BY <1>1, <1>2, <1>3, <2>1 DEF Turns
  <2>7. QED
    BY <2>1, <2>2, <2>3, <2>4, <2>5, <2>6 DEF Turns
<1>5. ASSUME NEW c \in Conns, Working(c) PROVE Turns'
  <2>1. /\ tx[c] # NoTx /\ tx[c] \in TxIds /\ ck.pc = "none"
        /\ tx' = tx /\ journaled' = journaled /\ status' = status /\ nextTx' = nextTx
        /\ ck' = ck /\ journal' = journal /\ restarts' = restarts
        /\ \A d \in Conns \ {c} : step'[d] = step[d] /\ pending'[d] = pending[d]
        /\ InDdl' \subseteq {c} /\ (c \in InDdl' => \A d \in Conns \ {c} : tx[d] = NoTx)
    BY <1>5, Works
  <2>2. \A d \in Conns : tx'[d] = NoTx => step'[d] = "ready" /\ pending'[d] = <<>>
    BY <1>2, <2>1 DEF Turns
  <2>3. \A d \in InDdl' : tx'[d] # NoTx /\ \A e \in Conns \ {d} : tx'[e] = NoTx
    BY <2>1
  <2>4. QED
    BY <1>2, <2>1, <2>2, <2>3 DEF Turns
<1>6. ASSUME NEW c \in Conns, Commit(c) \/ Rollback(c) PROVE Turns'
  <2>1. /\ tx[c] \in TxIds /\ tx[c] # NoTx /\ ck.pc = "none"
        /\ tx' = [tx EXCEPT ![c] = NoTx] /\ step' = [step EXCEPT ![c] = "ready"]
        /\ pending' = [pending EXCEPT ![c] = <<>>] /\ journaled' = [journaled EXCEPT ![c] = FALSE]
        /\ \E outcome \in {"Committed", "Aborted"} : status' = [status EXCEPT ![tx[c]] = outcome]
        /\ UNCHANGED <<catVars, nextRow, rows, nextTx, stmt, schema, journal, ck, logVars, vals, restarts>>
    BY <1>6, Ends
  <2>2. InDdl' = {}
    BY <1>6, QuietAction
  <2>3. \A d \in Conns : tx'[d] = NoTx => step'[d] = "ready" /\ pending'[d] = <<>>
    BY <1>1, <1>2, <2>1 DEF Turns
  <2>4. \A d \in Conns : tx'[d] # NoTx => journaled'[d] /\ tx'[d] < nextTx' /\ status'[tx'[d]] = "InProgress"
    <3> SUFFICES ASSUME NEW d \in Conns, tx'[d] # NoTx
                 PROVE  journaled'[d] /\ tx'[d] < nextTx' /\ status'[tx'[d]] = "InProgress"
      OBVIOUS
    <3>1. d # c /\ tx'[d] = tx[d] /\ journaled'[d] = journaled[d] /\ tx[d] \in TxIds
      BY <1>1, <2>1
    <3>2. journaled[d] /\ tx[d] < nextTx /\ status[tx[d]] = "InProgress" /\ tx[d] # tx[c]
      BY <1>2, <2>1, <3>1 DEF Turns
    <3>3. status'[tx[d]] = status[tx[d]]
      BY <1>1, <2>1, <3>1, <3>2
    <3>4. QED
      BY <2>1, <3>1, <3>2, <3>3
  <2>5. \A d, e \in Conns : tx'[d] = tx'[e] /\ tx'[d] # NoTx => d = e
    BY <1>1, <1>2, <2>1 DEF Turns
  <2>6. \A t \in TxIds : t >= nextTx' => status'[t] = "Unknown"
    <3>1. tx[c] < nextTx
      BY <1>2, <2>1 DEF Turns
    <3>2. \A t \in TxIds : t >= nextTx => t # tx[c]
      BY <1>1, <1>3, <2>1, <3>1
    <3>3. QED
      BY <1>1, <1>2, <2>1, <3>2 DEF Turns
  <2>7. QED
    BY <1>2, <2>1, <2>2, <2>3, <2>4, <2>5, <2>6 DEF Turns
<1>7. CASE Checkpointing
  <2>1. /\ \A c \in Conns : tx[c] = NoTx
        /\ UNCHANGED <<catVars, heapVars, connVars, schema, vals, restarts>>
        /\ InDdl' = {}
    BY <1>7, CheckpointAlone
  <2>2. ck'.pc \notin {"release", "closed"} => journal'
    BY <1>2, <1>7 DEF Checkpointing, CheckpointBegin, CheckpointSchema, CheckpointScan, CheckpointInstall,
                      DetachJournal, CloseLog, ckStep, Turns, NoCheckpoint, IInv, Shapes
  <2>3. QED
    BY <1>2, <2>1, <2>2 DEF Turns, heapVars, connVars
<1>8. CASE Restart
  <2>1. /\ tx' = [c \in Conns |-> NoTx] /\ step' = [c \in Conns |-> "ready"]
        /\ pending' = [c \in Conns |-> <<>>] /\ status' = FreshStatus /\ nextTx' = 2
        /\ ck'.pc = "none" /\ journal' = TRUE
    BY <1>8 DEF Restart, NoConn, NoCheckpoint, Boot
  <2>2. InDdl' = {}
    BY <2>1 DEF InDdl
  <2>3. \A t \in TxIds : t >= nextTx' => status'[t] = "Unknown"
    BY <1>3, <2>1 DEF FreshStatus, Boot
  <2>4. QED
    BY <2>1, <2>2, <2>3 DEF Turns
<1>9. CASE UNCHANGED vars
  BY <1>2, <1>9 DEF Turns, InDdl, vars, connVars, heapVars
<1>10. QED
  BY <1>4, <1>5, <1>6, <1>7, <1>8, <1>9, NextCases

(***************************************************************************)
(* What a restart loads.                                                   *)
(***************************************************************************)
LEMMA HighestIs ==
  ASSUME NEW s \in States, NEW t, NEW n \in Nat, \A r \in s.rows : r.id \in 0..n
  PROVE  highest(s, t) \in 0..n /\ \A r \in s.rows : r.table = t => r.id <= highest(s, t)
<1> DEFINE ids == {r.id : r \in {q \in s.rows : q.table = t}} \cup {0}
           gaps == {n - i : i \in ids}
<1>1. ids \subseteq 0..n /\ 0 \in ids
  OBVIOUS
<1>2. \A r \in s.rows : r.table = t => r.id \in ids
  OBVIOUS
<1>3. highest(s, t) = CHOOSE m \in ids : \A i \in ids : i <= m
  BY DEF highest
<1> HIDE DEF ids
<1>4. PICK g \in gaps : \A h \in gaps : g <= h
  <2>1. gaps \in SUBSET Nat /\ gaps # {}
    BY <1>1
  <2> HIDE DEF gaps
  <2>2. QED
    BY <2>1, LeastOf
<1>5. PICK m \in ids : g = n - m
  OBVIOUS
<1>6. \A i \in ids : i <= m
  <2>1. \A i \in ids : n - m <= n - i
    BY <1>4, <1>5
  <2>2. QED
    BY <2>1, <1>1
<1>7. highest(s, t) \in ids /\ \A i \in ids : i <= highest(s, t)
  BY <1>3, <1>6
<1>8. QED
  BY <1>1, <1>2, <1>7

\* Recovery loads the rows of the tables that have a name, and no others.
LEMMA LoadedIs ==
  ASSUME NEW s, IsFiniteSet(s.rows)
  PROVE  /\ IsFiniteSet(loaded(s))
         /\ \A v \in loaded(s) : \E r \in s.rows :
              /\ \E n \in TableNames : s.cat[n] = r.table
              /\ v = [table |-> r.table, id |-> r.id, val |-> r.val, xmin |-> Boot, xmax |-> NoTx]
         /\ \A r \in s.rows : (\E n \in TableNames : s.cat[n] = r.table) =>
              [table |-> r.table, id |-> r.id, val |-> r.val, xmin |-> Boot, xmax |-> NoTx] \in loaded(s)
<1> DEFINE live == {q \in s.rows : \E n \in TableNames : s.cat[n] = q.table}
           version(r) == [table |-> r.table, id |-> r.id, val |-> r.val, xmin |-> Boot, xmax |-> NoTx]
           f == [r \in live |-> version(r)]
<1>1. IsFiniteSet(live)
  BY FS_Subset
<1>2. loaded(s) = {version(r) : r \in live}
  BY DEF loaded
<1> HIDE DEF live, version
<1>3. f \in Surjection(live, loaded(s))
  BY <1>2 DEF Surjection
<1> HIDE DEF f
<1>4. IsFiniteSet(loaded(s))
  BY <1>1, <1>3, FS_Surjection
<1>5. QED
  BY <1>2, <1>4 DEF live, version

\* What IInv says of the log that recovery reads.
LEMMA LogReads ==
  IInv => /\ Replayed(log) \in States /\ Replayed(log).ok /\ Replayed(log).tables \in 1..MaxTable \cup {0}
          /\ Consistent(Replayed(log))
          /\ \A r \in Replayed(log).rows :
               r.table \in 1..Replayed(log).tables /\ r.id \in 1..vals /\ r.val \in 1..vals
<1> SUFFICES ASSUME IInv
             PROVE  /\ Replayed(log) \in States /\ Replayed(log).ok
                    /\ Replayed(log).tables \in 1..MaxTable \cup {0}
                    /\ Consistent(Replayed(log))
                    /\ \A r \in Replayed(log).rows :
                         r.table \in 1..Replayed(log).tables /\ r.id \in 1..vals /\ r.val \in 1..vals
  OBVIOUS
<1>1. log \in Seq(Records)
  BY Typed
<1>2. Replayed(log) \in States
  BY <1>1, ReplayedType
<1>3. Replayed(log).ok /\ Replayed(log).tables <= MaxTable /\ Replayed(log).tables \in Nat
  BY <1>2 DEF IInv, LogFollows, States
<1>4. Consistent(Replayed(log))
  BY <1>1, <1>3, ReplayedConsistent
<1>5. ASSUME NEW r \in Replayed(log).rows PROVE r.id \in 1..vals /\ r.val \in 1..vals
  <2>1. PICK i \in 1..Len(log) : log[i].op = "insert" /\ log[i].id = r.id /\ log[i].val = r.val
    BY <1>1, RowsInserted
  <2>2. QED
    BY <2>1 DEF IInv, RecordsNumbered, InRange
<1>6. \A r \in Replayed(log).rows : r.table \in 1..Replayed(log).tables
  BY <1>4 DEF Consistent
<1>7. QED
  BY <1>2, <1>3, <1>4, <1>5, <1>6, EngineAssumption

\* A database that has been reopened: its tables, its counters and its rows.
LEMMA RestartLoads ==
  IInv /\ Restart =>
    /\ IsFiniteSet(rows')
    /\ cat' = Replayed(log).cat /\ tname' = Replayed(log).tname /\ tables' = Replayed(log).tables
    /\ \A t \in Tables : nextRow'[t] \in 1..(vals + 1)
    /\ nextRow' \in [Tables -> Nat]
    /\ \A v \in rows' :
         /\ v \in [table : 1..tables', id : 1..vals, val : 1..vals, xmin : {Boot}, xmax : {NoTx}]
         /\ v.id < nextRow'[v.table]
         /\ [table |-> v.table, id |-> v.id, val |-> v.val] \in Replayed(log).rows
    /\ \A v, w \in rows' : v.table = w.table /\ v.id = w.id => v = w
    /\ \A r \in Replayed(log).rows : (\E n \in TableNames : cat'[n] = r.table) =>
         [table |-> r.table, id |-> r.id, val |-> r.val, xmin |-> Boot, xmax |-> NoTx] \in rows'
<1> SUFFICES ASSUME IInv, Restart
             PROVE  /\ IsFiniteSet(rows')
                    /\ \A t \in Tables : nextRow'[t] \in 1..(vals + 1)
                    /\ nextRow' \in [Tables -> Nat]
                    /\ \A v \in rows' :
                         /\ v \in [table : 1..tables', id : 1..vals, val : 1..vals,
                                   xmin : {Boot}, xmax : {NoTx}]
                         /\ v.id < nextRow'[v.table]
                         /\ [table |-> v.table, id |-> v.id, val |-> v.val] \in Replayed(log).rows
                    /\ \A v, w \in rows' : v.table = w.table /\ v.id = w.id => v = w
                    /\ \A r \in Replayed(log).rows : (\E n \in TableNames : cat'[n] = r.table) =>
                         [table |-> r.table, id |-> r.id, val |-> r.val, xmin |-> Boot, xmax |-> NoTx]
                           \in rows'
  BY DEF Restart
<1> DEFINE s == Replayed(log)
<1>1. /\ s \in States /\ s.tables \in 1..MaxTable \cup {0} /\ Consistent(s)
      /\ \A r \in s.rows : r.table \in 1..s.tables /\ r.id \in 1..vals /\ r.val \in 1..vals
  BY LogReads
<1>2. vals \in Nat /\ MaxTable \in Nat
  BY Typed
<1>3. /\ rows' = loaded(s) /\ cat' = s.cat /\ tables' = s.tables
      /\ nextRow' = [t \in Tables |-> highest(s, t) + 1]
  BY DEF Restart
<1> HIDE DEF s
<1>4. \A t \in Tables : highest(s, t) \in 0..vals /\ \A r \in s.rows : r.table = t => r.id <= highest(s, t)
  <2>1. \A r \in s.rows : r.id \in 0..vals
    BY <1>1, <1>2
  <2>2. QED
    BY <1>1, <1>2, <2>1, HighestIs
<1>5. nextRow' \in [Tables -> Nat] /\ \A t \in Tables : nextRow'[t] \in 1..(vals + 1)
  BY <1>2, <1>3, <1>4
<1>6. IsFiniteSet(s.rows) /\ s.rows \subseteq [table : Nat, id : 0..MaxVal, val : 0..MaxVal]
  BY <1>1 DEF Consistent, States
<1>7. ASSUME NEW v \in rows'
      PROVE  /\ v \in [table : 1..tables', id : 1..vals, val : 1..vals, xmin : {Boot}, xmax : {NoTx}]
             /\ v.id < nextRow'[v.table]
             /\ [table |-> v.table, id |-> v.id, val |-> v.val] \in s.rows
  <2>1. PICK r \in s.rows :
          v = [table |-> r.table, id |-> r.id, val |-> r.val, xmin |-> Boot, xmax |-> NoTx]
    BY <1>3, <1>6, LoadedIs
  <2>2. r.table \in 1..tables' /\ r.id \in 1..vals /\ r.val \in 1..vals
    BY <1>1, <1>3
  <2>3. r = [table |-> r.table, id |-> r.id, val |-> r.val]
    BY <1>6
  <2>4. r.table \in Tables
    BY <1>1, <1>2, <1>3, <2>2 DEF Tables
  <2>5. r.id < nextRow'[r.table]
    <3>1. nextRow'[r.table] = highest(s, r.table) + 1 /\ r.id <= highest(s, r.table)
          /\ highest(s, r.table) \in Nat /\ r.id \in Nat
      BY <1>2, <1>3, <1>4, <2>2, <2>4
    <3>2. QED
      BY <3>1
  <2>6. QED
    BY <2>1, <2>2, <2>3, <2>5
<1>8. \A v, w \in rows' : v.table = w.table /\ v.id = w.id => v = w
  <2> SUFFICES ASSUME NEW v \in rows', NEW w \in rows', v.table = w.table, v.id = w.id PROVE v = w
    OBVIOUS
  <2>1. PICK r \in s.rows :
          v = [table |-> r.table, id |-> r.id, val |-> r.val, xmin |-> Boot, xmax |-> NoTx]
    BY <1>3, <1>6, LoadedIs
  <2>2. PICK q \in s.rows :
          w = [table |-> q.table, id |-> q.id, val |-> q.val, xmin |-> Boot, xmax |-> NoTx]
    BY <1>3, <1>6, LoadedIs
  <2>3. r = q
    BY <1>1, <2>1, <2>2 DEF Consistent
  <2>4. QED
    BY <2>1, <2>2, <2>3
<1>9. IsFiniteSet(rows') /\ \A r \in s.rows : (\E n \in TableNames : cat'[n] = r.table) =>
        [table |-> r.table, id |-> r.id, val |-> r.val, xmin |-> Boot, xmax |-> NoTx] \in rows'
  BY <1>3, <1>6, LoadedIs
<1>10. QED
  BY <1>5, <1>7, <1>8, <1>9 DEF s

(***************************************************************************)
(* What a schema statement does to the catalog, and recovery to its own.   *)
(***************************************************************************)
LEMMA DdlRuns ==
  ASSUME NEW c \in Conns
  PROVE  Careful /\ IInv /\ Ddl3(c) =>
           /\ LogPlus' = Append(log, stmt'[c]) /\ Hist' = Append(schema, stmt'[c])
           /\ Replayed(Hist') = fields(cat', tname', tables', {})
           /\ \A t \in 1..tables : t \in Live' => t \in Live
<1> SUFFICES ASSUME Careful, IInv, Ddl3(c)
             PROVE  /\ LogPlus' = Append(log, stmt'[c]) /\ Hist' = Append(schema, stmt'[c])
                    /\ Replayed(Hist') = fields(cat', tname', tables', {})
                    /\ \A t \in 1..tables : t \in Live' => t \in Live
  OBVIOUS
<1>1. /\ InDdl = {} /\ InDdl' = {c} /\ stmt'[c] \in DdlRecords
      /\ step' = [step EXCEPT ![c] = "remember"] /\ schema' = schema /\ log' = log
  BY DdlBegins DEF logVars
<1>2. /\ step \in [Conns -> {"ready", "failed", "flushed", "remember", "log"}]
      /\ stmt \in [Conns -> Records \cup {NoStmt}] /\ schema \in Seq(Records)
      /\ cat \in [TableNames -> Tables \cup {NoTable}] /\ tables \in 0..MaxTable /\ MaxTable \in Nat
  BY Typed
<1>3. stmt'[c] \in Records
  BY <1>1 DEF DdlRecords
<1>4. LogPlus' = Append(log, stmt'[c]) /\ Hist' = Append(schema, stmt'[c])
  <2>1. step'[c] = "remember"
    BY <1>1, <1>2
  <2>2. QED
    BY <1>1, <2>1, PlusInNext
<1> DEFINE y == Replayed(schema)
<1>5. /\ y \in States /\ y.ok /\ y.cat = cat /\ y.tname = tname /\ y.tables = tables /\ y.rows = {}
  <2>1. Hist = schema
    BY <1>1, PlusOut
  <2>2. QED
    BY <1>2, <2>1, ReplayedType DEF IInv, CatalogIsHistory
<1>6. Replayed(Hist') = apply(y, stmt'[c])
  BY <1>2, <1>3, <1>4, ReplayAppend DEF Replayed
<1> HIDE DEF y
<1>7. ASSUME NEW n \in TableNames, CreateTable(c, n)
      PROVE  apply(y, stmt'[c]) = fields(cat', tname', tables', {})
             /\ \A t \in 1..tables : t \in Live' => t \in Live
  <2>1. stmt'[c] = DDLRecord("create", n, n)
    BY <1>2, <1>7 DEF CreateTable, ddl
  <2>2. stmt'[c].op = "create" /\ stmt'[c].name = n
    BY <2>1 DEF DDLRecord
  <2>3. cat[n] = NoTable /\ tables' = tables + 1 /\ cat' = [cat EXCEPT ![n] = tables + 1]
        /\ tname' = [tname EXCEPT ![tables + 1] = n]
    BY <1>7 DEF CreateTable
  <2>4. apply(y, stmt'[c]) = fields(cat', tname', tables', {})
    BY <1>3, <1>5, <2>2, <2>3, ApplyCreate
  <2>5. ASSUME NEW t \in 1..tables, t \in Live' PROVE t \in Live
    <3>1. PICK m \in TableNames : cat'[m] = t
      BY <2>5 DEF Live
    <3>2. cat[m] = t
      BY <1>2, <2>3, <3>1
    <3>3. QED
      BY <2>5, <3>2 DEF Live
  <2>6. QED
    BY <2>4, <2>5
<1>8. ASSUME NEW n \in TableNames, DropTable(c, n)
      PROVE  apply(y, stmt'[c]) = fields(cat', tname', tables', {})
             /\ \A t \in 1..tables : t \in Live' => t \in Live
  <2>1. stmt'[c] = DDLRecord("drop", n, n)
    BY <1>2, <1>8 DEF DropTable, ddl
  <2>2. stmt'[c].op = "drop" /\ stmt'[c].name = n
    BY <2>1 DEF DDLRecord
  <2>3. cat[n] # NoTable /\ tables' = tables /\ cat' = [cat EXCEPT ![n] = NoTable] /\ tname' = tname
    BY <1>8 DEF DropTable
  <2>4. apply(y, stmt'[c]) = fields(cat', tname', tables', {})
    BY <1>3, <1>5, <2>2, <2>3, ApplyDrop
  <2>5. ASSUME NEW t \in 1..tables, t \in Live' PROVE t \in Live
    <3>1. PICK m \in TableNames : cat'[m] = t
      BY <2>5 DEF Live
    <3>2. cat[m] = t
      BY <1>2, <2>3, <3>1 DEF NoTable
    <3>3. QED
      BY <2>5, <3>2 DEF Live
  <2>6. QED
    BY <2>4, <2>5
<1>9. ASSUME NEW n \in TableNames, NEW to \in TableNames, RenameTable(c, n, to)
      PROVE  apply(y, stmt'[c]) = fields(cat', tname', tables', {})
             /\ \A t \in 1..tables : t \in Live' => t \in Live
  <2>1. stmt'[c] = DDLRecord("rename", n, to)
    BY <1>2, <1>9 DEF RenameTable, ddl
  <2>2. stmt'[c].op = "rename" /\ stmt'[c].name = n /\ stmt'[c].to = to
    BY <2>1 DEF DDLRecord
  <2>3. cat[n] # NoTable /\ (to = n \/ cat[to] = NoTable) /\ tables' = tables
        /\ cat' = [cat EXCEPT ![n] = NoTable, ![to] = cat[n]] /\ tname' = [tname EXCEPT ![cat[n]] = to]
    BY <1>9 DEF RenameTable
  <2>4. apply(y, stmt'[c]) = fields(cat', tname', tables', {})
    BY <1>3, <1>5, <2>2, <2>3, ApplyRename
  <2>5. ASSUME NEW t \in 1..tables, t \in Live' PROVE t \in Live
    <3>1. PICK m \in TableNames : cat'[m] = t
      BY <2>5 DEF Live
    <3>2. cat[m] = t \/ cat[n] = t
      BY <1>2, <2>3, <3>1 DEF NoTable
    <3>3. QED
      BY <2>5, <3>2 DEF Live
  <2>6. QED
    BY <2>4, <2>5
<1>10. QED
  BY <1>4, <1>6, <1>7, <1>8, <1>9 DEF Ddl3

(***************************************************************************)
(* CatalogIsHistory is preserved.                                          *)
(***************************************************************************)
LEMMA StepCatalog == Careful /\ IInv /\ [Next]_vars => CatalogIsHistory'
<1> SUFFICES ASSUME Careful, IInv, [Next]_vars PROVE CatalogIsHistory'
  OBVIOUS
<1>1. CatalogIsHistory
  BY DEF IInv
<1>2. ASSUME Hist' = Hist, cat' = cat, tname' = tname, tables' = tables PROVE CatalogIsHistory'
  BY <1>1, <1>2 DEF CatalogIsHistory
<1>3. ASSUME NEW c \in Conns,
             Begin(c) \/ (\E t \in Tables : Insert(c, t)) \/ (\E v \in rows : Delete(c, v))
             \/ Flush(c) \/ Commit(c) \/ Rollback(c)
      PROVE  CatalogIsHistory'
  <2>1. schema' = schema /\ cat' = cat /\ tname' = tname /\ tables' = tables
    BY <1>3 DEF Begin, Insert, Delete, Flush, Commit, Rollback, finish, catVars
  <2>2. Hist' = Hist
    BY <1>3, <2>1, QuietAction, PlusOut, PlusOutNext
  <2>3. QED
    BY <1>2, <2>1, <2>2
<1>4. ASSUME NEW c \in Conns, Ddl3(c) PROVE CatalogIsHistory'
  BY <1>4, DdlRuns DEF CatalogIsHistory, fields
<1>5. ASSUME NEW c \in Conns, RememberSchema(c) \/ LogNow(c) PROVE CatalogIsHistory'
  BY <1>2, <1>5, Remembers, Logs DEF catVars
<1>6. CASE Checkpointing
  <2>1. InDdl = {} /\ InDdl' = {} /\ schema' = schema /\ cat' = cat /\ tname' = tname /\ tables' = tables
    BY <1>6, CheckpointAlone DEF catVars
  <2>2. QED
    BY <1>2, <2>1, PlusOut, PlusOutNext
<1>7. CASE Restart
  <2>1. InDdl' = {}
    BY <1>7 DEF Restart, InDdl, NoConn
  <2>2. Hist' = History(log)
    BY <1>7, <2>1, PlusOutNext DEF Restart
  <2>3. log \in Seq(Records) /\ Replayed(log).ok
    BY Typed, LogReads
  <2>4. Alike(Replayed(History(log)), Replayed(log)) /\ Replayed(History(log)).rows = {}
    BY <2>3, HistoryMakesTables
  <2>5. cat' = Replayed(log).cat /\ tname' = Replayed(log).tname /\ tables' = Replayed(log).tables
    BY <1>7 DEF Restart
  <2>6. QED
    BY <2>2, <2>3, <2>4, <2>5 DEF CatalogIsHistory, Alike
<1>8. CASE UNCHANGED vars
  <2>1. Hist' = Hist
    BY <1>8 DEF Hist, InDdl, Doing, vars, connVars
  <2>2. QED
    BY <1>2, <1>8, <2>1 DEF vars, catVars
<1>9. QED
  BY <1>3, <1>4, <1>5, <1>6, <1>7, <1>8, NextCases DEF Working

(***************************************************************************)
(* LogFollows is preserved.                                                *)
(***************************************************************************)

\* A checkpoint's file, once it is installed, is a log that follows the history.
LEMMA InstallsCopy ==
  Careful /\ IInv /\ Checkpointing =>
    \/ log' = log /\ (file' = "open" => file = "open")
    \/ CheckpointInstall /\ ck.pc = "install" /\ log' = ck.recs /\ History(log') = schema /\ Replayed(log').ok
       /\ Replayed(log').tables <= MaxTable
       /\ {r \in Replayed(log').rows : r.table \in Live} = Held
<1> SUFFICES ASSUME Careful, IInv, Checkpointing, ~(log' = log /\ (file' = "open" => file = "open"))
             PROVE  CheckpointInstall /\ ck.pc = "install" /\ log' = ck.recs
  BY DEF IInv, Copied
<1>1. CheckpointInstall
  BY DEF Checkpointing, CheckpointBegin, CheckpointSchema, CheckpointScan, CheckpointInstall,
         DetachJournal, CloseLog, logVars
<1>2. QED
  BY <1>1 DEF CheckpointInstall, ckStep

LEMMA StepLogFollows == Careful /\ IInv /\ [Next]_vars => LogFollows'
<1> SUFFICES ASSUME Careful, IInv, [Next]_vars PROVE LogFollows'
  OBVIOUS
<1>1. LogFollows
  BY DEF IInv
<1>2. log \in Seq(Records) /\ schema \in Seq(Records) /\ MaxTable \in Nat /\ tables \in 0..MaxTable
  BY Typed
<1>2a. LogPlus \in Seq(Records) /\ Hist \in Seq(Records)
  BY PlusTyped
<1>3. ASSUME LogPlus' = LogPlus, Hist' = Hist, file' = "open" => file = "open", log' = log
      PROVE  LogFollows'
  BY <1>1, <1>3 DEF LogFollows
<1>4. ASSUME NEW c \in Conns,
             Begin(c) \/ (\E t \in Tables : Insert(c, t)) \/ (\E v \in rows : Delete(c, v))
             \/ Commit(c) \/ Rollback(c)
      PROVE  LogFollows'
  <2>1. schema' = schema /\ log' = log /\ file' = file
    BY <1>4 DEF Begin, Insert, Delete, Commit, Rollback, finish, logVars
  <2>2. Hist' = Hist /\ LogPlus' = LogPlus
    BY <1>4, <2>1, QuietAction, PlusOut, PlusOutNext
  <2>3. QED
    BY <1>3, <2>1, <2>2
<1>5. ASSUME NEW c \in Conns, Flush(c) PROVE LogFollows'
  <2>1. InDdl = {} /\ InDdl' = {}
    BY <1>5, QuietAction
  <2>2. schema' = schema
    BY <1>5 DEF Flush
  <2>3. LogPlus = log /\ LogPlus' = log' /\ Hist = schema /\ Hist' = schema
    BY <2>1, <2>2, PlusOut, PlusOutNext
  <2>4. CASE log' = log /\ file' # "open"
    BY <1>3, <2>3, <2>4
  <2>5. CASE log' = log \o pending[c] /\ file = "open"
    <3>1. pending[c] \in Seq(RowRecords)
      BY Typed
    <3>2. History(log') = History(log)
      BY <1>2, <2>5, <3>1, HistoryOfRows
    <3>3. Replayed(log) \in States /\ Replayed(log).ok /\ Replayed(log).cat = cat
      BY <1>1, <2>3, <2>5, LogReads, LogMakesTables DEF LogFollows
    <3>4. Placeable(Replayed(log), pending[c])
      BY <3>3 DEF Placeable, IInv, Buffered, BufferedRows
    <3>5. Replayed(log') = Replay(Replayed(log), pending[c])
      <4>1. pending[c] \in Seq(Records)
        BY <3>1, SeqMonotonic DEF RowRecords
      <4>2. QED
        BY <1>2, <2>5, <4>1, ReplayConcat DEF Replayed
    <3>6. Alike(Replayed(log'), Replayed(log))
      BY <3>1, <3>3, <3>4, <3>5, BatchRuns
    <3>7. QED
      BY <1>1, <2>3, <3>2, <3>3, <3>6, <2>5 DEF LogFollows, Alike
  <2>6. CASE log' = log /\ file' = file
    BY <1>3, <2>3, <2>6
  <2>7. QED
    <3>1. \/ log' = log \o pending[c] /\ (pending[c] # <<>> => file = "open") /\ file' = file
          \/ file' # "open" /\ log' = log
          \/ file = "open" /\ log' = log \o pending[c]
      BY <1>5, FlushSettles
    <3>2. pending[c] = <<>> => log \o pending[c] = log
      BY <1>2
    <3>3. QED
      BY <2>4, <2>5, <2>6, <3>1, <3>2
<1>6. ASSUME NEW c \in Conns, Ddl3(c) PROVE LogFollows'
  <2>1. InDdl = {} /\ stmt'[c] \in DdlRecords /\ log' = log /\ file' = file
    BY <1>6, DdlBegins DEF logVars
  <2>2. LogPlus' = Append(log, stmt'[c]) /\ Hist' = Append(schema, stmt'[c]) /\ LogPlus = log /\ Hist = schema
    BY <1>6, <2>1, DdlRuns, PlusOut
  <2>3. stmt'[c] \in Records /\ isDDL(stmt'[c])
    BY <2>1 DEF DdlRecords
  <2>4. History(LogPlus') = Append(History(log), stmt'[c]) /\ History(log) \in Seq(Records)
    BY <1>2, <2>2, <2>3, HistoryAppend, HistoryType
  <2>5. Len(History(LogPlus')) = Len(History(log)) + 1 /\ Len(Hist') = Len(schema) + 1
        /\ Len(History(log)) \in Nat /\ Len(schema) \in Nat
    BY <1>2, <2>2, <2>3, <2>4
  <2>6. Len(History(log)) <= Len(schema) /\ (file = "open" => History(log) = schema)
        /\ Replayed(log).ok /\ Replayed(log).tables <= MaxTable
    BY <1>1, <2>2 DEF LogFollows
  <2>7. Len(History(LogPlus')) <= Len(Hist')
    BY <2>5, <2>6
  <2>8. file' = "open" => History(LogPlus') = Hist'
    BY <2>1, <2>2, <2>4, <2>6
  <2>9. QED
    BY <2>1, <2>6, <2>7, <2>8 DEF LogFollows
<1>7. ASSUME NEW c \in Conns, RememberSchema(c) PROVE LogFollows'
  BY <1>3, <1>7, Remembers DEF logVars
<1>8. ASSUME NEW c \in Conns, LogNow(c) PROVE LogFollows'
  <2>1. /\ Hist' = Hist /\ LogPlus' = log' /\ LogPlus = Append(log, stmt[c]) /\ stmt[c] \in DdlRecords
        /\ \/ log' = LogPlus /\ file = "open"
           \/ file' # "open" /\ log' = log
    BY <1>8, Logs
  <2>2. stmt[c] \in Records /\ isDDL(stmt[c])
    BY <2>1 DEF DdlRecords
  <2>3. History(LogPlus) = Append(History(log), stmt[c]) /\ History(log) \in Seq(Records)
    BY <1>2, <2>1, <2>2, HistoryAppend, HistoryType
  <2>4. Replayed(log).ok /\ Replayed(log).tables <= MaxTable
    BY LogReads, EngineAssumption
  <2>5. CASE log' = LogPlus /\ file = "open"
    <3>1. History(LogPlus) = Hist /\ Len(History(LogPlus)) <= Len(Hist)
      BY <1>1, <2>5 DEF LogFollows
    <3>2. Alike(Replayed(LogPlus), Replayed(Hist))
      BY <1>2, <2>1, <2>3, <2>4, <3>1, LogTakesStatement
    <3>3. Replayed(LogPlus).ok /\ Replayed(LogPlus).tables <= MaxTable
      BY <1>2, <3>2 DEF Alike, IInv, CatalogIsHistory
    <3>4. QED
      BY <2>1, <2>5, <3>1, <3>3 DEF LogFollows
  <2>6. CASE file' # "open" /\ log' = log
    <3>1. Len(History(LogPlus)) = Len(History(log)) + 1 /\ Len(History(log)) \in Nat
      BY <2>2, <2>3
    <3>2. Len(History(LogPlus)) <= Len(Hist) /\ Len(Hist) \in Nat
      BY <1>1, <1>2a DEF LogFollows
    <3>3. Len(History(log)) <= Len(Hist)
      BY <3>1, <3>2
    <3>4. QED
      BY <2>1, <2>4, <2>6, <3>3 DEF LogFollows
  <2>7. QED
    BY <2>1, <2>5, <2>6
<1>9. CASE Checkpointing
  <2>1. InDdl = {} /\ InDdl' = {} /\ schema' = schema
    BY <1>9, CheckpointAlone
  <2>2. LogPlus = log /\ LogPlus' = log' /\ Hist = schema /\ Hist' = schema
    BY <2>1, PlusOut, PlusOutNext
  <2>3. CASE log' = log /\ (file' = "open" => file = "open")
    BY <1>3, <2>2, <2>3
  <2>4. CASE History(log') = schema /\ Replayed(log').ok /\ Replayed(log').tables <= MaxTable
    BY <1>2, <2>2, <2>4 DEF LogFollows
  <2>5. QED
    BY <1>9, <2>3, <2>4, InstallsCopy
<1>10. CASE Restart
  <2>1. InDdl' = {}
    BY <1>10 DEF Restart, InDdl, NoConn
  <2>2. log' = log /\ LogPlus' = log /\ Hist' = History(log)
    BY <1>10, <2>1, PlusOutNext DEF Restart
  <2>3. Replayed(log).ok /\ Replayed(log).tables <= MaxTable
    BY LogReads, EngineAssumption
  <2>4. Len(History(log)) \in Nat
    BY <1>2, HistoryType
  <2>5. QED
    BY <2>2, <2>3, <2>4 DEF LogFollows
<1>11. CASE UNCHANGED vars
  <2>1. Hist' = Hist /\ LogPlus' = LogPlus
    BY <1>11 DEF Hist, LogPlus, InDdl, Doing, vars, connVars, logVars
  <2>2. QED
    BY <1>3, <1>11, <2>1 DEF vars, logVars
<1>12. QED
  BY <1>4, <1>5, <1>6, <1>7, <1>8, <1>9, <1>10, <1>11, NextCases DEF Working

(***************************************************************************)
(* LogHolds is preserved.                                                  *)
(***************************************************************************)

\* Neither a transaction that is running nor one that has aborted is settled.
LEMMA Unsettled ==
  /\ NoTx \notin SettledTx
  /\ IInv => \A c \in Conns : tx[c] # NoTx /\ step[c] # "flushed" => tx[c] \notin SettledTx
  /\ IInv => \A t \in TxIds : status[t] = "Aborted" => t \notin SettledTx
<1>1. NoTx \notin SettledTx
  BY EngineAssumption DEF SettledTx, TxIds, Boot, NoTx
<1>2. ASSUME IInv, NEW c \in Conns, tx[c] # NoTx, step[c] # "flushed"
      PROVE  tx[c] \notin SettledTx
  <2>1. status[tx[c]] = "InProgress" /\ \A d \in Conns : tx[d] = tx[c] => d = c
    BY <1>2 DEF IInv, Turns
  <2>2. QED
    BY <1>2, <2>1 DEF SettledTx
<1>3. ASSUME IInv, NEW t \in TxIds, status[t] = "Aborted"
      PROVE  t \notin SettledTx
  <2>1. \A c \in Conns : tx[c] = t => status[t] = "InProgress"
    BY <1>3, EngineAssumption DEF IInv, Turns, TxIds, Boot, NoTx
  <2>2. QED
    BY <1>3, <2>1 DEF SettledTx
<1>4. QED
  BY <1>1, <1>2, <1>3

\* The rows of a transaction that is not settled are not held.
LEMMA InsertHolds ==
  ASSUME NEW c \in Conns, NEW t \in Tables
  PROVE  Careful /\ IInv /\ Insert(c, t) => Held' = Held
<1> SUFFICES ASSUME Careful, IInv, Insert(c, t) PROVE Held' = Held
  OBVIOUS
<1>1. SettledTx' = SettledTx
  BY SettledSame
<1>2. Live' = Live
  BY DEF Insert, catVars, Live
<1>3. tx[c] \notin SettledTx
  BY Unsettled DEF Insert, Ready
<1>4. PICK x : rows' = rows \cup {x} /\ x.xmin = tx[c]
  <2>1. PICK x : x = [table |-> t, id |-> nextRow[t], val |-> vals + 1, xmin |-> tx[c], xmax |-> NoTx]
    OBVIOUS
  <2>2. rows' = rows \cup {x}
    BY <2>1 DEF Insert
  <2>3. QED
    BY <2>1, <2>2
<1>5. QED
  BY <1>1, <1>2, <1>3, <1>4 DEF Held

\* A DELETE changes nothing that is settled.
LEMMA DeleteHolds ==
  ASSUME NEW c \in Conns, NEW v \in rows
  PROVE  Careful /\ IInv /\ Delete(c, v) => Held' = Held
<1> SUFFICES ASSUME Careful, IInv, Delete(c, v) PROVE Held' = Held
  OBVIOUS
<1>1. SettledTx' = SettledTx
  BY SettledSame
<1>2. Live' = Live
  BY DEF Delete, catVars, Live
<1>3. tx[c] \notin SettledTx
  BY Unsettled DEF Delete, Ready
<1>4. v \in [table : 1..tables, id : 1..MaxVal, val : 1..MaxVal, xmin : TxIds, xmax : TxIds \cup {NoTx}]
  BY DEF IInv, TypeOK
<1>5. v.xmax \notin SettledTx
  BY <1>4, Unsettled DEF Delete
<1>6. PICK x : /\ rows' = (rows \ {v}) \cup {x} /\ x.xmin = v.xmin /\ x.xmax = tx[c]
               /\ x.table = v.table /\ x.id = v.id /\ x.val = v.val
  <2>1. PICK x : x = [v EXCEPT !.xmax = tx[c]]
    OBVIOUS
  <2>2. rows' = (rows \ {v}) \cup {x}
    BY <2>1 DEF Delete
  <2>3. QED
    BY <1>4, <2>1, <2>2
<1>7. QED
  BY <1>1, <1>2, <1>3, <1>5, <1>6 DEF Held

\* What a transaction writes is what settling it changes.
LEMMA FlushRows ==
  ASSUME NEW c \in Conns
  PROVE  /\ IInv /\ Flush(c) /\ InDdl = {} /\ SettledTx' = SettledTx \cup {tx[c]}
         /\ History(log) = schema
         /\ {r \in Replayed(log).rows : r.table \in Live} = Held
         => {r \in Replayed(log \o pending[c]).rows : r.table \in Live} = Held'
<1> SUFFICES ASSUME IInv, Flush(c), InDdl = {}, SettledTx' = SettledTx \cup {tx[c]}, History(log) = schema,
                    {r \in Replayed(log).rows : r.table \in Live} = Held
             PROVE  {r \in Replayed(log \o pending[c]).rows : r.table \in Live} = Held'
  OBVIOUS
<1> DEFINE s == Replayed(log)
           p == pending[c]
           x == tx[c]
           row(v) == [table |-> v.table, id |-> v.id, val |-> v.val]
<1>1. log \in Seq(Records) /\ p \in Seq(RowRecords) /\ MaxVal \in Nat
  BY Typed
<1>2. s \in States /\ s.ok /\ Consistent(s)
  BY LogReads
<1>3. s.cat = cat
  BY <1>2, PlusOut, LogMakesTables
<1>4. x \in TxIds /\ x \notin SettledTx /\ x # NoTx /\ step[c] = "ready" /\ NoTx \notin SettledTx
      /\ rows' = rows /\ cat' = cat
  BY FlushSettles, Unsettled DEF Flush, Ready, heapVars, catVars
<1>5. /\ \A i \in 1..Len(p) : cat[p[i].name] # NoTable
                              /\ \E v \in rows : Insertion(c, p[i], v) \/ Deletion(c, p[i], v)
      /\ Orderly(p)
      /\ \A v \in rows : v.table \in Live =>
           /\ v.xmin = x => \E i \in 1..Len(p) : Insertion(c, p[i], v)
           /\ v.xmax = x => \E i \in 1..Len(p) : Deletion(c, p[i], v)
  BY <1>4 DEF IInv, Buffered, BufferedRows
<1>6. /\ \A v, w \in rows : v.table = w.table /\ v.id = w.id => v = w
      /\ \A v \in rows : v.xmin \in SettledTx \/ v.xmax \in {NoTx, v.xmin}
  BY DEF IInv, Numbered
<1>7. \A v \in rows : v \in [table : 1..tables, id : 1..MaxVal, val : 1..MaxVal,
                             xmin : TxIds, xmax : TxIds \cup {NoTx}]
  BY DEF IInv, TypeOK
<1>8. Held = {row(v) : v \in {w \in rows : w.xmin \in SettledTx /\ w.xmax \notin SettledTx /\ w.table \in Live}}
  BY DEF Held
<1>9. Held' = {row(v) : v \in {w \in rows : w.xmin \in SettledTx \cup {x} /\ w.xmax \notin SettledTx \cup {x}
                                             /\ w.table \in Live}}
  <2>1. Live' = Live
    BY <1>4 DEF Live
  <2>2. QED
    BY <1>4, <2>1 DEF Held
<1>10. \A i \in 1..Len(p) : p[i].name \in TableNames /\ cat[p[i].name] \in Live
  <2> SUFFICES ASSUME NEW i \in 1..Len(p) PROVE p[i].name \in TableNames /\ cat[p[i].name] \in Live
    OBVIOUS
  <2>1. p[i] \in RowRecords
    BY <1>1
  <2>2. p[i].name \in TableNames
    BY <2>1 DEF RowRecords, Records
  <2>3. cat[p[i].name] \in Tables
    BY <1>5, <2>2, Typed
  <2>4. QED
    BY <2>2, <2>3 DEF Live
<1> HIDE DEF s, p, x
<1>11. Placeable(s, p)
  BY <1>3, <1>5 DEF Placeable
<1>12. Fresh(s, p)
  <2> SUFFICES ASSUME NEW i \in 1..Len(p), p[i].op = "insert",
                      NEW r \in s.rows, r.table = s.cat[p[i].name], r.id = p[i].id
               PROVE  FALSE
    BY DEF Fresh
  <2>1. PICK v \in rows : Insertion(c, p[i], v)
    BY <1>5 DEF Deletion
  <2>2. r \in Held
    BY <1>3, <1>10 DEF s
  <2>3. PICK w \in rows : w.xmin \in SettledTx /\ r = row(w)
    BY <1>8, <2>2
  <2>4. w.table = v.table /\ w.id = v.id
    BY <1>3, <2>1, <2>3 DEF Insertion
  <2>5. w = v
    BY <1>6, <2>4
  <2>6. QED
    BY <1>4, <2>1, <2>3, <2>5 DEF Insertion, x
<1>13. Replayed(log \o p).rows = After(s, p, Len(p))
  <2>1. p \in Seq(Records)
    BY <1>1, SeqMonotonic DEF RowRecords
  <2>2. Replayed(log \o p) = Replay(s, p)
    BY <1>1, <2>1, ReplayConcat DEF Replayed, s
  <2>3. QED
    BY <1>1, <1>2, <1>5, <1>11, <1>12, <2>2, BatchRows
<1>14. ASSUME NEW r, r \in Held' PROVE r \in After(s, p, Len(p)) /\ r.table \in Live
  <2>1. PICK v \in rows : /\ v.xmin \in SettledTx \cup {x} /\ v.xmax \notin SettledTx \cup {x}
                          /\ v.table \in Live /\ r = row(v)
    BY <1>9, <1>14
  <2>2. r \in [table : Nat, id : 0..MaxVal, val : 0..MaxVal] /\ r.table = v.table /\ r.id = v.id /\ r.val = v.val
    <3>1. v.table \in Nat /\ v.id \in 0..MaxVal /\ v.val \in 0..MaxVal
      BY <1>1, <1>7
    <3>2. QED
      BY <2>1, <3>1
  <2>3. r \in s.rows \/ InsertedIn(s, p, Len(p), r)
    <3>1. CASE v.xmin \in SettledTx
      <4>1. r \in Held
        BY <1>8, <2>1, <3>1
      <4>2. QED
        BY <4>1 DEF s
    <3>2. CASE v.xmin = x
      <4>1. PICK i \in 1..Len(p) : Insertion(c, p[i], v)
        BY <1>5, <2>1, <3>2
      <4>2. r = [table |-> s.cat[p[i].name], id |-> p[i].id, val |-> p[i].val] /\ p[i].op = "insert"
        BY <1>3, <2>1, <4>1 DEF Insertion
      <4>3. QED
        BY <4>2 DEF InsertedIn
    <3>3. QED
      BY <2>1, <3>1, <3>2
  <2>4. ~DeletedIn(s, p, Len(p), r)
    <3>1. SUFFICES ASSUME NEW i \in 1..Len(p), p[i].op = "delete",
                          r.table = s.cat[p[i].name], r.id = p[i].id
                   PROVE  FALSE
      BY DEF DeletedIn
    <3>2. PICK w \in rows : Deletion(c, p[i], w)
      BY <1>5, <3>1 DEF Insertion
    <3>3. w = v
      BY <1>3, <1>6, <2>2, <3>1, <3>2 DEF Deletion
    <3>4. QED
      BY <2>1, <3>2, <3>3 DEF Deletion, x
  <2>5. QED
    BY <2>1, <2>2, <2>3, <2>4 DEF After
<1>15. ASSUME NEW r \in After(s, p, Len(p)), r.table \in Live PROVE r \in Held'
  <2>1. (r \in s.rows \/ InsertedIn(s, p, Len(p), r)) /\ ~DeletedIn(s, p, Len(p), r)
    BY DEF After
  <2>2. PICK v \in rows : /\ r = row(v) /\ v.xmin \in SettledTx \cup {x} /\ v.xmax \notin SettledTx
    <3>1. CASE r \in s.rows
      <4>1. r \in Held
        BY <1>15, <3>1 DEF s
      <4>2. QED
        BY <1>8, <4>1
    <3>2. CASE InsertedIn(s, p, Len(p), r)
      <4>1. PICK i \in 1..Len(p) : p[i].op = "insert"
              /\ r = [table |-> s.cat[p[i].name], id |-> p[i].id, val |-> p[i].val]
        BY <3>2 DEF InsertedIn
      <4>2. PICK v \in rows : Insertion(c, p[i], v)
        BY <1>5, <4>1 DEF Deletion
      <4>3. r = row(v) /\ v.xmin = x
        BY <1>3, <4>1, <4>2 DEF Insertion, x
      <4>4. v.xmax \in {NoTx, x}
        BY <1>4, <1>6, <4>3
      <4>5. QED
        BY <1>4, <4>3, <4>4
    <3>3. QED
      BY <2>1, <3>1, <3>2
  <2>3. v.table = r.table /\ v.id = r.id
    BY <2>2
  <2>4. v.xmax # x
    <3>1. SUFFICES ASSUME v.xmax = x PROVE FALSE
      OBVIOUS
    <3>2. PICK i \in 1..Len(p) : Deletion(c, p[i], v)
      BY <1>5, <1>15, <2>3, <3>1
    <3>3. DeletedIn(s, p, Len(p), r)
      BY <1>3, <2>3, <3>2 DEF Deletion, DeletedIn
    <3>4. QED
      BY <2>1, <3>3
  <2>5. QED
    BY <1>9, <1>15, <2>2, <2>3, <2>4
<1>16. QED
  BY <1>13, <1>14, <1>15 DEF p

\* A schema statement leaves the rows of the tables that stay.
LEMMA DdlHolds ==
  ASSUME NEW c \in Conns
  PROVE  /\ Careful /\ IInv /\ Ddl3(c)
         /\ History(log) = schema /\ {r \in Replayed(log).rows : r.table \in Live} = Held
         => {r \in Replayed(LogPlus').rows : r.table \in Live'} = Held'
<1> SUFFICES ASSUME Careful, IInv, Ddl3(c),
                    History(log) = schema, {r \in Replayed(log).rows : r.table \in Live} = Held
             PROVE  {r \in Replayed(LogPlus').rows : r.table \in Live'} = Held'
  OBVIOUS
<1>1. /\ InDdl = {} /\ stmt'[c] \in DdlRecords /\ rows' = rows /\ SettledTx' = SettledTx
      /\ log \in Seq(Records)
  BY DdlBegins, SettledSame, Typed
<1>2. LogPlus' = Append(log, stmt'[c]) /\ \A t \in 1..tables : t \in Live' => t \in Live
  BY DdlRuns
<1>3. Replayed(log).ok /\ Replayed(log).tables = tables
      /\ \A r \in Replayed(log).rows : r.table \in 1..Replayed(log).tables
  BY <1>1, LogReads, PlusOut, LogMakesTables
<1>4. Replayed(LogPlus').rows = Replayed(log).rows
  BY <1>1, <1>2, <1>3, LogTakesStatement
<1>5. \A v \in rows : v.table \in 1..tables
  BY DEF IInv, TypeOK
<1> DEFINE S == Replayed(log).rows
<1>6. {r \in S : r.table \in Live'} = {r \in Held : r.table \in Live'}
  BY <1>2, <1>3
<1>7. Held' = {r \in Held : r.table \in Live'}
  BY <1>1, <1>2, <1>5 DEF Held
<1>8. QED
  BY <1>4, <1>6, <1>7

LEMMA StepLogHolds == Careful /\ IInv /\ [Next]_vars => LogHolds'
<1> SUFFICES ASSUME Careful, IInv, [Next]_vars, "sync" \notin Faults, History(LogPlus') = Hist'
             PROVE  {r \in Replayed(LogPlus').rows : r.table \in Live'} = Held'
  BY DEF LogHolds
<1>1. LogHolds
  BY DEF IInv
<1>2. /\ log \in Seq(Records) /\ schema \in Seq(Records)
      /\ LogPlus \in Seq(Records) /\ Hist \in Seq(Records)
  BY Typed, PlusTyped
<1>3. ASSUME LogPlus' = LogPlus, Hist' = Hist, Held' = Held, Live' = Live
      PROVE  {r \in Replayed(LogPlus').rows : r.table \in Live'} = Held'
  BY <1>1, <1>3 DEF LogHolds
<1>4. ASSUME NEW c \in Conns,
             Begin(c) \/ (\E t \in Tables : Insert(c, t)) \/ (\E v \in rows : Delete(c, v))
             \/ Commit(c) \/ Rollback(c)
      PROVE  {r \in Replayed(LogPlus').rows : r.table \in Live'} = Held'
  <2>1. schema' = schema /\ log' = log /\ cat' = cat
    BY <1>4 DEF Begin, Insert, Delete, Commit, Rollback, finish, logVars, catVars
  <2>2. Hist' = Hist /\ LogPlus' = LogPlus
    BY <1>4, <2>1, QuietAction, PlusOut, PlusOutNext
  <2>3. Live' = Live
    BY <2>1 DEF Live
  <2>4. Held' = Held
    <3>1. CASE Begin(c) \/ Commit(c) \/ Rollback(c)
      <4>1. SettledTx' = SettledTx /\ rows' = rows
        BY <3>1, SettledSame DEF Begin, Commit, Rollback, finish
      <4>2. QED
        BY <2>3, <4>1 DEF Held
    <3>2. QED
      BY <1>4, <3>1, InsertHolds, DeleteHolds
  <2>5. QED
    BY <1>3, <2>2, <2>3, <2>4
<1>5. ASSUME NEW c \in Conns, Flush(c)
      PROVE  {r \in Replayed(LogPlus').rows : r.table \in Live'} = Held'
  <2>1. InDdl = {} /\ InDdl' = {}
    BY <1>5, QuietAction
  <2>2. schema' = schema /\ rows' = rows /\ cat' = cat
    BY <1>5 DEF Flush, heapVars, catVars
  <2>3. LogPlus = log /\ LogPlus' = log' /\ Hist = schema /\ Hist' = schema /\ Live' = Live
    BY <2>1, <2>2, PlusOut, PlusOutNext DEF Live
  <2>4. CASE SettledTx' = SettledTx /\ log' = log
    BY <1>3, <2>2, <2>3, <2>4 DEF Held
  <2>5. CASE SettledTx' = SettledTx \cup {tx[c]} /\ log' = log \o pending[c]
    <3>1. pending[c] \in Seq(RowRecords)
      BY Typed
    <3>2. History(log) = schema
      BY <1>2, <2>3, <2>5, <3>1, HistoryOfRows
    <3>3. {r \in Replayed(log).rows : r.table \in Live} = Held
      BY <1>1, <2>3, <3>2 DEF LogHolds
    <3>4. {r \in Replayed(log \o pending[c]).rows : r.table \in Live} = Held'
      BY <1>5, <2>1, <2>5, <3>2, <3>3, FlushRows
    <3>5. QED
      BY <2>3, <2>5, <3>4
  <2>6. QED
    BY <1>5, <2>4, <2>5, FlushSettles
<1>6. ASSUME NEW c \in Conns, Ddl3(c)
      PROVE  {r \in Replayed(LogPlus').rows : r.table \in Live'} = Held'
  <2>1. InDdl = {} /\ stmt'[c] \in DdlRecords
    BY <1>6, DdlBegins
  <2>2. LogPlus' = Append(log, stmt'[c]) /\ Hist' = Append(schema, stmt'[c]) /\ LogPlus = log /\ Hist = schema
    BY <1>6, <2>1, DdlRuns, PlusOut
  <2>3. stmt'[c] \in Records /\ isDDL(stmt'[c])
    BY <2>1 DEF DdlRecords
  <2>4. History(LogPlus') = Append(History(log), stmt'[c]) /\ History(log) \in Seq(Records)
    BY <1>2, <2>2, <2>3, HistoryAppend, HistoryType
  <2>5. Append(History(log), stmt'[c]) = Append(schema, stmt'[c])
    BY <2>2, <2>4
  <2>6. History(log) = schema
    BY <1>2, <2>3, <2>4, <2>5, AppendInjective
  <2>7. {r \in Replayed(log).rows : r.table \in Live} = Held
    BY <1>1, <2>2, <2>6 DEF LogHolds
  <2>8. QED
    BY <1>6, <2>6, <2>7, DdlHolds
<1>7. ASSUME NEW c \in Conns, RememberSchema(c)
      PROVE  {r \in Replayed(LogPlus').rows : r.table \in Live'} = Held'
  <2>1. LogPlus' = LogPlus /\ Hist' = Hist /\ rows' = rows /\ cat' = cat
    BY <1>7, Remembers DEF heapVars, catVars
  <2>2. SettledTx' = SettledTx
    BY <1>7, SettledSame
  <2>3. Live' = Live /\ Held' = Held
    BY <2>1, <2>2 DEF Live, Held
  <2>4. QED
    BY <1>3, <2>1, <2>3
<1>8. ASSUME NEW c \in Conns, LogNow(c)
      PROVE  {r \in Replayed(LogPlus').rows : r.table \in Live'} = Held'
  <2>1. /\ Hist' = Hist /\ LogPlus' = log' /\ LogPlus = Append(log, stmt[c]) /\ stmt[c] \in DdlRecords
        /\ rows' = rows /\ cat' = cat
        /\ log' = LogPlus \/ log' = log
    BY <1>8, Logs DEF heapVars, catVars
  <2>2. stmt[c] \in Records /\ isDDL(stmt[c])
    BY <2>1 DEF DdlRecords
  <2>3. History(LogPlus) = Append(History(log), stmt[c]) /\ History(log) \in Seq(Records)
    BY <1>2, <2>1, <2>2, HistoryAppend, HistoryType
  <2>4. SettledTx' = SettledTx
    BY <1>8, SettledSame
  <2>5. Live' = Live /\ Held' = Held
    BY <2>1, <2>4 DEF Live, Held
  <2>6. CASE log' = LogPlus
    BY <1>3, <2>1, <2>5, <2>6
  <2>7. CASE log' = log
    <3>1. Len(History(LogPlus)) = Len(History(log)) + 1 /\ Len(History(log)) \in Nat
      BY <2>2, <2>3
    <3>2. Len(History(LogPlus)) <= Len(Hist)
      BY DEF IInv, LogFollows
    <3>3. Len(History(log)) = Len(Hist)
      BY <2>1, <2>7
    <3>4. QED
      BY <3>1, <3>2, <3>3
  <2>8. QED
    BY <2>1, <2>6, <2>7
<1>9. CASE Checkpointing
  <2>1. InDdl = {} /\ InDdl' = {} /\ schema' = schema /\ rows' = rows /\ cat' = cat
    BY <1>9, CheckpointAlone DEF heapVars, catVars
  <2>2. SettledTx' = SettledTx
    BY <1>9, SettledInCheckpoint
  <2>3. LogPlus = log /\ LogPlus' = log' /\ Hist = schema /\ Hist' = schema /\ Live' = Live /\ Held' = Held
    BY <2>1, <2>2, PlusOut, PlusOutNext DEF Live, Held
  <2>4. CASE log' = log
    BY <1>3, <2>3, <2>4
  <2>5. CASE {r \in Replayed(log').rows : r.table \in Live} = Held
    BY <2>3, <2>5
  <2>6. QED
    BY <1>9, <2>4, <2>5, InstallsCopy
<1>10. CASE Restart
  <2>1. InDdl' = {}
    BY <1>10 DEF Restart, InDdl, NoConn
  <2>2. log' = log /\ LogPlus' = log
    BY <1>10, <2>1, PlusOutNext DEF Restart
  <2>3. Boot \in SettledTx' /\ NoTx \notin SettledTx'
    <3>1. status' = FreshStatus
      BY <1>10 DEF Restart
    <3>2. QED
      BY <3>1, EngineAssumption DEF SettledTx, FreshStatus, TxIds, Boot, NoTx
  <2>4. Replayed(log) \in States /\ \A r \in Replayed(log).rows : r.table \in 1..Replayed(log).tables
        /\ Replayed(log).tables \in 1..MaxTable \cup {0} /\ MaxTable \in Nat
    BY LogReads, EngineAssumption
  <2>5. /\ cat' = Replayed(log).cat
        /\ \A v \in rows' : v.xmin = Boot /\ v.xmax = NoTx
             /\ [table |-> v.table, id |-> v.id, val |-> v.val] \in Replayed(log).rows
        /\ \A r \in Replayed(log).rows : (\E n \in TableNames : cat'[n] = r.table) =>
             [table |-> r.table, id |-> r.id, val |-> r.val, xmin |-> Boot, xmax |-> NoTx] \in rows'
    BY <1>10, RestartLoads
  <2>6. ASSUME NEW r \in Replayed(log).rows, r.table \in Live' PROVE r \in Held'
    <3>1. PICK v \in rows' :
            v = [table |-> r.table, id |-> r.id, val |-> r.val, xmin |-> Boot, xmax |-> NoTx]
      BY <2>5, <2>6 DEF Live
    <3>2. r = [table |-> r.table, id |-> r.id, val |-> r.val]
      BY <2>4 DEF States
    <3>3. r = [table |-> v.table, id |-> v.id, val |-> v.val] /\ v.table \in Live'
      BY <2>6, <3>1, <3>2
    <3>4. v.xmin \in SettledTx' /\ v.xmax \notin SettledTx'
      BY <2>3, <2>5
    <3>5. QED
      BY <3>3, <3>4 DEF Held
  <2>7. ASSUME NEW r \in Held' PROVE r \in Replayed(log).rows /\ r.table \in Live'
    BY <2>5 DEF Held
  <2>8. QED
    BY <2>2, <2>6, <2>7
<1>11. CASE UNCHANGED vars
  <2>1. Hist' = Hist /\ LogPlus' = LogPlus /\ Live' = Live /\ SettledTx' = SettledTx /\ rows' = rows
    BY <1>11 DEF Hist, LogPlus, InDdl, Doing, Live, SettledTx, vars, connVars, logVars, catVars, heapVars
  <2>2. Held' = Held
    BY <2>1 DEF Held
  <2>3. QED
    BY <1>3, <2>1, <2>2
<1>12. QED
  BY <1>4, <1>5, <1>6, <1>7, <1>8, <1>9, <1>10, <1>11, NextCases DEF Working

(***************************************************************************)
(* What a checkpoint copies.                                               *)
(***************************************************************************)
LEMMA ScanCopies ==
  Careful /\ IInv /\ CheckpointScan =>
    \E q \in Seq(RowRecords) :
      /\ ck' = [ck EXCEPT !.pc = "install", !.recs = schema \o q] /\ schema \o q \in Seq(Records)
      /\ \A i \in 1..Len(q) : \E v \in rows :
           q[i].op = "insert" /\ q[i].id = v.id /\ q[i].val = v.val /\ v.xmin \in SettledTx
      /\ Replayed(schema \o q).ok /\ Replayed(schema \o q).tables <= MaxTable
      /\ History(schema \o q) = schema
      /\ {r \in Replayed(schema \o q).rows : r.table \in Live} = Held
<1> SUFFICES ASSUME Careful, IInv, CheckpointScan
             PROVE  \E q \in Seq(RowRecords) :
                      /\ ck' = [ck EXCEPT !.pc = "install", !.recs = schema \o q]
                      /\ schema \o q \in Seq(Records)
                      /\ \A i \in 1..Len(q) : \E v \in rows :
                           q[i].op = "insert" /\ q[i].id = v.id /\ q[i].val = v.val /\ v.xmin \in SettledTx
                      /\ Replayed(schema \o q).ok /\ Replayed(schema \o q).tables <= MaxTable
                      /\ History(schema \o q) = schema
                      /\ {r \in Replayed(schema \o q).rows : r.table \in Live} = Held
  OBVIOUS
<1> DEFINE inSnap == {v \in rows : v.xmin \in ck.snap /\ v.xmax \notin ck.snap
                                   /\ \E n \in TableNames : cat[n] = v.table}
           record(v) == InsertRecord(tname[v.table], v.id, v.val)
           recs == {record(v) : v \in inSnap}
           q == SetToSeq(recs)
           B == Replayed(schema)
           row(v) == [table |-> v.table, id |-> v.id, val |-> v.val]
<1>1. ck.pc = "scan" /\ ck.snap = SettledTx /\ ck.recs = schema
  BY DEF CheckpointScan, ckStep, IInv, Copied
<1>2. ck' = [ck EXCEPT !.pc = "install", !.recs = schema \o q]
  <2>1. ck' = [ck EXCEPT !.pc = "install", !.recs = @ \o q]
    BY DEF CheckpointScan, ckStep
  <2>2. QED
    BY <1>1, <2>1
<1>3. /\ schema \in Seq(Records) /\ MaxTable \in Nat /\ MaxVal \in Nat /\ tables \in 0..MaxTable
      /\ cat \in [TableNames -> Tables \cup {NoTable}] /\ tname \in [Tables -> TableNames]
      /\ \A n \in TableNames : cat[n] # NoTable => tname[cat[n]] = n /\ cat[n] <= tables
      /\ \A v \in rows : v \in [table : 1..tables, id : 1..MaxVal, val : 1..MaxVal,
                                xmin : TxIds, xmax : TxIds \cup {NoTx}]
      /\ IsFiniteSet(rows)
      /\ \A v, w \in rows : v.table = w.table /\ v.id = w.id => v = w
  BY Typed DEF IInv, TypeOK, Shapes, Numbered
<1>4. B \in States /\ B.ok /\ B.cat = cat /\ B.tables = tables /\ B.rows = {}
  <2>1. InDdl = {}
    BY CheckpointAlone DEF Checkpointing
  <2>2. QED
    BY <1>3, <2>1, PlusOut, ReplayedType DEF IInv, CatalogIsHistory
<1>5. inSnap \subseteq rows
      /\ \A v \in inSnap : /\ v.xmin \in SettledTx /\ v.table \in Tables
                           /\ tname[v.table] \in TableNames /\ cat[tname[v.table]] = v.table
                           /\ v.table # NoTable /\ v.table \in Live
  <2> SUFFICES ASSUME NEW v \in inSnap
               PROVE  /\ v.xmin \in SettledTx /\ v.table \in Tables
                      /\ tname[v.table] \in TableNames /\ cat[tname[v.table]] = v.table
                      /\ v.table # NoTable /\ v.table \in Live
    OBVIOUS
  <2>1. PICK n \in TableNames : cat[n] = v.table
    OBVIOUS
  <2>2. v.table \in Tables /\ v.table # NoTable
    BY <1>3 DEF Tables, NoTable
  <2>3. QED
    BY <1>1, <1>3, <2>1, <2>2 DEF Live
<1>6. \A r : r \in Held <=> \E v \in inSnap : r = row(v)
  <2>1. ASSUME NEW v \in rows, v.table \in Live PROVE \E n \in TableNames : cat[n] = v.table
    BY <2>1 DEF Live
  <2>2. inSnap = {w \in rows : w.xmin \in SettledTx /\ w.xmax \notin SettledTx /\ w.table \in Live}
    BY <1>1, <1>5, <2>1
  <2>3. QED
    BY <2>2 DEF Held
<1>7. \A v \in inSnap : record(v) \in RowRecords
        /\ record(v).op = "insert" /\ record(v).name = tname[v.table]
        /\ record(v).id = v.id /\ record(v).val = v.val
  BY <1>3, <1>5 DEF InsertRecord, RowRecords, Records
<1>8. IsFiniteSet(recs) /\ recs \subseteq RowRecords
  <2>1. IsFiniteSet(inSnap)
    BY <1>3, <1>5, FS_Subset
  <2> DEFINE f == [v \in inSnap |-> record(v)]
  <2>2. f \in Surjection(inSnap, recs)
    BY DEF Surjection
  <2> HIDE DEF f, inSnap, record
  <2>3. IsFiniteSet(recs)
    BY <2>1, <2>2, FS_Surjection
  <2>4. QED
    BY <1>7, <2>3
<1>8a. \A rec \in recs : \E v \in inSnap : rec = record(v)
  OBVIOUS
<1>8b. \A v \in inSnap : record(v) \in recs
  OBVIOUS
<1> HIDE DEF inSnap, record, recs
<1>9. /\ q \in Seq(recs)
      /\ \A i, j \in 1..Len(q) : q[i] = q[j] => i = j
      /\ \A rec \in recs : \E i \in 1..Len(q) : q[i] = rec
  BY <1>8, SetInSequence
<1>10. q \in Seq(RowRecords) /\ q \in Seq(Records)
  BY <1>8, <1>9, SeqMonotonic DEF RowRecords
<1> HIDE DEF q
<1>11. \A i \in 1..Len(q) : \E v \in inSnap : q[i] = record(v)
  BY <1>8a, <1>9
<1>12. \A i \in 1..Len(q) : \E v \in inSnap :
         /\ q[i].op = "insert" /\ q[i].id = v.id /\ q[i].val = v.val /\ q[i].name = tname[v.table]
         /\ B.cat[q[i].name] = v.table
  BY <1>4, <1>5, <1>7, <1>11
<1> HIDE DEF B
<1>13. Placeable(B, q)
  <2> SUFFICES ASSUME NEW i \in 1..Len(q) PROVE B.cat[q[i].name] # NoTable
    BY DEF Placeable
  <2>1. PICK v \in inSnap : B.cat[q[i].name] = v.table
    BY <1>12
  <2>2. QED
    BY <1>5, <2>1
<1>14. Orderly(q)
  <2> SUFFICES ASSUME NEW i \in 1..Len(q), NEW j \in 1..Len(q), i < j,
                      q[i].name = q[j].name, q[i].id = q[j].id
               PROVE  FALSE
    BY DEF Orderly
  <2>1. PICK v \in inSnap : q[i] = record(v)
    BY <1>11
  <2>2. PICK w \in inSnap : q[j] = record(w)
    BY <1>11
  <2>3. v.table = w.table /\ v.id = w.id
    BY <1>5, <1>7, <2>1, <2>2
  <2>4. v = w
    BY <1>3, <1>5, <2>3
  <2>5. i = j
    BY <1>9, <2>1, <2>2, <2>4
  <2>6. Len(q) \in Nat
    BY <1>10
  <2>7. QED
    BY <2>5, <2>6
<1>15. Fresh(B, q)
  BY <1>4 DEF Fresh
<1>16. Consistent(B)
  BY <1>3, <1>4, ReplayedConsistent DEF B
<1>17. Replay(B, q).rows = After(B, q, Len(q)) /\ Alike(Replay(B, q), B)
  BY <1>4, <1>10, <1>13, <1>14, <1>15, <1>16, BatchRows, BatchRuns
<1>18. Replayed(schema \o q) = Replay(B, q)
  BY <1>3, <1>10, ReplayConcat DEF Replayed, B
<1>19. Replayed(schema \o q).ok /\ Replayed(schema \o q).tables <= MaxTable
  BY <1>3, <1>4, <1>17, <1>18 DEF Alike
<1>20. History(schema \o q) = schema
  <2>1. History(schema \o q) = History(schema)
    BY <1>3, <1>10, HistoryOfRows
  <2>2. History(schema) = schema
    BY <1>3, HistoryOfSchema DEF IInv, Shapes
  <2>3. QED
    BY <2>1, <2>2
<1>21. ASSUME NEW r \in After(B, q, Len(q)) PROVE r \in Held
  <2>1. InsertedIn(B, q, Len(q), r)
    BY <1>4 DEF After
  <2>2. PICK i \in 1..Len(q) : r = [table |-> B.cat[q[i].name], id |-> q[i].id, val |-> q[i].val]
    BY <2>1 DEF InsertedIn
  <2>3. PICK v \in inSnap : q[i].id = v.id /\ q[i].val = v.val /\ B.cat[q[i].name] = v.table
    BY <1>12
  <2>4. QED
    BY <1>6, <2>2, <2>3
<1>22. ASSUME NEW r \in Held PROVE r \in After(B, q, Len(q)) /\ r.table \in Live
  <2>1. PICK v \in inSnap : r = row(v)
    BY <1>6
  <2>2. PICK i \in 1..Len(q) : q[i] = record(v)
    BY <1>8b, <1>9
  <2>3. r = [table |-> B.cat[q[i].name], id |-> q[i].id, val |-> q[i].val] /\ q[i].op = "insert"
    BY <1>4, <1>5, <1>7, <2>1, <2>2
  <2>4. InsertedIn(B, q, Len(q), r)
    BY <2>3 DEF InsertedIn
  <2>5. ~DeletedIn(B, q, Len(q), r)
    BY <1>12 DEF DeletedIn
  <2>6. r \in [table : Nat, id : 0..MaxVal, val : 0..MaxVal]
    <3>1. v.table \in Nat /\ v.id \in 0..MaxVal /\ v.val \in 0..MaxVal
      BY <1>3, <1>5
    <3>2. QED
      BY <2>1, <3>1
  <2>7. QED
    BY <1>5, <2>1, <2>4, <2>5, <2>6 DEF After
<1>23. {r \in Replayed(schema \o q).rows : r.table \in Live} = Held
  BY <1>17, <1>18, <1>21, <1>22
<1>24. \A i \in 1..Len(q) : \E v \in rows :
         q[i].op = "insert" /\ q[i].id = v.id /\ q[i].val = v.val /\ v.xmin \in SettledTx
  BY <1>5, <1>12
<1>25. schema \o q \in Seq(Records)
  BY <1>3, <1>10
<1>26. QED
  BY <1>2, <1>10, <1>19, <1>20, <1>23, <1>24, <1>25 DEF q

(***************************************************************************)
(* Copied is preserved.                                                    *)
(***************************************************************************)
LEMMA StepCopied == Careful /\ IInv /\ [Next]_vars => Copied'
<1> SUFFICES ASSUME Careful, IInv, [Next]_vars PROVE Copied'
  OBVIOUS
<1>1. Copied /\ ck \in [pc : {"none", "schema", "scan", "install", "detach", "release", "closed"},
                        closing : BOOLEAN, snap : SUBSET TxIds, recs : Seq(Records)]
  BY DEF IInv, Shapes
<1>2. ASSUME ck'.pc \notin {"schema", "scan", "install"} PROVE Copied'
  BY <1>2 DEF Copied
<1>3. ASSUME NEW c \in Conns, Begin(c) \/ Working(c) \/ Commit(c) \/ Rollback(c) PROVE Copied'
  <2>1. ck.pc = "none" /\ ck' = ck
    BY <1>3, Begins, Works, Ends
  <2>2. QED
    BY <1>2, <2>1
<1>4. CASE Checkpointing
  <2>1. /\ \A c \in Conns : tx[c] = NoTx
        /\ schema' = schema /\ rows' = rows /\ cat' = cat /\ status' = status
    BY <1>4, CheckpointAlone DEF heapVars, catVars
  <2>2. SettledTx' = SettledTx
    BY <1>4, SettledInCheckpoint
  <2>3. Live' = Live /\ Held' = Held
    BY <2>1, <2>2 DEF Live, Held
  <2>4. CASE \E closing \in BOOLEAN : CheckpointBegin(closing)
    <3>1. ck'.pc = "schema" /\ ck'.snap = {t \in TxIds : status[t] = "Committed"}
      BY <1>1, <2>4 DEF CheckpointBegin, ckStep
    <3>2. SettledTx = {t \in TxIds : status[t] = "Committed"}
      <4>1. \A t \in TxIds : t # NoTx
        BY EngineAssumption DEF TxIds, Boot, NoTx
      <4>2. QED
        BY <2>1, <4>1 DEF SettledTx
    <3>3. QED
      BY <2>2, <3>1, <3>2 DEF Copied
  <2>5. CASE CheckpointSchema
    <3>1. ck.pc = "schema" /\ ck'.pc = "scan" /\ ck'.snap = ck.snap /\ ck'.recs = schema
      BY <1>1, <2>5 DEF CheckpointSchema, ckStep
    <3>2. QED
      BY <1>1, <2>1, <2>2, <3>1 DEF Copied
  <2>6. CASE CheckpointScan
    <3>1. PICK q \in Seq(RowRecords) :
            /\ ck' = [ck EXCEPT !.pc = "install", !.recs = schema \o q]
            /\ Replayed(schema \o q).ok /\ Replayed(schema \o q).tables <= MaxTable
            /\ History(schema \o q) = schema
            /\ {r \in Replayed(schema \o q).rows : r.table \in Live} = Held
      BY <2>6, ScanCopies
    <3>2. ck'.pc = "install" /\ ck'.recs = schema \o q
      BY <1>1, <3>1
    <3>3. QED
      BY <2>1, <2>3, <3>1, <3>2 DEF Copied
  <2>7. CASE CheckpointInstall \/ DetachJournal \/ CloseLog
    <3>1. ck'.pc \in {"none", "detach", "release", "closed"}
      <4>1. CASE CheckpointInstall
        <5>1. ck' = [ck EXCEPT !.pc = "detach", !.recs = <<>>, !.snap = {}] \/ ck' = NoCheckpoint
          BY <4>1, Zenon DEF CheckpointInstall, ckStep
        <5>2. [ck EXCEPT !.pc = "detach", !.recs = <<>>, !.snap = {}].pc = "detach"
              /\ NoCheckpoint.pc = "none"
          BY <1>1 DEF NoCheckpoint
        <5>3. QED
          BY <5>1, <5>2
      <4>2. CASE DetachJournal \/ CloseLog
        BY <1>1, <4>2 DEF DetachJournal, CloseLog, ckStep
      <4>3. QED
        BY <2>7, <4>1, <4>2
    <3>2. QED
      BY <1>2, <3>1
  <2>8. QED
    BY <1>4, <2>4, <2>5, <2>6, <2>7 DEF Checkpointing
<1>5. CASE Restart
  <2>1. ck'.pc = "none"
    BY <1>5 DEF Restart, NoCheckpoint
  <2>2. QED
    BY <1>2, <2>1
<1>6. CASE UNCHANGED vars
  <2>1. ck' = ck /\ schema' = schema /\ Live' = Live /\ SettledTx' = SettledTx /\ rows' = rows
    BY <1>6 DEF Live, SettledTx, vars, connVars, catVars, heapVars
  <2>2. Held' = Held
    BY <2>1 DEF Held
  <2>3. QED
    BY <1>1, <2>1, <2>2 DEF Copied
<1>7. QED
  BY <1>3, <1>4, <1>5, <1>6, NextCases

\* What the other steps of a checkpoint leave in the copy.
LEMMA OtherRecs ==
  IInv /\ Checkpointing /\ ~CheckpointScan =>
    ck'.recs = ck.recs \/ ck'.recs = schema \/ ck'.recs = <<>>
<1> SUFFICES ASSUME IInv, Checkpointing, ~CheckpointScan
             PROVE  ck'.recs = ck.recs \/ ck'.recs = schema \/ ck'.recs = <<>>
  OBVIOUS
<1>1. ck \in [pc : {"none", "schema", "scan", "install", "detach", "release", "closed"},
              closing : BOOLEAN, snap : SUBSET TxIds, recs : Seq(Records)]
  BY DEF IInv, Shapes
<1>2. CASE CheckpointInstall
  <2>1. ck' = [ck EXCEPT !.pc = "detach", !.recs = <<>>, !.snap = {}] \/ ck' = NoCheckpoint
    BY <1>2, Zenon DEF CheckpointInstall, ckStep
  <2>2. [ck EXCEPT !.pc = "detach", !.recs = <<>>, !.snap = {}].recs = <<>>
        /\ NoCheckpoint.recs = <<>>
    BY <1>1 DEF NoCheckpoint
  <2>3. QED
    BY <2>1, <2>2
<1>3. CASE (\E closing \in BOOLEAN : CheckpointBegin(closing)) \/ DetachJournal \/ CloseLog
  BY <1>1, <1>3 DEF CheckpointBegin, DetachJournal, CloseLog, ckStep
<1>4. CASE CheckpointSchema
  BY <1>1, <1>4 DEF CheckpointSchema, ckStep
<1>5. QED
  BY <1>2, <1>3, <1>4 DEF Checkpointing

(***************************************************************************)
(* LoggedSettled is preserved.                                             *)
(***************************************************************************)
LEMMA StepLoggedSettled == Careful /\ IInv /\ [Next]_vars => LoggedSettled'
<1> SUFFICES ASSUME Careful, IInv, [Next]_vars, "sync" \notin Faults
             PROVE  LoggedSettled'
  BY DEF LoggedSettled
<1> DEFINE Fine(l) == \A i \in 1..Len(l) : l[i].op = "insert" =>
                        \A v \in rows' : v.val = l[i].val => v.xmin \in SettledTx'
<1>1. SUFFICES Fine(log') /\ Fine(ck'.recs)
  BY DEF LoggedSettled, SettledOnly
<1>2. /\ SettledOnly(log) /\ SettledOnly(ck.recs) /\ InRange(log) /\ InRange(ck.recs)
      /\ log \in Seq(Records) /\ schema \in Seq(Records) /\ ck.recs \in Seq(Records)
      /\ pending \in [Conns -> Seq(RowRecords)] /\ vals \in Nat
  BY Typed DEF IInv, LoggedSettled, RecordsNumbered
<1>3. ASSUME NEW l \in Seq(Records), NEW m \in Seq(Records), Fine(l), Fine(m)
      PROVE  Fine(l \o m)
  <2>1. ASSUME NEW i \in 1..Len(l \o m)
        PROVE  (\E j \in 1..Len(l) : (l \o m)[i] = l[j]) \/ (\E j \in 1..Len(m) : (l \o m)[i] = m[j])
    <3>1. Len(l) \in Nat /\ Len(m) \in Nat /\ Len(l \o m) = Len(l) + Len(m)
      OBVIOUS
    <3>2. CASE i <= Len(l)
      <4>1. i \in 1..Len(l) /\ (l \o m)[i] = l[i]
        BY <3>1, <3>2
      <4>2. QED
        BY <4>1
    <3>3. CASE i > Len(l)
      <4>1. i - Len(l) \in 1..Len(m) /\ (l \o m)[i] = m[i - Len(l)]
        BY <3>1, <3>3
      <4>2. QED
        BY <4>1
    <3>4. QED
      BY <3>1, <3>2, <3>3
  <2>2. QED
    BY <1>3, <2>1
<1>4. ASSUME NEW l \in Seq(Records), \A i \in 1..Len(l) : isDDL(l[i]) PROVE Fine(l)
  BY <1>4 DEF isDDL
<1>5. Fine(<<>>)
  OBVIOUS
<1>6. ASSUME NEW l \in Seq(Records), InRange(l), SettledOnly(l), SettledTx \subseteq SettledTx',
             \A v \in rows' : (\E w \in rows : w.val = v.val /\ w.xmin = v.xmin) \/ v.val > vals
      PROVE  Fine(l)
  <2>1. SUFFICES ASSUME NEW i \in 1..Len(l), l[i].op = "insert", NEW v \in rows', v.val = l[i].val
                 PROVE  v.xmin \in SettledTx'
    OBVIOUS
  <2>2. l[i].val \in 1..vals
    BY <1>6, <2>1 DEF InRange
  <2>3. PICK w \in rows : w.val = v.val /\ w.xmin = v.xmin
    BY <1>2, <1>6, <2>1, <2>2
  <2>4. QED
    BY <1>6, <2>1, <2>3 DEF SettledOnly
<1> HIDE DEF Fine
<1>7. ASSUME SettledTx \subseteq SettledTx', rows' = rows, log' = log, ck' = ck
      PROVE  Fine(log') /\ Fine(ck'.recs)
  BY <1>2, <1>6, <1>7
<1>8. ASSUME NEW c \in Conns,
             Begin(c) \/ Commit(c) \/ Rollback(c) \/ Ddl3(c) \/ RememberSchema(c)
      PROVE  Fine(log') /\ Fine(ck'.recs)
  <2>1. SettledTx' = SettledTx
    BY <1>8, SettledSame
  <2>2. rows' = rows /\ log' = log /\ ck' = ck
    <3>1. CASE Ddl3(c)
      BY <3>1, DdlBegins DEF logVars
    <3>2. CASE Begin(c) \/ Commit(c) \/ Rollback(c) \/ RememberSchema(c)
      BY <3>2 DEF Begin, Commit, Rollback, finish, RememberSchema, logVars, heapVars
    <3>3. QED
      BY <1>8, <3>1, <3>2
  <2>3. QED
    BY <1>7, <2>1, <2>2
<1>9. ASSUME NEW c \in Conns, NEW t \in Tables, Insert(c, t)
      PROVE  Fine(log') /\ Fine(ck'.recs)
  <2>1. SettledTx' = SettledTx /\ log' = log /\ ck' = ck
    BY <1>9, SettledSame DEF Insert, logVars
  <2>2. PICK x : rows' = rows \cup {x} /\ x.val > vals
    <3>1. PICK x : x = [table |-> t, id |-> nextRow[t], val |-> vals + 1, xmin |-> tx[c], xmax |-> NoTx]
      OBVIOUS
    <3>2. rows' = rows \cup {x}
      BY <1>9, <3>1 DEF Insert
    <3>3. QED
      BY <1>2, <3>1, <3>2
  <2>3. QED
    BY <1>2, <1>6, <2>1, <2>2
<1>10. ASSUME NEW c \in Conns, NEW v \in rows, Delete(c, v)
       PROVE  Fine(log') /\ Fine(ck'.recs)
  <2>1. SettledTx' = SettledTx /\ log' = log /\ ck' = ck
    BY <1>10, SettledSame DEF Delete, logVars
  <2>2. PICK x : rows' = (rows \ {v}) \cup {x} /\ x.val = v.val /\ x.xmin = v.xmin
    <3>1. v \in [table : 1..tables, id : 1..MaxVal, val : 1..MaxVal, xmin : TxIds, xmax : TxIds \cup {NoTx}]
      BY DEF IInv, TypeOK
    <3>2. PICK x : x = [v EXCEPT !.xmax = tx[c]]
      OBVIOUS
    <3>3. rows' = (rows \ {v}) \cup {x}
      BY <1>10, <3>2 DEF Delete
    <3>4. QED
      BY <3>1, <3>2, <3>3
  <2>3. QED
    BY <1>2, <1>6, <2>1, <2>2
<1>11. ASSUME NEW c \in Conns, Flush(c)
       PROVE  Fine(log') /\ Fine(ck'.recs)
  <2>1. rows' = rows /\ ck' = ck /\ tx[c] # NoTx /\ step[c] = "ready"
    BY <1>11 DEF Flush, heapVars, Ready
  <2>2. CASE SettledTx' = SettledTx /\ log' = log
    BY <1>7, <2>1, <2>2
  <2>3. CASE SettledTx' = SettledTx \cup {tx[c]} /\ log' = log \o pending[c]
    <3>1. Fine(log) /\ Fine(ck'.recs)
      BY <1>2, <1>6, <2>1, <2>3
    <3>2. pending[c] \in Seq(Records)
      BY <1>2, SeqMonotonic DEF RowRecords
    <3>3. Fine(pending[c])
      <4>1. SUFFICES ASSUME NEW i \in 1..Len(pending[c]), pending[c][i].op = "insert",
                            NEW v \in rows', v.val = pending[c][i].val
                     PROVE  v.xmin \in SettledTx'
        BY DEF Fine
      <4>2. PICK w \in rows : Insertion(c, pending[c][i], w)
        BY <4>1 DEF IInv, Buffered, BufferedRows, Deletion
      <4>3. v.xmin = w.xmin
        BY <2>1, <4>1, <4>2 DEF IInv, Numbered, Insertion
      <4>4. QED
        BY <2>3, <4>2, <4>3 DEF Insertion
    <3>4. QED
      BY <1>2, <1>3, <2>3, <3>1, <3>2, <3>3
  <2>4. QED
    BY <1>11, <2>2, <2>3, FlushSettles
<1>12. ASSUME NEW c \in Conns, LogNow(c)
       PROVE  Fine(log') /\ Fine(ck'.recs)
  <2>1. SettledTx' = SettledTx /\ rows' = rows /\ ck' = ck /\ stmt[c] \in DdlRecords
        /\ (log' = Append(log, stmt[c]) \/ log' = log)
    BY <1>12, SettledSame, Logs DEF heapVars
  <2>2. Fine(log) /\ Fine(ck'.recs)
    BY <1>2, <1>6, <2>1
  <2>3. PICK m : m = <<stmt[c]>>
    OBVIOUS
  <2>4. m \in Seq(Records) /\ (\A i \in 1..Len(m) : isDDL(m[i])) /\ Append(log, stmt[c]) = log \o m
    <3>1. stmt[c] \in Records /\ isDDL(stmt[c])
      BY <2>1 DEF DdlRecords
    <3>2. m \in Seq(Records) /\ Len(m) = 1 /\ m[1] = stmt[c]
      BY <2>3, <3>1
    <3>3. Append(log, stmt[c]) = log \o m
      BY <1>2, <2>3, <3>1
    <3>4. QED
      BY <3>1, <3>2, <3>3
  <2>5. QED
    BY <1>2, <1>3, <1>4, <2>1, <2>2, <2>4
<1>13. CASE Checkpointing
  <2>1. SettledTx' = SettledTx /\ rows' = rows
    BY <1>13, SettledInCheckpoint, CheckpointAlone DEF heapVars
  <2>2. Fine(log) /\ Fine(ck.recs)
    BY <1>2, <1>6, <2>1
  <2>3. Fine(log')
    BY <1>13, <2>2, InstallsCopy
  <2>4. Fine(schema)
    BY <1>2, <1>4 DEF IInv, Shapes
  <2>5. ck \in [pc : {"none", "schema", "scan", "install", "detach", "release", "closed"},
                closing : BOOLEAN, snap : SUBSET TxIds, recs : Seq(Records)]
    BY DEF IInv, Shapes
  <2>6. CASE CheckpointScan
    <3>1. PICK q \in Seq(RowRecords) :
            /\ ck' = [ck EXCEPT !.pc = "install", !.recs = schema \o q]
            /\ \A i \in 1..Len(q) : \E v \in rows :
                 q[i].op = "insert" /\ q[i].id = v.id /\ q[i].val = v.val /\ v.xmin \in SettledTx
      BY <2>6, ScanCopies
    <3>2. Fine(q)
      <4>1. SUFFICES ASSUME NEW i \in 1..Len(q), NEW v \in rows', v.val = q[i].val
                     PROVE  v.xmin \in SettledTx'
        BY DEF Fine
      <4>2. PICK w \in rows : q[i].val = w.val /\ w.xmin \in SettledTx
        BY <3>1
      <4>3. v.xmin = w.xmin
        BY <2>1, <4>1, <4>2 DEF IInv, Numbered
      <4>4. QED
        BY <2>1, <4>2, <4>3
    <3>3. q \in Seq(Records)
      BY SeqMonotonic DEF RowRecords
    <3>4. ck'.recs = schema \o q
      BY <2>5, <3>1
    <3>5. QED
      BY <1>2, <1>3, <2>3, <2>4, <3>2, <3>3, <3>4
  <2>7. CASE ~CheckpointScan
    <3>1. ck'.recs = ck.recs \/ ck'.recs = schema \/ ck'.recs = <<>>
      BY <1>13, <2>7, OtherRecs
    <3>2. QED
      BY <1>5, <2>2, <2>3, <2>4, <3>1
  <2>8. QED
    BY <2>6, <2>7
<1>14. CASE Restart
  <2>1. Boot \in SettledTx'
    <3>1. status' = FreshStatus
      BY <1>14 DEF Restart
    <3>2. QED
      BY <3>1, EngineAssumption DEF SettledTx, FreshStatus, TxIds, Boot
  <2>2. \A v \in rows' : v.xmin = Boot
    BY <1>14, RestartLoads
  <2>3. \A l : Fine(l)
    BY <2>1, <2>2 DEF Fine
  <2>4. QED
    BY <2>3
<1>15. CASE UNCHANGED vars
  <2>1. SettledTx' = SettledTx /\ rows' = rows /\ log' = log /\ ck' = ck
    BY <1>15 DEF SettledTx, vars, connVars, heapVars, logVars
  <2>2. QED
    BY <1>7, <2>1
<1>16. QED
  BY <1>8, <1>9, <1>10, <1>11, <1>12, <1>13, <1>14, <1>15, NextCases DEF Working

(***************************************************************************)
(* Numbered is preserved.                                                  *)
(***************************************************************************)

\* The version an INSERT adds.
NewRow(c, t) == [table |-> t, id |-> nextRow[t], val |-> vals + 1, xmin |-> tx[c], xmax |-> NoTx]

\* The version a DELETE leaves in the place of v.
Gone(c, v) == [v EXCEPT !.xmax = tx[c]]

\* An INSERT adds one row, whose identity and value are new.
LEMMA InsertRow ==
  ASSUME NEW c \in Conns, NEW t \in Tables
  PROVE  IInv /\ Insert(c, t) =>
           /\ rows' = rows \cup {NewRow(c, t)} /\ vals' = vals + 1 /\ vals + 1 <= MaxVal
           /\ t \in 1..tables /\ tx[c] \in TxIds /\ tx[c] < nextTx /\ nextRow[t] \in 1..(vals + 1)
           /\ NewRow(c, t).table = t /\ NewRow(c, t).id = nextRow[t] /\ NewRow(c, t).val = vals + 1
           /\ NewRow(c, t).xmin = tx[c] /\ NewRow(c, t).xmax = NoTx
           /\ \A v \in rows : v.table = t => v.id < nextRow[t]
<1> SUFFICES ASSUME IInv, Insert(c, t)
             PROVE  /\ rows' = rows \cup {NewRow(c, t)} /\ vals' = vals + 1 /\ vals + 1 <= MaxVal
                    /\ t \in 1..tables /\ tx[c] \in TxIds /\ tx[c] < nextTx /\ nextRow[t] \in 1..(vals + 1)
                    /\ NewRow(c, t).table = t /\ NewRow(c, t).id = nextRow[t] /\ NewRow(c, t).val = vals + 1
                    /\ NewRow(c, t).xmin = tx[c] /\ NewRow(c, t).xmax = NoTx
                    /\ \A v \in rows : v.table = t => v.id < nextRow[t]
  OBVIOUS
<1>1. vals \in 0..MaxVal /\ MaxVal \in Nat /\ tx \in [Conns -> TxIds \cup {NoTx}]
      /\ nextRow \in [Tables -> 1..(MaxVal + 1)]
  BY Typed
<1>2. vals' = vals + 1 /\ vals < MaxVal /\ t \in Bound /\ tx[c] # NoTx
      /\ rows' = rows \cup {NewRow(c, t)}
  BY DEF Insert, Ready, NewRow
<1>3. nextRow[t] <= vals + 1 /\ tx[c] < nextTx
  BY <1>2 DEF IInv, Numbered, Turns
<1>4. \A v \in rows : v.table = t => v.id < nextRow[t]
  BY DEF IInv, TypeOK
<1>5. NewRow(c, t).table = t /\ NewRow(c, t).id = nextRow[t] /\ NewRow(c, t).val = vals + 1
      /\ NewRow(c, t).xmin = tx[c] /\ NewRow(c, t).xmax = NoTx
  BY DEF NewRow
<1>6. vals + 1 <= MaxVal /\ nextRow[t] \in 1..(vals + 1)
  BY <1>1, <1>2, <1>3
<1>7. QED
  BY <1>1, <1>2, <1>3, <1>4, <1>5, <1>6 DEF Bound

\* A DELETE replaces a version by one its transaction has deleted.
LEMMA DeleteRow ==
  ASSUME NEW c \in Conns, NEW v \in rows
  PROVE  IInv /\ Delete(c, v) =>
           /\ rows' = (rows \ {v}) \cup {Gone(c, v)} /\ tx[c] \in TxIds /\ tx[c] < nextTx
           /\ v \in [table : 1..tables, id : 1..MaxVal, val : 1..MaxVal, xmin : TxIds, xmax : TxIds \cup {NoTx}]
           /\ Gone(c, v).table = v.table /\ Gone(c, v).id = v.id /\ Gone(c, v).val = v.val
           /\ Gone(c, v).xmin = v.xmin /\ Gone(c, v).xmax = tx[c]
           /\ Gone(c, v) \in [table : 1..tables, id : 1..MaxVal, val : 1..MaxVal,
                              xmin : TxIds, xmax : TxIds \cup {NoTx}]
           /\ v.xmin = tx[c] \/ v.xmin \in SettledTx
           /\ v.xmax # tx[c] /\ (v.xmax # NoTx => status[v.xmax] = "Aborted")
<1> SUFFICES ASSUME IInv, Delete(c, v)
             PROVE  /\ rows' = (rows \ {v}) \cup {Gone(c, v)} /\ tx[c] \in TxIds /\ tx[c] < nextTx
                    /\ v \in [table : 1..tables, id : 1..MaxVal, val : 1..MaxVal,
                              xmin : TxIds, xmax : TxIds \cup {NoTx}]
                    /\ Gone(c, v).table = v.table /\ Gone(c, v).id = v.id /\ Gone(c, v).val = v.val
                    /\ Gone(c, v).xmin = v.xmin /\ Gone(c, v).xmax = tx[c]
                    /\ Gone(c, v) \in [table : 1..tables, id : 1..MaxVal, val : 1..MaxVal,
                                       xmin : TxIds, xmax : TxIds \cup {NoTx}]
                    /\ v.xmin = tx[c] \/ v.xmin \in SettledTx
                    /\ v.xmax # tx[c] /\ (v.xmax # NoTx => status[v.xmax] = "Aborted")
  OBVIOUS
<1>1. tx \in [Conns -> TxIds \cup {NoTx}] /\ tx[c] # NoTx
  BY Typed DEF Delete, Ready
<1>2. tx[c] \in TxIds /\ tx[c] < nextTx
  BY <1>1 DEF IInv, Turns
<1>3. v \in [table : 1..tables, id : 1..MaxVal, val : 1..MaxVal, xmin : TxIds, xmax : TxIds \cup {NoTx}]
  BY DEF IInv, TypeOK
<1>4. Gone(c, v).table = v.table /\ Gone(c, v).id = v.id /\ Gone(c, v).val = v.val
      /\ Gone(c, v).xmin = v.xmin /\ Gone(c, v).xmax = tx[c]
  BY <1>3 DEF Gone
<1>5. Gone(c, v) \in [table : 1..tables, id : 1..MaxVal, val : 1..MaxVal, xmin : TxIds, xmax : TxIds \cup {NoTx}]
  BY <1>2, <1>3 DEF Gone
<1>6. v.xmin = tx[c] \/ v.xmin \in SettledTx
  BY <1>3 DEF Delete, seen, SettledTx
<1>7. v.xmax # tx[c] /\ (v.xmax # NoTx => status[v.xmax] = "Aborted")
  BY <1>1 DEF Delete, seen
<1>8. rows' = (rows \ {v}) \cup {Gone(c, v)}
  BY DEF Delete, Gone
<1>9. QED
  BY <1>2, <1>3, <1>4, <1>5, <1>6, <1>7, <1>8

LEMMA StepNumbered == Careful /\ IInv /\ [Next]_vars => Numbered'
<1> SUFFICES ASSUME Careful, IInv, [Next]_vars PROVE Numbered'
  OBVIOUS
<1>1. Numbered
  BY DEF IInv
<1>2. /\ vals \in 0..MaxVal /\ MaxVal \in Nat /\ nextTx \in 2..(MaxTx + 1) /\ MaxTx \in Nat
      /\ nextRow \in [Tables -> 1..(MaxVal + 1)] /\ TxIds \subseteq Nat /\ NoTx = 0
      /\ tables \in 0..MaxTable /\ MaxTable \in Nat /\ tx \in [Conns -> TxIds \cup {NoTx}]
  BY Typed, EngineAssumption DEF TxIds, Boot, NoTx
<1>3. \A v \in rows : v \in [table : 1..tables, id : 1..MaxVal, val : 1..MaxVal,
                             xmin : TxIds, xmax : TxIds \cup {NoTx}]
  BY DEF IInv, TypeOK
<1>4. ASSUME rows' = rows, nextRow' = nextRow, vals' = vals, nextTx' = nextTx, SettledTx \subseteq SettledTx'
      PROVE  Numbered'
  BY <1>1, <1>4 DEF Numbered
<1>5. ASSUME NEW c \in Conns, Begin(c) PROVE Numbered'
  <2>1. rows' = rows /\ nextRow' = nextRow /\ vals' = vals /\ nextTx' = nextTx + 1
        /\ SettledTx' = SettledTx
    BY <1>5, SettledSame DEF Begin
  <2>2. \A v \in rows : v.xmin < nextTx' /\ v.xmax < nextTx'
    <3>0. ASSUME NEW v \in rows PROVE v.xmin \in Nat /\ v.xmax \in Nat
      <4>1. v.xmin \in TxIds /\ v.xmax \in TxIds \cup {NoTx}
        BY <1>3
      <4>2. TxIds \subseteq Nat /\ NoTx \in Nat
        BY <1>2
      <4>3. QED
        BY <4>1, <4>2, Zenon
    <3>1. \A v \in rows : v.xmin \in Nat /\ v.xmax \in Nat /\ v.xmin < nextTx /\ v.xmax < nextTx
      BY <1>1, <3>0 DEF Numbered
    <3>2. nextTx \in Nat
      BY <1>2
    <3>3. QED
      BY <2>1, <3>1, <3>2
  <2>3. QED
    BY <1>1, <2>1, <2>2 DEF Numbered
<1>6. ASSUME NEW c \in Conns, NEW t \in Tables, Insert(c, t) PROVE Numbered'
  <2> DEFINE x == NewRow(c, t)
  <2>1. /\ rows' = rows \cup {x} /\ vals' = vals + 1
        /\ tx[c] \in TxIds /\ tx[c] < nextTx /\ nextRow[t] \in 1..(vals + 1)
        /\ x.table = t /\ x.id = nextRow[t] /\ x.val = vals + 1 /\ x.xmin = tx[c] /\ x.xmax = NoTx
        /\ \A v \in rows : v.table = t => v.id < nextRow[t]
    BY <1>6, InsertRow
  <2>2. SettledTx' = SettledTx
    BY <1>6, SettledSame
  <2>3. nextRow' = [nextRow EXCEPT ![t] = nextRow[t] + 1] /\ nextTx' = nextTx
    BY <1>6 DEF Insert
  <2> HIDE DEF x
  <2>4. \A u \in Tables : nextRow'[u] <= vals' + 1
    <3>1. \A u \in Tables : nextRow[u] <= vals + 1 /\ nextRow[u] \in Nat
      BY <1>1, <1>2 DEF Numbered
    <3>2. QED
      BY <1>2, <2>1, <2>3, <3>1
  <2>5. \A v \in rows' : v.id <= vals' /\ v.val <= vals' /\ v.xmin < nextTx' /\ v.xmax < nextTx'
    <3>1. \A v \in rows : v.id \in Nat /\ v.val \in Nat /\ v.id <= vals /\ v.val <= vals
                          /\ v.xmin < nextTx /\ v.xmax < nextTx
      BY <1>1, <1>2, <1>3 DEF Numbered
    <3>2. \A v \in rows : v.id <= vals' /\ v.val <= vals' /\ v.xmin < nextTx' /\ v.xmax < nextTx'
      BY <1>2, <2>1, <2>3, <3>1
    <3>3. x.id <= vals' /\ x.val <= vals' /\ x.xmin < nextTx' /\ x.xmax < nextTx'
      BY <1>2, <2>1, <2>3
    <3>4. QED
      BY <2>1, <3>2, <3>3
  <2>6. \A v, w \in rows' : v.table = w.table /\ v.id = w.id => v = w
    <3>1. \A v \in rows : v.table = t => v.id \in Nat /\ v.id < nextRow[t] /\ nextRow[t] \in Nat
      BY <1>2, <1>3, <2>1
    <3>2. \A v \in rows : ~(v.table = x.table /\ v.id = x.id)
      BY <2>1, <3>1
    <3>3. QED
      BY <1>1, <2>1, <3>2 DEF Numbered
  <2>7. \A v, w \in rows' : v.val = w.val => v.xmin = w.xmin
    <3>1. \A v \in rows : v.val \in Nat /\ v.val <= vals /\ vals \in Nat
      BY <1>1, <1>2, <1>3 DEF Numbered
    <3>2. \A v \in rows : v.val # x.val
      BY <2>1, <3>1
    <3>3. QED
      BY <1>1, <2>1, <3>2 DEF Numbered
  <2>8. \A v \in rows' : v.xmin \in SettledTx' \/ v.xmax \in {NoTx, v.xmin}
    BY <1>1, <2>1, <2>2 DEF Numbered
  <2>9. QED
    BY <2>4, <2>5, <2>6, <2>7, <2>8 DEF Numbered
<1>7. ASSUME NEW c \in Conns, NEW v \in rows, Delete(c, v) PROVE Numbered'
  <2> DEFINE x == Gone(c, v)
  <2>1. /\ rows' = (rows \ {v}) \cup {x} /\ tx[c] \in TxIds /\ tx[c] < nextTx
        /\ x.table = v.table /\ x.id = v.id /\ x.val = v.val /\ x.xmin = v.xmin /\ x.xmax = tx[c]
        /\ v.xmin = tx[c] \/ v.xmin \in SettledTx
    BY <1>7, DeleteRow
  <2>2. SettledTx' = SettledTx /\ nextRow' = nextRow /\ vals' = vals /\ nextTx' = nextTx
    BY <1>7, SettledSame DEF Delete
  <2> HIDE DEF x
  <2>3. \A w \in rows' : w.id <= vals' /\ w.val <= vals' /\ w.xmin < nextTx' /\ w.xmax < nextTx'
    BY <1>1, <2>1, <2>2 DEF Numbered
  <2>4. \A w, y \in rows' : w.table = y.table /\ w.id = y.id => w = y
    BY <1>1, <2>1 DEF Numbered
  <2>5. \A w, y \in rows' : w.val = y.val => w.xmin = y.xmin
    BY <1>1, <2>1 DEF Numbered
  <2>6. \A w \in rows' : w.xmin \in SettledTx' \/ w.xmax \in {NoTx, w.xmin}
    BY <1>1, <2>1, <2>2 DEF Numbered
  <2>7. QED
    BY <1>1, <2>2, <2>3, <2>4, <2>5, <2>6 DEF Numbered
<1>8. ASSUME NEW c \in Conns, Flush(c) PROVE Numbered'
  <2>1. SettledTx \subseteq SettledTx' /\ UNCHANGED <<heapVars, vals>>
    BY <1>8, FlushSettles
  <2>2. QED
    BY <1>4, <2>1 DEF heapVars
<1>9. ASSUME NEW c \in Conns, Commit(c) \/ Rollback(c) \/ RememberSchema(c) \/ LogNow(c) PROVE Numbered'
  <2>1. SettledTx' = SettledTx
    BY <1>9, SettledSame
  <2>2. rows' = rows /\ nextRow' = nextRow /\ vals' = vals /\ nextTx' = nextTx
    BY <1>9 DEF Commit, Rollback, finish, RememberSchema, LogNow, heapVars
  <2>3. QED
    BY <1>4, <2>1, <2>2
<1>10. ASSUME NEW c \in Conns, Ddl3(c) PROVE Numbered'
  <2>1. SettledTx' = SettledTx /\ rows' = rows /\ vals' = vals /\ nextTx' = nextTx
    BY <1>10, SettledSame, DdlBegins
  <2>2. nextRow' = nextRow \/ \E t : nextRow' = [nextRow EXCEPT ![t] = 1]
    BY <1>10 DEF Ddl3, CreateTable, DropTable, RenameTable
  <2>3. \A t \in Tables : nextRow'[t] <= vals' + 1
    BY <1>1, <1>2, <2>1, <2>2 DEF Numbered
  <2>4. QED
    BY <1>1, <2>1, <2>3 DEF Numbered
<1>11. CASE Checkpointing
  BY <1>4, <1>11, SettledInCheckpoint, CheckpointAlone DEF heapVars
<1>12. CASE Restart
  <2>1. Boot \in SettledTx'
    <3>1. status' = FreshStatus
      BY <1>12 DEF Restart
    <3>2. QED
      BY <3>1, EngineAssumption DEF SettledTx, FreshStatus, TxIds, Boot
  <2>2. /\ \A t \in Tables : nextRow'[t] \in 1..(vals + 1)
        /\ \A v \in rows' :
             v \in [table : 1..tables', id : 1..vals, val : 1..vals, xmin : {Boot}, xmax : {NoTx}]
        /\ \A v, w \in rows' : v.table = w.table /\ v.id = w.id => v = w
    BY <1>12, RestartLoads
  <2>3. vals' = vals /\ nextTx' = 2 /\ Boot = 1
    BY <1>12 DEF Restart, Boot
  <2>4. \A v \in rows' : v.id <= vals' /\ v.val <= vals' /\ v.xmin < nextTx' /\ v.xmax < nextTx'
    BY <1>2, <2>2, <2>3
  <2>5. \A v \in rows' : v.xmin = Boot
    BY <2>2
  <2>6. QED
    BY <1>2, <2>1, <2>2, <2>3, <2>4, <2>5 DEF Numbered
<1>13. CASE UNCHANGED vars
  <2>1. SettledTx' = SettledTx
    BY <1>13 DEF SettledTx, vars, connVars, heapVars
  <2>2. QED
    BY <1>4, <1>13, <2>1 DEF vars, heapVars
<1>14. QED
  BY <1>5, <1>6, <1>7, <1>8, <1>9, <1>10, <1>11, <1>12, <1>13, NextCases DEF Working

(***************************************************************************)
(* What a schema statement makes of its transaction's buffer.              *)
(***************************************************************************)
LEMMA Renamed ==
  ASSUME NEW p \in Seq(RowRecords), NEW n \in TableNames, NEW to \in TableNames
  PROVE  /\ RenameLogged(p, n, to) \in Seq(RowRecords) /\ Len(RenameLogged(p, n, to)) = Len(p)
         /\ \A i \in 1..Len(p) :
              /\ RenameLogged(p, n, to)[i].op = p[i].op /\ RenameLogged(p, n, to)[i].id = p[i].id
              /\ RenameLogged(p, n, to)[i].val = p[i].val
              /\ RenameLogged(p, n, to)[i].name = IF p[i].name = n THEN to ELSE p[i].name
<1> DEFINE q == RenameLogged(p, n, to)
<1>1. Len(p) \in Nat /\ DOMAIN p = 1..Len(p) /\ \A i \in 1..Len(p) : p[i] \in RowRecords
  OBVIOUS
<1>2. q = [i \in 1..Len(p) |-> IF p[i].name = n THEN [p[i] EXCEPT !.name = to, !.to = to] ELSE p[i]]
  BY <1>1 DEF RenameLogged
<1>3. ASSUME NEW i \in 1..Len(p)
      PROVE  /\ q[i] \in RowRecords /\ q[i].op = p[i].op /\ q[i].id = p[i].id /\ q[i].val = p[i].val
             /\ q[i].name = IF p[i].name = n THEN to ELSE p[i].name
  <2>1. p[i] \in RowRecords
    BY <1>1
  <2>2. q[i] = IF p[i].name = n THEN [p[i] EXCEPT !.name = to, !.to = to] ELSE p[i]
    BY <1>2
  <2>3. CASE p[i].name = n
    <3>1. PICK r : r = p[i]
      OBVIOUS
    <3>2. q[i] = [r EXCEPT !.name = to, !.to = to]
      BY <2>2, <2>3, <3>1
    <3>3. r \in RowRecords
      BY <2>1, <3>1
    <3>4. [r EXCEPT !.name = to, !.to = to] \in RowRecords
      BY <3>3 DEF RowRecords, Records
    <3>5. QED
      BY <2>3, <3>1, <3>2, <3>3, <3>4 DEF RowRecords, Records
  <2>4. CASE p[i].name # n
    BY <2>1, <2>2, <2>4
  <2>5. QED
    BY <2>3, <2>4
<1> HIDE DEF q
<1>4. q \in Seq(RowRecords) /\ Len(q) = Len(p)
  <2>1. q \in [1..Len(p) -> RowRecords]
    BY <1>2, <1>3
  <2>2. QED
    BY <1>1, <2>1, IsASeq
<1>5. QED
  BY <1>3, <1>4 DEF q

\* The buffer q is the buffer p retold in the new catalog: h says which record of
\* p each record of q was.
Retold(q, h, p) ==
  /\ h \in [1..Len(q) -> 1..Len(p)]
  /\ \A k \in 1..Len(q) : /\ q[k].op = p[h[k]].op /\ q[k].id = p[h[k]].id /\ q[k].val = p[h[k]].val
                          /\ cat'[q[k].name] = cat[p[h[k]].name]
  /\ \A j, k \in 1..Len(q) : j < k => h[j] < h[k]
  /\ \A i \in 1..Len(p) : cat[p[i].name] \in Live' => \E k \in 1..Len(q) : h[k] = i

\* The frame a schema statement leaves in the buffer retells the one it found.
LEMMA DdlBuffers ==
  ASSUME NEW c \in Conns
  PROVE  Careful /\ IInv /\ Ddl3(c) =>
           \E q, h :
             /\ q \in Seq(RowRecords) /\ pending' = [pending EXCEPT ![c] = q] /\ Retold(q, h, pending[c])
<1> SUFFICES ASSUME Careful, IInv, Ddl3(c)
             PROVE  \E q, h :
                      /\ q \in Seq(RowRecords) /\ pending' = [pending EXCEPT ![c] = q] /\ Retold(q, h, pending[c])
  OBVIOUS
<1> DEFINE p == pending[c]
<1>1. /\ pending \in [Conns -> Seq(RowRecords)] /\ p \in Seq(RowRecords)
      /\ cat \in [TableNames -> Tables \cup {NoTable}] /\ NoTable \notin Tables
      /\ \A n \in TableNames : cat[n] # NoTable => tname[cat[n]] = n
  BY Typed DEF IInv, TypeOK, Tables, NoTable
<1>2. \A i \in 1..Len(p) : cat[p[i].name] # NoTable /\ p[i].name \in TableNames
  <2>1. \A i \in 1..Len(p) : p[i] \in RowRecords
    BY <1>1
  <2>2. \A i \in 1..Len(p) : p[i].name \in TableNames
    BY <2>1 DEF RowRecords, Records
  <2>3. QED
    BY <2>2 DEF IInv, Buffered, BufferedRows
<1> HIDE DEF p
<1>3. ASSUME NEW n \in TableNames, CreateTable(c, n)
      PROVE  \E q, h : q \in Seq(RowRecords) /\ pending' = [pending EXCEPT ![c] = q] /\ Retold(q, h, p)
  <2> DEFINE h == [k \in 1..Len(p) |-> k]
  <2>1. pending' = [pending EXCEPT ![c] = p]
    BY <1>1, <1>3 DEF CreateTable, p
  <2>2. cat[n] = NoTable /\ cat' = [cat EXCEPT ![n] = tables + 1]
    BY <1>3 DEF CreateTable
  <2>3. \A i \in 1..Len(p) : cat'[p[i].name] = cat[p[i].name]
    BY <1>1, <1>2, <2>2
  <2>4. Retold(p, h, p)
    BY <2>3 DEF Retold
  <2>5. QED
    BY <1>1, <2>1, <2>4
<1>4. ASSUME NEW n \in TableNames, NEW to \in TableNames, RenameTable(c, n, to)
      PROVE  \E q, h : q \in Seq(RowRecords) /\ pending' = [pending EXCEPT ![c] = q] /\ Retold(q, h, p)
  <2> DEFINE h == [k \in 1..Len(p) |-> k]
             q == RenameLogged(p, n, to)
  <2>1. pending' = [pending EXCEPT ![c] = q]
    BY <1>4 DEF RenameTable, p
  <2>2. cat[n] # NoTable /\ (to = n \/ cat[to] = NoTable)
        /\ cat' = [cat EXCEPT ![n] = NoTable, ![to] = cat[n]]
    BY <1>4 DEF RenameTable
  <2>3. /\ q \in Seq(RowRecords) /\ Len(q) = Len(p)
        /\ \A i \in 1..Len(p) : /\ q[i].op = p[i].op /\ q[i].id = p[i].id /\ q[i].val = p[i].val
                                /\ q[i].name = IF p[i].name = n THEN to ELSE p[i].name
    <3>1. p \in Seq(RowRecords)
      BY <1>1
    <3> HIDE DEF h, p
    <3>2. QED
      BY <3>1, Renamed
  <2> HIDE DEF q
  <2>4. ASSUME NEW i \in 1..Len(p) PROVE cat'[q[i].name] = cat[p[i].name]
    <3>1. CASE p[i].name = n
      BY <1>1, <2>2, <2>3, <3>1
    <3>2. CASE p[i].name # n
      <4>1. p[i].name # to /\ q[i].name = p[i].name /\ p[i].name \in TableNames
        BY <1>2, <2>2, <2>3, <3>2
      <4>2. QED
        BY <1>1, <2>2, <3>2, <4>1
    <3>3. QED
      BY <3>1, <3>2
  <2>5. Retold(q, h, p)
    BY <2>3, <2>4 DEF Retold
  <2>6. QED
    BY <2>1, <2>3, <2>5
<1>5. ASSUME NEW n \in TableNames, DropTable(c, n)
      PROVE  \E q, h : q \in Seq(RowRecords) /\ pending' = [pending EXCEPT ![c] = q] /\ Retold(q, h, p)
  <2> DEFINE S == {r \in Records : r.name # n}
             q == Kept(p, S)
  <2>1. pending' = [pending EXCEPT ![c] = q]
    BY <1>5 DEF DropTable, ForgetLogged, p
  <2>2. cat[n] # NoTable /\ cat' = [cat EXCEPT ![n] = NoTable]
    BY <1>5 DEF DropTable
  <2> HIDE DEF S
  <2>3. q \in Seq(RowRecords) /\ \E h : Picks(h, q, p, Len(p), S)
    BY <1>1, KeptPicks
  <2> HIDE DEF q
  <2>4. PICK h : Picks(h, q, p, Len(p), S)
    BY <2>3
  <2>5. ASSUME NEW k \in 1..Len(q)
        PROVE  q[k] = p[h[k]] /\ cat'[q[k].name] = cat[p[h[k]].name]
    <3>1. q[k] = p[h[k]] /\ p[h[k]] \in S
      BY <2>4 DEF Picks
    <3>2. q[k].name # n /\ q[k].name \in TableNames
      BY <3>1 DEF S, Records
    <3>3. QED
      BY <1>1, <2>2, <3>1, <3>2
  <2>6. ASSUME NEW i \in 1..Len(p), cat[p[i].name] \in Live'
        PROVE  \E k \in 1..Len(q) : h[k] = i
    <3>1. PICK m \in TableNames : cat'[m] = cat[p[i].name]
      BY <2>6 DEF Live
    <3>2. m # n /\ cat[m] = cat[p[i].name]
      BY <1>1, <1>2, <2>2, <3>1
    <3>3. p[i].name # n
      BY <1>1, <1>2, <3>2
    <3>4. p[i] \in Records
      BY <1>1 DEF RowRecords
    <3>5. p[i] \in S
      BY <3>3, <3>4 DEF S
    <3>6. QED
      BY <2>4, <3>5 DEF Picks
  <2>7. Retold(q, h, p)
    BY <2>4, <2>5, <2>6 DEF Retold, Picks
  <2>8. QED
    BY <2>1, <2>3, <2>7
<1>6. QED
  BY <1>3, <1>4, <1>5 DEF Ddl3, p

(***************************************************************************)
(* RecordsNumbered is preserved.                                           *)
(***************************************************************************)
LEMMA StepRecordsNumbered == Careful /\ IInv /\ [Next]_vars => RecordsNumbered'
<1> SUFFICES ASSUME Careful, IInv, [Next]_vars PROVE RecordsNumbered'
  OBVIOUS
<1> DEFINE In(l) == \A i \in 1..Len(l) : l[i].op = "insert" => l[i].id \in 1..vals' /\ l[i].val \in 1..vals'
<1>1. SUFFICES In(log') /\ In(ck'.recs) /\ \A c \in Conns : In(pending'[c])
  BY DEF RecordsNumbered, InRange
<1>2. /\ InRange(log) /\ InRange(ck.recs) /\ (\A c \in Conns : InRange(pending[c]))
      /\ log \in Seq(Records) /\ schema \in Seq(Records) /\ ck.recs \in Seq(Records)
      /\ pending \in [Conns -> Seq(RowRecords)] /\ vals \in 0..MaxVal /\ MaxVal \in Nat
  BY Typed DEF IInv, RecordsNumbered
<1>3. ASSUME NEW l \in Seq(Records), NEW m \in Seq(Records), In(l), In(m)
      PROVE  In(l \o m)
  <2>1. ASSUME NEW i \in 1..Len(l \o m)
        PROVE  (\E j \in 1..Len(l) : (l \o m)[i] = l[j]) \/ (\E j \in 1..Len(m) : (l \o m)[i] = m[j])
    <3>1. Len(l) \in Nat /\ Len(m) \in Nat /\ Len(l \o m) = Len(l) + Len(m)
      OBVIOUS
    <3>2. CASE i <= Len(l)
      <4>1. i \in 1..Len(l) /\ (l \o m)[i] = l[i]
        BY <3>1, <3>2
      <4>2. QED
        BY <4>1
    <3>3. CASE i > Len(l)
      <4>1. i - Len(l) \in 1..Len(m) /\ (l \o m)[i] = m[i - Len(l)]
        BY <3>1, <3>3
      <4>2. QED
        BY <4>1
    <3>4. QED
      BY <3>1, <3>2, <3>3
  <2>2. QED
    BY <1>3, <2>1
<1>4. ASSUME NEW l \in Seq(Records), \A i \in 1..Len(l) : isDDL(l[i]) PROVE In(l)
  BY <1>4 DEF isDDL
<1>5. In(<<>>)
  OBVIOUS
<1>6. ASSUME NEW rec, rec.op = "insert" => rec.id \in 1..vals' /\ rec.val \in 1..vals'
      PROVE  In(<<rec>>)
  <2>1. PICK m : m = <<rec>>
    OBVIOUS
  <2>2. Len(m) = 1 /\ m[1] = rec
    BY <2>1
  <2>3. In(m)
    BY <1>6, <2>2
  <2>4. QED
    BY <2>1, <2>3
<1>7. ASSUME vals' = vals \/ vals' = vals + 1
      PROVE  /\ In(log) /\ In(ck.recs) /\ In(schema)
             /\ \A c \in Conns : In(pending[c])
  <2>1. 1..vals \subseteq 1..vals'
    BY <1>2, <1>7
  <2>2. \A l : InRange(l) => In(l)
    BY <2>1 DEF InRange
  <2>3. In(schema)
    BY <1>2, <1>4 DEF IInv, Shapes
  <2> HIDE DEF In
  <2>4. QED
    BY <1>2, <2>2, <2>3
<1> HIDE DEF In
<1>8. ASSUME NEW c \in Conns, Begin(c) \/ Commit(c) \/ Rollback(c) \/ RememberSchema(c)
      PROVE  In(log') /\ In(ck'.recs) /\ \A d \in Conns : In(pending'[d])
  <2>1. log' = log /\ ck' = ck /\ vals' = vals
        /\ (pending' = pending \/ pending' = [pending EXCEPT ![c] = <<>>])
    BY <1>8 DEF Begin, Commit, Rollback, finish, RememberSchema, logVars
  <2>2. QED
    BY <1>2, <1>5, <1>7, <2>1
<1>9. ASSUME NEW c \in Conns, NEW rec \in RowRecords, log' = log, ck' = ck, vals' = vals \/ vals' = vals + 1,
             pending' = [pending EXCEPT ![c] = Append(@, rec)] \/ pending' = pending,
             rec.op = "insert" => rec.id \in 1..vals' /\ rec.val \in 1..vals'
      PROVE  In(log') /\ In(ck'.recs) /\ \A d \in Conns : In(pending'[d])
  <2>1. In(log) /\ In(ck.recs) /\ \A d \in Conns : In(pending[d])
    BY <1>7, <1>9
  <2>2. In(Append(pending[c], rec))
    <3>1. PICK p, m : p = pending[c] /\ m = <<rec>>
      OBVIOUS
    <3>2. rec \in Records /\ p \in Seq(Records)
      BY <1>2, <3>1, SeqMonotonic DEF RowRecords
    <3>3. m \in Seq(Records) /\ Append(p, rec) = p \o m
      BY <3>1, <3>2
    <3>4. In(p) /\ In(m)
      BY <1>6, <1>9, <2>1, <3>1
    <3>5. In(p \o m)
      BY <1>3, <3>2, <3>3, <3>4
    <3>6. QED
      BY <3>1, <3>3, <3>5
  <2>3. QED
    BY <1>2, <1>9, <2>1, <2>2
<1>10. ASSUME NEW c \in Conns, NEW t \in Tables, Insert(c, t)
       PROVE  In(log') /\ In(ck'.recs) /\ \A d \in Conns : In(pending'[d])
  <2>1. nextRow[t] \in 1..(vals + 1) /\ vals' = vals + 1 /\ vals + 1 <= MaxVal
    BY <1>10, InsertRow
  <2>2. PICK rec : rec = InsertRecord(tname[t], nextRow[t], vals + 1)
    OBVIOUS
  <2>3. rec.op = "insert" /\ rec.id = nextRow[t] /\ rec.val = vals + 1
    BY <2>2 DEF InsertRecord
  <2>4. rec \in RowRecords
    <3>1. tname[t] \in TableNames /\ nextRow[t] \in 0..MaxVal /\ vals + 1 \in 0..MaxVal
      BY <1>2, <2>1, Typed
    <3>2. QED
      BY <2>2, <3>1 DEF InsertRecord, RowRecords, Records
  <2>5. /\ log' = log /\ ck' = ck
        /\ pending' = [pending EXCEPT ![c] = Append(@, rec)] \/ pending' = pending
    BY <1>10, <2>2 DEF Insert, logVars, buffer
  <2>6. vals + 1 \in 1..(vals + 1)
    BY <1>2
  <2>7. QED
    BY <1>9, <2>1, <2>3, <2>4, <2>5, <2>6
<1>11. ASSUME NEW c \in Conns, NEW v \in rows, Delete(c, v)
       PROVE  In(log') /\ In(ck'.recs) /\ \A d \in Conns : In(pending'[d])
  <2>1. v \in [table : 1..tables, id : 1..MaxVal, val : 1..MaxVal, xmin : TxIds, xmax : TxIds \cup {NoTx}]
    BY <1>11, DeleteRow
  <2>2. PICK rec : rec = DeleteRecord(tname[v.table], v.id)
    OBVIOUS
  <2>3. rec.op = "delete"
    BY <2>2 DEF DeleteRecord
  <2>4. rec \in RowRecords
    <3>1. v.table \in Tables
      BY <2>1, Typed DEF Tables
    <3>2. tname[v.table] \in TableNames /\ v.id \in 0..MaxVal /\ 0 \in 0..MaxVal
      BY <1>2, <2>1, <3>1, Typed
    <3>3. QED
      BY <2>2, <3>2 DEF DeleteRecord, RowRecords, Records
  <2>5. /\ log' = log /\ ck' = ck /\ vals' = vals
        /\ pending' = [pending EXCEPT ![c] = Append(@, rec)] \/ pending' = pending
    BY <1>11, <2>2 DEF Delete, logVars, buffer
  <2>6. QED
    BY <1>9, <2>3, <2>4, <2>5
<1>12. ASSUME NEW c \in Conns, Flush(c)
       PROVE  In(log') /\ In(ck'.recs) /\ \A d \in Conns : In(pending'[d])
  <2>1. /\ pending' = [pending EXCEPT ![c] = <<>>] /\ ck' = ck /\ vals' = vals
        /\ log' = log \o pending[c] \/ log' = log
    BY <1>12, FlushSettles
  <2>2. In(log) /\ In(ck.recs) /\ \A d \in Conns : In(pending[d])
    BY <1>7, <2>1
  <2>3. pending[c] \in Seq(Records)
    BY <1>2, SeqMonotonic DEF RowRecords
  <2>4. In(log')
    BY <1>2, <1>3, <2>1, <2>2, <2>3
  <2>5. QED
    BY <1>2, <1>5, <2>1, <2>2, <2>4
<1>13. ASSUME NEW c \in Conns, Ddl3(c)
       PROVE  In(log') /\ In(ck'.recs) /\ \A d \in Conns : In(pending'[d])
  <2>1. log' = log /\ ck' = ck /\ vals' = vals
    BY <1>13, DdlBegins DEF logVars
  <2>2. In(log) /\ In(ck.recs) /\ \A d \in Conns : In(pending[d])
    BY <1>7, <2>1
  <2>3. PICK q, h : q \in Seq(RowRecords) /\ pending' = [pending EXCEPT ![c] = q] /\ Retold(q, h, pending[c])
    BY <1>13, DdlBuffers
  <2>4. In(q)
    BY <2>2, <2>3 DEF Retold, In
  <2>5. QED
    BY <1>2, <2>1, <2>2, <2>3, <2>4
<1>14. ASSUME NEW c \in Conns, LogNow(c)
       PROVE  In(log') /\ In(ck'.recs) /\ \A d \in Conns : In(pending'[d])
  <2>1. /\ pending' = pending /\ ck' = ck /\ vals' = vals /\ stmt[c] \in DdlRecords
        /\ log' = Append(log, stmt[c]) \/ log' = log
    BY <1>14, Logs
  <2>2. In(log) /\ In(ck.recs) /\ \A d \in Conns : In(pending[d])
    BY <1>7, <2>1
  <2>3. PICK m : m = <<stmt[c]>>
    OBVIOUS
  <2>4. stmt[c] \in Records /\ isDDL(stmt[c])
    BY <2>1 DEF DdlRecords
  <2>5. m \in Seq(Records) /\ Append(log, stmt[c]) = log \o m
    BY <1>2, <2>3, <2>4
  <2>6. In(m)
    BY <1>6, <2>3, <2>4 DEF isDDL
  <2>7. QED
    BY <1>2, <1>3, <2>1, <2>2, <2>5, <2>6
<1>15. CASE Checkpointing
  <2>1. pending' = pending /\ vals' = vals
    BY <1>15, CheckpointAlone DEF connVars
  <2>2. In(log) /\ In(ck.recs) /\ In(schema) /\ \A d \in Conns : In(pending[d])
    BY <1>7, <2>1
  <2>3. In(log')
    BY <1>15, <2>2, InstallsCopy
  <2>4. ck \in [pc : {"none", "schema", "scan", "install", "detach", "release", "closed"},
                closing : BOOLEAN, snap : SUBSET TxIds, recs : Seq(Records)]
    BY DEF IInv, Shapes
  <2>5. CASE CheckpointScan
    <3>1. PICK q \in Seq(RowRecords) :
            /\ ck' = [ck EXCEPT !.pc = "install", !.recs = schema \o q]
            /\ \A i \in 1..Len(q) : \E v \in rows :
                 q[i].op = "insert" /\ q[i].id = v.id /\ q[i].val = v.val /\ v.xmin \in SettledTx
      BY <2>5, ScanCopies
    <3>2. In(q)
      <4>1. SUFFICES ASSUME NEW i \in 1..Len(q) PROVE q[i].id \in 1..vals' /\ q[i].val \in 1..vals'
        BY DEF In
      <4>2. PICK w \in rows : q[i].id = w.id /\ q[i].val = w.val
        BY <3>1
      <4>3. w.id \in 1..MaxVal /\ w.val \in 1..MaxVal /\ w.id <= vals /\ w.val <= vals
        BY DEF IInv, TypeOK, Numbered
      <4>4. QED
        BY <1>2, <2>1, <4>2, <4>3
    <3>3. q \in Seq(Records)
      BY SeqMonotonic DEF RowRecords
    <3>4. ck'.recs = schema \o q
      BY <2>4, <3>1
    <3>5. In(schema \o q)
      BY <1>2, <1>3, <2>2, <3>2, <3>3
    <3>6. QED
      BY <2>1, <2>2, <2>3, <3>4, <3>5
  <2>6. CASE ~CheckpointScan
    <3>1. ck'.recs = ck.recs \/ ck'.recs = schema \/ ck'.recs = <<>>
      BY <1>15, <2>6, OtherRecs
    <3>2. QED
      BY <1>5, <2>1, <2>2, <2>3, <3>1
  <2>7. QED
    BY <2>5, <2>6
<1>16. CASE Restart
  <2>1. log' = log /\ vals' = vals /\ ck'.recs = <<>> /\ pending' = [d \in Conns |-> <<>>]
    BY <1>16 DEF Restart, NoCheckpoint, NoConn
  <2>2. QED
    BY <1>5, <1>7, <2>1
<1>17. CASE UNCHANGED vars
  <2>1. log' = log /\ vals' = vals /\ ck' = ck /\ pending' = pending
    BY <1>17 DEF vars, connVars, logVars
  <2>2. QED
    BY <1>7, <2>1
<1>18. QED
  BY <1>8, <1>10, <1>11, <1>12, <1>13, <1>14, <1>15, <1>16, <1>17, NextCases DEF Working

(***************************************************************************)
(* Buffered is preserved.                                                  *)
(***************************************************************************)
LEMMA StepBuffered == Careful /\ IInv /\ [Next]_vars => Buffered'
<1> SUFFICES ASSUME Careful, IInv, [Next]_vars PROVE Buffered'
  OBVIOUS
<1> DEFINE Ins(d, rec, v) == rec.op = "insert" /\ v.table = cat'[rec.name] /\ v.id = rec.id
                             /\ v.val = rec.val /\ v.xmin = tx'[d]
           Del(d, rec, v) == rec.op = "delete" /\ v.table = cat'[rec.name] /\ v.id = rec.id
                             /\ v.xmax = tx'[d]
           A(d) == \A i \in 1..Len(pending'[d]) :
                     /\ cat'[pending'[d][i].name] # NoTable
                     /\ \E v \in rows' : Ins(d, pending'[d][i], v) \/ Del(d, pending'[d][i], v)
           B(d) == Orderly(pending'[d])
           C(d) == step'[d] \in {"ready", "remember", "log"} /\ tx'[d] # NoTx =>
                     \A v \in rows' : v.table \in Live' =>
                       /\ v.xmin = tx'[d] => \E i \in 1..Len(pending'[d]) : Ins(d, pending'[d][i], v)
                       /\ v.xmax = tx'[d] => \E i \in 1..Len(pending'[d]) : Del(d, pending'[d][i], v)
           Good(d) == A(d) /\ B(d) /\ C(d)
<1>1. SUFFICES \A d \in Conns : Good(d)
  BY DEF Buffered, BufferedRows, Insertion, Deletion
<1>2. /\ pending \in [Conns -> Seq(RowRecords)] /\ tx \in [Conns -> TxIds \cup {NoTx}]
      /\ step \in [Conns -> {"ready", "failed", "flushed", "remember", "log"}]
      /\ cat \in [TableNames -> Tables \cup {NoTable}] /\ tname \in [Tables -> TableNames]
      /\ tables \in 0..MaxTable /\ MaxTable \in Nat
      /\ \A n \in TableNames : cat[n] # NoTable => tname[cat[n]] = n /\ cat[n] <= tables
  BY Typed DEF IInv, TypeOK
<1>3. ASSUME NEW d \in Conns
      PROVE  /\ \A i \in 1..Len(pending[d]) :
                  /\ cat[pending[d][i].name] # NoTable
                  /\ \E v \in rows : Insertion(d, pending[d][i], v) \/ Deletion(d, pending[d][i], v)
             /\ Orderly(pending[d])
             /\ step[d] \in {"ready", "remember", "log"} /\ tx[d] # NoTx =>
                  \A v \in rows : v.table \in Live =>
                    /\ v.xmin = tx[d] => \E i \in 1..Len(pending[d]) : Insertion(d, pending[d][i], v)
                    /\ v.xmax = tx[d] => \E i \in 1..Len(pending[d]) : Deletion(d, pending[d][i], v)
  BY DEF IInv, Buffered, BufferedRows
<1>4. ASSUME NEW d \in Conns, pending'[d] = <<>>, tx'[d] = NoTx \/ step'[d] \in {"flushed", "failed"}
      PROVE  Good(d)
  BY <1>4 DEF Orderly
<1>5. ASSUME NEW d \in Conns, cat' = cat, rows' = rows, pending'[d] = pending[d], tx'[d] = tx[d],
             step'[d] \in {"ready", "remember", "log"} => step[d] \in {"ready", "remember", "log"}
      PROVE  Good(d)
  <2>1. Live' = Live
    BY <1>5 DEF Live
  <2>2. QED
    BY <1>3, <1>5, <2>1 DEF Insertion, Deletion
<1>6. ASSUME NEW c \in Conns, Begin(c), NEW d \in Conns PROVE Good(d)
  <2>1. /\ tx[c] = NoTx /\ pending[c] = <<>> /\ tx' = [tx EXCEPT ![c] = nextTx]
        /\ cat' = cat /\ rows' = rows /\ pending' = pending /\ step' = step
    BY <1>6, Begins DEF catVars
  <2>2. CASE d # c
    <3>1. pending'[d] = pending[d] /\ tx'[d] = tx[d] /\ step'[d] = step[d]
      BY <1>2, <2>1, <2>2
    <3> HIDE DEF Good
    <3>2. QED
      BY <1>5, <2>1, <3>1
  <2>3. CASE d = c
    <3>1. tx'[d] = nextTx /\ pending'[d] = <<>>
      BY <1>2, <2>1, <2>3
    <3>2. \A v \in rows' : v.xmin # tx'[d] /\ v.xmax # tx'[d]
      <4>1. \A v \in rows : v.xmin < nextTx /\ v.xmax < nextTx
        BY DEF IInv, Numbered
      <4>2. ~(nextTx < nextTx)
        BY Typed
      <4>3. QED
        BY <2>1, <3>1, <4>1, <4>2
    <3>3. QED
      BY <3>1, <3>2 DEF Orderly
  <2>4. QED
    BY <2>2, <2>3
<1>7. ASSUME NEW c \in Conns, NEW t \in Tables, Insert(c, t), NEW d \in Conns PROVE Good(d)
  <2> DEFINE x == NewRow(c, t)
             rec == InsertRecord(tname[t], nextRow[t], vals + 1)
  <2>1. /\ rows' = rows \cup {x}
        /\ t \in 1..tables /\ tx[c] \in TxIds
        /\ x.table = t /\ x.id = nextRow[t] /\ x.val = vals + 1 /\ x.xmin = tx[c] /\ x.xmax = NoTx
        /\ \A v \in rows : v.table = t => v.id < nextRow[t]
    BY <1>7, InsertRow
  <2>2. /\ cat' = cat /\ tx' = tx /\ step' = step /\ tx[c] # NoTx
        /\ pending' = IF journaled[c] THEN [pending EXCEPT ![c] = Append(@, rec)] ELSE pending
        /\ t \in Bound
    BY <1>7 DEF Insert, catVars, buffer, Ready
  <2>3. pending' = [pending EXCEPT ![c] = Append(@, rec)] /\ \A e \in Conns : tx[e] = tx[c] => e = c
    BY <2>2 DEF IInv, Turns
  <2>4. cat[tname[t]] = t /\ tname[t] \in TableNames /\ t # NoTable
    <3>1. PICK n \in TableNames : cat[n] = t
      BY <2>2 DEF Bound, Careful
    <3>2. t # NoTable
      BY <2>1 DEF NoTable
    <3>3. QED
      BY <1>2, <3>1, <3>2
  <2>5. rec.op = "insert" /\ rec.name = tname[t] /\ rec.id = nextRow[t] /\ rec.val = vals + 1
    BY DEF InsertRecord
  <2>6. Live' = Live
    BY <2>2 DEF Live
  <2> HIDE DEF x, rec
  <2>7. CASE d # c
    <3>1. pending'[d] = pending[d] /\ tx'[d] = tx[d] /\ step'[d] = step[d]
      BY <1>2, <2>2, <2>3, <2>7
    <3>2. tx[d] # NoTx => x.xmin # tx[d] /\ x.xmax # tx[d]
      BY <2>1, <2>3, <2>7
    <3>3. A(d)
      <4>1. SUFFICES ASSUME NEW i \in 1..Len(pending[d])
                     PROVE  /\ cat'[pending[d][i].name] # NoTable
                            /\ \E w \in rows' : Ins(d, pending[d][i], w) \/ Del(d, pending[d][i], w)
        BY <3>1
      <4>2. PICK w \in rows : Insertion(d, pending[d][i], w) \/ Deletion(d, pending[d][i], w)
        BY <1>3
      <4>3. w \in rows'
        BY <2>1
      <4>4. Ins(d, pending[d][i], w) \/ Del(d, pending[d][i], w)
        BY <2>2, <4>2 DEF Insertion, Deletion
      <4> HIDE DEF Ins, Del
      <4>5. QED
        BY <1>3, <2>2, <4>3, <4>4
    <3>4. B(d)
      BY <1>3, <3>1
    <3>5. C(d)
      <4>1. SUFFICES ASSUME step[d] \in {"ready", "remember", "log"}, tx[d] # NoTx,
                            NEW w \in rows', w.table \in Live
                     PROVE  /\ w.xmin = tx[d] => \E i \in 1..Len(pending[d]) : Ins(d, pending[d][i], w)
                            /\ w.xmax = tx[d] => \E i \in 1..Len(pending[d]) : Del(d, pending[d][i], w)
        BY <2>6, <3>1
      <4>2. CASE w \in rows
        <5>1. /\ w.xmin = tx[d] => \E i \in 1..Len(pending[d]) : Insertion(d, pending[d][i], w)
              /\ w.xmax = tx[d] => \E i \in 1..Len(pending[d]) : Deletion(d, pending[d][i], w)
          BY <1>3, <4>1, <4>2
        <5>2. QED
          BY <2>2, <5>1 DEF Insertion, Deletion
      <4>3. CASE w = x
        BY <3>2, <4>1, <4>3
      <4>4. QED
        BY <2>1, <4>1, <4>2, <4>3
    <3>6. QED
      BY <3>3, <3>4, <3>5
  <2>8. CASE d = c
    <3> DEFINE p == pending[c]
               q == pending'[c]
    <3>1. p \in Seq(RowRecords) /\ q = Append(p, rec)
      BY <1>2, <2>3
    <3>2. Len(p) \in Nat /\ Len(q) = Len(p) + 1 /\ (\A i \in 1..Len(p) : q[i] = p[i]) /\ q[Len(p) + 1] = rec
      BY <3>1
    <3>2a. \A i \in 1..Len(q) : (i \in 1..Len(p) /\ q[i] = p[i]) \/ (i = Len(p) + 1 /\ q[i] = rec)
      BY <3>2
    <3>2b. 1..Len(p) \subseteq 1..Len(q) /\ Len(p) + 1 \in 1..Len(q)
      BY <3>2
    <3>3. /\ \A i \in 1..Len(p) :
               /\ cat[p[i].name] # NoTable
               /\ \E v \in rows : Insertion(c, p[i], v) \/ Deletion(c, p[i], v)
          /\ Orderly(p)
          /\ step[c] \in {"ready", "remember", "log"} /\ tx[c] # NoTx =>
               \A v \in rows : v.table \in Live =>
                 /\ v.xmin = tx[c] => \E i \in 1..Len(p) : Insertion(c, p[i], v)
                 /\ v.xmax = tx[c] => \E i \in 1..Len(p) : Deletion(c, p[i], v)
      BY <1>3
    <3> HIDE DEF p, q
    <3>4. Ins(c, rec, x)
      BY <2>1, <2>2, <2>4, <2>5
    <3>5. \A i \in 1..Len(q) :
            cat'[q[i].name] # NoTable /\ \E v \in rows' : Ins(c, q[i], v) \/ Del(c, q[i], v)
      <4>1. \A i \in 1..Len(p) :
              cat'[p[i].name] # NoTable /\ \E v \in rows' : Ins(c, p[i], v) \/ Del(c, p[i], v)
        BY <2>1, <2>2, <3>3 DEF Insertion, Deletion
      <4>2. cat'[rec.name] # NoTable /\ \E v \in rows' : Ins(c, rec, v)
        BY <2>1, <2>2, <2>4, <2>5, <3>4
      <4>3. QED
        BY <3>2a, <4>1, <4>2
    <3>6. Orderly(q)
      <4>1. ASSUME NEW i \in 1..Len(p) PROVE ~(p[i].name = rec.name /\ p[i].id = rec.id)
        <5>1. PICK v \in rows : v.table = cat[p[i].name] /\ v.id = p[i].id
          BY <3>3 DEF Insertion, Deletion
        <5>2. v.table = t => v.id # nextRow[t]
          <6>1. v.table = t => v.id < nextRow[t]
            BY <2>1
          <6>2. nextRow[t] \in Nat
            BY Typed
          <6>3. ~(nextRow[t] < nextRow[t])
            BY <6>2
          <6>4. QED
            BY <6>1, <6>3
        <5>3. QED
          BY <2>4, <2>5, <5>1, <5>2
      <4>2. \A i \in 1..Len(p) : i < Len(p) + 1 /\ ~(Len(p) + 1 < i) /\ ~(Len(p) + 1 < Len(p) + 1)
        BY <3>2
      <4>3. ~(Len(p) + 1 < Len(p) + 1)
        BY <3>2
      <4> SUFFICES ASSUME NEW i \in 1..Len(q), NEW j \in 1..Len(q), i < j,
                          q[i].name = q[j].name, q[i].id = q[j].id
                   PROVE  q[i].op = "insert" /\ q[j].op = "delete"
        BY DEF Orderly
      <4>4. CASE j \in 1..Len(p) /\ q[j] = p[j] /\ i \in 1..Len(p) /\ q[i] = p[i]
        BY <3>3, <4>4 DEF Orderly
      <4>5. QED
        BY <3>2a, <4>1, <4>2, <4>3, <4>4
    <3>7. C(c)
      <4>1. SUFFICES ASSUME step'[c] \in {"ready", "remember", "log"}, tx'[c] # NoTx,
                            NEW v \in rows', v.table \in Live'
                     PROVE  /\ v.xmin = tx'[c] => \E i \in 1..Len(q) : Ins(c, q[i], v)
                            /\ v.xmax = tx'[c] => \E i \in 1..Len(q) : Del(c, q[i], v)
        BY DEF q
      <4>2. CASE v \in rows
        <5>1. /\ v.xmin = tx[c] => \E i \in 1..Len(p) : Insertion(c, p[i], v)
              /\ v.xmax = tx[c] => \E i \in 1..Len(p) : Deletion(c, p[i], v)
          BY <2>2, <2>6, <3>3, <4>1, <4>2
        <5>2. QED
          BY <2>2, <3>2, <3>2b, <5>1 DEF Insertion, Deletion
      <4>3. CASE v = x
        BY <2>1, <2>2, <3>2, <3>2b, <3>4, <4>3
      <4>4. QED
        BY <2>1, <4>1, <4>2, <4>3
    <3>8. QED
      BY <2>8, <3>5, <3>6, <3>7 DEF q
  <2>9. QED
    BY <2>7, <2>8
<1>8. ASSUME NEW c \in Conns, NEW v \in rows, Delete(c, v), NEW d \in Conns PROVE Good(d)
  <2> DEFINE x == Gone(c, v)
             rec == DeleteRecord(tname[v.table], v.id)
  <2>1. /\ rows' = (rows \ {v}) \cup {x} /\ tx[c] \in TxIds
        /\ v \in [table : 1..tables, id : 1..MaxVal, val : 1..MaxVal, xmin : TxIds, xmax : TxIds \cup {NoTx}]
        /\ x.table = v.table /\ x.id = v.id /\ x.val = v.val /\ x.xmin = v.xmin /\ x.xmax = tx[c]
        /\ v.xmax # tx[c] /\ (v.xmax # NoTx => status[v.xmax] = "Aborted")
    BY <1>8, DeleteRow
  <2>2. /\ cat' = cat /\ tx' = tx /\ step' = step /\ tx[c] # NoTx
        /\ pending' = IF journaled[c] THEN [pending EXCEPT ![c] = Append(@, rec)] ELSE pending
        /\ v.table \in Bound
    BY <1>8 DEF Delete, catVars, buffer, Ready
  <2>3. pending' = [pending EXCEPT ![c] = Append(@, rec)] /\ \A e \in Conns : tx[e] = tx[c] => e = c
    BY <2>2 DEF IInv, Turns
  <2>4. cat[tname[v.table]] = v.table /\ tname[v.table] \in TableNames /\ v.table # NoTable
    <3>1. PICK n \in TableNames : cat[n] = v.table
      BY <2>2 DEF Bound, Careful
    <3>2. v.table # NoTable
      BY <2>1 DEF NoTable
    <3>3. QED
      BY <1>2, <3>1, <3>2
  <2>5. rec.op = "delete" /\ rec.name = tname[v.table] /\ rec.id = v.id
    BY DEF DeleteRecord
  <2>6. Live' = Live
    BY <2>2 DEF Live
  <2>7. \A w \in rows : w.table = v.table /\ w.id = v.id => w = v
    BY DEF IInv, Numbered
  <2> HIDE DEF x, rec
  <2>8. CASE d # c
    <3>1. pending'[d] = pending[d] /\ tx'[d] = tx[d] /\ step'[d] = step[d]
      BY <1>2, <2>2, <2>3, <2>8
    <3>2. tx[d] # NoTx => v.xmax # tx[d] /\ x.xmax # tx[d]
      <4>1. tx[d] # NoTx => status[tx[d]] = "InProgress"
        BY DEF IInv, Turns
      <4>2. QED
        BY <2>1, <2>3, <2>8, <4>1
    <3>3. A(d)
      <4>1. SUFFICES ASSUME NEW i \in 1..Len(pending[d])
                     PROVE  /\ cat'[pending[d][i].name] # NoTable
                            /\ \E w \in rows' : Ins(d, pending[d][i], w) \/ Del(d, pending[d][i], w)
        BY <3>1
      <4>2. PICK w \in rows : Insertion(d, pending[d][i], w) \/ Deletion(d, pending[d][i], w)
        BY <1>3
      <4>3. tx[d] # NoTx
        <5>1. pending[d] # <<>>
          BY <4>1
        <5>2. QED
          BY <5>1 DEF IInv, Turns
      <4>4. CASE w = v
        <5>1. Insertion(d, pending[d][i], v)
          BY <3>2, <4>2, <4>3, <4>4 DEF Deletion
        <5>2. Ins(d, pending[d][i], x)
          BY <2>1, <2>2, <5>1 DEF Insertion
        <5>3. QED
          BY <1>3, <2>1, <2>2, <5>2
      <4>5. CASE w # v
        <5>1. w \in rows'
          BY <2>1, <4>5
        <5>2. QED
          BY <1>3, <2>2, <4>2, <5>1 DEF Insertion, Deletion
      <4>6. QED
        BY <4>4, <4>5
    <3>4. B(d)
      BY <1>3, <3>1
    <3>5. C(d)
      <4>1. SUFFICES ASSUME step[d] \in {"ready", "remember", "log"}, tx[d] # NoTx,
                            NEW w \in rows', w.table \in Live
                     PROVE  /\ w.xmin = tx[d] => \E i \in 1..Len(pending[d]) : Ins(d, pending[d][i], w)
                            /\ w.xmax = tx[d] => \E i \in 1..Len(pending[d]) : Del(d, pending[d][i], w)
        BY <2>6, <3>1
      <4>2. CASE w \in rows
        <5>1. /\ w.xmin = tx[d] => \E i \in 1..Len(pending[d]) : Insertion(d, pending[d][i], w)
              /\ w.xmax = tx[d] => \E i \in 1..Len(pending[d]) : Deletion(d, pending[d][i], w)
          BY <1>3, <4>1, <4>2
        <5>2. QED
          BY <2>2, <5>1 DEF Insertion, Deletion
      <4>3. CASE w = x
        <5>1. w.xmax # tx[d] /\ v.table \in Live /\ w.xmin = v.xmin
          BY <2>1, <3>2, <4>1, <4>3
        <5>2. v.xmin = tx[d] => \E i \in 1..Len(pending[d]) : Insertion(d, pending[d][i], v)
          BY <1>3, <4>1, <5>1
        <5>3. ASSUME NEW i \in 1..Len(pending[d]), Insertion(d, pending[d][i], v)
              PROVE  Ins(d, pending[d][i], w)
          BY <2>1, <2>2, <4>3, <5>3 DEF Insertion
        <5> HIDE DEF Ins
        <5>4. QED
          BY <5>1, <5>2, <5>3
      <4>4. QED
        BY <2>1, <4>1, <4>2, <4>3
    <3>6. QED
      BY <3>3, <3>4, <3>5
  <2>9. CASE d = c
    <3> DEFINE p == pending[c]
               q == pending'[c]
    <3>1. p \in Seq(RowRecords) /\ q = Append(p, rec)
      BY <1>2, <2>3
    <3>2. Len(p) \in Nat /\ Len(q) = Len(p) + 1 /\ (\A i \in 1..Len(p) : q[i] = p[i]) /\ q[Len(p) + 1] = rec
      BY <3>1
    <3>2a. \A i \in 1..Len(q) : (i \in 1..Len(p) /\ q[i] = p[i]) \/ (i = Len(p) + 1 /\ q[i] = rec)
      BY <3>2
    <3>2b. 1..Len(p) \subseteq 1..Len(q) /\ Len(p) + 1 \in 1..Len(q)
      BY <3>2
    <3>3. /\ \A i \in 1..Len(p) :
               /\ cat[p[i].name] # NoTable
               /\ \E w \in rows : Insertion(c, p[i], w) \/ Deletion(c, p[i], w)
          /\ Orderly(p)
          /\ step[c] \in {"ready", "remember", "log"} /\ tx[c] # NoTx =>
               \A w \in rows : w.table \in Live =>
                 /\ w.xmin = tx[c] => \E i \in 1..Len(p) : Insertion(c, p[i], w)
                 /\ w.xmax = tx[c] => \E i \in 1..Len(p) : Deletion(c, p[i], w)
      BY <1>3
    <3> HIDE DEF p, q
    <3>4. Del(c, rec, x)
      BY <2>1, <2>2, <2>4, <2>5
    <3>5. \A i \in 1..Len(q) :
            cat'[q[i].name] # NoTable /\ \E w \in rows' : Ins(c, q[i], w) \/ Del(c, q[i], w)
      <4>1. ASSUME NEW i \in 1..Len(p)
            PROVE  cat'[p[i].name] # NoTable /\ \E w \in rows' : Ins(c, p[i], w) \/ Del(c, p[i], w)
        <5>1. PICK w \in rows : Insertion(c, p[i], w) \/ Deletion(c, p[i], w)
          BY <3>3
        <5>2. CASE w = v
          <6>1. Insertion(c, p[i], v)
            BY <2>1, <5>1, <5>2 DEF Deletion
          <6>2. Ins(c, p[i], x)
            BY <2>1, <2>2, <6>1 DEF Insertion
          <6>3. QED
            BY <2>1, <2>2, <3>3, <6>2
        <5>3. CASE w # v
          <6>1. w \in rows'
            BY <2>1, <5>3
          <6>2. QED
            BY <2>2, <3>3, <5>1, <6>1 DEF Insertion, Deletion
        <5>4. QED
          BY <5>2, <5>3
      <4>2. cat'[rec.name] # NoTable /\ \E w \in rows' : Del(c, rec, w)
        BY <2>1, <2>2, <2>4, <2>5, <3>4
      <4>3. QED
        BY <3>2a, <4>1, <4>2
    <3>6. Orderly(q)
      <4>1. ASSUME NEW i \in 1..Len(p), p[i].name = rec.name, p[i].id = rec.id
            PROVE  p[i].op = "insert"
        <5>1. PICK w \in rows : Insertion(c, p[i], w) \/ Deletion(c, p[i], w)
          BY <3>3
        <5>2. w = v
          BY <2>4, <2>5, <2>7, <4>1, <5>1 DEF Insertion, Deletion
        <5>3. QED
          BY <2>1, <5>1, <5>2 DEF Insertion, Deletion
      <4>2. \A i \in 1..Len(p) : ~(Len(p) + 1 < i)
        BY <3>2
      <4>3. ~(Len(p) + 1 < Len(p) + 1)
        BY <3>2
      <4> SUFFICES ASSUME NEW i \in 1..Len(q), NEW j \in 1..Len(q), i < j,
                          q[i].name = q[j].name, q[i].id = q[j].id
                   PROVE  q[i].op = "insert" /\ q[j].op = "delete"
        BY DEF Orderly
      <4>4. CASE j \in 1..Len(p) /\ q[j] = p[j] /\ i \in 1..Len(p) /\ q[i] = p[i]
        BY <3>3, <4>4 DEF Orderly
      <4>5. CASE q[j] = rec /\ i \in 1..Len(p) /\ q[i] = p[i]
        BY <2>5, <4>1, <4>5
      <4>6. QED
        BY <3>2a, <4>2, <4>3, <4>4, <4>5
    <3>7. C(c)
      <4>1. SUFFICES ASSUME step'[c] \in {"ready", "remember", "log"}, tx'[c] # NoTx,
                            NEW w \in rows', w.table \in Live'
                     PROVE  /\ w.xmin = tx'[c] => \E i \in 1..Len(q) : Ins(c, q[i], w)
                            /\ w.xmax = tx'[c] => \E i \in 1..Len(q) : Del(c, q[i], w)
        BY DEF q
      <4>2. CASE w \in rows
        <5>1. /\ w.xmin = tx[c] => \E i \in 1..Len(p) : Insertion(c, p[i], w)
              /\ w.xmax = tx[c] => \E i \in 1..Len(p) : Deletion(c, p[i], w)
          BY <2>2, <2>6, <3>3, <4>1, <4>2
        <5>2. QED
          BY <2>2, <3>2, <3>2b, <5>1 DEF Insertion, Deletion
      <4>3. CASE w = x
        <5>1. v.xmin = tx[c] => \E i \in 1..Len(p) : Insertion(c, p[i], v)
          BY <2>1, <2>2, <2>6, <3>3, <4>1, <4>3
        <5>2. w.xmin = tx'[c] => \E i \in 1..Len(q) : Ins(c, q[i], w)
          BY <2>1, <2>2, <3>2, <3>2b, <4>3, <5>1 DEF Insertion
        <5>3. \E i \in 1..Len(q) : Del(c, q[i], w)
          BY <3>2, <3>2b, <3>4, <4>3
        <5>4. QED
          BY <5>2, <5>3
      <4>4. QED
        BY <2>1, <4>1, <4>2, <4>3
    <3>8. QED
      BY <2>9, <3>5, <3>6, <3>7 DEF q
  <2>10. QED
    BY <2>8, <2>9
<1>9. ASSUME NEW c \in Conns, Flush(c), NEW d \in Conns PROVE Good(d)
  <2>1. /\ pending' = [pending EXCEPT ![c] = <<>>] /\ cat' = cat /\ rows' = rows /\ tx' = tx
        /\ \E x \in {"flushed", "failed"} : step' = [step EXCEPT ![c] = x]
    BY <1>9, FlushSettles DEF catVars, heapVars
  <2>2. CASE d = c
    <3>1. pending'[d] = <<>> /\ step'[d] \in {"flushed", "failed"}
      BY <1>2, <2>1, <2>2
    <3> HIDE DEF Good
    <3>2. QED
      BY <1>4, <3>1
  <2>3. CASE d # c
    <3>1. pending'[d] = pending[d] /\ step'[d] = step[d]
      BY <1>2, <2>1, <2>3
    <3> HIDE DEF Good
    <3>2. QED
      BY <1>5, <2>1, <3>1
  <2>4. QED
    BY <2>2, <2>3
<1>10. ASSUME NEW c \in Conns, Commit(c) \/ Rollback(c), NEW d \in Conns PROVE Good(d)
  <2>1. /\ tx' = [tx EXCEPT ![c] = NoTx] /\ step' = [step EXCEPT ![c] = "ready"]
        /\ pending' = [pending EXCEPT ![c] = <<>>] /\ cat' = cat /\ rows' = rows
    BY <1>10, Ends DEF catVars
  <2>2. CASE d = c
    <3>1. pending'[d] = <<>> /\ tx'[d] = NoTx
      BY <1>2, <2>1, <2>2
    <3> HIDE DEF Good
    <3>2. QED
      BY <1>4, <3>1
  <2>3. CASE d # c
    <3>1. pending'[d] = pending[d] /\ step'[d] = step[d] /\ tx'[d] = tx[d]
      BY <1>2, <2>1, <2>3
    <3> HIDE DEF Good
    <3>2. QED
      BY <1>5, <2>1, <3>1
  <2>4. QED
    BY <2>2, <2>3
<1>11. ASSUME NEW c \in Conns, Ddl3(c), NEW d \in Conns PROVE Good(d)
  <2>1. /\ tx[c] # NoTx /\ step[c] = "ready" /\ tx' = tx /\ rows' = rows
        /\ \A e \in Conns \ {c} : tx[e] = NoTx
    BY <1>11, DdlBegins
  <2>2. PICK q, h : q \in Seq(RowRecords) /\ pending' = [pending EXCEPT ![c] = q] /\ Retold(q, h, pending[c])
    BY <1>11, DdlBuffers
  <2>3. CASE d # c
    <3>1. pending'[d] = <<>> /\ tx'[d] = NoTx
      BY <1>2, <2>1, <2>2, <2>3 DEF IInv, Turns
    <3> HIDE DEF Good
    <3>2. QED
      BY <1>4, <3>1
  <2>4. CASE d = c
    <3> DEFINE p == pending[c]
    <3>1. pending'[c] = q /\ p \in Seq(RowRecords)
      BY <1>2, <2>2
    <3>2. /\ \A i \in 1..Len(p) :
               /\ cat[p[i].name] # NoTable
               /\ \E v \in rows : Insertion(c, p[i], v) \/ Deletion(c, p[i], v)
          /\ Orderly(p)
          /\ \A v \in rows : v.table \in Live =>
               /\ v.xmin = tx[c] => \E i \in 1..Len(p) : Insertion(c, p[i], v)
               /\ v.xmax = tx[c] => \E i \in 1..Len(p) : Deletion(c, p[i], v)
      BY <1>3, <2>1
    <3>3. /\ h \in [1..Len(q) -> 1..Len(p)]
          /\ \A k \in 1..Len(q) : /\ q[k].op = p[h[k]].op /\ q[k].id = p[h[k]].id /\ q[k].val = p[h[k]].val
                                  /\ cat'[q[k].name] = cat[p[h[k]].name]
          /\ \A j, k \in 1..Len(q) : j < k => h[j] < h[k]
          /\ \A i \in 1..Len(p) : cat[p[i].name] \in Live' => \E k \in 1..Len(q) : h[k] = i
      BY <2>2 DEF Retold
    <3> HIDE DEF p
    <3>4. \A k \in 1..Len(q), v \in rows :
            /\ Insertion(c, p[h[k]], v) <=> Ins(c, q[k], v)
            /\ Deletion(c, p[h[k]], v) <=> Del(c, q[k], v)
      BY <2>1, <3>3 DEF Insertion, Deletion
    <3>5. \A k \in 1..Len(q) :
            cat'[q[k].name] # NoTable /\ \E v \in rows' : Ins(c, q[k], v) \/ Del(c, q[k], v)
      <4>1. SUFFICES ASSUME NEW k \in 1..Len(q)
                     PROVE  cat'[q[k].name] # NoTable /\ \E v \in rows : Ins(c, q[k], v) \/ Del(c, q[k], v)
        BY <2>1
      <4>2. h[k] \in 1..Len(p) /\ cat'[q[k].name] = cat[p[h[k]].name]
        BY <3>3
      <4>3. PICK v \in rows : Insertion(c, p[h[k]], v) \/ Deletion(c, p[h[k]], v)
        BY <3>2, <4>2
      <4> HIDE DEF Ins, Del
      <4>4. QED
        BY <3>2, <3>4, <4>2, <4>3
    <3>6. Orderly(q)
      <4>1. SUFFICES ASSUME NEW j \in 1..Len(q), NEW k \in 1..Len(q), j < k,
                            q[j].name = q[k].name, q[j].id = q[k].id
                     PROVE  q[j].op = "insert" /\ q[k].op = "delete"
        BY DEF Orderly
      <4>2. h[j] \in 1..Len(p) /\ h[k] \in 1..Len(p) /\ h[j] < h[k] /\ p[h[j]].id = p[h[k]].id
        BY <3>3, <4>1
      <4>3. cat[p[h[j]].name] = cat[p[h[k]].name] /\ cat[p[h[j]].name] # NoTable
        <5>1. cat'[q[j].name] = cat[p[h[j]].name] /\ cat'[q[k].name] = cat[p[h[k]].name]
          BY <3>3
        <5>2. cat[p[h[j]].name] # NoTable
          BY <3>2, <4>2
        <5>3. QED
          BY <4>1, <5>1, <5>2
      <4>4. p[h[j]].name = p[h[k]].name
        <5>1. p[h[j]] \in RowRecords /\ p[h[k]] \in RowRecords
          BY <3>1, <4>2 DEF p
        <5>2. p[h[j]].name \in TableNames /\ p[h[k]].name \in TableNames
          BY <5>1 DEF RowRecords, Records
        <5>3. QED
          BY <1>2, <4>3, <5>2
      <4>5. p[h[j]].op = "insert" /\ p[h[k]].op = "delete"
        BY <3>2, <4>2, <4>4 DEF Orderly
      <4>6. QED
        BY <3>3, <4>5
    <3>7. C(c)
      <4>1. SUFFICES ASSUME NEW v \in rows, v.table \in Live'
                     PROVE  /\ v.xmin = tx[c] => \E k \in 1..Len(q) : Ins(c, q[k], v)
                            /\ v.xmax = tx[c] => \E k \in 1..Len(q) : Del(c, q[k], v)
        BY <2>1, <3>1
      <4>2. v.table \in Live
        <5>1. v.table \in 1..tables
          BY DEF IInv, TypeOK
        <5>2. QED
          BY <1>11, <4>1, <5>1, DdlRuns
      <4>3. ASSUME v.xmin = tx[c] PROVE \E k \in 1..Len(q) : Ins(c, q[k], v)
        <5>1. PICK i \in 1..Len(p) : Insertion(c, p[i], v)
          BY <3>2, <4>2, <4>3
        <5>2. cat[p[i].name] \in Live'
          BY <4>1, <5>1 DEF Insertion
        <5>3. PICK k \in 1..Len(q) : h[k] = i
          BY <3>3, <5>2
        <5> HIDE DEF Ins
        <5>4. QED
          BY <3>4, <5>1, <5>3
      <4>4. ASSUME v.xmax = tx[c] PROVE \E k \in 1..Len(q) : Del(c, q[k], v)
        <5>1. PICK i \in 1..Len(p) : Deletion(c, p[i], v)
          BY <3>2, <4>2, <4>4
        <5>2. cat[p[i].name] \in Live'
          BY <4>1, <5>1 DEF Deletion
        <5>3. PICK k \in 1..Len(q) : h[k] = i
          BY <3>3, <5>2
        <5> HIDE DEF Del
        <5>4. QED
          BY <3>4, <5>1, <5>3
      <4>5. QED
        BY <4>3, <4>4
    <3>8. QED
      BY <2>4, <3>1, <3>5, <3>6, <3>7
  <2>5. QED
    BY <2>3, <2>4
<1>12. ASSUME NEW c \in Conns, RememberSchema(c) \/ LogNow(c), NEW d \in Conns PROVE Good(d)
  <2>1. /\ cat' = cat /\ rows' = rows /\ pending' = pending /\ tx' = tx
        /\ step[c] \in {"remember", "log"} /\ \E x : step' = [step EXCEPT ![c] = x]
    BY <1>12 DEF RememberSchema, LogNow, write, catVars, heapVars
  <2>2. step'[d] \in {"ready", "remember", "log"} => step[d] \in {"ready", "remember", "log"}
    BY <1>2, <2>1
  <2> HIDE DEF Good
  <2>3. QED
    BY <1>5, <2>1, <2>2
<1>13. ASSUME Checkpointing \/ UNCHANGED vars, NEW d \in Conns PROVE Good(d)
  <2>1. cat' = cat /\ rows' = rows /\ pending' = pending /\ tx' = tx /\ step' = step
    BY <1>13, CheckpointAlone DEF vars, catVars, heapVars, connVars
  <2> HIDE DEF Good
  <2>2. QED
    BY <1>5, <2>1
<1>14. ASSUME Restart, NEW d \in Conns PROVE Good(d)
  <2>1. pending'[d] = <<>> /\ tx'[d] = NoTx
    BY <1>14 DEF Restart, NoConn
  <2> HIDE DEF Good
  <2>2. QED
    BY <1>4, <2>1
<1> HIDE DEF Good
<1>15. QED
  BY <1>6, <1>7, <1>8, <1>9, <1>10, <1>11, <1>12, <1>13, <1>14, NextCases DEF Working

(***************************************************************************)
(* The types are preserved, in four parts.                                 *)
(***************************************************************************)
NamesTyped ==
  /\ cat \in [TableNames -> Tables \cup {NoTable}]
  /\ tname \in [Tables -> TableNames]
  /\ \A n \in TableNames : cat[n] # NoTable => tname[cat[n]] = n /\ cat[n] <= tables
  /\ tables \in 0..MaxTable

RowsTyped ==
  /\ nextRow \in [Tables -> 1..(MaxVal + 1)]
  /\ \A v \in rows : v \in [table : 1..tables, id : 1..MaxVal, val : 1..MaxVal,
                            xmin : TxIds, xmax : TxIds \cup {NoTx}]
  /\ \A v \in rows : v.id < nextRow[v.table]
  /\ IsFiniteSet(rows)

ConnsTyped ==
  /\ status \in [TxIds -> {"Unknown", "InProgress", "Committed", "Aborted"}]
  /\ nextTx \in 2..(MaxTx + 1)
  /\ tx \in [Conns -> TxIds \cup {NoTx}]
  /\ journaled \in [Conns -> BOOLEAN]
  /\ step \in [Conns -> {"ready", "failed", "flushed", "remember", "log"}]
  /\ pending \in [Conns -> Seq(RowRecords)]
  /\ stmt \in [Conns -> Records \cup {NoStmt}]
  /\ \A c \in InDdl : stmt[c] \in DdlRecords

LogTyped ==
  /\ log \in Seq(Records) /\ schema \in Seq(Records)
  /\ \A i \in 1..Len(schema) : isDDL(schema[i])
  /\ ck \in [pc : {"none", "schema", "scan", "install", "detach", "release", "closed"},
             closing : BOOLEAN, snap : SUBSET TxIds, recs : Seq(Records)]
  /\ journal \in BOOLEAN /\ dirty \in BOOLEAN
  /\ file \in {"open", "failed", "closed"}
  /\ vals \in 0..MaxVal /\ restarts \in 0..MaxRestarts

\* The four parts are TypeOK and Shapes.
LEMMA TypesParts == TypeOK /\ Shapes <=> NamesTyped /\ RowsTyped /\ ConnsTyped /\ LogTyped
<1>1. pending \in [Conns -> Seq(RowRecords)] => \A c \in Conns : pending[c] \in Seq(Records)
  <2>1. Seq(RowRecords) \subseteq Seq(Records)
    BY SeqMonotonic DEF RowRecords
  <2>2. QED
    BY <2>1
<1>2. QED
  BY <1>1 DEF TypeOK, Shapes, NamesTyped, RowsTyped, ConnsTyped, LogTyped

\* The names: a schema statement makes them what recovery would make of the history.
LEMMA StepNamesTyped == Careful /\ IInv /\ [Next]_vars => NamesTyped'
<1> SUFFICES ASSUME Careful, IInv, [Next]_vars PROVE NamesTyped'
  OBVIOUS
<1>1. NamesTyped
  BY TypesParts DEF IInv
<1>2. CASE catVars' = catVars
  BY <1>1, <1>2 DEF NamesTyped, catVars
<1>3. ASSUME NEW c \in Conns, Ddl3(c) PROVE NamesTyped'
  <2>1. Replayed(Hist') = fields(cat', tname', tables', {}) /\ Hist' = Append(schema, stmt'[c])
    BY <1>3, DdlRuns
  <2>2. tables' \in 0..MaxTable
    BY <1>1, <1>3, Typed DEF NamesTyped, Ddl3, CreateTable, DropTable, RenameTable
  <2>3. Hist' \in Seq(Records)
    BY <1>3, <2>1, DdlBegins, Typed DEF DdlRecords
  <2>4. /\ Replayed(Hist').cat = cat' /\ Replayed(Hist').tname = tname'
        /\ Replayed(Hist').tables = tables'
    BY <2>1 DEF fields
  <2>5. Replayed(Hist').tables <= MaxTable
    BY <2>2, <2>4, Typed
  <2>6. Replayed(Hist') \in States /\ Consistent(Replayed(Hist'))
    BY <2>3, <2>5, ReplayedType, ReplayedConsistent
  <2>7. tname' \in [Tables -> TableNames] /\ cat' \in [TableNames -> Nat]
    BY <2>4, <2>6 DEF States
  <2>8. \A n \in TableNames : cat'[n] # NoTable => cat'[n] \in 1..tables' /\ tname'[cat'[n]] = n
    BY <2>4, <2>6 DEF Consistent
  <2>9. \A n \in TableNames : cat'[n] # NoTable => cat'[n] \in Tables /\ cat'[n] <= tables'
    BY <2>2, <2>8, Typed DEF Tables
  <2>10. QED
    BY <2>2, <2>7, <2>8, <2>9 DEF NamesTyped
<1>4. CASE Restart
  <2>1. cat' = Replayed(log).cat /\ tname' = Replayed(log).tname /\ tables' = Replayed(log).tables
    BY <1>4, RestartLoads
  <2>2. /\ Replayed(log) \in States /\ Replayed(log).tables \in 1..MaxTable \cup {0}
        /\ Consistent(Replayed(log))
    BY LogReads
  <2>3. tname' \in [Tables -> TableNames] /\ cat' \in [TableNames -> Nat]
    BY <2>1, <2>2 DEF States
  <2>4. \A n \in TableNames : cat'[n] # NoTable => cat'[n] \in 1..tables' /\ tname'[cat'[n]] = n
    BY <2>1, <2>2 DEF Consistent
  <2>5. tables' \in 0..MaxTable
    BY <2>1, <2>2, Typed
  <2>6. \A n \in TableNames : cat'[n] # NoTable => cat'[n] \in Tables /\ cat'[n] <= tables'
    BY <2>4, <2>5, Typed DEF Tables
  <2>7. QED
    BY <2>3, <2>4, <2>5, <2>6 DEF NamesTyped
<1>5. ASSUME NEW c \in Conns, Begin(c) \/ Commit(c) \/ Rollback(c) PROVE catVars' = catVars
  BY <1>5 DEF Begin, Commit, Rollback, finish
<1>6. ASSUME NEW c \in Conns, Working(c), ~Ddl3(c) PROVE catVars' = catVars
  <2>1. ASSUME NEW t \in Tables, Insert(c, t) PROVE catVars' = catVars
    BY <2>1 DEF Insert
  <2>2. ASSUME NEW v \in rows, Delete(c, v) PROVE catVars' = catVars
    BY <2>2 DEF Delete
  <2>3. CASE Flush(c) \/ RememberSchema(c) \/ LogNow(c)
    BY <2>3 DEF Flush, RememberSchema, LogNow
  <2>4. QED
    BY <1>6, <2>1, <2>2, <2>3 DEF Working
<1>7. CASE Checkpointing \/ UNCHANGED vars
  BY <1>1, <1>7, CheckpointAlone DEF NamesTyped, vars, catVars
<1>8. QED
  BY <1>2, <1>3, <1>4, <1>5, <1>6, <1>7, NextCases

\* The rows and their counters.
LEMMA StepRowsTyped == Careful /\ IInv /\ [Next]_vars => RowsTyped'
<1> SUFFICES ASSUME Careful, IInv, [Next]_vars PROVE RowsTyped'
  OBVIOUS
<1>1. RowsTyped
  BY TypesParts DEF IInv
<1>2. /\ vals \in 0..MaxVal /\ MaxVal \in Nat /\ tables \in 0..MaxTable /\ MaxTable \in Nat
      /\ nextRow \in [Tables -> 1..(MaxVal + 1)]
  BY Typed
<1>3. CASE tables' = tables /\ nextRow' = nextRow /\ rows' = rows
  BY <1>1, <1>3 DEF RowsTyped
<1>4. ASSUME NEW c \in Conns, NEW t \in Tables, Insert(c, t) PROVE RowsTyped'
  <2> DEFINE x == NewRow(c, t)
  <2>1. /\ rows' = rows \cup {x} /\ vals + 1 <= MaxVal
        /\ t \in 1..tables /\ tx[c] \in TxIds /\ nextRow[t] \in 1..(vals + 1)
        /\ x.table = t /\ x.id = nextRow[t]
        /\ \A v \in rows : v.table = t => v.id < nextRow[t]
    BY <1>4, InsertRow
  <2>2. nextRow' = [nextRow EXCEPT ![t] = @ + 1] /\ tables' = tables
    BY <1>4 DEF Insert, catVars
  <2>3. x \in [table : 1..tables, id : 1..MaxVal, val : 1..MaxVal, xmin : TxIds, xmax : TxIds \cup {NoTx}]
    BY <1>2, <2>1 DEF NewRow
  <2> HIDE DEF x
  <2>4. nextRow' \in [Tables -> 1..(MaxVal + 1)]
    BY <1>2, <2>1, <2>2
  <2>5. \A v \in rows' : v.id < nextRow'[v.table]
    <3>1. ASSUME NEW v \in rows PROVE v.id < nextRow'[v.table]
      <4>1. v.table \in Tables /\ v.id \in Nat /\ v.id < nextRow[v.table]
        BY <1>1, <1>2 DEF RowsTyped, Tables
      <4>2. CASE v.table = t
        <5>1. nextRow'[v.table] = nextRow[v.table] + 1 /\ nextRow[v.table] \in Nat
          BY <1>2, <2>1, <2>2, <4>2
        <5>2. QED
          BY <4>1, <5>1
      <4>3. CASE v.table # t
        BY <1>2, <2>2, <4>1, <4>3
      <4>4. QED
        BY <4>2, <4>3
    <3>2. x.id < nextRow'[x.table]
      <4>1. nextRow'[t] = nextRow[t] + 1 /\ nextRow[t] \in Nat
        BY <1>2, <2>1, <2>2
      <4>2. QED
        BY <2>1, <4>1
    <3>3. QED
      BY <2>1, <3>1, <3>2
  <2>6. IsFiniteSet(rows')
    BY <1>1, <2>1, FS_AddElement DEF RowsTyped
  <2>7. \A v \in rows' : v \in [table : 1..tables, id : 1..MaxVal, val : 1..MaxVal,
                                xmin : TxIds, xmax : TxIds \cup {NoTx}]
    BY <1>1, <2>1, <2>3 DEF RowsTyped
  <2>8. QED
    BY <2>2, <2>4, <2>5, <2>6, <2>7 DEF RowsTyped
<1>5. ASSUME NEW c \in Conns, NEW v \in rows, Delete(c, v) PROVE RowsTyped'
  <2> DEFINE x == Gone(c, v)
  <2>1. /\ rows' = (rows \ {v}) \cup {x} /\ x.table = v.table /\ x.id = v.id
        /\ x \in [table : 1..tables, id : 1..MaxVal, val : 1..MaxVal, xmin : TxIds, xmax : TxIds \cup {NoTx}]
    BY <1>5, DeleteRow
  <2>2. nextRow' = nextRow /\ tables' = tables
    BY <1>5 DEF Delete, catVars
  <2> HIDE DEF x
  <2>3. IsFiniteSet(rows')
    BY <1>1, <2>1, FS_AddElement, FS_RemoveElement DEF RowsTyped
  <2>4. \A w \in rows' : w \in [table : 1..tables, id : 1..MaxVal, val : 1..MaxVal,
                                xmin : TxIds, xmax : TxIds \cup {NoTx}]
    BY <1>1, <2>1 DEF RowsTyped
  <2>5. \A w \in rows' : w.id < nextRow[w.table]
    BY <1>1, <2>1 DEF RowsTyped
  <2>6. QED
    BY <1>2, <2>2, <2>3, <2>4, <2>5 DEF RowsTyped
<1>6. ASSUME NEW c \in Conns, Ddl3(c) PROVE RowsTyped'
  <2>1. rows' = rows
    BY <1>6, DdlBegins
  <2>2. CASE tables' = tables /\ nextRow' = nextRow
    BY <1>3, <2>1, <2>2
  <2>3. CASE tables < MaxTable /\ tables' = tables + 1 /\ nextRow' = [nextRow EXCEPT ![tables + 1] = 1]
    <3>1. nextRow' \in [Tables -> 1..(MaxVal + 1)]
      <4>1. 1 \in 1..(MaxVal + 1)
        BY <1>2
      <4>2. [nextRow EXCEPT ![tables + 1] = 1] \in [Tables -> 1..(MaxVal + 1)]
        BY <1>2, <4>1, ExceptType, Zenon
      <4>3. QED
        BY <2>3, <4>2
    <3>2. \A v \in rows : v.table # tables + 1 /\ v.table \in Tables
      BY <1>1, <1>2 DEF RowsTyped, Tables
    <3>3. \A v \in rows : nextRow'[v.table] = nextRow[v.table]
      BY <1>2, <2>3, <3>2
    <3>4. 1..tables \subseteq 1..tables'
      BY <1>2, <2>3
    <3>5. QED
      BY <1>1, <2>1, <3>1, <3>3, <3>4 DEF RowsTyped
  <2>4. QED
    BY <1>6, <2>2, <2>3 DEF Ddl3, CreateTable, DropTable, RenameTable
<1>7. CASE Restart
  <2>1. /\ IsFiniteSet(rows') /\ nextRow' \in [Tables -> Nat]
        /\ \A t \in Tables : nextRow'[t] \in 1..(vals + 1)
        /\ \A v \in rows' :
             /\ v \in [table : 1..tables', id : 1..vals, val : 1..vals, xmin : {Boot}, xmax : {NoTx}]
             /\ v.id < nextRow'[v.table]
    BY <1>7, RestartLoads
  <2>2. 1..vals \subseteq 1..MaxVal /\ 1..(vals + 1) \subseteq 1..(MaxVal + 1) /\ Boot \in TxIds
    BY <1>2, EngineAssumption DEF TxIds, Boot
  <2>3. nextRow' \in [Tables -> 1..(MaxVal + 1)]
    BY <2>1, <2>2
  <2>4. \A v \in rows' : v \in [table : 1..tables', id : 1..MaxVal, val : 1..MaxVal,
                                xmin : TxIds, xmax : TxIds \cup {NoTx}]
    BY <2>1, <2>2
  <2>5. QED
    BY <2>1, <2>3, <2>4 DEF RowsTyped
<1>8. ASSUME NEW c \in Conns, Begin(c) \/ Commit(c) \/ Rollback(c)
      PROVE  tables' = tables /\ nextRow' = nextRow /\ rows' = rows
  BY <1>8 DEF Begin, Commit, Rollback, finish, catVars
<1>9. ASSUME NEW c \in Conns, Flush(c) \/ RememberSchema(c) \/ LogNow(c)
      PROVE  tables' = tables /\ nextRow' = nextRow /\ rows' = rows
  BY <1>9 DEF Flush, RememberSchema, LogNow, catVars, heapVars
<1>10. CASE Checkpointing \/ UNCHANGED vars
  BY <1>3, <1>10, CheckpointAlone DEF vars, catVars, heapVars
<1>11. QED
  BY <1>3, <1>4, <1>5, <1>6, <1>7, <1>8, <1>9, <1>10, NextCases DEF Working

\* The transactions and their buffers.
LEMMA StepConnsTyped == Careful /\ IInv /\ [Next]_vars => ConnsTyped'
<1> SUFFICES ASSUME Careful, IInv, [Next]_vars PROVE ConnsTyped'
  OBVIOUS
<1>1. ConnsTyped
  BY TypesParts DEF IInv
<1>2. MaxTx \in Nat /\ NoTx \in TxIds \cup {NoTx} /\ <<>> \in Seq(RowRecords)
      /\ NoStmt \in Records \cup {NoStmt}
  BY Typed
<1>3. ASSUME NEW c \in Conns, Begin(c) PROVE ConnsTyped'
  <2>1. /\ nextTx \in TxIds /\ nextTx' = nextTx + 1
        /\ status' = [status EXCEPT ![nextTx] = "InProgress"] /\ tx' = [tx EXCEPT ![c] = nextTx]
        /\ journaled' = [journaled EXCEPT ![c] = TRUE]
        /\ pending' = pending /\ step' = step /\ stmt' = stmt
    BY <1>3, Begins
  <2>2. InDdl' = {}
    BY <1>3, QuietAction
  <2>3. nextTx' \in 2..(MaxTx + 1)
    BY <1>1, <1>2, <1>3, <2>1 DEF ConnsTyped, Begin
  <2>4. status' \in [TxIds -> {"Unknown", "InProgress", "Committed", "Aborted"}]
        /\ tx' \in [Conns -> TxIds \cup {NoTx}] /\ journaled' \in [Conns -> BOOLEAN]
    BY <1>1, <2>1 DEF ConnsTyped
  <2>5. QED
    BY <1>1, <2>1, <2>2, <2>3, <2>4 DEF ConnsTyped
<1>4. ASSUME NEW c \in Conns, Commit(c) \/ Rollback(c) PROVE ConnsTyped'
  <2>1. /\ tx' = [tx EXCEPT ![c] = NoTx] /\ step' = [step EXCEPT ![c] = "ready"]
        /\ pending' = [pending EXCEPT ![c] = <<>>] /\ journaled' = [journaled EXCEPT ![c] = FALSE]
        /\ nextTx' = nextTx /\ stmt' = stmt
    BY <1>4, Ends
  <2>2. PICK outcome \in {"Committed", "Aborted"} : status' = [status EXCEPT ![tx[c]] = outcome]
    BY <1>4, Ends
  <2>3. InDdl' = {}
    BY <1>4, QuietAction
  <2>4. status' \in [TxIds -> {"Unknown", "InProgress", "Committed", "Aborted"}]
    BY <1>1, <2>2 DEF ConnsTyped
  <2>5. /\ tx' \in [Conns -> TxIds \cup {NoTx}] /\ journaled' \in [Conns -> BOOLEAN]
        /\ step' \in [Conns -> {"ready", "failed", "flushed", "remember", "log"}]
    BY <1>1, <2>1 DEF ConnsTyped
  <2>6. pending' \in [Conns -> Seq(RowRecords)]
    BY <1>1, <1>2, <2>1, ExceptType, Zenon DEF ConnsTyped
  <2>7. QED
    BY <1>1, <2>1, <2>3, <2>4, <2>5, <2>6 DEF ConnsTyped
<1>5. ASSUME NEW c \in Conns, NEW q \in Seq(RowRecords), pending' = [pending EXCEPT ![c] = q],
             step' = step, stmt' = stmt, status' = status, nextTx' = nextTx, tx' = tx,
             journaled' = journaled
      PROVE  ConnsTyped'
  <2>1. pending' \in [Conns -> Seq(RowRecords)]
    BY <1>1, <1>5, ExceptType, Zenon DEF ConnsTyped
  <2>2. InDdl' = InDdl
    BY <1>5 DEF InDdl
  <2>3. QED
    BY <1>1, <1>5, <2>1, <2>2 DEF ConnsTyped
<1>6. ASSUME NEW c \in Conns, NEW rec \in RowRecords, buffer(c, rec),
             step' = step, stmt' = stmt, status' = status, nextTx' = nextTx, tx' = tx,
             journaled' = journaled
      PROVE  ConnsTyped'
  <2>1. pending[c] \in Seq(RowRecords) /\ Append(pending[c], rec) \in Seq(RowRecords)
    BY <1>1 DEF ConnsTyped
  <2>2. pending' = [pending EXCEPT ![c] = Append(pending[c], rec)]
        \/ pending' = [pending EXCEPT ![c] = pending[c]]
    BY <1>1, <1>6 DEF buffer, ConnsTyped
  <2>3. QED
    BY <1>5, <1>6, <2>1, <2>2
<1>7. ASSUME NEW c \in Conns, NEW t \in Tables, Insert(c, t) PROVE ConnsTyped'
  <2> DEFINE rec == InsertRecord(tname[t], nextRow[t], vals + 1)
  <2>1. nextRow[t] \in 1..(vals + 1) /\ vals + 1 <= MaxVal
    BY <1>7, InsertRow
  <2>2. tname[t] \in TableNames /\ nextRow[t] \in 0..MaxVal /\ vals + 1 \in 0..MaxVal
    BY <2>1, Typed
  <2>3. rec \in RowRecords
    BY <2>2 DEF InsertRecord, RowRecords, Records
  <2> HIDE DEF rec
  <2>4. /\ buffer(c, rec) /\ step' = step /\ stmt' = stmt /\ status' = status /\ nextTx' = nextTx
        /\ tx' = tx /\ journaled' = journaled
    BY <1>7 DEF Insert, rec
  <2>5. QED
    BY <1>6, <2>3, <2>4
<1>8. ASSUME NEW c \in Conns, NEW v \in rows, Delete(c, v) PROVE ConnsTyped'
  <2> DEFINE rec == DeleteRecord(tname[v.table], v.id)
  <2>1. v \in [table : 1..tables, id : 1..MaxVal, val : 1..MaxVal, xmin : TxIds, xmax : TxIds \cup {NoTx}]
    BY <1>8, DeleteRow
  <2>2. tname[v.table] \in TableNames /\ v.id \in 0..MaxVal
    BY <2>1, Typed DEF Tables
  <2>3. rec \in RowRecords
    BY <2>2, Typed DEF DeleteRecord, RowRecords, Records
  <2> HIDE DEF rec
  <2>4. /\ buffer(c, rec) /\ step' = step /\ stmt' = stmt /\ status' = status /\ nextTx' = nextTx
        /\ tx' = tx /\ journaled' = journaled
    BY <1>8 DEF Delete, rec
  <2>5. QED
    BY <1>6, <2>3, <2>4
<1>9. ASSUME NEW c \in Conns, Flush(c) PROVE ConnsTyped'
  <2>1. /\ pending' = [pending EXCEPT ![c] = <<>>]
        /\ UNCHANGED <<catVars, heapVars, tx, journaled, stmt, schema, journal, ck, vals, restarts>>
    BY <1>9, FlushSettles
  <2>2. PICK x \in {"flushed", "failed"} : step' = [step EXCEPT ![c] = x]
    BY <1>9, FlushSettles
  <2>3. pending' \in [Conns -> Seq(RowRecords)]
    BY <1>1, <1>2, <2>1, ExceptType, Zenon DEF ConnsTyped
  <2>4. step' \in [Conns -> {"ready", "failed", "flushed", "remember", "log"}]
    BY <1>1, <2>2 DEF ConnsTyped
  <2>5. InDdl' = {}
    BY <1>9, QuietAction
  <2>6. QED
    BY <1>1, <2>1, <2>3, <2>4, <2>5 DEF ConnsTyped, heapVars
<1>10. ASSUME NEW c \in Conns, Ddl3(c) PROVE ConnsTyped'
  <2>1. /\ step' = [step EXCEPT ![c] = "remember"] /\ InDdl' = {c}
        /\ stmt'[c] \in DdlRecords /\ stmt' \in [Conns -> Records \cup {NoStmt}]
        /\ UNCHANGED <<rows, status, nextTx, tx, journaled, schema, journal, ck, logVars, vals, restarts>>
    BY <1>10, DdlBegins
  <2>2. PICK q \in Seq(RowRecords) : pending' = [pending EXCEPT ![c] = q]
    BY <1>10, DdlBuffers
  <2>3. pending' \in [Conns -> Seq(RowRecords)]
    BY <1>1, <2>2, ExceptType, Zenon DEF ConnsTyped
  <2>4. step' \in [Conns -> {"ready", "failed", "flushed", "remember", "log"}]
    BY <1>1, <2>1 DEF ConnsTyped
  <2>5. QED
    BY <1>1, <2>1, <2>3, <2>4 DEF ConnsTyped
<1>11. ASSUME NEW c \in Conns, RememberSchema(c) PROVE ConnsTyped'
  <2>1. /\ InDdl' = {c} /\ stmt[c] \in DdlRecords /\ step' = [step EXCEPT ![c] = "log"]
        /\ UNCHANGED <<catVars, heapVars, tx, journaled, pending, stmt, journal, ck, logVars, vals, restarts>>
    BY <1>11, Remembers
  <2>2. step' \in [Conns -> {"ready", "failed", "flushed", "remember", "log"}]
    BY <1>1, <2>1 DEF ConnsTyped
  <2>3. QED
    BY <1>1, <2>1, <2>2 DEF ConnsTyped, heapVars
<1>12. ASSUME NEW c \in Conns, LogNow(c) PROVE ConnsTyped'
  <2>1. /\ InDdl' = {} /\ stmt' = [stmt EXCEPT ![c] = NoStmt]
        /\ UNCHANGED <<catVars, heapVars, tx, journaled, pending, schema, journal, ck, vals, restarts>>
    BY <1>12, Logs
  <2>2. PICK x \in {"ready", "failed"} : step' = [step EXCEPT ![c] = x]
    BY <1>12, Logs
  <2>3. step' \in [Conns -> {"ready", "failed", "flushed", "remember", "log"}]
    BY <1>1, <2>2 DEF ConnsTyped
  <2>4. stmt' \in [Conns -> Records \cup {NoStmt}]
    BY <1>1, <1>2, <2>1, ExceptType, Zenon DEF ConnsTyped
  <2>5. QED
    BY <1>1, <2>1, <2>3, <2>4 DEF ConnsTyped, heapVars
<1>13. CASE Checkpointing \/ UNCHANGED vars
  <2>1. heapVars' = heapVars /\ connVars' = connVars
    BY <1>13, CheckpointAlone DEF vars, heapVars, connVars
  <2>2. InDdl' = InDdl
    BY <2>1 DEF InDdl, connVars
  <2>3. QED
    BY <1>1, <2>1, <2>2 DEF ConnsTyped, heapVars, connVars
<1>14. CASE Restart
  <2>1. /\ status' = FreshStatus /\ nextTx' = Boot + 1
        /\ tx' = [d \in Conns |-> NoTx] /\ journaled' = [d \in Conns |-> FALSE]
        /\ pending' = [d \in Conns |-> <<>>] /\ step' = [d \in Conns |-> "ready"]
        /\ stmt' = [d \in Conns |-> NoStmt]
    BY <1>14 DEF Restart, NoConn
  <2>2. InDdl' = {}
    BY <2>1 DEF InDdl
  <2>3. nextTx' \in 2..(MaxTx + 1)
    BY <2>1, EngineAssumption DEF Boot
  <2>4. status' \in [TxIds -> {"Unknown", "InProgress", "Committed", "Aborted"}]
    BY <2>1 DEF FreshStatus
  <2>5. /\ tx' \in [Conns -> TxIds \cup {NoTx}] /\ journaled' \in [Conns -> BOOLEAN]
        /\ step' \in [Conns -> {"ready", "failed", "flushed", "remember", "log"}]
        /\ stmt' \in [Conns -> Records \cup {NoStmt}]
    BY <2>1
  <2>6. pending' \in [Conns -> Seq(RowRecords)]
    BY <2>1
  <2>7. QED
    BY <2>2, <2>3, <2>4, <2>5, <2>6 DEF ConnsTyped
<1>15. QED
  BY <1>3, <1>4, <1>7, <1>8, <1>9, <1>10, <1>11, <1>12, <1>13, <1>14, NextCases DEF Working

\* The log, the history and the checkpoint.
LEMMA StepLogTyped == Careful /\ IInv /\ [Next]_vars => LogTyped'
<1> SUFFICES ASSUME Careful, IInv, [Next]_vars PROVE LogTyped'
  OBVIOUS
<1>1. LogTyped
  BY TypesParts DEF IInv
<1>2. vals \in 0..MaxVal /\ MaxVal \in Nat /\ MaxRestarts \in Nat /\ Seq(RowRecords) \subseteq Seq(Records)
  BY Typed, EngineAssumption, SeqMonotonic DEF RowRecords
<1>3. CASE /\ log' = log /\ schema' = schema /\ ck' = ck /\ journal' = journal
           /\ dirty' = dirty /\ file' = file /\ vals' = vals /\ restarts' = restarts
  BY <1>1, <1>3 DEF LogTyped
<1>4. ASSUME NEW c \in Conns, NEW t \in Tables, Insert(c, t) PROVE LogTyped'
  <2>1. vals' = vals + 1 /\ vals + 1 <= MaxVal
    BY <1>4, InsertRow
  <2>2. vals' \in 0..MaxVal
    BY <1>2, <2>1
  <2>3. UNCHANGED <<schema, journal, ck, logVars, restarts>>
    BY <1>4 DEF Insert
  <2>4. QED
    BY <1>1, <2>2, <2>3 DEF LogTyped, logVars
<1>5. ASSUME NEW c \in Conns, NEW p \in Seq(Records), NEW done, write(c, p, done),
             UNCHANGED <<schema, journal, ck, vals, restarts>>
      PROVE  LogTyped'
  <2>1. log \in Seq(Records) /\ log \o p \in Seq(Records)
    BY <1>1 DEF LogTyped
  <2>2. log' = log \/ log' = log \o p
    BY <1>5 DEF write
  <2>3. dirty' \in BOOLEAN /\ file' \in {"open", "failed", "closed"}
    BY <1>1, <1>5 DEF write, LogTyped
  <2>4. QED
    BY <1>1, <1>5, <2>1, <2>2, <2>3 DEF LogTyped
<1>6. ASSUME NEW c \in Conns, Flush(c) PROVE LogTyped'
  <2>1. UNCHANGED <<schema, journal, ck, vals, restarts>>
    BY <1>6 DEF Flush
  <2>2. pending[c] \in Seq(Records)
    BY <1>2, Typed
  <2>3. write(c, pending[c], "flushed") \/ UNCHANGED logVars
    BY <1>6 DEF Flush
  <2>4. QED
    BY <1>3, <1>5, <2>1, <2>2, <2>3 DEF logVars
<1>7. ASSUME NEW c \in Conns, LogNow(c) PROVE LogTyped'
  <2>1. UNCHANGED <<schema, journal, ck, vals, restarts>>
    BY <1>7 DEF LogNow
  <2>2. stmt[c] \in Records
    BY <1>7, Logs DEF DdlRecords
  <2>3. <<stmt[c]>> \in Seq(Records)
    BY <2>2
  <2>4. write(c, <<stmt[c]>>, "ready") \/ UNCHANGED logVars
    BY <1>7 DEF LogNow
  <2>5. QED
    BY <1>3, <1>5, <2>1, <2>3, <2>4 DEF logVars
<1>8. ASSUME NEW c \in Conns, RememberSchema(c) PROVE LogTyped'
  <2>1. schema' = Append(schema, stmt[c]) /\ stmt[c] \in DdlRecords
        /\ UNCHANGED <<catVars, heapVars, tx, journaled, pending, stmt, journal, ck, logVars, vals, restarts>>
    BY <1>8, Remembers
  <2>2. stmt[c] \in Records /\ isDDL(stmt[c])
    BY <2>1 DEF DdlRecords
  <2>3. /\ schema' \in Seq(Records) /\ Len(schema') = Len(schema) + 1 /\ Len(schema) \in Nat
        /\ schema'[Len(schema) + 1] = stmt[c] /\ \A i \in 1..Len(schema) : schema'[i] = schema[i]
    BY <1>1, <2>1, <2>2 DEF LogTyped
  <2>4. ASSUME NEW i \in 1..Len(schema') PROVE isDDL(schema'[i])
    <3>1. CASE i \in 1..Len(schema)
      <4>1. isDDL(schema[i]) /\ schema'[i] = schema[i]
        BY <1>1, <2>3, <3>1 DEF LogTyped
      <4>2. QED
        BY <4>1 DEF isDDL
    <3>2. CASE i = Len(schema) + 1
      BY <2>2, <2>3, <3>2 DEF isDDL
    <3>3. QED
      BY <2>3, <3>1, <3>2
  <2>5. QED
    BY <1>1, <2>1, <2>3, <2>4 DEF LogTyped, logVars
<1>9. CASE Checkpointing
  <2>1. schema' = schema /\ vals' = vals /\ restarts' = restarts
    BY <1>9, CheckpointAlone
  <2>2. ck \in [pc : {"none", "schema", "scan", "install", "detach", "release", "closed"},
                closing : BOOLEAN, snap : SUBSET TxIds, recs : Seq(Records)]
        /\ schema \in Seq(Records)
    BY <1>1 DEF LogTyped
  <2>3. ck' \in [pc : {"none", "schema", "scan", "install", "detach", "release", "closed"},
                 closing : BOOLEAN, snap : SUBSET TxIds, recs : Seq(Records)]
    <3>1. ASSUME NEW closing \in BOOLEAN, CheckpointBegin(closing)
          PROVE  ck' \in [pc : {"none", "schema", "scan", "install", "detach", "release", "closed"},
                          closing : BOOLEAN, snap : SUBSET TxIds, recs : Seq(Records)]
      <4>1. PICK z \in SUBSET TxIds : z = {t \in TxIds : status[t] = "Committed"}
        OBVIOUS
      <4>2. ck' = [ck EXCEPT !.pc = "schema", !.closing = closing, !.snap = z]
        BY <3>1, <4>1, Zenon DEF CheckpointBegin, ckStep
      <4>3. QED
        BY <2>2, <4>2
    <3>2. CASE CheckpointScan
      BY <2>2, <3>2, ScanCopies
    <3>3. CASE CheckpointInstall
      <4>1. ck' = [ck EXCEPT !.pc = "detach", !.recs = <<>>, !.snap = {}] \/ ck' = NoCheckpoint
        BY <3>3, Zenon DEF CheckpointInstall, ckStep
      <4>2. NoCheckpoint \in [pc : {"none", "schema", "scan", "install", "detach", "release", "closed"},
                              closing : BOOLEAN, snap : SUBSET TxIds, recs : Seq(Records)]
        BY DEF NoCheckpoint
      <4>3. [ck EXCEPT !.pc = "detach", !.recs = <<>>, !.snap = {}]
              \in [pc : {"none", "schema", "scan", "install", "detach", "release", "closed"},
                   closing : BOOLEAN, snap : SUBSET TxIds, recs : Seq(Records)]
        <5>0. <<>> \in Seq(Records) /\ {} \in SUBSET TxIds
          OBVIOUS
        <5>1. PICK e, z : e = <<>> /\ z = {} /\ e \in Seq(Records) /\ z \in SUBSET TxIds
          BY <5>0, Zenon
        <5>2. e \in Seq(Records) /\ z \in SUBSET TxIds
          BY <5>1
        <5>3. [ck EXCEPT !.pc = "detach", !.recs = e, !.snap = z]
                \in [pc : {"none", "schema", "scan", "install", "detach", "release", "closed"},
                     closing : BOOLEAN, snap : SUBSET TxIds, recs : Seq(Records)]
          BY <2>2, <5>2
        <5>4. QED
          BY <5>1, <5>3
      <4>4. QED
        BY <4>1, <4>2, <4>3
    <3>4. CASE CheckpointSchema \/ DetachJournal \/ CloseLog
      BY <2>2, <3>4 DEF CheckpointSchema, DetachJournal, CloseLog, ckStep
    <3>5. QED
      BY <1>9, <3>1, <3>2, <3>3, <3>4 DEF Checkpointing
  <2>4. log' \in Seq(Records)
    BY <1>1, <1>9, InstallsCopy, Typed
  <2>5. journal' \in BOOLEAN /\ dirty' \in BOOLEAN /\ file' \in {"open", "failed", "closed"}
    BY <1>1, <1>9 DEF LogTyped, logVars, Checkpointing, CheckpointBegin, CheckpointSchema, CheckpointScan,
                      CheckpointInstall, DetachJournal, CloseLog
  <2>6. QED
    BY <1>1, <2>1, <2>3, <2>4, <2>5 DEF LogTyped
<1>10. CASE Restart
  <2>1. /\ schema' = History(log) /\ journal' = TRUE /\ ck' = NoCheckpoint
        /\ dirty' = FALSE /\ file' = "open" /\ log' = log /\ vals' = vals
        /\ restarts < MaxRestarts /\ restarts' = restarts + 1
    BY <1>10 DEF Restart
  <2>2. schema' \in Seq(Records) /\ \A i \in 1..Len(schema') : isDDL(schema'[i])
    BY <2>1, HistoryType, Typed DEF isDDL
  <2>3. ck' \in [pc : {"none", "schema", "scan", "install", "detach", "release", "closed"},
                 closing : BOOLEAN, snap : SUBSET TxIds, recs : Seq(Records)]
    BY <2>1 DEF NoCheckpoint
  <2>4. restarts' \in 0..MaxRestarts
    BY <1>1, <1>2, <2>1 DEF LogTyped
  <2>5. QED
    BY <1>1, <2>1, <2>2, <2>3, <2>4 DEF LogTyped
<1>11. ASSUME NEW c \in Conns, Begin(c) \/ Commit(c) \/ Rollback(c) \/ Ddl3(c) PROVE LogTyped'
  <2>1. UNCHANGED <<schema, journal, ck, logVars, vals, restarts>>
    <3>1. CASE Ddl3(c)
      BY <3>1, DdlBegins
    <3>2. CASE Begin(c) \/ Commit(c) \/ Rollback(c)
      BY <3>2 DEF Begin, Commit, Rollback, finish
    <3>3. QED
      BY <1>11, <3>1, <3>2
  <2>2. QED
    BY <1>3, <2>1 DEF logVars
<1>12. ASSUME NEW c \in Conns, NEW v \in rows, Delete(c, v) PROVE LogTyped'
  BY <1>3, <1>12 DEF Delete, logVars
<1>13. CASE UNCHANGED vars
  BY <1>3, <1>13 DEF vars, logVars
<1>14. QED
  BY <1>4, <1>6, <1>7, <1>8, <1>9, <1>10, <1>11, <1>12, <1>13, NextCases DEF Working

\* The parts together.
LEMMA StepTypes == Careful /\ IInv /\ [Next]_vars => TypeOK' /\ Shapes'
<1>1. NamesTyped' /\ RowsTyped' /\ ConnsTyped' /\ LogTyped' => TypeOK' /\ Shapes'
  <2>1. pending' \in [Conns -> Seq(RowRecords)] => \A c \in Conns : pending'[c] \in Seq(Records)
    <3>1. Seq(RowRecords) \subseteq Seq(Records)
      BY SeqMonotonic DEF RowRecords
    <3>2. QED
      BY <3>1
  <2>2. QED
    BY <2>1 DEF TypeOK, Shapes, NamesTyped, RowsTyped, ConnsTyped, LogTyped
<1>2. QED
  BY <1>1, StepNamesTyped, StepRowsTyped, StepConnsTyped, StepLogTyped

(***************************************************************************)
(* The theorems.                                                           *)
(***************************************************************************)

\* Every step of a careful engine keeps the invariant.
LEMMA StepIInv == Careful /\ IInv /\ [Next]_vars => IInv'
  BY StepTypes, StepNumbered, StepRecordsNumbered, StepTurns, StepCatalog, StepLogFollows, StepLogHolds,
     StepLoggedSettled, StepBuffered, StepCopied DEF IInv

\* The invariant holds in every state of every behaviour of a careful engine.
THEOREM EngineInvariant == ASSUME Careful PROVE Spec => []IInv
<1>1. Init => IInv
  BY InitIInv
<1>2. IInv /\ [Next]_vars => IInv'
  BY StepIInv
<1>3. QED
  BY <1>1, <1>2, PTL DEF Spec

\* Type correctness: the catalog's two views of a name agree, every row is of a
\* table there is and below its table's counter, and the log holds records.
THEOREM EngineTypes == ASSUME Careful PROVE Spec => []TypeOK
<1>1. IInv => TypeOK
  BY DEF IInv
<1>2. QED
  BY <1>1, EngineInvariant, PTL

\* Recovery can read the log in every state a process can die in, whatever
\* writes fail and however many checkpoints and schema statements there were
\* (apply, RenameLogged, ForgetLogged).
THEOREM ReplayAlwaysRuns == ASSUME Careful PROVE Spec => []ReplayOK
<1>1. IInv => ReplayOK
  BY DEF IInv, LogFollows, ReplayOK
<1>2. QED
  BY <1>1, EngineInvariant, PTL

\* The history a checkpoint writes is the one in the log, between schema
\* statements and until a write fails (recordSchema, Checkpoint).
THEOREM HistoryAlwaysLogged == ASSUME Careful PROVE Spec => []HistoryLogged
<1>1. IInv => HistoryLogged
  <2>1. SUFFICES ASSUME IInv, file = "open", \A c \in Conns : step[c] \notin {"remember", "log"}
                 PROVE  schema = History(log)
    BY DEF HistoryLogged
  <2>2. InDdl = {}
    BY <2>1 DEF InDdl
  <2>3. LogPlus = log /\ Hist = schema
    BY <2>2, PlusOut
  <2>4. QED
    BY <2>1, <2>3 DEF IInv, LogFollows
<1>2. QED
  BY <1>1, EngineInvariant, PTL

\* A schema statement that has been remembered and is not in the log keeps the
\* log behind the history.
LEMMA HistoryAhead ==
  IInv /\ schema = History(log) /\ (\A c \in Conns : step[c] # "remember") => InDdl = {}
<1> SUFFICES ASSUME IInv, schema = History(log), \A c \in Conns : step[c] # "remember", InDdl # {}
             PROVE  FALSE
  OBVIOUS
<1>1. PICK c \in Conns : step[c] = "log" /\ c \in InDdl
  BY DEF InDdl
<1>2. LogPlus = Append(log, stmt[c]) /\ Hist = schema
  <2>1. InDdl = {c}
    BY <1>1, OnlyOne
  <2>2. QED
    BY <1>1, <2>1, PlusIn
<1>3. stmt[c] \in Records /\ isDDL(stmt[c])
  BY <1>1 DEF IInv, Shapes, DdlRecords
<1>4. log \in Seq(Records) /\ History(log) \in Seq(Records)
  BY Typed, HistoryType
<1>5. History(LogPlus) = Append(History(log), stmt[c])
  BY <1>2, <1>3, <1>4, HistoryAppend
<1>6. Len(History(LogPlus)) = Len(Hist) + 1 /\ Len(Hist) \in Nat
  BY <1>2, <1>3, <1>4, <1>5
<1>7. Len(History(LogPlus)) <= Len(Hist)
  BY DEF IInv, LogFollows
<1>8. QED
  BY <1>6, <1>7

\* Durable before visible: at every point where the log has the schema of the
\* database, a crash there would be recovered to the very tables and rows the
\* database has, for any number of connections, tables, rows and reopenings
\* (flush before Commit, LogNow, Checkpoint, Load, apply).
THEOREM RecoveryAlwaysMatches ==
  ASSUME Careful, "sync" \notin Faults
  PROVE  Spec => []RecoveryMatches
<1>1. IInv => RecoveryMatches
  <2> SUFFICES ASSUME IInv, schema = History(log), \A c \in Conns : step[c] # "remember"
               PROVE  /\ \A n \in TableNames : (cat[n] = NoTable) <=> (Replayed(log).cat[n] = NoTable)
                      /\ Contents = Recovered
    BY DEF RecoveryMatches
  <2> DEFINE s == Replayed(log)
  <2>1. LogPlus = log /\ Hist = schema
    BY HistoryAhead, PlusOut
  <2>2. {r \in s.rows : r.table \in Live} = Held
    BY <2>1 DEF IInv, LogHolds
  <2>3. s.cat = cat /\ s.tname = tname
    BY <2>1, LogMakesTables DEF IInv, LogFollows
  <2>4. ASSUME NEW t \in TxIds \cup {NoTx}
        PROVE  Settled(t) <=> t \in SettledTx
    <3>1. NoTx \notin SettledTx
      BY Unsettled
    <3>2. QED
      BY <3>1 DEF Settled, SettledTx
  <2>5. \A v \in rows : /\ v.table \in Tables
                        /\ v.xmin \in TxIds \cup {NoTx} /\ v.xmax \in TxIds \cup {NoTx}
    <3>1. 1..tables \subseteq Tables
      BY Typed DEF Tables
    <3>2. QED
      BY <3>1 DEF IInv, TypeOK
  <2>6. ASSUME NEW x \in Contents PROVE x \in Recovered
    <3>1. PICK v \in rows : /\ Settled(v.xmin) /\ ~Settled(v.xmax)
                            /\ \E n \in TableNames : cat[n] = v.table
                            /\ x = [name |-> tname[v.table], id |-> v.id, val |-> v.val]
      BY DEF Contents
    <3>2. v.xmin \in SettledTx /\ v.xmax \notin SettledTx /\ v.table \in Live
      BY <2>4, <2>5, <3>1 DEF Live
    <3>3. PICK r : r = [table |-> v.table, id |-> v.id, val |-> v.val]
      OBVIOUS
    <3>4. r \in Held
      BY <3>2, <3>3 DEF Held
    <3>5. r \in s.rows /\ r.table = v.table /\ r.id = v.id /\ r.val = v.val
      BY <2>2, <3>3, <3>4
    <3> HIDE DEF s
    <3>6. (\E n \in TableNames : s.cat[n] = r.table) /\ x = [name |-> s.tname[r.table], id |-> r.id, val |-> r.val]
      BY <2>3, <3>1, <3>5
    <3>7. QED
      BY <3>5, <3>6 DEF Recovered, s
  <2>7. ASSUME NEW x \in Recovered PROVE x \in Contents
    <3>1. PICK r \in s.rows : /\ \E n \in TableNames : s.cat[n] = r.table
                              /\ x = [name |-> s.tname[r.table], id |-> r.id, val |-> r.val]
      BY DEF Recovered
    <3> HIDE DEF s
    <3>2. r.table \in Live
      <4>1. PICK n \in TableNames : cat[n] = r.table
        BY <2>3, <3>1
      <4>2. r.table # NoTable
        <5>1. r.table \in 1..s.tables /\ s.tables \in 1..MaxTable \cup {0}
          BY LogReads DEF s
        <5>2. QED
          BY <5>1, Typed DEF NoTable
      <4>3. QED
        BY <4>1, <4>2, Typed DEF Live
    <3>3. r \in Held
      BY <2>2, <3>1, <3>2
    <3>4. PICK v \in rows : /\ v.xmin \in SettledTx /\ v.xmax \notin SettledTx /\ v.table \in Live
                            /\ r = [table |-> v.table, id |-> v.id, val |-> v.val]
      BY <3>3 DEF Held
    <3>5. Settled(v.xmin) /\ ~Settled(v.xmax) /\ \E n \in TableNames : cat[n] = v.table
      BY <2>4, <2>5, <3>4 DEF Live
    <3>6. x = [name |-> tname[v.table], id |-> v.id, val |-> v.val]
      BY <2>3, <3>1, <3>4
    <3>7. QED
      BY <3>5, <3>6 DEF Contents
  <2>8. QED
    BY <2>3, <2>6, <2>7
<1>2. QED
  BY <1>1, EngineInvariant, PTL

\* No row of an aborted transaction is ever in the database recovery builds, as
\* long as a frame whose flush fails is not in the file (Tx.Commit, Log.Write).
THEOREM AbortedAlwaysStaysOut ==
  ASSUME Careful, "sync" \notin Faults
  PROVE  Spec => []AbortedStaysOut
<1>1. IInv => AbortedStaysOut
  <2> SUFFICES ASSUME IInv, NEW v \in rows, status[v.xmin] = "Aborted", NEW r \in Recovered, r.val = v.val
               PROVE  FALSE
    BY DEF AbortedStaysOut
  <2>1. PICK q \in Replayed(log).rows : r.val = q.val
    BY DEF Recovered
  <2>2. PICK i \in 1..Len(log) : log[i].op = "insert" /\ log[i].val = q.val
    BY RowsInserted, Typed
  <2>3. v.xmin \in SettledTx
    BY <2>1, <2>2 DEF IInv, LoggedSettled, SettledOnly
  <2>4. v.xmin \in TxIds
    BY DEF IInv, TypeOK
  <2>5. QED
    BY <2>3, <2>4, Unsettled
<1>2. QED
  BY <1>1, EngineInvariant, PTL
=============================================================================
