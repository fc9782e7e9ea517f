----------------------------- MODULE Statements -----------------------------
(***************************************************************************)
(* internal/exec/exec.go and conflict.go over internal/catalog: how an     *)
(* INSERT, an UPDATE and a DELETE change the rows of several tables, row   *)
(* by row, through the referential actions of the foreign keys, and what   *)
(* is checked when the last row has been written.                          *)
(*                                                                         *)
(* The Go code recurses; here a statement carries an agenda, the calls it  *)
(* has still to make, and one step makes the first of them, putting what   *)
(* that call makes in turn in front of the rest.  Statements of different  *)
(* connections interleave between calls.                                   *)
(*                                                                         *)
(* A statement is bound in the step that starts it, and no schema change   *)
(* happens while one runs: a plan that is out of date is Engine's matter.  *)
(***************************************************************************)
EXTENDS Catalog

CONSTANTS
  Sessions,     \* connections
  Scenarios     \* what a behaviour is about, one chosen in Init: see Init

VARIABLES
  scenario,     \* the choice: it does not change
  catalog,
  heap,         \* for each table, its versions in order of insertion
  status,       \* outcome of each transaction begun, in order
  session,      \* for each connection, its transaction and its statement
  begun,        \* how many statements have been started
  restarts

vars == <<scenario, catalog, heap, status, session, begun, restarts>>

(***************************************************************************)
(* Transactions and versions, as in Storage.  Transaction 1 put the rows   *)
(* there that the database begins with.                                    *)
(***************************************************************************)
Boot == 1
NoTx == 0

Taken == {i \in DOMAIN status : status[i] = "committed"}

Visible(v, id, snap) ==
  /\ v.xmin = id \/ v.xmin \in snap
  /\ ~(v.xmax # NoTx /\ (v.xmax = id \/ v.xmax \in snap))

Version(vals, id) == [vals |-> vals, xmin |-> id, xmax |-> NoTx]

\* Positions of the versions a transaction sees, and the rows there.
Seen(versions, id, snap) == {i \in DOMAIN versions : Visible(versions[i], id, snap)}

RowsOf(t, versions, id, snap) ==
  [i \in Seen(versions, id, snap) |-> Values(t, versions[i].vals)]

\* Positions in the order of the heap.
InOrder(versions, P) == Only([i \in DOMAIN versions |-> i], P)

ScanOf(versions, id, snap) == InOrder(versions, Seen(versions, id, snap))

\* A transaction that is over does not take the version with it only if it
\* aborted.
Conflicts(v, id) == v.xmax \notin {NoTx, id} /\ status[v.xmax] # "aborted"

(***************************************************************************)
(* Statements as written: [op, table, ...], and the values in them.        *)
(***************************************************************************)
IsDDL(s) == s.op \notin {"insert", "update", "delete"}

\* row is the row an expression reads, or two of them one after the other.
Eval(t, e, row) ==
  CASE e.op = "val"      -> e.val
    [] e.op = "default"  -> t.columns[ColumnIndex(t, e.col)].default
    [] e.op = "col"      -> row[ColumnIndex(t, e.col)]
    [] e.op = "excluded" -> row[Len(t.columns) + ColumnIndex(t, e.col)]
    [] e.op = "plus"     -> LET x == row[ColumnIndex(t, e.col)] IN IF x = NULL THEN NULL ELSE x + e.val

\* The row with the assignments made; each of them reads the row as it was.
Assigned(t, row, set, operand) ==
  [i \in DOMAIN row |->
     LET a == SelectInSeq(set, LAMBDA x : x.col = t.columns[i].name)
     IN IF a = 0 THEN row[i] ELSE Eval(t, set[a].e, operand)]

checkIdentityWrite(t, names) ==
  \A n \in ToSet(names) : t.columns[ColumnIndex(t, n)].ident # "always"

BindsSet(t, set) ==
  /\ AreColumns(t, [i \in DOMAIN set |-> set[i].col])
  /\ \A i \in DOMAIN set : set[i].e.op # "val" => ColumnIndex(t, set[i].e.col) # 0

\* An arbiter has to be the columns of a key, or of a total unique index.
uniquelyConstrained(t, cols) ==
  \/ \E k \in DOMAIN t.keys : ToSet(t.keys[k].cols) = ToSet(cols)
  \/ \E x \in DOMAIN t.indexes : /\ t.indexes[x].unique /\ t.indexes[x].where = NoPredicate
                                 /\ ToSet(t.indexes[x].cols) = ToSet(cols)

bindOnConflict(t, c) ==
  \/ c.action = "none"
  \/ /\ AreColumns(t, c.arbiter)
     /\ c.arbiter # <<>> => uniquelyConstrained(t, columnOrdinals(t, c.arbiter))
     /\ c.action = "update" => c.arbiter # <<>> /\ BindsSet(t, c.set) /\ Binds(t, c.where)

targets(t, s) == IF s.cols = <<>> THEN [i \in DOMAIN t.columns |-> t.columns[i].name] ELSE s.cols

Bind(c, s) ==
  LET t == c.tables[Lookup(c, s.table)] IN
  /\ Lookup(c, s.table) # NoTable
  /\ s.op # "delete" => \A i \in DOMAIN t.checks : Binds(t, t.checks[i])
  /\ CASE s.op = "insert" ->
            /\ AreColumns(t, targets(t, s)) /\ checkIdentityWrite(t, targets(t, s))
            /\ \A r \in DOMAIN s.rows : Len(s.rows[r]) = Len(targets(t, s))
            /\ bindOnConflict(t, s.conflict)
       [] s.op = "update" ->
            /\ BindsSet(t, s.set) /\ checkIdentityWrite(t, [i \in DOMAIN s.set |-> s.set[i].col])
            /\ Binds(t, s.where)
       [] s.op = "delete" -> Binds(t, s.where)

(***************************************************************************)
(* The world a call changes: w = [heap, catalog, wrote, seen, agenda, ok]. *)
(* me is the session: its transaction and its snapshot.                    *)
(***************************************************************************)
Scan(w, me, h) == ScanOf(w.heap[h], me.tx, me.snap)
Rows(w, me, h) == RowsOf(w.catalog.tables[h], w.heap[h], me.tx, me.snap)
Current(w, h, v) == Values(w.catalog.tables[h], w.heap[h][v].vals)

Failed(w) == [w EXCEPT !.ok = FALSE]

\* The calls: a row of the statement's own table, the write that ends it, a row
\* that refers to it, the removal that ends that, and a row to insert.
RowCall(h, v)         == [call |-> "row",    h |-> h, v |-> v, next |-> <<>>, fk |-> 0]
WriteCall(h, v, next) == [call |-> "write",  h |-> h, v |-> v, next |-> next, fk |-> 0]
ChildCall(h, v, next, fk) == [call |-> "child", h |-> h, v |-> v, next |-> next, fk |-> fk]
RemoveCall(h, v)      == [call |-> "remove", h |-> h, v |-> v, next |-> <<>>, fk |-> 0]
StoreCall(h, row)     == [call |-> "store",  h |-> h, v |-> 0, next |-> row,  fk |-> 0]

Then(w, calls) == [w EXCEPT !.agenda = calls \o @]

\* (variant) a writer waits for the other transaction, as if somebody broke deadlocks
HeapDeleteWaiting(w, me, h, v) ==
  IF Conflicts(w.heap[h][v], me.tx) THEN Then(w, <<RemoveCall(h, v)>>)
  ELSE [w EXCEPT !.heap[h][v].xmax = me.tx]

HeapDelete(w, me, h, v) ==
  IF Conflicts(w.heap[h][v], me.tx) THEN Failed(w) ELSE [w EXCEPT !.heap[h][v].xmax = me.tx]

Insert(w, me, h, row) ==
  IF ~checkRow(w.catalog.tables[h], row) THEN Failed(w)
  ELSE [w EXCEPT !.heap[h] = Append(@, Version(row, me.tx))]

Update(w, me, h, v, row) ==
  IF ~checkRow(w.catalog.tables[h], row) \/ Conflicts(w.heap[h][v], me.tx) THEN Failed(w)
  ELSE [w EXCEPT !.heap[h] = Append([@ EXCEPT ![v].xmax = me.tx], Version(row, me.tx))]

\* The rows pointing at the row old of table h, one call each.  next is what the
\* row becomes, or <<>>: a change that leaves the referenced columns as they
\* were is not one.
applyRefActions(w, me, h, old, next) ==
  LET refs == w.catalog.tables[h].referencedBy
      fkOf(r) == w.catalog.tables[r.child].foreignKeys[r.fk]
      moved(r) == next = <<>> \/ ~matchesKey(old, fkOf(r).parentCols, next, fkOf(r).parentCols)
      pointing(r, row) == /\ ~anyNull(row, fkOf(r).cols)
                          /\ matchesKey(row, fkOf(r).cols, old, fkOf(r).parentCols)
      ChildrenOf(r) ==
        LET children == w.heap[r.child]
            vs == InOrder(children, {v \in Seen(children, me.tx, me.snap) : pointing(r, Current(w, r.child, v))})
        IN [i \in DOMAIN vs |-> ChildCall(r.child, vs[i], next, r.fk)]
  IN FlattenSeq([i \in DOMAIN refs |-> IF moved(refs[i]) THEN ChildrenOf(refs[i]) ELSE <<>>])

\* (variant) referential actions are a matter of DELETE only
execRowAlone(w, me, s, c) ==
  LET t   == w.catalog.tables[c.h]
      cur == Current(w, c.h, c.v)
  IN IF ~Selects(t, s.where, cur) THEN w
     ELSE IF s.op = "update" THEN Then(w, <<WriteCall(c.h, c.v, Assigned(t, cur, s.set, cur))>>)
     ELSE Then(w, Append(applyRefActions(w, me, c.h, cur, <<>>), WriteCall(c.h, c.v, <<>>)))

\* ExecUpdate and ExecDelete, the body of the loop.  The version was scanned
\* when the statement began, and is not looked at again.
execRow(w, me, s, c) ==
  LET t    == w.catalog.tables[c.h]
      cur  == Current(w, c.h, c.v)
      next == IF s.op = "update" THEN Assigned(t, cur, s.set, cur) ELSE <<>>
  IN IF ~Selects(t, s.where, cur) THEN w
     ELSE IF s.op = "update" /\ ~runChecks(t, next) THEN Failed(w)
     ELSE Then([w EXCEPT !.seen = {}],
               Append(applyRefActions(w, me, c.h, cur, next), WriteCall(c.h, c.v, next)))

execWrite(w, me, c) ==
  IF c.next = <<>> THEN HeapDelete(w, me, c.h, c.v) ELSE Update(w, me, c.h, c.v, c.next)

\* refReplacement: a column without a DEFAULT goes to NULL either way.
refReplacement(t, cols, action, row) ==
  [i \in DOMAIN row |-> IF ~Contains(cols, i) THEN row[i]
                        ELSE IF action = "set null" THEN NULL ELSE t.columns[i].default]

\* The child follows its parent's key.
follow(fk, row, parent) ==
  [i \in DOMAIN row |-> LET k == SelectInSeq(fk.cols, LAMBDA o : o = i)
                        IN IF k = 0 THEN row[i] ELSE parent[fk.parentCols[k]]]

applyRefAction(w, me, c) ==
  LET t      == w.catalog.tables[c.h]
      fk     == t.foreignKeys[c.fk]
      cur    == Current(w, c.h, c.v)
      action == IF c.next = <<>> THEN fk.onDelete ELSE fk.onUpdate
      marked == [w EXCEPT !.seen = @ \cup {<<c.h, c.v>>}, !.wrote = @ \cup {c.h}]
      moved  == follow(fk, cur, c.next)
      after  == Update(marked, me, c.h, c.v, moved)
      told[x \in {after}] == IF x.ok THEN Then(x, applyRefActions(x, me, c.h, cur, moved)) ELSE x
  IN IF <<c.h, c.v>> \in w.seen THEN w
     ELSE CASE action = "cascade" /\ c.next = <<>> ->
                 Then(marked, Append(applyRefActions(marked, me, c.h, cur, <<>>),
                                     RemoveCall(c.h, c.v)))
            [] action = "cascade" /\ c.next # <<>> ->
                 told[after]
            [] action \in {"set null", "set default"} ->
                 Update(marked, me, c.h, c.v, refReplacement(t, fk.cols, action, cur))
            [] OTHER -> Failed(w)

\* (variant) what the statement itself has inserted is not looked at
findCommitted(w, me, h, arbiter, row) ==
  LET t == w.catalog.tables[h]
      collides(v) == \E k \in DOMAIN t.keys :
        ~anyNull(row, t.keys[k].cols) /\ matchesKey(Current(w, h, v), t.keys[k].cols, row, t.keys[k].cols)
      vs == SelectSeq(ScanOf(w.heap[h], NoTx, me.snap), collides)
  IN IF vs = <<>> THEN 0 ELSE vs[1]

\* The version the proposed row collides with, or 0: on the arbiter, or on any
\* key when there is none, a partial index being none.
find(w, me, h, arbiter, row) ==
  LET t    == w.catalog.tables[h]
      total == SelectSeq(t.indexes, LAMBDA x : x.unique /\ x.where = NoPredicate)
      keys == IF arbiter # <<>> THEN {columnOrdinals(t, arbiter)}
              ELSE {t.keys[k].cols : k \in DOMAIN t.keys} \cup {total[x].cols : x \in DOMAIN total}
      collides(v) == \E cols \in keys :
        /\ ~anyNull(row, cols)
        /\ ~anyNull(Current(w, h, v), cols)
        /\ matchesKey(Current(w, h, v), cols, row, cols)
  IN LET vs == SelectSeq(Scan(w, me, h), collides) IN IF vs = <<>> THEN 0 ELSE vs[1]

\* ON CONFLICT DO UPDATE.  Nothing is told to the rows that refer to this one.
resolve(w, me, s, c, existing, row) ==
  LET t      == w.catalog.tables[c.h]
      stored == Current(w, c.h, existing)
      next   == Assigned(t, stored, s.conflict.set, stored \o row)
  IN IF s.conflict.action = "nothing" \/ ~Selects(t, s.conflict.where, stored) THEN w
     ELSE IF ~runChecks(t, next) THEN Failed(w)
     ELSE Update(w, me, c.h, existing, next)

\* ExecInsert's store.  Numbers are drawn before anything can fail, and stay
\* drawn.
store(w, me, s, c) ==
  LET t     == w.catalog.tables[c.h]
      names == targets(t, s)
      given(i) == SelectInSeq(names, LAMBDA n : n = t.columns[i].name)
      serial(i) == given(i) = 0 /\ t.columns[i].ident # "none"
      row   == [i \in DOMAIN t.columns |->
                  IF given(i) # 0 THEN c.next[given(i)]
                  ELSE IF serial(i) THEN t.columns[i].nextSerial
                  ELSE t.columns[i].default]
      NextSerial == [w EXCEPT !.catalog.tables[c.h].columns =
                       [i \in DOMAIN t.columns |->
                          IF serial(i) THEN [t.columns[i] EXCEPT !.nextSerial = @ + 1] ELSE t.columns[i]]]
      existing == IF s.conflict.action = "none" THEN 0
                  ELSE find(w, me, c.h, s.conflict.arbiter, row)
  IN IF existing # 0 THEN resolve(NextSerial, me, s, c, existing, row)
     ELSE IF ~runChecks(t, row) THEN Failed(NextSerial)
     ELSE Insert(NextSerial, me, c.h, row)

execCall(w, me, s, c) ==
  CASE c.call = "row"    -> execRow(w, me, s, c)
    [] c.call = "write"  -> execWrite(w, me, c)
    [] c.call = "child"  -> applyRefAction(w, me, c)
    [] c.call = "remove" -> HeapDelete(w, me, c.h, c.v)
    [] OTHER             -> store(w, me, s, c)

(***************************************************************************)
(* The checks that end a statement: of the table it names, unless it is a  *)
(* DELETE, and of the others that referential actions wrote to.            *)
(***************************************************************************)
CheckForeignKeys(w, me, h) ==
  LET rows == Rows(w, me, h) IN
  \A fk \in ToSet(w.catalog.tables[h].foreignKeys) :
    LET parentRows == Rows(w, me, fk.parent)
    IN \A r \in DOMAIN rows : checkReference(fk, rows[r], parentRows)

CheckTable(w, me, h) ==
  checkUnique(w.catalog.tables[h], Rows(w, me, h)) /\ CheckForeignKeys(w, me, h)

\* (variant) only what referential actions wrote is checked
CheckedOthers(s, h, wrote) == wrote \ {h}

\* (variant) only the table the statement names is checked
CheckedOwn(s, h, wrote) == IF s.op = "delete" THEN {} ELSE {h}

Checked(s, h, wrote) == (IF s.op = "delete" THEN {} ELSE {h}) \cup (wrote \ {h})

(***************************************************************************)
(* Sessions.                                                               *)
(***************************************************************************)
NoStatement == [op |-> "none"]

Idle == [tx |-> NoTx, snap |-> {}, level |-> "RC", explicit |-> FALSE, failed |-> FALSE,
         writing |-> FALSE, stmt |-> NoStatement, h |-> NoTable, agenda |-> <<>>,
         seen |-> {}, wrote |-> {}, before |-> <<>>]

World(me) == [heap |-> heap, catalog |-> catalog, wrote |-> me.wrote, seen |-> me.seen,
              agenda |-> me.agenda, ok |-> TRUE]

Running(me) == me.stmt # NoStatement

\* A session between statements.
AtRest(me) == [me EXCEPT !.stmt = NoStatement, !.h = NoTable, !.agenda = <<>>, !.seen = {},
                         !.wrote = {}, !.before = <<>>]

Begin(s, level) ==
  /\ session[s].tx = NoTx /\ Len(status) < scenario.maxTx
  /\ status' = Append(status, "active")
  /\ session' = [session EXCEPT ![s] =
       [Idle EXCEPT !.tx = Len(status) + 1, !.snap = Taken, !.level = level, !.explicit = TRUE]]
  /\ UNCHANGED <<scenario, catalog, heap, begun, restarts>>

\* (variant) the connection keeps its transaction
CommitKeeping(s) ==
  LET me == session[s] IN
  /\ me.explicit /\ ~Running(me)
  /\ status' = [status EXCEPT ![me.tx] = "committed"]
  /\ UNCHANGED <<scenario, catalog, heap, session, begun, restarts>>

\* Tx.Commit rolls a failed transaction back.
Commit(s) ==
  LET me == session[s] IN
  /\ me.explicit /\ ~Running(me)
  /\ status' = [status EXCEPT ![me.tx] = IF me.failed THEN "aborted" ELSE "committed"]
  /\ session' = [session EXCEPT ![s] = Idle]
  /\ UNCHANGED <<scenario, catalog, heap, begun, restarts>>

Rollback(s) ==
  LET me == session[s] IN
  /\ me.explicit /\ ~Running(me)
  /\ status' = [status EXCEPT ![me.tx] = "aborted"]
  /\ session' = [session EXCEPT ![s] = Idle]
  /\ UNCHANGED <<scenario, catalog, heap, begun, restarts>>

\* withTx, around a statement that fails: the transaction is poisoned, or
\* rolled back when it is the statement's own.
Fails(s, me) ==
  /\ status' = IF me.explicit THEN status ELSE [status EXCEPT ![me.tx] = "aborted"]
  /\ session' = [session EXCEPT ![s] = IF me.explicit THEN [AtRest(me) EXCEPT !.failed = TRUE]
                                       ELSE Idle]

\* ... and around one that succeeds.
Succeeds(s, me) ==
  /\ status' = IF me.explicit THEN status ELSE [status EXCEPT ![me.tx] = "committed"]
  /\ session' = [session EXCEPT ![s] = IF me.explicit THEN AtRest(me) ELSE Idle]

\* The other connections that are in the middle of writing.
OtherWriters(s) == {o \in Sessions \ {s} : session[o].writing}

\* The session in the transaction its next statement runs in.
Entered(s) ==
  LET me == session[s] IN
  IF me.explicit THEN [me EXCEPT !.snap = IF me.level = "RC" THEN Taken ELSE @, !.writing = TRUE]
  ELSE [Idle EXCEPT !.tx = Len(status) + 1, !.snap = Taken, !.writing = TRUE]

MayStart(s) ==
  LET me == session[s] IN
  /\ ~Running(me) /\ ~me.failed
  /\ me.explicit \/ Len(status) < scenario.maxTx
  /\ begun < scenario.maxBegun
  /\ scenario.alone => OtherWriters(s) = {} /\ Entered(s).snap = Taken

\* An implicit transaction that ends in the step that begins it.
Once(outcome) == Append(status, outcome)

\* NextStatement or a transaction of its own, then the scan the loop walks, or
\* the rows of the VALUES.  A statement that does not bind is refused by Prepare,
\* before there is a transaction.
Start(s, stmt) ==
  LET me    == Entered(s)
      h     == Lookup(catalog, stmt.table)
      calls == IF stmt.op = "insert" THEN [i \in DOMAIN stmt.rows |-> StoreCall(h, stmt.rows[i])]
               ELSE LET vs == ScanOf(heap[h], me.tx, me.snap)
                    IN [i \in DOMAIN vs |-> RowCall(h, vs[i])]
      before == [g \in DOMAIN heap |-> ScanOf(heap[g], me.tx, me.snap)]
  IN /\ ~IsDDL(stmt) /\ MayStart(s) /\ Bind(catalog, stmt)
     /\ status' = IF me.explicit THEN status ELSE Once("active")
     /\ session' = [session EXCEPT ![s] =
          [me EXCEPT !.stmt = stmt, !.h = h, !.agenda = calls, !.before = before]]
     /\ begun' = begun + 1
     /\ UNCHANGED <<scenario, catalog, heap, restarts>>

\* One call.  A statement that fails leaves behind what it wrote, under a
\* transaction nobody will see.
Step(s) ==
  LET me == session[s] IN
  /\ Running(me) /\ me.agenda # <<>>
  /\ \E w \in {execCall([World(me) EXCEPT !.agenda = Tail(@)], me, me.stmt, Head(me.agenda))} :
       /\ heap' = w.heap /\ catalog' = w.catalog
       /\ IF w.ok
          THEN /\ session' = [session EXCEPT ![s] =
                    [me EXCEPT !.agenda = w.agenda, !.seen = w.seen, !.wrote = w.wrote]]
               /\ UNCHANGED status
          ELSE Fails(s, me)
  /\ UNCHANGED <<scenario, begun, restarts>>

Accepted(me) == \A h \in Checked(me.stmt, me.h, me.wrote) : CheckTable(World(me), me, h)

Finish(s) ==
  LET me == session[s] IN
  /\ Running(me) /\ me.agenda = <<>>
  /\ IF Accepted(me) THEN Succeeds(s, me) ELSE Fails(s, me)
  /\ UNCHANGED <<scenario, catalog, heap, begun, restarts>>

(***************************************************************************)
(* Schema statements.  They change the catalog at once and for everybody;  *)
(* only the transaction around them can be rolled back.  None runs while   *)
(* there are rows that are not committed, its own transaction's included.  *)
(***************************************************************************)
\* Whether all versions there are agree with an index that is created now.
Sound(stmt) ==
  LET h == Lookup(catalog, stmt.table)
      t == catalog.tables[h]
  IN ~stmt.unique \/ checkUniqueOver(t, [i \in DOMAIN heap[h] |-> Values(t, heap[h][i].vals)],
                                     columnOrdinals(t, stmt.cols), stmt.where)

DDL(me, stmt) ==
  CASE stmt.op = "create table"  -> CreateTable(catalog, stmt)
    [] stmt.op = "drop table"    -> DropTable(catalog, stmt)
    [] stmt.op = "add column"    -> AddColumn(catalog, stmt)
    [] stmt.op = "rename table"  -> RenameTable(catalog, stmt)
    [] stmt.op = "rename column" -> RenameColumn(catalog, stmt)
    [] stmt.op = "set not null"  -> SetNotNull(catalog, stmt, Rows(World(me), me, Lookup(catalog, stmt.table)))
    [] stmt.op = "create index"  -> CreateIndex(catalog, stmt, Sound(stmt))
    [] stmt.op = "drop index"    -> DropIndex(catalog, stmt)

BindsDDL(stmt) ==
  CASE stmt.op = "create table" -> bindCreateTable(catalog, stmt) # {}
    [] stmt.op = "add column"   -> bindAddColumn(catalog, stmt) # {}
    [] stmt.op = "create index" -> bindCreateIndex(catalog, stmt)
    [] OTHER -> TRUE

execDDL(s, stmt) ==
  LET me == Entered(s)
      outcomes == DDL(me, stmt)
  IN /\ IsDDL(stmt) /\ MayStart(s) /\ BindsDDL(stmt)
     /\ OtherWriters(s) = {} /\ ~session[s].writing
     /\ \A o \in Sessions : ~Running(session[o])
     /\ IF outcomes = {}
        THEN /\ session' = [session EXCEPT ![s] = IF me.explicit THEN [me EXCEPT !.failed = TRUE] ELSE Idle]
             /\ status' = IF me.explicit THEN status ELSE Once("aborted")
             /\ UNCHANGED <<catalog, heap>>
        ELSE /\ catalog' \in outcomes
             /\ heap' = [h \in DOMAIN catalog'.tables |-> IF h \in DOMAIN heap THEN heap[h] ELSE <<>>]
             /\ session' = [session EXCEPT ![s] = IF me.explicit THEN me ELSE Idle]
             /\ status' = IF me.explicit THEN status ELSE Once("committed")
     /\ begun' = begun + 1
     /\ UNCHANGED <<scenario, restarts>>

\* The process dies and the database is opened again: committed rows, and
\* sequences rebuilt from them.
Restart ==
  LET kept(h) == Only(heap[h], {v \in ToSet(heap[h]) : Visible(v, NoTx, Taken)})
      rows(h) == [i \in DOMAIN kept(h) |-> Values(catalog.tables[h], kept(h)[i].vals)]
  IN /\ restarts < scenario.maxRestarts
     /\ restarts' = restarts + 1
     /\ heap' = [h \in DOMAIN heap |-> [i \in DOMAIN kept(h) |-> Version(kept(h)[i].vals, Boot)]]
     /\ catalog' = [catalog EXCEPT !.tables =
          [h \in DOMAIN @ |-> RestoreSequences(@[h], rows(h))]]
     /\ status' = <<"committed">>
     /\ session' = [s \in Sessions |-> Idle]
     /\ UNCHANGED <<scenario, begun>>

(***************************************************************************)
(* A scenario is a schema, the statements in use, and bounds:              *)
(*   create: CREATE TABLE and CREATE INDEX statements, run in order        *)
(*   rows: for each table created, the rows it holds then                  *)
(*   statements: what the connections may run                              *)
(*   levels: the isolation levels of explicit transactions, {} for none    *)
(*   alone: a transaction writes only while no other is, and to what it    *)
(*     would see if it had begun now                                       *)
(*   sessions: the connections there are                                   *)
(*   maxTx, maxBegun, maxRestarts: bounds on the transactions, statements  *)
(*     and restarts of a behaviour                                         *)
(***************************************************************************)
Creating(c, s) ==
  IF s.op = "create table" THEN CreateTable(c, s)
  ELSE IF bindCreateIndex(c, s) THEN CreateIndex(c, s, TRUE) ELSE {}

CatalogAfter(creates) ==
  LET after[n \in 0..Len(creates)] ==
        IF n = 0 THEN EmptyCatalog ELSE CHOOSE d \in Creating(after[n - 1], creates[n]) : TRUE
  IN after

Created(creates) == CatalogAfter(creates)[Len(creates)]

SchemaChanges == {"create table", "drop table", "add column", "rename table", "rename column",
                  "set not null", "create index", "drop index"}

\* Statements name tables with the names there are; what a statement lists is a
\* sequence.
IsList(q) == Len(q) \in Nat /\ q = [i \in 1..Len(q) |-> q[i]]

WellFormed(s) ==
  /\ s.op \in {"insert", "update", "delete"} \cup SchemaChanges
  /\ s.op \notin {"drop table", "drop index"} => s.table \in TableNames
  /\ s.op = "drop table" => s.tables \subseteq TableNames
  /\ s.op = "rename table" => s.to \in TableNames
  /\ s.op = "create table" => IsList(s.columns) /\ IsList(s.checks)
  /\ s.op = "add column" => IsList(s.checks)
  /\ s.op = "insert" => IsList(s.rows)
  /\ s.op \in {"create table", "add column"} =>
       IsList(s.refs) /\ \A i \in DOMAIN s.refs : s.refs[i].parent \in TableNames

\* The tables that a scenario begins with can be created.
ASSUME ScenariosAssumption == \A sc \in Scenarios :
  /\ \A s \in sc.statements : WellFormed(s)
  /\ IsList(sc.create)
  /\ \A i \in DOMAIN sc.create :
       /\ sc.create[i].op \in {"create table", "create index"} /\ WellFormed(sc.create[i])
       /\ Creating(CatalogAfter(sc.create)[i - 1], sc.create[i]) # {}

\* The rows they hold then are rows of them, and their connections are there.
ASSUME RowsAssumption == \A sc \in Scenarios :
  /\ sc.sessions \subseteq Sessions
  /\ \A h \in DOMAIN Created(sc.create).tables :
       LET t == Created(sc.create).tables[h] IN
       /\ IsList(sc.rows[h])
       /\ \A i \in DOMAIN sc.rows[h] :
            /\ IsList(sc.rows[h][i]) /\ Len(sc.rows[h][i]) \in 0..Len(t.columns)
            /\ checkRow(t, Values(t, sc.rows[h][i])) /\ runChecks(t, Values(t, sc.rows[h][i]))
       /\ checkUnique(t, [i \in DOMAIN sc.rows[h] |-> Values(t, sc.rows[h][i])])

\* A database that has been opened: its rows are Boot's.
Init ==
  /\ scenario \in Scenarios
  /\ LET c == Created(scenario.create)
     IN catalog = [c EXCEPT !.tables = [h \in DOMAIN @ |-> RestoreSequences(@[h], scenario.rows[h])]]
  /\ heap = [h \in DOMAIN catalog.tables |->
               [i \in DOMAIN scenario.rows[h] |-> Version(scenario.rows[h][i], Boot)]]
  /\ status = <<"committed">>
  /\ session = [s \in Sessions |-> Idle]
  /\ begun = 0 /\ restarts = 0

Next ==
  \/ \E s \in scenario.sessions :
       \/ \E level \in scenario.levels : Begin(s, level)
       \/ Commit(s) \/ Rollback(s)
       \/ \E stmt \in scenario.statements : Start(s, stmt) \/ execDDL(s, stmt)
       \/ Step(s) \/ Finish(s)
  \/ Restart

Works(s) == Step(s) \/ Finish(s)

Spec == Init /\ [][Next]_vars /\ \A s \in Sessions : WF_vars(Works(s))

-----------------------------------------------------------------------------
(***************************************************************************)
(* Properties.                                                             *)
(***************************************************************************)
Tables == Present(catalog)
View(h, id, snap) == RowsOf(catalog.tables[h], heap[h], id, snap)

TypeOK ==
  /\ scenario \in Scenarios
  /\ DOMAIN heap = DOMAIN catalog.tables
  /\ \A n \in TableNames : catalog.names[n] \in {NoTable} \cup DOMAIN catalog.tables
  /\ \A i \in DOMAIN status : status[i] \in {"active", "committed", "aborted"}
  /\ \A h \in DOMAIN heap : \A i \in DOMAIN heap[h] :
       /\ heap[h][i].xmin \in DOMAIN status
       /\ heap[h][i].xmax \in {NoTx} \cup DOMAIN status
       /\ Len(heap[h][i].vals) <= Len(catalog.tables[h].columns)
  /\ \A s \in Sessions : /\ session[s].tx \in {NoTx} \cup DOMAIN status
                         /\ session[s].tx # NoTx => status[session[s].tx] = "active"
                         /\ Running(session[s]) => session[s].tx # NoTx

\* What a statement that starts now would see: anybody's, and that of each open
\* transaction that has not failed.  A snapshot that is held is seen too.
FreshViews == {[tx |-> NoTx, snap |-> Taken]}
              \cup {[tx |-> session[s].tx, snap |-> Taken] :
                      s \in {o \in Sessions : session[o].tx # NoTx /\ ~Running(session[o]) /\ ~session[o].failed}}
Views == FreshViews
         \cup {[tx |-> session[s].tx, snap |-> session[s].snap] :
                 s \in {o \in Sessions : session[o].tx # NoTx /\ ~Running(session[o]) /\ ~session[o].failed}}

\* No view holds a duplicate of a primary key, a UNIQUE constraint or a unique
\* index, whatever cascades and ON CONFLICT clauses wrote: a collision is only
\* looked for once the statement has written its last row.
KeysHold == \A h \in Tables, v \in Views :
  LET t == catalog.tables[h]
  IN checkUnique([t EXCEPT !.indexes = Only(@, {x \in ToSet(@) : x.sound})], View(h, v.tx, v.snap))

\* No view holds a row whose reference names no row of its parent.
ReferencesHold == \A h \in Tables, v \in Views :
  LET rows == View(h, v.tx, v.snap) IN
  \A fk \in ToSet(catalog.tables[h].foreignKeys) :
    LET parentRows == View(fk.parent, v.tx, v.snap)
    IN \A r \in DOMAIN rows : checkReference(fk, rows[r], parentRows)

\* Rows satisfy NOT NULL and CHECK, those older than a column or a constraint
\* included.
RowsValid == \A h \in Tables, v \in FreshViews :
  LET rows == View(h, v.tx, v.snap) IN
  \A r \in DOMAIN rows : /\ checkRow(catalog.tables[h], rows[r])
                         /\ runChecks(catalog.tables[h], rows[r])

\* A generated key is generated once, restarts and rollbacks included.
IdentityDistinct == \A h \in Tables, v \in FreshViews : \A i \in DOMAIN catalog.tables[h].columns :
  catalog.tables[h].columns[i].ident = "always" =>
    LET rows == View(h, v.tx, v.snap)
    IN \A a, b \in DOMAIN rows : rows[a][i] = rows[b][i] => a = b

\* The lists a parent keeps of the references to it are exactly the foreign keys
\* of the tables there are, and no table refers to one that is gone.
ReferencedByAgrees == \A h \in Tables :
  LET refs == catalog.tables[h].referencedBy
  IN /\ IsInjective(refs)
     /\ ToSet(refs) = UNION {{[child |-> g, fk |-> f] :
          f \in {i \in DOMAIN catalog.tables[g].foreignKeys : catalog.tables[g].foreignKeys[i].parent = h}}
          : g \in Tables}
     /\ \A f \in DOMAIN catalog.tables[h].foreignKeys : catalog.tables[h].foreignKeys[f].parent \in Tables

\* What is stored as syntax still binds, or nothing could be written to the table.
StoredSyntaxResolves == \A h \in Tables :
  LET t == catalog.tables[h]
  IN /\ \A i \in DOMAIN t.checks : Binds(t, t.checks[i])
     /\ \A x \in DOMAIN t.indexes : Binds(t, t.indexes[x].where)

(***************************************************************************)
(* What a DELETE and an UPDATE mean, without an order: functions of the    *)
(* rows there were when the statement began, against which the rows there  *)
(* are when it has passed its checks are compared.                         *)
(***************************************************************************)
Done(me) == Running(me) /\ me.agenda = <<>> /\ Accepted(me)

Old(g, v) == Values(catalog.tables[g], heap[g][v].vals)
OldRows(me) == UNION {{<<g, v>> : v \in ToSet(me.before[g])} : g \in DOMAIN me.before}

\* Row r refers to row p by foreign key f of its table.
PointsAt(r, f, p) ==
  LET fk == catalog.tables[r[1]].foreignKeys[f]
  IN /\ fk.parent = p[1] /\ ~anyNull(Old(r[1], r[2]), fk.cols)
     /\ matchesKey(Old(r[1], r[2]), fk.cols, Old(p[1], p[2]), fk.parentCols)

FKs(r) == DOMAIN catalog.tables[r[1]].foreignKeys
Times(n) == [i \in 1..n |-> i]

Matched(me) ==
  {r \in OldRows(me) : r[1] = me.h /\ Selects(catalog.tables[me.h], me.stmt.where, Old(r[1], r[2]))}

\* The rows that go: those matched, and whatever a CASCADE leads to from them.
Doomed(me) ==
  LET more(gone, i) == gone \cup {r \in OldRows(me) : \E f \in FKs(r), p \in gone :
                         catalog.tables[r[1]].foreignKeys[f].onDelete = "cascade" /\ PointsAt(r, f, p)}
  IN FoldLeft(more, Matched(me), Times(Cardinality(OldRows(me))))

\* A row that stays, where reference f has its parent in the set gone.
Released(row, r, gone) ==
  LET t == catalog.tables[r[1]]
      release(x, f) == IF \E p \in gone : PointsAt(r, f, p)
                       THEN refReplacement(t, t.foreignKeys[f].cols, t.foreignKeys[f].onDelete, x)
                       ELSE x
  IN FoldLeft(release, row, Times(Len(t.foreignKeys)))

\* The rows after an UPDATE, a function on OldRows: the assignments, and then
\* each reference where its parent's key went, as far as that leads.
Moved(me) ==
  LET direct == [r \in OldRows(me) |->
                   IF r \in Matched(me)
                   THEN Assigned(catalog.tables[r[1]], Old(r[1], r[2]), me.stmt.set, Old(r[1], r[2]))
                   ELSE Old(r[1], r[2])]
      moves(new, p, fk) == ~matchesKey(Old(p[1], p[2]), fk.parentCols, new[p], fk.parentCols)
      one(new, r, row, f) ==
        LET fk == catalog.tables[r[1]].foreignKeys[f]
            ps == {p \in OldRows(me) : PointsAt(r, f, p) /\ moves(new, p, fk)}
        IN IF ps = {} THEN row
           ELSE IF fk.onUpdate = "cascade" THEN follow(fk, row, new[CHOOSE p \in ps : TRUE])
           ELSE refReplacement(catalog.tables[r[1]], fk.cols, fk.onUpdate, row)
      all(new, i) == [r \in OldRows(me) |->
        FoldLeft(LAMBDA row, f : one(new, r, row, f), direct[r], Times(Len(catalog.tables[r[1]].foreignKeys)))]
  IN FoldLeft(all, direct, Times(Cardinality(OldRows(me))))

\* The rows of table g a session sees are those of the function, as often.
Holds(me, g, rows) ==
  LET now == View(g, me.tx, me.snap)
      old == {r \in DOMAIN rows : r[1] = g}
  IN \A x \in ToSet(now) \cup {rows[r] : r \in old} :
       Cardinality({i \in DOMAIN now : now[i] = x}) = Cardinality({r \in old : rows[r] = x})

\* A DELETE that succeeds removes the closure of the rows it matched under ON
\* DELETE CASCADE, lets go of the references to them, and does nothing else: in
\* whatever order the rows come, through cycles and diamonds.
DeleteMeansClosure == \A s \in Sessions :
  LET me   == session[s]
      gone == Doomed(me)
  IN me.stmt.op = "delete" /\ Done(me) =>
       \A g \in DOMAIN me.before :
         Holds(me, g, [r \in OldRows(me) \ gone |-> Released(Old(r[1], r[2]), r, gone)])

\* An UPDATE that succeeds changes each row it matches once, and each reference
\* to where its own parent went; no row is lost or made.
UpdateFollows == \A s \in Sessions :
  LET me == session[s]
      rows == Moved(me)
  IN me.stmt.op = "update" /\ Done(me) => \A g \in DOMAIN me.before : Holds(me, g, rows)

\* A bare DO NOTHING yields to every total key, its own earlier rows included.
OnConflictYields == \A s \in Sessions :
  LET me == session[s]
      t  == catalog.tables[me.h]
  IN Running(me) /\ me.agenda = <<>> /\ me.stmt.op = "insert" =>
       (me.stmt.conflict.action = "nothing" /\ me.stmt.conflict.arbiter = <<>> =>
          checkUnique([t EXCEPT !.indexes = SelectSeq(@, LAMBDA x : x.where = NoPredicate)],
                      View(me.h, me.tx, me.snap)))

\* Every statement ends, whatever cycle its cascades follow.
StatementsEnd == \A s \in Sessions : Running(session[s]) ~> ~Running(session[s])
=============================================================================
