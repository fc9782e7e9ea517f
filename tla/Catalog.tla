------------------------------ MODULE Catalog -------------------------------
(***************************************************************************)
(* internal/catalog/catalog.go and the binding of schema statements in     *)
(* internal/binder: the definitions of the tables, what a schema statement *)
(* makes of them, and the constraints a set of rows is held to.            *)
(*                                                                         *)
(* A catalog is a value: names, the table a name refers to, and tables,    *)
(* the *Table structs in order of creation, so that a number stands for a  *)
(* pointer.  A schema statement is an operator from a catalog to the set   *)
(* of its outcomes, which is empty when the statement fails: Statements    *)
(* runs them.  There is one schema, and columns hold numbers or NULL: the  *)
(* system views and the types are left out.                                *)
(***************************************************************************)
EXTENDS Naturals, Sequences, FiniteSets, SequencesExt

CONSTANTS
  TableNames,   \* names a table can have
  NULL          \* the SQL null

NoTable == 0

\* The elements of a sequence that are in a set, in their order.
Only(seq, S) ==
  LET upTo[n \in 0..Len(seq)] ==
        IF n = 0 THEN <<>>
        ELSE IF seq[n] \in S THEN Append(upTo[n - 1], seq[n]) ELSE upTo[n - 1]
  IN upTo[Len(seq)]

EmptyCatalog == [names |-> [n \in TableNames |-> NoTable], tables |-> <<>>]

Lookup(c, name) == c.names[name]

\* The ordinal of a column, or 0.
ColumnIndex(t, name) == SelectInSeq(t.columns, LAMBDA col : col.name = name)

columnOrdinals(t, names) == [i \in DOMAIN names |-> ColumnIndex(t, names[i])]

\* columnOrdinals refuses an unknown name and a repeated one.
AreColumns(t, names) == \A i \in DOMAIN names :
  /\ ColumnIndex(t, names[i]) # 0
  /\ \A j \in DOMAIN names : names[i] = names[j] => i = j

(***************************************************************************)
(* Predicates: CHECK, WHERE, and the predicate of a partial index.  They   *)
(* are kept as syntax, naming one column.  A comparison with NULL is       *)
(* unknown, which satisfies a CHECK and selects no row.                    *)
(***************************************************************************)
NoPredicate == [rel |-> "none", col |-> "", val |-> NULL]

Binds(t, p) == p.rel = "none" \/ ColumnIndex(t, p.col) # 0

Truth(t, p, row) ==
  IF p.rel = "none" THEN "true" ELSE
  LET x == row[ColumnIndex(t, p.col)] IN
  IF x = NULL THEN "unknown" ELSE
  CASE p.rel = "eq"  -> IF x = p.val THEN "true" ELSE "false"
    [] p.rel = "min" -> IF x >= p.val THEN "true" ELSE "false"

Selects(t, p, row) == Truth(t, p, row) = "true"
runChecks(t, row)  == \A i \in DOMAIN t.checks : Truth(t, t.checks[i], row) # "false"

(***************************************************************************)
(* Rows.                                                                   *)
(***************************************************************************)
\* A row stored before an ADD COLUMN reads the value recorded for it.
Values(t, vals) ==
  [i \in DOMAIN t.columns |-> IF i \in DOMAIN vals THEN vals[i] ELSE t.columns[i].missing]

checkRow(t, row) == \A i \in DOMAIN t.columns : t.columns[i].notNull => row[i] # NULL

anyNull(row, cols) == \E i \in DOMAIN cols : row[cols[i]] = NULL

matchesKey(a, aCols, b, bCols) == \A i \in DOMAIN aCols : a[aCols[i]] = b[bCols[i]]

\* rows is a function: the same row may be there twice.
checkUniqueOver(t, rows, cols, where) ==
  \A i, j \in DOMAIN rows :
    \/ i = j \/ anyNull(rows[i], cols)
    \/ ~Selects(t, where, rows[i]) \/ ~Selects(t, where, rows[j])
    \/ ~matchesKey(rows[i], cols, rows[j], cols)

checkUnique(t, rows) ==
  /\ \A k \in DOMAIN t.keys : checkUniqueOver(t, rows, t.keys[k].cols, NoPredicate)
  /\ \A x \in DOMAIN t.indexes :
       t.indexes[x].unique => checkUniqueOver(t, rows, t.indexes[x].cols, t.indexes[x].where)

\* A reference with a NULL in it points nowhere.
checkReference(fk, row, parentRows) ==
  \/ anyNull(row, fk.cols)
  \/ \E i \in DOMAIN parentRows : matchesKey(row, fk.cols, parentRows[i], fk.parentCols)

(***************************************************************************)
(* CREATE TABLE.                                                           *)
(***************************************************************************)
\* A key covers exactly the columns, in any order.
hasUniqueKeyOver(t, cols) == \E k \in DOMAIN t.keys :
  Len(t.keys[k].cols) = Len(cols) /\ ToSet(cols) \subseteq ToSet(t.keys[k].cols)

\* The columns a reference means: the ones it names, or the primary key.
referencedColumns(parent, r) ==
  IF r.parentCols # <<>> THEN columnOrdinals(parent, r.parentCols)
  ELSE LET pk == SelectInSeq(parent.keys, LAMBDA k : k.primary)
       IN IF pk = 0 THEN <<>> ELSE parent.keys[pk].cols

\* A reference as written, of table h with the definition t, against catalog c.
\* cols are its own ordinals: a column that is being added has one already.
resolveForeignKey(c, h, t, r, cols) ==
  LET parent == IF r.parent = t.name THEN h ELSE Lookup(c, r.parent)
      def    == IF parent = h THEN t ELSE c.tables[parent]
      pcols  == referencedColumns(def, r)
  IN IF \/ parent = NoTable
        \/ ~AreColumns(def, r.parentCols)
        \/ pcols = <<>>
        \/ Len(pcols) # Len(cols)
        \/ ~hasUniqueKeyOver(def, pcols)
     THEN {}
     ELSE {[cols |-> cols, parent |-> parent, parentCols |-> pcols,
            onDelete |-> r.onDelete, onUpdate |-> r.onUpdate]}

\* PRIMARY KEY makes its columns NOT NULL.
applyKeys(cols, keys) ==
  LET inKey(col) == \E k \in DOMAIN keys : keys[k].primary /\ Contains(keys[k].cols, col.name)
  IN [i \in DOMAIN cols |->
        [name |-> cols[i].name, ident |-> cols[i].ident, default |-> cols[i].default,
         primaryKey |-> inKey(cols[i]),
         notNull |-> cols[i].notNull \/ inKey(cols[i]) \/ cols[i].ident # "none",
         missing |-> NULL, nextSerial |-> 1]]

\* The definition before its references are resolved.
bareTable(s) ==
  LET cols == applyKeys(s.columns, s.keys)
  IN [name |-> s.table, columns |-> cols, checks |-> s.checks, foreignKeys |-> <<>>,
      keys |-> [k \in DOMAIN s.keys |->
                  [primary |-> s.keys[k].primary,
                   cols |-> columnOrdinals([columns |-> cols], s.keys[k].cols)]],
      indexes |-> <<>>, referencedBy |-> <<>>]

\* (variant) only the first reference is registered
AddFirstReferencing(tables, h) ==
  IF tables[h].foreignKeys = <<>> THEN tables
  ELSE [tables EXCEPT ![tables[h].foreignKeys[1].parent].referencedBy =
                        Append(@, [child |-> h, fk |-> 1])]

\* The references of table h, as the tables it refers to learn of them.
ReferencesOf(tables, h) == [i \in DOMAIN tables[h].foreignKeys |-> [child |-> h, fk |-> i]]

\* The tables h refers to each learn of the reference, in order.
AddReferencing(tables, h) ==
  LET refs == ReferencesOf(tables, h)
      to(g) == {r \in ToSet(refs) : tables[h].foreignKeys[r.fk].parent = g}
  IN [g \in DOMAIN tables |-> [tables[g] EXCEPT !.referencedBy = @ \o Only(refs, to(g))]]

bindCreateTable(c, s) ==
  LET h   == Len(c.tables) + 1
      t   == bareTable(s)
      own(i) == columnOrdinals(t, s.refs[i].cols)
      fk(i)  == resolveForeignKey(c, h, t, s.refs[i], own(i))
  IN IF \/ \E k \in DOMAIN s.keys : ~AreColumns(t, s.keys[k].cols)
        \/ Len(SelectSeq(s.keys, LAMBDA k : k.primary)) > 1
        \/ \E i \in DOMAIN s.checks : ~Binds(t, s.checks[i])
        \/ \E i \in DOMAIN s.refs : ~AreColumns(t, s.refs[i].cols) \/ fk(i) = {}
     THEN {}
     ELSE {[t EXCEPT !.foreignKeys = [i \in DOMAIN s.refs |-> CHOOSE f \in fk(i) : TRUE]]}

CreateTable(c, s) ==
  UNION {IF ~AreColumns(t, [i \in DOMAIN t.columns |-> t.columns[i].name]) THEN {}
         ELSE IF Lookup(c, s.table) # NoTable THEN (IF s.ifNotExists THEN {c} ELSE {})
         ELSE {[names  |-> [c.names EXCEPT ![s.table] = Len(c.tables) + 1],
                tables |-> AddReferencing(Append(c.tables, t), Len(c.tables) + 1)]}
         : t \in bindCreateTable(c, s)}

(***************************************************************************)
(* ALTER TABLE.                                                            *)
(***************************************************************************)
\* The value of the DEFAULT becomes what the stored rows read.  The outcomes are
\* the column with the reference it makes, if any.
bindAddColumn(c, s) ==
  LET h   == Lookup(c, s.table)
      t   == c.tables[h]
      col == [name |-> s.column.name, ident |-> "none", default |-> s.column.default,
              primaryKey |-> FALSE, notNull |-> s.column.notNull,
              missing |-> s.column.default, nextSerial |-> 1]
      fks == IF s.refs = <<>> THEN {<<>>}
             ELSE {<<f>> : f \in resolveForeignKey(c, h, t, s.refs[1], <<Len(t.columns) + 1>>)}
  IN IF h = NoTable \/ (col.notNull /\ col.missing = NULL) THEN {}
     ELSE {[column |-> col, fks |-> f] : f \in fks}

\* The CHECK is stored as it is: unlike CREATE TABLE, nothing binds it.
AddColumn(c, s) ==
  LET h == Lookup(c, s.table)
      n == Len(c.tables[h].foreignKeys) + 1
      extended(a) == [c.tables EXCEPT ![h].columns = Append(@, a.column), ![h].checks = @ \o s.checks,
                                      ![h].foreignKeys = @ \o a.fks]
      registered(a) ==
        IF a.fks = <<>> THEN extended(a)
        ELSE [extended(a) EXCEPT ![a.fks[1].parent].referencedBy = Append(@, [child |-> h, fk |-> n])]
  IN UNION {IF ColumnIndex(c.tables[h], a.column.name) # 0 THEN (IF s.ifNotExists THEN {c} ELSE {})
            ELSE {[c EXCEPT !.tables = registered(a)]}
            : a \in bindAddColumn(c, s)}

RenameTable(c, s) ==
  LET h == Lookup(c, s.table) IN
  IF h = NoTable THEN {}
  ELSE IF s.to = s.table THEN {c}
  ELSE IF Lookup(c, s.to) # NoTable THEN {}
  ELSE {[names  |-> [c.names EXCEPT ![s.table] = NoTable, ![s.to] = h],
         tables |-> [c.tables EXCEPT ![h].name = s.to]]}

\* (variant) the predicate of an index is forgotten
dependsForgettingIndexes(t, name) == \E i \in DOMAIN t.checks : t.checks[i].col = name

\* What is stored as syntax names its columns: a CHECK and an index's
\* predicate.  A DEFAULT is constant.
dependsOnColumnName(t, name) ==
  \/ \E i \in DOMAIN t.checks : t.checks[i].col = name
  \/ \E x \in DOMAIN t.indexes : t.indexes[x].where.col = name

RenameColumn(c, s) ==
  LET h == Lookup(c, s.table)
      t == c.tables[h]
      i == ColumnIndex(t, s.column)
  IN IF h = NoTable \/ i = 0 THEN {}
     ELSE IF s.to = s.column THEN {c}
     ELSE IF ColumnIndex(t, s.to) # 0 \/ dependsOnColumnName(t, s.column) THEN {}
     ELSE {[c EXCEPT !.tables[h].columns[i].name = s.to]}

\* (variant) the rows there are stay as they are
SetNotNullBlindly(c, s, rows) ==
  LET h == Lookup(c, s.table)
      i == ColumnIndex(c.tables[h], s.column)
  IN IF h = NoTable \/ i = 0 THEN {} ELSE {[c EXCEPT !.tables[h].columns[i].notNull = s.notNull]}

\* rows: those of the table the transaction sees, at the table's width.
SetNotNull(c, s, rows) ==
  LET h == Lookup(c, s.table)
      t == c.tables[h]
      i == ColumnIndex(t, s.column)
  IN IF h = NoTable \/ i = 0 THEN {}
     ELSE IF t.columns[i].notNull = s.notNull THEN {c}
     ELSE IF ~s.notNull /\ t.columns[i].primaryKey THEN {}
     ELSE IF s.notNull /\ (\E r \in DOMAIN rows : rows[r][i] = NULL) THEN {}
     ELSE {[c EXCEPT !.tables[h].columns[i].notNull = s.notNull]}

(***************************************************************************)
(* Indexes and DROP TABLE.                                                 *)
(***************************************************************************)
Present(c) == {h \in DOMAIN c.tables : \E n \in TableNames : c.names[n] = h}

IndexNames(c, h) == {c.tables[h].indexes[x].name : x \in DOMAIN c.tables[h].indexes}

bindCreateIndex(c, s) ==
  /\ Lookup(c, s.table) # NoTable
  /\ AreColumns(c.tables[Lookup(c, s.table)], s.cols)
  /\ Binds(c.tables[Lookup(c, s.table)], s.where)

\* Index names are the schema's.  The rows already there are not looked at;
\* sound, which only the properties read, says whether they agree with it.
CreateIndex(c, s, sound) ==
  LET h  == Lookup(c, s.table)
      ix == [name |-> s.name, cols |-> columnOrdinals(c.tables[h], s.cols), unique |-> s.unique,
             where |-> s.where, sound |-> sound]
  IN IF \E g \in Present(c) : s.name \in IndexNames(c, g)
     THEN (IF s.ifNotExists THEN {c} ELSE {})
     ELSE {[c EXCEPT !.tables[h].indexes = Append(@, ix)]}

DropIndex(c, s) ==
  LET having == {h \in Present(c) : s.name \in IndexNames(c, h)} IN
  IF having = {} THEN (IF s.ifExists THEN {c} ELSE {})
  ELSE {[c EXCEPT !.tables[h].indexes = Only(@, {x \in ToSet(@) : x.name # s.name})] : h \in having}

Parents(tables, h) == {tables[h].foreignKeys[i].parent : i \in DOMAIN tables[h].foreignKeys}

\* (variant) a table that refers to itself is skipped altogether
detachUnlessSelf(tables, going) ==
  LET stays(g) == {r \in ToSet(tables[g].referencedBy) :
                     \/ r.child \notin going \/ g \notin Parents(tables, r.child)
                     \/ r.child \in Parents(tables, r.child)}
  IN [g \in DOMAIN tables |-> [tables[g] EXCEPT !.referencedBy = Only(@, stays(g))]]

\* detach takes each table that goes out of the lists of the others it refers to.
detach(tables, going) ==
  LET stays(g) == {r \in ToSet(tables[g].referencedBy) :
                     r.child \notin going \/ g \notin Parents(tables, r.child) \ {r.child}}
  IN [g \in DOMAIN tables |-> [tables[g] EXCEPT !.referencedBy = Only(@, stays(g))]]

\* All the named tables go or none: one that is referenced from outside stays.
DropTable(c, s) ==
  LET going == {Lookup(c, n) : n \in s.tables} \ {NoTable}
      referencedFromOutside(h) ==
        \E r \in ToSet(c.tables[h].referencedBy) : Lookup(c, c.tables[r.child].name) \notin going
  IN IF \/ ~s.ifExists /\ (\E n \in s.tables : Lookup(c, n) = NoTable)
        \/ \E h \in going : referencedFromOutside(h)
     THEN {}
     ELSE {[names  |-> [n \in TableNames |-> IF n \in s.tables THEN NoTable ELSE c.names[n]],
            tables |-> detach(c.tables, going)]}

\* (variant) the sequence goes on from the number of rows
RestoreSequencesFromCount(t, rows) ==
  [t EXCEPT !.columns = [i \in DOMAIN t.columns |->
     IF t.columns[i].ident = "none" THEN t.columns[i]
     ELSE [t.columns[i] EXCEPT !.nextSerial = Cardinality(DOMAIN rows) + 1]]]

\* RestoreSequences, over the rows recovery loaded.
RestoreSequences(t, rows) ==
  LET high(i) == {rows[r][i] : r \in {q \in DOMAIN rows : rows[q][i] # NULL}} \cup {0}
      next(i) == 1 + (CHOOSE m \in high(i) : \A v \in high(i) : v <= m)
  IN [t EXCEPT !.columns = [i \in DOMAIN t.columns |->
        IF t.columns[i].ident = "none" THEN t.columns[i]
        ELSE [t.columns[i] EXCEPT !.nextSerial = next(i)]]]

=============================================================================
