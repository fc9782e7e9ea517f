---------------------------- MODULE MCStatements ----------------------------
(***************************************************************************)
(* Statements for TLC: the schemas, their rows and the statements run.     *)
(***************************************************************************)
EXTENDS Statements

Col(n)        == [name |-> n, notNull |-> FALSE, ident |-> "none", default |-> NULL]
Required(n)   == [Col(n) EXCEPT !.notNull = TRUE]
Defaulted(n, v) == [Col(n) EXCEPT !.default = v]
Generated(n)  == [Col(n) EXCEPT !.ident = "always"]
PK(cols)      == [primary |-> TRUE, cols |-> cols]
Unique(cols)  == [primary |-> FALSE, cols |-> cols]
Ref(col, parent, del, upd) ==
  [cols |-> <<col>>, parent |-> parent, parentCols |-> <<>>, onDelete |-> del, onUpdate |-> upd]
Pred(col, rel, v) == [rel |-> rel, col |-> col, val |-> v]
At(col, v)    == Pred(col, "eq", v)

Table(n, cols, keys, checks, refs) ==
  [op |-> "create table", table |-> n, ifNotExists |-> FALSE, columns |-> cols, keys |-> keys,
   checks |-> checks, refs |-> refs]
IndexOn(n, t, cols, unique, where) ==
  [op |-> "create index", name |-> n, table |-> t, cols |-> cols, unique |-> unique,
   where |-> where, ifNotExists |-> FALSE]

Val(v)        == [op |-> "val", val |-> v, col |-> ""]
Plus(c, n)    == [op |-> "plus", val |-> n, col |-> c]
Excluded(c)   == [op |-> "excluded", val |-> 0, col |-> c]
Set(c, e)     == [col |-> c, e |-> e]

NoConflict    == [action |-> "none", arbiter |-> <<>>, set |-> <<>>, where |-> NoPredicate]
DoNothing     == [NoConflict EXCEPT !.action = "nothing"]
DoUpdate(arbiter, set, where) ==
  [action |-> "update", arbiter |-> arbiter, set |-> set, where |-> where]
InsertInto(t, cols, rows, conflict) ==
  [op |-> "insert", table |-> t, cols |-> cols, rows |-> rows, conflict |-> conflict]
UpdateOf(t, set, where) == [op |-> "update", table |-> t, set |-> set, where |-> where]
DeleteFrom(t, where)    == [op |-> "delete", table |-> t, where |-> where]

\* Three levels, the middle one keyed by its reference, and a short cut from the
\* last to the first.
Levels == [name |-> "levels",
  create |-> <<
    Table("a", <<Col("id")>>, <<PK(<<"id">>)>>, <<>>, <<>>),
    Table("b", <<Col("a")>>, <<PK(<<"a">>)>>, <<>>, <<Ref("a", "a", "cascade", "cascade")>>),
    Table("c", <<Col("id"), Col("b"), Defaulted("a", 2)>>, <<PK(<<"id">>)>>, <<>>,
      <<Ref("b", "b", "cascade", "cascade"), Ref("a", "a", "set default", "set null")>>)>>,
  rows |-> << <<<<1>>, <<2>>>>, <<<<1>>, <<2>>>>, <<<<1, 1, 2>>, <<2, 2, 1>>>> >>,
  statements |-> {
    DeleteFrom("a", At("id", 1)), DeleteFrom("a", At("id", 2)), DeleteFrom("b", NoPredicate),
    UpdateOf("a", <<Set("id", Plus("id", 2))>>, At("id", 1)),
    UpdateOf("a", <<Set("id", Plus("id", 2))>>, NoPredicate),
    InsertInto("a", <<>>, <<<<1>>>>, NoConflict),
    InsertInto("c", <<"id", "b">>, <<<<3, 1>>, <<4, NULL>>>>, NoConflict)},
  levels |-> {"RC"}, alone |-> TRUE, sessions |-> {1}, maxTx |-> 3, maxBegun |-> 2, maxRestarts |-> 0]

\* A table that refers to itself, with a cycle in it, and a restricted one.
Cycle == [name |-> "cycle",
  create |-> <<
    Table("a", <<Col("id"), Col("parent")>>, <<PK(<<"id">>)>>, <<>>,
      <<Ref("parent", "a", "cascade", "cascade")>>),
    Table("b", <<Col("a")>>, <<>>, <<>>, <<Ref("a", "a", "restrict", "no action")>>)>>,
  rows |-> << <<<<1, 2>>, <<2, 1>>, <<3, 1>>, <<4, NULL>>>>, <<<<4>>>> >>,
  statements |-> {
    DeleteFrom("a", At("id", 1)), DeleteFrom("a", Pred("id", "min", 3)), DeleteFrom("b", NoPredicate),
    UpdateOf("a", <<Set("id", Val(5))>>, At("id", 1)),
    UpdateOf("a", <<Set("parent", Val(4))>>, At("id", 3)),
    InsertInto("b", <<>>, <<<<1>>, <<NULL>>>>, NoConflict)},
  levels |-> {"RR"}, alone |-> TRUE, sessions |-> {1}, maxTx |-> 3, maxBegun |-> 2, maxRestarts |-> 0]

\* A row at the end of two paths from the same parent.
Diamond == [name |-> "diamond",
  create |-> <<
    Table("a", <<Col("id")>>, <<PK(<<"id">>)>>, <<>>, <<>>),
    Table("b", <<Col("id"), Col("a")>>, <<PK(<<"id">>)>>, <<>>, <<Ref("a", "a", "cascade", "cascade")>>),
    Table("c", <<Col("id"), Col("a")>>, <<PK(<<"id">>)>>, <<>>, <<Ref("a", "a", "cascade", "set null")>>),
    Table("d", <<Col("b"), Col("c")>>, <<>>, <<>>,
      <<Ref("b", "b", "cascade", "cascade"), Ref("c", "c", "set null", "cascade")>>)>>,
  rows |-> << <<<<1>>, <<2>>>>, <<<<1, 1>>, <<2, 2>>>>, <<<<1, 1>>, <<2, 1>>>>, <<<<1, 1>>, <<2, 1>>>> >>,
  statements |-> {
    DeleteFrom("a", At("id", 1)), DeleteFrom("c", NoPredicate), DeleteFrom("b", At("a", 2)),
    UpdateOf("a", <<Set("id", Plus("id", 2))>>, NoPredicate),
    UpdateOf("b", <<Set("id", Plus("id", 2)), Set("a", Val(2))>>, NoPredicate)},
  levels |-> {"RC"}, alone |-> TRUE, sessions |-> {1}, maxTx |-> 3, maxBegun |-> 2, maxRestarts |-> 0]

\* Keys: UPDATEs that collide on the way, partial indexes, CHECK, ON CONFLICT.
Keys == [name |-> "keys",
  create |-> <<
    Table("a", <<Generated("id"), Col("k"), Defaulted("n", 1)>>,
      <<Unique(<<"k">>)>>, <<Pred("n", "min", 1)>>, <<>>),
    IndexOn("i", "a", <<"n">>, TRUE, Pred("n", "min", 3))>>,
  rows |-> << <<<<1, 1, 1>>, <<2, 2, 2>>, <<3, NULL, 1>>>> >>,
  statements |-> {
    UpdateOf("a", <<Set("k", Plus("k", 1)), Set("n", Plus("k", 0))>>, NoPredicate),
    UpdateOf("a", <<Set("n", Plus("n", 2))>>, At("n", 1)),
    InsertInto("a", <<"k">>, <<<<3>>, <<3>>>>, DoNothing),
    InsertInto("a", <<"k", "n">>, <<<<1, 3>>, <<3, 0>>>>,
      DoUpdate(<<"k">>, <<Set("n", Excluded("n"))>>, At("n", 1))),
    DeleteFrom("a", At("k", 2))},
  levels |-> {"RR"}, alone |-> TRUE, sessions |-> {1, 2}, maxTx |-> 3, maxBegun |-> 2, maxRestarts |-> 1]

\* Two connections writing the same rows.
Contended == [name |-> "contended",
  create |-> <<
    Table("a", <<Col("id"), Col("n")>>, <<PK(<<"id">>)>>, <<Pred("n", "min", 0)>>, <<>>),
    Table("b", <<Col("id"), Col("a")>>, <<PK(<<"id">>)>>, <<>>, <<Ref("a", "a", "cascade", "cascade")>>)>>,
  rows |-> << <<<<1, 0>>, <<2, 0>>>>, <<<<1, 1>>, <<2, 2>>>> >>,
  statements |-> {
    UpdateOf("a", <<Set("n", Plus("n", 1))>>, NoPredicate),
    DeleteFrom("a", At("id", 1)), DeleteFrom("b", At("id", 1)),
    UpdateOf("a", <<Set("id", Val(3))>>, At("id", 1))},
  levels |-> {"RC", "RR"}, alone |-> FALSE, sessions |-> {1, 2}, maxTx |-> 3, maxBegun |-> 2, maxRestarts |-> 0]

\* Schema changes between the statements.
Changing == [name |-> "changing",
  create |-> <<
    Table("a", <<Col("id"), Col("n")>>, <<PK(<<"id">>)>>, <<Pred("n", "min", 0)>>, <<>>)>>,
  rows |-> << <<<<1, NULL>>>> >>,
  statements |-> {
    Table("b", <<Col("id"), Col("a")>>, <<PK(<<"id">>)>>, <<>>,
      <<Ref("id", "b", "cascade", "cascade"), Ref("a", "a", "cascade", "cascade")>>),
    [op |-> "drop table", tables |-> {"a"}, ifExists |-> FALSE],
    [op |-> "drop table", tables |-> {"a", "b"}, ifExists |-> TRUE],
    [op |-> "drop table", tables |-> {"b"}, ifExists |-> FALSE],
    [op |-> "add column", table |-> "a", column |-> [name |-> "m", notNull |-> TRUE, default |-> 1],
     checks |-> <<Pred("m", "min", 1)>>, refs |-> <<Ref("m", "a", "no action", "no action")>>,
     ifNotExists |-> TRUE],
    [op |-> "rename table", table |-> "a", to |-> "c"],
    [op |-> "rename column", table |-> "a", column |-> "n", to |-> "k"],
    [op |-> "rename column", table |-> "a", column |-> "m", to |-> "n"],
    [op |-> "rename column", table |-> "a", column |-> "id", to |-> "k"],
    [op |-> "set not null", table |-> "a", column |-> "n", notNull |-> TRUE],
    [op |-> "set not null", table |-> "a", column |-> "n", notNull |-> FALSE],
    IndexOn("i", "a", <<"n">>, TRUE, Pred("id", "min", 2)),
    [op |-> "drop index", name |-> "i", ifExists |-> FALSE],
    UpdateOf("a", <<Set("n", Val(0))>>, NoPredicate),
    InsertInto("a", <<"id">>, <<<<2>>>>, NoConflict),
    InsertInto("b", <<>>, <<<<1, 1>>>>, NoConflict)},
  levels |-> {"RC"}, alone |-> TRUE, sessions |-> {1}, maxTx |-> 4, maxBegun |-> 3, maxRestarts |-> 0]

Core == {Levels, Cycle, Diamond, Keys, Contended, Changing}
=============================================================================
