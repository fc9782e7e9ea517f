------------------------------- MODULE Meaning -------------------------------
(***************************************************************************)
(* What a query means: the rows SQL promises, from the names the query is  *)
(* written with and whole tables.  There are no ordinals, levels, marks,   *)
(* hashes, operators or cursors here, and numbers are compared by          *)
(* multiplying out.                                                        *)
(*                                                                         *)
(* A row is a sequence of cells [q, n, v, hidden]: where the column is     *)
(* from, its name, its value, and whether * and an unqualified name pass   *)
(* it by.  st is the rows in scope, innermost first.  g is the group an    *)
(* expression is about: [on, keys, rows].  A relation is [ok, shape,       *)
(* rows]: ok unless something in it has no value, and shape a row of NULLs.*)
(* The order of the rows is the one lightsql's comments promise: that of   *)
(* the input where nothing else decides.                                   *)
(***************************************************************************)
EXTENDS Binding

Cell(q, n, v) == [q |-> q, n |-> n, v |-> v, hidden |-> FALSE]
ValuesOf(row) == [i \in DOMAIN row |-> row[i].v]
Ungrouped     == [on |-> FALSE, keys |-> <<>>, rows |-> <<>>]

\* Values.
Diff(a, b)  == a.u * 10^b.s - b.u * 10^a.s
Alike(a, b) == IF IsNull(a) \/ IsNull(b) THEN a = b ELSE Diff(a, b) = 0
AlikeAll(s, t) == Len(s) = Len(t) /\ \A i \in DOMAIN s : Alike(s[i], t[i])
Holds3(v)   == v = BoolV(TRUE)
NoErrors(vs) == \A i \in DOMAIN vs : ~IsError(vs[i])

Related(op, a, b) ==
  CASE op = "is distinct"     -> BoolV(~Alike(a, b))
    [] op = "is not distinct" -> BoolV(Alike(a, b))
    [] OTHER -> IF IsNull(a) \/ IsNull(b) THEN NULL
                ELSE BoolV(CASE op = "=" -> Diff(a, b) = 0 [] op = "<>" -> Diff(a, b) # 0
                             [] op = "<" -> Diff(a, b) < 0 [] op = "<=" -> Diff(a, b) <= 0
                             [] op = ">" -> Diff(a, b) > 0 [] op = ">=" -> Diff(a, b) >= 0)

\* A float is rounded to its bits, everything else is exact.
Rounding(v) == IF v.k = "float" THEN Float(v.u, 10^v.s) ELSE v

Calculated(op, a, b) ==
  LET kind == unifyKinds(a.k, b.k)
      s    == Larger(a.s, b.s)
      x    == rescale(a, s)
      y    == rescale(b, s)
  IN IF IsNull(a) \/ IsNull(b) THEN NULL
     ELSE IF op \in {"/", "%"} /\ b.u = 0 THEN DivisionByZero
     ELSE IF op = "/"
     THEN CASE kind = "int" -> IntV(Quo(x, y)) [] kind = "numeric" -> DecimalDiv(a, b)
            [] kind = "float" -> Float(x * Sign(y), Abs(y))
     ELSE Rounding(CASE op = "+" -> V(kind, x + y, s) [] op = "-" -> V(kind, x - y, s)
                     [] op = "*" -> V(kind, a.u * b.u, a.s + b.s) [] op = "%" -> V(kind, Rem(x, y), s))

\* FALSE AND anything is FALSE, TRUE OR anything is TRUE.
Joined(answer, a, b) ==
  IF IsError(a) \/ a = BoolV(answer) THEN a
  ELSE IF IsError(b) \/ b = BoolV(answer) THEN b
  ELSE IF IsNull(a) \/ IsNull(b) THEN NULL ELSE BoolV(~answer)

Negated(v) == IF v.k = "bool" THEN BoolV(v.u = 0) ELSE v

Among(a, vals) ==
  IF \E i \in DOMAIN vals : Holds3(Related("=", a, vals[i])) THEN BoolV(TRUE)
  ELSE IF IsNull(a) \/ \E i \in DOMAIN vals : IsNull(vals[i]) THEN NULL ELSE BoolV(FALSE)

\* Where each sequence is for the first time, and what a sequence has at some places.
Firsts(seqs) == {i \in DOMAIN seqs : \A j \in 1..(i - 1) : ~AlikeAll(seqs[i], seqs[j])}
InOrder(places, seq) == SelectSeq([i \in DOMAIN seq |-> i], LAMBDA i : i \in places)
Picked(seq, places) == LET at == InOrder(places, seq) IN [i \in DOMAIN at |-> seq[at[i]]]

TotalOf(vals) == FoldLeft(LAMBDA a, b : Calculated("+", a, b), IntV(0), vals)
Average(total, n) == IF total.k = "float" THEN Calculated("/", total, IntV(n)) ELSE DecimalDiv(total, IntV(n))

\* Of values among which there is no NULL.
AggregateOf(f, vals) ==
  LET best(op) == vals[CHOOSE i \in DOMAIN vals : \A j \in DOMAIN vals : Holds3(Related(op, vals[i], vals[j]))]
  IN CASE f = "count" -> IntV(Len(vals))
       [] vals = <<>> -> NULL
       [] f = "sum" -> TotalOf(vals)
       [] f = "avg" -> Average(TotalOf(vals), Len(vals))
       [] f = "min" -> best("<=")
       [] f = "max" -> best(">=")

\* Names: the innermost row that has one.
Named(row, ref) ==
  {i \in DOMAIN row : row[i].n = ref.n /\ IF ref.q = "" THEN ~row[i].hidden ELSE row[i].q = ref.q}
ValueOfName(st, ref) ==
  LET d == Min({d \in DOMAIN st : Named(st[d], ref) # {}})
  IN st[d][CHOOSE i \in Named(st[d], ref) : TRUE].v

RECURSIVE Denotes(_, _, _, _), Relation(_, _, _), FromOf(_, _, _)

AllDenote(es, g, st, db) == [i \in DOMAIN es |-> Denotes(es[i], g, st, db)]

OverGroup(e, each) ==
  LET places == {i \in DOMAIN each : e.distinct => \A j \in 1..(i - 1) : ~Alike(each[i], each[j])}
  IN Unless(each, AggregateOf(e.f, SelectSeq(Picked(each, places), LAMBDA v : ~IsNull(v))))

OfArguments(f, args) ==
  LET known == SelectSeq(args, LAMBDA v : ~IsNull(v))
  IN CASE f = "coalesce" -> IF known = <<>> THEN NULL ELSE known[1]
       [] f = "nullif"   -> Unless(args, IF Holds3(Related("=", args[1], args[2])) THEN NULL ELSE args[1])
       [] f = "abs"      -> [args[1] EXCEPT !.u = Abs(@)]

CallDenotes(e, g, st, db) ==
  IF e.f \notin Aggregates THEN OfArguments(e.f, AllDenote(e.args, g, st, db))
  ELSE IF e.star THEN IntV(Len(g.rows))
  ELSE OverGroup(e, [i \in DOMAIN g.rows |-> Denotes(e.args[1], Ungrouped, <<g.rows[i]>> \o Tail(st), db)])

\* The arm that is taken, of CASE WHEN or of CASE x WHEN.
CaseDenotes(e, g, st, db) ==
  LET test(i) == IF e.operand = None THEN Denotes(e.whens[i][1], g, st, db)
                 ELSE Related("=", Denotes(e.operand, g, st, db), Denotes(e.whens[i][1], g, st, db))
      taken   == {i \in DOMAIN e.whens : Holds3(test(i))}
      upto    == IF taken = {} THEN Len(e.whens) ELSE Min(taken)
  IN Unless([i \in 1..upto |-> test(i)],
            IF taken # {} THEN Denotes(e.whens[upto][2], g, st, db)
            ELSE IF e.els = None THEN NULL ELSE Denotes(e.els, g, st, db))

Within(r, e, a) ==
  LET vals == [i \in DOMAIN r.rows |-> r.rows[i][1].v]
      in   == Among(a, vals)
  IN IF ~r.ok THEN InternalError
     ELSE CASE e.e = "exists" -> BoolV((vals # <<>>) # e.neg)
            [] e.e = "sub"    -> IF Len(vals) > 1 THEN CardinalityViolation ELSE IF vals = <<>> THEN NULL ELSE vals[1]
            [] e.e = "insub"  -> IF e.neg THEN Negated(in) ELSE in

SubqueryDenotes(e, st, db) ==
  Within(Relation(e.query, st, db), e, IF e.e = "insub" THEN Denotes(e.a, Ungrouped, st, db) ELSE NULL)

Denotes(e, g, st, db) ==
  LET a  == Denotes(e.a, g, st, db)
      l  == Denotes(e.l, g, st, db)
      r  == Denotes(e.r, g, st, db)
      lo == Denotes(e.lo, g, st, db)
      hi == Denotes(e.hi, g, st, db)
      between == Joined(FALSE, Related(">=", a, lo), Related("<=", a, hi))
      in == Among(a, AllDenote(e.list, g, st, db))
  IN IF g.on /\ e \in ToSet(g.keys) THEN Denotes(e, Ungrouped, st, db)
     ELSE CASE e.e = "lit"     -> e.v
            [] e.e = "col"     -> ValueOfName(st, e)
            [] e.e = "isnull"  -> Unless(<<a>>, BoolV(IsNull(a) # e.neg))
            [] e.e = "cast"    -> Unless(<<a>>, Cast(a, e.kind))
            [] e.e = "un" /\ e.op = "not" -> Negated(a)
            [] e.e = "un" /\ e.op = "-"   -> [a EXCEPT !.u = -@]
            [] e.e = "un" /\ e.op = "+"   -> a
            [] e.e = "bin" /\ e.op \in {"and", "or"} -> Joined(e.op = "or", l, r)
            [] e.e = "bin" /\ e.op \in Comparisons   -> Unless(<<l, r>>, Related(e.op, l, r))
            [] e.e = "bin" /\ e.op \notin Comparisons \cup {"and", "or"} -> Unless(<<l, r>>, Calculated(e.op, l, r))
            [] e.e = "case"    -> CaseDenotes(e, g, st, db)
            [] e.e = "between" -> Unless(<<a, lo, hi>>, IF e.neg THEN Negated(between) ELSE between)
            [] e.e = "in"      -> Unless(<<a>>, IF e.neg THEN Negated(in) ELSE in)
            [] e.e = "call"    -> CallDenotes(e, g, st, db)
            [] e.e \in {"sub", "exists", "insub"} -> SubqueryDenotes(e, st, db)

(***************************************************************************)
(* FROM.                                                                   *)
(***************************************************************************)
Requalified(row, q) == [i \in DOMAIN row |-> Cell(q, row[i].n, row[i].v)]
Renamed(r, q) == [r EXCEPT !.shape = Requalified(@, q), !.rows = [i \in DOMAIN r.rows |-> Requalified(r.rows[i], q)]]

TableRelation(te, db) ==
  LET cols == Schema[te.name]
      rows == db[te.name]
  IN [ok |-> TRUE, shape |-> [i \in DOMAIN cols |-> Cell(te.alias, cols[i].name, NULL)],
      rows |-> [j \in DOMAIN rows |-> [i \in DOMAIN cols |-> Cell(te.alias, cols[i].name, rows[j][i])]]]

\* Every pair that belongs together; rows without a partner beside NULLs.
\* tests is, for each row on the left, the truth of each pair it is in.
Pairs(type, l, r, tests) ==
  LET of(i)      == Picked(r.rows, {j \in DOMAIN r.rows : Holds3(tests[i][j])})
      paired(i)  == [k \in DOMAIN of(i) |-> l.rows[i] \o of(i)[k]]
      lonely(i)  == IF of(i) = <<>> /\ type \in {"left", "full"} THEN << l.rows[i] \o r.shape >> ELSE <<>>
      others     == Picked(r.rows, {j \in DOMAIN r.rows : \A i \in DOMAIN l.rows : ~Holds3(tests[i][j])})
  IN [ok    |-> l.ok /\ r.ok /\ \A i \in DOMAIN l.rows : NoErrors(tests[i]),
      shape |-> l.shape \o r.shape,
      rows  |-> FlattenSeq([i \in DOMAIN l.rows |-> paired(i) \o lonely(i)])
                \o IF type \in {"right", "full"} THEN [k \in DOMAIN others |-> l.shape \o others[k]] ELSE <<>>]

\* The right side without the columns it shares.
Sharing(r, names) ==
  LET hide(row) == [i \in DOMAIN row |-> [row[i] EXCEPT !.hidden = @ \/ row[i].n \in ToSet(names)]]
  IN [r EXCEPT !.shape = hide(@), !.rows = [i \in DOMAIN r.rows |-> hide(r.rows[i])]]

JoinRelation(te, l, r, st, db) ==
  LET equal(x, y, n) == Related("=", ValueOfName(<<x>>, [q |-> "", n |-> n]), ValueOfName(<<y>>, [q |-> "", n |-> n]))
      test(x, y) == IF te.on # None THEN Denotes(te.on, Ungrouped, <<x \o y>> \o st, db)
                    ELSE BoolV(\A k \in DOMAIN te.using : Holds3(equal(x, y, te.using[k])))
  IN Pairs(te.type, l, Sharing(r, te.using),
           [i \in DOMAIN l.rows |-> [j \in DOMAIN r.rows |-> test(l.rows[i], r.rows[j])]])

FromOf(te, st, db) ==
  CASE te.t = "table" -> TableRelation(te, db)
    [] te.t = "sub"   -> Renamed(Relation(te.query, <<>>, db), te.alias)
    [] te.t = "join"  -> JoinRelation(te, FromOf(te.left, st, db), FromOf(te.right, st, db), st, db)

NoTable == [ok |-> TRUE, shape |-> <<>>, rows |-> << <<>> >>]
RECURSIVE CommaOf(_, _, _)
CommaOf(tes, st, db) ==
  IF tes = <<>> THEN NoTable
  ELSE JoinRelation([type |-> "cross", on |-> None, using |-> <<>>],
                    CommaOf(Front(tes), st, db), FromOf(Last(tes), st, db), st, db)

(***************************************************************************)
(* SELECT.  A unit is what one row of the answer is made from: a row, or a *)
(* group with its first row.  Units are the rows of a relation until the   *)
(* select list makes [out, sort, on] of them: the cells, the values they   *)
(* are sorted by, and the ones DISTINCT ON tells them apart by.            *)
(***************************************************************************)
IsGrouped(q) ==
  \/ q.groupBy # <<>> \/ q.having # None
  \/ \E i \in DOMAIN q.items : hasAggregate(q.items[i].a)
  \/ \E i \in DOMAIN q.orderBy : hasAggregate(q.orderBy[i].a)

Unit(row, g) == [row |-> row, g |-> g]
UnitDenotes(e, u, st, db) == Denotes(e, u.g, <<u.row>> \o st, db)

Units(r) == [r EXCEPT !.rows = [i \in DOMAIN @ |-> Unit(@[i], Ungrouped)]]

\* WHERE and HAVING.
Passing(r, tests) ==
  [r EXCEPT !.ok = @ /\ NoErrors(tests), !.rows = Picked(@, {i \in DOMAIN tests : Holds3(tests[i])})]
Such(e, r, st, db) ==
  IF e = None THEN r ELSE Passing(r, [i \in DOMAIN r.rows |-> UnitDenotes(e, r.rows[i], st, db)])

\* GROUP BY: the values of the keys tell the groups apart.
Divided(q, r, keys) ==
  LET firsts  == InOrder(Firsts(keys), keys)
      all     == [i \in DOMAIN r.rows |-> r.rows[i].row]
      like(i) == Picked(all, {j \in DOMAIN all : AlikeAll(keys[i], keys[j])})
      group(members, row) == Unit(row, [on |-> TRUE, keys |-> q.groupBy, rows |-> members])
  IN [r EXCEPT !.ok   = @ /\ \A i \in DOMAIN keys : NoErrors(keys[i]),
               !.rows = IF q.groupBy = <<>> THEN <<group(all, IF all = <<>> THEN r.shape ELSE all[1])>>
                        ELSE [k \in DOMAIN firsts |-> group(like(firsts[k]), all[firsts[k]])]]
InGroups(q, r, st, db) ==
  IF ~IsGrouped(q) THEN r
  ELSE Divided(q, r, [i \in DOMAIN r.rows |-> AllDenote(q.groupBy, Ungrouped, <<r.rows[i].row>> \o st, db)])

NameOf(item) ==
  IF item.as # "" THEN item.as
  ELSE CASE item.a.e = "col" -> item.a.n
         [] item.a.e = "call" /\ item.a.f \in Aggregates -> item.a.f
         [] OTHER -> "?column?"

\* The cells an item brings, a value of its own being v.
ItemCells(item, row, v) ==
  LET shown   == {i \in DOMAIN row : IF item.a.q = "" THEN ~row[i].hidden ELSE row[i].q = item.a.q}
      at      == InOrder(shown, row)
  IN IF item.a.e = "star" THEN [k \in DOMAIN at |-> Cell("", row[at[k]].n, row[at[k]].v)]
     ELSE <<Cell("", NameOf(item), v)>>

OutputOf(q, u, st, db) ==
  FlattenSeq([i \in DOMAIN q.items |->
    ItemCells(q.items[i], u.row, UnitDenotes(q.items[i].a, u, st, db))])

SortValue(e, out, u, st, db) ==
  LET named == SelectInSeq(out, LAMBDA c : c.n = e.n)
  IN IF e.e = "lit" THEN out[e.v.u].v
     ELSE IF e.e = "col" /\ e.q = "" /\ named # 0 THEN out[named].v
     ELSE UnitDenotes(e, u, st, db)

\* -1, 0 or 1; without NULLS FIRST or LAST, NULL is larger than everything.
Ranked(a, b, item) ==
  LET nullRank == CASE item.nulls = "first" -> -1 [] item.nulls = "last" -> 1 [] OTHER -> IF item.desc THEN -1 ELSE 1
  IN IF IsNull(a) \/ IsNull(b)
     THEN (IF IsNull(a) /\ ~IsNull(b) THEN nullRank ELSE IF IsNull(b) /\ ~IsNull(a) THEN -nullRank ELSE 0)
     ELSE Sign(Diff(a, b)) * (IF item.desc THEN -1 ELSE 1)

\* seq in the order of the items, the keys of its elements given.
Arranged(seq, keys, items) ==
  LET before(i, j) == \E k \in DOMAIN items :
                        /\ Ranked(keys[i][k], keys[j][k], items[k]) < 0
                        /\ \A h \in 1..(k - 1) : Ranked(keys[i][h], keys[j][h], items[h]) = 0
      tied(i, j)   == \A k \in DOMAIN items : Ranked(keys[i][k], keys[j][k], items[k]) = 0
      place(i)     == 1 + Cardinality({j \in DOMAIN seq : before(j, i) \/ (tied(j, i) /\ j < i)})
  IN [p \in DOMAIN seq |-> seq[CHOOSE i \in DOMAIN seq : place(i) = p]]

\* A negative limit has no meaning.
CutOk(q) == \A v \in {q.limit, q.offset} : IsNull(v) \/ v.u >= 0
Cut(seq, q) ==
  LET skip == IF IsNull(q.offset) THEN 0 ELSE q.offset.u
      last == IF IsNull(q.limit) THEN Len(seq) ELSE skip + q.limit.u
  IN SubSeq(seq, skip + 1, IF last < Len(seq) THEN last ELSE Len(seq))

RowOf(q, u, out, st, db) ==
  [out |-> out, sort |-> [k \in DOMAIN q.orderBy |-> SortValue(q.orderBy[k].a, out, u, st, db)],
   on |-> [k \in DOMAIN q.distinctOn |-> UnitDenotes(q.distinctOn[k], u, st, db)]]
Made(q, r, st, db) ==
  [r EXCEPT !.rows = [i \in DOMAIN @ |-> RowOf(q, @[i], OutputOf(q, @[i], st, db), st, db)]]

SortsOf(rows) == [i \in DOMAIN rows |-> rows[i].sort]
\* Of the rows that DISTINCT cannot tell apart the first is left.
DistinctRows(q, rows) ==
  IF ~q.distinct THEN rows
  ELSE Picked(rows, Firsts([i \in DOMAIN rows |-> IF q.distinctOn = <<>> THEN ValuesOf(rows[i].out) ELSE rows[i].on]))
Outs(rows) == [i \in DOMAIN rows |-> rows[i].out]

Finished(q, r) ==
  [ok    |-> /\ r.ok /\ CutOk(q)
             /\ \A i \in DOMAIN r.rows : NoErrors(ValuesOf(r.rows[i].out) \o r.rows[i].sort \o r.rows[i].on),
   shape |-> FlattenSeq([i \in DOMAIN q.items |-> ItemCells(q.items[i], r.shape, NULL)]),
   rows  |-> Cut(Outs(DistinctRows(q, Arranged(r.rows, SortsOf(r.rows), q.orderBy))), q)]

SelectRelation(q, st, db) ==
  LET units == Such(q.where, Units(CommaOf(q.from, st, db)), st, db)
  IN Finished(q, Made(q, Such(q.having, InGroups(q, units, st, db), st, db), st, db))

(***************************************************************************)
(* UNION, INTERSECT and EXCEPT count: of a row that is m times on the left *)
(* and n times on the right, max(m + n), min(m, n) and m - n stay with     *)
(* ALL, and one of each without it.                                        *)
(***************************************************************************)
Staying(q, both, right) ==
  LET like(seq, row) == Cardinality({i \in DOMAIN seq : AlikeAll(ValuesOf(seq[i]), ValuesOf(row))})
      nth(i) == like(SubSeq(both, 1, i), both[i])
      n(i)   == like(right, both[i])
  IN {i \in DOMAIN both :
        CASE q.op = "union"     -> q.all \/ nth(i) = 1
          [] q.op = "intersect" -> IF q.all THEN nth(i) <= n(i) ELSE nth(i) = 1 /\ n(i) > 0
          [] q.op = "except"    -> IF q.all THEN nth(i) > n(i) ELSE nth(i) = 1 /\ n(i) = 0}

SortedSet(q, rows, st, db) ==
  Arranged(rows, [i \in DOMAIN rows |->
                   [k \in DOMAIN q.orderBy |-> SortValue(q.orderBy[k].a, rows[i], Unit(<<>>, Ungrouped), st, db)]],
          q.orderBy)

CombinedRows(q, l, r) ==
  LET both   == IF q.op = "union" THEN l.rows \o r.rows ELSE l.rows
      shaped == [i \in DOMAIN both |-> [k \in DOMAIN both[i] |-> Cell("", l.shape[k].n, both[i][k].v)]]
  IN Picked(shaped, Staying(q, both, r.rows))

Combined(q, l, r, st, db) ==
  [ok |-> l.ok /\ r.ok /\ CutOk(q), shape |-> l.shape, rows |-> Cut(SortedSet(q, CombinedRows(q, l, r), st, db), q)]

SetRelation(q, st, db) == Combined(q, Relation(q.left, st, db), Relation(q.right, st, db), st, db)

Relation(q, st, db) == IF q.q = "select" THEN SelectRelation(q, st, db) ELSE SetRelation(q, st, db)
=============================================================================
