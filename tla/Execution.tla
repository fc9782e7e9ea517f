------------------------------ MODULE Execution ------------------------------
(***************************************************************************)
(* internal/exec for queries, with the accumulators of internal/builtin:   *)
(* plans made into trees of operators that give one row at each Next.      *)
(*                                                                         *)
(* An operator is a record, and Next gives it as it is after the call with *)
(* what the call returned.  A compiled expression needs the rows of the    *)
(* enclosing queries and the tables its subqueries read: the context       *)
(* c = [env, db], innermost row last.  The result of an uncorrelated       *)
(* subquery is kept by the Go code for the life of the expression; nothing *)
(* it depends on changes in that time, so it is evaluated again here.      *)
(* Rows are values: the buffers Next reuses are not in the model.          *)
(***************************************************************************)
EXTENDS Binding

(***************************************************************************)
(* Keys that were seen, and how often.                                     *)
(***************************************************************************)
Seen(keys, key) == \E k \in keys : Found(key, k)

countAt(counts, key) == SelectInSeq(counts, LAMBDA k : Found(key, k.key))
CountKey(counts, key) ==
  LET i == countAt(counts, key)
  IN IF i = 0 THEN Append(counts, [key |-> key, n |-> 1]) ELSE [counts EXCEPT ![i].n = @ + 1]
Has(counts, key)   == countAt(counts, key) # 0
Holds(counts, key) == \E i \in DOMAIN counts : counts[i].n > 0 /\ Found(key, counts[i].key)
Take(counts, key)  ==
  [i \in DOMAIN counts |-> [counts[i] EXCEPT !.n = IF @ > 0 /\ Found(key, counts[i].key) THEN @ - 1 ELSE @]]

(***************************************************************************)
(* Arithmetic.                                                             *)
(***************************************************************************)
intArith(op, a, b) ==
  IF op \in {"/", "%"} /\ b = 0 THEN DivisionByZero
  ELSE IntV(Wrap(CASE op = "+" -> a + b [] op = "-" -> a - b [] op = "*" -> a * b
                   [] op = "/" -> Quo(a, b) [] op = "%" -> Rem(a, b)))

numericArith(op, a, b) ==
  CASE op = "+" -> AddNumeric(a, b) [] op = "-" -> SubNumeric(a, b) [] op = "*" -> MulNumeric(a, b)
    [] op = "/" -> DivNumeric(a, b) [] op = "%" -> ModNumeric(a, b)

\* The exact result of floats, rounded.
Rounded(d) == Float(d.u, 10^d.s)
floatArith(op, a, b) ==
  IF op \in {"/", "%"} /\ b.u = 0 THEN DivisionByZero
  ELSE IF op = "/" THEN Float(Sign(b.u) * a.u * 10^b.s, Abs(b.u) * 10^a.s)
  ELSE Rounded(CASE op = "+" -> DecimalAdd(a, b) [] op = "-" -> DecimalSub(a, b)
                 [] op = "*" -> DecimalMul(a, b) [] op = "%" -> DecimalMod(a, b))

Arithmetic(op, kind, l, r) ==
  IF IsNull(l) \/ IsNull(r) THEN NULL
  ELSE IF kind = "int" /\ l.k = "int" /\ r.k = "int" THEN intArith(op, l.u, r.u)
  ELSE IF kind = "numeric" THEN numericArith(op, ToNumeric(l), ToNumeric(r))
  ELSE floatArith(op, AsFloat(l), AsFloat(r))

Negative(v) ==
  CASE IsNull(v)        -> v
    [] v.k = "int"      -> IntV(Wrap(-v.u))
    [] v.k = "numeric"  -> NegNumeric(v)
    [] OTHER            -> [AsFloat(v) EXCEPT !.u = -@]

(***************************************************************************)
(* Accumulators: [n, total, cur, seen].  A total is NULL until there is    *)
(* something in it.                                                        *)
(***************************************************************************)
NewAcc == [n |-> 0, total |-> NULL, cur |-> NULL, seen |-> {}]

sumAdd(total, v) ==
  LET from == IF IsNull(total) THEN IntV(0) ELSE total
  IN IF "float" \in {from.k, v.k} THEN floatArith("+", AsFloat(from), AsFloat(v))
     ELSE IF "numeric" \in {from.k, v.k} THEN AddNumeric(ToNumeric(from), ToNumeric(v))
     ELSE IntV(Wrap(from.u + v.u))

avgResult(total, n) ==
  IF n = 0 THEN NULL
  ELSE IF total.k = "float" THEN floatArith("/", total, AsFloat(IntV(n)))
  ELSE DivNumeric(ToNumeric(total), Decimal(n, 0))

extremeAdd(f, cur, v) ==
  LET c == Compare(v, cur)
  IN IF IsNull(cur) \/ (f = "min" /\ c < 0) \/ (f = "max" /\ c > 0) THEN v ELSE cur

\* NULL is counted by count(*) and by nothing else.
AccAdd(call, acc, v) ==
  IF call.arg = None THEN [acc EXCEPT !.n = @ + 1]
  ELSE IF IsNull(v) \/ (call.distinct /\ Seen(acc.seen, <<v>>)) THEN acc
  ELSE [n     |-> acc.n + 1,
        total |-> IF call.f \in {"sum", "avg"} THEN sumAdd(acc.total, v) ELSE NULL,
        cur   |-> IF call.f \in {"min", "max"} THEN extremeAdd(call.f, acc.cur, v) ELSE NULL,
        seen  |-> IF call.distinct THEN acc.seen \cup {<<v>>} ELSE {}]

AccResult(call, acc) ==
  CASE call.f = "count" -> IntV(acc.n)
    [] call.f = "sum"   -> acc.total
    [] call.f = "avg"   -> avgResult(acc.total, acc.n)
    [] call.f \in {"min", "max"} -> acc.cur

(***************************************************************************)
(* Expressions.                                                            *)
(***************************************************************************)
RECURSIVE Eval(_, _, _), Open(_, _), Next(_, _), Read(_, _, _)

inResult(x, vals, neg) ==
  IF IsNull(x) THEN NULL
  ELSE IF \E i \in DOMAIN vals : sqlCmp("=", x, vals[i]) = "true" THEN BoolV(~neg)
  ELSE IF \E i \in DOMAIN vals : IsNull(vals[i]) THEN NULL ELSE BoolV(neg)

compareWith(op, l, r) ==
  IF op \notin {"is distinct", "is not distinct"} THEN sqlCmp(op, l, r)
  ELSE IF op = "is distinct" THEN IsDistinctFrom(l, r) ELSE Not3(IsDistinctFrom(l, r))

EvalBinary(x, row, c) ==
  LET l == Eval(x.l, row, c)
      r == Eval(x.r, row, c)
      logical(answer, both) ==
        IF IsError(l) THEN l ELSE IF Truth(l) = answer THEN BoolV(answer = "true")
        ELSE Unless(<<r>>, Value3(both))
  IN CASE x.op = "and"          -> logical("false", And3(Truth(l), Truth(r)))
       [] x.op = "or"           -> logical("true", Or3(Truth(l), Truth(r)))
       [] x.op \in Comparisons  -> Unless(<<l, r>>, Value3(compareWith(x.op, l, r)))
       [] OTHER                 -> Unless(<<l, r>>, Arithmetic(x.op, x.kind, l, r))

EvalUnary(x, row, c) ==
  LET v == Eval(x.a, row, c)
  IN CASE x.op = "+"   -> v
       [] x.op = "not" -> Unless(<<v>>, Value3(Not3(Truth(v))))
       [] x.op = "-"   -> Unless(<<v>>, Negative(v))

\* The first arm whose condition is true; only its value is evaluated.
RECURSIVE EvalCase(_, _, _, _)
EvalCase(x, i, row, c) ==
  LET cond == Eval(x.conds[i], row, c)
  IN IF i > Len(x.conds) THEN (IF i <= Len(x.values) THEN Eval(x.values[i], row, c) ELSE NULL)
     ELSE IF IsError(cond) THEN cond
     ELSE IF Truth(cond) = "true" THEN Eval(x.values[i], row, c)
     ELSE EvalCase(x, i + 1, row, c)

RECURSIVE EvalCoalesce(_, _, _)
EvalCoalesce(xs, row, c) ==
  LET v == Eval(xs[1], row, c)
  IN IF xs = <<>> THEN NULL ELSE IF IsNull(v) THEN EvalCoalesce(Tail(xs), row, c) ELSE v

\* nullif(a, b) is CASE WHEN a = b THEN NULL ELSE a END.
EvalNullif(x, row, c) ==
  LET a == Eval(x.args[1], row, c)
      b == Eval(x.args[2], row, c)
  IN Unless(<<a, b>>, IF sqlCmp("=", a, b) = "true" THEN NULL ELSE a)

\* What a subquery that gave these rows is worth; a is what IN looks for.
SubqueryResult(x, got, a) ==
  LET vals == [i \in DOMAIN got.rows |-> got.rows[i][1]]
  IN CASE x.x = "insub"  -> Unless(IF x.cor THEN <<a, got.err>> ELSE <<got.err, a>>, inResult(a, vals, x.neg))
       [] x.x = "exists" -> Unless(<<got.err>>, BoolV((got.rows # <<>>) # x.neg))
       [] x.x = "scalar" -> Unless(<<got.err>>, IF vals = <<>> THEN NULL
                                                ELSE IF Len(vals) = 1 THEN vals[1] ELSE CardinalityViolation)

\* A subquery that reads rows around it runs with this row pushed.
EvalSubquery(x, row, c) ==
  LET inner == IF x.cor THEN [c EXCEPT !.env = Append(@, row)] ELSE c
      most  == CASE x.x = "exists" -> 1 [] x.x = "scalar" -> 2 [] OTHER -> -1
  IN SubqueryResult(x, Read(Open(x.node, inner), inner, most), IF x.x = "insub" THEN Eval(x.a, row, c) ELSE NULL)

EvalAll(xs, row, c) == [i \in DOMAIN xs |-> Eval(xs[i], row, c)]

Eval(x, row, c) ==
  LET a  == Eval(x.a, row, c)
      at == Len(c.env) - x.level
      list == EvalAll(x.list, row, c)
  IN CASE x.x = "const"    -> x.v
       [] x.x = "col"      -> IF x.i \in DOMAIN row THEN row[x.i] ELSE InternalError
       [] x.x = "outer"    -> IF x.i \in DOMAIN c.env[at] THEN c.env[at][x.i] ELSE NULL
       [] x.x = "isnull"   -> Unless(<<a>>, BoolV(IsNull(a) # x.neg))
       [] x.x = "cast"     -> Unless(<<a>>, Cast(a, x.kind))
       [] x.x = "abs"      -> Unless(<<a>>, CASE IsNull(a) -> a
                                             [] a.k = "int" -> IntV(Wrap(Abs(a.u)))
                                             [] OTHER -> [AsFloat(a) EXCEPT !.u = Abs(@)])
       [] x.x = "un"       -> EvalUnary(x, row, c)
       [] x.x = "bin"      -> EvalBinary(x, row, c)
       [] x.x = "case"     -> EvalCase(x, 1, row, c)
       [] x.x = "coalesce" -> EvalCoalesce(x.args, row, c)
       [] x.x = "nullif"   -> EvalNullif(x, row, c)
       [] x.x = "inlist"   -> Unless(<<a>> \o list, inResult(a, list, x.neg))
       [] x.x \in {"insub", "exists", "scalar"} -> EvalSubquery(x, row, c)

\* Compiling fails on a reference past the enclosing rows there are.
Parts(x) ==
  CASE x.x \in {"const", "col", "outer", "exists", "scalar"} -> <<>>
    [] x.x \in {"un", "isnull", "cast", "abs", "insub"} -> <<x.a>>
    [] x.x = "bin"    -> <<x.l, x.r>>
    [] x.x = "case"   -> x.conds \o x.values
    [] x.x = "inlist" -> <<x.a>> \o x.list
    [] x.x \in {"coalesce", "nullif"} -> x.args

RECURSIVE Compiles(_, _)
Compiles(x, depth) ==
  /\ x.x = "outer" => x.level < depth
  /\ \A i \in DOMAIN Parts(x) : Compiles(Parts(x)[i], depth)

(***************************************************************************)
(* Operators.                                                              *)
(***************************************************************************)
Failed(err) == [o |-> "failed", err |-> err]

Row(row)   == [r |-> "row", row |-> row]
End        == [r |-> "end"]
Error(err) == [r |-> "error", err |-> err]
Step(op, out) == [op |-> op, out |-> out]

\* The expressions of a node.
Expressions(n) ==
  CASE n.n = "filter"   -> <<n.pred>>
    [] n.n = "join"     -> IF n.pred = None THEN <<>> ELSE <<n.pred>>
    [] n.n = "agg"      -> n.keys \o [i \in DOMAIN n.calls |-> IF n.calls[i].arg = None THEN Const(NULL) ELSE n.calls[i].arg]
    [] n.n = "distinct" -> n.on
    [] n.n = "project"  -> n.xs
    [] n.n = "sort"     -> [i \in DOMAIN n.keys |-> n.keys[i].x]
    [] OTHER            -> <<>>

\* A NULL limit is none, and a NULL offset is zero.
rowCount(v, default) == IF IsNull(v) THEN default ELSE v.u
NoLimit == -1

OpenOne(n, c) ==
  CASE n.n = "scan"   -> [o |-> "scan", rows |-> c.db[n.table], i |-> 1]
    [] n.n = "single" -> [o |-> "scan", rows |-> << <<>> >>, i |-> 1]
    [] n.n = "filter" -> [o |-> "filter", input |-> Open(n.input, c), pred |-> n.pred]
    [] n.n = "project" -> [o |-> "project", input |-> Open(n.input, c), xs |-> n.xs]
    [] n.n = "sort"   -> [o |-> "sort", input |-> Open(n.input, c), keys |-> n.keys, sorted |-> FALSE, rows |-> <<>>, i |-> 1]
    [] n.n = "distinct" -> [o |-> "distinct", input |-> Open(n.input, c), on |-> n.on, width |-> n.width, seen |-> {}]
    [] n.n = "limit"  ->
         IF \E v \in {n.count, n.offset} : ~IsNull(v) /\ v.u < 0 THEN Failed(InternalError)
         ELSE [o |-> "limit", input |-> Open(n.input, c), remaining |-> rowCount(n.count, NoLimit), offset |-> rowCount(n.offset, 0)]
    [] n.n = "agg"    -> [o |-> "agg", input |-> Open(n.input, c), keys |-> n.keys, calls |-> n.calls, built |-> FALSE,
                          groups |-> <<>>, i |-> 1]
    [] n.n = "setop"  -> [o |-> "setop", left |-> Open(n.left, c), right |-> Open(n.right, c), op |-> n.op, all |-> n.all,
                          seen |-> {}, counts |-> <<>>, loaded |-> FALSE, draining |-> FALSE]
    [] n.n = "join"   -> [o |-> "join", left |-> Open(n.left, c), right |-> Open(n.right, c), pred |-> n.pred,
                          leftWidth |-> Len(n.left.cols), rightWidth |-> Len(n.right.cols),
                          keepLeft |-> n.type \in {"left", "full"}, keepRight |-> n.type \in {"right", "full"},
                          built |-> FALSE, rightRows |-> <<>>, matched |-> <<>>,
                          haveCur |-> FALSE, cur |-> <<>>, curFound |-> FALSE, j |-> 1, draining |-> FALSE, drain |-> 1]

Inputs(op) ==
  IF op.o \in {"scan", "failed"} THEN <<>> ELSE IF op.o \in {"join", "setop"} THEN <<op.left, op.right>> ELSE <<op.input>>

\* build: what cannot be built below, or compiled here, fails the whole.
Open(n, c) ==
  LET op  == OpenOne(n, c)
      bad == SelectInSeq(Inputs(op), LAMBDA input : input.o = "failed")
      xs  == Expressions(n)
  IN IF bad # 0 THEN Inputs(op)[bad]
     ELSE IF \E i \in DOMAIN xs : ~Compiles(xs[i], Len(c.env)) THEN Failed(InternalError)
     ELSE op

NoRows == [rows |-> <<>>, err |-> NULL]

\* What is read is the row just given and the rows after it.
ReadOn(in, c, most) ==
  CASE in.out.r = "end"   -> NoRows
    [] in.out.r = "error" -> [NoRows EXCEPT !.err = in.out.err]
    [] in.out.r = "row"   -> LET rest == Read(in.op, c, most - 1) IN [rest EXCEPT !.rows = <<in.out.row>> \o @]

\* Rows until there are no more, or most of them: [rows, err].
Read(op, c, most) ==
  CASE op.o = "failed" -> [rows |-> <<>>, err |-> op.err]
    [] most = 0        -> NoRows
    [] OTHER           -> ReadOn(Next(op, c), c, most)

ScanNext(op) ==
  IF op.i <= Len(op.rows) THEN Step([op EXCEPT !.i = @ + 1], Row(op.rows[op.i])) ELSE Step(op, End)

Filtered(op, out, v, c) ==
  IF IsError(v) THEN Step(op, Error(v)) ELSE IF Truth(v) = "true" THEN Step(op, out) ELSE Next(op, c)

FilterNext(op, c) ==
  LET in   == Next(op.input, c)
      then == [op EXCEPT !.input = in.op]
  IN IF in.out.r # "row" THEN Step(then, in.out) ELSE Filtered(then, in.out, Eval(op.pred, in.out.row, c), c)

Projected(op, row) ==
  IF \E i \in DOMAIN row : IsError(row[i]) THEN Step(op, Error(Unless(row, NULL))) ELSE Step(op, Row(row))

ProjectNext(op, c) ==
  LET in   == Next(op.input, c)
      then == [op EXCEPT !.input = in.op]
  IN IF in.out.r # "row" THEN Step(then, in.out) ELSE Projected(then, EvalAll(op.xs, in.out.row, c))

\* (variant) DESC turns the NULLs around as well
TurnedAround(a, b, key) ==
  IF IsNull(a) /\ IsNull(b) THEN 0
  ELSE IF IsNull(a) THEN (IF key.nullsFirst # key.desc THEN -1 ELSE 1)
  ELSE IF IsNull(b) THEN (IF key.nullsFirst # key.desc THEN 1 ELSE -1)
  ELSE Compare(a, b) * (IF key.desc THEN -1 ELSE 1)

\* Where NULLs go does not depend on the direction.
compareSortKey(a, b, key) ==
  IF IsNull(a) /\ IsNull(b) THEN 0
  ELSE IF IsNull(a) THEN (IF key.nullsFirst THEN -1 ELSE 1)
  ELSE IF IsNull(b) THEN (IF key.nullsFirst THEN 1 ELSE -1)
  ELSE Compare(a, b) * (IF key.desc THEN -1 ELSE 1)
Precedes(a, b, keys) ==
  LET differ == {k \in DOMAIN keys : compareSortKey(a.keys[k], b.keys[k], keys[k]) # 0}
      k      == Min(differ)
  IN IF differ = {} THEN a.at < b.at ELSE compareSortKey(a.keys[k], b.keys[k], keys[k]) < 0

\* Expressions over the rows that were read: [rows, err], and the first error.
EvalRows(xs, in, c) == [in EXCEPT !.rows = [i \in DOMAIN in.rows |-> EvalAll(xs, in.rows[i], c)]]
FirstError(in)      == Unless(FlattenSeq(in.rows), in.err)

\* drainAndSort: everything is read, and the sort is stable.
Ordered(rows, keys, by) ==
  LET entries == [i \in DOMAIN rows |-> [row |-> rows[i], at |-> i, keys |-> keys[i]]]
      ordered == SortSeq(entries, LAMBDA a, b : Precedes(a, b, by))
  IN [i \in DOMAIN ordered |-> ordered[i].row]

Sorted(op, rows, keys) ==
  IF IsError(FirstError(keys)) THEN Step(op, Error(FirstError(keys)))
  ELSE ScanNext([op EXCEPT !.sorted = TRUE, !.rows = Ordered(rows, keys.rows, op.keys)])

DrainAndSort(op, in, c) == Sorted(op, in.rows, EvalRows([k \in DOMAIN op.keys |-> op.keys[k].x], in, c))

SortNext(op, c) ==
  IF op.sorted THEN ScanNext(op) ELSE DrainAndSort(op, Read(op.input, c, NoLimit), c)

LimitNext(op, c) ==
  LET in   == Next(op.input, c)
      then == [op EXCEPT !.input = in.op]
  IN IF op.offset > 0
     THEN IF in.out.r = "row" THEN Next([then EXCEPT !.offset = @ - 1], c) ELSE Step(then, in.out)
     ELSE IF op.remaining = 0 THEN Step(op, End)
     ELSE Step(IF in.out.r = "row" /\ op.remaining # NoLimit THEN [then EXCEPT !.remaining = @ - 1] ELSE then, in.out)

Distinguished(op, key, row, c) ==
  IF \E i \in DOMAIN key : IsError(key[i]) THEN Step(op, Error(Unless(key, NULL)))
  ELSE IF Seen(op.seen, key) THEN Next(op, c)
  ELSE Step([op EXCEPT !.seen = @ \cup {key}], Row(row))

DistinctNext(op, c) ==
  LET in   == Next(op.input, c)
      row  == SubSeq(in.out.row, 1, op.width)
      then == [op EXCEPT !.input = in.op]
  IN IF in.out.r # "row" THEN Step(then, in.out)
     ELSE Distinguished(then, IF op.on = <<>> THEN row ELSE EvalAll(op.on, in.out.row, c), row, c)

(***************************************************************************)
(* Groups stand in the order of their first rows.                          *)
(***************************************************************************)
newGroup(key, calls) == [key |-> key, accs |-> [i \in DOMAIN calls |-> NewAcc]]

findGroup(groups, key) == SelectInSeq(groups, LAMBDA g : Found(key, g.key))

\* A row for the groups is the values of the keys, then the arguments.
addRow(groups, r, op) ==
  LET key  == SubSeq(r, 1, Len(op.keys))
      at   == findGroup(groups, key)
      g    == IF at = 0 THEN newGroup(key, op.calls) ELSE groups[at]
      more == [g EXCEPT !.accs = [i \in DOMAIN op.calls |-> AccAdd(op.calls[i], @[i], r[Len(op.keys) + i])]]
  IN IF at = 0 THEN Append(groups, more) ELSE [groups EXCEPT ![at] = more]

\* Without keys there is one group however many rows there are.
GroupsOf(rows, op) ==
  LET groups == FoldLeft(LAMBDA acc, r : addRow(acc, r, op), <<>>, rows)
  IN IF groups = <<>> /\ op.keys = <<>> THEN <<newGroup(<<>>, op.calls)>> ELSE groups

groupRow(g, calls) == g.key \o [i \in DOMAIN calls |-> AccResult(calls[i], g.accs[i])]

BuildGroups(op, values, c) ==
  IF IsError(FirstError(values)) THEN Step(op, Error(FirstError(values)))
  ELSE Next([op EXCEPT !.built = TRUE, !.groups = GroupsOf(values.rows, op)], c)

AggregateNext(op, c) ==
  LET args == [i \in DOMAIN op.calls |-> IF op.calls[i].arg = None THEN Const(NULL) ELSE op.calls[i].arg]
  IN IF ~op.built THEN BuildGroups(op, EvalRows(op.keys \o args, Read(op.input, c, NoLimit), c), c)
     ELSE IF op.i > Len(op.groups) THEN Step(op, End)
     ELSE Step([op EXCEPT !.i = @ + 1], Row(groupRow(op.groups[op.i], op.calls)))

(***************************************************************************)
(* The nested loop of all joins: the right side is read once; each left    *)
(* row goes over it; the right rows without a partner come last.           *)
(***************************************************************************)
NULLs(n) == [i \in 1..n |-> NULL]

BuildRight(op, c) ==
  LET in == Read(op.right, c, NoLimit)
  IN IF IsError(in.err) THEN Step(op, Error(in.err))
     ELSE Next([op EXCEPT !.built = TRUE, !.rightRows = in.rows, !.matched = [i \in DOMAIN in.rows |-> FALSE]], c)

DrainRight(op) ==
  LET left == {i \in op.drain..Len(op.rightRows) : ~op.matched[i]}
  IN IF left = {} THEN Step([op EXCEPT !.drain = Len(op.rightRows) + 1], End)
     ELSE Step([op EXCEPT !.drain = Min(left) + 1], Row(NULLs(op.leftWidth) \o op.rightRows[Min(left)]))

NextLeft(op, c) ==
  LET in   == Next(op.left, c)
      then == [op EXCEPT !.left = in.op]
  IN CASE in.out.r = "row"   -> Next([then EXCEPT !.cur = in.out.row, !.haveCur = TRUE, !.curFound = FALSE, !.j = 1], c)
       [] in.out.r = "end"   -> IF op.keepRight THEN Next([then EXCEPT !.draining = TRUE], c) ELSE Step(then, End)
       [] in.out.r = "error" -> Step(then, in.out)

\* (variant) the right row is not marked
MatchedLeft(op) == [op EXCEPT !.curFound = TRUE]
Matched(op) == [op EXCEPT !.curFound = TRUE, !.matched[op.j] = TRUE]

Tried(op, row, v, c) ==
  LET further(o) == [o EXCEPT !.j = @ + 1]
  IN IF IsError(v) THEN Step(further(op), Error(v))
     ELSE IF Truth(v) = "true" THEN Step(further(Matched(op)), Row(row))
     ELSE Next(further(op), c)

MatchRight(op, c) ==
  LET row == op.cur \o op.rightRows[op.j]
  IN Tried(op, row, IF op.pred = None THEN BoolV(TRUE) ELSE Eval(op.pred, row, c), c)

JoinNext(op, c) ==
  LET then == [op EXCEPT !.haveCur = FALSE]
  IN IF ~op.built THEN BuildRight(op, c)
     ELSE IF op.draining THEN DrainRight(op)
     ELSE IF ~op.haveCur THEN NextLeft(op, c)
     ELSE IF op.j <= Len(op.rightRows) THEN MatchRight(op, c)
     ELSE IF op.keepLeft /\ ~op.curFound THEN Step(then, Row(op.cur \o NULLs(op.rightWidth)))
     ELSE Next(then, c)

(***************************************************************************)
(* UNION streams both sides.  The others count the right side, and stream  *)
(* the left against it.                                                    *)
(***************************************************************************)
LoadRight(op, c) ==
  LET in == Read(op.right, c, NoLimit)
  IN IF IsError(in.err) THEN Step(op, Error(in.err))
     ELSE Next([op EXCEPT !.loaded = TRUE, !.counts = FoldLeft(CountKey, <<>>, in.rows)], c)

keep(op, row) ==
  /\ op.all \/ ~Seen(op.seen, row)
  /\ op.op # "union" =>
       (op.op = "intersect") = IF op.all THEN Holds(op.counts, row) ELSE Has(op.counts, row)

Kept(op, row, kept) ==
  IF op.all THEN [op EXCEPT !.counts = IF op.op = "union" THEN @ ELSE Take(@, row)]
  ELSE IF kept THEN [op EXCEPT !.seen = @ \cup {row}] ELSE op

Offered(then, row, kept, c) == IF kept THEN Step(then, Row(row)) ELSE Next(then, c)

SetOpNext(op, c) ==
  LET side == IF op.draining THEN Next(op.right, c) ELSE Next(op.left, c)
      then == IF op.draining THEN [op EXCEPT !.right = side.op] ELSE [op EXCEPT !.left = side.op]
      row  == side.out.row
  IN IF op.op # "union" /\ ~op.loaded THEN LoadRight(op, c)
     ELSE IF op.draining /\ op.op # "union" THEN Step(op, End)
     ELSE IF side.out.r = "end" /\ ~op.draining THEN Next([then EXCEPT !.draining = TRUE], c)
     ELSE IF side.out.r # "row" THEN Step(then, side.out)
     ELSE Offered(Kept(then, row, keep(op, row)), row, keep(op, row), c)

Next(op, c) ==
  CASE op.o = "scan"     -> ScanNext(op)
    [] op.o = "filter"   -> FilterNext(op, c)
    [] op.o = "project"  -> ProjectNext(op, c)
    [] op.o = "sort"     -> SortNext(op, c)
    [] op.o = "limit"    -> LimitNext(op, c)
    [] op.o = "distinct" -> DistinctNext(op, c)
    [] op.o = "agg"      -> AggregateNext(op, c)
    [] op.o = "join"     -> JoinNext(op, c)
    [] op.o = "setop"    -> SetOpNext(op, c)
=============================================================================
