------------------------------- MODULE Binding ------------------------------
(***************************************************************************)
(* internal/binder for queries: syntax, in which columns have names, to    *)
(* plans, in which they have ordinals and kinds.                           *)
(*                                                                         *)
(* The scopes the Go code points at and writes to are a stack here,        *)
(* innermost first, that binding takes and gives back: st = [scs, ok].     *)
(* A scope is [cols, agg, cor].  What cannot be bound leaves ok false, and *)
(* the plan is then of no use.                                             *)
(*                                                                         *)
(* Arguments of statements are literals here; system views, temporal and   *)
(* JSON operators, and LIKE are left out.                                  *)
(***************************************************************************)
EXTENDS Values, SequencesExt

CONSTANTS Schema    \* for each table, its columns: [name, kind]

None   == [e |-> "none"]                        \* no expression
NoAgg  == [on |-> FALSE, keys |-> <<>>, calls |-> <<>>]
Fresh  == [cols |-> <<>>, agg |-> NoAgg, cor |-> FALSE]

Const(v) == [x |-> "const", v |-> v]
Column(i, kind, name) == [x |-> "col", i |-> i, kind |-> kind, name |-> name]

KindOf(x) ==
  CASE x.x = "const" -> x.v.k
    [] x.x \in {"isnull", "inlist", "insub", "exists"} -> "bool"
    [] OTHER -> x.kind

Failing(st) == [st EXCEPT !.ok = FALSE]
Needs(cond, st) == [st EXCEPT !.ok = st.ok /\ cond]

(***************************************************************************)
(* Scopes.  A column in scope is [table, name, kind, ord, hidden].         *)
(***************************************************************************)
addColumns(cols, more, qualifier) ==
  cols \o [i \in DOMAIN more |->
             [table |-> qualifier, name |-> more[i].name, kind |-> more[i].kind,
              ord |-> Len(cols) + i, hidden |-> FALSE]]

hits(sc, ref) ==
  {i \in DOMAIN sc.cols : /\ sc.cols[i].name = ref.n
                          /\ ref.q # "" => sc.cols[i].table = ref.q
                          /\ ref.q = "" => ~sc.cols[i].hidden}

\* (variant) only the subquery that names the column is marked
MarkInnermost(scs, d) == IF d > 1 THEN [scs EXCEPT ![1].cor = TRUE] ELSE scs
Mark(scs, d) == [i \in DOMAIN scs |-> IF i < d THEN [scs[i] EXCEPT !.cor = TRUE] ELSE scs[i]]

\* [ok, level, col, scs]; every scope on the way out is marked.
resolve(scs, ref) ==
  LET found == {d \in DOMAIN scs : hits(scs[d], ref) # {}}
      d     == Min(found)
      only  == CHOOSE i \in hits(scs[d], ref) : TRUE
  IN IF found = {} \/ Cardinality(hits(scs[d], ref)) > 1
     THEN [ok |-> FALSE]
     ELSE [ok |-> TRUE, level |-> d - 1, col |-> scs[d].cols[only], scs |-> Mark(scs, d)]

(***************************************************************************)
(* Kinds.                                                                  *)
(***************************************************************************)
arithKind(l, r) ==
  CASE l = "null" -> r
    [] r = "null" /\ l # "null" -> l
    [] "null" \notin {l, r} ->
         IF "float" \in {l, r} THEN "float" ELSE IF "numeric" \in {l, r} THEN "numeric" ELSE l

\* Whether two operands can be compared or combined as they are.
unify(l, r) == l = r \/ "null" \in {l, r} \/ (IsNumeric(l) /\ IsNumeric(r))

\* [ok, x]
coerceConst(v) == [ok |-> ~IsError(v), x |-> Const(v)]
coerce(x, want) ==
  LET got == KindOf(x)
  IN IF got = want \/ got = "null" THEN [ok |-> TRUE, x |-> x]
     ELSE IF x.x = "const" THEN coerceConst(Cast(x.v, want))
     ELSE [ok |-> IsNumeric(got) /\ IsNumeric(want), x |-> x]

commonKind(kinds) ==
  LET known == SelectSeq(kinds, LAMBDA k : k # "null")
      all   == ToSet(known)
      numbers == \A k \in all : IsNumeric(k)
  IN IF known = <<>> THEN [ok |-> TRUE, kind |-> "null"]
     ELSE [ok |-> numbers \/ Cardinality(all) = 1,
           kind |-> IF numbers /\ "float" \in all THEN "float" ELSE known[1]]

unifyKinds(l, r) ==
  IF l = r THEN l ELSE IF l = "null" THEN r ELSE IF r = "null" THEN l
  ELSE IF "float" \in {l, r} THEN "float" ELSE "numeric"

(***************************************************************************)
(* Functions: the aggregates, and the scalar functions modelled.           *)
(***************************************************************************)
Aggregates == {"count", "sum", "avg", "min", "max"}

\* (variant) an average has the kind of what it averages
AvgOfItsArgument(f, arg) == CASE f = "count" -> "int" [] OTHER -> arg

AggregateKind(f, arg) ==
  CASE f = "count" -> "int"
    [] f = "sum"   -> IF arg \in {"float", "numeric"} THEN arg ELSE "int"
    [] f = "avg"   -> IF arg = "float" THEN "float" ELSE "numeric"
    [] f \in {"min", "max"} -> arg

RECURSIVE hasAggregate(_)
hasAggregate(e) ==
  CASE e.e \in {"un", "isnull", "cast", "insub"} -> hasAggregate(e.a)
    [] e.e = "bin"     -> hasAggregate(e.l) \/ hasAggregate(e.r)
    [] e.e = "between" -> hasAggregate(e.a) \/ hasAggregate(e.lo) \/ hasAggregate(e.hi)
    [] e.e = "in"      -> hasAggregate(e.a) \/ \E i \in DOMAIN e.list : hasAggregate(e.list[i])
    [] e.e = "call"    -> e.f \in Aggregates \/ \E i \in DOMAIN e.args : hasAggregate(e.args[i])
    [] e.e = "case"    -> \/ hasAggregate(e.operand) \/ hasAggregate(e.els)
                          \/ \E i \in DOMAIN e.whens : hasAggregate(e.whens[i][1]) \/ hasAggregate(e.whens[i][2])
    [] OTHER           -> FALSE

(***************************************************************************)
(* Expressions.  bindExpr gives [x, st].                                   *)
(***************************************************************************)
RECURSIVE bindExpr(_, _), bindExprs(_, _), bindQueryNode(_, _)

Bound(x, st) == [x |-> x, st |-> st]

\* The expressions of a sequence, one after the other: [xs, st].
FirstThen(first, es) ==
  LET rest == bindExprs(es, first.st)
  IN [rest EXCEPT !.xs = <<first.x>> \o @]

bindExprs(es, st) ==
  IF es = <<>> THEN [xs |-> <<>>, st |-> st] ELSE FirstThen(bindExpr(es[1], st), Tail(es))

\* Each made of the kind, and whether that went well.
Coerced(made, st) == [xs |-> [i \in DOMAIN made |-> made[i].x], st |-> Needs(\A i \in DOMAIN made : made[i].ok, st)]
coerceAll(xs, kind, st) == Coerced([i \in DOMAIN xs |-> coerce(xs[i], kind)], st)

bindColumnRef(e, st) ==
  LET r == resolve(st.scs, e)
  IN IF ~r.ok THEN Bound(Const(NULL), Failing(st))
     ELSE IF r.level > 0
     THEN Bound([x |-> "outer", level |-> r.level - 1, i |-> r.col.ord, kind |-> r.col.kind],
                [st EXCEPT !.scs = r.scs])
     ELSE Bound(Column(r.col.ord, r.col.kind, r.col.name), Needs(~st.scs[1].agg.on, st))

bindUnary(e, st) ==
  LET a == bindExpr(e.a, st)
      b == coerce(a.x, "bool")
  IN IF e.op = "not"
     THEN Bound([x |-> "un", op |-> e.op, a |-> b.x, kind |-> "bool"], Needs(b.ok, a.st))
     ELSE Bound([x |-> "un", op |-> e.op, a |-> a.x, kind |-> KindOf(a.x)],
                Needs(IsNumeric(KindOf(a.x)) \/ KindOf(a.x) = "null", a.st))

Comparisons == {"=", "<>", "<", "<=", ">", ">=", "is distinct", "is not distinct"}

Binary(op, l, r, kind) == [x |-> "bin", op |-> op, l |-> l, r |-> r, kind |-> kind]

bindBinary(e, st) ==
  LET two  == bindExprs(<<e.l, e.r>>, st)
      l    == two.xs[1]
      r    == two.xs[2]
      both == coerceAll(two.xs, "bool", two.st)
      kind == arithKind(KindOf(l), KindOf(r))
      same == unify(KindOf(l), KindOf(r))
  IN IF e.op \in {"and", "or"} THEN Bound(Binary(e.op, both.xs[1], both.xs[2], "bool"), both.st)
     ELSE IF e.op \in Comparisons THEN Bound(Binary(e.op, l, r, "bool"), Needs(same, two.st))
     ELSE Bound(Binary(e.op, l, r, kind), Needs(same /\ (IsNumeric(kind) \/ kind = "null"), two.st))

\* The operand is bound once and stands in both comparisons.
bindBetween(e, st) ==
  LET three == bindExprs(<<e.a, e.lo, e.hi>>, st)
      a     == three.xs[1]
      both  == Binary("and", Binary(">=", a, three.xs[2], "bool"), Binary("<=", a, three.xs[3], "bool"), "bool")
      st1   == Needs(\A i \in 2..3 : unify(KindOf(a), KindOf(three.xs[i])), three.st)
  IN Bound(IF e.neg THEN [x |-> "un", op |-> "not", a |-> both, kind |-> "bool"] ELSE both, st1)

\* An arm of CASE x WHEN ...: the equality it stands for.
matchArm(operand, arm) ==
  LET made == IF KindOf(operand) = "null" THEN [ok |-> TRUE, x |-> arm] ELSE coerce(arm, KindOf(operand))
  IN [ok |-> made.ok, x |-> Binary("=", operand, made.x, "bool")]

\* parts: condition, value, condition, value, ..., and the value of ELSE.
armConds(e, operand, parts) ==
  [i \in DOMAIN e.whens |->
     IF e.operand # None THEN matchArm(operand, parts.xs[2 * i - 1])
     ELSE [ok |-> KindOf(parts.xs[2 * i - 1]) \in {"bool", "null"}, x |-> parts.xs[2 * i - 1]]]

CaseArms(conds, values, st) ==
  LET common == commonKind([i \in DOMAIN values |-> KindOf(values[i])])
      made   == coerceAll(values, common.kind, Needs(common.ok /\ \A i \in DOMAIN conds : conds[i].ok, st))
  IN Bound([x |-> "case", conds |-> [i \in DOMAIN conds |-> conds[i].x], values |-> made.xs, kind |-> common.kind], made.st)

CaseParts(e, operand, parts) ==
  LET n == Len(e.whens)
  IN CaseArms(armConds(e, operand, parts),
              [i \in 1..(Len(parts.xs) - n) |-> parts.xs[IF i <= n THEN 2 * i ELSE Len(parts.xs)]], parts.st)

CaseOperand(e, operand) ==
  CaseParts(e, operand.x,
            bindExprs([i \in 1..(2 * Len(e.whens)) |-> e.whens[(i + 1) \div 2][2 - (i % 2)]]
                        \o (IF e.els = None THEN <<>> ELSE <<e.els>>), operand.st))

bindCase(e, st) == CaseOperand(e, IF e.operand = None THEN Bound(Const(NULL), st) ELSE bindExpr(e.operand, st))

Popped(b) == [node |-> b.node, cor |-> b.st.scs[1].cor, st |-> [b.st EXCEPT !.scs = Tail(@)]]
subplan(q, st) == Popped(bindQueryNode(q, [st EXCEPT !.scs = <<Fresh>> \o @]))

InSubquery(e, a, s) ==
  LET made == coerce(a, s.node.cols[1].kind)
  IN Bound([x |-> "insub", a |-> made.x, node |-> s.node, neg |-> e.neg, cor |-> s.cor],
           Needs(made.ok /\ Len(s.node.cols) = 1, s.st))

ScalarSubquery(s) ==
  Bound([x |-> "scalar", node |-> s.node, kind |-> s.node.cols[1].kind, cor |-> s.cor], Needs(Len(s.node.cols) = 1, s.st))

ExistsSubquery(e, s) == Bound([x |-> "exists", node |-> s.node, neg |-> e.neg, cor |-> s.cor], s.st)

AfterOperand(e, a) == InSubquery(e, a.x, subplan(e.query, a.st))

bindSubquery(e, st) ==
  CASE e.e = "exists" -> ExistsSubquery(e, subplan(e.query, st))
    [] e.e = "sub"    -> ScalarSubquery(subplan(e.query, st))
    [] e.e = "insub"  -> AfterOperand(e, bindExpr(e.a, st))

bindIn(e, st) ==
  LET all  == bindExprs(<<e.a>> \o e.list, st)
      made == coerceAll(Tail(all.xs), KindOf(all.xs[1]), all.st)
  IN Bound([x |-> "inlist", a |-> all.xs[1], list |-> made.xs, neg |-> e.neg], made.st)

bindCast(e, st) ==
  LET a == bindExpr(e.a, st)
      v == Cast(a.x.v, e.kind)
  IN IF KindOf(a.x) = e.kind THEN a
     ELSE IF a.x.x = "const" THEN Bound(Const(v), Needs(~IsError(v), a.st))
     ELSE Bound([x |-> "cast", a |-> a.x, kind |-> e.kind], a.st)

\* COALESCE and NULLIF: the arguments have to agree on a kind.
bindChoice(e, st) ==
  LET all    == bindExprs(e.args, st)
      common == commonKind([i \in DOMAIN all.xs |-> KindOf(all.xs[i])])
      made   == coerceAll(all.xs, common.kind, all.st)
  IN Bound([x |-> e.f, args |-> made.xs, kind |-> common.kind],
           Needs(common.ok /\ e.args # <<>> /\ (e.f = "nullif" => Len(e.args) = 2), made.st))

\* The argument of an aggregate is bound in a copy of the scope, one without
\* grouping: what the copy learns is not carried back.
InnerScope(st) == [st EXCEPT !.scs[1].agg = NoAgg]

addAggregate(e, st) ==
  LET ctx  == st.scs[1].agg
      arg  == bindExpr(e.args[1], InnerScope(st))
      kind == KindOf(arg.x)
      call == IF e.star THEN [f |-> e.f, distinct |-> FALSE, arg |-> None, kind |-> "int"]
              ELSE [f |-> e.f, distinct |-> e.distinct, arg |-> arg.x, kind |-> AggregateKind(e.f, kind)]
      kept == IF e.star THEN st
              ELSE [arg.st EXCEPT !.scs[1] = st.scs[1]]
      st1  == Needs(IF e.star THEN e.f = "count"
                    ELSE e.f \in {"sum", "avg"} => IsNumeric(kind) \/ kind = "null", kept)
  IN Bound(Column(Len(ctx.keys) + Len(ctx.calls) + 1, call.kind, e.f),
           [st1 EXCEPT !.scs[1].agg.calls = Append(ctx.calls, call)])

bindFuncCall(e, st) ==
  LET a == bindExpr(e.args[1], st)
  IN CASE e.f \in {"coalesce", "nullif"} -> bindChoice(e, st)
       [] e.f = "abs" -> Bound([x |-> "abs", a |-> a.x, kind |-> KindOf(a.x)],
                               Needs(IsNumeric(KindOf(a.x)) \/ KindOf(a.x) = "null", a.st))
       [] e.f \in Aggregates -> IF st.scs[1].agg.on THEN addAggregate(e, st) ELSE Bound(Const(NULL), Failing(st))

\* Above a grouping an expression that is written like a key is that key.
bindExpr(e, st) ==
  LET agg == st.scs[1].agg
      key == IF agg.on THEN SelectInSeq(agg.keys, LAMBDA k : k.text = e) ELSE 0
      a   == bindExpr(e.a, st)
  IN IF key # 0 THEN Bound(Column(key, KindOf(agg.keys[key].x), agg.keys[key].name), st)
     ELSE CASE e.e = "lit"     -> Bound(Const(e.v), st)
            [] e.e = "col"     -> bindColumnRef(e, st)
            [] e.e = "isnull"  -> Bound([x |-> "isnull", a |-> a.x, neg |-> e.neg], a.st)
            [] e.e = "cast"    -> bindCast(e, st)
            [] e.e = "un"      -> bindUnary(e, st)
            [] e.e = "bin"     -> bindBinary(e, st)
            [] e.e = "case"    -> bindCase(e, st)
            [] e.e = "between" -> bindBetween(e, st)
            [] e.e = "in"      -> bindIn(e, st)
            [] e.e = "call"    -> bindFuncCall(e, st)
            [] e.e \in {"sub", "exists", "insub"} -> bindSubquery(e, st)

(***************************************************************************)
(* FROM.  A table expression adds its columns to the scope being bound.    *)
(***************************************************************************)
RECURSIVE bindFrom(_, _)

Node(node, st) == [node |-> node, st |-> st]
Names(cols)    == [i \in DOMAIN cols |-> [name |-> cols[i].name, kind |-> cols[i].kind]]

\* The one visible column of the name among those from lo to hi.
only(cols, name, lo, hi) ==
  LET found == {i \in lo..hi : cols[i].name = name /\ ~cols[i].hidden}
  IN IF Cardinality(found) = 1 THEN CHOOSE i \in found : TRUE ELSE 0

\* [ok, cols, pred]; the right-hand copy of each name is hidden.
RECURSIVE bindUsing(_, _, _)
bindUsing(names, cols, boundary) ==
  LET name == names[Len(names)]
      most == IF Len(names) = 1 THEN [ok |-> TRUE, cols |-> cols, pred |-> None]
              ELSE bindUsing(Front(names), cols, boundary)
      l    == only(most.cols, name, 1, boundary)
      r    == only(most.cols, name, boundary + 1, Len(cols))
      eq   == Binary("=", Column(l, cols[l].kind, name), Column(r, cols[r].kind, name), "bool")
  IN IF ~most.ok \/ l = 0 \/ r = 0 THEN [ok |-> FALSE, cols |-> cols, pred |-> None]
     ELSE [ok |-> TRUE, cols |-> [most.cols EXCEPT ![r].hidden = TRUE],
           pred |-> IF most.pred = None THEN eq ELSE Binary("and", most.pred, eq, "bool")]

\* A condition has to be a boolean.
Condition(b) == [b EXCEPT !.st = Needs(KindOf(b.x) \in {"bool", "null"}, b.st)]

joinNode(te, left, right, pred) ==
  [n |-> "join", left |-> left, right |-> right, type |-> te.type, pred |-> pred, cols |-> left.cols \o right.cols]

\* The ordinals are places in the scope, and the joined row has the columns
\* of the two sides only.
JoinUsing(te, left, right, using) ==
  Node(joinNode(te, left, right.node, using.pred), Needs(using.ok, [right.st EXCEPT !.scs[1].cols = using.cols]))

JoinOn(te, left, right, on) == Node(joinNode(te, left, right, on.x), on.st)

JoinRight(te, left, boundary, right) ==
  IF te.using # <<>> THEN JoinUsing(te, left, right, bindUsing(te.using, right.st.scs[1].cols, boundary))
  ELSE IF te.on # None THEN JoinOn(te, left, right.node, Condition(bindExpr(te.on, right.st)))
  ELSE Node(joinNode(te, left, right.node, None), Needs(te.type = "cross", right.st))

JoinLeft(te, left) == JoinRight(te, left.node, Len(left.st.scs[1].cols), bindFrom(te.right, left.st))

bindJoin(te, st) == JoinLeft(te, bindFrom(te.left, st))

Brought(te, st, b) ==
  Node(b.node, [st EXCEPT !.ok = b.st.ok, !.scs[1].cols = addColumns(@, b.node.cols, te.alias)])

\* A derived table is bound with no scope around it.
bindFrom(te, st) ==
  CASE te.t = "table" -> Brought(te, st, Node([n |-> "scan", table |-> te.name, cols |-> Schema[te.name]], st))
    [] te.t = "sub"   -> Brought(te, st, bindQueryNode(te.query, [scs |-> <<Fresh>>, ok |-> st.ok]))
    [] te.t = "join"  -> bindJoin(te, st)

\* The commas of FROM are cross joins.
RECURSIVE bindFromList(_, _)
Cross(most, last) == Node(joinNode([type |-> "cross"], most, last.node, None), last.st)
CrossJoin(most, te) == Cross(most.node, bindFrom(te, most.st))

bindFromList(tes, st) ==
  CASE tes = <<>>    -> Node([n |-> "single", cols |-> <<>>], st)
    [] Len(tes) = 1  -> bindFrom(tes[1], st)
    [] Len(tes) > 1  -> CrossJoin(bindFromList(Front(tes), st), Last(tes))

(***************************************************************************)
(* SELECT.                                                                 *)
(***************************************************************************)
\* The expressions of the select list and what their columns are called,
\* with * spread into the visible columns: [xs, cols, st].
RECURSIVE bindSelectItems(_, _)
StarItems(q, st) ==
  LET shown == SelectSeq(st.scs[1].cols, LAMBDA c : IF q = "" THEN ~c.hidden ELSE c.table = q)
  IN [xs |-> [i \in DOMAIN shown |-> Column(shown[i].ord, shown[i].kind, shown[i].name)],
      cols |-> Names(shown), st |-> Needs(shown # <<>>, st)]

OneItem(as, one) ==
  LET name == IF as # "" THEN as ELSE IF one.x.x = "col" THEN one.x.name ELSE "?column?"
  IN [xs |-> <<one.x>>, cols |-> <<[name |-> name, kind |-> KindOf(one.x)]>>, st |-> one.st]

ItemThen(head, items) ==
  LET rest == bindSelectItems(items, head.st)
  IN [xs |-> head.xs \o rest.xs, cols |-> head.cols \o rest.cols, st |-> rest.st]

bindSelectItems(items, st) ==
  IF items = <<>> THEN [xs |-> <<>>, cols |-> <<>>, st |-> st]
  ELSE ItemThen(IF items[1].a.e = "star" THEN StarItems(items[1].a.q, st)
                ELSE OneItem(items[1].as, bindExpr(items[1].a, st)), Tail(items))

nullsFirst(item) == IF item.nulls = "" THEN item.desc ELSE item.nulls = "first"

\* A name of the output, a place in it, or an expression over the input.
bindSortTerm(e, proj, st) ==
  LET named == IF e.e = "col" /\ e.q = "" THEN SelectInSeq(proj.cols, LAMBDA c : c.name = e.n) ELSE 0
  IN IF named # 0 THEN Bound(proj.xs[named], st)
     ELSE IF e.e = "lit" /\ e.v.k = "int"
     THEN IF e.v.u \in DOMAIN proj.xs THEN Bound(proj.xs[e.v.u], st) ELSE Bound(Const(NULL), Failing(st))
     ELSE bindExpr(e, st)

SortKey(x, item) == [x |-> x, desc |-> item.desc, nullsFirst |-> nullsFirst(item)]

RECURSIVE bindOrderBy(_, _, _)
TermThen(one, items, proj) ==
  LET rest == bindOrderBy(Tail(items), proj, one.st)
  IN [rest EXCEPT !.keys = <<SortKey(one.x, items[1])>> \o @]

bindOrderBy(items, proj, st) ==
  IF items = <<>> THEN [keys |-> <<>>, st |-> st]
  ELSE TermThen(bindSortTerm(items[1].a, proj, st), items, proj)

\* The keys are bound below the grouping, and everything after above it.
Grouping(q, keys) ==
  LET name(i) == IF q.groupBy[i].e = "col" THEN q.groupBy[i].n
                 ELSE IF keys.xs[i].x = "col" THEN keys.xs[i].name ELSE "?column?"
  IN [keys.st EXCEPT !.scs[1].agg =
        [on |-> TRUE, calls |-> <<>>,
         keys |-> [i \in DOMAIN q.groupBy |-> [text |-> q.groupBy[i], x |-> keys.xs[i], name |-> name(i)]]]]

beginGrouping(q, st) == Grouping(q, bindExprs(q.groupBy, st))

groupingNode(input, agg) ==
  [n |-> "agg", input |-> input, keys |-> [i \in DOMAIN agg.keys |-> agg.keys[i].x], calls |-> agg.calls,
   cols |-> [i \in DOMAIN agg.keys |-> [name |-> agg.keys[i].name, kind |-> KindOf(agg.keys[i].x)]]
            \o [i \in DOMAIN agg.calls |-> [name |-> agg.calls[i].f, kind |-> agg.calls[i].kind]]]

Filter(pred, input) == [n |-> "filter", input |-> input, pred |-> pred, cols |-> input.cols]
Sort(keys, input)   == [n |-> "sort", input |-> input, keys |-> keys, cols |-> input.cols]
Limited(q, input) ==
  IF q.limit = NULL /\ q.offset = NULL THEN input
  ELSE [n |-> "limit", input |-> input, count |-> q.limit, offset |-> q.offset, cols |-> input.cols]

\* Under the projection, from below: FROM, WHERE, the grouping, HAVING, ORDER BY.
SelectNode(q, input, grouped, proj, having, order, on) ==
  LET below1  == IF grouped THEN groupingNode(input, on.st.scs[1].agg) ELSE input
      below2  == IF q.having = None THEN below1 ELSE Filter(having, below1)
      below3  == IF q.orderBy = <<>> THEN below2 ELSE Sort(order, below2)
      width   == Len(proj.xs)
      project == [n |-> "project", input |-> below3, xs |-> proj.xs \o on.xs,
                  cols |-> proj.cols \o [i \in DOMAIN on.xs |-> [name |-> "", kind |-> KindOf(on.xs[i])]]]
      distinct == [n |-> "distinct", input |-> project, width |-> width, cols |-> proj.cols,
                   on |-> [i \in DOMAIN on.xs |-> Column(width + i, KindOf(on.xs[i]), "")]]
  IN Node(Limited(q, IF q.distinct THEN distinct ELSE project), on.st)

SelectOrdered(q, input, grouped, proj, having, order) ==
  SelectNode(q, input, grouped, proj, having, order.keys, bindExprs(q.distinctOn, order.st))

SelectHaving(q, input, grouped, proj, having) ==
  SelectOrdered(q, input, grouped, proj, having.x, bindOrderBy(q.orderBy, proj, having.st))

SelectProjected(q, input, grouped, proj) ==
  SelectHaving(q, input, grouped, proj,
               IF q.having = None THEN Bound(None, proj.st) ELSE Condition(bindExpr(q.having, proj.st)))

SelectFiltered(q, b) ==
  LET grouped == \/ q.groupBy # <<>> \/ q.having # None
                 \/ \E i \in DOMAIN q.items : hasAggregate(q.items[i].a)
                 \/ \E i \in DOMAIN q.orderBy : hasAggregate(q.orderBy[i].a)
  IN SelectProjected(q, b.node, grouped,
                     bindSelectItems(q.items, IF grouped THEN beginGrouping(q, b.st) ELSE b.st))

Where(node, where) == Node(Filter(where.x, node), where.st)
SelectFrom(q, from) ==
  SelectFiltered(q, IF q.where = None THEN from ELSE Where(from.node, Condition(bindExpr(q.where, from.st))))

bindSelectNode(q, st) == SelectFrom(q, bindFromList(q.from, st))

(***************************************************************************)
(* UNION, INTERSECT and EXCEPT.  The arms get scopes of their own with the *)
(* parent of this one.                                                     *)
(***************************************************************************)
setOpSortTarget(e, cols) ==
  CASE e.e = "lit" /\ e.v.k = "int" -> IF e.v.u \in DOMAIN cols THEN e.v.u ELSE 0
    [] e.e = "col" /\ e.q = ""      -> SelectInSeq(cols, LAMBDA c : c.name = e.n)
    [] OTHER                        -> 0

ArmScopes(st) == [st EXCEPT !.scs[1] = Fresh]

SetOpArms(q, left, right, st) ==
  LET l     == left.cols
      r     == right.cols
      cols  == [i \in DOMAIN l |-> [name |-> l[i].name, kind |-> unifyKinds(l[i].kind, r[i].kind)]]
      node  == [n |-> "setop", left |-> left, right |-> right, op |-> q.op, all |-> q.all, cols |-> cols]
      terms == [i \in DOMAIN q.orderBy |-> setOpSortTarget(q.orderBy[i].a, cols)]
      keys  == [i \in DOMAIN terms |-> SortKey(Column(terms[i], cols[terms[i]].kind, cols[terms[i]].name), q.orderBy[i])]
      fits  == Len(l) = Len(r) /\ \A i \in DOMAIN l : unify(l[i].kind, r[i].kind)
  IN IF ~fits \/ 0 \in ToSet(terms) THEN Node(node, Failing(st))
     ELSE Node(Limited(q, IF q.orderBy = <<>> THEN node ELSE Sort(keys, node)), st)

SetOpRight(q, left, right, sc) == SetOpArms(q, left, right.node, [right.st EXCEPT !.scs[1] = sc])
SetOpLeft(q, left, sc) == SetOpRight(q, left.node, bindQueryNode(q.right, ArmScopes(left.st)), sc)

bindSetOp(q, st) == SetOpLeft(q, bindQueryNode(q.left, ArmScopes(st)), st.scs[1])

bindQueryNode(q, st) == IF q.q = "select" THEN bindSelectNode(q, st) ELSE bindSetOp(q, st)

\* [node, st] of a statement.
Bind(q) == bindQueryNode(q, [scs |-> <<Fresh>>, ok |-> TRUE])
=============================================================================
