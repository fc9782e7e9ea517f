------------------------------ MODULE MCQueries ------------------------------
(***************************************************************************)
(* Queries for TLC: the syntax to write them in, the tables they are run   *)
(* on, and families of them that are made of every choice of their parts.  *)
(***************************************************************************)
EXTENDS Queries

Tables == [
  t |-> <<[name |-> "id", kind |-> "int"], [name |-> "k", kind |-> "int"], [name |-> "x", kind |-> "numeric"]>>,
  u |-> <<[name |-> "id", kind |-> "int"], [name |-> "k", kind |-> "int"], [name |-> "s", kind |-> "text"]>>]

\* Expressions.
L(v)        == [e |-> "lit", v |-> v]
N(n)        == L(IntV(n))
C(q, n)     == [e |-> "col", q |-> q, n |-> n]
c(n)        == C("", n)
Un(o, a)    == [e |-> "un", op |-> o, a |-> a]
Bin(o, l, r) == [e |-> "bin", op |-> o, l |-> l, r |-> r]
Eq(l, r)    == Bin("=", l, r)
Both(l, r)  == Bin("and", l, r)
Null(a, neg) == [e |-> "isnull", a |-> a, neg |-> neg]
As(a, kind) == [e |-> "cast", a |-> a, kind |-> kind]
Between(a, lo, hi, neg) == [e |-> "between", a |-> a, lo |-> lo, hi |-> hi, neg |-> neg]
Case(operand, whens, els) == [e |-> "case", operand |-> operand, whens |-> whens, els |-> els]
InList(a, list, neg) == [e |-> "in", a |-> a, list |-> list, neg |-> neg]
InSub(a, q, neg) == [e |-> "insub", a |-> a, query |-> q, neg |-> neg]
Exists(q, neg) == [e |-> "exists", query |-> q, neg |-> neg]
Sub(q)      == [e |-> "sub", query |-> q]
Call(f, args) == [e |-> "call", f |-> f, args |-> args, star |-> FALSE, distinct |-> FALSE]
Distinct(call) == [call EXCEPT !.distinct = TRUE]
CountAll    == [e |-> "call", f |-> "count", args |-> <<>>, star |-> TRUE, distinct |-> FALSE]
Star        == [e |-> "star", q |-> ""]

\* Queries.
T(name)     == [t |-> "table", name |-> name, alias |-> name]
Alias(name, a) == [t |-> "table", name |-> name, alias |-> a]
Derived(q, a) == [t |-> "sub", query |-> q, alias |-> a]
Join(type, l, r, on) == [t |-> "join", type |-> type, left |-> l, right |-> r, on |-> on, using |-> <<>>]
Using(type, l, r, names) == [t |-> "join", type |-> type, left |-> l, right |-> r, on |-> None, using |-> names]
Items(es)   == [i \in DOMAIN es |-> [a |-> es[i], as |-> ""]]
Select(es, from, where) ==
  [q |-> "select", items |-> Items(es), from |-> from, where |-> where, groupBy |-> <<>>, having |-> None,
   orderBy |-> <<>>, distinct |-> FALSE, distinctOn |-> <<>>, limit |-> NULL, offset |-> NULL]
By(a, desc, nulls) == [a |-> a, desc |-> desc, nulls |-> nulls]
SetOp(o, all, l, r) ==
  [q |-> "set", op |-> o, all |-> all, left |-> l, right |-> r, orderBy |-> <<>>, limit |-> NULL, offset |-> NULL]

\* Tables: t and u as sequences of rows; X(n) is n tenths.
X(n) == Decimal(n, 1)
I(n) == IntV(n)
Row3(a, b, v) == <<a, b, v>>
Some == [t |-> <<Row3(I(1), I(1), X(15)), Row3(I(2), NULL, X(20)), Row3(I(3), I(1), Decimal(2, 0)), Row3(I(4), I(2), NULL)>>,
         u |-> <<Row3(I(1), I(1), TextV(1)), Row3(I(2), I(3), TextV(2)), Row3(I(3), NULL, TextV(1)), Row3(I(4), I(1), NULL)>>]
Mixed == [t |-> <<Row3(I(2), I(2), X(-5)), Row3(I(1), I(2), X(15)), Row3(I(3), NULL, NULL), Row3(I(4), NULL, Decimal(150, 2))>>,
          u |-> <<Row3(I(5), I(2), TextV(2)), Row3(I(1), I(2), TextV(2))>>]
NoU   == [Some EXCEPT !.u = <<>>]
NoT   == [Some EXCEPT !.t = <<>>]

From(es, where) == Select(es, <<T("t")>>, where)

-----------------------------------------------------------------------------
Ons == {Eq(C("t", "k"), C("u", "k")),
        Both(Eq(C("t", "k"), C("u", "k")), Bin(">", C("u", "id"), N(1))),
        Bin("<", C("t", "id"), C("u", "k"))}
Types == {"inner", "left", "right", "full"}
Two == Join("left", T("t"), T("u"), Eq(C("t", "k"), C("u", "k")))

Joins ==
     {Select(<<Star>>, <<Join(type, T("t"), T("u"), on)>>, where) :
        type \in Types, on \in Ons, where \in {None, Null(C("u", "id"), FALSE)}}
\cup {Select(es, <<Using(type, T("t"), T("u"), <<"k">>)>>, None) :
        type \in {"inner", "left"}, es \in {<<Star>>, <<c("k"), C("u", "k"), c("s")>>}}
\cup {Select(<<Star>>, <<Using("inner", Using("left", T("t"), T("u"), <<"k", "id">>), Alias("t", "v"), <<"id">>)>>, None)}
\cup {Select(<<C("t", "id"), C("u", "id"), C("v", "id")>>, <<Join(type, Two, Alias("u", "v"), on)>>, None) :
        type \in Types, on \in {Eq(C("u", "id"), C("v", "id")), Eq(C("t", "id"), C("v", "k"))}}
\cup {Select(<<C("v", "id"), Star>>, <<T("t"), Alias("t", "v")>>, Bin("<", C("t", "x"), C("v", "x"))),
      Select(<<[Star EXCEPT !.q = "u"], C("t", "k")>>, <<Join("cross", T("t"), T("u"), None)>>, None),
      Select(<<Star>>, <<Join("full", T("t"), Derived(Select(<<c("k"), c("id")>>, <<T("u")>>, None), "d"),
                              Eq(C("t", "k"), C("d", "k")))>>, None)}

Grouped(es, keys, having, order) ==
  [From(es, None) EXCEPT !.groupBy = keys, !.having = having, !.orderBy = order]
Sums == <<CountAll, Call("count", <<c("k")>>), Call("sum", <<c("x")>>), Call("avg", <<c("k")>>)>>
Bests == <<Call("min", <<c("x")>>), Call("max", <<c("k")>>), Distinct(Call("count", <<c("x")>>)),
           Distinct(Call("sum", <<c("x")>>)), Call("avg", <<c("x")>>)>>
Groupings ==
     {Grouped(keys \o es, keys, having, order) :
        keys \in {<<>>, <<c("k")>>, <<c("x")>>, <<Bin("+", c("k"), N(1)), c("k")>>}, es \in {Sums, Bests},
        having \in {None, Bin(">", CountAll, N(1))},
        order \in {<<>>, <<By(CountAll, TRUE, ""), By(Call("max", <<c("id")>>), FALSE, "")>>}}
\cup {Grouped(<<Bin("*", c("k"), Call("sum", <<Bin("-", c("id"), c("k"))>>))>>, <<c("k")>>,
              Null(Call("sum", <<c("k")>>), TRUE), <<By(c("k"), TRUE, "last")>>),
      [Select(<<c("k"), Call("sum", <<c("count")>>)>>,
              <<Derived(Grouped(<<c("k"), CountAll>>, <<c("k"), c("x")>>, None, <<>>), "d")>>, None) EXCEPT !.groupBy = <<c("k")>>]}

Arms == {From(<<c("k")>>, None), Select(<<c("k")>>, <<T("u")>>, None), From(<<c("id")>>, Bin("<=", c("id"), N(2)))}
SetOps ==
     {SetOp(o, all, l, r) : o \in {"union", "intersect", "except"}, all \in BOOLEAN, l \in Arms, r \in Arms}
\cup {SetOp(o, all, From(<<c("x")>>, None), From(<<c("x")>>, Bin("<", c("x"), L(X(20))))) :
        o \in {"union", "intersect", "except"}, all \in BOOLEAN}
\cup {[SetOp(o, TRUE, l, SetOp("except", FALSE, l, Select(<<c("k")>>, <<T("u")>>, None))) EXCEPT
         !.orderBy = <<By(N(1), desc, "")>>, !.limit = I(3), !.offset = I(1)] :
        o \in {"union", "intersect", "except"}, desc \in BOOLEAN, l \in Arms}

Sorts ==
     {[From(<<c("k"), c("x"), c("id")>>, None) EXCEPT !.orderBy = <<By(e, desc, nulls), By(c("id"), ~desc, "")>>,
         !.limit = limit, !.offset = offset] :
        e \in {c("k"), N(2), Bin("*", c("x"), c("k"))}, desc \in BOOLEAN, nulls \in {"", "first", "last"},
        limit \in {NULL, I(2)}, offset \in {NULL, I(1)}}
\cup {[From(<<c("k"), c("x")>>, None) EXCEPT !.distinct = TRUE, !.distinctOn = on, !.orderBy = order, !.limit = limit] :
        on \in {<<>>, <<c("k")>>, <<Bin("+", c("x"), N(1))>>}, limit \in {NULL, I(2), I(0)},
        order \in {<<>>, <<By(c("k"), FALSE, "first"), By(c("x"), TRUE, "")>>}}
\cup {[From(<<c("id")>>, None) EXCEPT !.limit = I(-1)]}

\* Subqueries in WHERE; the correlated ones name t, or the query around them.
OfU(es, where) == Select(es, <<T("u")>>, where)
Here    == Eq(C("u", "k"), C("t", "k"))
Deep    == Exists(Select(<<N(1)>>, <<Alias("t", "w")>>,
                         Both(Eq(C("w", "id"), C("t", "id")), Bin("<>", C("w", "k"), C("u", "id")))), FALSE)
Farther == Exists(Select(<<N(1)>>, <<Alias("t", "w")>>, Bin(">", C("w", "id"), C("t", "id"))), FALSE)
Inner   == Exists(Select(<<N(1)>>, <<Alias("t", "w")>>, Eq(C("w", "k"), C("u", "k"))), FALSE)
Wheres  == {None, Here, Deep, Farther, Inner, Both(Here, Farther)}
Subqueries ==
     {From(<<c("id")>>, test) :
        test \in {Exists(OfU(<<c("id")>>, w), neg) : w \in Wheres, neg \in BOOLEAN}
            \cup {InSub(c("k"), OfU(<<e>>, w), neg) : w \in Wheres, e \in {c("k"), C("t", "id")}, neg \in BOOLEAN}
            \cup {Bin(">", c("id"), Sub(OfU(<<Call("max", <<c("k")>>)>>, w))) : w \in Wheres}}
\cup {From(<<c("id"), Sub([OfU(<<e>>, w) EXCEPT !.orderBy = <<By(c("id"), desc, "")>>, !.limit = I(1)])>>, None) :
        w \in Wheres, e \in {c("k"), C("t", "x")}, desc \in BOOLEAN}
\cup {From(<<Sub(OfU(<<c("id")>>, w))>>, None) : w \in {Here, Eq(c("id"), C("t", "id"))}}
\cup {Select(<<C("t", "id"), C("u", "id")>>, <<Join(type, T("t"), T("u"), Both(Here, Farther))>>, None) : type \in Types}
\cup {Select(<<c("k"), c("n")>>, <<Derived([OfU(<<c("k"), CountAll>>, Inner) EXCEPT !.groupBy = <<c("k")>>,
        !.items[2].as = "n"], "d")>>, Bin("<=", c("n"), Sub(From(<<CountAll>>, Eq(C("t", "k"), C("d", "k"))))))}

Scalars == {
  Case(None, <<<<Bin("<", c("k"), N(2)), c("id")>>, <<Null(c("k"), FALSE), N(7)>>>>, None),
  Case(None, <<<<Eq(c("id"), N(2)), N(0)>>>>, Bin("/", N(6), Bin("-", c("id"), N(2)))),
  Case(c("k"), <<<<N(1), c("x")>>, <<L(NULL), L(X(9))>>>>, L(X(5))),
  Call("coalesce", <<c("k"), c("id")>>), Call("coalesce", <<c("x"), L(X(5))>>),
  Call("nullif", <<c("k"), N(1)>>), Call("abs", <<Un("-", c("id"))>>),
  Bin("+", c("x"), c("id")), Bin("*", c("x"), c("x")), Bin("/", c("x"), N(2)), Bin("%", c("id"), N(2)),
  Bin("/", Un("-", c("id")), N(2)), Bin("/", c("k"), Bin("-", c("id"), N(2))), Un("-", c("x")),
  As(c("x"), "int"), As(As(c("x"), "float"), "numeric"), As(Bin(">", c("id"), N(2)), "int"), As(c("x"), "bool"),
  Bin("+", As(c("x"), "float"), c("id")), Bin("*", As(c("x"), "float"), c("x")),
  Bin("/", As(c("id"), "float"), N(3)), Bin("%", Un("-", As(c("x"), "float")), N(2)),
  As(Bin("/", As(c("id"), "float"), N(7)), "numeric")}
Tests ==
     {Between(c("id"), N(2), c("k"), neg) : neg \in BOOLEAN}
\cup {InList(c("id"), list, neg) : list \in {<<N(1), c("k")>>, <<N(1), L(NULL)>>}, neg \in BOOLEAN}
\cup {InList(c("x"), <<N(2), L(X(15))>>, FALSE), Un("not", Bin("<", c("k"), N(2))),
      Both(Bin("<>", c("id"), N(2)), Bin(">", Bin("/", N(6), Bin("-", c("id"), N(2))), N(0))),
      Bin("or", Eq(c("id"), N(2)), Bin(">", Bin("/", N(6), Bin("-", c("id"), N(2))), N(3)))}
\cup {Bin(o, c("k"), c("x")) : o \in Comparisons}
Expressions1 == {From(<<e>>, None) : e \in Scalars} \cup {From(<<c("id"), e>>, e) : e \in Tests}

Family(qs) == [queries |-> qs, databases |-> {Some, Mixed, NoU, NoT}]
All == {Family(Joins), Family(Groupings), Family(SetOps), Family(Sorts), Family(Subqueries), Family(Expressions1)}

\* Subqueries that name the row around them in an argument of an aggregate
\* alone, or in an arm of a set operation alone.
Lost == {Family({
  From(<<c("id"), Sub(OfU(<<Call("sum", <<Bin("+", C("u", "k"), C("t", "id"))>>)>>, None))>>, None),
  From(<<c("id")>>, Exists(SetOp("except", FALSE, OfU(<<c("k")>>, Here), OfU(<<c("id")>>, None)), FALSE))})}

-----------------------------------------------------------------------------
\* Decimals of scale 0 to 3 in a word and past its ends, integers and floats,
\* those that a float holds and those that it does not.
Digits  == {-64, -63, -62, -50, -32, -10, -9, -7, -1, 0, 1, 3, 5, 7, 8, 10, 20, 31, 32, 60, 62, 63, 64, 70, 100}
Numbers == {V(kind, n, s) : kind \in {"numeric"}, n \in Digits, s \in 0..3}
           \cup {IntV(n) : n \in {-64, -1, 0, 1, 7, 10, 16, 17, 63}} \cup {Float(n, d) : n \in {-64, -10, 0, 5, 7, 16, 100}, d \in {1, 10}}
Everything == Numbers \cup {NULL, TextV(1), TextV(2), BoolV(TRUE), BoolV(FALSE)}
=============================================================================
