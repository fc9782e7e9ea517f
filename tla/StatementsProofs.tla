-------------------------- MODULE StatementsProofs --------------------------
(***************************************************************************)
(* Proofs about the rows of the tables, for any tables, any scenario and   *)
(* any number of connections.                                              *)
(***************************************************************************)
EXTENDS CatalogProofs

(***************************************************************************)
(* Lists of lists.                                                         *)
(***************************************************************************)

\* FlattenSeq, list by list.
Flat(q) == CHOOSE f : f = [i \in 1..Len(q) |-> IF i = 1 THEN q[i] ELSE f[i - 1] \o q[i]]

\* There is such a function.
LEMMA FlatIs ==
  ASSUME NEW q, Len(q) \in Nat \ {0}
  PROVE  /\ FlattenSeq(q) = Flat(q)[Len(q)]
         /\ Flat(q)[1] = q[1]
         /\ \A i \in 2..Len(q) : Flat(q)[i] = Flat(q)[i - 1] \o q[i]
<1> DEFINE Rule(f, m) == f = [i \in 1..m |-> IF i = 1 THEN q[i] ELSE f[i - 1] \o q[i]]
           T == {m \in 0..Len(q) : \E f : Rule(f, m)}
<1>1. 0 \in T
  <2> DEFINE g == [i \in 1..0 |-> q[1]]
  <2>1. Rule(g, 0)
    OBVIOUS
  <2>2. \E f : Rule(f, 0)
    BY <2>1, Zenon
  <2> HIDE DEF Rule
  <2>3. QED
    BY <2>2
<1>2. ASSUME NEW m \in 1..Len(q), m - 1 \in T
      PROVE  m \in T
  <2>1. PICK f : Rule(f, m - 1)
    BY <1>2
  <2> DEFINE last == IF m = 1 THEN q[1] ELSE f[m - 1] \o q[m]
  <2> HIDE DEF last
  <2> DEFINE g == [i \in 1..m |-> IF i = m THEN last ELSE f[i]]
  <2>2. \A i \in 1..m : g[i] = IF i = 1 THEN q[i] ELSE g[i - 1] \o q[i]
    <3> SUFFICES ASSUME NEW i \in 1..m PROVE g[i] = IF i = 1 THEN q[i] ELSE g[i - 1] \o q[i]
      OBVIOUS
    <3>1. CASE i = m
      <4>1. g[i] = last
        BY <3>1
      <4>2. i # 1 => g[i - 1] = f[m - 1]
        BY <3>1
      <4>3. QED
        BY <3>1, <4>1, <4>2, Zenon DEF last
    <3>2. CASE i # m
      <4>1. i \in 1..(m - 1)
        BY <3>2
      <4>2. f[i] = IF i = 1 THEN q[i] ELSE f[i - 1] \o q[i]
        BY <4>1, <2>1
      <4>3. i # 1 => i - 1 \in 1..m /\ i - 1 # m
        BY <4>1
      <4>4. QED
        BY <3>2, <4>1, <4>2, <4>3
    <3>3. QED
      BY <3>1, <3>2
  <2>3. Rule(g, m)
    BY <2>2, Zenon
  <2>4. \E h : Rule(h, m)
    BY <2>3, Zenon
  <2> HIDE DEF Rule
  <2>5. QED
    BY <2>4
<1>3. \E f : Rule(f, Len(q))
  <2> HIDE DEF Rule
  <2>1. \A i \in 0..Len(q) : i \in T
    <3> HIDE DEF T
    <3>1. QED
      BY <1>1, <1>2, UpTo
  <2>2. QED
    BY <2>1
<1> DEFINE f == CHOOSE f : Rule(f, Len(q))
<1>4. Rule(f, Len(q))
  BY <1>3, Zenon
<1>5. Flat(q) = f
  BY Zenon DEF Flat
<1>6. FlattenSeq(q) = f[Len(q)]
  BY Zenon DEF FlattenSeq
<1> HIDE DEF f
<1>7. \A i \in 1..Len(q) : f[i] = IF i = 1 THEN q[i] ELSE f[i - 1] \o q[i]
  BY <1>4
<1> HIDE DEF Rule
<1>9. 1 \in 1..Len(q) /\ \A i \in 2..Len(q) : i \in 1..Len(q) /\ i # 1
  OBVIOUS
<1>8. QED
  BY <1>5, <1>6, <1>7, <1>9, Zenon

\* A list of lists is one, of what is in them.
LEMMA FlattenKeeps ==
  ASSUME NEW q, IsSeq(q), \A i \in DOMAIN q : IsSeq(q[i])
  PROVE  /\ IsSeq(FlattenSeq(q))
         /\ \A x \in ToSet(FlattenSeq(q)) : \E i \in DOMAIN q : x \in ToSet(q[i])
<1>1. Len(q) \in Nat /\ DOMAIN q = 1..Len(q)
  BY SeqIs
<1>2. CASE Len(q) = 0
  <2>1. FlattenSeq(q) = q
    BY <1>2, Zenon DEF FlattenSeq
  <2>2. ToSet(q) = {}
    BY <1>1, <1>2, SeqIs
  <2>3. QED
    BY <2>1, <2>2
<1>3. CASE Len(q) # 0
  <2> DEFINE f == Flat(q)
             Right(r) == IsSeq(r) /\ \A x \in ToSet(r) : \E i \in DOMAIN q : x \in ToSet(q[i])
             T == {n \in 0..Len(q) : n # 0 => Right(f[n])}
  <2>1. /\ FlattenSeq(q) = f[Len(q)] /\ f[1] = q[1]
        /\ \A i \in 2..Len(q) : f[i] = f[i - 1] \o q[i]
    BY <1>1, <1>3, FlatIs
  <2> HIDE DEF f
  <2>2. 0 \in T
    BY <1>1
  <2>3. ASSUME NEW n \in 1..Len(q), n - 1 \in T
        PROVE  n \in T
    <3>1. n \in DOMAIN q /\ IsSeq(q[n])
      BY <1>1
    <3>2. Right(q[n])
      BY <3>1
    <3>3. CASE n = 1
      BY <1>1, <2>1, <3>2, <3>3
    <3>4. CASE n # 1
      <4>5. n \in 2..Len(q) /\ n - 1 # 0
        BY <1>1, <3>4
      <4>6. f[n] = f[n - 1] \o q[n]
        BY <2>1, <4>5, Zenon
      <4>7. Right(f[n - 1])
        <5> HIDE DEF Right
        <5>1. QED
          BY <2>3, <4>5
      <4>1. f[n] = f[n - 1] \o q[n] /\ Right(f[n - 1])
        BY <4>6, <4>7, Zenon
      <4>2. IsSeq(f[n - 1] \o q[n]) /\ ToSet(f[n - 1] \o q[n]) = ToSet(f[n - 1]) \cup ToSet(q[n])
        BY <3>1, <4>1, ConcatIs
      <4>3. Right(f[n])
        BY <3>2, <4>1, <4>2
      <4> HIDE DEF Right
      <4>4. QED
        BY <1>1, <4>3
    <3>5. QED
      BY <3>3, <3>4
  <2>4. \A n \in 0..Len(q) : n \in T
    <3> HIDE DEF T
    <3>1. QED
      BY <1>1, <2>2, <2>3, UpTo
  <2>5. Right(f[Len(q)])
    BY <1>1, <1>3, <2>4
  <2>6. QED
    BY <2>1, <2>5
<1>4. QED
  BY <1>2, <1>3

\* Positions of a heap, in order.
LEMMA InOrderIs ==
  ASSUME NEW versions, IsSeq(versions), NEW P
  PROVE  IsSeq(InOrder(versions, P)) /\ ToSet(InOrder(versions, P)) = DOMAIN versions \cap P
<1> DEFINE q == [i \in DOMAIN versions |-> i]
<1>1. DOMAIN versions = 1..Len(versions) /\ Len(versions) \in Nat
  BY SeqIs
<1>2. q = [i \in 1..Len(versions) |-> q[i]]
  BY <1>1
<1>3. ToSet(q) = DOMAIN versions
  BY DEF ToSet
<1> HIDE DEF q
<1>4. IsSeq(q)
  BY <1>1, <1>2, FunctionsAreSeqs
<1>5. IsSeq(Only(q, P)) /\ ToSet(Only(q, P)) = ToSet(q) \cap P
  BY <1>4, OnlyKeeps
<1>6. QED
  BY <1>3, <1>5, Zenon DEF InOrder, q

(***************************************************************************)
(* Keys and indexes, as ordinals of columns.                               *)
(***************************************************************************)
Ordinals(t, cols) == \A i \in DOMAIN cols : cols[i] \in DOMAIN t.columns

\* A table whose keys and indexes are about columns it has.
Keyed(t) ==
  /\ \A k \in DOMAIN t.keys : Ordinals(t, t.keys[k].cols)
  /\ \A x \in DOMAIN t.indexes : Ordinals(t, t.indexes[x].cols) /\ Binds(t, t.indexes[x].where)

AllKeyed(c) == \A h \in DOMAIN c.tables : Keyed(c.tables[h])

(***************************************************************************)
(* The heap.                                                               *)
(***************************************************************************)
Width(c, h) == Len(c.tables[h].columns)

\* A version that n transactions can have written, no wider than its table.
VersionOK(v, n, width) ==
  /\ v = [vals |-> v.vals, xmin |-> v.xmin, xmax |-> v.xmax]
  /\ v.xmin \in 1..n /\ v.xmax \in 0..n /\ Len(v.vals) \in 0..width

VersionsOK(versions, n, width) ==
  IsSeq(versions) /\ \A i \in DOMAIN versions : VersionOK(versions[i], n, width)

HeapOK(hp, c, n) ==
  DOMAIN hp = DOMAIN c.tables /\ \A h \in DOMAIN hp : VersionsOK(hp[h], n, Width(c, h))

\* A transaction that has written nothing.
Blank(hp, id) == \A h \in DOMAIN hp : \A i \in DOMAIN hp[h] : id \notin {hp[h][i].xmin, hp[h][i].xmax}

Outcomes == {"active", "committed", "aborted"}

StatusOK(st) == IsSeq(st) /\ Len(st) >= Boot /\ \A i \in DOMAIN st : st[i] \in Outcomes

(***************************************************************************)
(* The agenda of a statement.                                              *)
(***************************************************************************)
\* A call for a row of the statement's own table: the others come of it.
Own(c) == c.call \in {"row", "write", "store"}

\* A call that can be there: its table is there, what it writes fits, a row that
\* refers to another has been dealt with or is seen, and one that goes has been
\* dealt with.
CallOK(me, hp, c, seen, call) ==
  /\ call.call \in {"row", "write", "store", "child", "remove"}
  /\ call.h \in Present(c)
  /\ Own(call) => call.h = me.h
  /\ call.call = "write" /\ call.next # <<>> => Len(call.next) \in 0..Width(c, call.h)
  /\ me.stmt.op = "delete" => call.next = <<>> /\ call.call # "store"
  /\ call.call = "remove" => <<call.h, call.v>> \in seen
  /\ call.call = "child" => \/ <<call.h, call.v>> \in seen
                            \/ call.v \in Seen(hp[call.h], me.tx, me.snap)
  /\ call.call = "child" => call.fk \in DOMAIN c.tables[call.h].foreignKeys

\* The statement's own calls come last.
OwnLast(q) == \A i, j \in DOMAIN q : i < j /\ Own(q[i]) => Own(q[j])

AgendaOK(me, hp, c, seen, q) ==
  IsSeq(q) /\ OwnLast(q) /\ \A call \in ToSet(q) : CallOK(me, hp, c, seen, call)

(***************************************************************************)
(* The invariant.                                                          *)
(***************************************************************************)
SessionFields == {"tx", "snap", "level", "explicit", "failed", "writing", "stmt", "h", "agenda",
                  "seen", "wrote", "before"}

SessionOK(me, hp, c, st) ==
  /\ DOMAIN me = SessionFields
  /\ me.tx \in 0..Len(st) /\ (me.tx # NoTx => st[me.tx] = "active")
  /\ \A i \in me.snap : i \in DOMAIN st /\ st[i] = "committed"
  /\ me.explicit \/ me.writing => me.tx # NoTx
  /\ ~me.writing /\ me.tx # NoTx => Blank(hp, me.tx)
  /\ Running(me) => me.writing /\ AgendaOK(me, hp, c, me.seen, me.agenda)

SessionsOK(ses, hp, c, st) ==
  /\ DOMAIN ses = Sessions
  /\ \A s \in Sessions : SessionOK(ses[s], hp, c, st)
  /\ \A s, o \in Sessions : s # o => ses[s].tx = NoTx \/ ses[s].tx # ses[o].tx

RowInv ==
  /\ CatInv /\ AllKeyed(catalog)
  /\ StatusOK(status) /\ HeapOK(heap, catalog, Len(status)) /\ SessionsOK(session, heap, catalog, status)

(***************************************************************************)
(* Schema changes, as the rows see them.                                   *)
(***************************************************************************)

\* A table in the place of another, with the same rows: columns are added, and
\* keep what an older row reads in them; indexes go.
Follows(t, u) ==
  /\ IsSeq(u.columns) /\ Len(t.columns) <= Len(u.columns)
  /\ \A i \in DOMAIN t.columns : i \in DOMAIN u.columns /\ u.columns[i].missing = t.columns[i].missing
  /\ u.keys = t.keys /\ IsSeq(u.indexes) /\ ToSet(u.indexes) \subseteq ToSet(t.indexes)
  /\ \A ix \in ToSet(t.indexes) :
       ix.where.rel = "none" \/ ColumnIndex(u, ix.where.col) = ColumnIndex(t, ix.where.col)

\* A catalog with tables that do, and no more but empty ones.
Evolves(c, d) ==
  /\ AllKeyed(d) /\ \A h \in DOMAIN c.tables : h \in DOMAIN d.tables /\ Follows(c.tables[h], d.tables[h])

\* The indexes of a table, by number and as a set.
LEMMA KeyedIs ==
  ASSUME NEW t, TableShape(t)
  PROVE  Keyed(t) <=> /\ \A k \in DOMAIN t.keys : Ordinals(t, t.keys[k].cols)
                      /\ \A ix \in ToSet(t.indexes) : Ordinals(t, ix.cols) /\ Binds(t, ix.where)
<1>1. IsSeq(t.indexes)
  BY DEF TableShape
<1>2. \A x : x \in ToSet(t.indexes) <=> \E i \in DOMAIN t.indexes : t.indexes[i] = x
  BY SeqIs
<1>3. QED
  BY <1>1, <1>2 DEF Keyed

\* What a table that follows has is about its columns.
LEMMA FollowsKeyed ==
  ASSUME NEW t, NEW u, TableShape(t), TableShape(u), Keyed(t), Follows(t, u)
  PROVE  Keyed(u)
<1>1. \A cols : Ordinals(t, cols) => Ordinals(u, cols)
  BY DEF Ordinals, Follows
<1>2. \A ix \in ToSet(t.indexes) : Binds(t, ix.where) => Binds(u, ix.where)
  BY DEF Binds, Follows
<1>3. /\ \A k \in DOMAIN t.keys : Ordinals(t, t.keys[k].cols)
      /\ \A ix \in ToSet(t.indexes) : Ordinals(t, ix.cols) /\ Binds(t, ix.where)
  BY KeyedIs
<1>4. u.keys = t.keys /\ ToSet(u.indexes) \subseteq ToSet(t.indexes)
  BY DEF Follows
<1>5. /\ \A k \in DOMAIN u.keys : Ordinals(u, u.keys[k].cols)
      /\ \A ix \in ToSet(u.indexes) : Ordinals(u, ix.cols) /\ Binds(u, ix.where)
  BY <1>1, <1>2, <1>3, <1>4
<1>6. QED
  BY <1>5, KeyedIs

\* The number of a column depends on the columns.
LEMMA SameColumns ==
  ASSUME NEW t, NEW u, u.columns = t.columns, NEW name
  PROVE  ColumnIndex(u, name) = ColumnIndex(t, name)
BY Zenon DEF ColumnIndex

\* A table with the same columns and keys follows.
LEMMA SameFollows ==
  ASSUME NEW t, NEW u, TableShape(t), TableShape(u), u.columns = t.columns, u.keys = t.keys,
         ToSet(u.indexes) \subseteq ToSet(t.indexes)
  PROVE  Follows(t, u)
<1>1. Len(t.columns) \in Nat
  BY SeqIs DEF TableShape
<1>2. \A name : ColumnIndex(u, name) = ColumnIndex(t, name)
  BY SameColumns
<1>3. QED
  BY <1>1, <1>2 DEF Follows, TableShape

\* The number of a column depends on the names up to it.
LEMMA SameNames ==
  ASSUME NEW t, NEW u, IsSeq(t.columns), IsSeq(u.columns), NEW name, HasColumn(t, name),
         \A i \in DOMAIN t.columns : i \in DOMAIN u.columns /\
           (u.columns[i].name = name <=> t.columns[i].name = name)
  PROVE  ColumnIndex(u, name) = ColumnIndex(t, name)
<1> DEFINE I(v) == {i \in 1..Len(v.columns) : v.columns[i].name = name}
           least(v) == CHOOSE i \in I(v) : \A j \in I(v) : i <= j
<1>1. \A v : ColumnIndex(v, name) = IF I(v) # {} THEN least(v) ELSE 0
  BY Zenon DEF ColumnIndex, SelectInSeq, Min
<1>2. /\ DOMAIN t.columns = 1..Len(t.columns) /\ Len(t.columns) \in Nat
      /\ DOMAIN u.columns = 1..Len(u.columns) /\ Len(u.columns) \in Nat
  BY SeqIs
<1>3. I(t) \subseteq I(u) /\ I(u) \in SUBSET Nat /\ \A i \in I(u) : i <= Len(t.columns) => i \in I(t)
  BY <1>2
<1>4. I(t) # {}
  BY <1>2 DEF HasColumn
<1>5. \A i \in I(t) : i <= Len(t.columns)
  BY <1>2
<1> DEFINE A == I(t)
           B == I(u)
           n == Len(t.columns)
<1> HIDE DEF I
<1>6. \E i \in A : \A j \in A : i <= j
  BY <1>3, <1>4, LeastOf
<1>7. \A i : (i \in A /\ \A j \in A : i <= j) <=> (i \in B /\ \A j \in B : i <= j)
  <2>1. A \subseteq B /\ B \in SUBSET Nat /\ n \in Nat
        /\ (\A i \in B : i <= n => i \in A) /\ (\A i \in A : i <= n) /\ A # {}
    BY <1>2, <1>3, <1>4, <1>5
  <2> HIDE DEF A, B, n
  <2>2. ASSUME NEW i, i \in A, \A j \in A : i <= j
        PROVE  i \in B /\ \A j \in B : i <= j
    <3> SUFFICES ASSUME NEW j \in B PROVE i <= j
      BY <2>1, <2>2
    <3>1. i \in Nat /\ j \in Nat /\ i <= n
      BY <2>1, <2>2
    <3>2. CASE j <= n
      BY <2>1, <2>2, <3>2
    <3>3. CASE ~(j <= n)
      BY <2>1, <3>1, <3>3
    <3>4. QED
      BY <3>2, <3>3
  <2>3. ASSUME NEW i, i \in B, \A j \in B : i <= j
        PROVE  i \in A /\ \A j \in A : i <= j
    <3>1. PICK a \in A : TRUE
      BY <2>1
    <3>2. i \in Nat /\ a \in Nat /\ i <= a /\ a <= n
      BY <2>1, <2>3
    <3>3. i <= n
      BY <2>1, <3>2
    <3>4. QED
      BY <2>1, <2>3, <3>3
  <2>4. QED
    BY <2>2, <2>3
<1>8. least(t) = least(u)
  <2>1. least(t) = CHOOSE i : i \in A /\ \A j \in A : i <= j
    OBVIOUS
  <2>2. least(u) = CHOOSE i : i \in B /\ \A j \in B : i <= j
    OBVIOUS
  <2> HIDE DEF least, A, B
  <2>3. QED
    BY <1>7, <2>1, <2>2
<1>9. I(u) # {}
  BY <1>3, <1>4
<1> HIDE DEF least
<1>10. QED
  BY <1>1, <1>4, <1>8, <1>9

\* A catalog that is as it was.
LEMMA NothingEvolves == ASSUME NEW c, CatalogShape(c), AllKeyed(c) PROVE Evolves(c, c)
BY SameFollows DEF Evolves, CatalogShape

\* Tables that follow, and new ones.
LEMMA TablesEvolve ==
  ASSUME NEW c, NEW d, CatalogShape(c), CatalogShape(d), AllKeyed(c),
         \A h \in DOMAIN c.tables : h \in DOMAIN d.tables /\ Follows(c.tables[h], d.tables[h]),
         \A h \in DOMAIN d.tables : h \in DOMAIN c.tables \/ Keyed(d.tables[h])
  PROVE  Evolves(c, d)
<1>1. \A h \in DOMAIN c.tables : Keyed(d.tables[h])
  BY FollowsKeyed DEF AllKeyed, CatalogShape
<1>2. QED
  BY <1>1 DEF Evolves, AllKeyed

\* One table that does.
LEMMA OneEvolves ==
  ASSUME NEW c, NEW d, CatalogShape(c), CatalogShape(d), AllKeyed(c), NEW h, NEW u,
         h \in DOMAIN c.tables => Follows(c.tables[h], u),
         d = [c EXCEPT !.tables = [c.tables EXCEPT ![h] = u]]
  PROVE  Evolves(c, d)
<1>1. /\ DOMAIN d.tables = DOMAIN c.tables
      /\ \A g \in DOMAIN c.tables : d.tables[g] = IF g = h THEN u ELSE c.tables[g]
  BY DEF CatalogShape
<1>2. \A g \in DOMAIN c.tables : Follows(c.tables[g], c.tables[g])
  BY SameFollows DEF CatalogShape
<1>3. \A g \in DOMAIN c.tables : g \in DOMAIN d.tables /\ Follows(c.tables[g], d.tables[g])
  BY <1>1, <1>2
<1>4. QED
  BY <1>1, <1>3, TablesEvolve

\* Columns that read the same, where those that the indexes name keep their names.
LEMMA ColumnsFollow ==
  ASSUME NEW t, TableShape(t), Keyed(t), NEW columns, columns = [i \in DOMAIN t.columns |-> columns[i]],
         \A i \in DOMAIN t.columns : columns[i].missing = t.columns[i].missing,
         \A ix \in ToSet(t.indexes) : \/ ix.where.rel = "none"
                                      \/ \A i \in DOMAIN t.columns : columns[i].name = ix.where.col
                                                                       <=> t.columns[i].name = ix.where.col
  PROVE  Follows(t, [t EXCEPT !.columns = columns])
<1> DEFINE u == [t EXCEPT !.columns = columns]
<1>1. u.columns = columns /\ u.keys = t.keys /\ u.indexes = t.indexes
  BY DEF TableShape, Fields
<1> HIDE DEF u
<1>2. DOMAIN t.columns = 1..Len(t.columns) /\ Len(t.columns) \in Nat /\ DOMAIN columns = DOMAIN t.columns
  BY SeqIs DEF TableShape
<1>3. IsSeq(columns) /\ Len(columns) = Len(t.columns)
  BY <1>2, FunctionsAreSeqs
<1>4. ASSUME NEW ix \in ToSet(t.indexes), ix.where.rel # "none"
      PROVE  ColumnIndex(u, ix.where.col) = ColumnIndex(t, ix.where.col)
  <2>1. IsSeq(t.columns) /\ Binds(t, ix.where)
    BY KeyedIs DEF TableShape
  <2>2. HasColumn(t, ix.where.col)
    BY <1>4, <2>1, BindsIs
  <2>3. \A i \in DOMAIN t.columns :
          i \in DOMAIN u.columns /\ (u.columns[i].name = ix.where.col <=> t.columns[i].name = ix.where.col)
    BY <1>1, <1>2, <1>4
  <2> DEFINE name == ix.where.col
  <2> HIDE DEF name
  <2>4. HasColumn(t, name) /\ \A i \in DOMAIN t.columns :
          i \in DOMAIN u.columns /\ (u.columns[i].name = name <=> t.columns[i].name = name)
    BY <2>2, <2>3, Zenon DEF name
  <2>5. IsSeq(u.columns)
    BY <1>1, <1>3
  <2>6. ColumnIndex(u, name) = ColumnIndex(t, name)
    BY <2>1, <2>4, <2>5, SameNames
  <2>7. QED
    BY <2>6, Zenon DEF name
<1>5. /\ IsSeq(u.columns) /\ Len(t.columns) <= Len(u.columns)
      /\ \A i \in DOMAIN t.columns : i \in DOMAIN u.columns /\ u.columns[i].missing = t.columns[i].missing
      /\ u.keys = t.keys /\ IsSeq(u.indexes) /\ ToSet(u.indexes) \subseteq ToSet(t.indexes)
  BY <1>1, <1>2, <1>3 DEF TableShape
<1>6. \A ix \in ToSet(t.indexes) :
        ix.where.rel = "none" \/ ColumnIndex(u, ix.where.col) = ColumnIndex(t, ix.where.col)
  BY <1>4, Zenon
<1>7. Follows(t, u)
  BY <1>5, <1>6, Zenon DEF Follows
<1>8. QED
  BY <1>7, Zenon DEF u

\* SET NOT NULL and DROP NOT NULL.
LEMMA SetNotNullEvolves ==
  ASSUME NEW c, CatalogShape(c), AllKeyed(c), NEW s, s.table \in TableNames, NEW rows,
         NEW d \in SetNotNull(c, s, rows)
  PROVE  Evolves(c, d)
<1> DEFINE h == Lookup(c, s.table)
           t == c.tables[h]
           i == ColumnIndex(t, s.column)
           columns == [t.columns EXCEPT ![i] = [t.columns[i] EXCEPT !.notNull = s.notNull]]
           u == [t EXCEPT !.columns = columns]
<1>1. h # NoTable /\ (d = c \/ d = [c EXCEPT !.tables[h].columns[i].notNull = s.notNull])
  BY DEF SetNotNull
<1>2. [c EXCEPT !.tables[h].columns[i].notNull = s.notNull] = [c EXCEPT !.tables = [c.tables EXCEPT ![h] = u]]
  OBVIOUS
<1>3. TableShape(t) /\ h \in DOMAIN c.tables
  BY <1>1, LookupIs
<1>4. Keyed(t)
  BY <1>3 DEF AllKeyed
<1>5. /\ columns = [j \in DOMAIN t.columns |-> columns[j]]
      /\ \A j \in DOMAIN t.columns : columns[j].name = t.columns[j].name
      /\ \A j \in DOMAIN t.columns : columns[j].missing = t.columns[j].missing
  <2> HIDE DEF t, i
  <2>1. QED
    OBVIOUS
<1>6. Follows(t, u)
  <2> HIDE DEF t, columns
  <2>1. QED
    BY <1>3, <1>4, <1>5, ColumnsFollow
<1>7. CatalogShape(d)
  BY SetNotNullPreserves DEF Preserves
<1> HIDE DEF u
<1>8. d = [c EXCEPT !.tables = [c.tables EXCEPT ![h] = u]] => Evolves(c, d)
  BY <1>6, <1>7, OneEvolves
<1>9. QED
  BY <1>1, <1>2, <1>8, NothingEvolves

\* RENAME COLUMN.
LEMMA RenameColumnEvolves ==
  ASSUME NEW c, CatalogShape(c), AllKeyed(c), NEW s, s.table \in TableNames, NEW d \in RenameColumn(c, s)
  PROVE  Evolves(c, d)
<1> DEFINE h == Lookup(c, s.table)
           t == c.tables[h]
           i == ColumnIndex(t, s.column)
           columns == [t.columns EXCEPT ![i] = [t.columns[i] EXCEPT !.name = s.to]]
           u == [t EXCEPT !.columns = columns]
<1>1. h # NoTable /\ i # 0
  BY DEF RenameColumn
<1>2. CASE d = c
  BY <1>2, NothingEvolves
<1>3. CASE d # c
  <2>1. /\ ~dependsOnColumnName(t, s.column) /\ ColumnIndex(t, s.to) = 0
        /\ d = [c EXCEPT !.tables[h].columns[i].name = s.to]
    BY <1>1, <1>3 DEF RenameColumn
  <2>2. d = [c EXCEPT !.tables = [c.tables EXCEPT ![h] = u]]
    BY <2>1
  <2>3. TableShape(t) /\ h \in DOMAIN c.tables
    BY <1>1, LookupIs
  <2>4. Keyed(t)
    BY <2>3 DEF AllKeyed
  <2>5. t.columns[i].name = s.column /\ ~HasColumn(t, s.to)
    <3> HIDE DEF t
    <3>1. QED
      BY <1>1, <2>1, <2>3, ColumnIndexIs DEF TableShape
  <2> HIDE DEF i, t
  <2>6. /\ columns = [j \in DOMAIN t.columns |-> columns[j]]
        /\ \A j \in DOMAIN t.columns : columns[j].missing = t.columns[j].missing
        /\ \A j \in DOMAIN t.columns : columns[j].name = IF j = i THEN s.to ELSE t.columns[j].name
    BY <2>3 DEF TableShape
  <2>7. ASSUME NEW ix \in ToSet(t.indexes), ix.where.rel # "none"
        PROVE  \A j \in DOMAIN t.columns : columns[j].name = ix.where.col <=> t.columns[j].name = ix.where.col
    <3>1. ix.where.col # s.column
      <4>1. \E x \in DOMAIN t.indexes : t.indexes[x] = ix
        BY <2>3, SeqIs DEF TableShape
      <4>2. QED
        BY <2>1, <4>1 DEF dependsOnColumnName
    <3>2. HasColumn(t, ix.where.col)
      <4>1. IsSeq(t.columns) /\ Binds(t, ix.where)
        BY <2>3, <2>4, KeyedIs DEF TableShape
      <4>2. QED
        BY <2>7, <4>1, BindsIs
    <3>3. ix.where.col # s.to
      BY <2>5, <3>2
    <3> HIDE DEF columns
    <3>4. QED
      BY <2>5, <2>6, <3>1, <3>3
  <2>8. Follows(t, u)
    <3> HIDE DEF columns
    <3>1. QED
      BY <2>3, <2>4, <2>6, <2>7, ColumnsFollow
  <2>9. CatalogShape(d)
    BY RenameColumnPreserves DEF Preserves
  <2> HIDE DEF u
  <2>10. QED
    BY <2>2, <2>8, <2>9, OneEvolves DEF t
<1>4. QED
  BY <1>2, <1>3

\* DROP INDEX.
LEMMA DropIndexEvolves ==
  ASSUME NEW c, CatalogShape(c), AllKeyed(c), NEW s, NEW d \in DropIndex(c, s)
  PROVE  Evolves(c, d)
<1> DEFINE having == {h \in Present(c) : s.name \in IndexNames(c, h)}
           left(h) == Only(c.tables[h].indexes, {x \in ToSet(c.tables[h].indexes) : x.name # s.name})
<1>1. d = c \/ \E h \in having : d = [c EXCEPT !.tables[h].indexes = left(h)]
  BY DEF DropIndex
<1>2. SUFFICES ASSUME NEW h \in having, d = [c EXCEPT !.tables[h].indexes = left(h)]
               PROVE  Evolves(c, d)
  BY <1>1, NothingEvolves
<1> DEFINE t == c.tables[h]
           u == [t EXCEPT !.indexes = left(h)]
<1>3. d = [c EXCEPT !.tables = [c.tables EXCEPT ![h] = u]]
  BY <1>2
<1>4. TableShape(t) /\ h \in DOMAIN c.tables
  BY <1>2 DEF Present, CatalogShape
<1>5. IsSeq(left(h)) /\ ToSet(left(h)) \subseteq ToSet(t.indexes)
  BY <1>4, OnlyKeeps DEF TableShape
<1>6. CatalogShape(d)
  BY DropIndexPreserves DEF Preserves
<1>7. d.tables[h] = u
  BY <1>3, <1>4 DEF CatalogShape
<1>8. TableShape(u)
  BY <1>3, <1>4, <1>6, <1>7 DEF CatalogShape
<1> HIDE DEF left, t
<1>9. u.indexes = left(h) /\ u.columns = t.columns /\ u.keys = t.keys
  BY <1>4 DEF TableShape, Fields
<1>10. Follows(t, u)
  <2> HIDE DEF u
  <2>1. QED
    BY <1>4, <1>5, <1>8, <1>9, SameFollows
<1> HIDE DEF u
<1>11. QED
  BY <1>3, <1>6, <1>10, OneEvolves DEF t

\* RENAME TABLE.
LEMMA RenameTableEvolves ==
  ASSUME NEW c, CatalogShape(c), AllKeyed(c), NEW s, s.table \in TableNames, s.to \in TableNames,
         NEW d \in RenameTable(c, s)
  PROVE  Evolves(c, d)
<1> DEFINE h == Lookup(c, s.table)
           u == [c.tables[h] EXCEPT !.name = s.to]
<1>1. CASE d = c
  BY <1>1, NothingEvolves
<1>2. CASE d # c
  <2>1. /\ h # NoTable
        /\ d = [names  |-> [c.names EXCEPT ![s.table] = NoTable, ![s.to] = h],
                tables |-> [c.tables EXCEPT ![h].name = s.to]]
    BY <1>2 DEF RenameTable
  <2>2. CatalogShape(d)
    BY RenameTablePreserves DEF Preserves
  <2>3. d.tables = [c.tables EXCEPT ![h] = u]
    BY <2>1
  <2> HIDE DEF h
  <2>4. ASSUME NEW g \in DOMAIN c.tables
        PROVE  g \in DOMAIN d.tables /\ Follows(c.tables[g], d.tables[g])
    <3>1. g \in DOMAIN d.tables /\ TableShape(c.tables[g]) /\ TableShape(d.tables[g])
      BY <2>2, <2>3 DEF CatalogShape
    <3>2. /\ d.tables[g].columns = c.tables[g].columns /\ d.tables[g].keys = c.tables[g].keys
          /\ d.tables[g].indexes = c.tables[g].indexes
      BY <2>3, <3>1 DEF TableShape, Fields
    <3>3. QED
      BY <3>1, <3>2, SameFollows
  <2>5. DOMAIN d.tables = DOMAIN c.tables
    BY <2>3
  <2>6. QED
    BY <2>2, <2>4, <2>5, TablesEvolve
<1>3. QED
  BY <1>1, <1>2

\* DROP TABLE.
LEMMA DropTableEvolves ==
  ASSUME NEW c, CatalogShape(c), Agrees(c), AllKeyed(c), NEW s, s.tables \subseteq TableNames,
         NEW d \in DropTable(c, s)
  PROVE  Evolves(c, d)
<1> DEFINE going == {Lookup(c, n) : n \in s.tables} \ {NoTable}
           stays(g) == {r \in ToSet(c.tables[g].referencedBy) :
                          r.child \notin going \/ g \notin Parents(c.tables, r.child) \ {r.child}}
           left(g) == Only(c.tables[g].referencedBy, stays(g))
<1>1. d.tables = detach(c.tables, going)
  BY DEF DropTable
<1>2. detach(c.tables, going) = [g \in DOMAIN c.tables |-> [c.tables[g] EXCEPT !.referencedBy = left(g)]]
  BY Zenon DEF detach
<1> HIDE DEF left, going
<1>3. CatalogShape(d)
  BY DropTablePreserves DEF Preserves
<1>4. DOMAIN d.tables = DOMAIN c.tables
  BY <1>1, <1>2
<1>5. ASSUME NEW g \in DOMAIN c.tables
      PROVE  Follows(c.tables[g], d.tables[g])
  <2>1. TableShape(c.tables[g]) /\ TableShape(d.tables[g])
    BY <1>3, <1>4 DEF CatalogShape
  <2>2. d.tables[g] = [c.tables[g] EXCEPT !.referencedBy = left(g)]
    BY <1>1, <1>2
  <2>3. /\ d.tables[g].columns = c.tables[g].columns /\ d.tables[g].keys = c.tables[g].keys
        /\ d.tables[g].indexes = c.tables[g].indexes
    BY <2>1, <2>2 DEF TableShape, Fields
  <2>4. QED
    BY <2>1, <2>3, SameFollows
<1>6. QED
  BY <1>3, <1>4, <1>5, TablesEvolve

\* The keys of a table that is bound are about its columns.
LEMMA BoundKeyed ==
  ASSUME NEW c, CatalogShape(c), NEW s, Creation(s), NEW t \in bindCreateTable(c, s)
  PROVE  Keyed(t) /\ t.indexes = <<>>
<1> DEFINE b == bareTable(s)
           fk(i) == resolveForeignKey(c, Len(c.tables) + 1, b, s.refs[i], columnOrdinals(b, s.refs[i].cols))
           chosen(i) == CHOOSE f \in fk(i) : TRUE
           keys == [i \in DOMAIN s.refs |-> chosen(i)]
<1>1. /\ t = [b EXCEPT !.foreignKeys = keys]
      /\ \A k \in DOMAIN s.keys : AreColumns(b, s.keys[k].cols)
  BY Zenon DEF bindCreateTable
<1>2. TableShape(t)
  BY BoundTable
<1> DEFINE cols == applyKeys(s.columns, s.keys)
           name(k) == columnOrdinals([columns |-> cols], s.keys[k].cols)
<1> HIDE DEF cols
<1>3. /\ b.columns = cols /\ b.indexes = <<>>
      /\ b.keys = [k \in DOMAIN s.keys |-> [primary |-> s.keys[k].primary, cols |-> name(k)]]
      /\ "columns" \in DOMAIN b /\ "keys" \in DOMAIN b /\ "indexes" \in DOMAIN b
  BY Zenon DEF bareTable, cols
<1> HIDE DEF b, keys
<1>4. t.columns = cols /\ t.indexes = <<>> /\ t.keys = b.keys
  BY <1>1, <1>3
<1>5. ASSUME NEW k \in DOMAIN t.keys
      PROVE  Ordinals(t, t.keys[k].cols)
  <2> DEFINE names == s.keys[k].cols
             v == [columns |-> cols]
  <2>1. k \in DOMAIN s.keys /\ t.keys[k].cols = columnOrdinals(v, names)
    BY <1>3, <1>4
  <2>2. v.columns = cols
    OBVIOUS
  <2> HIDE DEF v, name
  <2>3. \A n : ColumnIndex(v, n) = ColumnIndex(t, n) /\ ColumnIndex(b, n) = ColumnIndex(t, n)
    BY <1>3, <1>4, <2>2, SameColumns
  <2> HIDE DEF names
  <2>4. DOMAIN t.keys[k].cols = DOMAIN names /\ \A i \in DOMAIN names : t.keys[k].cols[i] = ColumnIndex(t, names[i])
    BY <2>1, <2>3 DEF columnOrdinals
  <2>5. \A i \in DOMAIN names : ColumnIndex(t, names[i]) # 0
    BY <1>1, <2>1, <2>3 DEF AreColumns, names
  <2>6. \A n : ColumnIndex(t, n) # 0 => ColumnIndex(t, n) \in DOMAIN t.columns
    BY <1>2, ColumnIndexIs DEF TableShape
  <2>7. QED
    BY <2>4, <2>5, <2>6 DEF Ordinals
<1>6. DOMAIN t.indexes = {}
  BY <1>4, SmallSeqs
<1>7. QED
  BY <1>4, <1>5, <1>6 DEF Keyed

\* CREATE TABLE.
LEMMA CreateTableEvolves ==
  ASSUME NEW c, CatalogShape(c), AllKeyed(c), NEW s, Creation(s), NEW d \in CreateTable(c, s)
  PROVE  Evolves(c, d)
<1>1. CASE d = c
  BY <1>1, NothingEvolves
<1>2. CASE d # c
  <2> DEFINE h == Len(c.tables) + 1
  <2>0. PICK t \in bindCreateTable(c, s) :
          d = [names  |-> [c.names EXCEPT ![s.table] = h],
               tables |-> AddReferencing(Append(c.tables, t), h)]
    BY <1>2, Zenon DEF CreateTable
  <2>1. d.tables = AddReferencing(Append(c.tables, t), h)
    BY <2>0
  <2>2. TableShape(t) /\ Keyed(t)
    BY BoundTable, BoundKeyed
  <2> DEFINE more == Append(c.tables, t)
             refs == ReferencesOf(more, h)
             to(g) == {r \in ToSet(refs) : more[h].foreignKeys[r.fk].parent = g}
             left(g) == more[g].referencedBy \o Only(refs, to(g))
  <2>3. d.tables = [g \in DOMAIN more |-> [more[g] EXCEPT !.referencedBy = left(g)]]
    BY <2>1, Zenon DEF AddReferencing
  <2>4. IsSeq(c.tables)
    BY DEF CatalogShape
  <2>5. DOMAIN more = 1..h
    BY <2>4, AppendIs
  <2>6. more[h] = t
    BY <2>4, AppendIs
  <2>7. \A g \in DOMAIN c.tables : more[g] = c.tables[g]
    BY <2>4, AppendIs
  <2>8. Len(c.tables) \in Nat /\ DOMAIN c.tables = 1..Len(c.tables)
    BY <2>4, SeqIs
  <2> HIDE DEF more, left
  <2>9. (\A g \in DOMAIN c.tables : g \in DOMAIN more) /\ \A g \in DOMAIN more : g = h \/ g \in DOMAIN c.tables
    BY <2>5, <2>8
  <2> HIDE DEF h
  <2>10. CatalogShape(d)
    BY CreateTablePreserves DEF Preserves
  <2>11. ASSUME NEW g \in DOMAIN more
         PROVE  g \in DOMAIN d.tables /\ Follows(more[g], d.tables[g]) /\ (Keyed(more[g]) => Keyed(d.tables[g]))
    <3>1. g \in DOMAIN d.tables /\ TableShape(more[g]) /\ TableShape(d.tables[g])
      BY <2>2, <2>3, <2>6, <2>7, <2>9, <2>10 DEF CatalogShape
    <3>2. d.tables[g] = [more[g] EXCEPT !.referencedBy = left(g)]
      BY <2>3
    <3>3. /\ d.tables[g].columns = more[g].columns /\ d.tables[g].keys = more[g].keys
          /\ d.tables[g].indexes = more[g].indexes
      BY <3>1, <3>2 DEF TableShape, Fields
    <3>4. Follows(more[g], d.tables[g])
      BY <3>1, <3>3, SameFollows
    <3>5. QED
      BY <3>1, <3>4, FollowsKeyed
  <2>12. DOMAIN d.tables = DOMAIN more
    BY <2>3
  <2>13. QED
    BY <2>2, <2>6, <2>7, <2>9, <2>10, <2>11, <2>12, TablesEvolve
<1>3. QED
  BY <1>1, <1>2

\* ADD COLUMN: the older rows read the same in the columns there were.
LEMMA AddColumnEvolves ==
  ASSUME NEW c, CatalogShape(c), AllKeyed(c), NEW s, Addition(s), NEW d \in AddColumn(c, s)
  PROVE  Evolves(c, d)
<1> DEFINE h == Lookup(c, s.table)
           t == c.tables[h]
           n == Len(t.foreignKeys) + 1
           extended(a) == [c.tables EXCEPT ![h].columns = Append(@, a.column), ![h].checks = @ \o s.checks,
                                           ![h].foreignKeys = @ \o a.fks]
           registered(a) ==
             IF a.fks = <<>> THEN extended(a)
             ELSE [extended(a) EXCEPT ![a.fks[1].parent].referencedBy = Append(@, [child |-> h, fk |-> n])]
<1>1. CASE d = c
  BY <1>1, NothingEvolves
<1>2. CASE d # c
  <2>1. PICK a \in bindAddColumn(c, s) : /\ ColumnIndex(t, a.column.name) = 0
                                         /\ d = [c EXCEPT !.tables = registered(a)]
    BY <1>2, Zenon DEF AddColumn
  <2>2. h # NoTable
    BY DEF bindAddColumn
  <2>3. h \in DOMAIN c.tables /\ TableShape(t) /\ Keyed(t)
    BY <2>2, LookupIs DEF Addition, AllKeyed
  <2>4. CatalogShape(d)
    BY AddColumnPreserves
  <2> DEFINE u == [t EXCEPT !.columns = Append(@, a.column), !.checks = @ \o s.checks,
                            !.foreignKeys = @ \o a.fks]
  <2>5. extended(a) = [c.tables EXCEPT ![h] = u]
    OBVIOUS
  <2>6. u.columns = Append(t.columns, a.column) /\ u.keys = t.keys /\ u.indexes = t.indexes
      /\ DOMAIN u = Fields
    BY <2>3 DEF TableShape, Fields
  <2>7. d.tables = registered(a)
    BY <2>1 DEF CatalogShape
  <2> HIDE DEF u
  <2>8. /\ DOMAIN extended(a) = DOMAIN c.tables
        /\ \A g \in DOMAIN c.tables : extended(a)[g] = IF g = h THEN u ELSE c.tables[g]
    BY <2>5
  <2> HIDE DEF extended, n
  <2>9. /\ DOMAIN d.tables = DOMAIN c.tables
        /\ \A g \in DOMAIN c.tables : \/ d.tables[g] = extended(a)[g]
                                      \/ \E refs : d.tables[g] = [extended(a)[g] EXCEPT !.referencedBy = refs]
    <3>1. CASE a.fks = <<>>
      BY <2>7, <2>8, <3>1
    <3>2. CASE a.fks # <<>>
      <4> DEFINE p == a.fks[1].parent
                 refs == Append(extended(a)[p].referencedBy, [child |-> h, fk |-> n])
      <4>1. d.tables = [extended(a) EXCEPT ![p] = [extended(a)[p] EXCEPT !.referencedBy = refs]]
        BY <2>7, <3>2
      <4> HIDE DEF p, refs
      <4>2. QED
        BY <2>8, <4>1
    <3>3. QED
      BY <3>1, <3>2
  <2>10. ASSUME NEW g \in DOMAIN c.tables
         PROVE  Follows(c.tables[g], d.tables[g])
    <3>1. TableShape(c.tables[g]) /\ TableShape(d.tables[g])
      BY <2>4, <2>9 DEF CatalogShape
    <3>2. CASE g # h
      <4>1. extended(a)[g] = c.tables[g]
        BY <2>8, <3>2
      <4>2. /\ d.tables[g].columns = c.tables[g].columns /\ d.tables[g].keys = c.tables[g].keys
            /\ d.tables[g].indexes = c.tables[g].indexes
        BY <2>9, <3>1, <4>1 DEF TableShape, Fields
      <4>3. QED
        BY <3>1, <4>2, SameFollows
    <3>3. CASE g = h
      <4> DEFINE v == d.tables[g]
      <4>1. extended(a)[g] = u
        BY <2>3, <2>8, <3>3
      <4>12. v = u \/ \E refs : v = [u EXCEPT !.referencedBy = refs]
        BY <2>3, <2>9, <3>3, <4>1
      <4> HIDE DEF t
      <4>2. v.columns = Append(t.columns, a.column) /\ v.keys = t.keys /\ v.indexes = t.indexes
        BY <2>6, <4>12 DEF Fields
      <4> HIDE DEF v, t
      <4>3. IsSeq(t.columns) /\ DOMAIN t.columns = 1..Len(t.columns) /\ Len(t.columns) \in Nat
        BY <2>3, SeqIs DEF TableShape
      <4>4. IsSeq(v.columns) /\ Len(v.columns) = Len(t.columns) + 1 /\ DOMAIN v.columns = 1..(Len(t.columns) + 1)
        BY <4>2, <4>3, AppendIs
      <4>5. \A i \in DOMAIN t.columns : v.columns[i] = t.columns[i]
        BY <4>2, <4>3, AppendIs
      <4>6. \A i \in DOMAIN t.columns : i \in DOMAIN v.columns
        BY <4>3, <4>4
      <4>7. ASSUME NEW ix \in ToSet(t.indexes), ix.where.rel # "none"
            PROVE  ColumnIndex(v, ix.where.col) = ColumnIndex(t, ix.where.col)
        <5> DEFINE name == ix.where.col
        <5>1. Binds(t, ix.where)
          BY <2>3, KeyedIs
        <5>2. HasColumn(t, name)
          BY <4>3, <4>7, <5>1, BindsIs
        <5> HIDE DEF name
        <5>3. \A i \in DOMAIN t.columns : i \in DOMAIN v.columns /\ (v.columns[i].name = name <=> t.columns[i].name = name)
          BY <4>5, <4>6
        <5>4. ColumnIndex(v, name) = ColumnIndex(t, name)
          BY <4>3, <4>4, <5>2, <5>3, SameNames
        <5>5. QED
          BY <5>4, Zenon DEF name
      <4>8. Len(t.columns) <= Len(v.columns)
        BY <4>3, <4>4
      <4>9. IsSeq(v.indexes)
        BY <2>3, <4>2 DEF TableShape
      <4>10. Follows(t, v)
        BY <4>2, <4>4, <4>5, <4>6, <4>7, <4>8, <4>9, Zenon DEF Follows
      <4>11. QED
        BY <3>3, <4>10 DEF v, t
    <3>4. QED
      BY <3>2, <3>3
  <2>11. QED
    BY <2>4, <2>9, <2>10, TablesEvolve
<1>3. QED
  BY <1>1, <1>2

\* A catalog with one more index, on a table that it fits.
Indexed(c, d, h, ix) ==
  /\ h \in DOMAIN c.tables /\ Ordinals(c.tables[h], ix.cols) /\ Binds(c.tables[h], ix.where)
  /\ d = [c EXCEPT !.tables = [c.tables EXCEPT ![h] =
                                 [c.tables[h] EXCEPT !.indexes = Append(c.tables[h].indexes, ix)]]]

\* A table with one more index, and the others.
LEMMA IndexedIs ==
  ASSUME NEW c, CatalogShape(c), AllKeyed(c), NEW h, NEW ix, NEW d, Indexed(c, d, h, ix)
  PROVE  /\ AllKeyed(d) /\ DOMAIN d.tables = DOMAIN c.tables
         /\ \A g \in DOMAIN c.tables : /\ g # h => d.tables[g] = c.tables[g]
                                       /\ d.tables[g].columns = c.tables[g].columns
                                       /\ d.tables[g].keys = c.tables[g].keys
         /\ IsSeq(d.tables[h].indexes) /\ ToSet(d.tables[h].indexes) = ToSet(c.tables[h].indexes) \cup {ix}
<1> DEFINE t == c.tables[h]
           u == [t EXCEPT !.indexes = Append(t.indexes, ix)]
<1>1. h \in DOMAIN c.tables /\ Ordinals(t, ix.cols) /\ Binds(t, ix.where) /\ TableShape(t) /\ Keyed(t)
  BY DEF Indexed, CatalogShape, AllKeyed
<1>2. /\ DOMAIN d.tables = DOMAIN c.tables
      /\ \A g \in DOMAIN c.tables : d.tables[g] = IF g = h THEN u ELSE c.tables[g]
  BY DEF Indexed, CatalogShape
<1>3. u.columns = t.columns /\ u.keys = t.keys /\ u.indexes = Append(t.indexes, ix)
  BY <1>1 DEF TableShape, Fields
<1> HIDE DEF t, u
<1>4. IsSeq(u.indexes) /\ ToSet(u.indexes) = ToSet(t.indexes) \cup {ix}
  BY <1>1, <1>3, AppendIs DEF TableShape
<1>5. \A name : ColumnIndex(u, name) = ColumnIndex(t, name)
  BY <1>3, SameColumns
<1>6. (\A cols : Ordinals(t, cols) => Ordinals(u, cols)) /\ \A p : Binds(t, p) => Binds(u, p)
  BY <1>3, <1>5 DEF Ordinals, Binds
<1>7. Keyed(u)
  <2>1. \A x \in DOMAIN u.indexes : u.indexes[x] \in ToSet(t.indexes) \cup {ix}
    BY <1>4, SeqIs
  <2>2. \A y \in ToSet(t.indexes) \cup {ix} : Ordinals(u, y.cols) /\ Binds(u, y.where)
    BY <1>1, <1>6, KeyedIs
  <2>3. \A k \in DOMAIN u.keys : Ordinals(u, u.keys[k].cols)
    BY <1>1, <1>3, <1>6 DEF Keyed
  <2>4. QED
    BY <2>1, <2>2, <2>3 DEF Keyed
<1>8. AllKeyed(d)
  BY <1>2, <1>7 DEF AllKeyed
<1>9. d.tables[h] = u
  BY <1>1, <1>2
<1>10. \A g \in DOMAIN c.tables : /\ g # h => d.tables[g] = c.tables[g]
                                  /\ d.tables[g].columns = c.tables[g].columns
                                  /\ d.tables[g].keys = c.tables[g].keys
  BY <1>2, <1>3 DEF t
<1>11. QED
  BY <1>2, <1>4, <1>8, <1>9, <1>10 DEF t

\* CREATE INDEX.
NewIndex(c, s, sound) ==
  [name |-> s.name, cols |-> columnOrdinals(c.tables[Lookup(c, s.table)], s.cols), unique |-> s.unique,
   where |-> s.where, sound |-> sound]

\* It is there afterwards, or nothing has changed.
LEMMA CreateIndexAdds ==
  ASSUME NEW c, CatalogShape(c), AllKeyed(c), NEW s, s.table \in TableNames, bindCreateIndex(c, s),
         NEW sound, NEW d \in CreateIndex(c, s, sound)
  PROVE  Evolves(c, d) \/ Indexed(c, d, Lookup(c, s.table), NewIndex(c, s, sound))
<1> DEFINE h == Lookup(c, s.table)
           t == c.tables[h]
           ix == NewIndex(c, s, sound)
<1>1. h # NoTable /\ AreColumns(t, s.cols) /\ Binds(t, s.where)
  BY DEF bindCreateIndex
<1>2. h \in DOMAIN c.tables /\ TableShape(t)
  BY <1>1, LookupIs
<1>3. d = c \/ d = [c EXCEPT !.tables[h].indexes = Append(t.indexes, ix)]
  BY DEF CreateIndex, NewIndex
<1>4. ix.cols = columnOrdinals(t, s.cols) /\ ix.where = s.where
  BY DEF NewIndex
<1> HIDE DEF ix
<1>5. [c EXCEPT !.tables[h].indexes = Append(t.indexes, ix)]
        = [c EXCEPT !.tables = [c.tables EXCEPT ![h] = [c.tables[h] EXCEPT !.indexes = Append(c.tables[h].indexes, ix)]]]
  OBVIOUS
<1>6. Ordinals(t, ix.cols)
  <2> HIDE DEF t
  <2>1. \A n : ColumnIndex(t, n) # 0 => ColumnIndex(t, n) \in DOMAIN t.columns
    BY <1>2, ColumnIndexIs DEF TableShape
  <2>2. \A i \in DOMAIN s.cols : ColumnIndex(t, s.cols[i]) # 0
    BY <1>1 DEF AreColumns
  <2>3. QED
    BY <1>4, <2>1, <2>2 DEF Ordinals, columnOrdinals
<1>7. QED
  BY <1>1, <1>2, <1>3, <1>4, <1>5, <1>6, NothingEvolves DEF Indexed, ix

\* A schema change.
LEMMA DDLEvolves ==
  ASSUME CatInv, AllKeyed(catalog), NEW me, NEW s, IsDDL(s), WellFormed(s), BindsDDL(s), NEW d \in DDL(me, s)
  PROVE  \/ Evolves(catalog, d)
         \/ Indexed(catalog, d, Lookup(catalog, s.table), NewIndex(catalog, s, Sound(s)))
<1> USE DEF CatInv, OnTable
<1>1. CASE Creation(s) /\ d \in CreateTable(catalog, s)
  BY <1>1, CreateTableEvolves
<1>2. CASE s.tables \subseteq TableNames /\ d \in DropTable(catalog, s)
  BY <1>2, DropTableEvolves
<1>3. CASE Addition(s) /\ s.op = "add column" /\ d \in AddColumn(catalog, s)
  BY <1>3, AddColumnEvolves
<1>4. CASE OnTable(s) /\ s.to \in TableNames /\ d \in RenameTable(catalog, s)
  BY <1>4, RenameTableEvolves
<1>5. CASE OnTable(s) /\ d \in RenameColumn(catalog, s)
  BY <1>5, RenameColumnEvolves
<1>6. CASE OnTable(s) /\ s.op = "set not null" /\ d \in SetNotNull(catalog, s, Judging(me, s))
  BY <1>6, SetNotNullEvolves
<1>7. CASE OnTable(s) /\ bindCreateIndex(catalog, s) /\ d \in CreateIndex(catalog, s, Sound(s))
  BY <1>7, CreateIndexAdds
<1>8. CASE d \in DropIndex(catalog, s)
  BY <1>8, DropIndexEvolves
<1>9. QED
  BY <1>1, <1>2, <1>3, <1>4, <1>5, <1>6, <1>7, <1>8, DDLIs, Zenon

\* Sequences that are rebuilt.
LEMMA RestoredEvolves ==
  ASSUME NEW c, CatalogShape(c), AllKeyed(c), NEW rows,
         NEW d, d = [c EXCEPT !.tables = [h \in DOMAIN c.tables |-> RestoreSequences(c.tables[h], rows[h])]]
  PROVE  Evolves(c, d) /\ DOMAIN d.tables = DOMAIN c.tables
<1>1. CatalogShape(d)
  BY RestoredPreserves DEF Preserves
<1>2. /\ DOMAIN d.tables = DOMAIN c.tables
      /\ \A h \in DOMAIN c.tables : d.tables[h] = RestoreSequences(c.tables[h], rows[h])
  BY DEF CatalogShape
<1>3. ASSUME NEW h \in DOMAIN c.tables
      PROVE  Follows(c.tables[h], d.tables[h])
  <2> DEFINE t == c.tables[h]
             high(i) == {rows[h][r][i] : r \in {q \in DOMAIN rows[h] : rows[h][q][i] # NULL}} \cup {0}
             next(i) == 1 + (CHOOSE m \in high(i) : \A v \in high(i) : v <= m)
             columns == [i \in DOMAIN t.columns |->
                           IF t.columns[i].ident = "none" THEN t.columns[i]
                           ELSE [t.columns[i] EXCEPT !.nextSerial = next(i)]]
  <2>1. RestoreSequences(t, rows[h]) = [t EXCEPT !.columns = columns]
    BY Zenon DEF RestoreSequences
  <2>2. TableShape(t) /\ Keyed(t)
    BY DEF CatalogShape, AllKeyed
  <2> HIDE DEF next, t
  <2>3. /\ columns = [i \in DOMAIN t.columns |-> columns[i]]
        /\ \A i \in DOMAIN t.columns : columns[i].missing = t.columns[i].missing
        /\ \A i \in DOMAIN t.columns : columns[i].name = t.columns[i].name
    OBVIOUS
  <2> HIDE DEF columns
  <2>4. Follows(t, [t EXCEPT !.columns = columns])
    BY <2>2, <2>3, ColumnsFollow
  <2>5. QED
    BY <1>2, <2>1, <2>4 DEF t
<1>4. QED
  BY <1>1, <1>2, <1>3, TablesEvolve

\* The keys and indexes of the tables a scenario begins with are about columns they
\* have.
LEMMA CreatedKeyed ==
  ASSUME NEW sc \in Scenarios
  PROVE  AllKeyed(Created(sc.create))
<1> DEFINE creates == sc.create
           n == Len(creates)
           after == CatalogAfter(creates)
           Good(c) == Sane(c) /\ AllKeyed(c)
           S == {i \in 0..n : Good(after[i])}
<1>1. IsList(creates)
  BY ScenariosAssumption, Zenon
<1>2. n \in Nat /\ DOMAIN creates = 1..n
  BY <1>1 DEF IsList
<1>3. \A i \in DOMAIN creates : Creates(creates[i]) /\ Creating(after[i - 1], creates[i]) # {}
  BY ScenariosAssumption, Zenon DEF Creates
<1>4. /\ after[0] = EmptyCatalog
      /\ \A i \in 1..n : after[i] = CHOOSE d \in Creating(after[i - 1], creates[i]) : TRUE
  BY <1>2, CatalogAfterIs
<1> HIDE DEF creates, after, n
<1>5. Good(EmptyCatalog)
  <2>1. EmptyCatalog.tables = <<>>
    BY DEF EmptyCatalog
  <2>2. AllKeyed(EmptyCatalog)
    BY <2>1, SmallSeqs DEF AllKeyed
  <2>3. QED
    BY <2>2, EmptyIs DEF Sane
<1>6. ASSUME NEW c, Good(c), NEW s, Creates(s), Creating(c, s) # {}
      PROVE  Good(CHOOSE d \in Creating(c, s) : TRUE)
  <2> DEFINE e == CHOOSE d \in Creating(c, s) : TRUE
             made == Creation(s) /\ e \in CreateTable(c, s)
             indexed == s.table \in TableNames /\ bindCreateIndex(c, s) /\ e \in CreateIndex(c, s, TRUE)
  <2>1. e \in Creating(c, s)
    BY <1>6, Zenon
  <2>2. Sane(e)
    BY <1>6, CreatingStays
  <2> HIDE DEF e
  <2>3. made \/ indexed
    BY <1>6, <2>1 DEF Creating, WellFormed, Creation, Creates
  <2>4. CatalogShape(c) /\ AllKeyed(c)
    BY <1>6 DEF Sane
  <2>5. made => AllKeyed(e)
    BY <2>4, CreateTableEvolves DEF Evolves
  <2>6. indexed => AllKeyed(e)
    BY <2>4, CreateIndexAdds, IndexedIs DEF Evolves
  <2>7. Good(e)
    BY <2>2, <2>3, <2>5, <2>6, Zenon
  <2>8. QED
    BY <2>7, Zenon DEF e
<1> HIDE DEF Good
<1>7. 0 \in S
  BY <1>2, <1>4, <1>5
<1>8. \A i \in 1..n : i - 1 \in S => i \in S
  <2> SUFFICES ASSUME NEW i \in 1..n, Good(after[i - 1]) PROVE Good(after[i])
    BY <1>2
  <2>1. Creates(creates[i]) /\ Creating(after[i - 1], creates[i]) # {}
    BY <1>2, <1>3, Zenon
  <2>2. Good(CHOOSE d \in Creating(after[i - 1], creates[i]) : TRUE)
    BY <1>6, <2>1, Zenon
  <2>3. QED
    BY <1>4, <2>2, Zenon
<1>9. \A i \in 0..n : i \in S
  <2> HIDE DEF S
  <2>1. QED
    BY <1>2, <1>7, <1>8, UpTo
<1>10. Good(after[n])
  BY <1>2, <1>9
<1>11. QED
  BY <1>10, Zenon DEF Created, creates, after, n, Good

(***************************************************************************)
(* What a transaction does to the heap.                                    *)
(***************************************************************************)

\* One version is taken at most, that nobody else may have, and others are added.
Touched(hp, hp2, h, v, id, width) ==
  /\ DOMAIN hp2 = DOMAIN hp /\ \A g \in DOMAIN hp : g # h => hp2[g] = hp[g]
  /\ h \in DOMAIN hp =>
       /\ IsSeq(hp2[h])
       /\ \A i \in DOMAIN hp[h] :
            /\ i \in DOMAIN hp2[h]
            /\ \/ hp2[h][i] = hp[h][i]
               \/ i = v /\ ~Conflicts(hp[h][i], id) /\ hp2[h][i] = [hp[h][i] EXCEPT !.xmax = id]
       /\ \A i \in DOMAIN hp2[h] \ DOMAIN hp[h] :
            hp2[h][i] = Version(hp2[h][i].vals, id) /\ Len(hp2[h][i].vals) \in 0..width

\* An open transaction may, in a table that there is.
Written(hp, hp2, id, c) ==
  \/ hp2 = hp
  \/ /\ id \in DOMAIN status /\ status[id] = "active"
     /\ \E h, v : Touched(hp, hp2, h, v, id, Width(c, h))

\* Nobody's transaction, or an open one.
Open(id) == id = NoTx \/ (id \in DOMAIN status /\ status[id] = "active")

\* A version with another end.
LEMMA TakenVersion ==
  ASSUME NEW v, NEW n, NEW width, VersionOK(v, n, width), NEW id
  PROVE  /\ [v EXCEPT !.xmax = id].vals = v.vals /\ [v EXCEPT !.xmax = id].xmin = v.xmin
         /\ [v EXCEPT !.xmax = id].xmax = id
         /\ id \in 0..n => VersionOK([v EXCEPT !.xmax = id], n, width)
BY DEF VersionOK

\* The heap is one afterwards.
LEMMA WrittenHeapOK ==
  ASSUME StatusOK(status), NEW hp, NEW hp2, NEW id, NEW c,
         HeapOK(hp, c, Len(status)), Written(hp, hp2, id, c)
  PROVE  HeapOK(hp2, c, Len(status))
<1>1. CASE hp2 = hp
  BY <1>1
<1>2. CASE hp2 # hp
  <2> DEFINE n == Len(status)
  <2>1. PICK h : \E v : Touched(hp, hp2, h, v, id, Width(c, h))
    BY <1>2 DEF Written
  <2>2. PICK v : Touched(hp, hp2, h, v, id, Width(c, h))
    BY <2>1
  <2>3. n \in Nat /\ id \in 1..n
    BY <1>2, SeqIs DEF Written, StatusOK
  <2> HIDE DEF n
  <2>4. DOMAIN hp2 = DOMAIN hp /\ \A g \in DOMAIN hp : g # h => hp2[g] = hp[g]
    BY <2>2 DEF Touched
  <2>5. ASSUME h \in DOMAIN hp
        PROVE  VersionsOK(hp2[h], n, Width(c, h))
    <3>1. VersionsOK(hp[h], n, Width(c, h))
      BY <2>5 DEF HeapOK, n
    <3>2. ASSUME NEW i \in DOMAIN hp[h]
          PROVE  VersionOK(hp2[h][i], n, Width(c, h))
      <4>1. VersionOK(hp[h][i], n, Width(c, h))
        BY <3>1 DEF VersionsOK
      <4>2. hp2[h][i] = hp[h][i] \/ hp2[h][i] = [hp[h][i] EXCEPT !.xmax = id]
        BY <2>2, <2>5 DEF Touched
      <4>3. id \in 0..n
        BY <2>3
      <4>4. VersionOK([hp[h][i] EXCEPT !.xmax = id], n, Width(c, h))
        BY <4>1, <4>3, TakenVersion
      <4>5. QED
        BY <4>1, <4>2, <4>4
    <3>3. ASSUME NEW i \in DOMAIN hp2[h] \ DOMAIN hp[h]
          PROVE  VersionOK(hp2[h][i], n, Width(c, h))
      <4>1. hp2[h][i] = Version(hp2[h][i].vals, id) /\ Len(hp2[h][i].vals) \in 0..Width(c, h)
        BY <2>2, <2>5 DEF Touched
      <4>2. 0 \in 0..n
        BY <2>3
      <4>3. QED
        BY <2>3, <4>1, <4>2 DEF Version, VersionOK, NoTx
    <3>4. IsSeq(hp2[h])
      BY <2>2, <2>5 DEF Touched
    <3>5. QED
      BY <3>2, <3>3, <3>4 DEF VersionsOK
  <2>6. \A g \in DOMAIN hp2 : VersionsOK(hp2[g], n, Width(c, g))
    BY <2>4, <2>5 DEF HeapOK, n
  <2>7. QED
    BY <2>4, <2>6 DEF HeapOK, n
<1>3. QED
  BY <1>1, <1>2

\* Tables grow wider, and transactions come.
LEMMA HeapWidens ==
  ASSUME NEW hp, NEW c, NEW d, NEW n \in Nat, NEW m \in Nat, HeapOK(hp, c, n), n <= m,
         DOMAIN d.tables = DOMAIN c.tables, CatalogShape(c), CatalogShape(d),
         \A h \in DOMAIN c.tables : Width(c, h) <= Width(d, h)
  PROVE  HeapOK(hp, d, m)
<1>1. ASSUME NEW h \in DOMAIN hp, NEW i \in DOMAIN hp[h]
      PROVE  VersionOK(hp[h][i], m, Width(d, h))
  <2>1. h \in DOMAIN c.tables /\ VersionOK(hp[h][i], n, Width(c, h))
    BY DEF HeapOK, VersionsOK
  <2>2. Width(c, h) \in Nat /\ Width(d, h) \in Nat /\ Width(c, h) <= Width(d, h)
    BY <2>1, SeqIs DEF Width, CatalogShape, TableShape
  <2>3. QED
    BY <2>1, <2>2 DEF VersionOK
<1>2. QED
  BY <1>1 DEF HeapOK, VersionsOK

\* The others see what they saw.
LEMMA WrittenSeen ==
  ASSUME StatusOK(status), NEW hp, NEW hp2, NEW id, NEW c,
         HeapOK(hp, c, Len(status)), Written(hp, hp2, id, c),
         NEW o, Open(o), o # id, NEW snap, snap \subseteq Taken, NEW g \in DOMAIN hp
  PROVE  /\ Seen(hp2[g], o, snap) = Seen(hp[g], o, snap)
         /\ \A i \in DOMAIN hp[g] : i \in DOMAIN hp2[g] /\ hp2[g][i].vals = hp[g][i].vals
<1>1. CASE hp2 = hp
  BY <1>1
<1>2. CASE hp2 # hp
  <2>1. PICK h : \E v : Touched(hp, hp2, h, v, id, Width(c, h))
    BY <1>2 DEF Written
  <2>2. PICK v : Touched(hp, hp2, h, v, id, Width(c, h))
    BY <2>1
  <2>3. id \in DOMAIN status /\ status[id] = "active"
    BY <1>2 DEF Written
  <2>4. id # o /\ id \notin snap /\ id # NoTx
    <3>1. id # NoTx
      BY <2>3, SeqIs DEF StatusOK, NoTx
    <3>2. QED
      BY <2>3, <3>1 DEF Taken
  <2>5. CASE g # h
    BY <2>2, <2>5 DEF Touched
  <2>6. CASE g = h
    <3>1. ASSUME NEW i \in DOMAIN hp[h]
          PROVE  /\ i \in DOMAIN hp2[h] /\ hp2[h][i].vals = hp[h][i].vals
                 /\ Visible(hp2[h][i], o, snap) <=> Visible(hp[h][i], o, snap)
      <4>1. VersionOK(hp[h][i], Len(status), Width(c, h))
        BY <2>6 DEF HeapOK, VersionsOK
      <4>2. i \in DOMAIN hp2[h]
        BY <2>2, <2>6 DEF Touched
      <4>3. CASE hp2[h][i] = hp[h][i]
        BY <4>2, <4>3
      <4>4. CASE ~Conflicts(hp[h][i], id) /\ hp2[h][i] = [hp[h][i] EXCEPT !.xmax = id]
        <5>1. hp2[h][i].vals = hp[h][i].vals /\ hp2[h][i].xmin = hp[h][i].xmin /\ hp2[h][i].xmax = id
          BY <4>1, <4>4, TakenVersion
        <5>2. hp[h][i].xmax \in {NoTx, id} \/ status[hp[h][i].xmax] = "aborted"
          BY <4>4 DEF Conflicts
        <5>3. hp[h][i].xmax = NoTx \/ (hp[h][i].xmax # o /\ hp[h][i].xmax \notin snap)
          BY <2>3, <2>4, <5>2 DEF Open, Taken
        <5>4. QED
          BY <2>4, <4>2, <5>1, <5>3 DEF Visible
      <4>5. QED
        BY <2>2, <2>6, <4>3, <4>4 DEF Touched
    <3>2. ASSUME NEW i \in DOMAIN hp2[h] \ DOMAIN hp[h]
          PROVE  ~Visible(hp2[h][i], o, snap)
      <4>1. hp2[h][i].xmin = id
        BY <2>2, <2>6 DEF Touched, Version
      <4>2. QED
        BY <2>4, <4>1 DEF Visible
    <3>3. QED
      BY <2>6, <3>1, <3>2 DEF Seen
  <2>7. QED
    BY <2>5, <2>6
<1>3. QED
  BY <1>1, <1>2

\* A transaction that has written nothing still has not.
LEMMA WrittenBlank ==
  ASSUME StatusOK(status), NEW hp, NEW hp2, NEW id, NEW c,
         HeapOK(hp, c, Len(status)), Written(hp, hp2, id, c),
         NEW o, o # NoTx, o # id, Blank(hp, o)
  PROVE  Blank(hp2, o)
<1>1. CASE hp2 = hp
  BY <1>1
<1>2. CASE hp2 # hp
  <2>1. PICK h : \E v : Touched(hp, hp2, h, v, id, Width(c, h))
    BY <1>2 DEF Written
  <2>2. PICK v : Touched(hp, hp2, h, v, id, Width(c, h))
    BY <2>1
  <2>3. ASSUME NEW g \in DOMAIN hp2, NEW i \in DOMAIN hp2[g]
        PROVE  o \notin {hp2[g][i].xmin, hp2[g][i].xmax}
    <3>1. g \in DOMAIN hp
      BY <2>2 DEF Touched
    <3>2. CASE g # h
      BY <2>2, <3>1, <3>2 DEF Touched, Blank
    <3>3. CASE g = h /\ i \in DOMAIN hp[g]
      <4>1. VersionOK(hp[g][i], Len(status), Width(c, g))
        BY <3>1, <3>3 DEF HeapOK, VersionsOK
      <4>2. hp2[g][i] = hp[g][i] \/ hp2[g][i] = [hp[g][i] EXCEPT !.xmax = id]
        BY <2>2, <3>1, <3>3 DEF Touched
      <4>3. o \notin {hp[g][i].xmin, hp[g][i].xmax}
        BY <3>1, <3>3 DEF Blank
      <4>4. /\ [hp[g][i] EXCEPT !.xmax = id].xmin = hp[g][i].xmin
            /\ [hp[g][i] EXCEPT !.xmax = id].xmax = id
        BY <4>1, TakenVersion
      <4>5. CASE hp2[g][i] = hp[g][i]
        BY <4>3, <4>5
      <4>6. CASE hp2[g][i] = [hp[g][i] EXCEPT !.xmax = id]
        BY <4>3, <4>4, <4>6
      <4>7. QED
        BY <4>2, <4>5, <4>6
    <3>4. CASE g = h /\ i \notin DOMAIN hp[g]
      BY <2>2, <3>1, <3>4 DEF Touched, Version
    <3>5. QED
      BY <3>2, <3>3, <3>4
  <2>4. QED
    BY <2>3 DEF Blank
<1>3. QED
  BY <1>1, <1>2

(***************************************************************************)
(* Agendas.                                                                *)
(***************************************************************************)

AllOwn(q) == \A call \in ToSet(q) : Own(call)
NoneOwn(q) == \A call \in ToSet(q) : ~Own(call)

\* A list with its own calls last, after one that has none or before one that has
\* no other.
LEMMA OwnLastConcat ==
  ASSUME NEW q, NEW r, IsSeq(q), IsSeq(r), OwnLast(q), OwnLast(r), NoneOwn(q) \/ AllOwn(r)
  PROVE  OwnLast(q \o r)
<1> DEFINE n == Len(q)
           m == Len(r)
           p == q \o r
<1>1. /\ n \in Nat /\ m \in Nat /\ DOMAIN q = 1..n /\ DOMAIN r = 1..m
      /\ \A i \in DOMAIN q : q[i] \in ToSet(q)
      /\ \A i \in DOMAIN r : r[i] \in ToSet(r)
  BY SeqIs
<1>2. IsSeq(p)
  BY ConcatIs
<1>3. DOMAIN p = 1..(n + m)
  <2>1. Len(p) = n + m
    BY ConcatIs
  <2> HIDE DEF p
  <2>2. QED
    BY <1>2, <2>1, SeqIs
<1>4. \A i \in 1..n : p[i] = q[i]
  BY ConcatIs
<1>5. \A i \in 1..m : p[n + i] = r[i]
  BY ConcatIs
<1> HIDE DEF p, n, m
<1>6. \A i \in DOMAIN p : i \in 1..n \/ (i - n \in 1..m /\ p[i] = r[i - n])
  <2> SUFFICES ASSUME NEW i \in 1..(n + m), i \notin 1..n
               PROVE  i - n \in 1..m /\ p[i] = r[i - n]
    BY <1>3
  <2>1. i - n \in 1..m /\ n + (i - n) = i
    BY <1>1
  <2>2. QED
    BY <1>5, <2>1
<1>7. ASSUME NEW i \in DOMAIN p, NEW j \in DOMAIN p, i < j, Own(p[i])
      PROVE  Own(p[j])
  <2>1. i \in Nat /\ j \in Nat
    BY <1>1, <1>3
  <2>2. CASE i \in 1..n /\ j \in 1..n
    <3>1. p[i] = q[i] /\ p[j] = q[j]
      BY <1>4, <2>2
    <3>2. QED
      BY <1>1, <1>7, <2>2, <3>1 DEF OwnLast
  <2>3. CASE i \in 1..n /\ j \notin 1..n
    <3>1. j - n \in 1..m /\ p[j] = r[j - n] /\ p[i] = q[i]
      BY <1>4, <1>6, <2>3
    <3>2. p[j] \in ToSet(r) /\ p[i] \in ToSet(q)
      BY <1>1, <2>3, <3>1
    <3>3. QED
      BY <1>7, <3>2 DEF NoneOwn, AllOwn
  <2>4. CASE i \notin 1..n
    <3>1. j \notin 1..n
      <4>1. i < j
        BY <1>7
      <4>2. i \in 1..(n + m) /\ i \notin 1..n
        BY <1>3, <2>4
      <4>3. i > n
        BY <1>1, <4>2
      <4>4. QED
        BY <1>1, <2>1, <4>1, <4>3
    <3>2. i - n \in 1..m /\ p[i] = r[i - n] /\ j - n \in 1..m /\ p[j] = r[j - n]
      BY <1>6, <2>4, <3>1
    <3>3. i - n < j - n
      <4>1. i < j
        BY <1>7
      <4>2. QED
        BY <1>1, <2>1, <4>1
    <3>4. QED
      BY <1>1, <1>7, <3>2, <3>3 DEF OwnLast
  <2>5. QED
    BY <2>2, <2>3, <2>4
<1>8. QED
  BY <1>7, Zenon DEF OwnLast, p

\* A list without, or with nothing else, has them last.
LEMMA OwnLastPlain ==
  ASSUME NEW q, IsSeq(q), NoneOwn(q) \/ AllOwn(q)
  PROVE  OwnLast(q)
<1>1. \A i \in DOMAIN q : q[i] \in ToSet(q)
  BY SeqIs
<1>2. QED
  BY <1>1 DEF OwnLast, NoneOwn, AllOwn

\* ... and so has one with one more call.
LEMMA OwnLastAppend ==
  ASSUME NEW q, IsSeq(q), NoneOwn(q), NEW call
  PROVE  OwnLast(Append(q, call))
<1>1. IsSeq(<<call>>) /\ ToSet(<<call>>) = {call}
  BY SmallSeqs
<1>2. Append(q, call) = q \o <<call>>
  BY ConcatSmall
<1>3. OwnLast(<<call>>)
  <2>1. Len(<<call>>) = 1 /\ DOMAIN <<call>> = {1}
    OBVIOUS
  <2>2. QED
    BY <2>1 DEF OwnLast
<1>4. OwnLast(q)
  BY OwnLastPlain
<1>5. OwnLast(q \o <<call>>)
  <2>1. CASE Own(call)
    BY <1>1, <1>3, <1>4, <2>1, OwnLastConcat DEF AllOwn
  <2>2. CASE ~Own(call)
    BY <1>1, <1>3, <1>4, <2>2, OwnLastConcat
  <2>3. QED
    BY <2>1, <2>2
<1>6. QED
  BY <1>2, <1>5, Zenon

\* The rest of a list, after one of the statement's own.
LEMMA TailIs ==
  ASSUME NEW q, IsSeq(q), q # <<>>
  PROVE  /\ IsSeq(Tail(q)) /\ ToSet(Tail(q)) \subseteq ToSet(q) /\ Head(q) \in ToSet(q)
         /\ OwnLast(q) => OwnLast(Tail(q))
         /\ OwnLast(q) /\ Own(Head(q)) => AllOwn(Tail(q))
<1> DEFINE n == Len(q)
<1>1. n \in Nat /\ DOMAIN q = 1..n /\ q \in Seq(ToSet(q)) /\ n # 0
  BY SeqIs DEF IsSeq
<1>2. /\ Tail(q) \in Seq(ToSet(q)) /\ Len(Tail(q)) = n - 1 /\ Head(q) = q[1]
      /\ DOMAIN Tail(q) = 1..(n - 1)
      /\ \A i \in 1..(n - 1) : Tail(q)[i] = q[i + 1]
  BY <1>1
<1> DEFINE r == Tail(q)
<1>3. r = [i \in 1..Len(r) |-> r[i]] /\ Len(r) \in Nat
  <2>1. r \in Seq(ToSet(q))
    BY <1>2
  <2> HIDE DEF r
  <2>2. QED
    BY <2>1
<1> HIDE DEF n, r
<1>4. IsSeq(r)
  BY <1>3, FunctionsAreSeqs
<1>5. \A i \in DOMAIN r : i + 1 \in DOMAIN q /\ r[i] = q[i + 1]
  BY <1>1, <1>2 DEF r
<1>6. 1 \in DOMAIN q /\ Head(q) = q[1]
  BY <1>1, <1>2
<1>7. ToSet(r) \subseteq ToSet(q) /\ Head(q) \in ToSet(q)
  BY <1>4, <1>5, <1>6, SeqIs
<1>8. \A i \in DOMAIN r : i \in Nat /\ 1 < i + 1
  BY <1>2 DEF r
<1>9. OwnLast(q) => OwnLast(r)
  <2>1. \A i, j \in DOMAIN r : i < j => i + 1 < j + 1
    BY <1>8
  <2>2. QED
    BY <1>5, <2>1 DEF OwnLast
<1>10. OwnLast(q) /\ Own(Head(q)) => AllOwn(r)
  <2> SUFFICES ASSUME OwnLast(q), Own(q[1]), NEW call \in ToSet(r) PROVE Own(call)
    BY <1>6 DEF AllOwn
  <2>1. PICK i \in DOMAIN r : r[i] = call
    BY <1>4, SeqIs
  <2>2. i + 1 \in DOMAIN q /\ call = q[i + 1] /\ 1 < i + 1
    BY <1>5, <1>8, <2>1
  <2>3. QED
    BY <1>6, <2>2 DEF OwnLast
<1>11. QED
  BY <1>4, <1>7, <1>9, <1>10 DEF r

\* Calls that were right still are, when the version that was taken has been dealt
\* with.
LEMMA AgendaTouched ==
  ASSUME NEW hp, NEW hp2, NEW c, NEW me, NEW h, NEW v, NEW width, CatalogShape(c), DOMAIN hp = DOMAIN c.tables,
         Touched(hp, hp2, h, v, me.tx, width),
         NEW seen, NEW more, seen \subseteq more, NEW q, AgendaOK(me, hp, c, seen, q),
         <<h, v>> \in more \/ AllOwn(q)
  PROVE  AgendaOK(me, hp2, c, more, q)
<1> SUFFICES ASSUME NEW call \in ToSet(q) PROVE CallOK(me, hp2, c, more, call)
  BY DEF AgendaOK
<1>1. CallOK(me, hp, c, seen, call)
  BY DEF AgendaOK
<1>2. ASSUME call.call = "child"
      PROVE  <<call.h, call.v>> \in more \/ call.v \in Seen(hp2[call.h], me.tx, me.snap)
  <2>1. CASE <<call.h, call.v>> \in seen
    BY <2>1
  <2>2. CASE call.v \in Seen(hp[call.h], me.tx, me.snap)
    <3>1. <<h, v>> \in more
      BY <1>2 DEF AllOwn, Own
    <3>2. call.h \in DOMAIN hp
      BY <1>1, PresentIs DEF CallOK
    <3>3. CASE call.h # h
      BY <2>2, <3>2, <3>3 DEF Touched
    <3>4. CASE call.h = h /\ call.v # v
      BY <2>2, <3>2, <3>4 DEF Touched, Seen
    <3>5. QED
      BY <3>1, <3>3, <3>4
  <2>3. QED
    BY <1>1, <1>2, <2>1, <2>2 DEF CallOK
<1>3. QED
  BY <1>1, <1>2 DEF CallOK

\* ... or when nothing was.
LEMMA AgendaGrows ==
  ASSUME NEW hp, NEW c, NEW me, NEW seen, NEW more, seen \subseteq more, NEW q, AgendaOK(me, hp, c, seen, q)
  PROVE  AgendaOK(me, hp, c, more, q)
BY DEF AgendaOK, CallOK

\* Of the statement's own calls nothing has to have been seen.
LEMMA AgendaOwn ==
  ASSUME NEW hp, NEW c, NEW me, NEW seen, NEW more, NEW q, AgendaOK(me, hp, c, seen, q), AllOwn(q)
  PROVE  AgendaOK(me, hp, c, more, q)
BY DEF AgendaOK, CallOK, AllOwn, Own

\* Calls in front of others.
LEMMA AgendaConcat ==
  ASSUME NEW hp, NEW c, NEW me, NEW seen, NEW q, NEW r,
         AgendaOK(me, hp, c, seen, q), AgendaOK(me, hp, c, seen, r), NoneOwn(q) \/ AllOwn(r)
  PROVE  AgendaOK(me, hp, c, seen, q \o r)
<1>1. IsSeq(q) /\ IsSeq(r) /\ OwnLast(q) /\ OwnLast(r)
  BY DEF AgendaOK
<1>2. IsSeq(q \o r) /\ ToSet(q \o r) = ToSet(q) \cup ToSet(r)
  BY <1>1, ConcatIs
<1>3. OwnLast(q \o r)
  BY <1>1, OwnLastConcat
<1>4. QED
  BY <1>2, <1>3 DEF AgendaOK

\* One call after others.
LEMMA AgendaAppend ==
  ASSUME NEW hp, NEW c, NEW me, NEW seen, NEW q, NEW call,
         AgendaOK(me, hp, c, seen, q), NoneOwn(q), CallOK(me, hp, c, seen, call)
  PROVE  AgendaOK(me, hp, c, seen, Append(q, call))
<1>1. IsSeq(q)
  BY DEF AgendaOK
<1>2. IsSeq(Append(q, call)) /\ ToSet(Append(q, call)) = ToSet(q) \cup {call}
  BY <1>1, AppendIs
<1>3. OwnLast(Append(q, call))
  BY <1>1, OwnLastAppend
<1>4. QED
  BY <1>2, <1>3 DEF AgendaOK

WorldFields == {"heap", "catalog", "wrote", "seen", "agenda", "ok"}

WorldOK(w) ==
  /\ DOMAIN w = WorldFields /\ w.ok
  /\ CatalogShape(w.catalog) /\ Agrees(w.catalog) /\ AllKeyed(w.catalog)
  /\ HeapOK(w.heap, w.catalog, Len(status))

\* The rows that refer to one are seen.
LEMMA ChildrenOK ==
  ASSUME NEW w, WorldOK(w), NEW me, NEW h \in Present(w.catalog), NEW old, NEW next,
         me.stmt.op = "delete" => next = <<>>, NEW seen
  PROVE  /\ AgendaOK(me, w.heap, w.catalog, seen, applyRefActions(w, me, h, old, next))
         /\ NoneOwn(applyRefActions(w, me, h, old, next))
<1> DEFINE refs == w.catalog.tables[h].referencedBy
           fkOf(r) == w.catalog.tables[r.child].foreignKeys[r.fk]
           moved(r) == next = <<>> \/ ~matchesKey(old, fkOf(r).parentCols, next, fkOf(r).parentCols)
           pointing(r, row) == /\ ~anyNull(row, fkOf(r).cols)
                               /\ matchesKey(row, fkOf(r).cols, old, fkOf(r).parentCols)
           these(r) == {v \in Seen(w.heap[r.child], me.tx, me.snap) : pointing(r, Current(w, r.child, v))}
           vs(r) == InOrder(w.heap[r.child], these(r))
           ChildrenOf(r) == [i \in DOMAIN vs(r) |-> ChildCall(r.child, vs(r)[i], next, r.fk)]
           lists == [i \in DOMAIN refs |-> IF moved(refs[i]) THEN ChildrenOf(refs[i]) ELSE <<>>]
           good(call) == CallOK(me, w.heap, w.catalog, seen, call) /\ ~Own(call)
<1>1. applyRefActions(w, me, h, old, next) = FlattenSeq(lists)
  BY Zenon DEF applyRefActions
<1>2. /\ CatalogShape(w.catalog) /\ Agrees(w.catalog) /\ HeapOK(w.heap, w.catalog, Len(status))
      /\ Present(w.catalog) \subseteq DOMAIN w.catalog.tables
  BY PresentIs DEF WorldOK
<1> HIDE DEF moved, pointing
<1>3. ASSUME NEW i \in DOMAIN refs
      PROVE  /\ IsSeq(ChildrenOf(refs[i]))
             /\ \A call \in ToSet(ChildrenOf(refs[i])) : good(call)
  <2> DEFINE r == refs[i]
             g == r.child
             list == vs(r)
             q == ChildrenOf(r)
  <2>1. g \in Present(w.catalog) /\ r.fk \in DOMAIN w.catalog.tables[g].foreignKeys
    <3>1. IsSeq(refs) /\ TableAgrees(w.catalog, h)
      BY <1>2 DEF CatalogShape, TableShape, Agrees
    <3>2. r \in ToSet(refs)
      BY <3>1, SeqIs
    <3>3. \E k \in Present(w.catalog) : \E f : Refers(w.catalog, k, f, h) /\ r = Referring(k, f)
      BY <3>1, <3>2 DEF TableAgrees
    <3> HIDE DEF r
    <3>4. QED
      BY <3>3 DEF Referring, Refers
  <2>2. IsSeq(w.heap[g])
    BY <1>2, <2>1 DEF HeapOK, VersionsOK
  <2> HIDE DEF these
  <2>3. IsSeq(list) /\ ToSet(list) = DOMAIN w.heap[g] \cap these(r)
    BY <2>2, InOrderIs
  <2>4. these(r) \subseteq Seen(w.heap[g], me.tx, me.snap)
    BY DEF these
  <2> HIDE DEF vs, g
  <2>5. q = [k \in DOMAIN list |-> ChildCall(g, list[k], next, r.fk)]
    BY DEF g
  <2> HIDE DEF ChildrenOf, list, r
  <2>6. IsSeq(q) /\ DOMAIN q = DOMAIN list
    <3>1. DOMAIN list = 1..Len(list) /\ Len(list) \in Nat
      BY <2>3, SeqIs
    <3>2. q = [k \in 1..Len(list) |-> q[k]]
      BY <2>5, <3>1
    <3> HIDE DEF q
    <3>3. IsSeq(q)
      BY <3>1, <3>2, FunctionsAreSeqs
    <3>4. QED
      BY <2>5, <3>3
  <2>7. ASSUME NEW call \in ToSet(q)
        PROVE  good(call)
    <3>1. PICK k \in DOMAIN list : call = ChildCall(g, list[k], next, r.fk)
      BY <2>5, <2>6, SeqIs
    <3>2. list[k] \in Seen(w.heap[g], me.tx, me.snap)
      BY <2>3, <2>4, SeqIs
    <3>3. call.call = "child" /\ call.h = g /\ call.v = list[k] /\ call.next = next /\ call.fk = r.fk
      BY <3>1 DEF ChildCall
    <3>4. QED
      BY <2>1, <3>2, <3>3 DEF CallOK, Own
  <2>8. QED
    BY <2>6, <2>7 DEF r, q
<1>4. IsSeq(refs) /\ DOMAIN refs = 1..Len(refs) /\ Len(refs) \in Nat
  BY <1>2, SeqIs DEF CatalogShape, TableShape
<1> HIDE DEF ChildrenOf, refs, good
<1>5. DOMAIN lists = DOMAIN refs /\ \A i \in DOMAIN lists : lists[i] = <<>> \/ lists[i] = ChildrenOf(refs[i])
  OBVIOUS
<1>6. lists = [i \in 1..Len(refs) |-> lists[i]]
  BY <1>4
<1> HIDE DEF lists
<1>7. IsSeq(lists)
  BY <1>4, <1>6, FunctionsAreSeqs
<1>8. \A i \in DOMAIN lists : IsSeq(lists[i]) /\ \A call \in ToSet(lists[i]) : good(call)
  BY <1>3, <1>5, SmallSeqs
<1>9. IsSeq(FlattenSeq(lists)) /\ \A call \in ToSet(FlattenSeq(lists)) : good(call)
  <2>1. /\ IsSeq(FlattenSeq(lists))
        /\ \A x \in ToSet(FlattenSeq(lists)) : \E i \in DOMAIN lists : x \in ToSet(lists[i])
    BY <1>7, <1>8, FlattenKeeps
  <2>2. QED
    BY <1>8, <2>1
<1> DEFINE q == applyRefActions(w, me, h, old, next)
<1>10. IsSeq(q) /\ \A call \in ToSet(q) : CallOK(me, w.heap, w.catalog, seen, call) /\ ~Own(call)
  BY <1>1, <1>9, Zenon DEF good
<1> HIDE DEF q
<1>11. NoneOwn(q)
  BY <1>10 DEF NoneOwn
<1>12. OwnLast(q)
  BY <1>10, <1>11, OwnLastPlain
<1>13. AgendaOK(me, w.heap, w.catalog, seen, q)
  BY <1>10, <1>12 DEF AgendaOK
<1>14. QED
  BY <1>11, <1>13 DEF q

(***************************************************************************)
(* How a call ends.                                                        *)
(***************************************************************************)

\* A version is taken.
Ended(q, v, id) == [q EXCEPT ![v] = [q[v] EXCEPT !.xmax = id]]

\* The others stay, in their places.
LEMMA EndedIs ==
  ASSUME NEW q, IsSeq(q), NEW v, NEW id
  PROVE  /\ IsSeq(Ended(q, v, id)) /\ DOMAIN Ended(q, v, id) = DOMAIN q
         /\ Len(Ended(q, v, id)) = Len(q)
         /\ \A i \in DOMAIN q : Ended(q, v, id)[i] = IF i = v THEN [q[i] EXCEPT !.xmax = id] ELSE q[i]
<1> DEFINE r == Ended(q, v, id)
<1>1. DOMAIN q = 1..Len(q) /\ Len(q) \in Nat
  BY SeqIs
<1>2. /\ DOMAIN r = DOMAIN q
      /\ \A i \in DOMAIN q : r[i] = IF i = v THEN [q[i] EXCEPT !.xmax = id] ELSE q[i]
      /\ r = [i \in DOMAIN q |-> r[i]]
  BY DEF Ended
<1> HIDE DEF r
<1>3. IsSeq(r) /\ Len(r) = Len(q)
  BY <1>1, <1>2, FunctionsAreSeqs
<1>4. QED
  BY <1>2, <1>3, Zenon DEF r

\* The heaps that a write leaves.
AfterDelete(hp, h, v, id) == [hp EXCEPT ![h] = Ended(hp[h], v, id)]
AfterInsert(hp, h, row, id) == [hp EXCEPT ![h] = Append(hp[h], Version(row, id))]
AfterUpdate(hp, h, v, row, id) == [hp EXCEPT ![h] = Append(Ended(hp[h], v, id), Version(row, id))]

\* A write fails, or leaves one of them.
LEMMA WritesAre ==
  ASSUME NEW w, DOMAIN w = WorldFields, NEW me, NEW h, NEW v, NEW row
  PROVE  /\ \/ HeapDelete(w, me, h, v) = Failed(w)
            \/ /\ ~Conflicts(w.heap[h][v], me.tx)
               /\ HeapDelete(w, me, h, v) = [w EXCEPT !.heap = AfterDelete(w.heap, h, v, me.tx)]
         /\ \/ Insert(w, me, h, row) = Failed(w)
            \/ Insert(w, me, h, row) = [w EXCEPT !.heap = AfterInsert(w.heap, h, row, me.tx)]
         /\ \/ Update(w, me, h, v, row) = Failed(w)
            \/ /\ ~Conflicts(w.heap[h][v], me.tx)
               /\ Update(w, me, h, v, row) = [w EXCEPT !.heap = AfterUpdate(w.heap, h, v, row, me.tx)]
<1>1. [w EXCEPT !.heap[h][v].xmax = me.tx] = [w EXCEPT !.heap = AfterDelete(w.heap, h, v, me.tx)]
  BY DEF AfterDelete, Ended
<1>2. [w EXCEPT !.heap[h] = Append(@, Version(row, me.tx))] = [w EXCEPT !.heap = AfterInsert(w.heap, h, row, me.tx)]
  BY DEF AfterInsert
<1>3. [w EXCEPT !.heap[h] = Append([@ EXCEPT ![v].xmax = me.tx], Version(row, me.tx))]
        = [w EXCEPT !.heap = AfterUpdate(w.heap, h, v, row, me.tx)]
  BY DEF AfterUpdate, Ended
<1>4. HeapDelete(w, me, h, v) = Failed(w) \/ /\ ~Conflicts(w.heap[h][v], me.tx)
                                             /\ HeapDelete(w, me, h, v) = [w EXCEPT !.heap[h][v].xmax = me.tx]
  BY DEF HeapDelete
<1>5. \/ Insert(w, me, h, row) = Failed(w)
      \/ Insert(w, me, h, row) = [w EXCEPT !.heap[h] = Append(@, Version(row, me.tx))]
  BY Zenon DEF Insert
<1>6. \/ Update(w, me, h, v, row) = Failed(w)
      \/ /\ ~Conflicts(w.heap[h][v], me.tx)
         /\ Update(w, me, h, v, row) = [w EXCEPT !.heap[h] = Append([@ EXCEPT ![v].xmax = me.tx], Version(row, me.tx))]
  BY Zenon DEF Update
<1>7. QED
  BY <1>1, <1>2, <1>3, <1>4, <1>5, <1>6, Zenon

\* A version that is taken.
LEMMA DeleteTouches ==
  ASSUME NEW hp, NEW h, h \in DOMAIN hp => IsSeq(hp[h]), NEW v, NEW id, ~Conflicts(hp[h][v], id), NEW width
  PROVE  Touched(hp, AfterDelete(hp, h, v, id), h, v, id, width)
<1> DEFINE q == Ended(hp[h], v, id)
<1>1. h \in DOMAIN hp => /\ IsSeq(q) /\ DOMAIN q = DOMAIN hp[h]
                         /\ \A i \in DOMAIN hp[h] : q[i] = IF i = v THEN [hp[h][i] EXCEPT !.xmax = id] ELSE hp[h][i]
  BY EndedIs
<1> HIDE DEF q
<1> DEFINE hp2 == [hp EXCEPT ![h] = q]
<1>2. /\ DOMAIN hp2 = DOMAIN hp /\ (\A g \in DOMAIN hp : g # h => hp2[g] = hp[g])
      /\ h \in DOMAIN hp => hp2[h] = q
  OBVIOUS
<1> HIDE DEF hp2
<1>3. Touched(hp, hp2, h, v, id, width)
  BY <1>1, <1>2 DEF Touched
<1>4. QED
  BY <1>3, Zenon DEF hp2, q, AfterDelete

\* One that is added.
LEMMA InsertTouches ==
  ASSUME NEW hp, NEW h, h \in DOMAIN hp => IsSeq(hp[h]), NEW v, NEW row, NEW id, NEW width, Len(row) \in 0..width
  PROVE  Touched(hp, AfterInsert(hp, h, row, id), h, v, id, width)
<1> DEFINE new == Version(row, id)
           q == Append(hp[h], new)
<1>1. h \in DOMAIN hp => /\ IsSeq(q) /\ DOMAIN hp[h] \subseteq DOMAIN q
                         /\ \A i \in DOMAIN hp[h] : q[i] = hp[h][i]
                         /\ \A i \in DOMAIN q \ DOMAIN hp[h] : q[i] = new
  <2> SUFFICES ASSUME h \in DOMAIN hp, IsSeq(hp[h])
               PROVE  /\ IsSeq(q) /\ DOMAIN hp[h] \subseteq DOMAIN q
                      /\ \A i \in DOMAIN hp[h] : q[i] = hp[h][i]
                      /\ \A i \in DOMAIN q \ DOMAIN hp[h] : q[i] = new
    OBVIOUS
  <2> HIDE DEF new
  <2>1. IsSeq(q) /\ DOMAIN q = 1..(Len(hp[h]) + 1)
    BY AppendIs
  <2>2. \A i \in DOMAIN hp[h] : q[i] = hp[h][i]
    BY AppendIs
  <2>3. \A i \in DOMAIN q \ DOMAIN hp[h] : q[i] = new
    BY AppendIs
  <2> HIDE DEF q
  <2>4. DOMAIN hp[h] \subseteq DOMAIN q
    BY <2>1, SeqIs
  <2>5. QED
    BY <2>1, <2>2, <2>3, <2>4
<1>2. new = Version(new.vals, id) /\ new.vals = row
  BY DEF Version
<1> HIDE DEF q, new
<1> DEFINE hp2 == [hp EXCEPT ![h] = q]
<1>3. /\ DOMAIN hp2 = DOMAIN hp /\ (\A g \in DOMAIN hp : g # h => hp2[g] = hp[g])
      /\ h \in DOMAIN hp => hp2[h] = q
  OBVIOUS
<1> HIDE DEF hp2
<1>4. Touched(hp, hp2, h, v, id, width)
  BY <1>1, <1>2, <1>3 DEF Touched
<1>5. QED
  BY <1>4, Zenon DEF hp2, q, new, AfterInsert

\* One that replaces another.
LEMMA UpdateTouches ==
  ASSUME NEW hp, NEW h, h \in DOMAIN hp => IsSeq(hp[h]), NEW v, NEW row, NEW id, ~Conflicts(hp[h][v], id),
         NEW width, Len(row) \in 0..width
  PROVE  Touched(hp, AfterUpdate(hp, h, v, row, id), h, v, id, width)
<1> DEFINE new == Version(row, id)
           p == Ended(hp[h], v, id)
           q == Append(p, new)
<1>1. h \in DOMAIN hp => /\ IsSeq(p) /\ DOMAIN p = DOMAIN hp[h]
                         /\ \A i \in DOMAIN hp[h] : p[i] = IF i = v THEN [hp[h][i] EXCEPT !.xmax = id] ELSE hp[h][i]
  BY EndedIs
<1> HIDE DEF p
<1>2. h \in DOMAIN hp => /\ IsSeq(q) /\ DOMAIN p \subseteq DOMAIN q
                         /\ \A i \in DOMAIN p : q[i] = p[i]
                         /\ \A i \in DOMAIN q \ DOMAIN p : q[i] = new
  <2> SUFFICES ASSUME h \in DOMAIN hp, IsSeq(p)
               PROVE  /\ IsSeq(q) /\ DOMAIN p \subseteq DOMAIN q
                      /\ \A i \in DOMAIN p : q[i] = p[i]
                      /\ \A i \in DOMAIN q \ DOMAIN p : q[i] = new
    BY <1>1
  <2> HIDE DEF new
  <2>1. IsSeq(q) /\ DOMAIN q = 1..(Len(p) + 1)
    BY AppendIs
  <2>2. \A i \in DOMAIN p : q[i] = p[i]
    BY AppendIs
  <2>3. \A i \in DOMAIN q \ DOMAIN p : q[i] = new
    BY AppendIs
  <2> HIDE DEF q
  <2>4. DOMAIN p \subseteq DOMAIN q
    BY <2>1, SeqIs
  <2>5. QED
    BY <2>1, <2>2, <2>3, <2>4
<1>3. new = Version(new.vals, id) /\ new.vals = row
  BY DEF Version
<1> HIDE DEF q, new
<1> DEFINE hp2 == [hp EXCEPT ![h] = q]
<1>4. /\ DOMAIN hp2 = DOMAIN hp /\ (\A g \in DOMAIN hp : g # h => hp2[g] = hp[g])
      /\ h \in DOMAIN hp => hp2[h] = q
  OBVIOUS
<1> HIDE DEF hp2
<1>5. Touched(hp, hp2, h, v, id, width)
  BY <1>1, <1>2, <1>3, <1>4 DEF Touched
<1>6. QED
  BY <1>5, Zenon DEF hp2, q, p, new, AfterUpdate

(***************************************************************************)
(* Rows.                                                                   *)
(***************************************************************************)
IsRow(t, row) == row = [i \in DOMAIN t.columns |-> row[i]]

\* One is as wide as its table.
LEMMA RowIs ==
  ASSUME NEW t, IsSeq(t.columns), NEW row, IsRow(t, row)
  PROVE  IsSeq(row) /\ Len(row) = Len(t.columns) /\ DOMAIN row = DOMAIN t.columns /\ Len(row) \in 0..Len(t.columns)
<1>1. DOMAIN t.columns = 1..Len(t.columns) /\ Len(t.columns) \in Nat
  BY SeqIs
<1>2. IsSeq(row) /\ Len(row) = Len(t.columns)
  BY <1>1, FunctionsAreSeqs DEF IsRow
<1>3. DOMAIN row = DOMAIN t.columns
  BY DEF IsRow
<1>4. QED
  BY <1>1, <1>2, <1>3

\* What is read is one, and so is what becomes of one.
LEMMA RowsAre ==
  ASSUME NEW t
  PROVE  /\ \A vals : IsRow(t, Values(t, vals))
         /\ \A row, set, operand : IsRow(t, row) => IsRow(t, Assigned(t, row, set, operand))
         /\ \A row, fk, parent : IsRow(t, row) => IsRow(t, follow(fk, row, parent))
         /\ \A row, cols, action : IsRow(t, row) => IsRow(t, refReplacement(t, cols, action, row))
<1>1. \A vals : IsRow(t, Values(t, vals))
  BY DEF IsRow, Values
<1>2. ASSUME NEW row, NEW set, NEW operand, IsRow(t, row)
      PROVE  IsRow(t, Assigned(t, row, set, operand))
  <2> DEFINE a(i) == SelectInSeq(set, LAMBDA x : x.col = t.columns[i].name)
             value(i) == IF a(i) = 0 THEN row[i] ELSE Eval(t, set[a(i)].e, operand)
  <2>1. Assigned(t, row, set, operand) = [i \in DOMAIN row |-> value(i)]
    BY Zenon DEF Assigned
  <2>2. DOMAIN row = DOMAIN t.columns
    BY <1>2 DEF IsRow
  <2> HIDE DEF value
  <2>3. QED
    BY <2>1, <2>2 DEF IsRow
<1>3. ASSUME NEW row, NEW fk, NEW parent, IsRow(t, row)
      PROVE  IsRow(t, follow(fk, row, parent))
  <2> DEFINE k(i) == SelectInSeq(fk.cols, LAMBDA o : o = i)
             value(i) == IF k(i) = 0 THEN row[i] ELSE parent[fk.parentCols[k(i)]]
  <2>1. follow(fk, row, parent) = [i \in DOMAIN row |-> value(i)]
    BY Zenon DEF follow
  <2>2. DOMAIN row = DOMAIN t.columns
    BY <1>3 DEF IsRow
  <2> HIDE DEF value
  <2>3. QED
    BY <2>1, <2>2 DEF IsRow
<1>4. ASSUME NEW row, NEW cols, NEW action, IsRow(t, row)
      PROVE  IsRow(t, refReplacement(t, cols, action, row))
  <2> DEFINE value(i) == IF ~Contains(cols, i) THEN row[i] ELSE IF action = "set null" THEN NULL ELSE t.columns[i].default
  <2>1. refReplacement(t, cols, action, row) = [i \in DOMAIN row |-> value(i)]
    BY Zenon DEF refReplacement
  <2>2. DOMAIN row = DOMAIN t.columns
    BY <1>4 DEF IsRow
  <2> HIDE DEF value
  <2>3. QED
    BY <2>1, <2>2 DEF IsRow
<1>5. QED
  BY <1>1, <1>2, <1>3, <1>4, Zenon

(***************************************************************************)
(* Calls.                                                                  *)
(***************************************************************************)

\* A session in the middle of a statement, and the call it makes.
Calling(w, me, c) ==
  /\ StatusOK(status) /\ WorldOK(w)
  /\ me.tx \in DOMAIN status /\ status[me.tx] = "active"
  /\ AgendaOK(me, w.heap, w.catalog, w.seen, w.agenda)
  /\ CallOK(me, w.heap, w.catalog, w.seen, c) /\ (Own(c) => AllOwn(w.agenda))

\* What a call does to the tables: to one at most, in the name of its transaction.
Heaps(w, x, me, h) ==
  x.heap = w.heap \/ \E v : Touched(w.heap, x.heap, h, v, me.tx, Width(x.catalog, h))

\* What it leaves: the statement goes on with calls that can be there.
Effect(w, x, me, h) ==
  /\ DOMAIN x = WorldFields
  /\ Heaps(w, x, me, h)
  /\ x.ok => AgendaOK(me, x.heap, x.catalog, x.seen, x.agenda)

\* A call that fails.
LEMMA FailedEffect ==
  ASSUME NEW w, DOMAIN w = WorldFields, NEW me, NEW h
  PROVE  Effect(w, Failed(w), me, h) /\ Failed(w).catalog = w.catalog
BY DEF Effect, Heaps, Failed, WorldFields

\* The writes, of a world that is ready for the rest of the agenda.
LEMMA WriteEffects ==
  ASSUME NEW w, NEW me, StatusOK(status), WorldOK(w), AgendaOK(me, w.heap, w.catalog, w.seen, w.agenda),
         NEW h \in Present(w.catalog), NEW v, <<h, v>> \in w.seen \/ AllOwn(w.agenda)
  PROVE  /\ Effect(w, HeapDelete(w, me, h, v), me, h)
         /\ \A row : Len(row) \in 0..Width(w.catalog, h) => Effect(w, Update(w, me, h, v, row), me, h)
<1>1. h \in DOMAIN w.heap => IsSeq(w.heap[h])
  BY DEF WorldOK, HeapOK, VersionsOK
<1>2. CatalogShape(w.catalog) /\ DOMAIN w.heap = DOMAIN w.catalog.tables /\ DOMAIN w = WorldFields
  BY DEF WorldOK, HeapOK
<1>3. ASSUME NEW hp2, Touched(w.heap, hp2, h, v, me.tx, Width(w.catalog, h))
      PROVE  Effect(w, [w EXCEPT !.heap = hp2], me, h)
  <2> DEFINE x == [w EXCEPT !.heap = hp2]
  <2>1. /\ DOMAIN x = WorldFields /\ x.heap = hp2 /\ x.catalog = w.catalog /\ x.seen = w.seen
        /\ x.agenda = w.agenda
    BY <1>2 DEF WorldFields
  <2>2. AgendaOK(me, hp2, w.catalog, w.seen, w.agenda)
    <3> DEFINE hp == w.heap
               c == w.catalog
               seen == w.seen
               q == w.agenda
               width == Width(w.catalog, h)
    <3>1. /\ CatalogShape(c) /\ DOMAIN hp = DOMAIN c.tables /\ Touched(hp, hp2, h, v, me.tx, width)
          /\ seen \subseteq seen /\ AgendaOK(me, hp, c, seen, q)
          /\ <<h, v>> \in seen \/ AllOwn(q)
      BY <1>2, <1>3
    <3> HIDE DEF hp, c, seen, q, width
    <3>2. AgendaOK(me, hp2, c, seen, q)
      BY <3>1, AgendaTouched
    <3>3. QED
      BY <3>2 DEF c, seen, q
  <2> HIDE DEF x
  <2>3. Effect(w, x, me, h)
    BY <1>3, <2>1, <2>2 DEF Effect, Heaps
  <2>4. QED
    BY <2>3 DEF x
<1>4. Effect(w, HeapDelete(w, me, h, v), me, h)
  <2>1. CASE HeapDelete(w, me, h, v) = Failed(w)
    BY <1>2, <2>1, FailedEffect
  <2>2. CASE /\ ~Conflicts(w.heap[h][v], me.tx)
             /\ HeapDelete(w, me, h, v) = [w EXCEPT !.heap = AfterDelete(w.heap, h, v, me.tx)]
    <3>1. Touched(w.heap, AfterDelete(w.heap, h, v, me.tx), h, v, me.tx, Width(w.catalog, h))
      BY <1>1, <2>2, DeleteTouches
    <3>2. QED
      BY <1>3, <2>2, <3>1
  <2>3. QED
    BY <1>2, <2>1, <2>2, WritesAre
<1>5. ASSUME NEW row, Len(row) \in 0..Width(w.catalog, h)
      PROVE  Effect(w, Update(w, me, h, v, row), me, h)
  <2>1. CASE Update(w, me, h, v, row) = Failed(w)
    BY <1>2, <2>1, FailedEffect
  <2>2. CASE /\ ~Conflicts(w.heap[h][v], me.tx)
             /\ Update(w, me, h, v, row) = [w EXCEPT !.heap = AfterUpdate(w.heap, h, v, row, me.tx)]
    <3>1. Touched(w.heap, AfterUpdate(w.heap, h, v, row, me.tx), h, v, me.tx, Width(w.catalog, h))
      BY <1>1, <1>5, <2>2, UpdateTouches
    <3>2. QED
      BY <1>3, <2>2, <3>1
  <2>3. QED
    BY <1>2, <2>1, <2>2, WritesAre
<1>6. QED
  BY <1>4, <1>5

\* A row of the statement's own table.
LEMMA RowEffect ==
  ASSUME NEW w, NEW me, NEW c, Calling(w, me, c), c.call = "row"
  PROVE  Effect(w, execRow(w, me, me.stmt, c), me, c.h)
<1> DEFINE h == c.h
           t == w.catalog.tables[h]
           cur == Current(w, h, c.v)
           next == IF me.stmt.op = "update" THEN Assigned(t, cur, me.stmt.set, cur) ELSE <<>>
           fresh == [w EXCEPT !.seen = {}]
           calls == Append(applyRefActions(w, me, h, cur, next), WriteCall(h, c.v, next))
           x == Then(fresh, calls)
<1>1. /\ WorldOK(w) /\ AgendaOK(me, w.heap, w.catalog, w.seen, w.agenda) /\ AllOwn(w.agenda)
      /\ h \in Present(w.catalog) /\ h = me.h
  BY DEF Calling, CallOK, Own
<1>2. DOMAIN w = WorldFields /\ h \in DOMAIN w.catalog.tables /\ IsSeq(t.columns)
  BY <1>1, PresentIs DEF WorldOK, CatalogShape, TableShape
<1>3. \/ execRow(w, me, me.stmt, c) \in {w, Failed(w)}
      \/ execRow(w, me, me.stmt, c) = x
  BY Zenon DEF execRow
<1>5. next # <<>> => Len(next) \in 0..Width(w.catalog, h)
  <2>1. IsRow(t, cur) /\ IsRow(t, Assigned(t, cur, me.stmt.set, cur))
    BY RowsAre, Zenon DEF Current
  <2>2. Len(Assigned(t, cur, me.stmt.set, cur)) \in 0..Len(t.columns)
    BY <1>2, <2>1, RowIs
  <2>3. QED
    BY <2>2 DEF Width
<1>6. me.stmt.op = "delete" => next = <<>>
  OBVIOUS
<1> DEFINE kids == applyRefActions(w, me, h, cur, next)
<1> HIDE DEF next, cur
<1>7. AgendaOK(me, w.heap, w.catalog, {}, kids) /\ NoneOwn(kids)
  BY <1>1, <1>6, ChildrenOK
<1>8. AgendaOK(me, w.heap, w.catalog, {}, w.agenda)
  <2> DEFINE seen == w.seen
             agenda == w.agenda
             hp == w.heap
             cat == w.catalog
  <2>1. AgendaOK(me, hp, cat, seen, agenda) /\ AllOwn(agenda)
    BY <1>1
  <2> HIDE DEF seen, agenda, hp, cat
  <2>2. AgendaOK(me, hp, cat, {}, agenda)
    BY <2>1, AgendaOwn
  <2>3. QED
    BY <2>2 DEF agenda, hp, cat
<1>9. CallOK(me, w.heap, w.catalog, {}, WriteCall(h, c.v, next))
  BY <1>1, <1>5, <1>6 DEF CallOK, WriteCall, Own
<1> HIDE DEF kids
<1>10. AgendaOK(me, w.heap, w.catalog, {}, calls)
  BY <1>7, <1>9, AgendaAppend DEF kids
<1>11. AgendaOK(me, w.heap, w.catalog, {}, calls \o w.agenda)
  <2> DEFINE agenda == w.agenda
             hp == w.heap
             cat == w.catalog
  <2>1. AgendaOK(me, hp, cat, {}, calls) /\ AgendaOK(me, hp, cat, {}, agenda) /\ AllOwn(agenda)
    BY <1>1, <1>8, <1>10
  <2> HIDE DEF agenda, hp, cat, calls
  <2>2. AgendaOK(me, hp, cat, {}, calls \o agenda)
    BY <2>1, AgendaConcat
  <2>3. QED
    BY <2>2 DEF agenda, hp, cat
<1> HIDE DEF calls
<1>12. Effect(w, x, me, h)
  <2>1. DOMAIN x = WorldFields /\ x.heap = w.heap /\ x.catalog = w.catalog /\ x.seen = {} /\ x.agenda = calls \o w.agenda
    BY <1>2 DEF Then, WorldFields
  <2> HIDE DEF x
  <2>2. QED
    BY <1>11, <2>1 DEF Effect, Heaps
<1>13. Effect(w, w, me, h)
  BY <1>1, <1>2 DEF Effect, Heaps
<1>14. Effect(w, Failed(w), me, h)
  BY <1>2, FailedEffect
<1>15. execRow(w, me, me.stmt, c) \in {w, Failed(w), x}
  <2> HIDE DEF fresh
  <2>1. QED
    BY <1>3, Zenon DEF calls
<1> HIDE DEF x
<1>16. QED
  BY <1>12, <1>13, <1>14, <1>15

\* The write that ends one.
LEMMA WriteEffect ==
  ASSUME NEW w, NEW me, NEW c, Calling(w, me, c), c.call = "write"
  PROVE  Effect(w, execWrite(w, me, c), me, c.h)
<1>1. /\ StatusOK(status) /\ WorldOK(w) /\ AgendaOK(me, w.heap, w.catalog, w.seen, w.agenda) /\ AllOwn(w.agenda)
      /\ c.h \in Present(w.catalog) /\ (c.next # <<>> => Len(c.next) \in 0..Width(w.catalog, c.h))
  BY DEF Calling, CallOK, Own
<1>2. /\ Effect(w, HeapDelete(w, me, c.h, c.v), me, c.h)
      /\ c.next # <<>> => Effect(w, Update(w, me, c.h, c.v, c.next), me, c.h)
  BY <1>1, WriteEffects
<1>3. QED
  BY <1>2 DEF execWrite

\* The removal of a row that referred to one that goes.
LEMMA RemoveEffect ==
  ASSUME NEW w, NEW me, NEW c, Calling(w, me, c), c.call = "remove"
  PROVE  Effect(w, HeapDelete(w, me, c.h, c.v), me, c.h)
<1>1. /\ StatusOK(status) /\ WorldOK(w) /\ AgendaOK(me, w.heap, w.catalog, w.seen, w.agenda)
      /\ c.h \in Present(w.catalog) /\ <<c.h, c.v>> \in w.seen
  BY DEF Calling, CallOK
<1>2. QED
  BY <1>1, WriteEffects

\* A row that refers to one that changes or goes.
LEMMA ChildEffect ==
  ASSUME NEW w, NEW me, NEW c, Calling(w, me, c), c.call = "child"
  PROVE  Effect(w, applyRefAction(w, me, c), me, c.h)
<1> DEFINE h == c.h
           v == c.v
           t == w.catalog.tables[h]
           fk == t.foreignKeys[c.fk]
           cur == Current(w, h, v)
           action == IF c.next = <<>> THEN fk.onDelete ELSE fk.onUpdate
           marked == [w EXCEPT !.seen = @ \cup {<<h, v>>}, !.wrote = @ \cup {h}]
           moved == follow(fk, cur, c.next)
           after == Update(marked, me, h, v, moved)
           replaced == Update(marked, me, h, v, refReplacement(t, fk.cols, action, cur))
           gone == Append(applyRefActions(marked, me, h, cur, <<>>), RemoveCall(h, v))
           told == applyRefActions(after, me, h, cur, moved)
           x == applyRefAction(w, me, c)
<1>1. /\ StatusOK(status) /\ WorldOK(w) /\ AgendaOK(me, w.heap, w.catalog, w.seen, w.agenda)
      /\ h \in Present(w.catalog)
      /\ me.tx \in DOMAIN status /\ status[me.tx] = "active"
      /\ me.stmt.op = "delete" => c.next = <<>>
  BY DEF Calling, CallOK
<1>2. /\ DOMAIN w = WorldFields /\ h \in DOMAIN w.catalog.tables /\ IsSeq(t.columns)
      /\ HeapOK(w.heap, w.catalog, Len(status))
  BY <1>1, PresentIs DEF WorldOK, CatalogShape, TableShape
<1>3. \/ x \in {w, Failed(w), replaced} \/ x = Then(marked, gone)
      \/ c.next # <<>> /\ ~after.ok /\ x = after
      \/ c.next # <<>> /\ after.ok /\ x = Then(after, told)
  BY ChildCases, Zenon
<1>4. /\ Len(moved) \in 0..Width(w.catalog, h)
      /\ Len(refReplacement(t, fk.cols, action, cur)) \in 0..Width(w.catalog, h)
  <2>1. IsRow(t, cur)
    BY RowsAre, Zenon DEF Current
  <2> HIDE DEF cur, fk, action
  <2>2. IsRow(t, moved) /\ IsRow(t, refReplacement(t, fk.cols, action, cur))
    BY <2>1, RowsAre, Zenon
  <2> HIDE DEF moved, t
  <2>3. QED
    BY <1>2, <2>2, RowIs DEF Width, t
<1>5. /\ DOMAIN marked = WorldFields /\ marked.heap = w.heap /\ marked.catalog = w.catalog
      /\ marked.seen = w.seen \cup {<<h, v>>} /\ marked.agenda = w.agenda /\ marked.ok = w.ok
  BY <1>2 DEF WorldFields
<1> HIDE DEF marked
<1>6. WorldOK(marked)
  BY <1>1, <1>5 DEF WorldOK
<1>7. AgendaOK(me, marked.heap, marked.catalog, marked.seen, marked.agenda) /\ <<h, v>> \in marked.seen
  <2> DEFINE seen == w.seen
             agenda == w.agenda
             hp == w.heap
             cat == w.catalog
             more == marked.seen
  <2>1. AgendaOK(me, hp, cat, seen, agenda) /\ seen \subseteq more
    BY <1>1, <1>5
  <2> HIDE DEF seen, agenda, hp, cat, more
  <2>2. AgendaOK(me, hp, cat, more, agenda)
    BY <2>1, AgendaGrows
  <2>3. QED
    BY <1>5, <2>2 DEF agenda, hp, cat, more
<1>8. h \in Present(marked.catalog)
  BY <1>1, <1>5
<1> HIDE DEF cur, fk, action, t, moved
<1>9. Effect(marked, after, me, h) /\ Effect(marked, replaced, me, h)
  <2>1. \A row : Len(row) \in 0..Width(marked.catalog, h) => Effect(marked, Update(marked, me, h, v, row), me, h)
    BY <1>1, <1>6, <1>7, <1>8, WriteEffects
  <2>2. QED
    BY <1>4, <1>5, <2>1
<1>10. Effect(w, after, me, h) /\ Effect(w, replaced, me, h)
  <2>1. \A y : Effect(marked, y, me, h) => Effect(w, y, me, h)
    BY <1>5 DEF Effect, Heaps
  <2>2. QED
    BY <1>9, <2>1
<1>11. Effect(w, Then(marked, gone), me, h)
  <2> DEFINE kids == applyRefActions(marked, me, h, cur, <<>>)
             seen == marked.seen
             agenda == marked.agenda
             hp == marked.heap
             cat == marked.catalog
             y == Then(marked, gone)
  <2>1. AgendaOK(me, marked.heap, marked.catalog, seen, kids) /\ NoneOwn(kids)
    BY <1>6, <1>8, ChildrenOK
  <2> HIDE DEF kids
  <2>2. CallOK(me, hp, cat, seen, RemoveCall(h, v)) /\ ~Own(RemoveCall(h, v))
    BY <1>7, <1>8 DEF CallOK, RemoveCall, Own
  <2>3. AgendaOK(me, hp, cat, seen, kids) /\ AgendaOK(me, hp, cat, seen, agenda)
    BY <1>7, <2>1
  <2> HIDE DEF seen, agenda, hp, cat
  <2> DEFINE all == Append(kids, RemoveCall(h, v))
  <2>4. AgendaOK(me, hp, cat, seen, all)
    BY <2>1, <2>2, <2>3, AgendaAppend
  <2>5. NoneOwn(all)
    <3>1. IsSeq(kids)
      BY <2>3 DEF AgendaOK
    <3>2. ToSet(all) = ToSet(kids) \cup {RemoveCall(h, v)}
      BY <3>1, AppendIs
    <3> HIDE DEF all
    <3>3. QED
      BY <2>1, <2>2, <3>2 DEF NoneOwn
  <2>6. gone = all
    BY DEF kids
  <2> HIDE DEF all, gone
  <2>7. AgendaOK(me, hp, cat, seen, all \o agenda)
    BY <2>3, <2>4, <2>5, AgendaConcat
  <2>8. DOMAIN y = WorldFields /\ y.heap = hp /\ y.catalog = cat /\ y.seen = seen /\ y.agenda = gone \o agenda
    BY <1>5 DEF Then, WorldFields, hp, cat, seen, agenda
  <2> HIDE DEF y
  <2>9. y.heap = w.heap
    BY <1>5, <2>8 DEF hp
  <2>10. Effect(w, y, me, h)
    BY <2>6, <2>7, <2>8, <2>9 DEF Effect, Heaps
  <2>11. QED
    BY <2>10 DEF y
<1>12. ASSUME c.next # <<>>, after.ok
       PROVE  Effect(w, Then(after, told), me, h)
  <2> DEFINE kids == applyRefActions(after, me, h, cur, moved)
             seen == after.seen
             agenda == after.agenda
             hp == after.heap
             cat == after.catalog
             y == Then(after, told)
  <2>1. Keeps(marked, after)
    BY <1>5, EndsKeep DEF WorldFields
  <2>2. DOMAIN after = WorldFields /\ after.catalog = w.catalog
    BY <1>5, <2>1 DEF Keeps
  <2>3. Heaps(w, after, me, h) /\ AgendaOK(me, hp, cat, seen, agenda)
    BY <1>10, <1>12 DEF Effect
  <2> HIDE DEF after
  <2>4. Written(w.heap, after.heap, me.tx, after.catalog)
    BY <1>1, <2>3 DEF Heaps, Written
  <2>5. HeapOK(after.heap, after.catalog, Len(status))
    BY <1>1, <1>2, <2>2, <2>4, WrittenHeapOK
  <2>6. WorldOK(after)
    BY <1>1, <1>12, <2>2, <2>5 DEF WorldOK
  <2>7. AgendaOK(me, after.heap, after.catalog, seen, kids) /\ NoneOwn(kids)
    <3>1. h \in Present(after.catalog) /\ (me.stmt.op = "delete" => moved = <<>>)
      BY <1>1, <1>12, <2>2
    <3>2. QED
      BY <2>6, <3>1, ChildrenOK
  <2>8. kids = told
    OBVIOUS
  <2>9. AgendaOK(me, hp, cat, seen, kids)
    BY <2>7
  <2> HIDE DEF seen, agenda, hp, cat, kids, told
  <2>10. AgendaOK(me, hp, cat, seen, kids \o agenda)
    BY <2>3, <2>7, <2>9, AgendaConcat
  <2>11. DOMAIN y = WorldFields /\ y.heap = hp /\ y.catalog = cat /\ y.seen = seen /\ y.agenda = told \o agenda
    BY <2>2 DEF Then, WorldFields, hp, cat, seen, agenda
  <2> HIDE DEF y
  <2>12. Heaps(w, y, me, h)
    BY <2>3, <2>11 DEF Heaps, hp, cat
  <2>13. Effect(w, y, me, h)
    BY <2>8, <2>10, <2>11, <2>12 DEF Effect
  <2>14. QED
    BY <2>13 DEF y
<1>13. Effect(w, w, me, h)
  BY <1>1, <1>2 DEF Effect, Heaps
<1>14. Effect(w, Failed(w), me, h)
  BY <1>2, FailedEffect
<1> HIDE DEF after, replaced, gone, told, x
<1>15. Effect(w, x, me, h)
  BY <1>3, <1>10, <1>11, <1>12, <1>13, <1>14
<1>16. QED
  BY <1>15 DEF x

\* A catalog with the same tables under the same names, where a table may have grown
\* but its references are as they were.
Moves(c, d) ==
  /\ CatalogShape(d) /\ Agrees(d) /\ Evolves(c, d)
  /\ DOMAIN d.tables = DOMAIN c.tables /\ Present(d) = Present(c)
  /\ \A h \in DOMAIN c.tables : d.tables[h].foreignKeys = c.tables[h].foreignKeys

\* Nothing has to.
LEMMA NothingMoves ==
  ASSUME NEW c, CatalogShape(c), Agrees(c), AllKeyed(c)
  PROVE  Moves(c, c)
BY NothingEvolves DEF Moves

\* Tables are as wide as they were, or wider.
LEMMA EvolvesWidth ==
  ASSUME NEW c, NEW d, CatalogShape(c), CatalogShape(d), Evolves(c, d), NEW h \in DOMAIN c.tables
  PROVE  Width(c, h) \in Nat /\ Width(d, h) \in Nat /\ Width(c, h) <= Width(d, h)
<1>1. h \in DOMAIN d.tables /\ Len(c.tables[h].columns) <= Len(d.tables[h].columns)
  BY DEF Evolves, Follows
<1>2. IsSeq(c.tables[h].columns) /\ IsSeq(d.tables[h].columns)
  BY <1>1 DEF CatalogShape, TableShape
<1>3. QED
  BY <1>1, <1>2, SeqIs DEF Width

\* The calls there are can be there still.
LEMMA AgendaMoves ==
  ASSUME NEW c, NEW d, CatalogShape(c), Moves(c, d), NEW hp, NEW me, NEW seen, NEW q, AgendaOK(me, hp, c, seen, q)
  PROVE  AgendaOK(me, hp, d, seen, q)
<1>1. ASSUME NEW call, CallOK(me, hp, c, seen, call)
      PROVE  CallOK(me, hp, d, seen, call)
  <2>1. call.h \in Present(c) /\ call.h \in DOMAIN c.tables
    BY <1>1, PresentIs DEF CallOK
  <2>2. Width(c, call.h) \in Nat /\ Width(d, call.h) \in Nat /\ Width(c, call.h) <= Width(d, call.h)
    BY <2>1, EvolvesWidth DEF Moves
  <2>3. call.call = "write" /\ call.next # <<>> => Len(call.next) \in 0..Width(c, call.h)
    BY <1>1 DEF CallOK
  <2>4. Len(call.next) \in 0..Width(c, call.h) => Len(call.next) \in 0..Width(d, call.h)
    BY <2>2
  <2>5. d.tables[call.h].foreignKeys = c.tables[call.h].foreignKeys /\ Present(d) = Present(c)
    BY <2>1 DEF Moves
  <2>6. QED
    BY <1>1, <2>3, <2>4, <2>5 DEF CallOK
<1>2. QED
  BY <1>1 DEF AgendaOK

\* ... and the versions fit.
LEMMA HeapMoves ==
  ASSUME NEW c, NEW d, CatalogShape(c), Moves(c, d), NEW hp, NEW n \in Nat, HeapOK(hp, c, n)
  PROVE  HeapOK(hp, d, n)
<1>1. \A h \in DOMAIN c.tables : Width(c, h) <= Width(d, h)
  BY EvolvesWidth DEF Moves
<1>2. QED
  BY <1>1, HeapWidens DEF Moves

\* The row that a call stores, with the numbers it draws.
Drawn(w, s, c) ==
  LET t == w.catalog.tables[c.h]
      names == targets(t, s)
      serial(i) == SelectInSeq(names, LAMBDA n : n = t.columns[i].name) = 0 /\ t.columns[i].ident # "none"
  IN [w EXCEPT !.catalog.tables[c.h].columns =
        [i \in DOMAIN t.columns |->
           IF serial(i) THEN [t.columns[i] EXCEPT !.nextSerial = @ + 1] ELSE t.columns[i]]]

\* Nothing else of the world changes, and nothing that rows depend on of the table.
LEMMA DrawnIs ==
  ASSUME NEW w, WorldOK(w), NEW s, NEW c, c.h \in Present(w.catalog)
  PROVE  /\ DOMAIN Drawn(w, s, c) = WorldFields /\ Moves(w.catalog, Drawn(w, s, c).catalog)
         /\ Drawn(w, s, c).heap = w.heap /\ Drawn(w, s, c).seen = w.seen /\ Drawn(w, s, c).wrote = w.wrote
         /\ Drawn(w, s, c).agenda = w.agenda /\ Drawn(w, s, c).ok = w.ok
<1> DEFINE h == c.h
           t == w.catalog.tables[h]
           serial(i) == SelectInSeq(targets(t, s), LAMBDA n : n = t.columns[i].name) = 0 /\ t.columns[i].ident # "none"
           columns == [i \in DOMAIN t.columns |->
                         IF serial(i) THEN [t.columns[i] EXCEPT !.nextSerial = @ + 1] ELSE t.columns[i]]
           u == [t EXCEPT !.columns = columns]
           x == [w EXCEPT !.catalog.tables[c.h].columns = columns]
           cat == w.catalog
           d == x.catalog
<1>1. Drawn(w, s, c) = x
  BY Zenon DEF Drawn
<1>2. /\ DOMAIN w = WorldFields /\ CatalogShape(cat) /\ Agrees(cat) /\ AllKeyed(cat)
      /\ h \in DOMAIN cat.tables
  BY PresentIs DEF WorldOK
<1>3. TableShape(t) /\ Keyed(t)
  BY <1>2 DEF CatalogShape, AllKeyed
<1>4. /\ columns = [i \in DOMAIN t.columns |-> columns[i]]
      /\ \A i \in DOMAIN t.columns : /\ "name" \in DOMAIN columns[i] /\ columns[i].name = t.columns[i].name
                                     /\ columns[i].missing = t.columns[i].missing
  <2>1. \A i \in DOMAIN t.columns : "name" \in DOMAIN t.columns[i]
    BY <1>3 DEF TableShape
  <2> HIDE DEF serial, t
  <2>2. QED
    BY <2>1
<1> HIDE DEF columns
<1>5. /\ DOMAIN x = WorldFields /\ x.heap = w.heap /\ x.seen = w.seen /\ x.wrote = w.wrote
      /\ x.agenda = w.agenda /\ x.ok = w.ok
      /\ d = [cat EXCEPT !.tables = [cat.tables EXCEPT ![h] = u]]
  BY <1>2 DEF WorldFields
<1> HIDE DEF x, d, cat
<1>6. Stands(t, u)
  <2> HIDE DEF t
  <2>1. QED
    BY <1>3, <1>4, ColumnsStand
<1>7. Follows(t, u)
  <2> HIDE DEF t
  <2>1. QED
    BY <1>3, <1>4, ColumnsFollow
<1>8. t = cat.tables[h]
  BY DEF cat
<1> HIDE DEF t, u
<1>9. Preserves(cat, d)
  BY <1>2, <1>5, <1>6, <1>8, OneStandingPreserves
<1>10. CatalogShape(d) /\ Agrees(d)
  BY <1>2, <1>9 DEF Preserves
<1>11. Evolves(cat, d)
  BY <1>2, <1>5, <1>7, <1>8, <1>10, OneEvolves
<1>12. /\ DOMAIN d.tables = DOMAIN cat.tables /\ Present(d) = Present(cat)
       /\ \A g \in DOMAIN cat.tables : d.tables[g].foreignKeys = cat.tables[g].foreignKeys
  <2>1. u.foreignKeys = t.foreignKeys
    BY <1>6 DEF Stands
  <2>2. QED
    BY <1>2, <1>5, <1>8, <2>1 DEF Present, CatalogShape
<1>13. Moves(cat, d)
  BY <1>10, <1>11, <1>12 DEF Moves
<1>14. QED
  BY <1>1, <1>5, <1>13 DEF cat, d

\* A row to insert.
LEMMA StoreEffect ==
  ASSUME NEW w, NEW me, NEW c, Calling(w, me, c), c.call = "store"
  PROVE  Effect(w, store(w, me, me.stmt, c), me, c.h)
<1> DEFINE h == c.h
           s == me.stmt
           drawn == Drawn(w, s, c)
           t == w.catalog.tables[h]
           given(i) == SelectInSeq(targets(t, s), LAMBDA n : n = t.columns[i].name)
           serial(i) == given(i) = 0 /\ t.columns[i].ident # "none"
           row == [i \in DOMAIN t.columns |->
                     IF given(i) # 0 THEN c.next[given(i)]
                     ELSE IF serial(i) THEN t.columns[i].nextSerial
                     ELSE t.columns[i].default]
           x == store(w, me, s, c)
<1>1. /\ StatusOK(status) /\ WorldOK(w) /\ AgendaOK(me, w.heap, w.catalog, w.seen, w.agenda) /\ AllOwn(w.agenda)
      /\ h \in Present(w.catalog)
  BY DEF Calling, CallOK, Own
<1>2. /\ DOMAIN drawn = WorldFields /\ Moves(w.catalog, drawn.catalog) /\ drawn.heap = w.heap
      /\ drawn.seen = w.seen /\ drawn.agenda = w.agenda /\ drawn.ok = w.ok
  BY <1>1, DrawnIs
<1>3. \/ \E existing : x = resolve(drawn, me, s, c, existing, row)
      \/ x = Failed(drawn) \/ x = Insert(drawn, me, h, row)
  BY Zenon DEF store, Drawn
<1>4. IsRow(t, row)
  <2> HIDE DEF given, serial
  <2>1. QED
    BY DEF IsRow
<1> HIDE DEF row, drawn
<1>5. Len(row) \in 0..Width(drawn.catalog, h) /\ h \in DOMAIN w.catalog.tables
  <2>1. h \in DOMAIN w.catalog.tables /\ CatalogShape(w.catalog)
    BY <1>1, PresentIs DEF WorldOK
  <2>2. IsSeq(t.columns)
    BY <2>1 DEF CatalogShape, TableShape
  <2> HIDE DEF t
  <2>3. Len(row) \in 0..Len(t.columns)
    BY <1>4, <2>2, RowIs
  <2>4. Width(w.catalog, h) \in Nat /\ Width(drawn.catalog, h) \in Nat /\ Width(w.catalog, h) <= Width(drawn.catalog, h)
    BY <1>2, <2>1, EvolvesWidth DEF Moves
  <2>5. Len(t.columns) = Width(w.catalog, h)
    BY DEF Width, t
  <2>6. QED
    BY <2>1, <2>3, <2>4, <2>5
<1>6. WorldOK(drawn) /\ AllOwn(drawn.agenda) /\ h \in Present(drawn.catalog)
  <2>1. HeapOK(w.heap, w.catalog, Len(status)) /\ CatalogShape(w.catalog) /\ Len(status) \in Nat
    BY <1>1, SeqIs DEF WorldOK, StatusOK
  <2>2. HeapOK(drawn.heap, drawn.catalog, Len(status))
    BY <1>2, <2>1, HeapMoves
  <2>3. QED
    BY <1>1, <1>2, <2>2 DEF WorldOK, Moves, Evolves
<1>7. AgendaOK(me, drawn.heap, drawn.catalog, drawn.seen, drawn.agenda)
  <2> DEFINE seen == w.seen
             agenda == w.agenda
             hp == w.heap
             cat == w.catalog
             d == drawn.catalog
  <2>1. CatalogShape(cat) /\ Moves(cat, d) /\ AgendaOK(me, hp, cat, seen, agenda)
    BY <1>1, <1>2 DEF WorldOK
  <2> HIDE DEF seen, agenda, hp, cat, d
  <2>2. AgendaOK(me, hp, d, seen, agenda)
    BY <2>1, AgendaMoves
  <2>3. QED
    BY <1>2, <2>2 DEF agenda, hp, d, seen
<1>8. \A y : Effect(drawn, y, me, h) => Effect(w, y, me, h)
  BY <1>2 DEF Effect, Heaps
<1>9. \A v, new : Len(new) \in 0..Width(drawn.catalog, h) => Effect(drawn, Update(drawn, me, h, v, new), me, h)
  BY <1>1, <1>6, <1>7, WriteEffects
<1>10. Effect(drawn, drawn, me, h) /\ Effect(drawn, Failed(drawn), me, h)
  <2>1. Effect(drawn, drawn, me, h)
    BY <1>2, <1>7 DEF Effect, Heaps
  <2>2. QED
    BY <1>2, <2>1, FailedEffect
<1>11. ASSUME NEW existing PROVE Effect(drawn, resolve(drawn, me, s, c, existing, row), me, h)
  <2> DEFINE cur == Current(drawn, h, existing)
             next == Assigned(drawn.catalog.tables[h], cur, s.conflict.set, cur \o row)
  <2>1. resolve(drawn, me, s, c, existing, row) \in {drawn, Failed(drawn), Update(drawn, me, h, existing, next)}
    BY Zenon DEF resolve
  <2>2. IsRow(drawn.catalog.tables[h], cur)
    BY RowsAre, Zenon DEF Current
  <2> HIDE DEF cur
  <2>3. IsRow(drawn.catalog.tables[h], next)
    BY <2>2, RowsAre, Zenon
  <2> HIDE DEF next
  <2>4. IsSeq(drawn.catalog.tables[h].columns)
    BY <1>2, <1>5 DEF Moves, CatalogShape, TableShape
  <2>5. Len(next) \in 0..Width(drawn.catalog, h)
    BY <2>3, <2>4, RowIs DEF Width
  <2>6. QED
    BY <1>9, <1>10, <2>1, <2>5
<1>12. Effect(drawn, Insert(drawn, me, h, row), me, h)
  <2> DEFINE hp == drawn.heap
             hp2 == AfterInsert(hp, h, row, me.tx)
             cat == drawn.catalog
             seen == drawn.seen
             agenda == drawn.agenda
             width == Width(drawn.catalog, h)
             y == [drawn EXCEPT !.heap = hp2]
  <2>1. Insert(drawn, me, h, row) = Failed(drawn) \/ Insert(drawn, me, h, row) = y
    BY <1>2, WritesAre
  <2>2. h \in DOMAIN hp => IsSeq(hp[h])
    BY <1>6 DEF WorldOK, HeapOK, VersionsOK
  <2> HIDE DEF hp
  <2>3. Touched(hp, hp2, h, 0, me.tx, width)
    BY <1>5, <2>2, InsertTouches
  <2> HIDE DEF hp2
  <2>4. /\ CatalogShape(cat) /\ DOMAIN hp = DOMAIN cat.tables /\ AgendaOK(me, hp, cat, seen, agenda)
        /\ AllOwn(agenda) /\ seen \subseteq seen
    BY <1>6, <1>7 DEF WorldOK, HeapOK, hp
  <2>5. DOMAIN y = WorldFields /\ y.heap = hp2 /\ y.catalog = cat /\ y.seen = seen /\ y.agenda = agenda
    BY <1>2 DEF WorldFields
  <2> HIDE DEF cat, seen, agenda, width, y
  <2>6. AgendaOK(me, hp2, cat, seen, agenda)
    BY <2>3, <2>4, AgendaTouched
  <2>7. Effect(drawn, y, me, h)
    BY <2>3, <2>5, <2>6 DEF Effect, Heaps, hp, width, cat
  <2>8. QED
    BY <1>10, <2>1, <2>7
<1>13. Effect(drawn, x, me, h)
  <2> HIDE DEF x
  <2>1. QED
    BY <1>3, <1>10, <1>11, <1>12
<1>14. QED
  BY <1>8, <1>13

\* Any call.
LEMMA CallEffect ==
  ASSUME NEW w, NEW me, NEW c, Calling(w, me, c)
  PROVE  /\ Effect(w, execCall(w, me, me.stmt, c), me, c.h)
         /\ Moves(w.catalog, execCall(w, me, me.stmt, c).catalog)
<1> DEFINE s == me.stmt
           x == execCall(w, me, s, c)
<1>1. /\ DOMAIN w = WorldFields /\ CatalogShape(w.catalog) /\ Agrees(w.catalog) /\ AllKeyed(w.catalog)
      /\ c.call \in {"row", "write", "store", "child", "remove"} /\ c.h \in Present(w.catalog) /\ WorldOK(w)
  BY DEF Calling, WorldOK, CallOK
<1>2. "catalog" \in DOMAIN w
  BY <1>1 DEF WorldFields
<1>3. Keeps(w, x) => Moves(w.catalog, x.catalog)
  BY <1>1, NothingMoves DEF Keeps
<1>4. CASE c.call = "row"
  <2>1. x = execRow(w, me, s, c)
    BY <1>4 DEF execCall
  <2> HIDE DEF x
  <2>2. QED
    BY <1>2, <1>3, <1>4, <2>1, RowEffect, RowKeeps DEF x
<1>5. CASE c.call = "write"
  <2>1. x = execWrite(w, me, c)
    BY <1>5 DEF execCall
  <2>2. Keeps(w, execWrite(w, me, c))
    <3>1. (\A h, v : Keeps(w, HeapDelete(w, me, h, v))) /\ \A h, v, row : Keeps(w, Update(w, me, h, v, row))
      BY <1>2, EndsKeep
    <3>2. QED
      BY <3>1 DEF execWrite
  <2> HIDE DEF x
  <2>3. QED
    BY <1>3, <1>5, <2>1, <2>2, WriteEffect DEF x
<1>6. CASE c.call = "child"
  <2>1. x = applyRefAction(w, me, c)
    BY <1>6 DEF execCall
  <2> HIDE DEF x
  <2>2. QED
    BY <1>2, <1>3, <1>6, <2>1, ChildEffect, ChildKeeps DEF x
<1>7. CASE c.call = "remove"
  <2>1. x = HeapDelete(w, me, c.h, c.v)
    BY <1>7 DEF execCall
  <2>2. Keeps(w, HeapDelete(w, me, c.h, c.v))
    BY <1>2, EndsKeep
  <2> HIDE DEF x
  <2>3. QED
    BY <1>3, <1>7, <2>1, <2>2, RemoveEffect DEF x
<1>8. CASE c.call = "store"
  <2>1. x = store(w, me, s, c)
    BY <1>8 DEF execCall
  <2> DEFINE drawn == Drawn(w, s, c)
  <2>2. "catalog" \in DOMAIN drawn /\ Moves(w.catalog, drawn.catalog)
    BY <1>1, DrawnIs DEF WorldFields
  <2>3. \/ \E existing, row : x = resolve(drawn, me, s, c, existing, row)
        \/ x = Failed(drawn)
        \/ \E row : x = Insert(drawn, me, c.h, row)
    BY <2>1, Zenon DEF store, Drawn
  <2> HIDE DEF drawn, x
  <2>4. Keeps(drawn, drawn) /\ Keeps(drawn, Failed(drawn)) /\ \A row : Keeps(drawn, Insert(drawn, me, c.h, row))
    BY <2>2, EndsKeep
  <2>5. \A existing, row : Keeps(drawn, resolve(drawn, me, s, c, existing, row))
    <3>1. \A v, row : Keeps(drawn, Update(drawn, me, c.h, v, row))
      BY <2>2, EndsKeep
    <3>2. QED
      BY <2>4, <3>1 DEF resolve
  <2>6. x.catalog = drawn.catalog
    BY <2>3, <2>4, <2>5 DEF Keeps
  <2>7. QED
    BY <1>8, <2>1, <2>2, <2>6, StoreEffect DEF x
<1>9. QED
  BY <1>1, <1>4, <1>5, <1>6, <1>7, <1>8

(***************************************************************************)
(* Sessions.                                                               *)
(***************************************************************************)

\* Of the outcomes, one transaction's may change, and others may be there.
Advances(st, st2, id) ==
  StatusOK(st2) /\ Len(st) <= Len(st2) /\ \A i \in DOMAIN st : i # id => st2[i] = st[i]

\* An outcome is recorded, or a transaction begun.
LEMMA StatusAdvances ==
  ASSUME NEW st, StatusOK(st), NEW o \in Outcomes
  PROVE  /\ \A id : Advances(st, st, id)
         /\ \A id : Advances(st, [st EXCEPT ![id] = o], id) /\ Len([st EXCEPT ![id] = o]) = Len(st)
         /\ \A id : Advances(st, Append(st, o), id)
         /\ Len(Append(st, o)) = Len(st) + 1 /\ Append(st, o)[Len(st) + 1] = o
<1>1. IsSeq(st) /\ DOMAIN st = 1..Len(st) /\ Len(st) \in Nat /\ Len(st) >= 1 /\ \A i \in DOMAIN st : st[i] \in Outcomes
  BY SeqIs DEF StatusOK, Boot
<1>2. \A id : Advances(st, st, id)
  BY <1>1 DEF Advances, StatusOK
<1>3. ASSUME NEW id
      PROVE  Advances(st, [st EXCEPT ![id] = o], id) /\ Len([st EXCEPT ![id] = o]) = Len(st)
  <2> DEFINE r == [st EXCEPT ![id] = o]
  <2>1. r = [i \in 1..Len(st) |-> r[i]] /\ DOMAIN r = DOMAIN st /\ \A i \in DOMAIN st : r[i] = IF i = id THEN o ELSE st[i]
    BY <1>1
  <2> HIDE DEF r
  <2>2. IsSeq(r) /\ Len(r) = Len(st)
    BY <1>1, <2>1, FunctionsAreSeqs
  <2>3. Advances(st, r, id)
    BY <1>1, <2>1, <2>2 DEF Advances, StatusOK, Boot
  <2>4. QED
    BY <2>2, <2>3 DEF r
<1>4. /\ \A id : Advances(st, Append(st, o), id)
      /\ Len(Append(st, o)) = Len(st) + 1 /\ Append(st, o)[Len(st) + 1] = o
  <2> DEFINE r == Append(st, o)
  <2>1. IsSeq(r) /\ Len(r) = Len(st) + 1 /\ r[Len(st) + 1] = o
    BY <1>1, AppendIs
  <2>2. \A i \in DOMAIN st : r[i] = st[i]
    BY <1>1, AppendIs
  <2>3. \A i \in DOMAIN r : r[i] = o \/ (i \in DOMAIN st /\ r[i] = st[i])
    BY <1>1, AppendIs
  <2> HIDE DEF r
  <2>4. \A i \in DOMAIN r : r[i] \in Outcomes
    BY <1>1, <2>3
  <2>5. Len(r) >= Boot /\ Len(st) <= Len(r)
    BY <1>1, <2>1 DEF Boot
  <2>6. \A id : Advances(st, r, id)
    BY <2>1, <2>2, <2>4, <2>5 DEF Advances, StatusOK
  <2>7. QED
    BY <2>1, <2>6 DEF r
<1>5. QED
  BY <1>2, <1>3, <1>4

\* What another transaction writes is no matter to the calls there are.
LEMMA AgendaWritten ==
  ASSUME StatusOK(status), NEW hp, NEW hp2, NEW id, NEW c, CatalogShape(c),
         HeapOK(hp, c, Len(status)), Written(hp, hp2, id, c),
         NEW me, Open(me.tx), me.tx # id, me.snap \subseteq Taken,
         NEW seen, NEW q, AgendaOK(me, hp, c, seen, q)
  PROVE  AgendaOK(me, hp2, c, seen, q)
<1>1. ASSUME NEW call, CallOK(me, hp, c, seen, call)
      PROVE  CallOK(me, hp2, c, seen, call)
  <2>1. call.h \in DOMAIN hp
    BY <1>1, PresentIs DEF CallOK, HeapOK
  <2>2. Seen(hp2[call.h], me.tx, me.snap) = Seen(hp[call.h], me.tx, me.snap)
    BY <2>1, WrittenSeen
  <2>3. QED
    BY <1>1, <2>2 DEF CallOK
<1>2. QED
  BY <1>1 DEF AgendaOK

\* One that does nothing.
LEMMA IdleIs ==
  ASSUME NEW hp, NEW c, NEW st, StatusOK(st)
  PROVE  SessionOK(Idle, hp, c, st) /\ Idle.tx = NoTx /\ ~Running(Idle)
<1>1. /\ DOMAIN Idle = SessionFields /\ Idle.tx = NoTx /\ Idle.snap = {} /\ Idle.explicit = FALSE
      /\ Idle.writing = FALSE /\ Idle.stmt = NoStatement
  BY DEF Idle, SessionFields
<1>2. Len(st) \in Nat
  BY SeqIs DEF StatusOK
<1> HIDE DEF Idle
<1>3. QED
  BY <1>1, <1>2 DEF SessionOK, Running, NoTx

\* One that is between statements is, whatever else.
LEMMA RestIs ==
  ASSUME NEW me, DOMAIN me = SessionFields
  PROVE  /\ DOMAIN AtRest(me) = SessionFields /\ ~Running(AtRest(me))
         /\ AtRest(me).tx = me.tx /\ AtRest(me).snap = me.snap /\ AtRest(me).explicit = me.explicit
         /\ AtRest(me).writing = me.writing /\ AtRest(me).failed = me.failed /\ AtRest(me).level = me.level
BY DEF AtRest, SessionFields, Running

\* The others go on as they were.
LEMMA SessionKept ==
  ASSUME RowInv, NEW me, SessionOK(me, heap, catalog, status),
         NEW d, Moves(catalog, d), NEW hp2, NEW id, Written(heap, hp2, id, d),
         id \in DOMAIN status => status[id] = "active",
         NEW st2, Advances(status, st2, id), me.tx = NoTx \/ me.tx # id
  PROVE  SessionOK(me, hp2, d, st2)
<1>1. /\ StatusOK(status) /\ CatalogShape(catalog) /\ HeapOK(heap, catalog, Len(status))
      /\ Len(status) \in Nat /\ DOMAIN status = 1..Len(status)
  BY SeqIs DEF RowInv, CatInv, StatusOK
<1>2. Len(st2) \in Nat /\ DOMAIN st2 = 1..Len(st2) /\ Len(status) <= Len(st2)
      /\ \A i \in DOMAIN status : i \in DOMAIN st2 /\ (i # id => st2[i] = status[i])
  BY <1>1, SeqIs DEF Advances, StatusOK
<1>3. HeapOK(heap, d, Len(status)) /\ CatalogShape(d)
  BY <1>1, HeapMoves DEF Moves
<1>4. /\ DOMAIN me = SessionFields /\ me.tx \in 0..Len(status) /\ (me.tx # NoTx => status[me.tx] = "active")
      /\ \A i \in me.snap : i \in DOMAIN status /\ status[i] = "committed"
      /\ me.explicit \/ me.writing => me.tx # NoTx
      /\ ~me.writing /\ me.tx # NoTx => Blank(heap, me.tx)
      /\ Running(me) => me.writing /\ AgendaOK(me, heap, catalog, me.seen, me.agenda)
  BY DEF SessionOK
<1>5. me.tx \in 0..Len(st2)
  BY <1>1, <1>2, <1>4
<1>6. me.tx # NoTx => me.tx \in DOMAIN status /\ st2[me.tx] = "active"
  BY <1>1, <1>2, <1>4 DEF NoTx
<1>7. \A i \in me.snap : i \in DOMAIN st2 /\ st2[i] = "committed"
  BY <1>2, <1>4
<1>8. ~me.writing /\ me.tx # NoTx => Blank(hp2, me.tx)
  BY <1>1, <1>3, <1>4, WrittenBlank
<1>9. Running(me) => AgendaOK(me, hp2, d, me.seen, me.agenda)
  <2> SUFFICES ASSUME Running(me) PROVE AgendaOK(me, hp2, d, me.seen, me.agenda)
    OBVIOUS
  <2> DEFINE seen == me.seen
             q == me.agenda
  <2>1. me.tx # NoTx /\ AgendaOK(me, heap, catalog, seen, q)
    BY <1>4
  <2>2. Open(me.tx) /\ me.tx # id /\ me.snap \subseteq Taken
    BY <1>4, <1>6, <2>1 DEF Open, Taken
  <2> HIDE DEF seen, q
  <2>3. AgendaOK(me, heap, d, seen, q)
    BY <1>1, <2>1, AgendaMoves
  <2>4. AgendaOK(me, hp2, d, seen, q)
    BY <1>1, <1>3, <2>2, <2>3, AgendaWritten
  <2>5. QED
    BY <2>4 DEF seen, q
<1>10. QED
  BY <1>4, <1>5, <1>6, <1>7, <1>8, <1>9 DEF SessionOK

\* A step of one session, as the invariant sees it.
LEMMA SessionMoves ==
  ASSUME RowInv, NEW s \in Sessions, NEW mine,
         NEW d, Moves(catalog, d), NEW hp2, NEW id, Written(heap, hp2, id, d),
         id \in DOMAIN status => status[id] = "active",
         \A o \in Sessions : o # s => session[o].tx # id,
         NEW st2, Advances(status, st2, id), SessionOK(mine, hp2, d, st2), mine.tx \in {NoTx, id}
  PROVE  /\ AllKeyed(d) /\ StatusOK(st2) /\ HeapOK(hp2, d, Len(st2))
         /\ SessionsOK([session EXCEPT ![s] = mine], hp2, d, st2)
<1>1. /\ StatusOK(status) /\ CatalogShape(catalog) /\ HeapOK(heap, catalog, Len(status))
      /\ SessionsOK(session, heap, catalog, status) /\ Len(status) \in Nat /\ CatalogShape(d)
  BY SeqIs DEF RowInv, CatInv, StatusOK, Moves
<1>2. StatusOK(st2) /\ Len(st2) \in Nat /\ Len(status) <= Len(st2)
  BY SeqIs DEF Advances, StatusOK
<1>3. HeapOK(hp2, d, Len(status))
  <2>1. HeapOK(heap, d, Len(status))
    BY <1>1, HeapMoves
  <2>2. QED
    BY <1>1, <2>1, WrittenHeapOK
<1>4. HeapOK(hp2, d, Len(st2))
  <2>1. \A h \in DOMAIN d.tables : Width(d, h) \in Nat
    BY <1>1, SeqIs DEF Width, CatalogShape, TableShape
  <2>2. \A h \in DOMAIN d.tables : Width(d, h) <= Width(d, h)
    BY <2>1
  <2>3. QED
    BY <1>1, <1>2, <1>3, <2>2, HeapWidens
<1>5. \A o \in Sessions : o # s => SessionOK(session[o], hp2, d, st2)
  BY <1>1, SessionKept DEF SessionsOK
<1> DEFINE ses == [session EXCEPT ![s] = mine]
<1>6. DOMAIN ses = Sessions /\ \A o \in Sessions : ses[o] = IF o = s THEN mine ELSE session[o]
  BY <1>1 DEF SessionsOK
<1> HIDE DEF ses
<1>7. \A p, o \in Sessions : p # o => session[p].tx = NoTx \/ session[p].tx # session[o].tx
  BY <1>1 DEF SessionsOK
<1>8. \A p, o \in Sessions : p # o => ses[p].tx = NoTx \/ ses[p].tx # ses[o].tx
  BY <1>6, <1>7
<1>9. SessionsOK(ses, hp2, d, st2)
  BY <1>5, <1>6, <1>8 DEF SessionsOK
<1>10. QED
  BY <1>2, <1>4, <1>9 DEF Moves, Evolves, ses

(***************************************************************************)
(* The actions.                                                            *)
(***************************************************************************)
RowsOK(c, hp, st, ses) ==
  AllKeyed(c) /\ StatusOK(st) /\ HeapOK(hp, c, Len(st)) /\ SessionsOK(ses, hp, c, st)

\* A transaction that is begun now is nobody's, and has written nothing.
LEMMA FreshIs ==
  ASSUME RowInv
  PROVE  /\ \A o \in Sessions : session[o].tx # Len(status) + 1
         /\ Len(status) + 1 # NoTx /\ Len(status) + 1 \notin DOMAIN status
         /\ Blank(heap, Len(status) + 1)
<1>1. Len(status) \in Nat /\ DOMAIN status = 1..Len(status)
  BY SeqIs DEF RowInv, StatusOK
<1>2. \A o \in Sessions : session[o].tx \in 0..Len(status)
  BY DEF RowInv, SessionsOK, SessionOK
<1>3. \A h \in DOMAIN heap : \A i \in DOMAIN heap[h] : heap[h][i].xmin \in 1..Len(status) /\ heap[h][i].xmax \in 0..Len(status)
  BY DEF RowInv, HeapOK, VersionsOK, VersionOK
<1>4. QED
  BY <1>1, <1>2, <1>3 DEF Blank, NoTx

\* A transaction that is open is one session's.
LEMMA OwnerIs ==
  ASSUME RowInv, NEW s \in Sessions, session[s].tx # NoTx
  PROVE  /\ \A o \in Sessions : o # s => session[o].tx # session[s].tx
         /\ session[s].tx \in DOMAIN status /\ status[session[s].tx] = "active"
<1>1. Len(status) \in Nat /\ DOMAIN status = 1..Len(status)
  BY SeqIs DEF RowInv, StatusOK
<1>2. session[s].tx \in 0..Len(status) /\ status[session[s].tx] = "active"
  BY DEF RowInv, SessionsOK, SessionOK
<1>3. QED
  BY <1>1, <1>2 DEF RowInv, SessionsOK, NoTx

\* The session in whose transaction nothing has been written.
LEMMA BeginRows ==
  ASSUME RowInv, NEW s \in Sessions, NEW level, Begin(s, level)
  PROVE  RowsOK(catalog', heap', status', session')
<1> DEFINE id == Len(status) + 1
           st2 == Append(status, "active")
           mine == [Idle EXCEPT !.tx = Len(status) + 1, !.snap = Taken, !.level = level, !.explicit = TRUE]
<1>1. /\ status' = st2 /\ session' = [session EXCEPT ![s] = mine] /\ heap' = heap /\ catalog' = catalog
  BY DEF Begin
<1>2. StatusOK(status) /\ Len(status) \in Nat /\ DOMAIN status = 1..Len(status)
  BY SeqIs DEF RowInv, StatusOK
<1>3. Advances(status, st2, id) /\ Len(st2) = id /\ st2[id] = "active"
  <2>1. "active" \in Outcomes
    BY DEF Outcomes
  <2>2. QED
    BY <1>2, <2>1, StatusAdvances
<1>4. /\ DOMAIN mine = SessionFields /\ mine.tx = id /\ mine.snap = Taken /\ mine.stmt = NoStatement
      /\ mine.writing = FALSE
  BY DEF Idle, SessionFields
<1>5. id \in 0..id /\ id # NoTx /\ id \notin DOMAIN status /\ Blank(heap, id) /\ \A o \in Sessions : session[o].tx # id
  BY <1>2, FreshIs
<1> HIDE DEF st2, mine, id
<1>6. \A i \in Taken : i \in DOMAIN st2 /\ st2[i] = "committed"
  <2>1. DOMAIN st2 = 1..Len(st2) /\ Len(st2) \in Nat
    BY <1>3, SeqIs DEF Advances, StatusOK
  <2>2. \A i \in DOMAIN status : i \in DOMAIN st2 /\ st2[i] = status[i]
    BY <1>2, <1>3, <1>5, <2>1 DEF Advances
  <2>3. QED
    BY <2>2 DEF Taken
<1>7. SessionOK(mine, heap, catalog, st2)
  BY <1>3, <1>4, <1>5, <1>6 DEF SessionOK, Running
<1>8. Moves(catalog, catalog)
  BY NothingMoves DEF RowInv, CatInv
<1>9. Written(heap, heap, id, catalog)
  BY DEF Written
<1>10. RowsOK(catalog, heap, st2, [session EXCEPT ![s] = mine])
  BY <1>3, <1>4, <1>5, <1>7, <1>8, <1>9, SessionMoves DEF RowsOK
<1>11. QED
  BY <1>1, <1>10, Zenon

\* A session that ends its transaction.
LEMMA EndRows ==
  ASSUME RowInv, NEW s \in Sessions, session[s].tx # NoTx,
         NEW d, Moves(catalog, d), NEW hp2, Written(heap, hp2, session[s].tx, d),
         NEW o \in Outcomes
  PROVE  RowsOK(d, hp2, [status EXCEPT ![session[s].tx] = o], [session EXCEPT ![s] = Idle])
<1> DEFINE id == session[s].tx
           st2 == [status EXCEPT ![id] = o]
<1>1. StatusOK(status)
  BY DEF RowInv
<1>2. Advances(status, st2, id)
  BY <1>1, StatusAdvances
<1>3. /\ \A p \in Sessions : p # s => session[p].tx # id
      /\ id \in DOMAIN status => status[id] = "active"
  BY OwnerIs
<1> HIDE DEF st2
<1>4. SessionOK(Idle, hp2, d, st2) /\ Idle.tx \in {NoTx, id}
  BY <1>2, IdleIs DEF Advances
<1>5. RowsOK(d, hp2, st2, [session EXCEPT ![s] = Idle])
  <2> HIDE DEF id
  <2>1. Written(heap, hp2, id, d)
    BY DEF id
  <2>2. QED
    BY <1>2, <1>3, <1>4, <2>1, SessionMoves DEF RowsOK
<1>6. QED
  BY <1>5 DEF st2, id

\* A transaction that stays open.
LEMMA StayRows ==
  ASSUME RowInv, NEW s \in Sessions, session[s].tx # NoTx,
         NEW d, Moves(catalog, d), NEW hp2, Written(heap, hp2, session[s].tx, d),
         NEW mine, SessionOK(mine, hp2, d, status), mine.tx = session[s].tx
  PROVE  RowsOK(d, hp2, status, [session EXCEPT ![s] = mine])
<1> DEFINE id == session[s].tx
<1>1. StatusOK(status) /\ "active" \in Outcomes
  BY DEF RowInv, Outcomes
<1>2. Advances(status, status, id)
  BY <1>1, StatusAdvances
<1>3. /\ \A p \in Sessions : p # s => session[p].tx # id
      /\ id \in DOMAIN status => status[id] = "active"
  BY OwnerIs
<1>4. mine.tx \in {NoTx, id} /\ Written(heap, hp2, id, d)
  OBVIOUS
<1> HIDE DEF id
<1>5. QED
  BY <1>2, <1>3, <1>4, SessionMoves DEF RowsOK

\* COMMIT and ROLLBACK.
LEMMA CommitRows ==
  ASSUME RowInv, NEW s \in Sessions, Commit(s) \/ Rollback(s)
  PROVE  RowsOK(catalog', heap', status', session')
<1>1. PICK o \in {"committed", "aborted"} :
        /\ status' = [status EXCEPT ![session[s].tx] = o] /\ session' = [session EXCEPT ![s] = Idle]
        /\ heap' = heap /\ catalog' = catalog
  BY DEF Commit, Rollback
<1>2. session[s].tx # NoTx /\ o \in Outcomes
  BY DEF Commit, Rollback, RowInv, SessionsOK, SessionOK, Outcomes
<1>3. Moves(catalog, catalog) /\ Written(heap, heap, session[s].tx, catalog)
  BY NothingMoves DEF RowInv, CatInv, Written
<1>4. RowsOK(catalog, heap, [status EXCEPT ![session[s].tx] = o], [session EXCEPT ![s] = Idle])
  BY <1>2, <1>3, EndRows
<1>5. QED
  BY <1>1, <1>4, Zenon

\* A statement that ends.
LEMMA OverRows ==
  ASSUME RowInv, NEW s \in Sessions, Running(session[s]),
         NEW d, Moves(catalog, d), NEW hp2, Written(heap, hp2, session[s].tx, d),
         Fails(s, session[s]) \/ Succeeds(s, session[s])
  PROVE  RowsOK(d, hp2, status', session')
<1> DEFINE me == session[s]
           rest == AtRest(me)
           failed == [rest EXCEPT !.failed = TRUE]
<1>1. SessionOK(me, heap, catalog, status) /\ DOMAIN me = SessionFields
  BY DEF RowInv, SessionsOK, SessionOK
<1>2. me.writing /\ me.tx # NoTx
  BY <1>1 DEF SessionOK
<1>3. SessionOK(rest, hp2, d, status) /\ rest.tx = me.tx
  BY <1>1, <1>2, RestIs DEF SessionOK
<1>4. SessionOK(failed, hp2, d, status) /\ failed.tx = me.tx
  <2>1. DOMAIN rest = SessionFields /\ ~Running(rest) /\ rest.writing
    BY <1>1, <1>2, RestIs
  <2> HIDE DEF rest
  <2>2. /\ DOMAIN failed = SessionFields /\ failed.stmt = rest.stmt /\ failed.tx = rest.tx
        /\ failed.snap = rest.snap /\ failed.writing = rest.writing /\ failed.explicit = rest.explicit
    BY <2>1 DEF SessionFields
  <2> HIDE DEF failed
  <2>3. QED
    BY <1>3, <2>1, <2>2 DEF SessionOK, Running
<1>5. \/ \E o \in Outcomes : status' = [status EXCEPT ![me.tx] = o] /\ session' = [session EXCEPT ![s] = Idle]
      \/ status' = status /\ session' = [session EXCEPT ![s] = rest]
      \/ status' = status /\ session' = [session EXCEPT ![s] = failed]
  BY DEF Fails, Succeeds, Outcomes
<1> HIDE DEF rest, failed
<1>6. CASE \E o \in Outcomes : status' = [status EXCEPT ![me.tx] = o] /\ session' = [session EXCEPT ![s] = Idle]
  <2>1. PICK o \in Outcomes : status' = [status EXCEPT ![me.tx] = o] /\ session' = [session EXCEPT ![s] = Idle]
    BY <1>6
  <2>2. RowsOK(d, hp2, [status EXCEPT ![me.tx] = o], [session EXCEPT ![s] = Idle])
    BY <1>2, EndRows
  <2>3. QED
    BY <2>1, <2>2, Zenon
<1>7. CASE status' = status /\ session' = [session EXCEPT ![s] = rest]
  <2>1. RowsOK(d, hp2, status, [session EXCEPT ![s] = rest])
    BY <1>2, <1>3, StayRows
  <2>2. QED
    BY <1>7, <2>1, Zenon
<1>8. CASE status' = status /\ session' = [session EXCEPT ![s] = failed]
  <2>1. RowsOK(d, hp2, status, [session EXCEPT ![s] = failed])
    BY <1>2, <1>4, StayRows
  <2>2. QED
    BY <1>8, <2>1, Zenon
<1>9. QED
  BY <1>5, <1>6, <1>7, <1>8

\* The checks at the end of one.
LEMMA FinishRows ==
  ASSUME RowInv, NEW s \in Sessions, Finish(s)
  PROVE  RowsOK(catalog', heap', status', session')
<1>1. /\ Running(session[s]) /\ (Fails(s, session[s]) \/ Succeeds(s, session[s]))
      /\ heap' = heap /\ catalog' = catalog
  BY DEF Finish
<1>2. Moves(catalog, catalog) /\ Written(heap, heap, session[s].tx, catalog)
  BY NothingMoves DEF RowInv, CatInv, Written
<1>3. RowsOK(catalog, heap, status', session')
  BY <1>1, <1>2, OverRows
<1>4. QED
  BY <1>1, <1>3, Zenon

\* What calls there can be depends on the transaction, its snapshot and the statement.
LEMMA AgendaSame ==
  ASSUME NEW me, NEW mine, mine.h = me.h, mine.stmt = me.stmt, mine.tx = me.tx, mine.snap = me.snap,
         NEW hp, NEW c, NEW seen, NEW q, AgendaOK(me, hp, c, seen, q)
  PROVE  AgendaOK(mine, hp, c, seen, q)
BY DEF AgendaOK, CallOK

\* The world that the first call of a session changes.
Ahead(me) == [World(me) EXCEPT !.agenda = Tail(me.agenda)]

\* It is ready for it.
LEMMA AheadIs ==
  ASSUME RowInv, NEW s \in Sessions, Running(session[s]), session[s].agenda # <<>>
  PROVE  /\ Calling(Ahead(session[s]), session[s], Head(session[s].agenda))
         /\ Ahead(session[s]).heap = heap /\ Ahead(session[s]).catalog = catalog
         /\ Ahead(session[s]).wrote = session[s].wrote /\ Ahead(session[s]).seen = session[s].seen
<1> DEFINE me == session[s]
           w == Ahead(me)
           c == Head(me.agenda)
<1>1. /\ DOMAIN w = WorldFields /\ w.heap = heap /\ w.catalog = catalog /\ w.seen = me.seen /\ w.wrote = me.wrote
      /\ w.agenda = Tail(me.agenda) /\ w.ok = TRUE
  BY DEF Ahead, World, WorldFields
<1>2. SessionOK(me, heap, catalog, status)
  BY DEF RowInv, SessionsOK
<1>3. me.tx # NoTx /\ AgendaOK(me, heap, catalog, me.seen, me.agenda)
  BY <1>2 DEF SessionOK
<1>4. me.tx \in DOMAIN status /\ status[me.tx] = "active"
  BY <1>3, OwnerIs
<1>5. WorldOK(w)
  BY <1>1 DEF WorldOK, RowInv, CatInv
<1> HIDE DEF w
<1>6. /\ IsSeq(w.agenda) /\ OwnLast(w.agenda) /\ ToSet(w.agenda) \subseteq ToSet(me.agenda)
      /\ c \in ToSet(me.agenda) /\ (Own(c) => AllOwn(w.agenda))
  <2>1. IsSeq(me.agenda) /\ OwnLast(me.agenda)
    BY <1>3 DEF AgendaOK
  <2> HIDE DEF me
  <2>2. me.agenda # <<>>
    BY DEF me
  <2> DEFINE q == me.agenda
  <2> HIDE DEF q
  <2>3. /\ IsSeq(Tail(q)) /\ ToSet(Tail(q)) \subseteq ToSet(q) /\ Head(q) \in ToSet(q)
        /\ OwnLast(Tail(q)) /\ (Own(Head(q)) => AllOwn(Tail(q)))
    <3>1. IsSeq(q) /\ OwnLast(q) /\ q # <<>>
      BY <2>1, <2>2 DEF q
    <3>2. QED
      BY <3>1, TailIs
  <2>4. QED
    BY <2>3, <1>1 DEF q
<1>7. \A call \in ToSet(me.agenda) : CallOK(me, w.heap, w.catalog, w.seen, call)
  BY <1>1, <1>3 DEF AgendaOK
<1>8. AgendaOK(me, w.heap, w.catalog, w.seen, w.agenda) /\ CallOK(me, w.heap, w.catalog, w.seen, c)
  BY <1>6, <1>7 DEF AgendaOK
<1>9. Calling(w, me, c)
  BY <1>4, <1>5, <1>6, <1>8 DEF Calling, RowInv
<1>10. QED
  BY <1>1, <1>9 DEF w

\* One call of a statement.
LEMMA StepRows ==
  ASSUME RowInv, NEW s \in Sessions, Step(s)
  PROVE  RowsOK(catalog', heap', status', session')
<1> DEFINE me == session[s]
           w == Ahead(me)
           c == Head(me.agenda)
           x == execCall(w, me, me.stmt, c)
           mine == [me EXCEPT !.agenda = x.agenda, !.seen = x.seen, !.wrote = x.wrote]
<1>1. /\ Running(me) /\ me.agenda # <<>> /\ heap' = x.heap /\ catalog' = x.catalog
      /\ IF x.ok THEN session' = [session EXCEPT ![s] = mine] /\ status' = status ELSE Fails(s, me)
  <2>1. [World(me) EXCEPT !.agenda = Tail(@)] = w
    BY DEF Ahead, World
  <2>2. QED
    BY <2>1 DEF Step
<1>2. Calling(w, me, c) /\ w.heap = heap /\ w.catalog = catalog
  BY <1>1, AheadIs
<1> HIDE DEF w, c
<1>3. Effect(w, x, me, c.h) /\ Moves(w.catalog, x.catalog)
  BY <1>2, CallEffect
<1>4. SessionOK(me, heap, catalog, status) /\ DOMAIN me = SessionFields /\ me.tx # NoTx /\ me.writing
  BY <1>1 DEF RowInv, SessionsOK, SessionOK
<1>5. me.tx \in DOMAIN status /\ status[me.tx] = "active"
  BY <1>4, OwnerIs
<1> HIDE DEF x
<1>6. Written(heap, x.heap, me.tx, x.catalog)
  BY <1>2, <1>3, <1>5 DEF Effect, Heaps, Written
<1>7. Moves(catalog, x.catalog)
  BY <1>2, <1>3
<1>8. CASE x.ok
  <2>1. /\ DOMAIN mine = SessionFields /\ mine.agenda = x.agenda /\ mine.seen = x.seen
        /\ mine.h = me.h /\ mine.stmt = me.stmt /\ mine.tx = me.tx /\ mine.snap = me.snap
        /\ mine.explicit = me.explicit /\ mine.writing = me.writing
    <3> HIDE DEF me
    <3>1. QED
      BY <1>4 DEF SessionFields
  <2>2. AgendaOK(me, x.heap, x.catalog, x.seen, x.agenda)
    BY <1>3, <1>8 DEF Effect
  <2>3. session' = [session EXCEPT ![s] = mine] /\ status' = status
    BY <1>1, <1>8
  <2> HIDE DEF mine
  <2>4. AgendaOK(mine, x.heap, x.catalog, mine.seen, mine.agenda)
    <3> DEFINE hp == x.heap
               d == x.catalog
               seen == x.seen
               q == x.agenda
    <3>1. AgendaOK(me, hp, d, seen, q)
      BY <2>2
    <3> HIDE DEF hp, d, seen, q, me
    <3>2. AgendaOK(mine, hp, d, seen, q)
      BY <2>1, <3>1, AgendaSame
    <3>3. QED
      BY <2>1, <3>2 DEF hp, d, seen, q
  <2>5. SessionOK(mine, x.heap, x.catalog, status)
    BY <1>4, <2>1, <2>4 DEF SessionOK
  <2>6. RowsOK(x.catalog, x.heap, status, [session EXCEPT ![s] = mine])
    <3> DEFINE hp == x.heap
               d == x.catalog
    <3>1. Moves(catalog, d) /\ Written(heap, hp, me.tx, d) /\ SessionOK(mine, hp, d, status)
      BY <1>6, <1>7, <2>5
    <3> HIDE DEF hp, d
    <3>2. RowsOK(d, hp, status, [session EXCEPT ![s] = mine])
      BY <1>4, <2>1, <3>1, StayRows
    <3>3. QED
      BY <3>2 DEF hp, d
  <2>7. QED
    BY <1>1, <2>3, <2>6, Zenon
<1>9. CASE ~x.ok
  <2> DEFINE hp == x.heap
             d == x.catalog
  <2>1. Moves(catalog, d) /\ Written(heap, hp, me.tx, d) /\ Fails(s, me)
    BY <1>1, <1>6, <1>7, <1>9
  <2> HIDE DEF hp, d
  <2>2. RowsOK(d, hp, status', session')
    BY <1>1, <2>1, OverRows
  <2>3. heap' = hp /\ catalog' = d
    BY <1>1 DEF hp, d
  <2>4. QED
    BY <2>2, <2>3, Zenon
<1>10. QED
  BY <1>8, <1>9

\* The calls that a statement starts with.
Calls(s, h, tx, snap) ==
  IF s.op = "insert" THEN [i \in DOMAIN s.rows |-> StoreCall(h, s.rows[i])]
  ELSE LET vs == ScanOf(heap[h], tx, snap) IN [i \in DOMAIN vs |-> RowCall(h, vs[i])]

\* They are calls of its own, for a table that is there.
LEMMA CallsOK ==
  ASSUME RowInv, NEW s, WellFormed(s), ~IsDDL(s), Bind(catalog, s), NEW me, me.stmt = s,
         me.h = Lookup(catalog, s.table), NEW tx, NEW snap, NEW seen
  PROVE  AgendaOK(me, heap, catalog, seen, Calls(s, me.h, tx, snap))
<1> DEFINE h == me.h
           q == Calls(s, h, tx, snap)
<1>1. s.op \in {"insert", "update", "delete"} /\ s.table \in TableNames /\ (s.op = "insert" => IsList(s.rows))
  BY DEF WellFormed, IsDDL, SchemaChanges
<1>2. Lookup(catalog, s.table) # NoTable
  BY Zenon DEF Bind
<1>3. h \in Present(catalog) /\ h \in DOMAIN catalog.tables
  BY <1>1, <1>2, LookupIs DEF RowInv, CatInv
<1> HIDE DEF h
<1>4. IsSeq(heap[h])
  BY <1>3 DEF RowInv, HeapOK, VersionsOK
<1>5. IsSeq(q) /\ \A i \in DOMAIN q : \/ s.op = "insert" /\ \E row : q[i] = StoreCall(h, row)
                                      \/ s.op # "insert" /\ \E v : q[i] = RowCall(h, v)
  <2>1. CASE s.op = "insert"
    <3> DEFINE n == Len(s.rows)
    <3>1. q = [i \in DOMAIN s.rows |-> StoreCall(h, s.rows[i])]
      BY <2>1, Zenon DEF Calls
    <3>2. n \in Nat /\ DOMAIN s.rows = 1..n
      BY <1>1, <2>1 DEF IsList
    <3> HIDE DEF n, q
    <3>3. q = [i \in 1..n |-> q[i]] /\ \A i \in 1..n : q[i] = StoreCall(h, s.rows[i])
      BY <3>1, <3>2
    <3>4. IsSeq(q) /\ DOMAIN q = 1..n
      BY <3>2, <3>3, FunctionsAreSeqs
    <3>5. QED
      BY <2>1, <3>3, <3>4
  <2>2. CASE s.op # "insert"
    <3> DEFINE vs == ScanOf(heap[h], tx, snap)
               n == Len(vs)
    <3>1. q = [i \in DOMAIN vs |-> RowCall(h, vs[i])]
      BY <2>2, Zenon DEF Calls
    <3>2. IsSeq(vs)
      BY <1>4, InOrderIs DEF ScanOf
    <3> HIDE DEF vs
    <3>3. n \in Nat /\ DOMAIN vs = 1..n
      BY <3>2, SeqIs
    <3> HIDE DEF n, q
    <3>4. q = [i \in 1..n |-> q[i]] /\ \A i \in 1..n : q[i] = RowCall(h, vs[i])
      BY <3>1, <3>3
    <3>5. IsSeq(q) /\ DOMAIN q = 1..n
      BY <3>3, <3>4, FunctionsAreSeqs
    <3>6. QED
      BY <2>2, <3>4, <3>5
  <2>3. QED
    BY <2>1, <2>2
<1> HIDE DEF q
<1>6. ASSUME NEW row, s.op = "insert"
      PROVE  CallOK(me, heap, catalog, seen, StoreCall(h, row)) /\ Own(StoreCall(h, row))
  <2>1. StoreCall(h, row).call = "store" /\ StoreCall(h, row).h = h
    BY DEF StoreCall
  <2>2. QED
    BY <1>3, <1>6, <2>1 DEF CallOK, Own, h
<1>7. ASSUME NEW v
      PROVE  CallOK(me, heap, catalog, seen, RowCall(h, v)) /\ Own(RowCall(h, v))
  <2>1. RowCall(h, v).call = "row" /\ RowCall(h, v).h = h /\ RowCall(h, v).next = <<>>
    BY DEF RowCall
  <2>2. QED
    BY <1>3, <2>1 DEF CallOK, Own, h
<1>8. \A call \in ToSet(q) : CallOK(me, heap, catalog, seen, call) /\ Own(call)
  BY <1>5, <1>6, <1>7, SeqIs
<1>9. AgendaOK(me, heap, catalog, seen, q)
  BY <1>5, <1>8, OwnLastPlain DEF AgendaOK, AllOwn
<1>10. QED
  BY <1>9 DEF q, h

\* A session that is about to run a statement.
LEMMA EnteredIs ==
  ASSUME RowInv, NEW s \in Sessions
  PROVE  /\ DOMAIN Entered(s) = SessionFields /\ Entered(s).writing = TRUE
         /\ Entered(s).snap \subseteq Taken
         /\ session[s].explicit => /\ Entered(s).explicit = session[s].explicit
                                   /\ Entered(s).tx = session[s].tx /\ session[s].tx # NoTx
                                   /\ Entered(s).stmt = session[s].stmt
         /\ ~session[s].explicit => Entered(s).explicit = FALSE /\ Entered(s).tx = Len(status) + 1
<1> DEFINE me == session[s]
<1>1. SessionOK(me, heap, catalog, status)
  BY DEF RowInv, SessionsOK
<1>2. DOMAIN me = SessionFields /\ me.snap \subseteq Taken /\ (me.explicit => me.tx # NoTx)
  BY <1>1 DEF SessionOK, Taken
<1> HIDE DEF me
<1>3. CASE me.explicit
  <2> DEFINE mine == [me EXCEPT !.snap = IF me.level = "RC" THEN Taken ELSE @, !.writing = TRUE]
  <2>1. Entered(s) = mine
    BY <1>3 DEF Entered, me
  <2>2. /\ DOMAIN mine = SessionFields /\ mine.writing = TRUE /\ mine.explicit = me.explicit
        /\ mine.tx = me.tx /\ mine.stmt = me.stmt /\ mine.snap = IF me.level = "RC" THEN Taken ELSE me.snap
    BY <1>2 DEF SessionFields
  <2> HIDE DEF mine
  <2>3. QED
    BY <1>2, <1>3, <2>1, <2>2 DEF me
<1>4. CASE ~me.explicit
  <2>1. Entered(s) = [Idle EXCEPT !.tx = Len(status) + 1, !.snap = Taken, !.writing = TRUE]
    BY <1>4 DEF Entered, me
  <2>2. QED
    BY <1>4, <2>1 DEF Idle, SessionFields, me
<1>5. QED
  BY <1>3, <1>4

\* A transaction that is begun.
LEMMA BegunRows ==
  ASSUME RowInv, NEW s \in Sessions, NEW mine,
         DOMAIN mine = SessionFields, mine.tx = Len(status) + 1, mine.snap \subseteq Taken,
         mine.writing = TRUE \/ mine.stmt = NoStatement,
         Running(mine) => AgendaOK(mine, heap, catalog, mine.seen, mine.agenda)
  PROVE  RowsOK(catalog, heap, Append(status, "active"), [session EXCEPT ![s] = mine])
<1> DEFINE id == Len(status) + 1
           st2 == Append(status, "active")
<1>1. StatusOK(status) /\ Len(status) \in Nat /\ DOMAIN status = 1..Len(status)
  BY SeqIs DEF RowInv, StatusOK
<1>2. Advances(status, st2, id) /\ Len(st2) = id /\ st2[id] = "active"
  <2>1. "active" \in Outcomes
    BY DEF Outcomes
  <2>2. QED
    BY <1>1, <2>1, StatusAdvances
<1>3. id \in 0..id /\ id # NoTx /\ id \notin DOMAIN status /\ Blank(heap, id) /\ \A o \in Sessions : session[o].tx # id
  BY <1>1, FreshIs
<1>4. mine.tx = id
  OBVIOUS
<1> HIDE DEF st2, id
<1>5. \A i \in Taken : i \in DOMAIN st2 /\ st2[i] = "committed"
  <2>1. DOMAIN st2 = 1..Len(st2) /\ Len(st2) \in Nat
    BY <1>2, SeqIs DEF Advances, StatusOK
  <2>2. \A i \in DOMAIN status : i \in DOMAIN st2 /\ st2[i] = status[i]
    BY <1>1, <1>2, <1>3, <2>1 DEF Advances
  <2>3. QED
    BY <2>2 DEF Taken
<1>6. SessionOK(mine, heap, catalog, st2)
  BY <1>2, <1>3, <1>4, <1>5 DEF SessionOK, Running
<1>7. Moves(catalog, catalog)
  BY NothingMoves DEF RowInv, CatInv
<1>8. Written(heap, heap, id, catalog)
  BY DEF Written
<1>9. QED
  BY <1>2, <1>3, <1>4, <1>6, <1>7, <1>8, SessionMoves DEF RowsOK, st2

\* A statement that begins.
LEMMA StartRows ==
  ASSUME RowInv, NEW s \in Sessions, NEW stmt \in scenario.statements, Start(s, stmt)
  PROVE  RowsOK(catalog', heap', status', session')
<1> DEFINE me == Entered(s)
           h == Lookup(catalog, stmt.table)
           q == Calls(stmt, h, me.tx, me.snap)
           before == [g \in DOMAIN heap |-> ScanOf(heap[g], me.tx, me.snap)]
           mine == [me EXCEPT !.stmt = stmt, !.h = h, !.agenda = q, !.before = before]
<1>1. /\ ~IsDDL(stmt) /\ MayStart(s) /\ Bind(catalog, stmt)
      /\ status' = (IF me.explicit THEN status ELSE Append(status, "active"))
      /\ session' = [session EXCEPT ![s] = mine] /\ heap' = heap /\ catalog' = catalog
  BY DEF Start, Calls, Once
<1>2. WellFormed(stmt)
  BY ScenariosAssumption, Zenon DEF RowInv, CatInv
<1>3. /\ DOMAIN me = SessionFields /\ me.writing = TRUE /\ me.snap \subseteq Taken
      /\ session[s].explicit => me.explicit = session[s].explicit /\ me.tx = session[s].tx /\ session[s].tx # NoTx
      /\ ~session[s].explicit => me.explicit = FALSE /\ me.tx = Len(status) + 1
  BY EnteredIs
<1> HIDE DEF me, before
<1>4. /\ DOMAIN mine = SessionFields /\ mine.writing = TRUE /\ mine.snap = me.snap /\ mine.tx = me.tx
      /\ mine.explicit = me.explicit /\ mine.stmt = stmt /\ mine.h = h /\ mine.agenda = q
  BY <1>3 DEF SessionFields
<1> HIDE DEF mine
<1>5. AgendaOK(mine, heap, catalog, mine.seen, mine.agenda)
  <2>1. AgendaOK(mine, heap, catalog, mine.seen, Calls(stmt, mine.h, me.tx, me.snap))
    BY <1>1, <1>2, <1>4, CallsOK
  <2>2. QED
    BY <1>4, <2>1
<1>6. CASE session[s].explicit
  <2>1. status' = status /\ mine.tx = session[s].tx /\ mine.tx # NoTx
    BY <1>1, <1>3, <1>4, <1>6
  <2>2. SessionOK(mine, heap, catalog, status)
    <3>1. session[s].tx \in 0..Len(status) /\ status[session[s].tx] = "active"
      BY <2>1 DEF RowInv, SessionsOK, SessionOK
    <3>2. QED
      BY <1>3, <1>4, <1>5, <2>1, <3>1 DEF SessionOK, Taken
  <2>3. Moves(catalog, catalog) /\ Written(heap, heap, session[s].tx, catalog)
    BY NothingMoves DEF RowInv, CatInv, Written
  <2>4. RowsOK(catalog, heap, status, [session EXCEPT ![s] = mine])
    BY <2>1, <2>2, <2>3, StayRows
  <2>5. QED
    BY <1>1, <2>1, <2>4, Zenon
<1>7. CASE ~session[s].explicit
  <2>1. status' = Append(status, "active") /\ mine.tx = Len(status) + 1
    BY <1>1, <1>3, <1>4, <1>7
  <2>2. RowsOK(catalog, heap, Append(status, "active"), [session EXCEPT ![s] = mine])
    BY <1>3, <1>4, <1>5, <2>1, BegunRows
  <2>3. QED
    BY <1>1, <2>1, <2>2, Zenon
<1>8. QED
  BY <1>6, <1>7

\* The heap after a schema change: new tables are empty.
Grown(hp, d) == [h \in DOMAIN d.tables |-> IF h \in DOMAIN hp THEN hp[h] ELSE <<>>]

\* It is one of the new tables.
LEMMA GrownIs ==
  ASSUME NEW hp, NEW c, NEW d, NEW n \in Nat, NEW m \in Nat, HeapOK(hp, c, n), n <= m,
         CatalogShape(c), CatalogShape(d),
         \A h \in DOMAIN c.tables : h \in DOMAIN d.tables /\ Width(c, h) <= Width(d, h)
  PROVE  /\ HeapOK(Grown(hp, d), d, m)
         /\ \A id : Blank(hp, id) => Blank(Grown(hp, d), id)
<1>1. ASSUME NEW h \in DOMAIN hp, NEW i \in DOMAIN hp[h]
      PROVE  VersionOK(hp[h][i], m, Width(d, h))
  <2>1. h \in DOMAIN c.tables /\ VersionOK(hp[h][i], n, Width(c, h))
    BY DEF HeapOK, VersionsOK
  <2>2. Width(c, h) \in Nat /\ Width(d, h) \in Nat /\ Width(c, h) <= Width(d, h)
    BY <2>1, SeqIs DEF Width, CatalogShape, TableShape
  <2>3. QED
    BY <2>1, <2>2 DEF VersionOK
<1>2. IsSeq(<<>>) /\ DOMAIN <<>> = {}
  BY DEF IsSeq
<1>3. ASSUME NEW h \in DOMAIN d.tables
      PROVE  Grown(hp, d)[h] = IF h \in DOMAIN hp THEN hp[h] ELSE <<>>
  BY DEF Grown
<1>4. DOMAIN Grown(hp, d) = DOMAIN d.tables
  BY DEF Grown
<1>5. ASSUME NEW h \in DOMAIN d.tables
      PROVE  VersionsOK(Grown(hp, d)[h], m, Width(d, h))
  <2>1. CASE h \in DOMAIN hp
    BY <1>1, <1>3, <2>1 DEF HeapOK, VersionsOK
  <2>2. CASE h \notin DOMAIN hp
    BY <1>2, <1>3, <2>2 DEF VersionsOK
  <2>3. QED
    BY <2>1, <2>2
<1>6. HeapOK(Grown(hp, d), d, m)
  BY <1>4, <1>5 DEF HeapOK
<1>7. ASSUME NEW id, Blank(hp, id)
      PROVE  Blank(Grown(hp, d), id)
  BY <1>2, <1>3, <1>4, <1>7 DEF Blank
<1>8. QED
  BY <1>6, <1>7

\* A step of one session while none runs a statement: what there is stays.
LEMMA SettledRows ==
  ASSUME RowInv, NEW s \in Sessions, \A o \in Sessions : ~Running(session[o]),
         NEW d, AllKeyed(d), NEW st2, Advances(status, st2, Len(status) + 1),
         NEW hp2, HeapOK(hp2, d, Len(st2)), \A id : Blank(heap, id) => Blank(hp2, id),
         NEW mine, mine.tx \in {NoTx, session[s].tx}, SessionOK(mine, hp2, d, st2)
  PROVE  RowsOK(d, hp2, st2, [session EXCEPT ![s] = mine])
<1>1. Len(status) \in Nat /\ DOMAIN status = 1..Len(status) /\ SessionsOK(session, heap, catalog, status)
  BY SeqIs DEF RowInv, StatusOK
<1>2. StatusOK(st2) /\ Len(st2) \in Nat /\ DOMAIN st2 = 1..Len(st2) /\ Len(status) <= Len(st2)
  BY SeqIs DEF Advances, StatusOK
<1>3. \A i \in DOMAIN status : i \in DOMAIN st2 /\ st2[i] = status[i]
  BY <1>1, <1>2 DEF Advances
<1>4. ASSUME NEW o \in Sessions
      PROVE  SessionOK(session[o], hp2, d, st2)
  <2> DEFINE me == session[o]
  <2>1. SessionOK(me, heap, catalog, status) /\ ~Running(me)
    BY <1>1 DEF SessionsOK
  <2> HIDE DEF me
  <2>2. me.tx \in 0..Len(st2) /\ (me.tx # NoTx => st2[me.tx] = "active")
    BY <1>1, <1>2, <1>3, <2>1 DEF SessionOK, NoTx
  <2>3. \A i \in me.snap : i \in DOMAIN st2 /\ st2[i] = "committed"
    BY <1>3, <2>1 DEF SessionOK
  <2>4. SessionOK(me, hp2, d, st2)
    BY <2>1, <2>2, <2>3 DEF SessionOK
  <2>5. QED
    BY <2>4 DEF me
<1> DEFINE ses == [session EXCEPT ![s] = mine]
<1>5. DOMAIN ses = Sessions /\ \A o \in Sessions : ses[o] = IF o = s THEN mine ELSE session[o]
  BY <1>1 DEF SessionsOK
<1> HIDE DEF ses
<1>6. \A p, o \in Sessions : p # o => session[p].tx = NoTx \/ session[p].tx # session[o].tx
  BY <1>1 DEF SessionsOK
<1>7. \A p, o \in Sessions : p # o => ses[p].tx = NoTx \/ ses[p].tx # ses[o].tx
  BY <1>5, <1>6
<1>8. SessionsOK(ses, hp2, d, st2)
  BY <1>4, <1>5, <1>7 DEF SessionsOK
<1>9. QED
  BY <1>2, <1>8 DEF RowsOK, ses

\* A schema statement.
LEMMA DDLRows ==
  ASSUME RowInv, NEW s \in Sessions, NEW stmt \in scenario.statements, execDDL(s, stmt)
  PROVE  RowsOK(catalog', heap', status', session')
<1> DEFINE me == Entered(s)
<1>1. /\ IsDDL(stmt) /\ BindsDDL(stmt) /\ \A o \in Sessions : ~Running(session[o])
      /\ \/ /\ catalog' = catalog /\ heap' = heap
            /\ session' = [session EXCEPT ![s] = IF me.explicit THEN [me EXCEPT !.failed = TRUE] ELSE Idle]
            /\ status' = IF me.explicit THEN status ELSE Append(status, "aborted")
         \/ /\ catalog' \in DDL(me, stmt) /\ heap' = Grown(heap, catalog')
            /\ session' = [session EXCEPT ![s] = IF me.explicit THEN me ELSE Idle]
            /\ status' = IF me.explicit THEN status ELSE Append(status, "committed")
  BY DEF execDDL, Grown, Once
<1>2. WellFormed(stmt) /\ CatInv
  BY ScenariosAssumption, Zenon DEF RowInv, CatInv
<1>3. /\ DOMAIN me = SessionFields /\ me.writing = TRUE /\ me.snap \subseteq Taken
      /\ session[s].explicit => /\ me.explicit = session[s].explicit /\ me.tx = session[s].tx /\ session[s].tx # NoTx
                                /\ me.stmt = session[s].stmt
      /\ ~session[s].explicit => me.explicit = FALSE /\ me.tx = Len(status) + 1
  BY EnteredIs
<1> DEFINE d == catalog'
           hp2 == heap'
           st2 == status'
<1>4. StatusOK(status) /\ Len(status) \in Nat /\ DOMAIN status = 1..Len(status)
  BY SeqIs DEF RowInv, StatusOK
<1>5. Advances(status, st2, Len(status) + 1) /\ (session[s].explicit => st2 = status)
  <2>1. "aborted" \in Outcomes /\ "committed" \in Outcomes
    BY DEF Outcomes
  <2>2. st2 \in {status, Append(status, "aborted"), Append(status, "committed")}
    BY <1>1
  <2> HIDE DEF st2
  <2>3. Advances(status, st2, Len(status) + 1)
    BY <1>4, <2>1, <2>2, StatusAdvances
  <2>4. session[s].explicit => st2 = status
    BY <1>1, <1>3 DEF st2
  <2>5. QED
    BY <2>3, <2>4
<1>6. Len(st2) \in Nat /\ Len(status) <= Len(st2) /\ StatusOK(st2)
  BY <1>5, SeqIs DEF Advances, StatusOK
<1>7. CatalogShape(d)
  BY <1>2, ExecDDLRetains
<1>8. AllKeyed(d) /\ \A h \in DOMAIN catalog.tables : h \in DOMAIN d.tables /\ Width(catalog, h) <= Width(d, h)
  <2>1. CatalogShape(catalog) /\ AllKeyed(catalog)
    BY DEF RowInv, CatInv
  <2>2. Evolves(catalog, d) \/ \E h, ix : Indexed(catalog, d, h, ix)
    BY <1>1, <1>2, <2>1, DDLEvolves, NothingMoves DEF RowInv, Moves, CatInv
  <2> HIDE DEF d
  <2>3. CASE Evolves(catalog, d)
    BY <1>7, <2>1, <2>3, EvolvesWidth DEF Evolves
  <2>4. CASE \E h, ix : Indexed(catalog, d, h, ix)
    <3>1. AllKeyed(d) /\ \A h \in DOMAIN catalog.tables : h \in DOMAIN d.tables /\ d.tables[h].columns = catalog.tables[h].columns
      BY <2>1, <2>4, IndexedIs
    <3>2. \A h \in DOMAIN catalog.tables : Width(catalog, h) \in Nat
      BY <2>1, SeqIs DEF Width, CatalogShape, TableShape
    <3>3. QED
      BY <3>1, <3>2 DEF Width
  <2>5. QED
    BY <2>2, <2>3, <2>4
<1>9. HeapOK(hp2, d, Len(st2)) /\ \A id : Blank(heap, id) => Blank(hp2, id)
  <2>1. CatalogShape(catalog) /\ HeapOK(heap, catalog, Len(status))
    BY DEF RowInv, CatInv
  <2>2. HeapOK(Grown(heap, d), d, Len(st2)) /\ \A id : Blank(heap, id) => Blank(Grown(heap, d), id)
    <3> HIDE DEF d, st2
    <3>1. QED
      BY <1>4, <1>6, <1>7, <1>8, <2>1, GrownIs
  <2>3. CASE hp2 = heap /\ d = catalog
    <3>1. \A h \in DOMAIN catalog.tables : Width(catalog, h) <= Width(catalog, h)
      BY <1>8, <2>3
    <3> HIDE DEF st2
    <3>2. HeapOK(heap, catalog, Len(st2))
      BY <1>4, <1>6, <2>1, <3>1, HeapWidens
    <3>3. QED
      BY <2>3, <3>2
  <2>4. QED
    BY <1>1, <2>2, <2>3, Zenon
<1> DEFINE failed == [me EXCEPT !.failed = TRUE]
<1>10. session' = [session EXCEPT ![s] = IF session[s].explicit THEN me ELSE Idle]
       \/ session' = [session EXCEPT ![s] = IF session[s].explicit THEN failed ELSE Idle]
  BY <1>1, <1>3
<1>11. /\ DOMAIN failed = SessionFields /\ failed.writing = TRUE /\ failed.snap = me.snap /\ failed.tx = me.tx
       /\ failed.explicit = me.explicit /\ failed.stmt = me.stmt
  <2> HIDE DEF me
  <2>1. QED
    BY <1>3 DEF SessionFields
<1> HIDE DEF failed, me
<1>12. ASSUME NEW mine, mine \in {me, failed}, session[s].explicit
       PROVE  SessionOK(mine, hp2, d, st2) /\ mine.tx = session[s].tx
  <2>1. SessionOK(session[s], heap, catalog, status) /\ ~Running(session[s]) /\ st2 = status
    BY <1>1, <1>5, <1>12 DEF RowInv, SessionsOK
  <2>2. /\ DOMAIN mine = SessionFields /\ mine.writing = TRUE /\ mine.snap \subseteq Taken /\ mine.tx = session[s].tx
        /\ mine.tx # NoTx /\ mine.stmt = session[s].stmt
    BY <1>3, <1>11, <1>12
  <2> HIDE DEF st2, d, hp2
  <2>3. QED
    BY <2>1, <2>2 DEF SessionOK, Taken, Running
<1>13. SessionOK(Idle, hp2, d, st2) /\ Idle.tx = NoTx
  BY <1>6, IdleIs
<1>14. PICK mine : /\ session' = [session EXCEPT ![s] = mine]
                   /\ mine.tx \in {NoTx, session[s].tx} /\ SessionOK(mine, hp2, d, st2)
  <2>1. CASE session[s].explicit
    <3>1. session' = [session EXCEPT ![s] = me] \/ session' = [session EXCEPT ![s] = failed]
      BY <1>10, <2>1
    <3>2. QED
      BY <1>12, <2>1, <3>1
  <2>2. CASE ~session[s].explicit
    <3>1. session' = [session EXCEPT ![s] = Idle]
      BY <1>10, <2>2
    <3>2. QED
      BY <1>13, <3>1
  <2>3. QED
    BY <2>1, <2>2
<1>15. RowsOK(d, hp2, st2, [session EXCEPT ![s] = mine])
  <2>1. /\ AllKeyed(d) /\ Advances(status, st2, Len(status) + 1) /\ HeapOK(hp2, d, Len(st2))
        /\ SessionOK(mine, hp2, d, st2) /\ mine.tx \in {NoTx, session[s].tx}
    BY <1>5, <1>8, <1>9, <1>14
  <2>2. (\A id : Blank(heap, id) => Blank(hp2, id)) /\ \A o \in Sessions : ~Running(session[o])
    BY <1>1, <1>9
  <2> HIDE DEF d, hp2, st2
  <2>3. QED
    BY <2>1, <2>2, SettledRows
<1>16. QED
  BY <1>14, <1>15, Zenon

\* Versions that are the first transaction's.
LEMMA BootVersions ==
  ASSUME NEW q, IsSeq(q), NEW width, NEW r, DOMAIN r = DOMAIN q, r = [i \in DOMAIN q |-> r[i]],
         \A i \in DOMAIN q : r[i] = Version(r[i].vals, Boot) /\ Len(r[i].vals) \in 0..width
  PROVE  VersionsOK(r, 1, width)
<1>1. DOMAIN q = 1..Len(q) /\ Len(q) \in Nat
  BY SeqIs
<1>2. IsSeq(r)
  BY <1>1, FunctionsAreSeqs
<1>3. \A i \in DOMAIN r : VersionOK(r[i], 1, width)
  <2>1. \A vals : /\ Version(vals, Boot) = [vals |-> vals, xmin |-> 1, xmax |-> 0]
                  /\ Version(vals, Boot).xmin = 1 /\ Version(vals, Boot).xmax = 0
    BY DEF Version, Boot, NoTx
  <2>2. QED
    BY <2>1 DEF VersionOK
<1>4. QED
  BY <1>2, <1>3 DEF VersionsOK

\* A database that is opened: nobody is there.
LEMMA OpenedRows ==
  ASSUME NEW c, CatalogShape(c), AllKeyed(c), NEW rows,
         NEW d, d = [c EXCEPT !.tables = [h \in DOMAIN c.tables |-> RestoreSequences(c.tables[h], rows[h])]],
         NEW hp, DOMAIN hp = DOMAIN c.tables, \A h \in DOMAIN hp : VersionsOK(hp[h], 1, Width(c, h))
  PROVE  RowsOK(d, hp, <<"committed">>, [s \in Sessions |-> Idle])
<1> DEFINE st == <<"committed">>
           ses == [s \in Sessions |-> Idle]
<1>1. Evolves(c, d) /\ DOMAIN d.tables = DOMAIN c.tables /\ CatalogShape(d)
  BY RestoredEvolves, RestoredPreserves DEF Preserves
<1>2. StatusOK(st) /\ Len(st) = 1
  <2>1. st = [i \in 1..1 |-> st[i]] /\ st[1] = "committed"
    OBVIOUS
  <2>2. IsSeq(st) /\ Len(st) = 1 /\ DOMAIN st = 1..1
    BY <2>1, FunctionsAreSeqs
  <2>3. QED
    BY <2>1, <2>2 DEF StatusOK, Boot, Outcomes
<1> HIDE DEF st
<1>3. HeapOK(hp, d, Len(st))
  <2>1. HeapOK(hp, c, 1)
    BY DEF HeapOK
  <2>2. \A h \in DOMAIN c.tables : Width(c, h) <= Width(d, h)
    BY <1>1, EvolvesWidth
  <2>3. HeapOK(hp, d, 1)
    <3>1. 1 \in Nat /\ 1 <= 1
      OBVIOUS
    <3>2. QED
      BY <1>1, <2>1, <2>2, <3>1, HeapWidens
  <2>4. QED
    BY <1>2, <2>3
<1>4. SessionOK(Idle, hp, d, st) /\ Idle.tx = NoTx
  BY <1>2, IdleIs
<1>5. DOMAIN ses = Sessions /\ \A s \in Sessions : ses[s] = Idle
  OBVIOUS
<1> HIDE DEF ses
<1>6. SessionsOK(ses, hp, d, st)
  BY <1>4, <1>5 DEF SessionsOK
<1>7. QED
  BY <1>1, <1>2, <1>3, <1>6 DEF RowsOK, Evolves, st, ses

\* A restart.
LEMMA RestartRows ==
  ASSUME RowInv, Restart
  PROVE  RowsOK(catalog', heap', status', session')
<1> DEFINE kept(h) == Only(heap[h], {v \in ToSet(heap[h]) : Visible(v, NoTx, Taken)})
           rows(h) == [i \in DOMAIN kept(h) |-> Values(catalog.tables[h], kept(h)[i].vals)]
           all == [h \in DOMAIN catalog.tables |-> rows(h)]
           hp == [h \in DOMAIN heap |-> [i \in DOMAIN kept(h) |-> Version(kept(h)[i].vals, Boot)]]
           d == [catalog EXCEPT !.tables =
                    [h \in DOMAIN catalog.tables |-> RestoreSequences(catalog.tables[h], all[h])]]
<1>1. catalog' = [catalog EXCEPT !.tables =
                    [h \in DOMAIN catalog.tables |-> RestoreSequences(catalog.tables[h], rows(h))]]
  BY Zenon DEF Restart
<1>2. heap' = hp /\ status' = <<"committed">> /\ session' = [s \in Sessions |-> Idle]
  BY Zenon DEF Restart
<1> HIDE DEF rows
<1>3. catalog' = d
  BY <1>1
<1> HIDE DEF all
<1>4. CatalogShape(catalog) /\ AllKeyed(catalog) /\ HeapOK(heap, catalog, Len(status))
  BY DEF RowInv, CatInv
<1>5. ASSUME NEW h \in DOMAIN heap
      PROVE  VersionsOK(hp[h], 1, Width(catalog, h))
  <2> DEFINE q == kept(h)
             r == hp[h]
  <2>1. IsSeq(heap[h]) /\ \A i \in DOMAIN heap[h] : Len(heap[h][i].vals) \in 0..Width(catalog, h)
    BY <1>4 DEF HeapOK, VersionsOK, VersionOK
  <2>2. IsSeq(q) /\ ToSet(q) \subseteq ToSet(heap[h])
    BY <2>1, OnlyKeeps
  <2>3. r = [i \in DOMAIN q |-> Version(q[i].vals, Boot)]
    OBVIOUS
  <2> HIDE DEF r, kept
  <2>4. \A i \in DOMAIN q : Len(q[i].vals) \in 0..Width(catalog, h)
    <3>1. \A i \in DOMAIN q : q[i] \in ToSet(q)
      BY <2>2, SeqIs
    <3>2. \A v \in ToSet(heap[h]) : Len(v.vals) \in 0..Width(catalog, h)
      BY <2>1, SeqIs
    <3>3. QED
      BY <2>2, <3>1, <3>2
  <2> HIDE DEF q
  <2>5. DOMAIN r = DOMAIN q /\ r = [i \in DOMAIN q |-> r[i]]
    BY <2>3
  <2>6. \A i \in DOMAIN q : r[i] = Version(q[i].vals, Boot)
    BY <2>3
  <2>7. \A vals : Version(vals, Boot).vals = vals
    BY DEF Version
  <2>8. \A i \in DOMAIN q : r[i] = Version(r[i].vals, Boot) /\ Len(r[i].vals) \in 0..Width(catalog, h)
    BY <2>4, <2>6, <2>7
  <2>9. VersionsOK(r, 1, Width(catalog, h))
    BY <2>2, <2>5, <2>8, BootVersions
  <2>10. QED
    BY <2>9 DEF r
<1>6. DOMAIN hp = DOMAIN catalog.tables /\ DOMAIN heap = DOMAIN hp
  BY <1>4 DEF HeapOK
<1> HIDE DEF hp
<1>7. RowsOK(d, hp, <<"committed">>, [s \in Sessions |-> Idle])
  <2>1. \A h \in DOMAIN hp : VersionsOK(hp[h], 1, Width(catalog, h))
    BY <1>5, <1>6
  <2>2. QED
    BY <1>4, <1>6, <2>1, OpenedRows
<1>8. QED
  BY <1>2, <1>3, <1>7, Zenon

\* A database with the tables of a scenario.
LEMMA InitRows == Init => RowInv
<1> SUFFICES ASSUME Init PROVE RowInv
  OBVIOUS
<1> DEFINE c == Created(scenario.create)
           rows == scenario.rows
           hp == [h \in DOMAIN catalog.tables |-> [i \in DOMAIN rows[h] |-> Version(rows[h][i], Boot)]]
<1>1. scenario \in Scenarios
  BY DEF Init
<1>2. /\ catalog = [c EXCEPT !.tables = [h \in DOMAIN c.tables |-> RestoreSequences(c.tables[h], rows[h])]]
      /\ heap = hp /\ status = <<"committed">> /\ session = [s \in Sessions |-> Idle]
  BY Zenon DEF Init
<1>3. CatInv
  BY InitSane DEF CatInv, Sane
<1>4. CatalogShape(c) /\ AllKeyed(c)
  BY <1>1, CreatedIs, CreatedKeyed DEF Sane
<1>5. \A h \in DOMAIN c.tables : /\ IsList(rows[h])
                                 /\ \A i \in DOMAIN rows[h] : Len(rows[h][i]) \in 0..Width(c, h)
  <2>1. \A sc \in Scenarios : \A h \in DOMAIN Created(sc.create).tables :
          /\ IsList(sc.rows[h])
          /\ \A i \in DOMAIN sc.rows[h] : Len(sc.rows[h][i]) \in 0..Len(Created(sc.create).tables[h].columns)
    BY RowsAssumption, Zenon
  <2>2. QED
    BY <1>1, <2>1, Zenon DEF Width
<1> HIDE DEF c
<1>6. DOMAIN catalog.tables = DOMAIN c.tables
  BY <1>2, <1>4, RestoredEvolves
<1>7. ASSUME NEW h \in DOMAIN c.tables
      PROVE  VersionsOK(hp[h], 1, Width(c, h))
  <2> DEFINE q == rows[h]
             r == hp[h]
             width == Width(c, h)
  <2>1. IsList(q) /\ \A i \in DOMAIN q : Len(q[i]) \in 0..width
    BY <1>5
  <2>2. r = [i \in DOMAIN q |-> Version(q[i], Boot)]
    BY <1>6
  <2> HIDE DEF q, r, width
  <2>3. IsSeq(q)
    BY <2>1, FunctionsAreSeqs DEF IsList
  <2>4. /\ DOMAIN r = DOMAIN q /\ r = [i \in DOMAIN q |-> r[i]]
        /\ \A i \in DOMAIN q : r[i] = Version(q[i], Boot)
    BY <2>2
  <2>5. \A vals : Version(vals, Boot).vals = vals
    BY DEF Version
  <2>6. VersionsOK(r, 1, width)
    BY <2>1, <2>3, <2>4, <2>5, BootVersions
  <2>7. QED
    BY <2>6 DEF r, width
<1>8. DOMAIN hp = DOMAIN c.tables
  BY <1>6
<1> HIDE DEF hp, rows
<1>9. RowsOK(catalog, heap, status, session)
  BY <1>2, <1>4, <1>7, <1>8, OpenedRows
<1>10. QED
  BY <1>3, <1>9 DEF RowInv, RowsOK

\* Any step.
LEMMA NextRows ==
  ASSUME RowInv, [Next]_vars
  PROVE  RowInv'
<1>1. CatInv'
  BY NextRetains DEF RowInv
<1>2. scenario.sessions \subseteq Sessions
  BY RowsAssumption, Zenon DEF RowInv, CatInv
<1>3. RowsOK(catalog', heap', status', session')
  <2>1. CASE UNCHANGED vars
    <3>1. RowsOK(catalog, heap, status, session)
      BY DEF RowInv, RowsOK
    <3>2. catalog' = catalog /\ heap' = heap /\ status' = status /\ session' = session
      BY <2>1 DEF vars
    <3>3. QED
      BY <3>1, <3>2, Zenon
  <2>2. CASE \E s \in scenario.sessions : \E level \in scenario.levels : Begin(s, level)
    BY <1>2, <2>2, BeginRows
  <2>3. CASE \E s \in scenario.sessions : Commit(s) \/ Rollback(s)
    BY <1>2, <2>3, CommitRows
  <2>4. CASE \E s \in scenario.sessions : \E stmt \in scenario.statements : Start(s, stmt)
    BY <1>2, <2>4, StartRows
  <2>5. CASE \E s \in scenario.sessions : \E stmt \in scenario.statements : execDDL(s, stmt)
    BY <1>2, <2>5, DDLRows
  <2>6. CASE \E s \in scenario.sessions : Step(s)
    BY <1>2, <2>6, StepRows
  <2>7. CASE \E s \in scenario.sessions : Finish(s)
    BY <1>2, <2>7, FinishRows
  <2>8. CASE Restart
    BY <2>8, RestartRows
  <2>9. QED
    BY <2>1, <2>2, <2>3, <2>4, <2>5, <2>6, <2>7, <2>8, Zenon DEF Next
<1>4. QED
  BY <1>1, <1>3, Zenon DEF RowInv, RowsOK

\* Whatever connections do to the rows, the tables and each other, the catalog, the
\* heap and the sessions fit together: every version is some transaction's and no
\* wider than its table, though columns are added and statements that wait in the
\* middle hold rows they read earlier, and a session's transaction is open.
THEOREM HeapAndSessionsAgree == Spec => []TypeOK
<1>1. Init => RowInv
  BY InitRows
<1>2. RowInv /\ [Next]_vars => RowInv'
  BY NextRows
<1>3. RowInv => TypeOK
  <2> SUFFICES ASSUME RowInv PROVE TypeOK
    OBVIOUS
  <2>1. CatInv /\ StatusOK(status) /\ Len(status) \in Nat /\ DOMAIN status = 1..Len(status)
    BY SeqIs DEF RowInv, StatusOK
  <2>2. scenario \in Scenarios /\ \A n \in TableNames : catalog.names[n] \in {NoTable} \cup DOMAIN catalog.tables
    BY <2>1 DEF CatInv, CatalogShape
  <2>3. \A i \in DOMAIN status : status[i] \in {"active", "committed", "aborted"}
    BY <2>1 DEF StatusOK, Outcomes
  <2>4. /\ DOMAIN heap = DOMAIN catalog.tables
        /\ \A h \in DOMAIN heap : \A i \in DOMAIN heap[h] : VersionOK(heap[h][i], Len(status), Width(catalog, h))
    BY DEF RowInv, HeapOK, VersionsOK
  <2>5. \A h \in DOMAIN heap : Width(catalog, h) \in Nat
    BY <2>1, <2>4, SeqIs DEF CatInv, CatalogShape, TableShape, Width
  <2>6. ASSUME NEW h \in DOMAIN heap, NEW i \in DOMAIN heap[h]
        PROVE  /\ heap[h][i].xmin \in DOMAIN status /\ heap[h][i].xmax \in {NoTx} \cup DOMAIN status
               /\ Len(heap[h][i].vals) <= Len(catalog.tables[h].columns)
    <3> DEFINE v == heap[h][i]
               width == Width(catalog, h)
    <3>1. VersionOK(v, Len(status), width) /\ width \in Nat
      BY <2>4, <2>5
    <3> HIDE DEF v, width
    <3>2. v.xmin \in 1..Len(status) /\ v.xmax \in 0..Len(status) /\ Len(v.vals) \in 0..width
      BY <3>1 DEF VersionOK
    <3>3. v.xmin \in DOMAIN status /\ v.xmax \in {NoTx} \cup DOMAIN status /\ Len(v.vals) <= width
      BY <2>1, <3>1, <3>2 DEF NoTx
    <3>4. QED
      BY <3>3 DEF v, width, Width
  <2>7. \A s \in Sessions : /\ session[s].tx \in {NoTx} \cup DOMAIN status
                            /\ session[s].tx # NoTx => status[session[s].tx] = "active"
                            /\ Running(session[s]) => session[s].tx # NoTx
    BY <2>1 DEF RowInv, SessionsOK, SessionOK, NoTx
  <2>8. QED
    BY <2>2, <2>3, <2>4, <2>6, <2>7 DEF TypeOK
<1>4. QED
  BY <1>1, <1>2, <1>3, PTL DEF Spec

(***************************************************************************)
(* Keys.                                                                   *)
(***************************************************************************)

\* What is to be distinct in a table: its keys, and the unique indexes that the
\* rows agreed with when they were created.
Uniques(t) ==
  {[cols |-> t.keys[k].cols, where |-> NoPredicate] : k \in DOMAIN t.keys}
  \cup {[cols |-> ix.cols, where |-> ix.where] : ix \in {x \in ToSet(t.indexes) : x.unique /\ x.sound}}

\* Row a can be there beside row b.
Apart(t, k, a, b) ==
  \/ anyNull(a, k.cols)
  \/ ~Selects(t, k.where, a) \/ ~Selects(t, k.where, b)
  \/ ~matchesKey(a, k.cols, b, k.cols)

Row(t, versions, i) == Values(t, versions[i].vals)

\* The versions at these positions can.
Distinct(t, versions, P) ==
  \A k \in Uniques(t) : \A i, j \in P : i = j \/ Apart(t, k, Row(t, versions, i), Row(t, versions, j))

\* Whether a predicate selects a row depends on one column.
LEMMA SelectsAlike ==
  ASSUME NEW t, NEW u, NEW p, NEW a, NEW b,
         p.rel = "none" \/ a[ColumnIndex(t, p.col)] = b[ColumnIndex(u, p.col)]
  PROVE  Selects(t, p, a) <=> Selects(u, p, b)
<1> DEFINE x == a[ColumnIndex(t, p.col)]
           y == b[ColumnIndex(u, p.col)]
           value(z) == IF z = NULL THEN "unknown" ELSE
                       CASE p.rel = "eq"  -> IF z = p.val THEN "true" ELSE "false"
                         [] p.rel = "min" -> IF z >= p.val THEN "true" ELSE "false"
<1>1. /\ Truth(t, p, a) = IF p.rel = "none" THEN "true" ELSE value(x)
      /\ Truth(u, p, b) = IF p.rel = "none" THEN "true" ELSE value(y)
  BY Zenon DEF Truth
<1>2. p.rel = "none" \/ x = y
  OBVIOUS
<1> HIDE DEF value, x, y
<1>3. Truth(t, p, a) = Truth(u, p, b)
  BY <1>1, <1>2
<1>4. QED
  BY <1>3 DEF Selects

\* A row in which that column is NULL is not selected.
LEMMA SelectsNull ==
  ASSUME NEW t, NEW p, p.rel # "none", NEW a, a[ColumnIndex(t, p.col)] = NULL
  PROVE  ~Selects(t, p, a)
BY DEF Selects, Truth

\* Whether two rows can be there together depends on the columns of the key.
LEMMA ApartAlike ==
  ASSUME NEW t, NEW u, NEW k, NEW a, NEW b, NEW c, NEW d,
         \A i \in DOMAIN k.cols : a[k.cols[i]] = c[k.cols[i]] /\ b[k.cols[i]] = d[k.cols[i]],
         \/ k.where.rel = "none"
         \/ /\ a[ColumnIndex(t, k.where.col)] = c[ColumnIndex(u, k.where.col)]
            /\ b[ColumnIndex(t, k.where.col)] = d[ColumnIndex(u, k.where.col)]
  PROVE  Apart(t, k, a, b) <=> Apart(u, k, c, d)
<1>1. (Selects(t, k.where, a) <=> Selects(u, k.where, c)) /\ (Selects(t, k.where, b) <=> Selects(u, k.where, d))
  BY SelectsAlike
<1>2. anyNull(a, k.cols) <=> anyNull(c, k.cols)
  BY DEF anyNull
<1>3. matchesKey(a, k.cols, b, k.cols) <=> matchesKey(c, k.cols, d, k.cols)
  BY DEF matchesKey
<1>4. QED
  BY <1>1, <1>2, <1>3 DEF Apart

\* A key is about columns of its table.
LEMMA UniquesFit ==
  ASSUME NEW t, TableShape(t), Keyed(t), NEW k \in Uniques(t)
  PROVE  /\ Ordinals(t, k.cols)
         /\ k.where.rel = "none" \/ /\ ColumnIndex(t, k.where.col) \in DOMAIN t.columns
                                    /\ t.columns[ColumnIndex(t, k.where.col)].name = k.where.col
<1>1. /\ \A i \in DOMAIN t.keys : Ordinals(t, t.keys[i].cols)
      /\ \A ix \in ToSet(t.indexes) : Ordinals(t, ix.cols) /\ Binds(t, ix.where)
  BY KeyedIs
<1>2. IsSeq(t.columns)
  BY DEF TableShape
<1>3. CASE \E i \in DOMAIN t.keys : k = [cols |-> t.keys[i].cols, where |-> NoPredicate]
  <2>1. PICK i \in DOMAIN t.keys : k = [cols |-> t.keys[i].cols, where |-> NoPredicate]
    BY <1>3
  <2>2. k.cols = t.keys[i].cols /\ k.where.rel = "none"
    BY <2>1 DEF NoPredicate
  <2>3. QED
    BY <1>1, <2>2
<1>4. CASE \E ix \in ToSet(t.indexes) : k = [cols |-> ix.cols, where |-> ix.where]
  <2>1. Ordinals(t, k.cols) /\ Binds(t, k.where)
    BY <1>1, <1>4
  <2>2. QED
    BY <1>2, <2>1, ColumnIndexIs DEF Binds
<1>5. QED
  BY <1>3, <1>4 DEF Uniques

\* The rows of a table that follows are apart if they were.
LEMMA FollowsDistinct ==
  ASSUME NEW t, NEW u, TableShape(t), Keyed(t), Follows(t, u), NEW versions, NEW P, Distinct(t, versions, P)
  PROVE  Distinct(u, versions, P)
<1>1. \A o \in DOMAIN t.columns : \A i : Row(u, versions, i)[o] = Row(t, versions, i)[o]
  BY DEF Row, Values, Follows
<1>2. Uniques(u) \subseteq Uniques(t)
  BY DEF Uniques, Follows
<1>3. ASSUME NEW k \in Uniques(t), NEW i, NEW j
      PROVE  Apart(t, k, Row(t, versions, i), Row(t, versions, j)) <=> Apart(u, k, Row(u, versions, i), Row(u, versions, j))
  <2>1. /\ \A o \in DOMAIN k.cols : k.cols[o] \in DOMAIN t.columns
        /\ k.where.rel = "none" \/ ColumnIndex(t, k.where.col) \in DOMAIN t.columns
    BY UniquesFit DEF Ordinals
  <2>2. k.where.rel = "none" \/ ColumnIndex(u, k.where.col) = ColumnIndex(t, k.where.col)
    <3>1. k.where = NoPredicate \/ \E ix \in ToSet(t.indexes) : k.where = ix.where
      BY DEF Uniques
    <3>2. NoPredicate.rel = "none"
      BY DEF NoPredicate
    <3>3. QED
      BY <3>1, <3>2 DEF Follows
  <2>3. QED
    BY <1>1, <2>1, <2>2, ApartAlike
<1>4. QED
  BY <1>2, <1>3 DEF Distinct

\* The statement-end check is about the same, and so is what is promised.
LEMMA UniqueIs ==
  ASSUME NEW t, IsSeq(t.indexes), NEW rows
  PROVE  checkUnique(t, rows) <=>
           /\ \A k \in DOMAIN t.keys : checkUniqueOver(t, rows, t.keys[k].cols, NoPredicate)
           /\ \A ix \in ToSet(t.indexes) : ix.unique => checkUniqueOver(t, rows, ix.cols, ix.where)
<1>1. \A x : x \in ToSet(t.indexes) <=> \E i \in DOMAIN t.indexes : t.indexes[i] = x
  BY SeqIs
<1>2. QED
  BY <1>1 DEF checkUnique

\* ... over the rows that are seen.
LEMMA DistinctIs ==
  ASSUME NEW t, TableShape(t), NEW versions, NEW P,
         NEW rows, rows = [i \in P |-> Row(t, versions, i)]
  PROVE  /\ checkUnique(t, rows) => Distinct(t, versions, P)
         /\ Distinct(t, versions, P) =>
              checkUnique([t EXCEPT !.indexes = Only(t.indexes, {x \in ToSet(t.indexes) : x.sound})], rows)
<1> DEFINE over(v, k) == checkUniqueOver(v, rows, k.cols, k.where)
           sound == {x \in ToSet(t.indexes) : x.sound}
           u == [t EXCEPT !.indexes = Only(t.indexes, sound)]
<1>1. IsSeq(t.indexes)
  BY DEF TableShape
<1>2. u.columns = t.columns /\ u.keys = t.keys /\ u.indexes = Only(t.indexes, sound)
  BY DEF TableShape, Fields
<1>3. IsSeq(u.indexes) /\ ToSet(u.indexes) = sound
  BY <1>1, <1>2, OnlyKeeps
<1> HIDE DEF u, sound
<1>4. \A name : ColumnIndex(u, name) = ColumnIndex(t, name)
  BY <1>2, SameColumns
<1>5. DOMAIN rows = P /\ \A i \in P : rows[i] = Row(t, versions, i)
  OBVIOUS
<1>6. ASSUME NEW k
      PROVE  /\ over(t, k) <=> \A i, j \in P : i = j \/ Apart(t, k, Row(t, versions, i), Row(t, versions, j))
             /\ over(u, k) <=> over(t, k)
  <2>1. over(t, k) <=> \A i, j \in P : i = j \/ Apart(t, k, Row(t, versions, i), Row(t, versions, j))
    BY <1>5 DEF checkUniqueOver, Apart
  <2>2. \A i : Selects(u, k.where, rows[i]) <=> Selects(t, k.where, rows[i])
    BY <1>4, SelectsAlike
  <2>3. over(u, k) <=> over(t, k)
    BY <2>2 DEF checkUniqueOver
  <2>4. QED
    BY <2>1, <2>3
<1> DEFINE plain(i) == [cols |-> t.keys[i].cols, where |-> NoPredicate]
           index(ix) == [cols |-> ix.cols, where |-> ix.where]
<1>7. /\ \A k : k \in Uniques(t) <=> \/ \E i \in DOMAIN t.keys : k = plain(i)
                                     \/ \E ix \in ToSet(t.indexes) : ix.unique /\ ix.sound /\ k = index(ix)
      /\ \A i : plain(i).cols = t.keys[i].cols /\ plain(i).where = NoPredicate
      /\ \A ix : index(ix).cols = ix.cols /\ index(ix).where = ix.where
  BY DEF Uniques
<1>8. Distinct(t, versions, P) <=> /\ \A i \in DOMAIN t.keys : over(t, plain(i))
                                   /\ \A ix \in ToSet(t.indexes) : ix.unique /\ ix.sound => over(t, index(ix))
  <2>1. Distinct(t, versions, P) <=> \A k \in Uniques(t) : over(t, k)
    BY <1>6 DEF Distinct
  <2> HIDE DEF over, plain, index
  <2>2. QED
    BY <2>1, <1>7
<1>9. checkUnique(t, rows) <=> /\ \A i \in DOMAIN t.keys : over(t, plain(i))
                               /\ \A ix \in ToSet(t.indexes) : ix.unique => over(t, index(ix))
  BY <1>1, <1>7, UniqueIs
<1>10. checkUnique(u, rows) <=> /\ \A i \in DOMAIN u.keys : over(u, plain(i))
                                /\ \A ix \in ToSet(u.indexes) : ix.unique => over(u, index(ix))
  <2>1. checkUnique(u, rows) <=>
           /\ \A k \in DOMAIN u.keys : checkUniqueOver(u, rows, u.keys[k].cols, NoPredicate)
           /\ \A ix \in ToSet(u.indexes) : ix.unique => checkUniqueOver(u, rows, ix.cols, ix.where)
    BY <1>3, UniqueIs
  <2>2. QED
    BY <1>2, <1>7, <2>1
<1>11. \A x \in sound : x \in ToSet(t.indexes) /\ x.sound
  BY DEF sound
<1>12. QED
  <2> HIDE DEF over, plain, index
  <2>1. checkUnique(t, rows) => Distinct(t, versions, P)
    BY <1>8, <1>9
  <2>2. Distinct(t, versions, P) => checkUnique(u, rows)
    BY <1>2, <1>3, <1>6, <1>8, <1>10, <1>11
  <2>3. QED
    BY <2>1, <2>2 DEF u, sound

(***************************************************************************)
(* Rows that are distinct, as the heap changes.                            *)
(***************************************************************************)

\* Fewer rows.
LEMMA FewerDistinct ==
  ASSUME NEW t, NEW q, NEW r, NEW P, NEW Q, Distinct(t, q, P), Q \subseteq P, \A i \in Q : r[i].vals = q[i].vals
  PROVE  Distinct(t, r, Q)
<1>1. \A i \in Q : Row(t, r, i) = Row(t, q, i)
  BY DEF Row
<1>2. QED
  BY <1>1 DEF Distinct

\* The tables of which what is seen is distinct, all but some.
Clean(c, hp, id, snap, D) ==
  \A h \in DOMAIN hp \ D : Distinct(c.tables[h], hp[h], Seen(hp[h], id, snap))

\* Every transaction of S that has written is in the snapshot.
Known(hp, S, snap) ==
  \A h \in DOMAIN hp : \A i \in DOMAIN hp[h] : \A id \in {hp[h][i].xmin, hp[h][i].xmax} : id \in S => id \in snap

\* So it makes no difference to see the others.
LEMMA KnownSeen ==
  ASSUME NEW hp, NEW S, NEW snap, Known(hp, S, snap), snap \subseteq S, NEW h \in DOMAIN hp, NEW id
  PROVE  Seen(hp[h], id, S) = Seen(hp[h], id, snap)
<1>1. \A i \in DOMAIN hp[h] : /\ hp[h][i].xmin \in S <=> hp[h][i].xmin \in snap
                              /\ hp[h][i].xmax \in S <=> hp[h][i].xmax \in snap
  BY DEF Known
<1>2. \A i \in DOMAIN hp[h] : Visible(hp[h][i], id, S) <=> Visible(hp[h][i], id, snap)
  BY <1>1 DEF Visible
<1>3. QED
  BY <1>2 DEF Seen

\* Every version is some transaction's.
LEMMA WrittenBy ==
  ASSUME NEW hp, NEW c, NEW n \in Nat, HeapOK(hp, c, n), NEW h \in DOMAIN hp, NEW i \in DOMAIN hp[h]
  PROVE  hp[h][i].xmin # NoTx
<1> DEFINE v == hp[h][i]
<1>1. VersionOK(v, n, Width(c, h))
  BY DEF HeapOK, VersionsOK
<1> HIDE DEF v
<1>2. v.xmin \in 1..n
  BY <1>1 DEF VersionOK
<1>3. QED
  BY <1>2 DEF NoTx, v

\* A transaction that has written nothing sees what anybody does, ...
LEMMA BlankSeen ==
  ASSUME NEW hp, NEW c, NEW n \in Nat, HeapOK(hp, c, n), NEW id, Blank(hp, id), NEW h \in DOMAIN hp, NEW S
  PROVE  Seen(hp[h], id, S) = Seen(hp[h], NoTx, S)
<1>1. \A i \in DOMAIN hp[h] : hp[h][i].xmin # NoTx /\ id # hp[h][i].xmin /\ id # hp[h][i].xmax
  BY WrittenBy DEF Blank
<1>2. \A i \in DOMAIN hp[h] : Visible(hp[h][i], id, S) <=> Visible(hp[h][i], NoTx, S)
  BY <1>1 DEF Visible
<1>3. QED
  BY <1>2 DEF Seen

\* ... and it makes no difference to see it.
LEMMA BlankAdds ==
  ASSUME NEW hp, NEW id, Blank(hp, id), NEW h \in DOMAIN hp, NEW o, NEW S
  PROVE  Seen(hp[h], o, S \cup {id}) = Seen(hp[h], o, S)
<1>1. \A i \in DOMAIN hp[h] : id # hp[h][i].xmin /\ id # hp[h][i].xmax
  BY DEF Blank
<1>2. \A i \in DOMAIN hp[h] : Visible(hp[h][i], o, S \cup {id}) <=> Visible(hp[h][i], o, S)
  BY <1>1 DEF Visible
<1>3. QED
  BY <1>2 DEF Seen

\* What a transaction sees is what anybody does who sees it.
LEMMA SettledSeen ==
  ASSUME NEW hp, NEW c, NEW n \in Nat, HeapOK(hp, c, n), NEW id, id # NoTx, NEW h \in DOMAIN hp, NEW S
  PROVE  Seen(hp[h], NoTx, S \cup {id}) = Seen(hp[h], id, S)
<1>1. \A i \in DOMAIN hp[h] : hp[h][i].xmin # NoTx
  BY WrittenBy
<1>2. \A i \in DOMAIN hp[h] : Visible(hp[h][i], NoTx, S \cup {id}) <=> Visible(hp[h][i], id, S)
  BY <1>1 DEF Visible
<1>3. QED
  BY <1>2 DEF Seen

\* What is seen in the same way is as clean.
LEMMA SameClean ==
  ASSUME NEW c, NEW hp, NEW id, NEW snap, NEW D, Clean(c, hp, id, snap, D), NEW o, NEW S,
         \A h \in DOMAIN hp \ D : Seen(hp[h], o, S) = Seen(hp[h], id, snap)
  PROVE  Clean(c, hp, o, S, D)
BY DEF Clean

\* Tables that evolve, of which the same is seen, stay so.
LEMMA EvolvesClean ==
  ASSUME NEW c, CatalogShape(c), AllKeyed(c), NEW d, Evolves(c, d), NEW hp, DOMAIN hp = DOMAIN c.tables,
         NEW hp2, DOMAIN hp2 = DOMAIN hp, NEW id, NEW snap, NEW D, Clean(c, hp, id, snap, D),
         \A h \in DOMAIN hp : /\ Seen(hp2[h], id, snap) = Seen(hp[h], id, snap)
                              /\ \A i \in DOMAIN hp[h] : hp2[h][i].vals = hp[h][i].vals
  PROVE  Clean(d, hp2, id, snap, D)
<1> SUFFICES ASSUME NEW h \in DOMAIN hp \ D PROVE Distinct(d.tables[h], hp2[h], Seen(hp2[h], id, snap))
  BY DEF Clean
<1> DEFINE t == c.tables[h]
           u == d.tables[h]
           P == Seen(hp[h], id, snap)
           q == hp[h]
           r == hp2[h]
<1>1. TableShape(t) /\ Keyed(t) /\ Follows(t, u)
  BY DEF CatalogShape, AllKeyed, Evolves
<1>2. Distinct(t, q, P)
  BY DEF Clean
<1>3. P \subseteq DOMAIN q /\ (\A i \in P : r[i].vals = q[i].vals) /\ Seen(r, id, snap) = P
  BY DEF Seen
<1> HIDE DEF t, u, P, q, r
<1>4. Distinct(u, q, P)
  BY <1>1, <1>2, FollowsDistinct
<1>5. Distinct(u, r, P)
  BY <1>3, <1>4, FewerDistinct
<1>6. Distinct(u, r, Seen(r, id, snap))
  BY <1>3, <1>5
<1>7. QED
  BY <1>6 DEF u, r

\* A version that is taken is seen no more, and the others as they were.
LEMMA EndedSeen ==
  ASSUME NEW q, NEW n \in Nat, NEW width, VersionsOK(q, n, width), NEW v, NEW id, id # NoTx, NEW snap
  PROVE  /\ Seen(Ended(q, v, id), id, snap) = Seen(q, id, snap) \ {v}
         /\ \A i \in DOMAIN q : Ended(q, v, id)[i].vals = q[i].vals
<1> DEFINE r == Ended(q, v, id)
<1>1. DOMAIN r = DOMAIN q /\ \A i \in DOMAIN q : r[i] = IF i = v THEN [q[i] EXCEPT !.xmax = id] ELSE q[i]
  BY EndedIs DEF VersionsOK
<1>2. \A i \in DOMAIN q : /\ [q[i] EXCEPT !.xmax = id].vals = q[i].vals /\ [q[i] EXCEPT !.xmax = id].xmax = id
                          /\ [q[i] EXCEPT !.xmax = id].xmin = q[i].xmin
  BY TakenVersion DEF VersionsOK
<1> HIDE DEF r
<1>3. \A i \in DOMAIN q : r[i].vals = q[i].vals /\ (i = v => r[i].xmax = id) /\ (i # v => r[i] = q[i])
  BY <1>1, <1>2
<1>4. \A i \in DOMAIN q : Visible(r[i], id, snap) <=> i # v /\ Visible(q[i], id, snap)
  BY <1>3 DEF Visible
<1>5. Seen(r, id, snap) = Seen(q, id, snap) \ {v}
  BY <1>1, <1>4 DEF Seen
<1>6. QED
  BY <1>3, <1>5 DEF r

\* So are those of its table.
LEMMA DeleteDistinct ==
  ASSUME NEW t, NEW q, NEW n \in Nat, NEW width, VersionsOK(q, n, width), NEW v, NEW id, id # NoTx, NEW snap,
         Distinct(t, q, Seen(q, id, snap))
  PROVE  Distinct(t, Ended(q, v, id), Seen(Ended(q, v, id), id, snap))
<1> DEFINE r == Ended(q, v, id)
<1>1. Seen(r, id, snap) = Seen(q, id, snap) \ {v} /\ \A i \in DOMAIN q : r[i].vals = q[i].vals
  BY EndedSeen
<1>2. Seen(r, id, snap) \subseteq Seen(q, id, snap) /\ \A i \in Seen(r, id, snap) : r[i].vals = q[i].vals
  BY <1>1 DEF Seen
<1> HIDE DEF r
<1>3. Distinct(t, r, Seen(r, id, snap))
  BY <1>2, FewerDistinct
<1>4. QED
  BY <1>3 DEF r

(***************************************************************************)
(* A reference that is let go of.                                          *)
(***************************************************************************)

\* A column that ON DELETE SET DEFAULT gives another value than NULL is in no key,
\* and no unique index is about it.
NoDefaults(t) ==
  \A f \in DOMAIN t.foreignKeys : t.foreignKeys[f].onDelete = "set default" =>
    \A i \in DOMAIN t.columns : Contains(t.foreignKeys[f].cols, i) /\ t.columns[i].default # NULL =>
      \A k \in Uniques(t) : /\ \A j \in DOMAIN k.cols : k.cols[j] # i
                            /\ k.where.rel = "none" \/ ColumnIndex(t, k.where.col) # i

\* A row with a NULL in a key is apart from any other.
LEMMA NullApart ==
  ASSUME NEW t, NEW k, NEW a, NEW b, anyNull(a, k.cols) \/ anyNull(b, k.cols)
  PROVE  Apart(t, k, a, b)
<1>1. CASE anyNull(a, k.cols)
  BY <1>1 DEF Apart
<1>2. CASE ~anyNull(a, k.cols) /\ anyNull(b, k.cols)
  <2>1. ~matchesKey(a, k.cols, b, k.cols)
    BY <1>2 DEF anyNull, matchesKey
  <2>2. QED
    BY <2>1 DEF Apart
<1>3. QED
  BY <1>1, <1>2

\* ON DELETE SET NULL and SET DEFAULT, by reference f.
LetGo(t, f, row, new) ==
  /\ t.foreignKeys[f].onDelete \in {"set null", "set default"}
  /\ new = refReplacement(t, t.foreignKeys[f].cols, t.foreignKeys[f].onDelete, row)

\* What that makes of a column.
Loosened(t, f, row, new, i) ==
  \/ new[i] = row[i] \/ new[i] = NULL
  \/ /\ Contains(t.foreignKeys[f].cols, i) /\ t.foreignKeys[f].onDelete = "set default"
     /\ new[i] = t.columns[i].default

\* It is what the definition of the reference says.
LEMMA LetGoIs ==
  ASSUME NEW t, NEW f, NEW row, NEW new, LetGo(t, f, row, new), NEW i \in DOMAIN row
  PROVE  Loosened(t, f, row, new, i)
<1> DEFINE cols == t.foreignKeys[f].cols
           action == t.foreignKeys[f].onDelete
           value(k) == IF ~Contains(cols, k) THEN row[k] ELSE IF action = "set null" THEN NULL ELSE t.columns[k].default
<1>1. new = [k \in DOMAIN row |-> value(k)]
  BY Zenon DEF LetGo, refReplacement
<1>2. action \in {"set null", "set default"}
  BY DEF LetGo
<1>3. value(i) = row[i] \/ value(i) = NULL \/ (Contains(cols, i) /\ action = "set default" /\ value(i) = t.columns[i].default)
  <2> HIDE DEF cols, action
  <2>1. QED
    BY <1>2
<1> HIDE DEF value
<1>4. QED
  BY <1>1, <1>3 DEF Loosened

\* It is as far apart from the others as the row it was.
LEMMA ReplacedApart ==
  ASSUME NEW t, TableShape(t), Keyed(t), NoDefaults(t), NEW f \in DOMAIN t.foreignKeys,
         NEW row, DOMAIN row = DOMAIN t.columns, NEW new, LetGo(t, f, row, new),
         NEW k \in Uniques(t), NEW other
  PROVE  /\ Apart(t, k, row, other) => Apart(t, k, new, other)
         /\ Apart(t, k, other, row) => Apart(t, k, other, new)
<1> DEFINE w == ColumnIndex(t, k.where.col)
<1>1. /\ \A i \in DOMAIN k.cols : k.cols[i] \in DOMAIN t.columns
      /\ k.where.rel = "none" \/ w \in DOMAIN t.columns
  BY UniquesFit DEF Ordinals
<1>2. ASSUME NEW i \in DOMAIN row, new[i] # row[i], new[i] # NULL
      PROVE  (\A j \in DOMAIN k.cols : k.cols[j] # i) /\ (k.where.rel = "none" \/ w # i)
  <2>1. Loosened(t, f, row, new, i)
    BY LetGoIs
  <2>2. QED
    BY <1>2, <2>1 DEF NoDefaults, Loosened
<1>3. ASSUME NEW i \in DOMAIN t.columns, new[i] # row[i], new[i] # NULL
      PROVE  (\A j \in DOMAIN k.cols : k.cols[j] # i) /\ (k.where.rel = "none" \/ w # i)
  BY <1>2, <1>3
<1>4. CASE anyNull(new, k.cols)
  BY <1>4, NullApart
<1>5. CASE k.where.rel # "none" /\ new[w] = NULL
  <2>1. ~Selects(t, k.where, new)
    BY <1>5, SelectsNull
  <2>2. QED
    BY <2>1 DEF Apart
<1>6. CASE ~anyNull(new, k.cols) /\ (k.where.rel = "none" \/ new[w] # NULL)
  <2>1. \A i \in DOMAIN k.cols : new[k.cols[i]] = row[k.cols[i]]
    BY <1>1, <1>3, <1>6 DEF anyNull
  <2>2. k.where.rel = "none" \/ new[w] = row[w]
    BY <1>1, <1>3, <1>6
  <2>3. Apart(t, k, row, other) <=> Apart(t, k, new, other)
    <3>1. \A i \in DOMAIN k.cols : row[k.cols[i]] = new[k.cols[i]] /\ other[k.cols[i]] = other[k.cols[i]]
      BY <2>1
    <3>2. k.where.rel = "none" \/ (row[w] = new[w] /\ other[w] = other[w])
      BY <2>2
    <3>3. QED
      BY <3>1, <3>2, ApartAlike, Zenon
  <2>4. Apart(t, k, other, row) <=> Apart(t, k, other, new)
    <3>1. \A i \in DOMAIN k.cols : other[k.cols[i]] = other[k.cols[i]] /\ row[k.cols[i]] = new[k.cols[i]]
      BY <2>1
    <3>2. k.where.rel = "none" \/ (other[w] = other[w] /\ row[w] = new[w])
      BY <2>2
    <3>3. QED
      BY <3>1, <3>2, ApartAlike, Zenon
  <2>5. QED
    BY <2>3, <2>4
<1>7. QED
  BY <1>4, <1>5, <1>6

\* A row is read as it was written, when it is as wide as the table.
LEMMA ReadBack ==
  ASSUME NEW t, NEW row, IsRow(t, row)
  PROVE  Values(t, row) = row
<1>1. DOMAIN row = DOMAIN t.columns
  BY DEF IsRow
<1>2. Values(t, row) = [i \in DOMAIN t.columns |-> row[i]]
  BY <1>1 DEF Values
<1>3. QED
  BY <1>2 DEF IsRow

\* A version in the place of another.
Renewed(q, v, row, id) == Append(Ended(q, v, id), Version(row, id))

\* It is at the position last.
Superseded(q, r, v, row, id, snap, last) ==
  /\ Seen(r, id, snap) \subseteq (Seen(q, id, snap) \ {v}) \cup {last}
  /\ \A i \in DOMAIN q : r[i].vals = q[i].vals
  /\ r[last].vals = row /\ last \notin DOMAIN q

\* There is such a position.
LEMMA UpdatedSeen ==
  ASSUME NEW q, NEW n \in Nat, NEW width, VersionsOK(q, n, width), NEW v, NEW id, id # NoTx, NEW snap, NEW row,
         NEW r, r = Renewed(q, v, row, id)
  PROVE  \E last : Superseded(q, r, v, row, id, snap, last)
<1> DEFINE e == Ended(q, v, id)
           new == Version(row, id)
<1>1. IsSeq(q) /\ Len(q) \in Nat /\ DOMAIN q = 1..Len(q)
  BY SeqIs DEF VersionsOK
<1>2. IsSeq(e) /\ DOMAIN e = DOMAIN q /\ Len(e) = Len(q)
  BY <1>1, EndedIs
<1>3. Seen(e, id, snap) = Seen(q, id, snap) \ {v} /\ \A i \in DOMAIN q : e[i].vals = q[i].vals
  BY EndedSeen
<1>4. new.vals = row
  BY DEF Version
<1> HIDE DEF e, new
<1>5. /\ DOMAIN r = DOMAIN q \cup {Len(q) + 1} /\ r[Len(q) + 1] = new
      /\ \A i \in DOMAIN q : r[i] = e[i]
  <2>1. r = Append(e, new)
    BY DEF e, new, Renewed
  <2>2. IsSeq(r) /\ Len(r) = Len(q) + 1 /\ r[Len(q) + 1] = new /\ \A i \in DOMAIN e : r[i] = e[i]
    BY <1>2, <2>1, AppendIs
  <2>3. DOMAIN r = 1..(Len(q) + 1)
    BY <2>2, SeqIs
  <2>4. 1..(Len(q) + 1) = 1..Len(q) \cup {Len(q) + 1}
    BY <1>1
  <2>5. QED
    BY <1>1, <1>2, <2>2, <2>3, <2>4
<1>6. Seen(r, id, snap) \subseteq Seen(e, id, snap) \cup {Len(q) + 1}
  BY <1>2, <1>5 DEF Seen
<1>7. Len(q) + 1 \notin DOMAIN q
  BY <1>1
<1>8. QED
  BY <1>3, <1>4, <1>5, <1>6, <1>7 DEF Superseded

\* A table in which a reference is let go of is as distinct as it was.
LEMMA ReplacedDistinct ==
  ASSUME NEW t, TableShape(t), Keyed(t), NoDefaults(t), NEW f \in DOMAIN t.foreignKeys,
         NEW q, NEW n \in Nat, NEW width, VersionsOK(q, n, width), NEW id, id # NoTx, NEW snap,
         Distinct(t, q, Seen(q, id, snap)), NEW v \in Seen(q, id, snap),
         NEW new, LetGo(t, f, Row(t, q, v), new),
         NEW r, r = Renewed(q, v, new, id)
  PROVE  Distinct(t, r, Seen(r, id, snap))
<1> DEFINE P == Seen(q, id, snap)
<1>1. IsRow(t, Row(t, q, v))
  BY RowsAre, Zenon DEF Row
<1>2. IsRow(t, new)
  BY <1>1, RowsAre, Zenon DEF LetGo
<1>3. PICK last : Superseded(q, r, v, new, id, snap, last)
  BY UpdatedSeen
<1>4. /\ Seen(r, id, snap) \subseteq (P \ {v}) \cup {last}
      /\ \A i \in DOMAIN q : r[i].vals = q[i].vals
      /\ r[last].vals = new /\ last \notin DOMAIN q
  BY <1>3 DEF Superseded
<1>5. P \subseteq DOMAIN q
  BY DEF Seen
<1> HIDE DEF P
<1>6. Row(t, r, last) = new
  BY <1>2, <1>4, ReadBack DEF Row
<1>7. \A i \in P : Row(t, r, i) = Row(t, q, i)
  BY <1>4, <1>5 DEF Row
<1>8. ASSUME NEW k \in Uniques(t), NEW i \in P, i # v
      PROVE  Apart(t, k, new, Row(t, q, i)) /\ Apart(t, k, Row(t, q, i), new)
  <2> DEFINE row == Row(t, q, v)
             other == Row(t, q, i)
  <2>1. Apart(t, k, row, other) /\ Apart(t, k, other, row)
    BY <1>8 DEF Distinct, P
  <2>2. DOMAIN row = DOMAIN t.columns
    BY <1>1 DEF IsRow
  <2>3. LetGo(t, f, row, new)
    OBVIOUS
  <2> HIDE DEF row, other
  <2>4. Apart(t, k, new, other) /\ Apart(t, k, other, new)
    BY <2>1, <2>2, <2>3, ReplacedApart
  <2>5. QED
    BY <2>4 DEF other
<1>9. ASSUME NEW k \in Uniques(t), NEW i \in Seen(r, id, snap), NEW j \in Seen(r, id, snap), i # j
      PROVE  Apart(t, k, Row(t, r, i), Row(t, r, j))
  <2>1. CASE i = last
    <3>1. j \in P /\ j # v
      BY <1>4, <1>9, <2>1
    <3>2. QED
      BY <1>6, <1>7, <1>8, <2>1, <3>1
  <2>2. CASE j = last
    <3>1. i \in P /\ i # v
      BY <1>4, <1>9, <2>2
    <3>2. QED
      BY <1>6, <1>7, <1>8, <2>2, <3>1
  <2>3. CASE i # last /\ j # last
    <3>1. i \in P /\ j \in P
      BY <1>4, <2>3
    <3>2. Apart(t, k, Row(t, q, i), Row(t, q, j))
      BY <1>9, <3>1 DEF Distinct, P
    <3>3. QED
      BY <1>7, <3>1, <3>2
  <2>4. QED
    BY <2>1, <2>2, <2>3
<1>10. \A k \in Uniques(t) : \A i, j \in Seen(r, id, snap) : i = j \/ Apart(t, k, Row(t, r, i), Row(t, r, j))
  BY <1>9
<1>11. QED
  BY <1>10, Zenon DEF Distinct

(***************************************************************************)
(* The invariant.                                                          *)
(***************************************************************************)
TakenOf(st) == {i \in DOMAIN st : st[i] = "committed"}

\* The tables that the checks at the end of the statement will be about.
Dirty(me) == IF Running(me) THEN Checked(me.stmt, me.h, me.wrote) ELSE {}

\* What a session began with is distinct; while it writes, so is what it sees, all
\* but what it has still to check, and it sees whatever has been committed.
SessionKeys(me, c, hp, T) ==
  /\ me.tx # NoTx => Clean(c, hp, NoTx, me.snap, {})
  /\ me.writing => Known(hp, T, me.snap)
  /\ me.writing /\ ~me.failed => Clean(c, hp, me.tx, me.snap, Dirty(me))
  /\ Running(me) => ~me.failed

\* What has been committed is distinct, and one session at most writes.
KeysOK(c, hp, T, ses) ==
  /\ Clean(c, hp, NoTx, T, {})
  /\ \A s \in Sessions : SessionKeys(ses[s], c, hp, T)
  /\ \A s, o \in Sessions : ses[s].writing /\ ses[o].writing => s = o

KeysInv == KeysOK(catalog, heap, TakenOf(status), session)

\* Nothing is written beside another transaction that writes, and what an ON DELETE
\* SET DEFAULT writes is in no key.
Orderly == scenario.alone /\ \A h \in DOMAIN catalog.tables : NoDefaults(catalog.tables[h])

\* What a session sees between statements is distinct, now and as it began.
LEMMA ViewsClean ==
  ASSUME NEW hp, NEW c, NEW st, StatusOK(st), HeapOK(hp, c, Len(st)), NEW me, SessionOK(me, hp, c, st),
         Clean(c, hp, NoTx, TakenOf(st), {}), SessionKeys(me, c, hp, TakenOf(st)),
         me.tx # NoTx, ~Running(me), ~me.failed
  PROVE  Clean(c, hp, me.tx, TakenOf(st), {}) /\ Clean(c, hp, me.tx, me.snap, {})
<1> DEFINE T == TakenOf(st)
           id == me.tx
           snap == me.snap
           n == Len(st)
<1>1. n \in Nat /\ HeapOK(hp, c, n)
  BY SeqIs DEF StatusOK
<1>2. snap \subseteq T
  BY DEF SessionOK, TakenOf
<1>3. Clean(c, hp, NoTx, snap, {}) /\ Clean(c, hp, NoTx, T, {})
  BY DEF SessionKeys
<1>4. me.writing => Known(hp, T, snap) /\ Clean(c, hp, id, snap, {})
  BY DEF SessionKeys, Dirty
<1>5. ~me.writing => Blank(hp, id)
  BY DEF SessionOK
<1> HIDE DEF T, id, snap, n
<1>6. CASE me.writing
  <2>1. \A h \in DOMAIN hp : Seen(hp[h], id, T) = Seen(hp[h], id, snap)
    BY <1>2, <1>4, <1>6, KnownSeen
  <2>2. Clean(c, hp, id, T, {})
    BY <1>4, <1>6, <2>1, SameClean
  <2>3. QED
    BY <1>4, <1>6, <2>2 DEF T, id, snap
<1>7. CASE ~me.writing
  <2>1. \A h \in DOMAIN hp : \A S : Seen(hp[h], id, S) = Seen(hp[h], NoTx, S)
    BY <1>1, <1>5, <1>7, BlankSeen
  <2>2. Clean(c, hp, id, T, {}) /\ Clean(c, hp, id, snap, {})
    BY <1>3, <2>1, SameClean
  <2>3. QED
    BY <2>2 DEF T, id, snap
<1>8. QED
  BY <1>6, <1>7

\* So the keys hold.
LEMMA CleanHolds ==
  ASSUME RowInv, NEW id, NEW snap, Clean(catalog, heap, id, snap, {}), NEW h \in Tables
  PROVE  LET t == catalog.tables[h]
         IN checkUnique([t EXCEPT !.indexes = Only(@, {x \in ToSet(@) : x.sound})], View(h, id, snap))
<1> DEFINE t == catalog.tables[h]
           rows == View(h, id, snap)
           P == Seen(heap[h], id, snap)
<1>1. h \in DOMAIN catalog.tables /\ h \in DOMAIN heap
  BY PresentIs DEF Tables, RowInv, CatInv, HeapOK
<1>2. TableShape(t)
  BY <1>1 DEF RowInv, CatInv, CatalogShape
<1>3. rows = [i \in P |-> Row(t, heap[h], i)]
  BY DEF View, RowsOf, Row
<1>4. Distinct(t, heap[h], P)
  BY <1>1 DEF Clean
<1> DEFINE u == [t EXCEPT !.indexes = Only(t.indexes, {x \in ToSet(t.indexes) : x.sound})]
<1>5. u = [t EXCEPT !.indexes = Only(@, {x \in ToSet(@) : x.sound})]
  OBVIOUS
<1> HIDE DEF t, rows, P
<1>6. checkUnique(u, rows)
  BY <1>2, <1>3, <1>4, DistinctIs
<1>7. QED
  BY <1>5, <1>6 DEF t, rows

\* ... in every view.
LEMMA KeysInvHolds == ASSUME RowInv, KeysInv PROVE KeysHold
<1>1. TakenOf(status) = Taken
  BY DEF TakenOf, Taken
<1>2. ASSUME NEW v \in Views
      PROVE  Clean(catalog, heap, v.tx, v.snap, {})
  <2>1. CASE v = [tx |-> NoTx, snap |-> Taken]
    BY <1>1, <2>1 DEF KeysInv, KeysOK
  <2>2. CASE \E s \in Sessions : /\ session[s].tx # NoTx /\ ~Running(session[s]) /\ ~session[s].failed
                                 /\ v.tx = session[s].tx /\ v.snap \in {Taken, session[s].snap}
    <3>1. PICK s \in Sessions : /\ session[s].tx # NoTx /\ ~Running(session[s]) /\ ~session[s].failed
                                /\ v.tx = session[s].tx /\ v.snap \in {Taken, session[s].snap}
      BY <2>2
    <3> DEFINE me == session[s]
    <3>2. /\ SessionOK(me, heap, catalog, status) /\ StatusOK(status) /\ HeapOK(heap, catalog, Len(status))
          /\ Clean(catalog, heap, NoTx, TakenOf(status), {}) /\ SessionKeys(me, catalog, heap, TakenOf(status))
          /\ me.tx # NoTx /\ ~Running(me) /\ ~me.failed
      BY <3>1 DEF RowInv, SessionsOK, KeysInv, KeysOK
    <3> HIDE DEF me
    <3>3. Clean(catalog, heap, me.tx, TakenOf(status), {}) /\ Clean(catalog, heap, me.tx, me.snap, {})
      BY <3>2, ViewsClean
    <3>4. QED
      BY <1>1, <3>1, <3>3 DEF me
  <2>3. QED
    BY <2>1, <2>2 DEF Views, FreshViews
<1>3. QED
  BY <1>2, CleanHolds DEF KeysHold

(***************************************************************************)
(* The actions.                                                            *)
(***************************************************************************)

\* One session's, while those of the others stay right.
LEMMA KeysMove ==
  ASSUME RowInv, KeysInv, NEW s \in Sessions, NEW c, NEW hp, NEW T, Clean(c, hp, NoTx, T, {}),
         NEW mine, SessionKeys(mine, c, hp, T),
         \A o \in Sessions : o # s => SessionKeys(session[o], c, hp, T),
         mine.writing => \A o \in Sessions : o # s => ~session[o].writing
  PROVE  KeysOK(c, hp, T, [session EXCEPT ![s] = mine])
<1> DEFINE ses == [session EXCEPT ![s] = mine]
<1>1. \A o \in Sessions : ses[o] = IF o = s THEN mine ELSE session[o]
  BY DEF RowInv, SessionsOK
<1>2. \A p, o \in Sessions : session[p].writing /\ session[o].writing => p = o
  BY DEF KeysInv, KeysOK
<1> HIDE DEF ses
<1>3. \A o \in Sessions : SessionKeys(ses[o], c, hp, T)
  BY <1>1
<1>4. \A p, o \in Sessions : ses[p].writing /\ ses[o].writing => p = o
  BY <1>1, <1>2
<1>5. QED
  BY <1>3, <1>4 DEF KeysOK, ses

\* A session that does nothing.
LEMMA IdleKeys ==
  ASSUME NEW c, NEW hp, NEW T
  PROVE  SessionKeys(Idle, c, hp, T) /\ Idle.writing = FALSE
<1>1. Idle.tx = NoTx /\ Idle.writing = FALSE /\ Idle.stmt = NoStatement
  BY DEF Idle
<1>2. QED
  BY <1>1 DEF SessionKeys, Running

\* A transaction is begun.
LEMMA TakenBegun ==
  ASSUME NEW st, StatusOK(st), NEW o \in {"active", "aborted"}
  PROVE  TakenOf(Append(st, o)) = TakenOf(st)
<1>1. IsSeq(st) /\ Len(st) \in Nat /\ DOMAIN st = 1..Len(st)
  BY SeqIs DEF StatusOK
<1> DEFINE r == Append(st, o)
<1>2. \A i \in DOMAIN st : r[i] = st[i]
  BY <1>1, AppendIs
<1>3. \A i \in DOMAIN r \ DOMAIN st : r[i] = o
  BY <1>1, AppendIs
<1>4. DOMAIN r = 1..(Len(st) + 1)
  BY <1>1, AppendIs, SeqIs
<1> HIDE DEF r
<1>5. DOMAIN st \subseteq DOMAIN r
  BY <1>1, <1>4
<1>6. TakenOf(r) = TakenOf(st)
  BY <1>2, <1>3, <1>5 DEF TakenOf
<1>7. QED
  BY <1>6 DEF r

\* BEGIN.
LEMMA BeginKeys ==
  ASSUME RowInv, KeysInv, NEW s \in Sessions, NEW level, Begin(s, level)
  PROVE  KeysOK(catalog', heap', TakenOf(status'), session')
<1> DEFINE mine == [Idle EXCEPT !.tx = Len(status) + 1, !.snap = Taken, !.level = level, !.explicit = TRUE]
           T == TakenOf(status)
<1>1. /\ status' = Append(status, "active") /\ session' = [session EXCEPT ![s] = mine]
      /\ heap' = heap /\ catalog' = catalog
  BY DEF Begin
<1>2. TakenOf(status') = T
  BY <1>1, TakenBegun DEF RowInv
<1>3. mine.snap = T /\ mine.writing = FALSE /\ mine.stmt = NoStatement
  BY DEF Idle, Taken, TakenOf
<1>4. Clean(catalog, heap, NoTx, T, {}) /\ \A o \in Sessions : SessionKeys(session[o], catalog, heap, T)
  BY DEF KeysInv, KeysOK
<1> HIDE DEF mine, T
<1>5. SessionKeys(mine, catalog, heap, T)
  BY <1>3, <1>4 DEF SessionKeys, Running
<1>6. KeysOK(catalog, heap, T, [session EXCEPT ![s] = mine])
  BY <1>3, <1>4, <1>5, KeysMove
<1>7. QED
  BY <1>1, <1>2, <1>6, Zenon

\* The session that a statement of its own is for sees what has been committed.
LEMMA EnteredKeys ==
  ASSUME RowInv, KeysInv, Orderly, NEW s \in Sessions, MayStart(s)
  PROVE  /\ Clean(catalog, heap, NoTx, Taken, {}) /\ Clean(catalog, heap, Entered(s).tx, Taken, {})
         /\ Entered(s).snap = Taken /\ Entered(s).failed = FALSE
         /\ \A o \in Sessions : o # s => ~session[o].writing
<1> DEFINE me == session[s]
<1>1. /\ ~Running(me) /\ ~me.failed /\ OtherWriters(s) = {} /\ Entered(s).snap = Taken
  BY DEF MayStart, Orderly
<1>2. TakenOf(status) = Taken
  BY DEF TakenOf, Taken
<1>3. /\ SessionOK(me, heap, catalog, status) /\ StatusOK(status) /\ HeapOK(heap, catalog, Len(status))
      /\ Clean(catalog, heap, NoTx, TakenOf(status), {}) /\ SessionKeys(me, catalog, heap, TakenOf(status))
      /\ Len(status) \in Nat
  BY SeqIs DEF RowInv, SessionsOK, KeysInv, KeysOK, StatusOK
<1>4. Clean(catalog, heap, Entered(s).tx, Taken, {}) /\ Entered(s).failed = FALSE
  <2>1. CASE me.explicit
    <3>1. Entered(s).tx = me.tx /\ me.tx # NoTx
      BY <2>1, EnteredIs
    <3>2. Entered(s) = [me EXCEPT !.snap = IF me.level = "RC" THEN Taken ELSE @, !.writing = TRUE]
      BY <2>1 DEF Entered
    <3>3. DOMAIN me = SessionFields
      BY <1>3 DEF SessionOK
    <3> HIDE DEF me
    <3>4. Entered(s).failed = me.failed
      BY <3>2, <3>3 DEF SessionFields
    <3>5. Clean(catalog, heap, me.tx, TakenOf(status), {})
      BY <1>1, <1>3, <3>1, ViewsClean
    <3>6. QED
      BY <1>1, <1>2, <3>1, <3>4, <3>5
  <2>2. CASE ~me.explicit
    <3>1. Entered(s) = [Idle EXCEPT !.tx = Len(status) + 1, !.snap = Taken, !.writing = TRUE]
      BY <2>2 DEF Entered
    <3> DEFINE id == Len(status) + 1
    <3>2. Entered(s).tx = id /\ Entered(s).failed = FALSE
      BY <3>1 DEF Idle
    <3>3. Blank(heap, id)
      BY FreshIs
    <3> HIDE DEF id
    <3>4. \A h \in DOMAIN heap : Seen(heap[h], id, Taken) = Seen(heap[h], NoTx, Taken)
      BY <1>3, <3>3, BlankSeen
    <3>5. Clean(catalog, heap, id, Taken, {})
      BY <1>2, <1>3, <3>4, SameClean
    <3>6. QED
      BY <3>2, <3>5
  <2>3. QED
    BY <2>1, <2>2
<1>5. QED
  BY <1>1, <1>2, <1>3, <1>4 DEF OtherWriters

\* Fewer tables have to be clean.
LEMMA FewerClean ==
  ASSUME NEW c, NEW hp, NEW id, NEW snap, NEW D, Clean(c, hp, id, snap, {})
  PROVE  Clean(c, hp, id, snap, D)
BY DEF Clean

\* A statement that begins.
LEMMA StartKeys ==
  ASSUME RowInv, KeysInv, Orderly, NEW s \in Sessions, NEW stmt, Start(s, stmt)
  PROVE  KeysOK(catalog', heap', TakenOf(status'), session')
<1> DEFINE me == Entered(s)
           h == Lookup(catalog, stmt.table)
           q == Calls(stmt, h, me.tx, me.snap)
           before == [g \in DOMAIN heap |-> ScanOf(heap[g], me.tx, me.snap)]
           mine == [me EXCEPT !.stmt = stmt, !.h = h, !.agenda = q, !.before = before]
           T == TakenOf(status)
<1>1. /\ MayStart(s) /\ status' = (IF me.explicit THEN status ELSE Append(status, "active"))
      /\ session' = [session EXCEPT ![s] = mine] /\ heap' = heap /\ catalog' = catalog
  BY DEF Start, Calls, Once
<1>2. TakenOf(status') = T
  <2>1. TakenOf(Append(status, "active")) = T
    BY TakenBegun DEF RowInv
  <2>2. QED
    BY <1>1, <2>1
<1>3. DOMAIN me = SessionFields
  BY EnteredIs
<1>4. /\ Clean(catalog, heap, NoTx, T, {}) /\ Clean(catalog, heap, me.tx, T, {})
      /\ me.snap = T /\ me.failed = FALSE /\ \A o \in Sessions : o # s => ~session[o].writing
  <2>1. T = Taken
    BY DEF Taken, TakenOf
  <2>2. QED
    BY <1>1, <2>1, EnteredKeys
<1> HIDE DEF me, q, before, T
<1>5. mine.snap = me.snap /\ mine.tx = me.tx /\ mine.failed = me.failed
  BY <1>3 DEF SessionFields
<1> HIDE DEF mine
<1>6. Known(heap, T, T)
  BY DEF Known
<1>7. SessionKeys(mine, catalog, heap, T)
  BY <1>4, <1>5, <1>6, FewerClean DEF SessionKeys
<1>8. \A o \in Sessions : SessionKeys(session[o], catalog, heap, T)
  BY DEF KeysInv, KeysOK, T
<1>9. KeysOK(catalog, heap, T, [session EXCEPT ![s] = mine])
  BY <1>4, <1>7, <1>8, KeysMove
<1>10. QED
  BY <1>1, <1>2, <1>9, Zenon

\* Others go on as they were, when a transaction they do not see is committed.
LEMMA CommitKnown ==
  ASSUME NEW hp, NEW T, NEW snap, Known(hp, T, snap), NEW id, Blank(hp, id)
  PROVE  Known(hp, T \cup {id}, snap)
BY DEF Known, Blank

\* The end of a transaction.
LEMMA EndKeys ==
  ASSUME RowInv, KeysInv, NEW s \in Sessions, session[s].tx # NoTx, NEW o \in {"committed", "aborted"},
         o = "committed" => Clean(catalog, heap, session[s].tx, Taken, {})
  PROVE  KeysOK(catalog, heap, TakenOf([status EXCEPT ![session[s].tx] = o]), [session EXCEPT ![s] = Idle])
<1> DEFINE id == session[s].tx
           T == TakenOf(status)
           T2 == TakenOf([status EXCEPT ![session[s].tx] = o])
<1>1. id \in DOMAIN status /\ status[id] = "active" /\ id # NoTx
  BY OwnerIs
<1>2. T2 = IF o = "committed" THEN T \cup {id} ELSE T
  BY <1>1 DEF TakenOf
<1>3. /\ Clean(catalog, heap, NoTx, T, {}) /\ (o = "committed" => Clean(catalog, heap, id, T, {}))
      /\ \A p \in Sessions : SessionKeys(session[p], catalog, heap, T)
      /\ \A p \in Sessions : session[s].writing /\ session[p].writing => s = p
  BY DEF KeysInv, KeysOK, Taken, TakenOf
<1>4. /\ HeapOK(heap, catalog, Len(status)) /\ Len(status) \in Nat
      /\ ~session[s].writing => Blank(heap, id)
  BY <1>1, SeqIs DEF RowInv, StatusOK, SessionsOK, SessionOK
<1> HIDE DEF id, T, T2
<1>5. Clean(catalog, heap, NoTx, T2, {})
  <2>1. CASE o = "committed"
    <3>1. \A h \in DOMAIN heap : Seen(heap[h], NoTx, T \cup {id}) = Seen(heap[h], id, T)
      BY <1>1, <1>4, SettledSeen
    <3>2. Clean(catalog, heap, NoTx, T \cup {id}, {})
      BY <1>3, <2>1, <3>1, SameClean
    <3>3. QED
      BY <1>2, <2>1, <3>2
  <2>2. CASE o # "committed"
    BY <1>2, <1>3, <2>2
  <2>3. QED
    BY <2>1, <2>2
<1>6. ASSUME NEW p \in Sessions, p # s
      PROVE  SessionKeys(session[p], catalog, heap, T2)
  <2> DEFINE me == session[p]
             snap == me.snap
  <2>1. SessionKeys(me, catalog, heap, T)
    BY <1>3
  <2>2. me.writing => Known(heap, T, snap) /\ Blank(heap, id)
    BY <1>3, <1>4, <1>6, <2>1 DEF SessionKeys
  <2> HIDE DEF me, snap
  <2>3. me.writing => Known(heap, T2, snap)
    BY <1>2, <2>2, CommitKnown
  <2>4. SessionKeys(me, catalog, heap, T2)
    BY <2>1, <2>3 DEF SessionKeys, snap
  <2>5. QED
    BY <2>4 DEF me
<1>7. KeysOK(catalog, heap, T2, [session EXCEPT ![s] = Idle])
  BY <1>5, <1>6, IdleKeys, KeysMove
<1>8. QED
  BY <1>7 DEF T2

\* COMMIT and ROLLBACK.
LEMMA CommitKeys ==
  ASSUME RowInv, KeysInv, NEW s \in Sessions, Commit(s) \/ Rollback(s)
  PROVE  KeysOK(catalog', heap', TakenOf(status'), session')
<1> DEFINE me == session[s]
<1>1. PICK o \in {"committed", "aborted"} :
        /\ status' = [status EXCEPT ![me.tx] = o] /\ session' = [session EXCEPT ![s] = Idle]
        /\ heap' = heap /\ catalog' = catalog /\ (o = "committed" => ~me.failed)
  BY DEF Commit, Rollback
<1>2. me.explicit /\ ~Running(me)
  BY DEF Commit, Rollback
<1>3. /\ SessionOK(me, heap, catalog, status) /\ StatusOK(status) /\ HeapOK(heap, catalog, Len(status))
      /\ Clean(catalog, heap, NoTx, TakenOf(status), {}) /\ SessionKeys(me, catalog, heap, TakenOf(status))
      /\ me.tx # NoTx
  BY <1>2 DEF RowInv, SessionsOK, SessionOK, KeysInv, KeysOK
<1>4. TakenOf(status) = Taken
  BY DEF TakenOf, Taken
<1>5. ~me.failed => Clean(catalog, heap, me.tx, Taken, {})
  <2> HIDE DEF me
  <2>1. QED
    BY <1>2, <1>3, <1>4, ViewsClean
<1>6. KeysOK(catalog, heap, TakenOf([status EXCEPT ![me.tx] = o]), [session EXCEPT ![s] = Idle])
  BY <1>1, <1>3, <1>5, EndKeys
<1>7. QED
  BY <1>1, <1>6, Zenon

\* What a statement leaves that has passed its checks.
LEMMA AcceptedClean ==
  ASSUME RowInv, NEW me, Clean(catalog, heap, me.tx, me.snap, Checked(me.stmt, me.h, me.wrote)), Accepted(me)
  PROVE  Clean(catalog, heap, me.tx, me.snap, {})
<1> SUFFICES ASSUME NEW h \in DOMAIN heap, h \in Checked(me.stmt, me.h, me.wrote)
             PROVE  Distinct(catalog.tables[h], heap[h], Seen(heap[h], me.tx, me.snap))
  BY DEF Clean
<1> DEFINE t == catalog.tables[h]
           rows == RowsOf(t, heap[h], me.tx, me.snap)
           P == Seen(heap[h], me.tx, me.snap)
<1>1. TableShape(t)
  BY DEF RowInv, CatInv, CatalogShape, HeapOK
<1>2. checkUnique(t, rows)
  <2>1. CheckTable(World(me), me, h)
    BY DEF Accepted
  <2>2. World(me).catalog = catalog /\ World(me).heap = heap
    BY DEF World
  <2>3. Rows(World(me), me, h) = rows
    BY <2>2 DEF Rows
  <2>4. QED
    BY <2>1, <2>2, <2>3, Zenon DEF CheckTable
<1>3. rows = [i \in P |-> Row(t, heap[h], i)]
  BY DEF RowsOf, Row
<1> HIDE DEF t, rows, P
<1>4. Distinct(t, heap[h], P)
  BY <1>1, <1>2, <1>3, DistinctIs
<1>5. QED
  BY <1>4 DEF t, P

\* A statement that is over, in a transaction that stays or in its own.
LEMMA OverKeys ==
  ASSUME RowInv, KeysInv, NEW s \in Sessions, Running(session[s]),
         \/ Fails(s, session[s])
         \/ Succeeds(s, session[s]) /\ Clean(catalog, heap, session[s].tx, session[s].snap, {})
  PROVE  KeysOK(catalog, heap, TakenOf(status'), session')
<1> DEFINE me == session[s]
           rest == AtRest(me)
           failed == [rest EXCEPT !.failed = TRUE]
           T == TakenOf(status)
<1>1. SessionOK(me, heap, catalog, status) /\ DOMAIN me = SessionFields /\ me.writing /\ me.tx # NoTx
  BY DEF RowInv, SessionsOK, SessionOK
<1>2. /\ Clean(catalog, heap, NoTx, T, {}) /\ \A o \in Sessions : SessionKeys(session[o], catalog, heap, T)
      /\ \A o \in Sessions : session[o].writing => o = s
  BY <1>1 DEF KeysInv, KeysOK
<1>3. CASE me.explicit /\ Fails(s, me)
  <2>1. status' = status /\ session' = [session EXCEPT ![s] = failed]
    BY <1>3 DEF Fails
  <2>2. DOMAIN rest = SessionFields /\ ~Running(rest) /\ rest.writing /\ rest.tx = me.tx /\ rest.snap = me.snap
    BY <1>1, RestIs
  <2> HIDE DEF rest
  <2>3. /\ failed.tx = me.tx /\ failed.snap = me.snap /\ failed.failed = TRUE /\ ~Running(failed)
        /\ failed.writing = rest.writing
    BY <2>2 DEF SessionFields, Running
  <2> HIDE DEF failed
  <2>4. SessionKeys(failed, catalog, heap, T)
    BY <1>1, <1>2, <2>3 DEF SessionKeys
  <2> HIDE DEF T
  <2>5. KeysOK(catalog, heap, T, [session EXCEPT ![s] = failed])
    BY <1>2, <2>4, KeysMove
  <2>6. QED
    BY <2>1, <2>5, Zenon DEF T
<1>4. CASE me.explicit /\ Succeeds(s, me) /\ Clean(catalog, heap, me.tx, me.snap, {})
  <2>1. status' = status /\ session' = [session EXCEPT ![s] = rest]
    BY <1>4 DEF Succeeds
  <2>2. ~Running(rest) /\ rest.writing /\ rest.tx = me.tx /\ rest.snap = me.snap
    BY <1>1, RestIs
  <2> HIDE DEF rest
  <2>3. SessionKeys(rest, catalog, heap, T)
    BY <1>1, <1>2, <1>4, <2>2 DEF SessionKeys, Dirty
  <2> HIDE DEF T
  <2>4. KeysOK(catalog, heap, T, [session EXCEPT ![s] = rest])
    BY <1>2, <2>3, KeysMove
  <2>5. QED
    BY <2>1, <2>4, Zenon DEF T
<1>5. CASE ~me.explicit /\ Fails(s, me)
  <2>1. status' = [status EXCEPT ![me.tx] = "aborted"] /\ session' = [session EXCEPT ![s] = Idle]
    BY <1>5 DEF Fails
  <2>2. KeysOK(catalog, heap, TakenOf([status EXCEPT ![me.tx] = "aborted"]), [session EXCEPT ![s] = Idle])
    BY <1>1, EndKeys
  <2>3. QED
    BY <2>1, <2>2, Zenon
<1>6. CASE ~me.explicit /\ Succeeds(s, me) /\ Clean(catalog, heap, me.tx, me.snap, {})
  <2>1. status' = [status EXCEPT ![me.tx] = "committed"] /\ session' = [session EXCEPT ![s] = Idle]
    BY <1>6 DEF Succeeds
  <2>2. Clean(catalog, heap, me.tx, Taken, {})
    <3> DEFINE snap == me.snap
               id == me.tx
    <3>1. Known(heap, T, snap) /\ snap \subseteq T /\ T = Taken /\ Clean(catalog, heap, id, snap, {})
      BY <1>1, <1>2, <1>6 DEF SessionKeys, SessionOK, TakenOf, Taken
    <3> HIDE DEF snap, id, T
    <3>2. \A h \in DOMAIN heap : Seen(heap[h], id, T) = Seen(heap[h], id, snap)
      BY <3>1, KnownSeen
    <3>3. Clean(catalog, heap, id, T, {})
      BY <3>1, <3>2, SameClean
    <3>4. QED
      BY <3>1, <3>3 DEF id
  <2>3. KeysOK(catalog, heap, TakenOf([status EXCEPT ![me.tx] = "committed"]), [session EXCEPT ![s] = Idle])
    BY <1>1, <2>2, EndKeys
  <2>4. QED
    BY <2>1, <2>3, Zenon
<1>7. QED
  BY <1>3, <1>4, <1>5, <1>6

\* The checks at the end of a statement.
LEMMA FinishKeys ==
  ASSUME RowInv, KeysInv, NEW s \in Sessions, Finish(s)
  PROVE  KeysOK(catalog', heap', TakenOf(status'), session')
<1> DEFINE me == session[s]
<1>1. /\ Running(me) /\ heap' = heap /\ catalog' = catalog
      /\ Fails(s, me) \/ (Succeeds(s, me) /\ Accepted(me))
  BY DEF Finish
<1>2. Clean(catalog, heap, me.tx, me.snap, Checked(me.stmt, me.h, me.wrote))
  <2>1. me.writing /\ SessionKeys(me, catalog, heap, TakenOf(status))
    BY <1>1 DEF RowInv, SessionsOK, SessionOK, KeysInv, KeysOK
  <2>2. QED
    BY <1>1, <2>1 DEF SessionKeys, Dirty
<1>3. Accepted(me) => Clean(catalog, heap, me.tx, me.snap, {})
  <2> HIDE DEF me
  <2>1. QED
    BY <1>2, AcceptedClean
<1>4. KeysOK(catalog, heap, TakenOf(status'), session')
  BY <1>1, <1>3, OverKeys
<1>5. QED
  BY <1>1, <1>4, Zenon

(***************************************************************************)
(* What a call writes.                                                     *)
(***************************************************************************)

\* The tables it has written to are still among those to check, and it took a row
\* away, or wrote to a table that will be checked, or let go of a reference.
Writes(w, x, me, h, v) ==
  /\ w.wrote \subseteq x.wrote
  /\ \/ x.heap = w.heap
     \/ x.heap = AfterDelete(w.heap, h, v, me.tx)
     \/ h \in Checked(me.stmt, me.h, x.wrote)
     \/ /\ v \in Seen(w.heap[h], me.tx, me.snap)
        /\ \E f \in DOMAIN w.catalog.tables[h].foreignKeys : \E new :
             /\ LetGo(w.catalog.tables[h], f, Row(w.catalog.tables[h], w.heap[h], v), new)
             /\ x.heap = AfterUpdate(w.heap, h, v, new, me.tx)

\* The writes themselves: a removal, ...
LEMMA DeleteLeaves ==
  ASSUME NEW w, DOMAIN w = WorldFields, NEW me, NEW h, NEW v
  PROVE  /\ Failed(w).wrote = w.wrote /\ Failed(w).heap = w.heap
         /\ HeapDelete(w, me, h, v).wrote = w.wrote
         /\ HeapDelete(w, me, h, v).heap \in {w.heap, AfterDelete(w.heap, h, v, me.tx)}
<1>1. Failed(w).wrote = w.wrote /\ Failed(w).heap = w.heap
  BY DEF Failed, WorldFields
<1>2. \A hp : [w EXCEPT !.heap = hp].wrote = w.wrote /\ [w EXCEPT !.heap = hp].heap = hp
  BY DEF WorldFields
<1>3. \A row : HeapDelete(w, me, h, v) \in {Failed(w), [w EXCEPT !.heap = AfterDelete(w.heap, h, v, me.tx)]}
  BY WritesAre
<1>4. QED
  BY <1>1, <1>2, <1>3

\* ... and a row that is written.
LEMMA RowLeaves ==
  ASSUME NEW w, DOMAIN w = WorldFields, NEW me, NEW h, NEW v, NEW row
  PROVE  /\ Insert(w, me, h, row).wrote = w.wrote
         /\ Update(w, me, h, v, row).wrote = w.wrote
         /\ Update(w, me, h, v, row).heap \in {w.heap, AfterUpdate(w.heap, h, v, row, me.tx)}
<1>1. Failed(w).wrote = w.wrote /\ Failed(w).heap = w.heap
  BY DEF Failed, WorldFields
<1>2. \A hp : [w EXCEPT !.heap = hp].wrote = w.wrote /\ [w EXCEPT !.heap = hp].heap = hp
  BY DEF WorldFields
<1>3. Insert(w, me, h, row) \in {Failed(w), [w EXCEPT !.heap = AfterInsert(w.heap, h, row, me.tx)]}
  BY WritesAre
<1>4. Update(w, me, h, v, row) \in {Failed(w), [w EXCEPT !.heap = AfterUpdate(w.heap, h, v, row, me.tx)]}
  BY WritesAre
<1>5. QED
  BY <1>1, <1>2, <1>3, <1>4

\* A row of the statement's own table: nothing yet.
LEMMA RowWrites ==
  ASSUME NEW w, DOMAIN w = WorldFields, NEW me, NEW s, NEW c
  PROVE  execRow(w, me, s, c).wrote = w.wrote /\ execRow(w, me, s, c).heap = w.heap
<1> DEFINE fresh == [w EXCEPT !.seen = {}]
           x == execRow(w, me, s, c)
<1>1. x \in {w, Failed(w)} \/ \E calls : x = Then(fresh, calls)
  BY Zenon DEF execRow
<1>2. DOMAIN fresh = WorldFields /\ fresh.wrote = w.wrote /\ fresh.heap = w.heap
  BY DEF WorldFields
<1> HIDE DEF fresh, x
<1>3. \A calls : Then(fresh, calls).wrote = fresh.wrote /\ Then(fresh, calls).heap = fresh.heap
  BY <1>2 DEF Then, WorldFields
<1>4. Failed(w).wrote = w.wrote /\ Failed(w).heap = w.heap
  BY DEF Failed, WorldFields
<1>5. QED
  BY <1>1, <1>2, <1>3, <1>4 DEF x

\* A row to insert, into the statement's table.
LEMMA StoreWrites ==
  ASSUME NEW w, WorldOK(w), NEW me, NEW s, NEW c, c.h \in Present(w.catalog)
  PROVE  store(w, me, s, c).wrote = w.wrote
<1> DEFINE drawn == Drawn(w, s, c)
           x == store(w, me, s, c)
<1>1. DOMAIN drawn = WorldFields /\ drawn.wrote = w.wrote
  BY DrawnIs
<1>2. \/ \E existing, row : x = resolve(drawn, me, s, c, existing, row)
      \/ x = Failed(drawn)
      \/ \E row : x = Insert(drawn, me, c.h, row)
  BY Zenon DEF store, Drawn
<1> HIDE DEF drawn, x
<1>3. \A existing, row : \/ resolve(drawn, me, s, c, existing, row) \in {drawn, Failed(drawn)}
                         \/ \E next : resolve(drawn, me, s, c, existing, row) = Update(drawn, me, c.h, existing, next)
  BY Zenon DEF resolve
<1>4. /\ Failed(drawn).wrote = w.wrote
      /\ \A v, row : /\ Insert(drawn, me, c.h, row).wrote = w.wrote
                      /\ Update(drawn, me, c.h, v, row).wrote = w.wrote
  BY <1>1, DeleteLeaves, RowLeaves
<1>5. QED
  BY <1>1, <1>2, <1>3, <1>4 DEF x

\* A table that is written to will be checked, if it is not the statement's or the
\* statement is no DELETE.
LEMMA CheckedIs ==
  ASSUME NEW s, NEW own, NEW wrote, NEW h
  PROVE  h \in Checked(s, own, wrote) <=> (s.op # "delete" /\ h = own) \/ (h \in wrote /\ h # own)
BY DEF Checked

\* A row that refers to one that changes or goes.
LEMMA ChildWrites ==
  ASSUME NEW w, NEW me, NEW c, Calling(w, me, c), c.call = "child"
  PROVE  Writes(w, applyRefAction(w, me, c), me, c.h, c.v)
<1> DEFINE h == c.h
           v == c.v
           t == w.catalog.tables[h]
           fk == t.foreignKeys[c.fk]
           cur == Current(w, h, v)
           action == IF c.next = <<>> THEN fk.onDelete ELSE fk.onUpdate
           marked == [w EXCEPT !.seen = @ \cup {<<h, v>>}, !.wrote = @ \cup {h}]
           moved == follow(fk, cur, c.next)
           new == refReplacement(t, fk.cols, action, cur)
           after == Update(marked, me, h, v, moved)
           replaced == Update(marked, me, h, v, new)
           gone == Append(applyRefActions(marked, me, h, cur, <<>>), RemoveCall(h, v))
           told == applyRefActions(after, me, h, cur, moved)
           x == applyRefAction(w, me, c)
           lets == action \in {"set null", "set default"}
<1>1. /\ DOMAIN w = WorldFields /\ (me.stmt.op = "delete" => c.next = <<>>)
      /\ <<h, v>> \in w.seen \/ v \in Seen(w.heap[h], me.tx, me.snap)
      /\ c.fk \in DOMAIN t.foreignKeys
  BY DEF Calling, CallOK, WorldOK
<1>2. \/ x \in {w, Failed(w)} \/ x = Then(marked, gone)
      \/ <<h, v>> \notin w.seen /\ lets /\ x = replaced
      \/ c.next # <<>> /\ x \in {after, Then(after, told)}
  BY ChildCases, Zenon
<1>3. DOMAIN marked = WorldFields /\ marked.wrote = w.wrote \cup {h} /\ marked.heap = w.heap
  BY <1>1 DEF WorldFields
<1> HIDE DEF marked, new, moved, gone, told, x
<1>4. /\ Failed(w).wrote = w.wrote /\ Failed(w).heap = w.heap
      /\ \A row : /\ Update(marked, me, h, v, row).wrote = w.wrote \cup {h}
                  /\ Update(marked, me, h, v, row).heap \in {w.heap, AfterUpdate(w.heap, h, v, row, me.tx)}
  BY <1>1, <1>3, DeleteLeaves, RowLeaves
<1>5. Then(marked, gone).wrote = w.wrote \cup {h} /\ Then(marked, gone).heap = w.heap
  BY <1>3 DEF Then, WorldFields
<1>6. after.wrote = w.wrote \cup {h} /\ Then(after, told).wrote = after.wrote
  <2>1. DOMAIN after = WorldFields
    BY <1>3, EndsKeep DEF Keeps, WorldFields
  <2>2. Then(after, told).wrote = after.wrote
    <3> HIDE DEF after
    <3>1. QED
      BY <2>1 DEF Then, WorldFields
  <2>3. QED
    BY <1>4, <2>2
<1>7. replaced.wrote = w.wrote \cup {h} /\ replaced.heap \in {w.heap, AfterUpdate(w.heap, h, v, new, me.tx)}
  BY <1>4
<1> HIDE DEF after, replaced, lets
<1>8. CASE x \in {w, Failed(w)} \/ x = Then(marked, gone)
  BY <1>4, <1>5, <1>8 DEF Writes, x
<1>9. CASE c.next # <<>> /\ x \in {after, Then(after, told)}
  <2>1. me.stmt.op # "delete" /\ x.wrote = w.wrote \cup {h}
    BY <1>1, <1>6, <1>9
  <2>2. h \in Checked(me.stmt, me.h, x.wrote)
    BY <2>1, CheckedIs
  <2>3. QED
    BY <2>1, <2>2 DEF Writes, x
<1>10. CASE <<h, v>> \notin w.seen /\ lets /\ x = replaced
  <2>1. x.wrote = w.wrote \cup {h} /\ x.heap \in {w.heap, AfterUpdate(w.heap, h, v, new, me.tx)}
    BY <1>7, <1>10
  <2>2. CASE me.stmt.op = "delete" /\ h = me.h
    <3>1. action = fk.onDelete
      BY <1>1, <2>2
    <3>2. cur = Row(t, w.heap[h], v)
      BY Zenon DEF Current, Row
    <3>3. new = refReplacement(t, fk.cols, fk.onDelete, Row(t, w.heap[h], v))
      BY <3>1, <3>2 DEF new
    <3>4. fk.onDelete \in {"set null", "set default"}
      BY <1>10, <3>1 DEF lets
    <3>5. LetGo(t, c.fk, Row(t, w.heap[h], v), new)
      BY <3>3, <3>4 DEF LetGo
    <3>6. v \in Seen(w.heap[h], me.tx, me.snap)
      BY <1>1, <1>10
    <3>7. QED
      BY <1>1, <2>1, <3>5, <3>6 DEF Writes, x
  <2>3. CASE ~(me.stmt.op = "delete" /\ h = me.h)
    <3>1. h \in Checked(me.stmt, me.h, x.wrote)
      BY <2>1, <2>3, CheckedIs
    <3>2. QED
      BY <2>1, <3>1 DEF Writes, x
  <2>4. QED
    BY <2>2, <2>3
<1>11. QED
  BY <1>2, <1>8, <1>9, <1>10

\* Any call.
LEMMA CallWrites ==
  ASSUME NEW w, NEW me, NEW c, Calling(w, me, c)
  PROVE  Writes(w, execCall(w, me, me.stmt, c), me, c.h, c.v)
<1> DEFINE s == me.stmt
           x == execCall(w, me, s, c)
           h == c.h
<1>1. /\ DOMAIN w = WorldFields /\ WorldOK(w) /\ h \in Present(w.catalog)
      /\ c.call \in {"row", "write", "store", "child", "remove"} /\ (Own(c) => h = me.h)
      /\ s.op = "delete" => c.next = <<>> /\ c.call # "store"
  BY DEF Calling, CallOK, WorldOK
<1>2. CASE c.call = "row"
  <2>1. x = execRow(w, me, s, c)
    BY <1>2 DEF execCall
  <2>2. x.wrote = w.wrote /\ x.heap = w.heap
    BY <1>1, <2>1, RowWrites
  <2> HIDE DEF x
  <2>3. QED
    BY <2>2 DEF Writes, x
<1>3. CASE c.call = "write"
  <2>1. x = execWrite(w, me, c)
    BY <1>3 DEF execCall
  <2>2. x \in {HeapDelete(w, me, h, c.v), Update(w, me, h, c.v, c.next)} /\ (c.next = <<>> => x = HeapDelete(w, me, h, c.v))
    BY <2>1 DEF execWrite
  <2>3. x.wrote = w.wrote /\ (c.next = <<>> => x.heap \in {w.heap, AfterDelete(w.heap, h, c.v, me.tx)})
    BY <1>1, <2>2, DeleteLeaves, RowLeaves
  <2> HIDE DEF x
  <2>4. c.next # <<>> => h \in Checked(s, me.h, x.wrote)
    BY <1>1, <1>3, CheckedIs DEF Own
  <2>5. QED
    BY <2>3, <2>4 DEF Writes, x
<1>4. CASE c.call = "child"
  <2>1. x = applyRefAction(w, me, c)
    BY <1>4 DEF execCall
  <2> HIDE DEF x
  <2>2. QED
    BY <1>4, <2>1, ChildWrites DEF x
<1>5. CASE c.call = "remove"
  <2>1. x = HeapDelete(w, me, h, c.v)
    BY <1>5 DEF execCall
  <2>2. x.wrote = w.wrote /\ x.heap \in {w.heap, AfterDelete(w.heap, h, c.v, me.tx)}
    BY <1>1, <2>1, DeleteLeaves
  <2> HIDE DEF x
  <2>3. QED
    BY <2>2 DEF Writes, x
<1>6. CASE c.call = "store"
  <2>1. x = store(w, me, s, c)
    BY <1>6 DEF execCall
  <2>2. x.wrote = w.wrote
    BY <1>1, <2>1, StoreWrites
  <2> HIDE DEF x
  <2>3. h \in Checked(s, me.h, x.wrote)
    BY <1>1, <1>6, CheckedIs DEF Own
  <2>4. QED
    BY <2>2, <2>3 DEF Writes, x
<1>7. QED
  BY <1>1, <1>2, <1>3, <1>4, <1>5, <1>6

\* What the session sees is distinct, all but what it has to check: the table it has
\* written to is as it was, or has lost a row, or let go of one.
LEMMA WritesClean ==
  ASSUME NEW w, WorldOK(w), StatusOK(status), NEW me, me.tx # NoTx, NEW h \in Present(w.catalog), NEW v,
         NEW x, Writes(w, x, me, h, v), Heaps(w, x, me, h),
         \A g \in DOMAIN w.catalog.tables : NoDefaults(w.catalog.tables[g]),
         Clean(w.catalog, w.heap, me.tx, me.snap, Checked(me.stmt, me.h, w.wrote))
  PROVE  Clean(w.catalog, x.heap, me.tx, me.snap, Checked(me.stmt, me.h, x.wrote))
<1> DEFINE hp == w.heap
           hp2 == x.heap
           c == w.catalog
           t == c.tables[h]
           q == hp[h]
           n == Len(status)
           width == Width(c, h)
           id == me.tx
           snap == me.snap
           D == Checked(me.stmt, me.h, w.wrote)
           E == Checked(me.stmt, me.h, x.wrote)
<1>1. /\ CatalogShape(c) /\ AllKeyed(c) /\ HeapOK(hp, c, n) /\ n \in Nat /\ h \in DOMAIN c.tables
      /\ DOMAIN hp = DOMAIN c.tables
  BY PresentIs, SeqIs DEF WorldOK, StatusOK, HeapOK
<1>2. TableShape(t) /\ Keyed(t) /\ NoDefaults(t) /\ VersionsOK(q, n, width)
  BY <1>1 DEF CatalogShape, AllKeyed, HeapOK
<1>3. DOMAIN hp2 = DOMAIN hp /\ \A g \in DOMAIN hp : g # h => hp2[g] = hp[g]
  BY DEF Heaps, Touched
<1>4. D \subseteq E
  BY DEF Writes, Checked
<1>5. \/ hp2 = hp
      \/ hp2 = AfterDelete(hp, h, v, id)
      \/ h \in E
      \/ v \in Seen(q, id, snap) /\ \E f \in DOMAIN t.foreignKeys : \E new :
           LetGo(t, f, Row(t, q, v), new) /\ hp2 = AfterUpdate(hp, h, v, new, id)
  BY Zenon DEF Writes
<1>6. Clean(c, hp, id, snap, D)
  OBVIOUS
<1>7. h \notin D => Distinct(t, q, Seen(q, id, snap))
  BY <1>1, <1>6 DEF Clean
<1>8. id # NoTx
  OBVIOUS
<1> HIDE DEF hp, hp2, c, t, q, n, width, id, snap, D, E
<1>9. ASSUME h \notin E
      PROVE  Distinct(t, hp2[h], Seen(hp2[h], id, snap))
  <2>1. Distinct(t, q, Seen(q, id, snap))
    BY <1>4, <1>7, <1>9
  <2>2. CASE hp2 = hp
    BY <2>1, <2>2 DEF q
  <2>3. CASE hp2 = AfterDelete(hp, h, v, id)
    <3>1. hp2[h] = Ended(q, v, id)
      BY <1>1, <2>3 DEF AfterDelete, q
    <3>2. QED
      BY <1>1, <1>2, <1>8, <2>1, <3>1, DeleteDistinct
  <2>4. CASE v \in Seen(q, id, snap) /\ \E f \in DOMAIN t.foreignKeys : \E new :
               LetGo(t, f, Row(t, q, v), new) /\ hp2 = AfterUpdate(hp, h, v, new, id)
    <3>1. PICK f \in DOMAIN t.foreignKeys : \E new :
                 LetGo(t, f, Row(t, q, v), new) /\ hp2 = AfterUpdate(hp, h, v, new, id)
      BY <2>4
    <3>2. PICK new : LetGo(t, f, Row(t, q, v), new) /\ hp2 = AfterUpdate(hp, h, v, new, id)
      BY <3>1
    <3>3. hp2[h] = Renewed(q, v, new, id)
      BY <1>1, <3>2 DEF AfterUpdate, Renewed, q
    <3> DEFINE r == hp2[h]
    <3>4. r = Renewed(q, v, new, id)
      BY <3>3
    <3> HIDE DEF r
    <3>5. Distinct(t, r, Seen(r, id, snap))
      BY <1>1, <1>2, <1>8, <2>1, <2>4, <3>2, <3>4, ReplacedDistinct
    <3>6. QED
      BY <3>5 DEF r
  <2>5. QED
    BY <1>5, <1>9, <2>2, <2>3, <2>4
<1>10. ASSUME NEW g \in DOMAIN hp2 \ E
       PROVE  Distinct(c.tables[g], hp2[g], Seen(hp2[g], id, snap))
  <2>1. CASE g = h
    BY <1>9, <1>10, <2>1 DEF t
  <2>2. CASE g # h
    BY <1>3, <1>4, <1>6, <2>2 DEF Clean
  <2>3. QED
    BY <2>1, <2>2
<1>11. Clean(c, hp2, id, snap, E)
  BY <1>10 DEF Clean
<1>12. QED
  BY <1>11 DEF c, hp2, id, snap, E

\* What a transaction writes that has not been committed hides nothing that has.
LEMMA WrittenKnown ==
  ASSUME NEW hp, NEW c, NEW n \in Nat, HeapOK(hp, c, n), NEW hp2, NEW id, NEW d, Written(hp, hp2, id, d),
         NEW T, id \notin T, NoTx \notin T, NEW snap, Known(hp, T, snap)
  PROVE  Known(hp2, T, snap)
<1>1. CASE hp2 = hp
  BY <1>1
<1>2. CASE hp2 # hp
  <2>1. PICK h : \E v : Touched(hp, hp2, h, v, id, Width(d, h))
    BY <1>2 DEF Written
  <2>2. PICK v : Touched(hp, hp2, h, v, id, Width(d, h))
    BY <2>1
  <2>3. ASSUME NEW g \in DOMAIN hp2, NEW i \in DOMAIN hp2[g], NEW o \in {hp2[g][i].xmin, hp2[g][i].xmax}, o \in T
        PROVE  o \in snap
    <3> DEFINE old == hp[g][i]
               new == hp2[g][i]
    <3>1. g \in DOMAIN hp
      BY <2>2 DEF Touched
    <3>2. CASE g # h
      <4>1. hp2[g] = hp[g]
        BY <2>2, <3>1, <3>2 DEF Touched
      <4>2. QED
        BY <2>3, <3>1, <4>1 DEF Known
    <3>3. CASE g = h /\ i \in DOMAIN hp[g]
      <4>1. new = old \/ new = [old EXCEPT !.xmax = id]
        BY <2>2, <3>1, <3>3 DEF Touched
      <4>2. VersionOK(old, n, Width(c, g))
        BY <3>1, <3>3 DEF HeapOK, VersionsOK
      <4>3. o \in {new.xmin, new.xmax} /\ (old.xmin \in T => old.xmin \in snap) /\ (old.xmax \in T => old.xmax \in snap)
        BY <3>1, <3>3 DEF Known
      <4> HIDE DEF old, new
      <4>4. [old EXCEPT !.xmax = id].xmin = old.xmin /\ [old EXCEPT !.xmax = id].xmax = id
        BY <4>2, TakenVersion
      <4>5. CASE new = old
        BY <2>3, <4>3, <4>5
      <4>6. CASE new = [old EXCEPT !.xmax = id]
        BY <2>3, <4>3, <4>4, <4>6
      <4>7. QED
        BY <4>1, <4>5, <4>6
    <3>4. CASE g = h /\ i \notin DOMAIN hp[g]
      <4>1. new = Version(new.vals, id)
        BY <2>2, <3>1, <3>4 DEF Touched
      <4> HIDE DEF new
      <4>2. new.xmin = id /\ new.xmax = NoTx
        BY <4>1 DEF Version
      <4>3. o \in {new.xmin, new.xmax}
        BY DEF new
      <4>4. QED
        BY <2>3, <4>2, <4>3
    <3>5. QED
      BY <3>2, <3>3, <3>4
  <2>4. QED
    BY <2>3 DEF Known
<1>3. QED
  BY <1>1, <1>2

\* What others see of what a session writes: nothing.
LEMMA UnseenClean ==
  ASSUME RowInv, NEW id, id \in DOMAIN status, id # NoTx,
         NEW d, Moves(catalog, d), NEW hp2, Written(heap, hp2, id, d),
         NEW snap, snap \subseteq Taken, Clean(catalog, heap, NoTx, snap, {})
  PROVE  Clean(d, hp2, NoTx, snap, {})
<1>1. /\ CatalogShape(catalog) /\ AllKeyed(catalog) /\ Evolves(catalog, d) /\ StatusOK(status)
      /\ HeapOK(heap, catalog, Len(status)) /\ Len(status) \in Nat /\ DOMAIN heap = DOMAIN catalog.tables
  BY SeqIs DEF RowInv, CatInv, Moves, StatusOK, HeapOK
<1>2. HeapOK(heap, d, Len(status))
  BY <1>1, HeapMoves
<1>3. DOMAIN hp2 = DOMAIN heap
  BY DEF Written, Touched
<1>4. \A h \in DOMAIN heap : /\ Seen(hp2[h], NoTx, snap) = Seen(heap[h], NoTx, snap)
                             /\ \A i \in DOMAIN heap[h] : hp2[h][i].vals = heap[h][i].vals
  <2>1. Open(NoTx) /\ NoTx # id
    BY DEF Open
  <2> DEFINE o == NoTx
             hp == heap
  <2>2. StatusOK(status) /\ HeapOK(hp, d, Len(status)) /\ Written(hp, hp2, id, d) /\ Open(o) /\ o # id /\ snap \subseteq Taken
    BY <1>1, <1>2, <2>1
  <2> HIDE DEF o, hp
  <2>3. \A h \in DOMAIN hp : /\ Seen(hp2[h], o, snap) = Seen(hp[h], o, snap)
                             /\ \A i \in DOMAIN hp[h] : hp2[h][i].vals = hp[h][i].vals
    BY <2>2, WrittenSeen
  <2>4. QED
    BY <2>3 DEF o, hp
<1>5. QED
  BY <1>1, <1>3, <1>4, EvolvesClean

\* So the sessions that do not write go on as they were, and what the one that does
\* began with is as distinct.
LEMMA OthersKeys ==
  ASSUME RowInv, KeysInv, NEW s \in Sessions, session[s].tx # NoTx, session[s].writing,
         NEW d, Moves(catalog, d), NEW hp2, Written(heap, hp2, session[s].tx, d)
  PROVE  /\ Clean(d, hp2, NoTx, TakenOf(status), {}) /\ Clean(d, hp2, NoTx, session[s].snap, {})
         /\ Known(hp2, TakenOf(status), session[s].snap)
         /\ \A o \in Sessions : o # s => SessionKeys(session[o], d, hp2, TakenOf(status)) /\ ~session[o].writing
<1> DEFINE id == session[s].tx
           T == TakenOf(status)
<1>1. id \in DOMAIN status /\ status[id] = "active" /\ id # NoTx
  BY OwnerIs
<1>2. /\ Clean(catalog, heap, NoTx, T, {}) /\ \A o \in Sessions : SessionKeys(session[o], catalog, heap, T)
      /\ \A o \in Sessions : session[o].writing => o = s
  BY DEF KeysInv, KeysOK
<1>3. T = Taken /\ \A o \in Sessions : session[o].snap \subseteq Taken
  BY DEF RowInv, SessionsOK, SessionOK, TakenOf, Taken
<1>4. /\ HeapOK(heap, catalog, Len(status)) /\ Len(status) \in Nat /\ id \notin T /\ NoTx \notin T
  BY <1>1, SeqIs DEF RowInv, StatusOK, TakenOf, NoTx
<1> HIDE DEF id, T
<1>5. Clean(d, hp2, NoTx, T, {})
  BY <1>1, <1>2, <1>3, UnseenClean DEF id
<1>6. \A o \in Sessions : session[o].tx # NoTx => Clean(d, hp2, NoTx, session[o].snap, {})
  <2> SUFFICES ASSUME NEW o \in Sessions, session[o].tx # NoTx PROVE Clean(d, hp2, NoTx, session[o].snap, {})
    OBVIOUS
  <2> DEFINE snap == session[o].snap
  <2>1. Clean(catalog, heap, NoTx, snap, {}) /\ snap \subseteq Taken
    BY <1>2, <1>3 DEF SessionKeys
  <2> HIDE DEF snap
  <2>2. Clean(d, hp2, NoTx, snap, {})
    BY <1>1, <2>1, UnseenClean DEF id
  <2>3. QED
    BY <2>2 DEF snap
<1>7. Known(hp2, T, session[s].snap)
  <2> DEFINE snap == session[s].snap
  <2>1. Known(heap, T, snap)
    BY <1>2 DEF SessionKeys
  <2> HIDE DEF snap
  <2>2. Known(hp2, T, snap)
    BY <1>4, <2>1, WrittenKnown DEF id
  <2>3. QED
    BY <2>2 DEF snap
<1>8. \A o \in Sessions : o # s => SessionKeys(session[o], d, hp2, T) /\ ~session[o].writing
  BY <1>2, <1>6 DEF SessionKeys
<1>9. QED
  BY <1>1, <1>5, <1>6, <1>7, <1>8 DEF id, T

\* A statement that fails after what it has written.
LEMMA FailsKeys ==
  ASSUME RowInv, KeysInv, NEW s \in Sessions, Running(session[s]), Fails(s, session[s]),
         NEW d, Moves(catalog, d), NEW hp2, Written(heap, hp2, session[s].tx, d)
  PROVE  KeysOK(d, hp2, TakenOf(status'), session')
<1> DEFINE me == session[s]
           rest == AtRest(me)
           failed == [rest EXCEPT !.failed = TRUE]
           T == TakenOf(status)
<1>1. SessionOK(me, heap, catalog, status) /\ DOMAIN me = SessionFields /\ me.writing /\ me.tx # NoTx
  BY DEF RowInv, SessionsOK, SessionOK
<1>2. /\ Clean(d, hp2, NoTx, T, {}) /\ Clean(d, hp2, NoTx, me.snap, {}) /\ Known(hp2, T, me.snap)
      /\ \A o \in Sessions : o # s => SessionKeys(session[o], d, hp2, T) /\ ~session[o].writing
  BY <1>1, OthersKeys
<1>3. CASE me.explicit
  <2>1. status' = status /\ session' = [session EXCEPT ![s] = failed]
    BY <1>3 DEF Fails
  <2>2. DOMAIN rest = SessionFields /\ ~Running(rest) /\ rest.snap = me.snap
    BY <1>1, RestIs
  <2> HIDE DEF rest
  <2>3. failed.snap = me.snap /\ failed.failed = TRUE /\ ~Running(failed)
    BY <2>2 DEF SessionFields, Running
  <2> HIDE DEF failed, T, me
  <2>4. SessionKeys(failed, d, hp2, T)
    BY <1>2, <2>3 DEF SessionKeys
  <2>5. KeysOK(d, hp2, T, [session EXCEPT ![s] = failed])
    BY <1>2, <2>4, KeysMove
  <2>6. QED
    BY <2>1, <2>5, Zenon DEF T
<1>4. CASE ~me.explicit
  <2>1. status' = [status EXCEPT ![me.tx] = "aborted"] /\ session' = [session EXCEPT ![s] = Idle]
    BY <1>4 DEF Fails
  <2>2. TakenOf(status') = T
    <3>1. me.tx \in DOMAIN status /\ status[me.tx] = "active"
      BY <1>1, OwnerIs
    <3>2. QED
      BY <2>1, <3>1 DEF TakenOf
  <2> HIDE DEF T
  <2>3. KeysOK(d, hp2, T, [session EXCEPT ![s] = Idle])
    BY <1>2, IdleKeys, KeysMove
  <2>4. QED
    BY <2>1, <2>2, <2>3, Zenon
<1>5. QED
  BY <1>3, <1>4

\* One call of a statement.
LEMMA StepKeys ==
  ASSUME RowInv, KeysInv, Orderly, NEW s \in Sessions, Step(s)
  PROVE  KeysOK(catalog', heap', TakenOf(status'), session')
<1> DEFINE me == session[s]
           w == Ahead(me)
           c == Head(me.agenda)
           x == execCall(w, me, me.stmt, c)
           mine == [me EXCEPT !.agenda = x.agenda, !.seen = x.seen, !.wrote = x.wrote]
           T == TakenOf(status)
<1>1. /\ Running(me) /\ me.agenda # <<>> /\ heap' = x.heap /\ catalog' = x.catalog
      /\ IF x.ok THEN session' = [session EXCEPT ![s] = mine] /\ status' = status ELSE Fails(s, me)
  <2>1. [World(me) EXCEPT !.agenda = Tail(@)] = w
    BY DEF Ahead, World
  <2>2. QED
    BY <2>1 DEF Step
<1>2. Calling(w, me, c) /\ w.heap = heap /\ w.catalog = catalog /\ w.wrote = me.wrote
  BY <1>1, AheadIs
<1> HIDE DEF w, c
<1>3. Effect(w, x, me, c.h) /\ Moves(w.catalog, x.catalog) /\ Writes(w, x, me, c.h, c.v)
  BY <1>2, CallEffect, CallWrites
<1>4. /\ SessionOK(me, heap, catalog, status) /\ DOMAIN me = SessionFields /\ me.tx # NoTx /\ me.writing
      /\ SessionKeys(me, catalog, heap, T)
  BY <1>1 DEF RowInv, SessionsOK, SessionOK, KeysInv, KeysOK
<1>5. me.tx \in DOMAIN status /\ status[me.tx] = "active"
  BY <1>4, OwnerIs
<1> HIDE DEF x
<1>6. Written(heap, x.heap, me.tx, x.catalog) /\ Heaps(w, x, me, c.h)
  BY <1>2, <1>3, <1>5 DEF Effect, Heaps, Written
<1>7. Moves(catalog, x.catalog)
  BY <1>2, <1>3
<1>8. CASE x.ok
  <2>1. /\ mine.h = me.h /\ mine.stmt = me.stmt /\ mine.tx = me.tx /\ mine.snap = me.snap
        /\ mine.wrote = x.wrote /\ mine.failed = me.failed
    <3> HIDE DEF me
    <3>1. QED
      BY <1>4 DEF SessionFields
  <2>2. session' = [session EXCEPT ![s] = mine] /\ status' = status
    BY <1>1, <1>8
  <2> HIDE DEF mine
  <2>3. ~me.failed /\ Clean(catalog, heap, me.tx, me.snap, Checked(me.stmt, me.h, me.wrote))
    BY <1>1, <1>4 DEF SessionKeys, Dirty
  <2>4. Clean(catalog, x.heap, me.tx, me.snap, Checked(me.stmt, me.h, x.wrote))
    <3>1. /\ WorldOK(w) /\ StatusOK(status) /\ c.h \in Present(w.catalog)
          /\ \A g \in DOMAIN w.catalog.tables : NoDefaults(w.catalog.tables[g])
      BY <1>2 DEF Calling, CallOK, Orderly
    <3>2. Clean(w.catalog, w.heap, me.tx, me.snap, Checked(me.stmt, me.h, w.wrote))
      BY <1>2, <2>3
    <3> HIDE DEF me
    <3>3. Clean(w.catalog, x.heap, me.tx, me.snap, Checked(me.stmt, me.h, x.wrote))
      BY <1>3, <1>4, <1>6, <3>1, <3>2, WritesClean
    <3>4. QED
      BY <1>2, <3>3
  <2>5. Clean(x.catalog, x.heap, me.tx, me.snap, Checked(me.stmt, me.h, x.wrote))
    <3> DEFINE hp == x.heap
               d == x.catalog
               id == me.tx
               snap == me.snap
               D == Checked(me.stmt, me.h, x.wrote)
    <3>1. /\ CatalogShape(catalog) /\ AllKeyed(catalog) /\ Evolves(catalog, d) /\ DOMAIN hp = DOMAIN catalog.tables
          /\ Clean(catalog, hp, id, snap, D)
      BY <1>6, <1>7, <2>4 DEF RowInv, CatInv, Moves, Written, Touched, HeapOK
    <3> HIDE DEF hp, d, id, snap, D
    <3>2. Clean(d, hp, id, snap, D)
      BY <3>1, EvolvesClean
    <3>3. QED
      BY <3>2 DEF hp, d, id, snap, D
  <2>6. KeysOK(x.catalog, x.heap, T, [session EXCEPT ![s] = mine])
    <3> DEFINE hp == x.heap
               d == x.catalog
    <3>1. Moves(catalog, d) /\ Written(heap, hp, me.tx, d) /\ Clean(d, hp, me.tx, me.snap, Checked(me.stmt, me.h, x.wrote))
      BY <1>6, <1>7, <2>5
    <3> HIDE DEF hp, d
    <3>2. /\ Clean(d, hp, NoTx, T, {}) /\ Clean(d, hp, NoTx, me.snap, {}) /\ Known(hp, T, me.snap)
          /\ \A o \in Sessions : o # s => SessionKeys(session[o], d, hp, T) /\ ~session[o].writing
      BY <1>4, <3>1, OthersKeys
    <3>3. Running(mine)
      BY <1>1, <2>1 DEF Running
    <3> HIDE DEF T
    <3>4. SessionKeys(mine, d, hp, T)
      BY <2>1, <2>3, <3>1, <3>2, <3>3 DEF SessionKeys, Dirty
    <3>5. KeysOK(d, hp, T, [session EXCEPT ![s] = mine])
      BY <3>2, <3>4, KeysMove
    <3>6. QED
      BY <3>5 DEF hp, d
  <2>7. QED
    BY <1>1, <2>2, <2>6, Zenon
<1>9. CASE ~x.ok
  <2> DEFINE hp == x.heap
             d == x.catalog
  <2>1. Moves(catalog, d) /\ Written(heap, hp, me.tx, d) /\ Fails(s, me)
    BY <1>1, <1>6, <1>7, <1>9
  <2> HIDE DEF hp, d
  <2>2. KeysOK(d, hp, TakenOf(status'), session')
    BY <1>1, <2>1, FailsKeys
  <2>3. heap' = hp /\ catalog' = d
    BY <1>1 DEF hp, d
  <2>4. QED
    BY <2>2, <2>3, Zenon
<1>10. QED
  BY <1>8, <1>9

(***************************************************************************)
(* Schema changes.                                                         *)
(***************************************************************************)

\* A table with one more index that the rows there are agree with.
LEMMA IndexedDistinct ==
  ASSUME NEW t, NEW u, u.columns = t.columns, NEW ix,
         \A k \in Uniques(u) : k \in Uniques(t) \/ (ix.unique /\ ix.sound /\ k = [cols |-> ix.cols, where |-> ix.where]),
         NEW versions, NEW P, P \subseteq DOMAIN versions, Distinct(t, versions, P),
         ix.unique /\ ix.sound =>
           checkUniqueOver(t, [i \in DOMAIN versions |-> Row(t, versions, i)], ix.cols, ix.where)
  PROVE  Distinct(u, versions, P)
<1> DEFINE rows == [i \in DOMAIN versions |-> Row(t, versions, i)]
           new == [cols |-> ix.cols, where |-> ix.where]
<1>1. \A name : ColumnIndex(u, name) = ColumnIndex(t, name)
  BY SameColumns
<1>2. \A i : Row(u, versions, i) = Row(t, versions, i)
  BY DEF Row, Values
<1>3. \A k, a, b : Apart(u, k, a, b) <=> Apart(t, k, a, b)
  <2> SUFFICES ASSUME NEW k, NEW a, NEW b PROVE Apart(u, k, a, b) <=> Apart(t, k, a, b)
    OBVIOUS
  <2>1. (Selects(u, k.where, a) <=> Selects(t, k.where, a)) /\ (Selects(u, k.where, b) <=> Selects(t, k.where, b))
    BY <1>1, SelectsAlike
  <2>2. QED
    BY <2>1 DEF Apart
<1>4. DOMAIN rows = DOMAIN versions /\ \A i \in DOMAIN versions : rows[i] = Row(t, versions, i)
  OBVIOUS
<1>5. new.cols = ix.cols /\ new.where = ix.where
  OBVIOUS
<1>6. ix.unique /\ ix.sound => \A i, j \in P : i = j \/ Apart(t, new, Row(t, versions, i), Row(t, versions, j))
  <2> HIDE DEF rows, new
  <2>1. ix.unique /\ ix.sound => checkUniqueOver(t, rows, ix.cols, ix.where)
    BY DEF rows
  <2>2. QED
    BY <1>4, <1>5, <2>1 DEF checkUniqueOver, Apart
<1> HIDE DEF rows, new
<1>7. ASSUME NEW k \in Uniques(u), NEW i \in P, NEW j \in P, i # j
      PROVE  Apart(u, k, Row(u, versions, i), Row(u, versions, j))
  <2>1. CASE k \in Uniques(t)
    BY <1>2, <1>3, <1>7, <2>1 DEF Distinct
  <2>2. CASE ix.unique /\ ix.sound /\ k = new
    BY <1>2, <1>3, <1>6, <1>7, <2>2
  <2>3. QED
    BY <2>1, <2>2 DEF new
<1>8. \A k \in Uniques(u) : \A i, j \in P : i = j \/ Apart(u, k, Row(u, versions, i), Row(u, versions, j))
  BY <1>7
<1>9. QED
  BY <1>8, Zenon DEF Distinct

\* Tables that are new are empty.
LEMMA GrownClean ==
  ASSUME NEW d, NEW hp, NEW id, NEW snap, Clean(d, hp, id, snap, {})
  PROVE  Clean(d, Grown(hp, d), id, snap, {})
<1> SUFFICES ASSUME NEW h \in DOMAIN d.tables
             PROVE  Distinct(d.tables[h], Grown(hp, d)[h], Seen(Grown(hp, d)[h], id, snap))
  BY DEF Clean, Grown
<1>1. CASE h \in DOMAIN hp
  <2>1. Grown(hp, d)[h] = hp[h]
    BY <1>1 DEF Grown
  <2>2. QED
    BY <1>1, <2>1 DEF Clean
<1>2. CASE h \notin DOMAIN hp
  <2>1. Grown(hp, d)[h] = <<>> /\ DOMAIN <<>> = {}
    BY <1>2 DEF Grown
  <2>2. Seen(Grown(hp, d)[h], id, snap) = {}
    BY <2>1 DEF Seen
  <2>3. QED
    BY <2>2 DEF Distinct
<1>3. QED
  BY <1>1, <1>2

\* A schema change leaves what is seen as distinct as it was.
LEMMA DDLClean ==
  ASSUME RowInv, NEW me, NEW stmt, IsDDL(stmt), WellFormed(stmt), BindsDDL(stmt), NEW d \in DDL(me, stmt),
         NEW id, NEW snap, Clean(catalog, heap, id, snap, {})
  PROVE  Clean(d, Grown(heap, d), id, snap, {})
<1> DEFINE h == Lookup(catalog, stmt.table)
           ix == NewIndex(catalog, stmt, Sound(stmt))
           t == catalog.tables[h]
           u == d.tables[h]
           rows == [i \in DOMAIN heap[h] |-> Row(t, heap[h], i)]
<1>1. CatalogShape(catalog) /\ AllKeyed(catalog) /\ DOMAIN heap = DOMAIN catalog.tables
  BY DEF RowInv, CatInv, HeapOK
<1>2. Evolves(catalog, d) \/ Indexed(catalog, d, h, ix)
  BY DDLEvolves DEF RowInv
<1>3. CASE Evolves(catalog, d)
  <2> DEFINE hp == heap
  <2>1. Clean(catalog, hp, id, snap, {}) /\ DOMAIN hp = DOMAIN catalog.tables
    BY <1>1
  <2> HIDE DEF hp
  <2>2. Clean(d, hp, id, snap, {})
    BY <1>1, <1>3, <2>1, EvolvesClean
  <2>3. QED
    BY <2>2, GrownClean DEF hp
<1>4. CASE Indexed(catalog, d, h, ix)
  <2> HIDE DEF ix
  <2>1. /\ h \in DOMAIN catalog.tables
        /\ \A g \in DOMAIN catalog.tables : /\ g # h => d.tables[g] = catalog.tables[g]
                                            /\ d.tables[g].columns = catalog.tables[g].columns
                                            /\ d.tables[g].keys = catalog.tables[g].keys
        /\ IsSeq(u.indexes) /\ ToSet(u.indexes) = ToSet(t.indexes) \cup {ix}
    <3>1. h \in DOMAIN catalog.tables
      BY <1>4 DEF Indexed
    <3> DEFINE c == catalog
    <3>2. CatalogShape(c) /\ AllKeyed(c) /\ Indexed(c, d, h, ix)
      BY <1>1, <1>4
    <3> HIDE DEF c, h
    <3>3. /\ \A g \in DOMAIN c.tables : /\ g # h => d.tables[g] = c.tables[g]
                                        /\ d.tables[g].columns = c.tables[g].columns
                                        /\ d.tables[g].keys = c.tables[g].keys
          /\ IsSeq(d.tables[h].indexes) /\ ToSet(d.tables[h].indexes) = ToSet(c.tables[h].indexes) \cup {ix}
      BY <3>2, IndexedIs
    <3>4. QED
      BY <3>1, <3>3 DEF c
  <2>2. \A k \in Uniques(u) : k \in Uniques(t) \/ (ix.unique /\ ix.sound /\ k = [cols |-> ix.cols, where |-> ix.where])
    <3>1. u.keys = t.keys
      BY <2>1
    <3> HIDE DEF t, u
    <3>2. QED
      BY <2>1, <3>1 DEF Uniques
  <2>3. ix.unique /\ ix.sound => checkUniqueOver(t, rows, ix.cols, ix.where)
    <3>1. /\ ix.unique = stmt.unique /\ ix.sound = Sound(stmt) /\ ix.where = stmt.where
          /\ ix.cols = columnOrdinals(t, stmt.cols)
      BY DEF ix, NewIndex
    <3>2. rows = [i \in DOMAIN heap[h] |-> Values(t, heap[h][i].vals)]
      BY DEF Row
    <3>3. Sound(stmt) /\ stmt.unique => checkUniqueOver(t, rows, columnOrdinals(t, stmt.cols), stmt.where)
      BY <3>2, Zenon DEF Sound
    <3>4. QED
      BY <3>1, <3>3
  <2>4. ASSUME NEW g \in DOMAIN heap
        PROVE  Distinct(d.tables[g], heap[g], Seen(heap[g], id, snap))
    <3>1. Distinct(catalog.tables[g], heap[g], Seen(heap[g], id, snap))
      BY DEF Clean
    <3>2. CASE g # h
      BY <1>1, <2>1, <3>1, <3>2
    <3>3. CASE g = h
      <4> DEFINE q == heap[h]
                 P == Seen(q, id, snap)
      <4>1. /\ u.columns = t.columns /\ P \subseteq DOMAIN q /\ Distinct(t, q, P)
            /\ ix.unique /\ ix.sound => checkUniqueOver(t, [i \in DOMAIN q |-> Row(t, q, i)], ix.cols, ix.where)
        BY <2>1, <2>3, <3>1, <3>3 DEF Seen
      <4> HIDE DEF q, P, t, u
      <4>2. Distinct(u, q, P)
        BY <2>2, <4>1, IndexedDistinct
      <4>3. QED
        BY <3>3, <4>2 DEF u, q, P
    <3>4. QED
      BY <3>2, <3>3
  <2>5. Clean(d, heap, id, snap, {})
    BY <2>4 DEF Clean
  <2>6. QED
    BY <2>5, GrownClean
<1>5. QED
  BY <1>2, <1>3, <1>4

\* A transaction is begun and ends.
LEMMA TakenOnce ==
  ASSUME NEW st, StatusOK(st)
  PROVE  TakenOf(Append(st, "committed")) = TakenOf(st) \cup {Len(st) + 1}
<1>1. IsSeq(st) /\ Len(st) \in Nat /\ DOMAIN st = 1..Len(st)
  BY SeqIs DEF StatusOK
<1> DEFINE r == Append(st, "committed")
           n == Len(st) + 1
<1>2. (\A i \in DOMAIN st : r[i] = st[i]) /\ r[n] = "committed" /\ DOMAIN r = 1..n
  BY <1>1, AppendIs
<1>3. DOMAIN r = DOMAIN st \cup {n} /\ n \notin DOMAIN st
  BY <1>1, <1>2
<1> HIDE DEF r, n
<1>4. TakenOf(r) = TakenOf(st) \cup {n}
  BY <1>2, <1>3 DEF TakenOf
<1>5. QED
  BY <1>4 DEF r, n

\* A schema statement.
LEMMA DDLKeys ==
  ASSUME RowInv, KeysInv, Orderly, NEW s \in Sessions, NEW stmt \in scenario.statements, execDDL(s, stmt)
  PROVE  KeysOK(catalog', heap', TakenOf(status'), session')
<1> DEFINE me == Entered(s)
           failed == [me EXCEPT !.failed = TRUE]
           T == TakenOf(status)
           n == Len(status) + 1
           d == catalog'
           hp == heap'
<1>1. /\ IsDDL(stmt) /\ BindsDDL(stmt) /\ MayStart(s) /\ \A o \in Sessions : ~Running(session[o])
      /\ \/ /\ d = catalog /\ hp = heap
            /\ session' = [session EXCEPT ![s] = IF me.explicit THEN failed ELSE Idle]
            /\ status' = IF me.explicit THEN status ELSE Append(status, "aborted")
         \/ /\ d \in DDL(me, stmt) /\ hp = Grown(heap, d)
            /\ session' = [session EXCEPT ![s] = IF me.explicit THEN me ELSE Idle]
            /\ status' = IF me.explicit THEN status ELSE Append(status, "committed")
  BY DEF execDDL, Grown, Once
<1>2. WellFormed(stmt)
  BY ScenariosAssumption, Zenon DEF RowInv, CatInv
<1>3. /\ DOMAIN me = SessionFields /\ me.writing = TRUE
      /\ session[s].explicit => me.explicit = session[s].explicit /\ me.stmt = session[s].stmt
      /\ ~session[s].explicit => me.explicit = FALSE
  BY EnteredIs
<1>4. /\ Clean(catalog, heap, NoTx, T, {}) /\ Clean(catalog, heap, me.tx, T, {})
      /\ me.snap = T /\ me.failed = FALSE /\ \A o \in Sessions : o # s => ~session[o].writing
  <2>1. T = Taken
    BY DEF Taken, TakenOf
  <2>2. QED
    BY <1>1, <2>1, EnteredKeys
<1>5. Blank(heap, n) /\ StatusOK(status)
  BY FreshIs DEF RowInv
<1>6. /\ failed.writing = TRUE /\ failed.snap = me.snap /\ failed.stmt = me.stmt /\ failed.failed = TRUE
  <2> HIDE DEF me
  <2>1. QED
    BY <1>3 DEF SessionFields
<1> HIDE DEF me, failed, T, n, d, hp
<1>7. ASSUME NEW id, NEW snap, Clean(catalog, heap, id, snap, {})
      PROVE  Clean(d, hp, id, snap, {})
  <2>1. CASE d = catalog /\ hp = heap
    BY <1>7, <2>1
  <2>2. CASE d \in DDL(me, stmt) /\ hp = Grown(heap, d)
    BY <1>1, <1>2, <1>7, <2>2, DDLClean
  <2>3. QED
    BY <1>1, <2>1, <2>2
<1>8. Clean(d, hp, NoTx, T \cup {n}, {})
  <2>1. \A h \in DOMAIN heap : Seen(heap[h], NoTx, T \cup {n}) = Seen(heap[h], NoTx, T)
    BY <1>5, BlankAdds
  <2>2. Clean(catalog, heap, NoTx, T \cup {n}, {})
    BY <1>4, <2>1, SameClean
  <2>3. QED
    BY <1>7, <2>2
<1>9. \A o \in Sessions : o # s => \A S : SessionKeys(session[o], d, hp, S)
  <2>1. \A o \in Sessions : SessionKeys(session[o], catalog, heap, T)
    BY DEF KeysInv, KeysOK, T
  <2>2. \A o \in Sessions : session[o].tx # NoTx => Clean(d, hp, NoTx, session[o].snap, {})
    BY <1>7, <2>1 DEF SessionKeys
  <2>3. QED
    BY <1>1, <1>4, <2>2 DEF SessionKeys
<1>10. CASE session[s].explicit
  <2>1. status' = status /\ \E mine \in {me, failed} : session' = [session EXCEPT ![s] = mine]
    BY <1>1, <1>3, <1>10
  <2>2. PICK mine \in {me, failed} : session' = [session EXCEPT ![s] = mine]
    BY <2>1
  <2>3. mine.snap = T /\ ~Running(mine) /\ (~mine.failed => mine = me)
    BY <1>1, <1>3, <1>4, <1>6, <1>10 DEF Running
  <2>4. Known(hp, T, T)
    BY DEF Known
  <2>5. Clean(d, hp, NoTx, T, {}) /\ Clean(d, hp, me.tx, T, {})
    BY <1>4, <1>7
  <2>6. SessionKeys(mine, d, hp, T)
    BY <2>3, <2>4, <2>5 DEF SessionKeys, Dirty
  <2>7. KeysOK(d, hp, T, [session EXCEPT ![s] = mine])
    BY <1>4, <1>9, <2>5, <2>6, KeysMove
  <2>8. QED
    BY <2>1, <2>2, <2>7, Zenon DEF T, d, hp
<1>11. CASE ~session[s].explicit
  <2>1. session' = [session EXCEPT ![s] = Idle] /\ status' \in {Append(status, "aborted"), Append(status, "committed")}
    BY <1>1, <1>3, <1>11
  <2> DEFINE S == TakenOf(status')
  <2>2. S \in {T, T \cup {n}}
    BY <1>5, <2>1, TakenBegun, TakenOnce DEF T, n
  <2> HIDE DEF S
  <2>3. Clean(d, hp, NoTx, S, {})
    BY <1>4, <1>7, <1>8, <2>2
  <2>4. KeysOK(d, hp, S, [session EXCEPT ![s] = Idle])
    BY <1>9, <2>3, IdleKeys, KeysMove
  <2>5. QED
    BY <2>1, <2>4, Zenon DEF S, d, hp
<1>12. QED
  BY <1>10, <1>11

(***************************************************************************)
(* A database that is opened.                                              *)
(***************************************************************************)

\* Each element is one of the first n there were, and two of them are two.
Taking(q, S, r, n) ==
  /\ IsSeq(r)
  /\ \A i, j \in DOMAIN r : \E a, b \in 1..n :
       q[a] = r[i] /\ q[b] = r[j] /\ r[i] \in S /\ r[j] \in S /\ (i # j => a # b)

\* One more.
LEMMA TakingMore ==
  ASSUME NEW q, NEW S, NEW n \in Nat \ {0}, NEW r, Taking(q, S, r, n - 1),
         NEW s, s = IF q[n] \in S THEN Append(r, q[n]) ELSE r
  PROVE  Taking(q, S, s, n)
<1>1. 1..(n - 1) \subseteq 1..n /\ n \in 1..n /\ n \notin 1..(n - 1)
  OBVIOUS
<1>2. CASE q[n] \notin S
  BY <1>1, <1>2 DEF Taking
<1>3. CASE q[n] \in S
  <2> DEFINE x == q[n]
             m == Len(r) + 1
  <2>1. IsSeq(r) /\ Len(r) \in Nat /\ DOMAIN r = 1..Len(r)
    BY SeqIs DEF Taking
  <2>2. s = Append(r, x)
    BY <1>3
  <2> HIDE DEF x
  <2>3. IsSeq(s) /\ DOMAIN s = 1..m /\ s[m] = x /\ \A i \in DOMAIN r : s[i] = r[i]
    BY <2>1, <2>2, AppendIs
  <2>4. \A i \in DOMAIN s : i \in DOMAIN r \/ i = m
    BY <2>1, <2>3
  <2> HIDE DEF m
  <2>5. ASSUME NEW i \in DOMAIN s, NEW j \in DOMAIN s
        PROVE  \E a, b \in 1..n : q[a] = s[i] /\ q[b] = s[j] /\ s[i] \in S /\ s[j] \in S /\ (i # j => a # b)
    <3>1. CASE i \in DOMAIN r /\ j \in DOMAIN r
      <4>1. \E a, b \in 1..(n - 1) : q[a] = r[i] /\ q[b] = r[j] /\ r[i] \in S /\ r[j] \in S /\ (i # j => a # b)
        BY <3>1 DEF Taking
      <4>2. s[i] = r[i] /\ s[j] = r[j]
        BY <2>3, <3>1
      <4>3. QED
        BY <1>1, <4>1, <4>2
    <3>2. CASE i \in DOMAIN r /\ j = m
      <4>1. PICK a \in 1..(n - 1) : q[a] = r[i] /\ r[i] \in S
        BY <3>2 DEF Taking
      <4>2. s[i] = r[i] /\ s[j] = q[n]
        BY <2>3, <3>2 DEF x
      <4>3. a \in 1..n /\ a # n
        BY <1>1, <4>1
      <4>4. QED
        BY <1>1, <1>3, <4>1, <4>2, <4>3
    <3>3. CASE i = m /\ j \in DOMAIN r
      <4>1. PICK b \in 1..(n - 1) : q[b] = r[j] /\ r[j] \in S
        BY <3>3 DEF Taking
      <4>2. s[i] = q[n] /\ s[j] = r[j]
        BY <2>3, <3>3 DEF x
      <4>3. b \in 1..n /\ b # n
        BY <1>1, <4>1
      <4>4. QED
        BY <1>1, <1>3, <4>1, <4>2, <4>3
    <3>4. CASE i = m /\ j = m
      <4>1. s[i] = q[n] /\ s[j] = q[n] /\ i = j
        BY <2>3, <3>4 DEF x
      <4>2. QED
        BY <1>1, <1>3, <4>1
    <3>5. QED
      BY <2>4, <3>1, <3>2, <3>3, <3>4
  <2>6. QED
    BY <2>3, <2>5 DEF Taking
<1>4. QED
  BY <1>2, <1>3

\* So it is with those of a set.
LEMMA OnlyTakes ==
  ASSUME NEW q, NEW S, IsSeq(q)
  PROVE  Taking(q, S, Only(q, S), Len(q))
<1> DEFINE f == OnlyUpTo(q, S)
           T == {n \in 0..Len(q) : Taking(q, S, f[n], n)}
<1>1. Len(q) \in Nat
  BY SeqIs
<1>2. /\ Only(q, S) = f[Len(q)] /\ f[0] = <<>>
      /\ \A n \in 1..Len(q) : f[n] = IF q[n] \in S THEN Append(f[n - 1], q[n]) ELSE f[n - 1]
  BY <1>1, OnlyIs
<1> HIDE DEF f
<1>3. 0 \in T
  <2>1. IsSeq(f[0]) /\ DOMAIN f[0] = {}
    BY <1>2, SmallSeqs
  <2>2. Taking(q, S, f[0], 0)
    BY <2>1 DEF Taking
  <2>3. QED
    BY <1>1, <2>2
<1>4. ASSUME NEW n \in 1..Len(q), n - 1 \in T
      PROVE  n \in T
  <2>1. n \in Nat \ {0} /\ Taking(q, S, f[n - 1], n - 1)
    BY <1>1, <1>4
  <2> DEFINE r == f[n - 1]
             s == f[n]
  <2>2. Taking(q, S, r, n - 1) /\ s = IF q[n] \in S THEN Append(r, q[n]) ELSE r
    BY <1>2, <2>1
  <2> HIDE DEF r, s
  <2>3. Taking(q, S, s, n)
    BY <2>1, <2>2, TakingMore
  <2>4. QED
    BY <1>1, <2>3 DEF s
<1>5. \A n \in 0..Len(q) : n \in T
  <2> HIDE DEF T
  <2>1. QED
    BY <1>1, <1>3, <1>4, UpTo
<1>6. Taking(q, S, f[Len(q)], Len(q))
  BY <1>1, <1>5
<1>7. QED
  BY <1>2, <1>6

\* What is read back is distinct when what was seen was.
LEMMA KeptDistinct ==
  ASSUME NEW t, NEW q, IsSeq(q), NEW T, Distinct(t, q, Seen(q, NoTx, T)),
         NEW kept, kept = Only(q, {v \in ToSet(q) : Visible(v, NoTx, T)}),
         NEW r, DOMAIN r = DOMAIN kept, \A i \in DOMAIN kept : r[i].vals = kept[i].vals,
         NEW P, P \subseteq DOMAIN r
  PROVE  Distinct(t, r, P)
<1> DEFINE S == {v \in ToSet(q) : Visible(v, NoTx, T)}
<1>1. Taking(q, S, kept, Len(q)) /\ DOMAIN q = 1..Len(q)
  BY OnlyTakes, SeqIs
<1>2. \A a \in DOMAIN q : q[a] \in S => a \in Seen(q, NoTx, T)
  BY DEF Seen
<1> HIDE DEF S
<1>3. ASSUME NEW k \in Uniques(t), NEW i \in P, NEW j \in P, i # j
      PROVE  Apart(t, k, Row(t, r, i), Row(t, r, j))
  <2>1. i \in DOMAIN kept /\ j \in DOMAIN kept
    OBVIOUS
  <2>2. \E a, b \in 1..Len(q) : q[a] = kept[i] /\ q[b] = kept[j] /\ kept[i] \in S /\ kept[j] \in S /\ a # b
    <3>1. \E a, b \in 1..Len(q) :
             q[a] = kept[i] /\ q[b] = kept[j] /\ kept[i] \in S /\ kept[j] \in S /\ (i # j => a # b)
      BY <1>1, <2>1 DEF Taking
    <3>2. QED
      BY <1>3, <3>1
  <2>3. PICK a \in DOMAIN q : \E b \in DOMAIN q :
               q[a] = kept[i] /\ q[b] = kept[j] /\ kept[i] \in S /\ kept[j] \in S /\ a # b
    BY <1>1, <2>2
  <2>4. PICK b \in DOMAIN q : q[a] = kept[i] /\ q[b] = kept[j] /\ kept[i] \in S /\ kept[j] \in S /\ a # b
    BY <2>3
  <2>5. Apart(t, k, Row(t, q, a), Row(t, q, b))
    BY <1>2, <2>4 DEF Distinct
  <2>6. r[i].vals = q[a].vals /\ r[j].vals = q[b].vals
    BY <2>1, <2>4
  <2>7. Row(t, r, i) = Row(t, q, a) /\ Row(t, r, j) = Row(t, q, b)
    BY <2>6 DEF Row
  <2>8. QED
    BY <2>5, <2>7
<1>4. \A k \in Uniques(t) : \A i, j \in P : i = j \/ Apart(t, k, Row(t, r, i), Row(t, r, j))
  BY <1>3
<1>5. QED
  BY <1>4, Zenon DEF Distinct

\* Nobody is there.
LEMMA OpenedKeys ==
  ASSUME NEW c, CatalogShape(c), AllKeyed(c), NEW rows,
         NEW d, d = [c EXCEPT !.tables = [h \in DOMAIN c.tables |-> RestoreSequences(c.tables[h], rows[h])]],
         NEW hp, DOMAIN hp = DOMAIN c.tables, \A h \in DOMAIN hp : \A P \in SUBSET DOMAIN hp[h] : Distinct(c.tables[h], hp[h], P),
         NEW T
  PROVE  KeysOK(d, hp, T, [s \in Sessions |-> Idle])
<1>1. Evolves(c, d)
  BY RestoredEvolves
<1>2. Clean(c, hp, NoTx, T, {})
  <2>1. \A h \in DOMAIN hp : Seen(hp[h], NoTx, T) \in SUBSET DOMAIN hp[h]
    BY DEF Seen
  <2>2. QED
    BY <2>1 DEF Clean
<1>3. Clean(d, hp, NoTx, T, {})
  BY <1>1, <1>2, EvolvesClean
<1> DEFINE ses == [s \in Sessions |-> Idle]
<1>4. \A s \in Sessions : ses[s] = Idle
  OBVIOUS
<1> HIDE DEF ses
<1>5. KeysOK(d, hp, T, ses)
  BY <1>3, <1>4, IdleKeys DEF KeysOK
<1>6. QED
  BY <1>5 DEF ses

\* A restart.
LEMMA RestartKeys ==
  ASSUME RowInv, KeysInv, Restart
  PROVE  KeysOK(catalog', heap', TakenOf(status'), session')
<1> DEFINE kept(h) == Only(heap[h], {v \in ToSet(heap[h]) : Visible(v, NoTx, Taken)})
           rows(h) == [i \in DOMAIN kept(h) |-> Values(catalog.tables[h], kept(h)[i].vals)]
           all == [h \in DOMAIN catalog.tables |-> rows(h)]
           hp == [h \in DOMAIN heap |-> [i \in DOMAIN kept(h) |-> Version(kept(h)[i].vals, Boot)]]
           d == [catalog EXCEPT !.tables =
                    [h \in DOMAIN catalog.tables |-> RestoreSequences(catalog.tables[h], all[h])]]
<1>1. catalog' = [catalog EXCEPT !.tables =
                    [h \in DOMAIN catalog.tables |-> RestoreSequences(catalog.tables[h], rows(h))]]
  BY Zenon DEF Restart
<1>2. heap' = hp /\ session' = [s \in Sessions |-> Idle]
  BY Zenon DEF Restart
<1> HIDE DEF rows
<1>3. catalog' = d
  BY <1>1
<1> HIDE DEF all
<1>4. CatalogShape(catalog) /\ AllKeyed(catalog) /\ HeapOK(heap, catalog, Len(status))
  BY DEF RowInv, CatInv
<1>5. \A h \in DOMAIN heap : Distinct(catalog.tables[h], heap[h], Seen(heap[h], NoTx, Taken))
  <2>1. TakenOf(status) = Taken
    BY DEF TakenOf, Taken
  <2>2. QED
    BY <2>1 DEF KeysInv, KeysOK, Clean
<1>6. ASSUME NEW h \in DOMAIN heap, NEW P \in SUBSET DOMAIN hp[h]
      PROVE  Distinct(catalog.tables[h], hp[h], P)
  <2> DEFINE q == heap[h]
             k == kept(h)
             r == hp[h]
             t == catalog.tables[h]
  <2>1. r = [i \in DOMAIN k |-> Version(k[i].vals, Boot)]
    OBVIOUS
  <2>2. k = Only(q, {v \in ToSet(q) : Visible(v, NoTx, Taken)})
    OBVIOUS
  <2>3. IsSeq(q) /\ Distinct(t, q, Seen(q, NoTx, Taken)) /\ P \subseteq DOMAIN r
    BY <1>4, <1>5, <1>6 DEF HeapOK, VersionsOK
  <2> HIDE DEF r, k, q, t, kept, hp
  <2>4. \A vals : Version(vals, Boot).vals = vals
    BY DEF Version
  <2>5. DOMAIN r = DOMAIN k /\ \A i \in DOMAIN k : r[i].vals = k[i].vals
    BY <2>1, <2>4
  <2>6. Distinct(t, r, P)
    BY <2>2, <2>3, <2>5, KeptDistinct
  <2>7. QED
    BY <2>6 DEF r, t
<1>7. DOMAIN hp = DOMAIN catalog.tables /\ DOMAIN heap = DOMAIN hp
  BY <1>4 DEF HeapOK
<1> HIDE DEF hp
<1>8. KeysOK(d, hp, TakenOf(status'), [s \in Sessions |-> Idle])
  <2>1. \A h \in DOMAIN hp : \A P \in SUBSET DOMAIN hp[h] : Distinct(catalog.tables[h], hp[h], P)
    BY <1>6, <1>7
  <2> DEFINE T == TakenOf(status')
  <2> HIDE DEF T
  <2>2. KeysOK(d, hp, T, [s \in Sessions |-> Idle])
    BY <1>4, <1>7, <2>1, OpenedKeys
  <2>3. QED
    BY <2>2 DEF T
<1>9. QED
  BY <1>2, <1>3, <1>8, Zenon

\* A database is opened with rows that are distinct.
LEMMA InitKeys == Init => KeysInv
<1> SUFFICES ASSUME Init PROVE KeysInv
  OBVIOUS
<1> DEFINE c == Created(scenario.create)
           rows == scenario.rows
           hp == [h \in DOMAIN catalog.tables |-> [i \in DOMAIN rows[h] |-> Version(rows[h][i], Boot)]]
<1>1. scenario \in Scenarios
  BY DEF Init
<1>2. /\ catalog = [c EXCEPT !.tables = [h \in DOMAIN c.tables |-> RestoreSequences(c.tables[h], rows[h])]]
      /\ heap = hp /\ status = <<"committed">> /\ session = [s \in Sessions |-> Idle]
  BY Zenon DEF Init
<1>3. CatalogShape(c) /\ AllKeyed(c)
  BY <1>1, CreatedIs, CreatedKeyed DEF Sane
<1>4. \A h \in DOMAIN c.tables :
        checkUnique(c.tables[h], [i \in DOMAIN rows[h] |-> Values(c.tables[h], rows[h][i])])
  <2>1. \A sc \in Scenarios : \A h \in DOMAIN Created(sc.create).tables :
          checkUnique(Created(sc.create).tables[h],
                      [i \in DOMAIN sc.rows[h] |-> Values(Created(sc.create).tables[h], sc.rows[h][i])])
    BY RowsAssumption, Zenon
  <2>2. QED
    BY <1>1, <2>1, Zenon
<1> HIDE DEF c
<1>5. DOMAIN catalog.tables = DOMAIN c.tables
  BY <1>2, <1>3, RestoredEvolves
<1>6. ASSUME NEW h \in DOMAIN hp, NEW P \in SUBSET DOMAIN hp[h]
      PROVE  Distinct(c.tables[h], hp[h], P)
  <2> DEFINE q == rows[h]
             r == hp[h]
             t == c.tables[h]
             all == [i \in DOMAIN q |-> Values(t, q[i])]
  <2>1. r = [i \in DOMAIN q |-> Version(q[i], Boot)]
    BY <1>5
  <2>2. TableShape(t) /\ checkUnique(t, all)
    BY <1>3, <1>4, <1>5 DEF CatalogShape
  <2>3. P \subseteq DOMAIN r
    OBVIOUS
  <2> HIDE DEF q, r, t
  <2>4. DOMAIN r = DOMAIN q /\ \A i \in DOMAIN q : r[i].vals = q[i]
    BY <2>1 DEF Version
  <2>5. all = [i \in DOMAIN r |-> Row(t, r, i)]
    BY <2>4 DEF Row
  <2> HIDE DEF all
  <2>6. Distinct(t, r, DOMAIN r)
    BY <2>2, <2>5, DistinctIs
  <2>7. Distinct(t, r, P)
    BY <2>3, <2>6, FewerDistinct
  <2>8. QED
    BY <2>7 DEF t, r
<1>7. DOMAIN hp = DOMAIN c.tables
  BY <1>5
<1> HIDE DEF hp, rows
<1>8. KeysOK(catalog, heap, TakenOf(status), session)
  BY <1>2, <1>3, <1>6, <1>7, OpenedKeys
<1>9. QED
  BY <1>8 DEF KeysInv

\* Any step.
LEMMA NextKeys ==
  ASSUME RowInv, KeysInv, Orderly, [Next]_vars
  PROVE  KeysInv'
<1>1. scenario.sessions \subseteq Sessions
  BY RowsAssumption, Zenon DEF RowInv, CatInv
<1>2. KeysOK(catalog', heap', TakenOf(status'), session')
  <2>1. CASE UNCHANGED vars
    <3>1. KeysOK(catalog, heap, TakenOf(status), session)
      BY DEF KeysInv
    <3>2. catalog' = catalog /\ heap' = heap /\ status' = status /\ session' = session
      BY <2>1 DEF vars
    <3>3. QED
      BY <3>1, <3>2, Zenon
  <2>2. CASE \E s \in scenario.sessions : \E level \in scenario.levels : Begin(s, level)
    BY <1>1, <2>2, BeginKeys
  <2>3. CASE \E s \in scenario.sessions : Commit(s) \/ Rollback(s)
    BY <1>1, <2>3, CommitKeys
  <2>4. CASE \E s \in scenario.sessions : \E stmt \in scenario.statements : Start(s, stmt)
    BY <1>1, <2>4, StartKeys
  <2>5. CASE \E s \in scenario.sessions : \E stmt \in scenario.statements : execDDL(s, stmt)
    BY <1>1, <2>5, DDLKeys
  <2>6. CASE \E s \in scenario.sessions : Step(s)
    BY <1>1, <2>6, StepKeys
  <2>7. CASE \E s \in scenario.sessions : Finish(s)
    BY <1>1, <2>7, FinishKeys
  <2>8. CASE Restart
    BY <2>8, RestartKeys
  <2>9. QED
    BY <2>1, <2>2, <2>3, <2>4, <2>5, <2>6, <2>7, <2>8, Zenon DEF Next
<1>3. QED
  BY <1>2, Zenon DEF KeysInv

\* Whatever cascades, ON CONFLICT clauses, references let go of, schema changes,
\* rollbacks and restarts wrote, no view holds two rows with one key: a statement
\* looks for a collision only once its last row is written, in the tables it wrote
\* to, and that is enough. It is so where the engine means it to be, when one
\* transaction writes at a time, and where no key has a column that ON DELETE SET
\* DEFAULT gives a value: the table that a DELETE names is not checked after it, and
\* a row of that table can be one that lets go.
THEOREM KeysAlwaysHold == Spec => ([]Orderly => []KeysHold)
<1>1. Init => RowInv /\ KeysInv
  BY InitRows, InitKeys
<1>2. RowInv /\ KeysInv /\ Orderly /\ [Next]_vars => RowInv' /\ KeysInv'
  BY NextRows, NextKeys
<1>3. RowInv /\ KeysInv => KeysHold
  BY KeysInvHolds
<1>4. QED
  BY <1>1, <1>2, <1>3, PTL DEF Spec

(***************************************************************************)
(* Rows that satisfy NOT NULL and CHECK.                                   *)
(***************************************************************************)
Fits(t, row) == checkRow(t, row) /\ runChecks(t, row)

\* What a predicate says of a row depends on one column.
LEMMA TruthAlike ==
  ASSUME NEW t, NEW u, NEW p, NEW a, NEW b,
         p.rel = "none" \/ a[ColumnIndex(t, p.col)] = b[ColumnIndex(u, p.col)]
  PROVE  Truth(t, p, a) = Truth(u, p, b)
<1> DEFINE x == a[ColumnIndex(t, p.col)]
           y == b[ColumnIndex(u, p.col)]
           value(z) == IF z = NULL THEN "unknown" ELSE
                       CASE p.rel = "eq"  -> IF z = p.val THEN "true" ELSE "false"
                         [] p.rel = "min" -> IF z >= p.val THEN "true" ELSE "false"
<1>1. /\ Truth(t, p, a) = IF p.rel = "none" THEN "true" ELSE value(x)
      /\ Truth(u, p, b) = IF p.rel = "none" THEN "true" ELSE value(y)
  BY Zenon DEF Truth
<1>2. p.rel = "none" \/ x = y
  OBVIOUS
<1> HIDE DEF value, x, y
<1>3. QED
  BY <1>1, <1>2

\* A CHECK says nothing against NULL.
LEMMA TruthNull ==
  ASSUME NEW t, NEW p, NEW a, p.rel = "none" \/ a[ColumnIndex(t, p.col)] = NULL
  PROVE  Truth(t, p, a) # "false"
<1>1. CASE p.rel = "none"
  BY <1>1 DEF Truth
<1>2. CASE p.rel # "none"
  BY <1>2 DEF Truth
<1>3. QED
  BY <1>1, <1>2

\* A table in the place of another, with the same columns but for their sequences,
\* and the same CHECKs.
SameRules(t, u) ==
  /\ DOMAIN u.columns = DOMAIN t.columns /\ Len(u.columns) = Len(t.columns) /\ u.checks = t.checks
  /\ \A i \in DOMAIN t.columns : /\ u.columns[i].name = t.columns[i].name
                                 /\ u.columns[i].notNull = t.columns[i].notNull
                                 /\ u.columns[i].missing = t.columns[i].missing
                                 /\ u.columns[i].default = t.columns[i].default

\* The number of a column is the same there.
LEMMA SameIndex ==
  ASSUME NEW t, NEW u, IsSeq(t.columns), SameRules(t, u), NEW name
  PROVE  ColumnIndex(u, name) = ColumnIndex(t, name)
<1> DEFINE I(v) == {i \in 1..Len(v.columns) : v.columns[i].name = name}
           least(S) == CHOOSE i \in S : \A j \in S : i <= j
<1>1. \A v : ColumnIndex(v, name) = IF I(v) # {} THEN least(I(v)) ELSE 0
  BY Zenon DEF ColumnIndex, SelectInSeq, Min
<1>2. DOMAIN t.columns = 1..Len(t.columns)
  BY SeqIs
<1>3. I(u) = I(t)
  BY <1>2 DEF SameRules
<1> HIDE DEF I, least
<1>4. QED
  BY <1>1, <1>3

\* The same rows satisfy them.
LEMMA SameFits ==
  ASSUME NEW t, NEW u, IsSeq(t.columns), SameRules(t, u)
  PROVE  /\ \A vals : Values(u, vals) = Values(t, vals)
         /\ \A row : /\ IsRow(u, row) <=> IsRow(t, row)
                     /\ checkRow(u, row) <=> checkRow(t, row)
                     /\ runChecks(u, row) <=> runChecks(t, row)
<1>1. \A vals : Values(u, vals) = Values(t, vals)
  BY DEF Values, SameRules
<1>2. \A row : IsRow(u, row) <=> IsRow(t, row)
  BY DEF IsRow, SameRules
<1>3. \A row : checkRow(u, row) <=> checkRow(t, row)
  BY DEF checkRow, SameRules
<1>4. \A row, p : Truth(u, p, row) = Truth(t, p, row)
  BY SameIndex, TruthAlike
<1>5. \A row : runChecks(u, row) <=> runChecks(t, row)
  BY <1>4 DEF runChecks, SameRules
<1>6. QED
  BY <1>1, <1>2, <1>3, <1>5

\* A CHECK of the table u that says of an older row, at its width, what one of t
\* does, or judges what the row reads in a column it is older than.
Judges(t, u, p) ==
  \/ p.rel = "none"
  \/ /\ \E i \in DOMAIN t.checks : t.checks[i] = p
     /\ ColumnIndex(t, p.col) \in DOMAIN t.columns /\ ColumnIndex(u, p.col) = ColumnIndex(t, p.col)
  \/ /\ ColumnIndex(u, p.col) \in DOMAIN u.columns \ DOMAIN t.columns
     /\ \A row : row[ColumnIndex(u, p.col)] = u.columns[ColumnIndex(u, p.col)].missing => Truth(u, p, row) # "false"

\* A table whose older rows satisfy its constraints, if they are not NULL in N.
Admits(t, u, N) ==
  /\ \A i \in DOMAIN t.columns : /\ i \in DOMAIN u.columns /\ u.columns[i].missing = t.columns[i].missing
                                 /\ u.columns[i].notNull => t.columns[i].notNull \/ i \in N
  /\ \A i \in DOMAIN u.columns \ DOMAIN t.columns : u.columns[i].notNull => u.columns[i].missing # NULL
  /\ \A k \in DOMAIN u.checks : Judges(t, u, u.checks[k])

\* They do.
LEMMA AdmitsFits ==
  ASSUME NEW t, NEW u, NEW N, IsSeq(t.columns), Admits(t, u, N),
         NEW vals, IsSeq(vals), Len(vals) \in 0..Len(t.columns),
         Fits(t, Values(t, vals)), \A i \in N : Values(t, vals)[i] # NULL
  PROVE  Fits(u, Values(u, vals))
<1> DEFINE a == Values(t, vals)
           b == Values(u, vals)
<1>1. DOMAIN vals \subseteq DOMAIN t.columns
  BY SeqIs
<1>2. \A i \in DOMAIN t.columns : b[i] = a[i]
  BY DEF Admits, Values
<1>3. \A i \in DOMAIN u.columns \ DOMAIN t.columns : b[i] = u.columns[i].missing
  BY <1>1 DEF Values
<1> HIDE DEF a, b
<1>4. checkRow(u, b)
  <2>1. \A i \in N : a[i] # NULL
    BY DEF a
  <2>2. checkRow(t, a)
    BY DEF Fits, a
  <2>3. QED
    BY <1>2, <1>3, <2>1, <2>2 DEF checkRow, Admits
<1>5. ASSUME NEW k \in DOMAIN u.checks PROVE Truth(u, u.checks[k], b) # "false"
  <2> DEFINE p == u.checks[k]
  <2>1. Judges(t, u, p)
    BY DEF Admits
  <2> HIDE DEF p
  <2>2. CASE p.rel = "none"
    BY <2>2, TruthNull DEF p
  <2>3. CASE /\ \E i \in DOMAIN t.checks : t.checks[i] = p
             /\ ColumnIndex(t, p.col) \in DOMAIN t.columns /\ ColumnIndex(u, p.col) = ColumnIndex(t, p.col)
    <3>1. Truth(u, p, b) = Truth(t, p, a)
      BY <1>2, <2>3, TruthAlike
    <3>2. runChecks(t, a)
      BY DEF Fits, a
    <3>3. QED
      BY <2>3, <3>1, <3>2 DEF runChecks, p
  <2>4. CASE /\ ColumnIndex(u, p.col) \in DOMAIN u.columns \ DOMAIN t.columns
             /\ \A row : row[ColumnIndex(u, p.col)] = u.columns[ColumnIndex(u, p.col)].missing => Truth(u, p, row) # "false"
    BY <1>3, <2>4 DEF p
  <2>5. QED
    BY <2>1, <2>2, <2>3, <2>4 DEF Judges
<1>6. QED
  BY <1>4, <1>5 DEF Fits, runChecks, b

(***************************************************************************)
(* Schema changes, as the constraints see them.                            *)
(***************************************************************************)

\* A table with the same columns and the same CHECKs.
LEMMA PlainAdmits ==
  ASSUME NEW t, NEW u, TableShape(t), TableResolves(t), u.columns = t.columns, u.checks = t.checks
  PROVE  Admits(t, u, {})
<1>1. \A name : ColumnIndex(u, name) = ColumnIndex(t, name)
  BY SameColumns
<1>2. \A name : ColumnIndex(t, name) # 0 => ColumnIndex(t, name) \in DOMAIN t.columns
  BY ColumnIndexIs DEF TableShape
<1>3. \A k \in DOMAIN u.checks : Judges(t, u, u.checks[k])
  BY <1>1, <1>2 DEF Judges, TableResolves, Binds
<1>4. QED
  BY <1>3 DEF Admits

\* One with other columns, where those the CHECKs name keep their names.
LEMMA ChecksKeepColumns ==
  ASSUME NEW t, TableShape(t), TableResolves(t),
         NEW columns, columns = [i \in DOMAIN t.columns |-> columns[i]],
         \A k \in DOMAIN t.checks : \/ t.checks[k].rel = "none"
                                    \/ \A i \in DOMAIN t.columns : columns[i].name = t.checks[k].col
                                                                     <=> t.columns[i].name = t.checks[k].col,
         NEW u, u.columns = columns, u.checks = t.checks
  PROVE  \A k \in DOMAIN u.checks : Judges(t, u, u.checks[k])
<1>2. DOMAIN t.columns = 1..Len(t.columns) /\ Len(t.columns) \in Nat /\ DOMAIN columns = DOMAIN t.columns
  BY SeqIs DEF TableShape
<1>3. IsSeq(u.columns) /\ IsSeq(t.columns)
  BY <1>2, FunctionsAreSeqs DEF TableShape
<1>4. ASSUME NEW k \in DOMAIN t.checks, t.checks[k].rel # "none"
      PROVE  /\ ColumnIndex(t, t.checks[k].col) \in DOMAIN t.columns
             /\ ColumnIndex(u, t.checks[k].col) = ColumnIndex(t, t.checks[k].col)
  <2> DEFINE name == t.checks[k].col
  <2>1. ColumnIndex(t, name) # 0
    BY <1>4 DEF TableResolves, Binds
  <2>2. \A i \in DOMAIN t.columns : i \in DOMAIN u.columns /\ (u.columns[i].name = name <=> t.columns[i].name = name)
    BY <1>2, <1>4
  <2> HIDE DEF name
  <2>3. HasColumn(t, name) /\ ColumnIndex(t, name) \in DOMAIN t.columns
    BY <1>3, <2>1, ColumnIndexIs
  <2>4. ColumnIndex(u, name) = ColumnIndex(t, name)
    BY <1>3, <2>2, <2>3, SameNames
  <2>5. QED
    BY <2>3, <2>4 DEF name
<1>5. QED
  BY <1>4 DEF Judges

\* One whose columns read the same, too.
LEMMA ColumnsAdmit ==
  ASSUME NEW t, TableShape(t), TableResolves(t), NEW N,
         NEW columns, columns = [i \in DOMAIN t.columns |-> columns[i]],
         \A i \in DOMAIN t.columns : /\ columns[i].missing = t.columns[i].missing
                                     /\ columns[i].notNull => t.columns[i].notNull \/ i \in N,
         \A k \in DOMAIN t.checks : \/ t.checks[k].rel = "none"
                                    \/ \A i \in DOMAIN t.columns : columns[i].name = t.checks[k].col
                                                                     <=> t.columns[i].name = t.checks[k].col
  PROVE  Admits(t, [t EXCEPT !.columns = columns], N)
<1> DEFINE u == [t EXCEPT !.columns = columns]
<1>1. u.columns = columns /\ u.checks = t.checks
  BY DEF TableShape, Fields
<1> HIDE DEF u
<1>2. DOMAIN columns = DOMAIN t.columns
  OBVIOUS
<1>3. \A k \in DOMAIN u.checks : Judges(t, u, u.checks[k])
  BY <1>1, ChecksKeepColumns
<1>4. Admits(t, u, N)
  BY <1>1, <1>2, <1>3 DEF Admits
<1>5. QED
  BY <1>4 DEF u

\* A catalog of tables that do, if they are not NULL in the columns N of table h.
AllAdmit(c, d, h, N) ==
  \A g \in DOMAIN c.tables : g \in DOMAIN d.tables /\ Admits(c.tables[g], d.tables[g], IF g = h THEN N ELSE {})

\* A catalog that is as it was.
LEMMA NothingAdmits ==
  ASSUME NEW c, CatalogShape(c), Resolves(c), NEW h, NEW N
  PROVE  AllAdmit(c, c, h, N)
<1>1. \A g \in DOMAIN c.tables : Admits(c.tables[g], c.tables[g], {})
  BY PlainAdmits DEF CatalogShape, Resolves
<1>2. \A t, u : Admits(t, u, {}) => Admits(t, u, N)
  BY DEF Admits
<1>3. QED
  BY <1>1, <1>2 DEF AllAdmit

\* Tables with the same columns and the same CHECKs.
LEMMA PlainAllAdmit ==
  ASSUME NEW c, NEW d, CatalogShape(c), Resolves(c),
         \A g \in DOMAIN c.tables : /\ g \in DOMAIN d.tables
                                    /\ d.tables[g].columns = c.tables[g].columns
                                    /\ d.tables[g].checks = c.tables[g].checks
  PROVE  AllAdmit(c, d, NoTable, {})
BY PlainAdmits DEF AllAdmit, CatalogShape, Resolves

\* One table that does.
LEMMA OneAdmits ==
  ASSUME NEW c, NEW d, CatalogShape(c), Resolves(c), NEW h, NEW u, NEW N,
         h \in DOMAIN c.tables => Admits(c.tables[h], u, N),
         d = [c EXCEPT !.tables = [c.tables EXCEPT ![h] = u]]
  PROVE  AllAdmit(c, d, h, N)
<1>1. /\ DOMAIN d.tables = DOMAIN c.tables
      /\ \A g \in DOMAIN c.tables : d.tables[g] = IF g = h THEN u ELSE c.tables[g]
  BY DEF CatalogShape
<1>2. \A g \in DOMAIN c.tables : Admits(c.tables[g], c.tables[g], {})
  BY PlainAdmits DEF CatalogShape, Resolves
<1>3. QED
  BY <1>1, <1>2 DEF AllAdmit

\* SET NOT NULL judges the rows of its table.
LEMMA SetNotNullAdmits ==
  ASSUME NEW c, CatalogShape(c), Resolves(c), NEW s, s.table \in TableNames, NEW rows,
         NEW d \in SetNotNull(c, s, rows)
  PROVE  \E N : /\ AllAdmit(c, d, Lookup(c, s.table), N)
               /\ \A i \in N : \A r \in DOMAIN rows : rows[r][i] # NULL
<1> DEFINE h == Lookup(c, s.table)
           t == c.tables[h]
           i == ColumnIndex(t, s.column)
           columns == [t.columns EXCEPT ![i] = [t.columns[i] EXCEPT !.notNull = s.notNull]]
           u == [t EXCEPT !.columns = columns]
           N == {j \in {i} : s.notNull}
<1>1. /\ h # NoTable
      /\ \/ d = c
         \/ /\ d = [c EXCEPT !.tables[h].columns[i].notNull = s.notNull]
            /\ s.notNull => \A r \in DOMAIN rows : rows[r][i] # NULL
  BY DEF SetNotNull
<1>2. [c EXCEPT !.tables[h].columns[i].notNull = s.notNull] = [c EXCEPT !.tables = [c.tables EXCEPT ![h] = u]]
  OBVIOUS
<1>3. TableShape(t) /\ h \in DOMAIN c.tables
  BY <1>1, LookupIs
<1>4. TableResolves(t)
  BY <1>3 DEF Resolves
<1>5. /\ columns = [j \in DOMAIN t.columns |-> columns[j]]
      /\ \A j \in DOMAIN t.columns : columns[j].name = t.columns[j].name
      /\ \A j \in DOMAIN t.columns : columns[j].missing = t.columns[j].missing
      /\ \A j \in DOMAIN t.columns : columns[j].notNull => t.columns[j].notNull \/ j \in N
  <2> HIDE DEF t, i
  <2>1. /\ columns = [j \in DOMAIN t.columns |-> columns[j]]
        /\ \A j \in DOMAIN t.columns : columns[j].name = t.columns[j].name
        /\ \A j \in DOMAIN t.columns : columns[j].missing = t.columns[j].missing
    OBVIOUS
  <2>2. \A j \in DOMAIN t.columns : columns[j] = IF j = i THEN [t.columns[i] EXCEPT !.notNull = s.notNull] ELSE t.columns[j]
    OBVIOUS
  <2>3. [t.columns[i] EXCEPT !.notNull = s.notNull].notNull => s.notNull \/ t.columns[i].notNull
    <3>1. CASE "notNull" \in DOMAIN t.columns[i]
      BY <3>1
    <3>2. CASE "notNull" \notin DOMAIN t.columns[i]
      <4>1. [t.columns[i] EXCEPT !.notNull = s.notNull] = [x \in DOMAIN t.columns[i] |-> t.columns[i][x]]
        BY <3>2
      <4>2. QED
        BY <4>1, <3>2
    <3>3. QED
      BY <3>1, <3>2
  <2>4. QED
    BY <2>1, <2>2, <2>3
<1>6. Admits(t, u, N)
  <2> HIDE DEF t, columns, N
  <2>1. QED
    BY <1>3, <1>4, <1>5, ColumnsAdmit
<1> HIDE DEF u
<1>7. d = [c EXCEPT !.tables = [c.tables EXCEPT ![h] = u]] => AllAdmit(c, d, h, N)
  BY <1>6, OneAdmits
<1>8. CASE d = c
  <2>1. AllAdmit(c, d, h, {})
    BY <1>8, NothingAdmits
  <2>2. QED
    BY <1>3, <2>1
<1>9. CASE d # c
  <2>1. d = [c EXCEPT !.tables = [c.tables EXCEPT ![h] = u]]
    BY <1>1, <1>2, <1>9
  <2>2. AllAdmit(c, d, h, N)
    BY <1>7, <2>1
  <2>3. \A j \in N : \A r \in DOMAIN rows : rows[r][j] # NULL
    BY <1>1, <1>9
  <2> HIDE DEF N, h
  <2>4. QED
    BY <2>2, <2>3 DEF h
<1>10. QED
  BY <1>8, <1>9

\* A catalog whose tables have the columns and the CHECKs they had.
KeepsRules(c, d) ==
  \A g \in DOMAIN c.tables : /\ g \in DOMAIN d.tables
                             /\ d.tables[g].columns = c.tables[g].columns
                             /\ d.tables[g].checks = c.tables[g].checks

\* What a table has that keeps its columns and its CHECKs.
LEMMA KeptRules ==
  ASSUME NEW t, DOMAIN t = Fields, NEW u, NEW x,
         \/ u = t \/ u = [t EXCEPT !.name = x] \/ u = [t EXCEPT !.indexes = x] \/ u = [t EXCEPT !.referencedBy = x]
  PROVE  u.columns = t.columns /\ u.checks = t.checks
BY DEF Fields

\* RENAME TABLE.
LEMMA RenameTableKeepsRules ==
  ASSUME NEW c, CatalogShape(c), NEW s, NEW d \in RenameTable(c, s)
  PROVE  KeepsRules(c, d)
<1> DEFINE h == Lookup(c, s.table)
           u == [c.tables[h] EXCEPT !.name = s.to]
<1>1. CASE d = c
  BY <1>1 DEF KeepsRules
<1>2. CASE d # c
  <2>1. d = [names  |-> [c.names EXCEPT ![s.table] = NoTable, ![s.to] = h],
             tables |-> [c.tables EXCEPT ![h].name = s.to]]
    BY <1>2 DEF RenameTable
  <2>2. d.tables = [c.tables EXCEPT ![h] = u]
    BY <2>1
  <2>3. \A g \in DOMAIN c.tables : DOMAIN c.tables[g] = Fields
    BY DEF CatalogShape, TableShape
  <2> HIDE DEF h
  <2>4. \A g \in DOMAIN c.tables : g \in DOMAIN d.tables /\ d.tables[g] \in {c.tables[g], [c.tables[g] EXCEPT !.name = s.to]}
    BY <2>2
  <2>5. ASSUME NEW g \in DOMAIN c.tables
        PROVE  d.tables[g].columns = c.tables[g].columns /\ d.tables[g].checks = c.tables[g].checks
    <3> DEFINE to == s.to
    <3>1. d.tables[g] = c.tables[g] \/ d.tables[g] = [c.tables[g] EXCEPT !.name = to]
      BY <2>4
    <3> HIDE DEF to
    <3>2. QED
      BY <2>3, <3>1, KeptRules
  <2>6. QED
    BY <2>4, <2>5 DEF KeepsRules
<1>3. QED
  BY <1>1, <1>2

\* DROP TABLE.
LEMMA DropTableKeepsRules ==
  ASSUME NEW c, CatalogShape(c), NEW s, NEW d \in DropTable(c, s)
  PROVE  KeepsRules(c, d)
<1> DEFINE going == {Lookup(c, n) : n \in s.tables} \ {NoTable}
           stays(g) == {r \in ToSet(c.tables[g].referencedBy) :
                          r.child \notin going \/ g \notin Parents(c.tables, r.child) \ {r.child}}
           left(g) == Only(c.tables[g].referencedBy, stays(g))
<1>1. d.tables = detach(c.tables, going)
  BY DEF DropTable
<1>2. detach(c.tables, going) = [g \in DOMAIN c.tables |-> [c.tables[g] EXCEPT !.referencedBy = left(g)]]
  BY Zenon DEF detach
<1> HIDE DEF left, going
<1>3. \A g \in DOMAIN c.tables : g \in DOMAIN d.tables /\ d.tables[g] = [c.tables[g] EXCEPT !.referencedBy = left(g)]
  BY <1>1, <1>2
<1>4. \A g \in DOMAIN c.tables : DOMAIN c.tables[g] = Fields
  BY DEF CatalogShape, TableShape
<1>5. QED
  BY <1>3, <1>4, KeptRules DEF KeepsRules

\* CREATE INDEX.
LEMMA CreateIndexKeepsRules ==
  ASSUME NEW c, CatalogShape(c), NEW s, NEW sound, NEW d \in CreateIndex(c, s, sound)
  PROVE  KeepsRules(c, d)
<1> DEFINE h == Lookup(c, s.table)
           more == Append(c.tables[h].indexes, NewIndex(c, s, sound))
           u == [c.tables[h] EXCEPT !.indexes = more]
<1>1. d = c \/ d = [c EXCEPT !.tables[h].indexes = more]
  BY DEF CreateIndex, NewIndex
<1> HIDE DEF more
<1>2. d = c \/ d = [c EXCEPT !.tables = [c.tables EXCEPT ![h] = u]]
  BY <1>1
<1>3. \A g \in DOMAIN c.tables : DOMAIN c.tables[g] = Fields
  BY DEF CatalogShape, TableShape
<1> HIDE DEF h
<1>4. \A g \in DOMAIN c.tables : g \in DOMAIN d.tables /\ d.tables[g] \in {c.tables[g], [c.tables[g] EXCEPT !.indexes = more]}
  BY <1>2 DEF CatalogShape
<1>5. QED
  BY <1>3, <1>4, KeptRules DEF KeepsRules

\* DROP INDEX.
LEMMA DropIndexKeepsRules ==
  ASSUME NEW c, CatalogShape(c), NEW s, NEW d \in DropIndex(c, s)
  PROVE  KeepsRules(c, d)
<1> DEFINE having == {h \in Present(c) : s.name \in IndexNames(c, h)}
           left(h) == Only(c.tables[h].indexes, {x \in ToSet(c.tables[h].indexes) : x.name # s.name})
<1>1. d = c \/ \E h \in having : d = [c EXCEPT !.tables[h].indexes = left(h)]
  BY DEF DropIndex
<1>2. CASE d = c
  BY <1>2 DEF KeepsRules
<1>3. SUFFICES ASSUME NEW h \in having, d = [c EXCEPT !.tables[h].indexes = left(h)]
               PROVE  KeepsRules(c, d)
  BY <1>1, <1>2
<1> DEFINE u == [c.tables[h] EXCEPT !.indexes = left(h)]
<1>4. d = [c EXCEPT !.tables = [c.tables EXCEPT ![h] = u]]
  BY <1>3
<1>5. \A g \in DOMAIN c.tables : DOMAIN c.tables[g] = Fields
  BY DEF CatalogShape, TableShape
<1> HIDE DEF left, having
<1>6. \A g \in DOMAIN c.tables : g \in DOMAIN d.tables /\ d.tables[g] \in {c.tables[g], [c.tables[g] EXCEPT !.indexes = left(h)]}
  BY <1>4 DEF CatalogShape
<1>7. QED
  BY <1>5, <1>6, KeptRules DEF KeepsRules

\* CREATE TABLE.
LEMMA CreateTableKeepsRules ==
  ASSUME NEW c, CatalogShape(c), NEW s, NEW d \in CreateTable(c, s)
  PROVE  KeepsRules(c, d)
<1>1. CASE d = c
  BY <1>1 DEF KeepsRules
<1>2. CASE d # c
  <2> DEFINE h == Len(c.tables) + 1
  <2>0. PICK t \in bindCreateTable(c, s) :
          d = [names  |-> [c.names EXCEPT ![s.table] = h],
               tables |-> AddReferencing(Append(c.tables, t), h)]
    BY <1>2, Zenon DEF CreateTable
  <2>1. d.tables = AddReferencing(Append(c.tables, t), h)
    BY <2>0
  <2> DEFINE more == Append(c.tables, t)
             refs == ReferencesOf(more, h)
             to(g) == {r \in ToSet(refs) : more[h].foreignKeys[r.fk].parent = g}
             left(g) == more[g].referencedBy \o Only(refs, to(g))
  <2>2. d.tables = [g \in DOMAIN more |-> [more[g] EXCEPT !.referencedBy = left(g)]]
    BY <2>1, Zenon DEF AddReferencing
  <2>3. IsSeq(c.tables)
    BY DEF CatalogShape
  <2>4. DOMAIN more = 1..h /\ \A g \in DOMAIN c.tables : more[g] = c.tables[g]
    BY <2>3, AppendIs
  <2>5. Len(c.tables) \in Nat /\ DOMAIN c.tables = 1..Len(c.tables)
    BY <2>3, SeqIs
  <2> HIDE DEF more, left
  <2>6. \A g \in DOMAIN c.tables : g \in DOMAIN more
    BY <2>4, <2>5
  <2>7. \A g \in DOMAIN c.tables : g \in DOMAIN d.tables /\ d.tables[g] = [c.tables[g] EXCEPT !.referencedBy = left(g)]
    BY <2>2, <2>4, <2>6
  <2>8. \A g \in DOMAIN c.tables : DOMAIN c.tables[g] = Fields
    BY DEF CatalogShape, TableShape
  <2>9. QED
    BY <2>7, <2>8, KeptRules DEF KeepsRules
<1>3. QED
  BY <1>1, <1>2

\* RENAME COLUMN: what a CHECK names keeps its name.
LEMMA RenameColumnAdmits ==
  ASSUME NEW c, CatalogShape(c), Resolves(c), NEW s, s.table \in TableNames, NEW d \in RenameColumn(c, s)
  PROVE  AllAdmit(c, d, Lookup(c, s.table), {})
<1> DEFINE h == Lookup(c, s.table)
           t == c.tables[h]
           i == ColumnIndex(t, s.column)
           columns == [t.columns EXCEPT ![i] = [t.columns[i] EXCEPT !.name = s.to]]
           u == [t EXCEPT !.columns = columns]
<1>1. h # NoTable /\ i # 0
  BY DEF RenameColumn
<1>2. CASE d = c
  BY <1>2, NothingAdmits
<1>3. CASE d # c
  <2>1. /\ ~dependsOnColumnName(t, s.column) /\ ColumnIndex(t, s.to) = 0
        /\ d = [c EXCEPT !.tables[h].columns[i].name = s.to]
    BY <1>1, <1>3 DEF RenameColumn
  <2>2. d = [c EXCEPT !.tables = [c.tables EXCEPT ![h] = u]]
    BY <2>1
  <2>3. TableShape(t) /\ h \in DOMAIN c.tables
    BY <1>1, LookupIs
  <2>4. TableResolves(t)
    BY <2>3 DEF Resolves
  <2>5. t.columns[i].name = s.column /\ ~HasColumn(t, s.to)
    <3> HIDE DEF t
    <3>1. QED
      BY <1>1, <2>1, <2>3, ColumnIndexIs DEF TableShape
  <2> HIDE DEF i, t
  <2>6. /\ columns = [j \in DOMAIN t.columns |-> columns[j]]
        /\ \A j \in DOMAIN t.columns : columns[j].missing = t.columns[j].missing
        /\ \A j \in DOMAIN t.columns : columns[j].name = IF j = i THEN s.to ELSE t.columns[j].name
    BY <2>3 DEF TableShape
  <2>7. \A j \in DOMAIN t.columns : columns[j].notNull => t.columns[j].notNull
    <3>1. [t.columns[i] EXCEPT !.name = s.to].notNull = t.columns[i].notNull
      OBVIOUS
    <3>2. QED
      BY <2>3, <3>1
  <2>8. ASSUME NEW k \in DOMAIN t.checks, t.checks[k].rel # "none"
        PROVE  \A j \in DOMAIN t.columns : columns[j].name = t.checks[k].col <=> t.columns[j].name = t.checks[k].col
    <3>1. t.checks[k].col # s.column
      BY <2>1 DEF dependsOnColumnName
    <3>2. HasColumn(t, t.checks[k].col)
      <4>1. IsSeq(t.columns) /\ Binds(t, t.checks[k])
        BY <2>3, <2>4 DEF TableShape, TableResolves
      <4>2. QED
        BY <2>8, <4>1, BindsIs
    <3>3. t.checks[k].col # s.to
      BY <2>5, <3>2
    <3> HIDE DEF columns
    <3>4. QED
      BY <2>5, <2>6, <3>1, <3>3
  <2>9. Admits(t, u, {})
    <3> HIDE DEF columns
    <3>1. \A k \in DOMAIN t.checks : \/ t.checks[k].rel = "none"
                                     \/ \A j \in DOMAIN t.columns : columns[j].name = t.checks[k].col
                                                                      <=> t.columns[j].name = t.checks[k].col
      BY <2>8, Zenon
    <3>2. \A j \in DOMAIN t.columns : /\ columns[j].missing = t.columns[j].missing
                                      /\ columns[j].notNull => t.columns[j].notNull \/ j \in {}
      BY <2>6, <2>7, Zenon
    <3>3. QED
      BY <2>3, <2>4, <2>6, <3>1, <3>2, ColumnsAdmit, Zenon
  <2> HIDE DEF u
  <2>10. QED
    BY <2>2, <2>9, OneAdmits DEF t
<1>4. QED
  BY <1>2, <1>3

\* The CHECKs an ADD COLUMN brings are not false of the value the older rows read.
NewChecksPass(s) ==
  \A i \in DOMAIN s.checks :
    Truth([columns |-> <<[name |-> s.column.name]>>], s.checks[i], <<s.column.default>>) # "false"

\* A column that keeps its name keeps its number.
LEMMA KeptNumbers ==
  ASSUME NEW t, NEW u, IsSeq(t.columns), IsSeq(u.columns),
         \A i \in DOMAIN t.columns : i \in DOMAIN u.columns /\ u.columns[i].name = t.columns[i].name
  PROVE  \A name : HasColumn(t, name) => ColumnIndex(u, name) = ColumnIndex(t, name)
BY SameNames

\* The CHECKs of a table with one more column, and those that come with it.
LEMMA WidenedJudges ==
  ASSUME NEW t, TableShape(t), TableResolves(t), NEW s, NewColumnChecks(s), NewChecksPass(s), IsList(s.checks),
         ColumnIndex(t, s.column.name) = 0,
         NEW col, col.name = s.column.name, col.missing = s.column.default,
         NEW u, u.columns = Append(t.columns, col), u.checks = t.checks \o s.checks
  PROVE  \A k \in DOMAIN u.checks : Judges(t, u, u.checks[k])
<1> DEFINE last == Len(t.columns) + 1
           name == s.column.name
<1>1. IsSeq(t.columns) /\ DOMAIN t.columns = 1..Len(t.columns) /\ Len(t.columns) \in Nat
  BY SeqIs DEF TableShape
<1>2. /\ IsSeq(u.columns) /\ DOMAIN u.columns = 1..last
      /\ u.columns[last] = col /\ \A i \in DOMAIN t.columns : u.columns[i] = t.columns[i]
  BY <1>1, AppendIs
<1>3. /\ \A i \in DOMAIN t.columns : i \in DOMAIN u.columns
      /\ DOMAIN u.columns \ DOMAIN t.columns = {last}
  BY <1>1, <1>2
<1> HIDE DEF last
<1>4. ASSUME NEW k \in DOMAIN t.checks
      PROVE  Judges(t, u, t.checks[k])
  <2> DEFINE p == t.checks[k]
             on == p.col
  <2>1. p.rel = "none" \/ ColumnIndex(t, on) # 0
    BY DEF TableResolves, Binds
  <2>2. CASE p.rel = "none"
    BY <2>2 DEF Judges
  <2>3. CASE ColumnIndex(t, on) # 0
    <3> HIDE DEF on
    <3>1. HasColumn(t, on) /\ ColumnIndex(t, on) \in DOMAIN t.columns
      BY <1>1, <2>3, ColumnIndexIs
    <3>2. \A i \in DOMAIN t.columns : i \in DOMAIN u.columns /\ u.columns[i].name = t.columns[i].name
      BY <1>2, <1>3
    <3>3. ColumnIndex(u, on) = ColumnIndex(t, on)
      BY <1>1, <1>2, <3>1, <3>2, KeptNumbers, Zenon
    <3>4. QED
      BY <3>1, <3>3 DEF Judges, on
  <2>4. QED
    BY <2>1, <2>2, <2>3
<1>5. ASSUME NEW k \in DOMAIN s.checks
      PROVE  Judges(t, u, s.checks[k])
  <2> DEFINE p == s.checks[k]
             w == [columns |-> <<[name |-> name]>>]
  <2>1. p.rel = "none" \/ p.col = name
    BY DEF NewColumnChecks
  <2>2. CASE p.rel = "none"
    BY <2>2 DEF Judges
  <2>3. CASE p.col = name
    <3>1. ColumnIndex(u, name) = last
      <4> HIDE DEF name
      <4>1. HasColumn(u, name)
        BY <1>2, <1>3 DEF HasColumn, name
      <4>2. ColumnIndex(u, name) \in DOMAIN u.columns /\ u.columns[ColumnIndex(u, name)].name = name
        BY <1>2, <4>1, ColumnIndexIs
      <4>3. ~HasColumn(t, name)
        BY <1>1, ColumnIndexIs DEF name
      <4>4. QED
        BY <1>2, <1>3, <4>2, <4>3 DEF HasColumn
    <3>2. ColumnIndex(w, name) = 1
      <4> DEFINE one == [name |-> name]
      <4>1. w.columns = <<one>> /\ one.name = name
        OBVIOUS
      <4> HIDE DEF w, name, one
      <4>2. IsSeq(w.columns) /\ w.columns[1].name = name /\ DOMAIN w.columns = {1}
        BY <4>1, SmallSeqs, SeqIs
      <4>3. HasColumn(w, name)
        BY <4>2 DEF HasColumn
      <4>4. QED
        BY <4>2, <4>3, ColumnIndexIs
    <3>3. Truth(w, p, <<s.column.default>>) # "false"
      BY DEF NewChecksPass
    <3>4. ASSUME NEW row, row[ColumnIndex(u, p.col)] = u.columns[ColumnIndex(u, p.col)].missing
          PROVE  Truth(u, p, row) # "false"
      <4> DEFINE b == <<s.column.default>>
      <4>1. b[1] = s.column.default
        OBVIOUS
      <4> HIDE DEF b, w
      <4>2. row[ColumnIndex(u, p.col)] = b[ColumnIndex(w, p.col)]
        BY <1>2, <2>3, <3>1, <3>2, <3>4, <4>1
      <4> HIDE DEF p
      <4>3. Truth(w, p, b) = Truth(u, p, row)
        BY <4>2, TruthAlike
      <4>4. QED
        BY <3>3, <4>3 DEF b
    <3>5. ColumnIndex(u, p.col) \in DOMAIN u.columns \ DOMAIN t.columns
      BY <1>3, <2>3, <3>1
    <3>6. QED
      BY <3>4, <3>5 DEF Judges
  <2>4. QED
    BY <2>1, <2>2, <2>3
<1>6. QED
  <2>1. IsSeq(t.checks) /\ IsSeq(s.checks)
    BY ListsAreSeqs DEF TableShape
  <2>2. ToSet(u.checks) = ToSet(t.checks) \cup ToSet(s.checks)
    <3>1. \A q, r : IsSeq(q) /\ IsSeq(r) => ToSet(q \o r) = ToSet(q) \cup ToSet(r)
      BY ConcatIs, Zenon
    <3>2. QED
      BY <2>1, <3>1, Zenon
  <2>3. \A p \in ToSet(u.checks) : Judges(t, u, p)
    <3>1. \A p \in ToSet(t.checks) : Judges(t, u, p)
      BY <1>4, Zenon DEF ToSet
    <3>2. \A p \in ToSet(s.checks) : Judges(t, u, p)
      BY <1>5, Zenon DEF ToSet
    <3>3. QED
      BY <2>2, <3>1, <3>2, Zenon
  <2>4. QED
    BY <2>3, SeqIs, Zenon

\* A table with one more column, and the CHECKs that come with it.
LEMMA WidenedAdmits ==
  ASSUME NEW t, TableShape(t), TableResolves(t), NEW s, NewColumnChecks(s), NewChecksPass(s), IsList(s.checks),
         ColumnIndex(t, s.column.name) = 0,
         NEW col, col.name = s.column.name, col.missing = s.column.default, col.notNull => col.missing # NULL,
         NEW u, u.columns = Append(t.columns, col), u.checks = t.checks \o s.checks
  PROVE  Admits(t, u, {})
<1>1. IsSeq(t.columns) /\ DOMAIN t.columns = 1..Len(t.columns) /\ Len(t.columns) \in Nat
  BY SeqIs DEF TableShape
<1>2. /\ DOMAIN u.columns = 1..(Len(t.columns) + 1)
      /\ u.columns[Len(t.columns) + 1] = col /\ \A i \in DOMAIN t.columns : u.columns[i] = t.columns[i]
  BY <1>1, AppendIs
<1>3. /\ \A i \in DOMAIN t.columns : i \in DOMAIN u.columns
      /\ DOMAIN u.columns \ DOMAIN t.columns = {Len(t.columns) + 1}
  BY <1>1, <1>2
<1>4. \A k \in DOMAIN u.checks : Judges(t, u, u.checks[k])
  BY WidenedJudges
<1>5. QED
  BY <1>2, <1>3, <1>4, Zenon DEF Admits

\* ADD COLUMN.
LEMMA AddColumnAdmits ==
  ASSUME NEW c, CatalogShape(c), Resolves(c), NEW s, Addition(s), NewColumnChecks(s), NewChecksPass(s),
         NEW d \in AddColumn(c, s)
  PROVE  AllAdmit(c, d, NoTable, {})
<1> DEFINE h == Lookup(c, s.table)
           t == c.tables[h]
           n == Len(t.foreignKeys) + 1
           extended(a) == [c.tables EXCEPT ![h].columns = Append(@, a.column), ![h].checks = @ \o s.checks,
                                           ![h].foreignKeys = @ \o a.fks]
           registered(a) ==
             IF a.fks = <<>> THEN extended(a)
             ELSE [extended(a) EXCEPT ![a.fks[1].parent].referencedBy = Append(@, [child |-> h, fk |-> n])]
<1>1. CASE d = c
  BY <1>1, NothingAdmits
<1>2. CASE d # c
  <2>1. PICK a \in bindAddColumn(c, s) : /\ ColumnIndex(t, a.column.name) = 0
                                         /\ d = [c EXCEPT !.tables = registered(a)]
    BY <1>2, Zenon DEF AddColumn
  <2> DEFINE col == a.column
  <2>2. /\ h # NoTable /\ col.name = s.column.name /\ col.missing = s.column.default
        /\ col.notNull => col.missing # NULL
    BY DEF bindAddColumn
  <2>3. h \in DOMAIN c.tables /\ TableShape(t)
    BY <2>2, LookupIs DEF Addition
  <2>4. TableResolves(t)
    BY <2>3 DEF Resolves
  <2> DEFINE u == [t EXCEPT !.columns = Append(@, a.column), !.checks = @ \o s.checks,
                            !.foreignKeys = @ \o a.fks]
  <2>5. extended(a) = [c.tables EXCEPT ![h] = u]
    OBVIOUS
  <2>6. u.columns = Append(t.columns, a.column) /\ u.checks = t.checks \o s.checks /\ DOMAIN u = Fields
    BY <2>3 DEF TableShape, Fields
  <2>7. d.tables = registered(a)
    BY <2>1 DEF CatalogShape
  <2> HIDE DEF u
  <2>8. /\ DOMAIN extended(a) = DOMAIN c.tables
        /\ \A g \in DOMAIN c.tables : extended(a)[g] = IF g = h THEN u ELSE c.tables[g]
    BY <2>5
  <2> HIDE DEF extended, n
  <2>9. /\ DOMAIN d.tables = DOMAIN c.tables
        /\ \A g \in DOMAIN c.tables : \/ d.tables[g] = extended(a)[g]
                                      \/ \E refs : d.tables[g] = [extended(a)[g] EXCEPT !.referencedBy = refs]
    <3>1. CASE a.fks = <<>>
      BY <2>7, <2>8, <3>1
    <3>2. CASE a.fks # <<>>
      <4> DEFINE p == a.fks[1].parent
                 refs == Append(extended(a)[p].referencedBy, [child |-> h, fk |-> n])
      <4>1. d.tables = [extended(a) EXCEPT ![p] = [extended(a)[p] EXCEPT !.referencedBy = refs]]
        BY <2>7, <3>2
      <4> HIDE DEF p, refs
      <4>2. QED
        BY <2>8, <4>1
    <3>3. QED
      BY <3>1, <3>2
  <2>10. ColumnIndex(t, s.column.name) = 0
    BY <2>1, <2>2
  <2> HIDE DEF col
  <2>11. ASSUME NEW g \in DOMAIN c.tables
         PROVE  Admits(c.tables[g], d.tables[g], {})
    <3>1. CASE g # h
      <4>1. extended(a)[g] = c.tables[g]
        BY <2>8, <3>1
      <4>2. TableShape(c.tables[g]) /\ TableResolves(c.tables[g])
        BY DEF CatalogShape, Resolves
      <4>3. d.tables[g].columns = c.tables[g].columns /\ d.tables[g].checks = c.tables[g].checks
        <5> DEFINE v == d.tables[g]
                   w == c.tables[g]
        <5>1. v = w \/ \E refs : v = [w EXCEPT !.referencedBy = refs]
          BY <2>9, <4>1
        <5>2. DOMAIN w = Fields
          BY <4>2 DEF TableShape
        <5> HIDE DEF v, w
        <5>3. v.columns = w.columns /\ v.checks = w.checks
          BY <5>1, <5>2, KeptRules
        <5>4. QED
          BY <5>3 DEF v, w
      <4>4. QED
        BY <4>2, <4>3, PlainAdmits
    <3>2. CASE g = h
      <4> DEFINE v == d.tables[g]
      <4>1. extended(a)[g] = u
        BY <2>3, <2>8, <3>2
      <4>2. v = u \/ \E refs : v = [u EXCEPT !.referencedBy = refs]
        BY <2>3, <2>9, <3>2, <4>1
      <4> HIDE DEF t, v
      <4>3. v.columns = u.columns /\ v.checks = u.checks
        BY <2>6, <4>2, KeptRules
      <4>4. v.columns = Append(t.columns, col) /\ v.checks = t.checks \o s.checks
        BY <2>6, <4>3 DEF col
      <4>5. Admits(t, v, {})
        BY <2>2, <2>3, <2>4, <2>10, <4>4, WidenedAdmits, Zenon DEF Addition
      <4>6. QED
        BY <3>2, <4>5 DEF v, t
    <3>3. QED
      BY <3>1, <3>2
  <2>12. QED
    BY <2>9, <2>11 DEF AllAdmit
<1>3. QED
  BY <1>1, <1>2

\* A change that leaves the constraints as they are.
LEMMA KeepsRulesAdmits ==
  ASSUME NEW c, NEW d, CatalogShape(c), Resolves(c), KeepsRules(c, d)
  PROVE  AllAdmit(c, d, NoTable, {})
BY PlainAllAdmit DEF KeepsRules

\* The CHECKs of an ADD COLUMN pass.
Settled(s) == s.op = "add column" => NewColumnChecks(s) /\ NewChecksPass(s)

\* A schema change: only SET NOT NULL asks more of the rows there are.
LEMMA DDLAdmits ==
  ASSUME CatInv, Resolves(catalog), NEW me, NEW s, IsDDL(s), WellFormed(s), BindsDDL(s), Settled(s),
         NEW d \in DDL(me, s)
  PROVE  \E N : /\ AllAdmit(catalog, d, Lookup(catalog, s.table), N)
                /\ \A i \in N : \A r \in DOMAIN Judging(me, s) : Judging(me, s)[r][i] # NULL
                /\ N = {} \/ s.op = "set not null"
<1> DEFINE plain == AllAdmit(catalog, d, NoTable, {}) \/ AllAdmit(catalog, d, Lookup(catalog, s.table), {})
<1>0. CatalogShape(catalog)
  BY DEF CatInv
<1>1. plain => AllAdmit(catalog, d, Lookup(catalog, s.table), {})
  BY DEF AllAdmit
<1> HIDE DEF plain
<1>2. plain \/ (s.op = "set not null" /\ OnTable(s) /\ d \in SetNotNull(catalog, s, Judging(me, s)))
  <2>1. CASE Creation(s) /\ d \in CreateTable(catalog, s)
    BY <1>0, <2>1, CreateTableKeepsRules, KeepsRulesAdmits DEF plain
  <2>2. CASE s.tables \subseteq TableNames /\ d \in DropTable(catalog, s)
    BY <1>0, <2>2, DropTableKeepsRules, KeepsRulesAdmits DEF plain
  <2>3. CASE Addition(s) /\ s.op = "add column" /\ d \in AddColumn(catalog, s)
    BY <1>0, <2>3, AddColumnAdmits DEF Settled, plain
  <2>4. CASE OnTable(s) /\ s.to \in TableNames /\ d \in RenameTable(catalog, s)
    BY <1>0, <2>4, RenameTableKeepsRules, KeepsRulesAdmits DEF plain
  <2>5. CASE OnTable(s) /\ d \in RenameColumn(catalog, s)
    BY <1>0, <2>5, RenameColumnAdmits DEF OnTable, plain
  <2>6. CASE OnTable(s) /\ s.op = "set not null" /\ d \in SetNotNull(catalog, s, Judging(me, s))
    BY <2>6
  <2>7. CASE OnTable(s) /\ bindCreateIndex(catalog, s) /\ d \in CreateIndex(catalog, s, Sound(s))
    BY <1>0, <2>7, CreateIndexKeepsRules, KeepsRulesAdmits DEF plain
  <2>8. CASE d \in DropIndex(catalog, s)
    BY <1>0, <2>8, DropIndexKeepsRules, KeepsRulesAdmits DEF plain
  <2>9. QED
    BY <2>1, <2>2, <2>3, <2>4, <2>5, <2>6, <2>7, <2>8, DDLIs, Zenon
<1>3. CASE plain
  BY <1>1, <1>3
<1>4. CASE s.op = "set not null" /\ OnTable(s) /\ d \in SetNotNull(catalog, s, Judging(me, s))
  <2>1. \E N : /\ AllAdmit(catalog, d, Lookup(catalog, s.table), N)
               /\ \A i \in N : \A r \in DOMAIN Judging(me, s) : Judging(me, s)[r][i] # NULL
    BY <1>0, <1>4, SetNotNullAdmits DEF OnTable
  <2>2. QED
    BY <1>4, <2>1, Zenon
<1>5. QED
  BY <1>2, <1>3, <1>4

(***************************************************************************)
(* The rows that count: those of versions that are seen, or may be.        *)
(***************************************************************************)

\* A version whose writer has not aborted, and that nobody who committed took.
Lives(v, st) == st[v.xmin] # "aborted" /\ (v.xmax = NoTx \/ st[v.xmax] # "committed")

VersionFits(t, v, st) == IsSeq(v.vals) /\ (Lives(v, st) => Fits(t, Values(t, v.vals)))

HeapFits(hp, c, st) == \A h \in DOMAIN hp : \A i \in DOMAIN hp[h] : VersionFits(c.tables[h], hp[h][i], st)

\* What is over does not live again.
LEMMA LivesLess ==
  ASSUME NEW v, NEW n \in Nat, NEW width, VersionOK(v, n, width), NEW st, NEW st2,
         \A i \in 1..n : st2[i] = st[i] \/ st[i] = "active", Lives(v, st2)
  PROVE  Lives(v, st)
<1>1. v.xmin \in 1..n /\ (v.xmax = NoTx \/ v.xmax \in 1..n)
  BY DEF VersionOK, NoTx
<1>2. QED
  BY <1>1 DEF Lives

\* The rows fit as transactions begin and end, in tables with the same constraints.
LEMMA FitsOn ==
  ASSUME NEW hp, NEW c, CatalogShape(c), NEW n \in Nat, HeapOK(hp, c, n), NEW st, HeapFits(hp, c, st),
         NEW st2, \A i \in 1..n : st2[i] = st[i] \/ st[i] = "active",
         NEW d, \A h \in DOMAIN c.tables : SameRules(c.tables[h], d.tables[h])
  PROVE  HeapFits(hp, d, st2)
<1>1. SUFFICES ASSUME NEW h \in DOMAIN hp, NEW i \in DOMAIN hp[h]
               PROVE  VersionFits(d.tables[h], hp[h][i], st2)
  BY DEF HeapFits
<1> DEFINE t == c.tables[h]
           u == d.tables[h]
           v == hp[h][i]
<1>2. VersionOK(v, n, Width(c, h)) /\ IsSeq(t.columns) /\ SameRules(t, u)
  BY DEF HeapOK, VersionsOK, CatalogShape, TableShape
<1>3. VersionFits(t, v, st)
  BY DEF HeapFits
<1> HIDE DEF t, u, v
<1>4. Lives(v, st2) => Lives(v, st)
  BY <1>2, LivesLess
<1>5. Fits(t, Values(t, v.vals)) => Fits(u, Values(u, v.vals))
  BY <1>2, SameFits DEF Fits
<1>6. VersionFits(u, v, st2)
  BY <1>3, <1>4, <1>5 DEF VersionFits
<1>7. QED
  BY <1>6 DEF u, v

\* What a transaction sees lives, if its snapshot is fresh or it may write it.
LEMMA SeenLives ==
  ASSUME NEW v, NEW width, VersionOK(v, Len(status), width), NEW id, Open(id), NEW snap, snap \subseteq Taken,
         Visible(v, id, snap), snap = Taken \/ ~Conflicts(v, id), StatusOK(status)
  PROVE  Lives(v, status)
<1>0. Len(status) \in Nat /\ DOMAIN status = 1..Len(status)
  BY SeqIs DEF StatusOK
<1>1. v.xmin \in DOMAIN status /\ v.xmin # NoTx /\ (v.xmax = NoTx \/ v.xmax \in DOMAIN status)
  BY <1>0 DEF VersionOK, NoTx
<1>2. status[v.xmin] # "aborted"
  <2>1. v.xmin = id \/ v.xmin \in snap
    BY DEF Visible
  <2>2. CASE v.xmin = id
    BY <1>1, <2>2 DEF Open
  <2>3. CASE v.xmin \in snap
    BY <2>3 DEF Taken
  <2>4. QED
    BY <2>1, <2>2, <2>3
<1>3. v.xmax = NoTx \/ status[v.xmax] # "committed"
  <2>1. v.xmax = NoTx \/ (v.xmax # id /\ v.xmax \notin snap)
    BY DEF Visible
  <2>2. CASE snap = Taken
    BY <1>1, <2>1, <2>2 DEF Taken
  <2>3. CASE ~Conflicts(v, id)
    BY <2>1, <2>3 DEF Conflicts
  <2>4. QED
    BY <2>2, <2>3
<1>4. QED
  BY <1>2, <1>3 DEF Lives

(***************************************************************************)
(* Writing.                                                                *)
(***************************************************************************)

\* A version that may be taken: if it lives afterwards, it did before.
LEMMA EndedFits ==
  ASSUME NEW v, NEW n, NEW width, VersionOK(v, n, width), NEW t, VersionFits(t, v, status),
         NEW id, id \in DOMAIN status, status[id] = "active", ~Conflicts(v, id)
  PROVE  VersionFits(t, [v EXCEPT !.xmax = id], status)
<1> DEFINE w == [v EXCEPT !.xmax = id]
<1>1. w.vals = v.vals /\ w.xmin = v.xmin /\ w.xmax = id
  BY TakenVersion
<1> HIDE DEF w
<1>2. v.xmax = NoTx \/ v.xmax = id \/ status[v.xmax] = "aborted"
  BY DEF Conflicts
<1>3. Lives(w, status) => Lives(v, status)
  BY <1>1, <1>2 DEF Lives
<1>4. VersionFits(t, w, status)
  BY <1>1, <1>3 DEF VersionFits
<1>5. QED
  BY <1>4 DEF w

\* A row that fits, written.
LEMMA RowFits ==
  ASSUME NEW t, IsSeq(t.columns), NEW row, IsRow(t, row), Fits(t, row), NEW id, NEW st
  PROVE  VersionFits(t, Version(row, id), st)
<1>1. IsSeq(row) /\ Values(t, row) = row /\ Version(row, id).vals = row
  BY RowIs, ReadBack DEF Version
<1>2. QED
  BY <1>1, Zenon DEF VersionFits

\* The heaps that writes leave.
LEMMA WritesFit ==
  ASSUME StatusOK(status), NEW hp, NEW c, CatalogShape(c), HeapOK(hp, c, Len(status)), HeapFits(hp, c, status),
         NEW h \in DOMAIN hp, NEW v, NEW id, id \in DOMAIN status, status[id] = "active"
  PROVE  /\ ~Conflicts(hp[h][v], id) => HeapFits(AfterDelete(hp, h, v, id), c, status)
         /\ \A row : IsRow(c.tables[h], row) /\ Fits(c.tables[h], row) =>
              /\ HeapFits(AfterInsert(hp, h, row, id), c, status)
              /\ ~Conflicts(hp[h][v], id) => HeapFits(AfterUpdate(hp, h, v, row, id), c, status)
<1> DEFINE t == c.tables[h]
           q == hp[h]
           r == Ended(q, v, id)
           Good(p) == IsSeq(p) /\ \A i \in DOMAIN p : VersionFits(t, p[i], status)
<1>1. IsSeq(t.columns) /\ Good(q) /\ \A i \in DOMAIN q : VersionOK(q[i], Len(status), Width(c, h))
  BY DEF HeapOK, VersionsOK, CatalogShape, TableShape, HeapFits
<1>2. ~Conflicts(q[v], id) => Good(r)
  <2> HIDE DEF t, q
  <2>1. IsSeq(r) /\ DOMAIN r = DOMAIN q /\ \A i \in DOMAIN q : r[i] = IF i = v THEN [q[i] EXCEPT !.xmax = id] ELSE q[i]
    BY <1>1, EndedIs
  <2> HIDE DEF r
  <2>2. QED
    BY <1>1, <2>1, EndedFits
<1>3. ASSUME NEW row, IsRow(t, row), Fits(t, row), NEW p, Good(p)
      PROVE  Good(Append(p, Version(row, id)))
  <2> HIDE DEF t
  <2> DEFINE x == Version(row, id)
             more == Append(p, x)
  <2>1. VersionFits(t, x, status)
    BY <1>1, <1>3, RowFits
  <2> HIDE DEF x
  <2>2. /\ IsSeq(more)
        /\ \A i \in DOMAIN more : more[i] = x \/ (i \in DOMAIN p /\ more[i] = p[i])
    BY <1>3, AppendIs
  <2> HIDE DEF more
  <2>3. Good(more)
    BY <1>3, <2>1, <2>2
  <2>4. QED
    BY <2>3 DEF more, x
<1>4. ASSUME NEW p, Good(p)
      PROVE  HeapFits([hp EXCEPT ![h] = p], c, status)
  <2> HIDE DEF t
  <2>1. \A i \in DOMAIN p : VersionFits(t, p[i], status)
    BY <1>4
  <2>2. QED
    BY <2>1 DEF HeapFits, t
<1> HIDE DEF Good, t, q, r
<1>6. ~Conflicts(q[v], id) => HeapFits(AfterDelete(hp, h, v, id), c, status)
  BY <1>2, <1>4 DEF AfterDelete, r, q
<1>7. ASSUME NEW row, IsRow(t, row), Fits(t, row)
      PROVE  /\ HeapFits(AfterInsert(hp, h, row, id), c, status)
             /\ ~Conflicts(q[v], id) => HeapFits(AfterUpdate(hp, h, v, row, id), c, status)
  <2>1. HeapFits(AfterInsert(hp, h, row, id), c, status)
    BY <1>1, <1>3, <1>4, <1>7 DEF AfterInsert, q
  <2>2. ~Conflicts(q[v], id) => HeapFits(AfterUpdate(hp, h, v, row, id), c, status)
    BY <1>2, <1>3, <1>4, <1>7 DEF AfterUpdate, r, q
  <2>3. QED
    BY <2>1, <2>2
<1>8. QED
  BY <1>6, <1>7 DEF t, q

\* What each write of a world leaves of the rows, and of what is still to do.
LEMMA WriteFits ==
  ASSUME NEW w, NEW me, StatusOK(status), WorldOK(w), HeapFits(w.heap, w.catalog, status),
         me.tx \in DOMAIN status, status[me.tx] = "active", NEW h \in Present(w.catalog), NEW v
  PROVE  /\ HeapFits(Failed(w).heap, w.catalog, status)
         /\ HeapFits(HeapDelete(w, me, h, v).heap, w.catalog, status)
         /\ \A row : /\ IsRow(w.catalog.tables[h], row) /\ runChecks(w.catalog.tables[h], row) =>
                          HeapFits(Insert(w, me, h, row).heap, w.catalog, status)
                     /\ \/ Conflicts(w.heap[h][v], me.tx)
                        \/ IsRow(w.catalog.tables[h], row) /\ runChecks(w.catalog.tables[h], row)
                        => HeapFits(Update(w, me, h, v, row).heap, w.catalog, status)
<1> DEFINE hp == w.heap
           c == w.catalog
           t == c.tables[h]
           id == me.tx
           taken == Conflicts(hp[h][v], id)
<1>1. /\ DOMAIN w = WorldFields /\ CatalogShape(c) /\ HeapOK(hp, c, Len(status)) /\ HeapFits(hp, c, status)
      /\ h \in DOMAIN hp /\ id \in DOMAIN status /\ status[id] = "active"
  BY PresentIs DEF WorldOK, HeapOK
<1>2. /\ Failed(w).heap = hp
      /\ \A hp2 : [w EXCEPT !.heap = hp2].heap = hp2
  BY <1>1 DEF Failed, WorldFields
<1>3. /\ HeapDelete(w, me, h, v).heap = hp \/ (~taken /\ HeapDelete(w, me, h, v).heap = AfterDelete(hp, h, v, id))
      /\ \A row : /\ Insert(w, me, h, row).heap = hp \/ Insert(w, me, h, row).heap = AfterInsert(hp, h, row, id)
                  /\ \/ Update(w, me, h, v, row).heap = hp
                     \/ ~taken /\ Update(w, me, h, v, row).heap = AfterUpdate(hp, h, v, row, id)
  <2>1. /\ \/ HeapDelete(w, me, h, v) = Failed(w)
           \/ ~taken /\ HeapDelete(w, me, h, v) = [w EXCEPT !.heap = AfterDelete(w.heap, h, v, me.tx)]
        /\ \A row : /\ \/ Insert(w, me, h, row) = Failed(w)
                       \/ Insert(w, me, h, row) = [w EXCEPT !.heap = AfterInsert(w.heap, h, row, me.tx)]
                    /\ \/ Update(w, me, h, v, row) = Failed(w)
                       \/ ~taken /\ Update(w, me, h, v, row) = [w EXCEPT !.heap = AfterUpdate(w.heap, h, v, row, me.tx)]
    <3>1. DOMAIN w = WorldFields
      BY <1>1
    <3> HIDE DEF hp, c, t, id
    <3>2. QED
      BY <3>1, WritesAre DEF hp, id
  <2>2. QED
    BY <1>2, <2>1, Zenon
<1>4. \A row : ~checkRow(t, row) => Insert(w, me, h, row) = Failed(w) /\ Update(w, me, h, v, row) = Failed(w)
  BY DEF Insert, Update
<1> HIDE DEF hp, c, id
<1>5. /\ ~taken => HeapFits(AfterDelete(hp, h, v, id), c, status)
      /\ \A row : IsRow(t, row) /\ Fits(t, row) =>
           /\ HeapFits(AfterInsert(hp, h, row, id), c, status)
           /\ ~taken => HeapFits(AfterUpdate(hp, h, v, row, id), c, status)
  BY <1>1, WritesFit
<1> HIDE DEF taken, t
<1>6. /\ HeapFits(Failed(w).heap, c, status)
      /\ HeapFits(HeapDelete(w, me, h, v).heap, c, status)
  BY <1>1, <1>2, <1>3, <1>5
<1>7. ASSUME NEW row
      PROVE  /\ IsRow(t, row) /\ runChecks(t, row) => HeapFits(Insert(w, me, h, row).heap, c, status)
             /\ taken \/ (IsRow(t, row) /\ runChecks(t, row)) => HeapFits(Update(w, me, h, v, row).heap, c, status)
  <2>1. CASE ~checkRow(t, row)
    BY <1>4, <1>6, <2>1
  <2>2. CASE checkRow(t, row)
    BY <1>1, <1>3, <1>5, <2>2 DEF Fits
  <2>3. QED
    BY <2>1, <2>2
<1>8. QED
  BY <1>6, <1>7 DEF c, hp, t, taken, id

\* A write that is still to be made is of a row that satisfies the CHECKs.
WriteChecked(c, call) ==
  call.call = "write" /\ call.next # <<>> => IsRow(c.tables[call.h], call.next) /\ runChecks(c.tables[call.h], call.next)

AgendaFits(c, q) == \A call \in ToSet(q) : WriteChecked(c, call)

\* So it is in tables with the same constraints.
LEMMA AgendaFitsOn ==
  ASSUME NEW c, CatalogShape(c), NEW d, \A h \in DOMAIN c.tables : SameRules(c.tables[h], d.tables[h]),
         NEW q, AgendaFits(c, q), \A call \in ToSet(q) : call.h \in DOMAIN c.tables
  PROVE  AgendaFits(d, q)
<1>1. SUFFICES ASSUME NEW call \in ToSet(q), WriteChecked(c, call)
               PROVE  WriteChecked(d, call)
  BY DEF AgendaFits
<1> DEFINE t == c.tables[call.h]
           u == d.tables[call.h]
<1>2. IsSeq(t.columns) /\ SameRules(t, u)
  BY DEF CatalogShape, TableShape
<1> HIDE DEF t, u
<1>3. \A row : (IsRow(u, row) <=> IsRow(t, row)) /\ (runChecks(u, row) <=> runChecks(t, row))
  BY <1>2, SameFits
<1>4. QED
  BY <1>1, <1>3 DEF WriteChecked, t, u

\* The rest of an agenda, and two one after the other.
LEMMA AgendaFitsMore ==
  ASSUME NEW c, NEW q, IsSeq(q), AgendaFits(c, q), NEW r, IsSeq(r), AgendaFits(c, r)
  PROVE  AgendaFits(c, q \o r)
BY ConcatIs DEF AgendaFits

\* What is to be done to the rows that refer to another is no such write.
LEMMA KidsFit ==
  ASSUME NEW q, NoneOwn(q), NEW c
  PROVE  AgendaFits(c, q)
BY DEF NoneOwn, AgendaFits, Own, WriteChecked

\* What a call leaves of the rows and of what is still to do.
Fitted(w, x) ==
  /\ \A h \in DOMAIN w.catalog.tables : SameRules(w.catalog.tables[h], x.catalog.tables[h])
  /\ HeapFits(x.heap, x.catalog, status)
  /\ x.ok => AgendaFits(x.catalog, x.agenda)

\* A table has its own constraints.
LEMMA SameSame == ASSUME NEW t PROVE SameRules(t, t)
BY DEF SameRules

\* The world a call is made in: what is in it, and what is seen of it.
FitCalling(w, me, c) ==
  /\ Calling(w, me, c) /\ me.snap \subseteq Taken
  /\ HeapFits(w.heap, w.catalog, status) /\ AgendaFits(w.catalog, w.agenda) /\ WriteChecked(w.catalog, c)

\* A call that fails, or writes nothing, leaves them.
LEMMA IdleFits ==
  ASSUME NEW w, NEW me, NEW c, FitCalling(w, me, c)
  PROVE  Fitted(w, w) /\ Fitted(w, Failed(w))
<1>1. DOMAIN w = WorldFields /\ HeapFits(w.heap, w.catalog, status) /\ AgendaFits(w.catalog, w.agenda)
  BY DEF FitCalling, Calling, WorldOK
<1>2. Fitted(w, w)
  BY <1>1, SameSame DEF Fitted
<1>3. Failed(w).heap = w.heap /\ Failed(w).catalog = w.catalog /\ Failed(w).ok = FALSE
  BY <1>1 DEF Failed, WorldFields
<1>4. Fitted(w, Failed(w))
  BY <1>1, <1>3, SameSame DEF Fitted
<1>5. QED
  BY <1>2, <1>4

\* A row of the statement's own table: what it becomes satisfies the CHECKs.
LEMMA RowCallFits ==
  ASSUME NEW w, NEW me, NEW c, FitCalling(w, me, c), c.call = "row"
  PROVE  Fitted(w, execRow(w, me, me.stmt, c))
<1> DEFINE h == c.h
           t == w.catalog.tables[h]
           cur == Current(w, h, c.v)
           next == IF me.stmt.op = "update" THEN Assigned(t, cur, me.stmt.set, cur) ELSE <<>>
           fresh == [w EXCEPT !.seen = {}]
           kids == applyRefActions(w, me, h, cur, next)
           write == WriteCall(h, c.v, next)
           x == execRow(w, me, me.stmt, c)
<1>1. /\ WorldOK(w) /\ DOMAIN w = WorldFields /\ h \in Present(w.catalog) /\ IsSeq(w.agenda)
      /\ HeapFits(w.heap, w.catalog, status) /\ AgendaFits(w.catalog, w.agenda)
  BY DEF FitCalling, Calling, CallOK, WorldOK, AgendaOK
<1>2. \/ x \in {w, Failed(w)}
      \/ (next # <<>> => runChecks(t, next)) /\ x = Then(fresh, Append(kids, write))
  BY Zenon DEF execRow
<1>3. next # <<>> => IsRow(t, next)
  <2>1. IsRow(t, cur) /\ IsRow(t, Assigned(t, cur, me.stmt.set, cur))
    BY RowsAre, Zenon DEF Current
  <2>2. QED
    BY <2>1
<1>4. me.stmt.op = "delete" => next = <<>>
  OBVIOUS
<1> HIDE DEF next, cur
<1>5. IsSeq(kids) /\ NoneOwn(kids)
  BY <1>1, <1>4, ChildrenOK DEF AgendaOK
<1>6. ASSUME next # <<>> => runChecks(t, next)
      PROVE  Fitted(w, Then(fresh, Append(kids, write)))
  <2> DEFINE q == Append(kids, write)
             y == Then(fresh, q)
  <2>1. write.call = "write" /\ write.h = h /\ write.next = next
    BY DEF WriteCall
  <2> HIDE DEF write
  <2>2. WriteChecked(w.catalog, write)
    BY <1>3, <1>6, <2>1 DEF WriteChecked
  <2> HIDE DEF kids
  <2>3. AgendaFits(w.catalog, kids) /\ IsSeq(q) /\ ToSet(q) = ToSet(kids) \cup {write}
    BY <1>5, KidsFit, AppendIs
  <2> HIDE DEF q
  <2>4. AgendaFits(w.catalog, q)
    BY <2>2, <2>3 DEF AgendaFits
  <2>5. AgendaFits(w.catalog, q \o w.agenda)
    BY <1>1, <2>3, <2>4, AgendaFitsMore
  <2>6. y.heap = w.heap /\ y.catalog = w.catalog /\ y.agenda = q \o w.agenda
    BY <1>1 DEF Then, WorldFields
  <2> HIDE DEF y
  <2>7. Fitted(w, y)
    BY <1>1, <2>5, <2>6, SameSame DEF Fitted
  <2>8. QED
    BY <2>7 DEF y, q
<1> HIDE DEF x, fresh, kids, write, t
<1>7. Fitted(w, x)
  BY <1>2, <1>6, IdleFits
<1>8. QED
  BY <1>7 DEF x

\* What a write leaves of the rest of the world.
LEMMA WritesLeave ==
  ASSUME NEW w, DOMAIN w = WorldFields, NEW me, NEW h, NEW v, NEW row
  PROVE  /\ HeapDelete(w, me, h, v).agenda = w.agenda /\ HeapDelete(w, me, h, v).catalog = w.catalog
         /\ Insert(w, me, h, row).agenda = w.agenda /\ Insert(w, me, h, row).catalog = w.catalog
         /\ Update(w, me, h, v, row).agenda = w.agenda /\ Update(w, me, h, v, row).catalog = w.catalog
<1>1. \A hp : LET x == [w EXCEPT !.heap = hp] IN x.agenda = w.agenda /\ x.catalog = w.catalog
  BY DEF WorldFields
<1>2. Failed(w).agenda = w.agenda /\ Failed(w).catalog = w.catalog
  BY DEF Failed, WorldFields
<1>3. HeapDelete(w, me, h, v) \in {Failed(w), [w EXCEPT !.heap = AfterDelete(w.heap, h, v, me.tx)]}
  BY WritesAre
<1>4. Insert(w, me, h, row) \in {Failed(w), [w EXCEPT !.heap = AfterInsert(w.heap, h, row, me.tx)]}
  BY WritesAre
<1>5. Update(w, me, h, v, row) \in {Failed(w), [w EXCEPT !.heap = AfterUpdate(w.heap, h, v, row, me.tx)]}
  BY WritesAre
<1>6. QED
  BY <1>1, <1>2, <1>3, <1>4, <1>5

\* A removal.
LEMMA RemoveFits ==
  ASSUME NEW w, NEW me, NEW c, FitCalling(w, me, c)
  PROVE  Fitted(w, HeapDelete(w, me, c.h, c.v))
<1>1. /\ WorldOK(w) /\ DOMAIN w = WorldFields /\ c.h \in Present(w.catalog) /\ StatusOK(status)
      /\ me.tx \in DOMAIN status /\ status[me.tx] = "active"
      /\ HeapFits(w.heap, w.catalog, status) /\ AgendaFits(w.catalog, w.agenda)
  BY DEF FitCalling, Calling, CallOK, WorldOK
<1> DEFINE x == HeapDelete(w, me, c.h, c.v)
<1>2. HeapFits(x.heap, w.catalog, status)
  BY <1>1, WriteFits
<1>3. x.agenda = w.agenda /\ x.catalog = w.catalog
  BY <1>1, WritesLeave
<1> HIDE DEF x
<1>4. Fitted(w, x)
  BY <1>1, <1>2, <1>3, SameSame DEF Fitted
<1>5. QED
  BY <1>4 DEF x

\* A world to write in, of which the rest is still to be done.
Ready(w, me, h) ==
  /\ WorldOK(w) /\ h \in Present(w.catalog) /\ StatusOK(status) /\ me.tx \in DOMAIN status /\ status[me.tx] = "active"
  /\ HeapFits(w.heap, w.catalog, status) /\ AgendaFits(w.catalog, w.agenda)

\* A call is made in one.
LEMMA CallingReady ==
  ASSUME NEW w, NEW me, NEW c, FitCalling(w, me, c)
  PROVE  Ready(w, me, c.h)
BY DEF FitCalling, Calling, CallOK, Ready

\* A row that is written, if it satisfies the CHECKs or is not to be had, and one
\* that is inserted.
LEMMA UpdateFits ==
  ASSUME NEW w, NEW me, NEW h, Ready(w, me, h), NEW v, NEW row
  PROVE  /\ \/ Conflicts(w.heap[h][v], me.tx)
            \/ IsRow(w.catalog.tables[h], row) /\ runChecks(w.catalog.tables[h], row)
            => Fitted(w, Update(w, me, h, v, row))
         /\ IsRow(w.catalog.tables[h], row) /\ runChecks(w.catalog.tables[h], row)
            => Fitted(w, Insert(w, me, h, row))
<1>1. /\ WorldOK(w) /\ DOMAIN w = WorldFields /\ h \in Present(w.catalog) /\ StatusOK(status)
      /\ me.tx \in DOMAIN status /\ status[me.tx] = "active"
      /\ HeapFits(w.heap, w.catalog, status) /\ AgendaFits(w.catalog, w.agenda)
  BY DEF Ready, WorldOK
<1> DEFINE x == Update(w, me, h, v, row)
           y == Insert(w, me, h, row)
           good == IsRow(w.catalog.tables[h], row) /\ runChecks(w.catalog.tables[h], row)
           taken == Conflicts(w.heap[h][v], me.tx)
<1>2. /\ taken \/ good => HeapFits(x.heap, w.catalog, status)
      /\ good => HeapFits(y.heap, w.catalog, status)
  BY <1>1, WriteFits
<1>3. x.agenda = w.agenda /\ x.catalog = w.catalog /\ y.agenda = w.agenda /\ y.catalog = w.catalog
  BY <1>1, WritesLeave
<1> HIDE DEF x, y, good, taken
<1>4. (taken \/ good => Fitted(w, x)) /\ (good => Fitted(w, y))
  BY <1>1, <1>2, <1>3, SameSame DEF Fitted
<1>5. QED
  BY <1>4 DEF x, y, good, taken

\* The write that ends a row.
LEMMA WriteCallFits ==
  ASSUME NEW w, NEW me, NEW c, FitCalling(w, me, c), c.call = "write"
  PROVE  Fitted(w, execWrite(w, me, c))
<1>1. c.next # <<>> => IsRow(w.catalog.tables[c.h], c.next) /\ runChecks(w.catalog.tables[c.h], c.next)
  BY DEF FitCalling, WriteChecked
<1>2. c.next # <<>> => Fitted(w, Update(w, me, c.h, c.v, c.next))
  BY <1>1, CallingReady, UpdateFits
<1>3. Fitted(w, HeapDelete(w, me, c.h, c.v))
  BY RemoveFits
<1>4. QED
  BY <1>2, <1>3 DEF execWrite

(***************************************************************************)
(* Referential actions write without running the CHECKs.                   *)
(***************************************************************************)

\* The reference fk may put a value other than NULL in column o of table t.
Rewrites(t, fk, o) ==
  /\ Contains(fk.cols, o)
  /\ fk.onUpdate = "cascade" \/ ("set default" \in {fk.onDelete, fk.onUpdate} /\ t.columns[o].default # NULL)

\* No CHECK is of a column that a referential action gives a value to.
ChecksApart(t) ==
  \A i \in DOMAIN t.checks : t.checks[i].rel = "none" \/
    \A f \in DOMAIN t.foreignKeys : ~Rewrites(t, t.foreignKeys[f], ColumnIndex(t, t.checks[i].col))

\* Then the CHECKs that a row satisfies are satisfied when the action is done.
LEMMA ActionsKeepChecks ==
  ASSUME NEW t, TableShape(t), TableResolves(t), ChecksApart(t), NEW f \in DOMAIN t.foreignKeys,
         NEW row, IsRow(t, row), runChecks(t, row)
  PROVE  LET fk == t.foreignKeys[f] IN
         /\ \A parent : fk.onUpdate = "cascade" => runChecks(t, follow(fk, row, parent))
         /\ \A action : action \in {fk.onDelete, fk.onUpdate} /\ action \in {"set null", "set default"}
              => runChecks(t, refReplacement(t, fk.cols, action, row))
<1> DEFINE fk == t.foreignKeys[f]
           col(i) == ColumnIndex(t, t.checks[i].col)
<1>1. DOMAIN row = DOMAIN t.columns
  BY RowIs DEF TableShape
<1>2. ASSUME NEW new, \A i \in DOMAIN t.checks : t.checks[i].rel = "none" \/ new[col(i)] \in {row[col(i)], NULL}
      PROVE  runChecks(t, new)
  <2>1. SUFFICES ASSUME NEW i \in DOMAIN t.checks PROVE Truth(t, t.checks[i], new) # "false"
    BY DEF runChecks
  <2> DEFINE p == t.checks[i]
  <2>2. Truth(t, p, row) # "false"
    BY DEF runChecks
  <2>3. p.rel = "none" \/ new[ColumnIndex(t, p.col)] = row[ColumnIndex(t, p.col)] \/ new[ColumnIndex(t, p.col)] = NULL
    BY <1>2
  <2> HIDE DEF p
  <2>4. Truth(t, p, new) # "false"
    BY <2>2, <2>3, TruthAlike, TruthNull
  <2>5. QED
    BY <2>4 DEF p
<1>3. \A i \in DOMAIN t.checks : t.checks[i].rel = "none" \/ (col(i) \in DOMAIN row /\ ~Rewrites(t, fk, col(i)))
  <2>1. \A i \in DOMAIN t.checks : t.checks[i].rel = "none" \/ col(i) \in DOMAIN t.columns
    BY ColumnIndexIs DEF TableShape, TableResolves, Binds
  <2>2. QED
    BY <1>1, <2>1 DEF ChecksApart
<1> HIDE DEF fk, col
<1>4. ASSUME NEW parent, fk.onUpdate = "cascade"
      PROVE  runChecks(t, follow(fk, row, parent))
  <2>1. \A i \in DOMAIN row : ~Contains(fk.cols, i) => follow(fk, row, parent)[i] = row[i]
    BY DEF follow, Contains, SelectInSeq
  <2>2. QED
    BY <1>2, <1>3, <1>4, <2>1 DEF Rewrites
<1>5. ASSUME NEW action, action \in {fk.onDelete, fk.onUpdate}, action \in {"set null", "set default"}
      PROVE  runChecks(t, refReplacement(t, fk.cols, action, row))
  <2> DEFINE new == refReplacement(t, fk.cols, action, row)
  <2>1. \A i \in DOMAIN row : new[i] = IF ~Contains(fk.cols, i) THEN row[i]
                                       ELSE IF action = "set null" THEN NULL ELSE t.columns[i].default
    BY DEF refReplacement
  <2> HIDE DEF new
  <2>2. \A i \in DOMAIN row : Contains(fk.cols, i) /\ action = "set default" /\ ~Rewrites(t, fk, i)
                                => t.columns[i].default = NULL
    BY <1>5 DEF Rewrites
  <2>3. \A i \in DOMAIN row : ~Rewrites(t, fk, i) => new[i] \in {row[i], NULL}
    BY <1>5, <2>1, <2>2
  <2>4. QED
    BY <1>2, <1>3, <2>3 DEF new
<1>6. QED
  BY <1>4, <1>5 DEF fk

\* A row that is written leaves a world to go on in.
LEMMA UpdateWorld ==
  ASSUME NEW w, WorldOK(w), StatusOK(status), NEW me, me.tx \in DOMAIN status, status[me.tx] = "active",
         NEW h, NEW v, NEW row, Len(row) \in 0..Width(w.catalog, h)
  PROVE  WorldOK(Update(w, me, h, v, row)) \/ ~Update(w, me, h, v, row).ok
<1> DEFINE x == Update(w, me, h, v, row)
           hp2 == AfterUpdate(w.heap, h, v, row, me.tx)
<1>1. DOMAIN w = WorldFields /\ HeapOK(w.heap, w.catalog, Len(status)) /\ (h \in DOMAIN w.heap => IsSeq(w.heap[h]))
  BY DEF WorldOK, HeapOK, VersionsOK
<1>2. DOMAIN x = WorldFields /\ x.catalog = w.catalog
  <2>1. "catalog" \in DOMAIN w
    BY <1>1 DEF WorldFields
  <2>2. Keeps(w, Update(w, me, h, v, row))
    BY <2>1, EndsKeep, Zenon
  <2>3. QED
    BY <1>1, <2>2 DEF Keeps
<1>3. x.ok => x.heap = w.heap \/ (~Conflicts(w.heap[h][v], me.tx) /\ x.heap = hp2)
  <2>1. \/ x = Failed(w)
        \/ ~Conflicts(w.heap[h][v], me.tx) /\ x = [w EXCEPT !.heap = hp2]
    BY <1>1, WritesAre
  <2>2. [w EXCEPT !.heap = hp2].heap = hp2 /\ Failed(w).ok = FALSE
    BY <1>1 DEF Failed, WorldFields
  <2> HIDE DEF x, hp2
  <2>3. QED
    BY <2>1, <2>2
<1>4. ~Conflicts(w.heap[h][v], me.tx) => Touched(w.heap, hp2, h, v, me.tx, Width(w.catalog, h))
  BY <1>1, UpdateTouches
<1> HIDE DEF x, hp2
<1>5. x.ok => Written(w.heap, x.heap, me.tx, w.catalog)
  BY <1>3, <1>4 DEF Written
<1>6. x.ok => HeapOK(x.heap, w.catalog, Len(status))
  BY <1>1, <1>5, WrittenHeapOK
<1>7. WorldOK(x) \/ ~x.ok
  BY <1>2, <1>6 DEF WorldOK
<1>8. QED
  BY <1>7 DEF x

\* A row that refers to one that changes or goes.
LEMMA ChildCallFits ==
  ASSUME NEW w, NEW me, NEW c, FitCalling(w, me, c), c.call = "child",
         Resolves(w.catalog), ChecksApart(w.catalog.tables[c.h])
  PROVE  Fitted(w, applyRefAction(w, me, c))
<1> DEFINE h == c.h
           v == c.v
           t == w.catalog.tables[h]
           fk == t.foreignKeys[c.fk]
           cur == Current(w, h, v)
           action == IF c.next = <<>> THEN fk.onDelete ELSE fk.onUpdate
           marked == [w EXCEPT !.seen = @ \cup {<<h, v>>}, !.wrote = @ \cup {h}]
           moved == follow(fk, cur, c.next)
           new == refReplacement(t, fk.cols, action, cur)
           after == Update(marked, me, h, v, moved)
           replaced == Update(marked, me, h, v, new)
           kids == applyRefActions(marked, me, h, cur, <<>>)
           gone == Append(kids, RemoveCall(h, v))
           told == applyRefActions(after, me, h, cur, moved)
           x == applyRefAction(w, me, c)
           unseen == <<h, v>> \notin w.seen
<1>1. /\ Ready(w, me, h) /\ DOMAIN w = WorldFields /\ WorldOK(w) /\ IsSeq(w.agenda) /\ h \in Present(w.catalog)
      /\ unseen => v \in Seen(w.heap[h], me.tx, me.snap)
      /\ c.fk \in DOMAIN t.foreignKeys
  BY CallingReady DEF FitCalling, Calling, CallOK, WorldOK, AgendaOK
<1>2. /\ h \in DOMAIN w.heap /\ HeapOK(w.heap, w.catalog, Len(status)) /\ TableShape(t) /\ TableResolves(t)
      /\ HeapFits(w.heap, w.catalog, status)
  BY <1>1, PresentIs DEF Ready, WorldOK, HeapOK, CatalogShape, Resolves
<1>3. \/ x \in {w, Failed(w)} \/ x = Then(marked, gone)
      \/ unseen /\ action \in {"set null", "set default"} /\ x = replaced
      \/ unseen /\ action = "cascade" /\ c.next # <<>> /\ (x = after \/ (after.ok /\ x = Then(after, told)))
  BY ChildCases, Zenon
<1>4. /\ DOMAIN marked = WorldFields /\ marked.heap = w.heap /\ marked.catalog = w.catalog
      /\ marked.agenda = w.agenda /\ marked.ok = w.ok
  BY <1>1 DEF WorldFields
<1> HIDE DEF marked
<1>5. Ready(marked, me, h) /\ WorldOK(marked)
  BY <1>1, <1>4 DEF Ready, WorldOK
<1>6. IsRow(t, cur) /\ IsRow(t, moved) /\ IsRow(t, new)
  <2>1. IsRow(t, cur)
    BY RowsAre, Zenon DEF Current
  <2> HIDE DEF cur, fk, action
  <2>2. QED
    BY <2>1, RowsAre, Zenon
<1>7. unseen /\ ~Conflicts(w.heap[h][v], me.tx) => runChecks(t, cur)
  <2>1. SUFFICES ASSUME unseen, ~Conflicts(w.heap[h][v], me.tx)
                 PROVE  runChecks(t, cur)
    OBVIOUS
  <2> DEFINE q == w.heap[h]
  <2>2. v \in DOMAIN q /\ Visible(q[v], me.tx, me.snap)
    BY <1>1, <2>1 DEF Seen
  <2>3. VersionOK(q[v], Len(status), Width(w.catalog, h)) /\ VersionFits(t, q[v], status)
    BY <1>2, <2>2 DEF HeapOK, VersionsOK, HeapFits
  <2>4. Open(me.tx) /\ StatusOK(status) /\ me.snap \subseteq Taken
    BY <1>1 DEF Ready, Open, FitCalling
  <2>5. Lives(q[v], status)
    BY <2>1, <2>2, <2>3, <2>4, SeenLives
  <2>6. Fits(t, Values(t, q[v].vals))
    BY <2>3, <2>5 DEF VersionFits
  <2>7. QED
    BY <2>6 DEF Fits, Current
<1>8. /\ unseen /\ ~Conflicts(w.heap[h][v], me.tx) /\ action = "cascade" /\ c.next # <<>> => runChecks(t, moved)
      /\ unseen /\ ~Conflicts(w.heap[h][v], me.tx) /\ action \in {"set null", "set default"} => runChecks(t, new)
  <2>1. ASSUME runChecks(t, cur)
        PROVE  /\ fk.onUpdate = "cascade" => runChecks(t, moved)
               /\ action \in {"set null", "set default"} => runChecks(t, new)
    <3>1. action \in {fk.onDelete, fk.onUpdate}
      OBVIOUS
    <3> HIDE DEF action, cur, t
    <3>2. QED
      BY <1>1, <1>2, <1>6, <2>1, <3>1, ActionsKeepChecks DEF t
  <2>2. c.next # <<>> => action = fk.onUpdate
    OBVIOUS
  <2> HIDE DEF action, moved, new, cur, unseen, fk
  <2>3. QED
    BY <1>7, <2>1, <2>2
<1>9. /\ unseen /\ action = "cascade" /\ c.next # <<>> => Fitted(w, after)
      /\ unseen /\ action \in {"set null", "set default"} => Fitted(w, replaced)
  <2> HIDE DEF action, moved, new, cur, unseen, fk
  <2>1. /\ unseen /\ action = "cascade" /\ c.next # <<>> => Fitted(marked, after)
        /\ unseen /\ action \in {"set null", "set default"} => Fitted(marked, replaced)
    BY <1>4, <1>5, <1>6, <1>8, UpdateFits
  <2> HIDE DEF after, replaced
  <2>2. \A y : Fitted(marked, y) => Fitted(w, y)
    BY <1>4 DEF Fitted
  <2>3. QED
    BY <2>1, <2>2
<1>10. Fitted(w, Then(marked, gone))
  <2> HIDE DEF cur
  <2> DEFINE remove == RemoveCall(h, v)
             y == Then(marked, gone)
  <2>1. IsSeq(kids) /\ NoneOwn(kids)
    BY <1>1, <1>4, <1>5, ChildrenOK DEF AgendaOK
  <2>2. ~Own(remove)
    BY DEF RemoveCall, Own
  <2> HIDE DEF kids, remove
  <2>3. IsSeq(gone) /\ ToSet(gone) = ToSet(kids) \cup {remove}
    BY <2>1, AppendIs DEF remove
  <2> HIDE DEF gone
  <2>4. NoneOwn(gone)
    BY <2>1, <2>2, <2>3 DEF NoneOwn
  <2>5. AgendaFits(w.catalog, gone \o w.agenda)
    BY <1>1, <2>3, <2>4, KidsFit, AgendaFitsMore DEF Ready
  <2>6. y.heap = w.heap /\ y.catalog = w.catalog /\ y.agenda = gone \o w.agenda
    BY <1>4 DEF Then, WorldFields
  <2> HIDE DEF y
  <2>7. Fitted(w, y)
    BY <1>2, <2>5, <2>6, SameSame DEF Fitted
  <2>8. QED
    BY <2>7 DEF y
<1>11. ASSUME Fitted(w, after), after.ok, c.next # <<>>
       PROVE  Fitted(w, Then(after, told))
  <2> DEFINE y == Then(after, told)
  <2>1. DOMAIN after = WorldFields /\ after.catalog = w.catalog /\ after.agenda = w.agenda
    BY <1>4, EndsKeep, WritesLeave DEF Keeps, WorldFields
  <2>2. IsSeq(told) /\ NoneOwn(told)
    <3>1. WorldOK(after)
      <4>1. Len(moved) \in 0..Width(w.catalog, h)
        <5> HIDE DEF moved, t
        <5>1. QED
          BY <1>2, <1>6, RowIs DEF TableShape, Width, t
      <4> HIDE DEF moved
      <4>2. WorldOK(Update(marked, me, h, v, moved)) \/ ~Update(marked, me, h, v, moved).ok
        BY <1>4, <1>5, <4>1, UpdateWorld DEF Ready
      <4>3. QED
        BY <1>11, <4>2
    <3>2. me.stmt.op = "delete" => moved = <<>>
      BY <1>11 DEF FitCalling, Calling, CallOK
    <3>3. h \in Present(after.catalog)
      BY <1>1, <2>1
    <3> HIDE DEF after, moved, cur
    <3>4. QED
      BY <3>1, <3>2, <3>3, ChildrenOK DEF AgendaOK
  <2> HIDE DEF told, after
  <2>3. AgendaFits(w.catalog, told \o w.agenda)
    BY <1>1, <2>2, KidsFit, AgendaFitsMore DEF Ready
  <2>4. y.heap = after.heap /\ y.catalog = after.catalog /\ y.agenda = told \o w.agenda
    BY <2>1 DEF Then, WorldFields
  <2> HIDE DEF y
  <2>5. Fitted(w, y)
    BY <1>11, <2>1, <2>3, <2>4 DEF Fitted
  <2>6. QED
    BY <2>5 DEF y
<1> HIDE DEF after, replaced, gone, told, x, unseen, action
<1>12. Fitted(w, x)
  BY <1>3, <1>9, <1>10, <1>11, IdleFits
<1>13. QED
  BY <1>12 DEF x

\* Drawing numbers changes no constraint.
LEMMA DrawnRules ==
  ASSUME NEW w, WorldOK(w), NEW s, NEW c, c.h \in Present(w.catalog)
  PROVE  \A g \in DOMAIN w.catalog.tables : SameRules(w.catalog.tables[g], Drawn(w, s, c).catalog.tables[g])
<1> DEFINE h == c.h
           t == w.catalog.tables[h]
           serial(i) == SelectInSeq(targets(t, s), LAMBDA n : n = t.columns[i].name) = 0 /\ t.columns[i].ident # "none"
           columns == [i \in DOMAIN t.columns |->
                         IF serial(i) THEN [t.columns[i] EXCEPT !.nextSerial = @ + 1] ELSE t.columns[i]]
           u == [t EXCEPT !.columns = columns]
           x == [w EXCEPT !.catalog.tables[c.h].columns = columns]
           cat == w.catalog
           d == x.catalog
<1>1. Drawn(w, s, c) = x
  BY Zenon DEF Drawn
<1>2. DOMAIN w = WorldFields /\ CatalogShape(cat) /\ h \in DOMAIN cat.tables
  BY PresentIs DEF WorldOK
<1>3. TableShape(t)
  BY <1>2 DEF CatalogShape
<1>4. /\ DOMAIN columns = DOMAIN t.columns
      /\ \A i \in DOMAIN t.columns : /\ columns[i].name = t.columns[i].name /\ columns[i].notNull = t.columns[i].notNull
                                     /\ columns[i].missing = t.columns[i].missing
                                     /\ columns[i].default = t.columns[i].default
  <2> HIDE DEF serial, t
  <2>1. QED
    OBVIOUS
<1>5. Len(columns) = Len(t.columns)
  <2>1. IsSeq(t.columns) /\ Len(t.columns) \in Nat /\ DOMAIN t.columns = 1..Len(t.columns)
    BY <1>3, SeqIs DEF TableShape
  <2>2. columns = [i \in 1..Len(t.columns) |-> columns[i]]
    BY <2>1
  <2> HIDE DEF columns, t
  <2>3. QED
    BY <2>1, <2>2, FunctionsAreSeqs
<1> HIDE DEF columns
<1>6. u.columns = columns /\ u.checks = t.checks
  BY <1>3 DEF TableShape, Fields
<1>7. SameRules(t, u)
  BY <1>4, <1>5, <1>6 DEF SameRules
<1>8. d = [cat EXCEPT !.tables = [cat.tables EXCEPT ![h] = u]]
  BY <1>2 DEF WorldFields
<1>9. t = cat.tables[h]
  OBVIOUS
<1> HIDE DEF x, d, cat, t, u, h
<1>10. \A g \in DOMAIN cat.tables : SameRules(cat.tables[g], d.tables[g])
  BY <1>2, <1>7, <1>8, <1>9, SameSame DEF CatalogShape
<1>11. QED
  BY <1>1, <1>10 DEF cat, d

\* A row to insert, or one to change in its place.
LEMMA StoreCallFits ==
  ASSUME NEW w, NEW me, NEW c, FitCalling(w, me, c), c.call = "store"
  PROVE  Fitted(w, store(w, me, me.stmt, c))
<1> DEFINE h == c.h
           s == me.stmt
           drawn == Drawn(w, s, c)
           t == w.catalog.tables[h]
           u == drawn.catalog.tables[h]
           given(i) == SelectInSeq(targets(t, s), LAMBDA n : n = t.columns[i].name)
           serial(i) == given(i) = 0 /\ t.columns[i].ident # "none"
           row == [i \in DOMAIN t.columns |->
                     IF given(i) # 0 THEN c.next[given(i)]
                     ELSE IF serial(i) THEN t.columns[i].nextSerial
                     ELSE t.columns[i].default]
           x == store(w, me, s, c)
<1>1. /\ StatusOK(status) /\ WorldOK(w) /\ AgendaOK(me, w.heap, w.catalog, w.seen, w.agenda)
      /\ h \in Present(w.catalog) /\ me.tx \in DOMAIN status /\ status[me.tx] = "active"
      /\ HeapFits(w.heap, w.catalog, status) /\ AgendaFits(w.catalog, w.agenda)
  BY DEF FitCalling, Calling, CallOK
<1>2. /\ DOMAIN drawn = WorldFields /\ Moves(w.catalog, drawn.catalog) /\ drawn.heap = w.heap
      /\ drawn.agenda = w.agenda /\ drawn.ok = w.ok
  BY <1>1, DrawnIs
<1>3. \A g \in DOMAIN w.catalog.tables : SameRules(w.catalog.tables[g], drawn.catalog.tables[g])
  BY <1>1, DrawnRules
<1>4. \/ \E existing : x = resolve(drawn, me, s, c, existing, row)
      \/ x = Failed(drawn) \/ (runChecks(t, row) /\ x = Insert(drawn, me, h, row))
  BY Zenon DEF store, Drawn
<1>5. IsRow(t, row)
  <2> HIDE DEF given, serial
  <2>1. QED
    BY DEF IsRow
<1> HIDE DEF row, drawn
<1>6. CatalogShape(w.catalog) /\ h \in DOMAIN w.catalog.tables /\ IsSeq(t.columns) /\ SameRules(t, u)
  <2>1. CatalogShape(w.catalog) /\ h \in DOMAIN w.catalog.tables
    BY <1>1, PresentIs DEF WorldOK
  <2>2. QED
    BY <1>3, <2>1 DEF CatalogShape, TableShape
<1>7. Ready(drawn, me, h)
  <2>1. HeapOK(w.heap, w.catalog, Len(status)) /\ Len(status) \in Nat
    BY <1>1, SeqIs DEF WorldOK, StatusOK
  <2>2. HeapOK(drawn.heap, drawn.catalog, Len(status))
    BY <1>2, <1>6, <2>1, HeapMoves
  <2>3. WorldOK(drawn) /\ h \in Present(drawn.catalog)
    BY <1>1, <1>2, <2>2 DEF WorldOK, Moves, Evolves
  <2>4. HeapFits(w.heap, drawn.catalog, status)
    <3> DEFINE cat == w.catalog
               d == drawn.catalog
               n == Len(status)
               hp == w.heap
    <3>1. /\ CatalogShape(cat) /\ n \in Nat /\ HeapOK(hp, cat, n) /\ HeapFits(hp, cat, status)
          /\ \A g \in DOMAIN cat.tables : SameRules(cat.tables[g], d.tables[g])
          /\ \A i \in 1..n : status[i] = status[i] \/ status[i] = "active"
      BY <1>1, <1>3, <1>6, <2>1
    <3> HIDE DEF cat, d, n, hp
    <3>2. HeapFits(hp, d, status)
      BY <3>1, FitsOn
    <3>3. QED
      BY <3>2 DEF d, hp
  <2>5. AgendaFits(drawn.catalog, w.agenda)
    <3>1. \A call \in ToSet(w.agenda) : call.h \in DOMAIN w.catalog.tables
      BY <1>1, <1>6, PresentIs DEF AgendaOK, CallOK
    <3> DEFINE cat == w.catalog
               d == drawn.catalog
               q == w.agenda
    <3>2. /\ CatalogShape(cat) /\ AgendaFits(cat, q) /\ \A call \in ToSet(q) : call.h \in DOMAIN cat.tables
          /\ \A g \in DOMAIN cat.tables : SameRules(cat.tables[g], d.tables[g])
      BY <1>1, <1>3, <1>6, <3>1
    <3> HIDE DEF cat, d, q
    <3>3. AgendaFits(d, q)
      BY <3>2, AgendaFitsOn
    <3>4. QED
      BY <3>3 DEF d, q
  <2>6. QED
    BY <1>1, <1>2, <2>3, <2>4, <2>5 DEF Ready
<1>8. \A y : Fitted(drawn, y) => Fitted(w, y)
  <2>1. DOMAIN drawn.catalog.tables = DOMAIN w.catalog.tables
    BY <1>2 DEF Moves
  <2>2. \A a, b, e : SameRules(a, b) /\ SameRules(b, e) => SameRules(a, e)
    BY DEF SameRules
  <2>3. QED
    BY <1>3, <2>1, <2>2 DEF Fitted
<1>9. Fitted(drawn, drawn) /\ Fitted(drawn, Failed(drawn))
  <2>1. HeapFits(drawn.heap, drawn.catalog, status) /\ AgendaFits(drawn.catalog, drawn.agenda)
    BY <1>7 DEF Ready
  <2>2. Failed(drawn).heap = drawn.heap /\ Failed(drawn).catalog = drawn.catalog /\ Failed(drawn).ok = FALSE
    BY <1>2 DEF Failed, WorldFields
  <2>3. QED
    BY <2>1, <2>2, SameSame DEF Fitted
<1>10. ASSUME NEW existing PROVE Fitted(drawn, resolve(drawn, me, s, c, existing, row))
  <2> DEFINE cur == Current(drawn, h, existing)
             next == Assigned(u, cur, s.conflict.set, cur \o row)
  <2>1. \/ resolve(drawn, me, s, c, existing, row) \in {drawn, Failed(drawn)}
        \/ /\ runChecks(u, next)
           /\ resolve(drawn, me, s, c, existing, row) = Update(drawn, me, h, existing, next)
    BY Zenon DEF resolve
  <2>2. IsRow(u, cur)
    BY RowsAre, Zenon DEF Current
  <2> HIDE DEF cur
  <2>3. IsRow(u, next)
    BY <2>2, RowsAre, Zenon
  <2> HIDE DEF next
  <2>4. runChecks(u, next) => Fitted(drawn, Update(drawn, me, h, existing, next))
    BY <1>7, <2>3, UpdateFits
  <2>5. QED
    BY <1>9, <2>1, <2>4
<1>11. runChecks(t, row) => Fitted(drawn, Insert(drawn, me, h, row))
  <2>1. IsRow(u, row) /\ (runChecks(t, row) => runChecks(u, row))
    <3> HIDE DEF t, u
    <3>1. QED
      BY <1>5, <1>6, SameFits
  <2>2. QED
    BY <1>7, <2>1, UpdateFits
<1>12. Fitted(drawn, x)
  <2> HIDE DEF x, t
  <2>1. QED
    BY <1>4, <1>9, <1>10, <1>11
<1>13. QED
  BY <1>8, <1>12

\* Any call.
LEMMA CallFits ==
  ASSUME NEW w, NEW me, NEW c, FitCalling(w, me, c), Resolves(w.catalog), ChecksApart(w.catalog.tables[c.h])
  PROVE  Fitted(w, execCall(w, me, me.stmt, c))
<1>1. c.call \in {"row", "write", "store", "child", "remove"}
  BY DEF FitCalling, Calling, CallOK
<1>2. CASE c.call = "row"
  BY <1>2, RowCallFits DEF execCall
<1>3. CASE c.call = "write"
  BY <1>3, WriteCallFits DEF execCall
<1>4. CASE c.call = "child"
  BY <1>4, ChildCallFits DEF execCall
<1>5. CASE c.call = "remove"
  BY <1>5, RemoveFits DEF execCall
<1>6. CASE c.call = "store"
  BY <1>6, StoreCallFits DEF execCall
<1>7. QED
  BY <1>1, <1>2, <1>3, <1>4, <1>5, <1>6

(***************************************************************************)
(* The steps.                                                              *)
(***************************************************************************)

\* Whoever is open has a session that will end it.
Holder(me, i) == me.tx = i /\ (me.explicit \/ Running(me))

Held(st, ses) == \A i \in DOMAIN st : st[i] = "active" => \E s \in Sessions : Holder(ses[s], i)

\* The rows there are fit, and those still to be written, and whoever is open is held.
ValidOK(c, hp, st, ses) ==
  /\ HeapFits(hp, c, st)
  /\ \A s \in Sessions : Running(ses[s]) => AgendaFits(c, ses[s].agenda)
  /\ Held(st, ses)

ValidInv == ValidOK(catalog, heap, status, session)

\* A step of one session.
LEMMA ValidMoves ==
  ASSUME RowInv, ValidInv, NEW s \in Sessions, NEW mine, NEW d, NEW hp2, NEW st2, HeapFits(hp2, d, st2),
         \A o \in Sessions : o # s /\ Running(session[o]) => AgendaFits(d, session[o].agenda),
         Running(mine) => AgendaFits(d, mine.agenda),
         \A i \in DOMAIN st2 : st2[i] = "active" =>
           Holder(mine, i) \/ (i \in DOMAIN status /\ status[i] = "active" /\ ~Holder(session[s], i))
  PROVE  ValidOK(d, hp2, st2, [session EXCEPT ![s] = mine])
<1> DEFINE ses == [session EXCEPT ![s] = mine]
<1>1. \A o \in Sessions : ses[o] = IF o = s THEN mine ELSE session[o]
  BY DEF RowInv, SessionsOK
<1> HIDE DEF ses
<1>2. \A o \in Sessions : Running(ses[o]) => AgendaFits(d, ses[o].agenda)
  BY <1>1
<1>3. ASSUME NEW i \in DOMAIN st2, st2[i] = "active"
      PROVE  \E o \in Sessions : Holder(ses[o], i)
  <2>1. CASE Holder(mine, i)
    BY <1>1, <2>1
  <2>2. CASE i \in DOMAIN status /\ status[i] = "active" /\ ~Holder(session[s], i)
    <3>1. PICK o \in Sessions : Holder(session[o], i)
      BY <2>2 DEF ValidInv, ValidOK, Held
    <3>2. ses[o] = session[o]
      BY <1>1, <2>2, <3>1
    <3>3. QED
      BY <3>1, <3>2
  <2>3. QED
    BY <1>3, <2>1, <2>2
<1>4. QED
  BY <1>2, <1>3 DEF ValidOK, Held, ses

\* What others have still to write fits where the constraints are the same.
LEMMA OthersFit ==
  ASSUME RowInv, ValidInv, NEW d, \A h \in DOMAIN catalog.tables : SameRules(catalog.tables[h], d.tables[h]),
         NEW o \in Sessions, Running(session[o])
  PROVE  AgendaFits(d, session[o].agenda)
<1> DEFINE q == session[o].agenda
<1>1. CatalogShape(catalog) /\ AgendaFits(catalog, q)
  BY DEF RowInv, CatInv, ValidInv, ValidOK
<1>2. \A call \in ToSet(q) : call.h \in Present(catalog)
  BY DEF RowInv, SessionsOK, SessionOK, AgendaOK, CallOK
<1>3. \A call \in ToSet(q) : call.h \in DOMAIN catalog.tables
  BY <1>1, <1>2, PresentIs
<1> HIDE DEF q
<1>4. AgendaFits(d, q)
  BY <1>1, <1>3, AgendaFitsOn
<1>5. QED
  BY <1>4 DEF q

\* The rows fit as before, when a transaction begins or ends.
LEMMA RowsStayFit ==
  ASSUME RowInv, ValidInv, NEW id, id \in DOMAIN status => status[id] = "active",
         NEW st2, Advances(status, st2, id)
  PROVE  HeapFits(heap, catalog, st2)
<1>1. /\ CatalogShape(catalog) /\ HeapOK(heap, catalog, Len(status)) /\ HeapFits(heap, catalog, status)
      /\ Len(status) \in Nat /\ DOMAIN status = 1..Len(status)
  BY SeqIs DEF RowInv, CatInv, StatusOK, ValidInv, ValidOK
<1>2. \A i \in 1..Len(status) : st2[i] = status[i] \/ status[i] = "active"
  BY <1>1 DEF Advances
<1>3. \A h \in DOMAIN catalog.tables : SameRules(catalog.tables[h], catalog.tables[h])
  BY SameSame
<1>4. QED
  BY <1>1, <1>2, <1>3, FitsOn

\* Whoever is begun now is the only one that is open and was not.
LEMMA BegunHolds ==
  ASSUME RowInv, NEW o \in Outcomes, NEW st2, st2 = Append(status, o), NEW i \in DOMAIN st2, st2[i] = "active"
  PROVE  (i \in DOMAIN status /\ status[i] = "active") \/ (i = Len(status) + 1 /\ o = "active")
<1>1. IsSeq(status) /\ Len(status) \in Nat /\ DOMAIN status = 1..Len(status)
  BY SeqIs DEF RowInv, StatusOK
<1>2. DOMAIN st2 = 1..(Len(status) + 1) /\ st2[Len(status) + 1] = o /\ \A j \in DOMAIN status : st2[j] = status[j]
  BY <1>1, AppendIs, SeqIs
<1>3. QED
  BY <1>1, <1>2

\* BEGIN.
LEMMA BeginValid ==
  ASSUME RowInv, ValidInv, NEW s \in Sessions, NEW level, Begin(s, level)
  PROVE  ValidOK(catalog', heap', status', session')
<1> DEFINE mine == [Idle EXCEPT !.tx = Len(status) + 1, !.snap = Taken, !.level = level, !.explicit = TRUE]
           st2 == Append(status, "active")
<1>1. /\ status' = st2 /\ session' = [session EXCEPT ![s] = mine]
      /\ heap' = heap /\ catalog' = catalog /\ session[s].tx = NoTx
  BY DEF Begin
<1>2. mine.tx = Len(status) + 1 /\ mine.explicit = TRUE /\ mine.stmt = NoStatement
  BY DEF Idle
<1>3. "active" \in Outcomes /\ StatusOK(status) /\ Len(status) + 1 \notin DOMAIN status
      /\ Len(status) \in Nat /\ DOMAIN status = 1..Len(status)
  BY FreshIs, SeqIs DEF Outcomes, RowInv, StatusOK
<1>4. Advances(status, st2, Len(status) + 1)
  BY <1>3, StatusAdvances
<1>5. HeapFits(heap, catalog, st2)
  <2> HIDE DEF st2
  <2>1. QED
    BY <1>3, <1>4, RowsStayFit
<1>6. \A i \in DOMAIN st2 : st2[i] = "active" => (i \in DOMAIN status /\ status[i] = "active") \/ i = Len(status) + 1
  BY <1>3, BegunHolds
<1>7. \A i \in DOMAIN status : ~Holder(session[s], i)
  BY <1>1, <1>3 DEF Holder, NoTx
<1> HIDE DEF mine, st2
<1>8. Holder(mine, Len(status) + 1) /\ ~Running(mine)
  BY <1>2 DEF Holder, Running
<1>9. \A o \in Sessions : Running(session[o]) => AgendaFits(catalog, session[o].agenda)
  BY DEF ValidInv, ValidOK
<1>10. ValidOK(catalog, heap, st2, [session EXCEPT ![s] = mine])
  BY <1>5, <1>6, <1>7, <1>8, <1>9, ValidMoves
<1>11. QED
  BY <1>1, <1>10, Zenon

\* Rows of the statement's own table, and rows to insert: nothing is written yet.
LEMMA CallsFit ==
  ASSUME NEW s, NEW tx, NEW snap
  PROVE  AgendaFits(catalog, Calls(s, Lookup(catalog, s.table), tx, snap))
<1> DEFINE h == Lookup(catalog, s.table)
           q == Calls(s, h, tx, snap)
<1> HIDE DEF h
<1>1. \A i \in DOMAIN q : (\E row : q[i] = StoreCall(h, row)) \/ \E v : q[i] = RowCall(h, v)
  <2>1. CASE s.op = "insert"
    <3>1. q = [i \in DOMAIN s.rows |-> StoreCall(h, s.rows[i])]
      BY <2>1, Zenon DEF Calls
    <3> HIDE DEF q
    <3>2. \A i \in DOMAIN q : q[i] = StoreCall(h, s.rows[i])
      BY <3>1
    <3>3. QED
      BY <3>2
  <2>2. CASE s.op # "insert"
    <3> DEFINE vs == ScanOf(heap[h], tx, snap)
    <3>1. q = [i \in DOMAIN vs |-> RowCall(h, vs[i])]
      BY <2>2, Zenon DEF Calls
    <3> HIDE DEF q, vs
    <3>2. \A i \in DOMAIN q : q[i] = RowCall(h, vs[i])
      BY <3>1
    <3>3. QED
      BY <3>2
  <2>3. QED
    BY <2>1, <2>2
<1>2. (\A row : StoreCall(h, row).call = "store") /\ \A v : RowCall(h, v).call = "row"
  BY DEF StoreCall, RowCall
<1> HIDE DEF q
<1>3. \A i \in DOMAIN q : q[i].call # "write"
  BY <1>1, <1>2
<1>4. \A call \in ToSet(q) : call.call # "write"
  BY <1>3, SeqIs
<1>5. AgendaFits(catalog, q)
  BY <1>4 DEF AgendaFits, WriteChecked
<1>6. QED
  BY <1>5 DEF q, h

\* A statement that begins.
LEMMA StartValid ==
  ASSUME RowInv, ValidInv, NEW s \in Sessions, NEW stmt \in scenario.statements, Start(s, stmt)
  PROVE  ValidOK(catalog', heap', status', session')
<1> DEFINE me == Entered(s)
           h == Lookup(catalog, stmt.table)
           q == Calls(stmt, h, me.tx, me.snap)
           before == [g \in DOMAIN heap |-> ScanOf(heap[g], me.tx, me.snap)]
           mine == [me EXCEPT !.stmt = stmt, !.h = h, !.agenda = q, !.before = before]
           st2 == status'
<1>1. /\ MayStart(s) /\ st2 = (IF me.explicit THEN status ELSE Append(status, "active"))
      /\ session' = [session EXCEPT ![s] = mine] /\ heap' = heap /\ catalog' = catalog
  BY DEF Start, Calls, Once
<1>2. /\ DOMAIN me = SessionFields
      /\ session[s].explicit => me.explicit = session[s].explicit /\ me.tx = session[s].tx
      /\ ~session[s].explicit => me.explicit = FALSE /\ me.tx = Len(status) + 1
  BY EnteredIs
<1>3. ~Running(session[s]) /\ stmt # NoStatement
  <2>1. WellFormed(stmt)
    BY ScenariosAssumption, Zenon DEF RowInv, CatInv
  <2>2. stmt.op # "none"
    BY <2>1 DEF WellFormed, SchemaChanges
  <2>3. NoStatement.op = "none"
    BY DEF NoStatement
  <2>4. QED
    BY <1>1, <2>2, <2>3 DEF MayStart
<1>4. AgendaFits(catalog, q)
  BY CallsFit
<1> HIDE DEF me, q, before, h, st2
<1>5. mine.agenda = q /\ mine.tx = me.tx /\ mine.explicit = me.explicit /\ mine.stmt = stmt
  BY <1>2 DEF SessionFields
<1> HIDE DEF mine
<1>6. Running(mine) /\ AgendaFits(catalog, mine.agenda)
  BY <1>3, <1>4, <1>5 DEF Running
<1>7. /\ "active" \in Outcomes /\ StatusOK(status) /\ Len(status) + 1 \notin DOMAIN status
      /\ HeapFits(heap, catalog, status) /\ \A o \in Sessions : Running(session[o]) => AgendaFits(catalog, session[o].agenda)
  BY FreshIs DEF Outcomes, RowInv, ValidInv, ValidOK
<1>8. CASE session[s].explicit
  <2>1. st2 = status /\ mine.tx = session[s].tx
    BY <1>1, <1>2, <1>5, <1>8
  <2>2. \A i \in DOMAIN status : status[i] = "active" => Holder(mine, i) \/ ~Holder(session[s], i)
    BY <1>6, <2>1 DEF Holder
  <2>3. ValidOK(catalog, heap, status, [session EXCEPT ![s] = mine])
    BY <1>6, <1>7, <2>2, ValidMoves
  <2>4. QED
    BY <1>1, <2>1, <2>3, Zenon DEF st2
<1>9. CASE ~session[s].explicit
  <2>1. st2 = Append(status, "active") /\ mine.tx = Len(status) + 1
    BY <1>1, <1>2, <1>5, <1>9
  <2>2. Advances(status, st2, Len(status) + 1)
    BY <1>7, <2>1, StatusAdvances
  <2>3. HeapFits(heap, catalog, st2)
    BY <1>7, <2>2, RowsStayFit
  <2>4. \A i \in DOMAIN st2 : st2[i] = "active" => (i \in DOMAIN status /\ status[i] = "active") \/ i = Len(status) + 1
    BY <1>7, <2>1, BegunHolds
  <2>5. \A i : ~Holder(session[s], i)
    BY <1>3, <1>9 DEF Holder
  <2>6. Holder(mine, Len(status) + 1)
    BY <1>6, <2>1 DEF Holder
  <2>7. ValidOK(catalog, heap, st2, [session EXCEPT ![s] = mine])
    BY <1>6, <1>7, <2>3, <2>4, <2>5, <2>6, ValidMoves
  <2>8. QED
    BY <1>1, <2>7, Zenon DEF st2
<1>10. QED
  BY <1>8, <1>9

\* A transaction that ends, leaving rows that fit.
LEMMA EndValid ==
  ASSUME RowInv, ValidInv, NEW s \in Sessions, session[s].tx # NoTx, NEW o \in {"committed", "aborted"},
         NEW d, CatalogShape(d), \A h \in DOMAIN catalog.tables : SameRules(catalog.tables[h], d.tables[h]),
         NEW hp2, HeapOK(hp2, d, Len(status)), HeapFits(hp2, d, status)
  PROVE  ValidOK(d, hp2, [status EXCEPT ![session[s].tx] = o], [session EXCEPT ![s] = Idle])
<1> DEFINE id == session[s].tx
           st2 == [status EXCEPT ![id] = o]
<1>1. id \in DOMAIN status /\ status[id] = "active" /\ Len(status) \in Nat /\ DOMAIN status = 1..Len(status)
  BY OwnerIs, SeqIs DEF RowInv, StatusOK
<1>2. DOMAIN st2 = DOMAIN status /\ \A i \in DOMAIN status : st2[i] = IF i = id THEN o ELSE status[i]
  BY <1>1
<1>3. ~Running(Idle)
  BY DEF Idle, Running
<1>4. \A p \in Sessions : Running(session[p]) => AgendaFits(d, session[p].agenda)
  BY OthersFit
<1>5. \A h \in DOMAIN d.tables : SameRules(d.tables[h], d.tables[h])
  BY SameSame
<1> HIDE DEF st2
<1>6. HeapFits(hp2, d, st2)
  <2>1. \A i \in 1..Len(status) : st2[i] = status[i] \/ status[i] = "active"
    BY <1>1, <1>2
  <2>2. QED
    BY <1>1, <1>5, <2>1, FitsOn
<1>7. \A i \in DOMAIN st2 : st2[i] = "active" => i \in DOMAIN status /\ status[i] = "active" /\ ~Holder(session[s], i)
  BY <1>2 DEF Holder
<1>8. ValidOK(d, hp2, st2, [session EXCEPT ![s] = Idle])
  BY <1>3, <1>4, <1>6, <1>7, ValidMoves
<1>9. QED
  BY <1>8 DEF st2

\* COMMIT and ROLLBACK.
LEMMA CommitValid ==
  ASSUME RowInv, ValidInv, NEW s \in Sessions, Commit(s) \/ Rollback(s)
  PROVE  ValidOK(catalog', heap', status', session')
<1>1. PICK o \in {"committed", "aborted"} :
        /\ status' = [status EXCEPT ![session[s].tx] = o] /\ session' = [session EXCEPT ![s] = Idle]
        /\ heap' = heap /\ catalog' = catalog
  BY DEF Commit, Rollback
<1>2. /\ session[s].tx # NoTx /\ CatalogShape(catalog) /\ HeapOK(heap, catalog, Len(status))
      /\ HeapFits(heap, catalog, status)
  BY DEF Commit, Rollback, RowInv, CatInv, SessionsOK, SessionOK, ValidInv, ValidOK
<1>3. \A h \in DOMAIN catalog.tables : SameRules(catalog.tables[h], catalog.tables[h])
  BY SameSame
<1>4. ValidOK(catalog, heap, [status EXCEPT ![session[s].tx] = o], [session EXCEPT ![s] = Idle])
  BY <1>2, <1>3, EndValid
<1>5. QED
  BY <1>1, <1>4, Zenon

\* A statement that is over, in a transaction that stays or in its own.
LEMMA OverValid ==
  ASSUME RowInv, ValidInv, NEW s \in Sessions, Running(session[s]), Fails(s, session[s]) \/ Succeeds(s, session[s]),
         NEW d, CatalogShape(d), \A h \in DOMAIN catalog.tables : SameRules(catalog.tables[h], d.tables[h]),
         NEW hp2, HeapOK(hp2, d, Len(status)), HeapFits(hp2, d, status)
  PROVE  ValidOK(d, hp2, status', session')
<1> DEFINE me == session[s]
           rest == AtRest(me)
           failed == [rest EXCEPT !.failed = TRUE]
<1>1. DOMAIN me = SessionFields /\ me.tx # NoTx
  BY DEF RowInv, SessionsOK, SessionOK
<1>2. DOMAIN rest = SessionFields /\ ~Running(rest) /\ rest.tx = me.tx /\ rest.explicit = me.explicit
  BY <1>1, RestIs
<1>3. \/ me.explicit /\ status' = status /\ session' = [session EXCEPT ![s] = rest]
      \/ me.explicit /\ status' = status /\ session' = [session EXCEPT ![s] = failed]
      \/ \E o \in {"committed", "aborted"} :
           status' = [status EXCEPT ![me.tx] = o] /\ session' = [session EXCEPT ![s] = Idle]
  BY DEF Fails, Succeeds
<1> HIDE DEF rest
<1>4. ~Running(failed) /\ failed.tx = me.tx /\ failed.explicit = me.explicit
  <2> HIDE DEF me
  <2>1. QED
    BY <1>2 DEF SessionFields, Running
<1> HIDE DEF failed
<1>5. \A o \in Sessions : Running(session[o]) => AgendaFits(d, session[o].agenda)
  BY OthersFit
<1>6. ASSUME NEW mine \in {rest, failed}, me.explicit
      PROVE  ValidOK(d, hp2, status, [session EXCEPT ![s] = mine])
  <2>1. ~Running(mine) /\ mine.tx = me.tx /\ mine.explicit
    BY <1>2, <1>4, <1>6
  <2>2. \A i \in DOMAIN status : status[i] = "active" => Holder(mine, i) \/ ~Holder(session[s], i)
    BY <2>1 DEF Holder
  <2>3. QED
    BY <1>5, <2>1, <2>2, ValidMoves
<1>7. CASE \E o \in {"committed", "aborted"} :
             status' = [status EXCEPT ![me.tx] = o] /\ session' = [session EXCEPT ![s] = Idle]
  <2>1. PICK o \in {"committed", "aborted"} :
               status' = [status EXCEPT ![me.tx] = o] /\ session' = [session EXCEPT ![s] = Idle]
    BY <1>7
  <2>2. ValidOK(d, hp2, [status EXCEPT ![me.tx] = o], [session EXCEPT ![s] = Idle])
    BY <1>1, EndValid
  <2>3. QED
    BY <2>1, <2>2, Zenon
<1>8. CASE me.explicit /\ status' = status /\ session' = [session EXCEPT ![s] = rest]
  <2>1. ValidOK(d, hp2, status, [session EXCEPT ![s] = rest])
    BY <1>6, <1>8
  <2>2. QED
    BY <1>8, <2>1, Zenon
<1>9. CASE me.explicit /\ status' = status /\ session' = [session EXCEPT ![s] = failed]
  <2>1. ValidOK(d, hp2, status, [session EXCEPT ![s] = failed])
    BY <1>6, <1>9
  <2>2. QED
    BY <1>9, <2>1, Zenon
<1>10. QED
  BY <1>3, <1>7, <1>8, <1>9

\* The checks at the end of a statement.
LEMMA FinishValid ==
  ASSUME RowInv, ValidInv, NEW s \in Sessions, Finish(s)
  PROVE  ValidOK(catalog', heap', status', session')
<1>1. /\ Running(session[s]) /\ (Fails(s, session[s]) \/ Succeeds(s, session[s]))
      /\ heap' = heap /\ catalog' = catalog
  BY DEF Finish
<1>2. CatalogShape(catalog) /\ HeapOK(heap, catalog, Len(status)) /\ HeapFits(heap, catalog, status)
  BY DEF RowInv, CatInv, ValidInv, ValidOK
<1>3. \A h \in DOMAIN catalog.tables : SameRules(catalog.tables[h], catalog.tables[h])
  BY SameSame
<1>4. ValidOK(catalog, heap, status', session')
  BY <1>1, <1>2, <1>3, OverValid
<1>5. QED
  BY <1>1, <1>4, Zenon

\* One call of a statement.
LEMMA StepValid ==
  ASSUME RowInv, ValidInv, Resolves(catalog), \A h \in Tables : ChecksApart(catalog.tables[h]),
         NEW s \in Sessions, Step(s)
  PROVE  ValidOK(catalog', heap', status', session')
<1> DEFINE me == session[s]
           w == Ahead(me)
           c == Head(me.agenda)
           x == execCall(w, me, me.stmt, c)
           mine == [me EXCEPT !.agenda = x.agenda, !.seen = x.seen, !.wrote = x.wrote]
<1>1. /\ Running(me) /\ me.agenda # <<>> /\ heap' = x.heap /\ catalog' = x.catalog
      /\ IF x.ok THEN session' = [session EXCEPT ![s] = mine] /\ status' = status ELSE Fails(s, me)
  <2>1. [World(me) EXCEPT !.agenda = Tail(@)] = w
    BY DEF Ahead, World
  <2>2. QED
    BY <2>1 DEF Step
<1>2. Calling(w, me, c) /\ w.heap = heap /\ w.catalog = catalog
  BY <1>1, AheadIs
<1>3. w.agenda = Tail(me.agenda)
  BY DEF Ahead, World
<1>4. /\ SessionOK(me, heap, catalog, status) /\ DOMAIN me = SessionFields /\ me.tx # NoTx
      /\ IsSeq(me.agenda) /\ OwnLast(me.agenda) /\ me.snap \subseteq Taken
      /\ AgendaFits(catalog, me.agenda) /\ HeapFits(heap, catalog, status)
  BY <1>1 DEF RowInv, SessionsOK, SessionOK, AgendaOK, ValidInv, ValidOK, Taken
<1>5. ToSet(w.agenda) \subseteq ToSet(me.agenda) /\ c \in ToSet(me.agenda)
  <2> DEFINE q == me.agenda
  <2>1. IsSeq(q) /\ OwnLast(q) /\ q # <<>> /\ w.agenda = Tail(q) /\ c = Head(q)
    BY <1>1, <1>3, <1>4
  <2> HIDE DEF q, w, c
  <2>2. QED
    BY <2>1, TailIs DEF q
<1> HIDE DEF w, c
<1>6. FitCalling(w, me, c)
  BY <1>2, <1>4, <1>5 DEF FitCalling, AgendaFits
<1>7. ChecksApart(w.catalog.tables[c.h])
  BY <1>2 DEF Calling, CallOK, Tables
<1>8. Fitted(w, x)
  BY <1>2, <1>6, <1>7, CallFits
<1>9. Effect(w, x, me, c.h) /\ Moves(w.catalog, x.catalog)
  BY <1>2, CallEffect
<1> HIDE DEF x
<1>10. /\ \A h \in DOMAIN catalog.tables : SameRules(catalog.tables[h], x.catalog.tables[h])
       /\ HeapFits(x.heap, x.catalog, status) /\ (x.ok => AgendaFits(x.catalog, x.agenda))
  BY <1>2, <1>8 DEF Fitted
<1>11. CASE x.ok
  <2>1. /\ mine.agenda = x.agenda /\ mine.tx = me.tx /\ mine.explicit = me.explicit /\ mine.stmt = me.stmt
    <3> HIDE DEF me
    <3>1. QED
      BY <1>4 DEF SessionFields
  <2> HIDE DEF mine
  <2>2. session' = [session EXCEPT ![s] = mine] /\ status' = status
    BY <1>1, <1>11
  <2>3. \A i \in DOMAIN status : status[i] = "active" => Holder(mine, i) \/ ~Holder(session[s], i)
    BY <2>1 DEF Holder, Running
  <2>4. AgendaFits(x.catalog, mine.agenda)
    BY <1>10, <1>11, <2>1
  <2> DEFINE hp == x.heap
             d == x.catalog
  <2>5. HeapFits(hp, d, status) /\ AgendaFits(d, mine.agenda)
    BY <1>10, <2>4
  <2>6. \A o \in Sessions : Running(session[o]) => AgendaFits(d, session[o].agenda)
    <3>1. \A h \in DOMAIN catalog.tables : SameRules(catalog.tables[h], d.tables[h])
      BY <1>10
    <3> HIDE DEF d
    <3>2. QED
      BY <3>1, OthersFit
  <2> HIDE DEF hp, d
  <2>7. ValidOK(d, hp, status, [session EXCEPT ![s] = mine])
    BY <2>3, <2>5, <2>6, ValidMoves
  <2>8. heap' = hp /\ catalog' = d
    BY <1>1 DEF hp, d
  <2>9. QED
    BY <2>2, <2>7, <2>8, Zenon
<1>12. CASE ~x.ok
  <2> DEFINE hp == x.heap
             d == x.catalog
  <2>1. \A h \in DOMAIN catalog.tables : SameRules(catalog.tables[h], d.tables[h])
    BY <1>10
  <2>2. HeapFits(hp, d, status) /\ Fails(s, me) /\ CatalogShape(d)
    BY <1>1, <1>2, <1>9, <1>10, <1>12 DEF Moves
  <2>3. HeapOK(hp, d, Len(status))
    <3>1. CatalogShape(catalog) /\ HeapOK(heap, catalog, Len(status))
      BY DEF RowInv, CatInv
    <3>2. Moves(catalog, d) /\ Written(heap, hp, me.tx, d)
      BY <1>2, <1>9 DEF Effect, Heaps, Written, Calling
    <3>3. StatusOK(status) /\ Len(status) \in Nat /\ me.tx \in DOMAIN status
      BY <1>2, SeqIs DEF Calling, StatusOK
    <3> HIDE DEF hp, d
    <3>4. HeapOK(heap, d, Len(status))
      BY <3>1, <3>2, HeapMoves
    <3>5. QED
      BY <2>2, <3>2, <3>3, <3>4, WrittenHeapOK
  <2> HIDE DEF hp, d
  <2>4. ValidOK(d, hp, status', session')
    BY <1>1, <2>1, <2>2, <2>3, OverValid
  <2>5. heap' = hp /\ catalog' = d
    BY <1>1 DEF hp, d
  <2>6. QED
    BY <2>4, <2>5, Zenon
<1>13. QED
  BY <1>11, <1>12

(***************************************************************************)
(* Schema changes, and a database that is opened.                          *)
(***************************************************************************)

\* The CHECKs of the new columns of the statements there are pass on what those
\* columns read in the rows there are.
NewColumnsFit == \A sc \in Scenarios : \A s \in sc.statements : s.op = "add column" => NewChecksPass(s)

\* Where no transaction that began earlier looks for the NULLs of a column that is to
\* have none, and where no referential action writes to a column with a CHECK.
Sheltered ==
  /\ \A s \in Sessions : session[s].explicit /\ session[s].level # "RC" =>
       scenario.alone \/ \A stmt \in scenario.statements : stmt.op # "set not null"
  /\ \A h \in Tables : ChecksApart(catalog.tables[h])

\* When nobody is writing, whoever is named in the heap is over.
LEMMA QuietStamps ==
  ASSUME RowInv, ValidInv, \A o \in Sessions : ~session[o].writing /\ ~Running(session[o]),
         NEW h \in DOMAIN heap, NEW i \in DOMAIN heap[h], NEW x \in {heap[h][i].xmin, heap[h][i].xmax}, x # NoTx
  PROVE  x \in DOMAIN status /\ status[x] \in {"committed", "aborted"}
<1>1. x \in DOMAIN status
  <2>1. VersionOK(heap[h][i], Len(status), Width(catalog, h)) /\ Len(status) \in Nat /\ DOMAIN status = 1..Len(status)
    BY SeqIs DEF RowInv, StatusOK, HeapOK, VersionsOK
  <2>2. QED
    BY <2>1 DEF VersionOK, NoTx
<1>2. status[x] # "active"
  <2> SUFFICES ASSUME status[x] = "active" PROVE FALSE
    OBVIOUS
  <2>1. PICK o \in Sessions : session[o].tx = x
    BY <1>1 DEF ValidInv, ValidOK, Held, Holder
  <2>2. Blank(heap, x)
    BY <2>1 DEF RowInv, SessionsOK, SessionOK
  <2>3. QED
    BY <2>2 DEF Blank
<1>3. QED
  BY <1>1, <1>2 DEF RowInv, StatusOK, Outcomes

\* So every row that lives is seen by a snapshot that is taken now.
LEMMA QuietSeen ==
  ASSUME RowInv, ValidInv, \A o \in Sessions : ~session[o].writing /\ ~Running(session[o]),
         NEW id, Blank(heap, id), NEW h \in DOMAIN heap, NEW i \in DOMAIN heap[h], Lives(heap[h][i], status)
  PROVE  i \in Seen(heap[h], id, Taken)
<1> DEFINE v == heap[h][i]
<1>1. VersionOK(v, Len(status), Width(catalog, h))
  BY DEF RowInv, HeapOK, VersionsOK
<1>2. v.xmin # NoTx
  BY <1>1 DEF VersionOK, NoTx
<1>3. v.xmin \in Taken
  BY <1>2, QuietStamps DEF Lives, Taken
<1>4. v.xmax # NoTx => v.xmax \notin Taken
  BY DEF Lives, Taken
<1>5. v.xmax # id
  BY DEF Blank
<1>6. QED
  BY <1>3, <1>4, <1>5 DEF Visible, Seen

\* The rows there are fit the tables as they are after a schema change, and no more
\* transactions live.
LEMMA DDLFits ==
  ASSUME RowInv, ValidInv, Resolves(catalog), Sheltered,
         NEW s \in Sessions, NEW stmt \in scenario.statements, Settled(stmt), IsDDL(stmt), BindsDDL(stmt), MayStart(s),
         \A o \in Sessions : ~session[o].writing /\ ~Running(session[o]),
         NEW d \in DDL(Entered(s), stmt), NEW st2, Advances(status, st2, Len(status) + 1)
  PROVE  HeapFits(Grown(heap, d), d, st2)
<1> DEFINE me == Entered(s)
           own == Lookup(catalog, stmt.table)
<1>1. WellFormed(stmt) /\ CatInv
  BY ScenariosAssumption, Zenon DEF RowInv, CatInv
<1>2. PICK N : /\ AllAdmit(catalog, d, own, N)
               /\ \A i \in N : \A r \in DOMAIN Judging(me, stmt) : Judging(me, stmt)[r][i] # NULL
               /\ N = {} \/ stmt.op = "set not null"
  BY <1>1, DDLAdmits
<1>3. Blank(heap, me.tx)
  <2>1. CASE session[s].explicit
    <3>1. me.tx = session[s].tx /\ me.tx # NoTx
      BY <2>1, EnteredIs
    <3>2. QED
      BY <3>1 DEF RowInv, SessionsOK, SessionOK
  <2>2. CASE ~session[s].explicit
    BY <2>2, EnteredIs, FreshIs
  <2>3. QED
    BY <2>1, <2>2
<1>4. stmt.op = "set not null" => me.snap = Taken
  <2>1. CASE session[s].explicit
    <3> DEFINE old == session[s]
    <3>1. DOMAIN old = SessionFields
      BY DEF RowInv, SessionsOK, SessionOK
    <3>2. me = [old EXCEPT !.snap = IF old.level = "RC" THEN Taken ELSE @, !.writing = TRUE]
      BY <2>1 DEF Entered
    <3>3. old.level # "RC" /\ stmt.op = "set not null" => scenario.alone
      BY <2>1 DEF Sheltered
    <3>4. scenario.alone => me.snap = Taken
      BY DEF MayStart
    <3> HIDE DEF old, me
    <3>5. old.level = "RC" => me.snap = Taken
      BY <3>1, <3>2 DEF SessionFields
    <3>6. QED
      BY <3>3, <3>4, <3>5
  <2>2. CASE ~session[s].explicit
    <3>1. me = [Idle EXCEPT !.tx = Len(status) + 1, !.snap = Taken, !.writing = TRUE]
      BY <2>2 DEF Entered
    <3>2. QED
      BY <3>1 DEF Idle
  <2>3. QED
    BY <2>1, <2>2
<1>5. Judging(me, stmt) = [r \in Seen(heap[own], me.tx, me.snap) |-> Values(catalog.tables[own], heap[own][r].vals)]
  BY DEF Judging, Rows, RowsOf, World
<1> HIDE DEF me, own
<1>6. CatalogShape(catalog) /\ HeapOK(heap, catalog, Len(status)) /\ HeapFits(heap, catalog, status)
      /\ Len(status) \in Nat /\ DOMAIN status = 1..Len(status)
  BY <1>1, SeqIs DEF CatInv, RowInv, StatusOK, ValidInv, ValidOK
<1>7. ASSUME NEW h \in DOMAIN heap, NEW i \in DOMAIN heap[h]
      PROVE  VersionFits(d.tables[h], heap[h][i], st2)
  <2> DEFINE v == heap[h][i]
             t == catalog.tables[h]
             u == d.tables[h]
             M == IF h = own THEN N ELSE {}
  <2>1. h \in DOMAIN catalog.tables /\ VersionOK(v, Len(status), Width(catalog, h)) /\ VersionFits(t, v, status)
    BY <1>6 DEF HeapOK, VersionsOK, HeapFits
  <2>2. IsSeq(t.columns) /\ Admits(t, u, M) /\ IsSeq(v.vals) /\ Len(v.vals) \in 0..Len(t.columns)
    BY <1>2, <1>6, <2>1 DEF AllAdmit, CatalogShape, TableShape, VersionFits, VersionOK, Width
  <2>3. Lives(v, st2) => Lives(v, status)
    <3>1. \A j \in 1..Len(status) : st2[j] = status[j] \/ status[j] = "active"
      BY <1>6 DEF Advances
    <3> HIDE DEF v
    <3>2. QED
      BY <1>6, <2>1, <3>1, LivesLess
  <2>4. ASSUME Lives(v, status), NEW j \in M
        PROVE  Values(t, v.vals)[j] # NULL
    <3>1. h = own /\ j \in N /\ me.snap = Taken
      BY <1>2, <1>4, <2>4
    <3>2. i \in Seen(heap[h], me.tx, Taken)
      BY <1>3, <2>4, QuietSeen
    <3>3. i \in DOMAIN Judging(me, stmt) /\ Judging(me, stmt)[i] = Values(t, v.vals)
      BY <1>5, <3>1, <3>2
    <3>4. QED
      BY <1>2, <3>1, <3>3
  <2> HIDE DEF v, t, u, M
  <2>5. Lives(v, st2) => Fits(u, Values(u, v.vals))
    <3> SUFFICES ASSUME Lives(v, st2) PROVE Fits(u, Values(u, v.vals))
      OBVIOUS
    <3>1. Fits(t, Values(t, v.vals))
      BY <2>1, <2>3 DEF VersionFits
    <3>2. \A j \in M : Values(t, v.vals)[j] # NULL
      BY <2>3, <2>4
    <3>3. QED
      BY <2>2, <3>1, <3>2, AdmitsFits
  <2>6. VersionFits(u, v, st2)
    BY <2>2, <2>5 DEF VersionFits
  <2>7. QED
    BY <2>6 DEF u, v
<1>8. \A h \in DOMAIN Grown(heap, d) : Grown(heap, d)[h] = IF h \in DOMAIN heap THEN heap[h] ELSE <<>>
  BY DEF Grown
<1>9. DOMAIN <<>> = {}
  OBVIOUS
<1>10. QED
  BY <1>7, <1>8, <1>9 DEF HeapFits

\* A schema statement.
LEMMA DDLValid ==
  ASSUME RowInv, ValidInv, Resolves(catalog), Sheltered,
         NEW s \in Sessions, NEW stmt \in scenario.statements, Settled(stmt), execDDL(s, stmt)
  PROVE  ValidOK(catalog', heap', status', session')
<1> DEFINE me == Entered(s)
           failed == [me EXCEPT !.failed = TRUE]
           n == Len(status) + 1
           d == catalog'
           hp == heap'
           st2 == status'
<1>1. /\ IsDDL(stmt) /\ BindsDDL(stmt) /\ MayStart(s)
      /\ \A o \in Sessions : ~session[o].writing /\ ~Running(session[o])
      /\ \/ /\ d = catalog /\ hp = heap
            /\ session' = [session EXCEPT ![s] = IF me.explicit THEN failed ELSE Idle]
            /\ st2 = IF me.explicit THEN status ELSE Append(status, "aborted")
         \/ /\ d \in DDL(me, stmt) /\ hp = Grown(heap, d)
            /\ session' = [session EXCEPT ![s] = IF me.explicit THEN me ELSE Idle]
            /\ st2 = IF me.explicit THEN status ELSE Append(status, "committed")
  BY DEF execDDL, Grown, Once, OtherWriters
<1>2. /\ DOMAIN me = SessionFields
      /\ session[s].explicit => /\ me.explicit = session[s].explicit /\ me.stmt = session[s].stmt
                                /\ me.tx = session[s].tx
      /\ ~session[s].explicit => me.explicit = FALSE
  BY EnteredIs
<1>3. failed.tx = me.tx /\ failed.explicit = me.explicit /\ failed.stmt = me.stmt
  <2> HIDE DEF me
  <2>1. QED
    BY <1>2 DEF SessionFields
<1>4. StatusOK(status) /\ {"aborted", "committed"} \subseteq Outcomes /\ n \notin DOMAIN status
  BY FreshIs DEF RowInv, Outcomes
<1>5. Advances(status, st2, n)
  <2>1. \A o \in Outcomes : Advances(status, status, n) /\ Advances(status, Append(status, o), n)
    BY <1>4, StatusAdvances
  <2>2. QED
    BY <1>1, <1>4, <2>1
<1>6. HeapFits(hp, d, st2)
  <2>1. CASE d = catalog /\ hp = heap
    <3> HIDE DEF st2
    <3>1. HeapFits(heap, catalog, st2)
      BY <1>4, <1>5, RowsStayFit
    <3>2. QED
      BY <2>1, <3>1
  <2>2. CASE d \in DDL(me, stmt) /\ hp = Grown(heap, d)
    <3> HIDE DEF d, st2
    <3>1. HeapFits(Grown(heap, d), d, st2)
      BY <1>1, <1>5, <2>2, DDLFits
    <3>2. QED
      BY <2>2, <3>1
  <2>3. QED
    BY <1>1, <2>1, <2>2
<1> HIDE DEF me, failed, d, hp, st2
<1>7. CASE session[s].explicit
  <2>1. st2 = status /\ \E mine \in {me, failed} : session' = [session EXCEPT ![s] = mine]
    BY <1>1, <1>2, <1>7
  <2>2. PICK mine \in {me, failed} : session' = [session EXCEPT ![s] = mine]
    BY <2>1
  <2>3. ~Running(mine) /\ mine.tx = session[s].tx /\ mine.explicit
    BY <1>1, <1>2, <1>3, <1>7 DEF Running
  <2>4. \A i \in DOMAIN status : status[i] = "active" => Holder(mine, i) \/ ~Holder(session[s], i)
    BY <2>3 DEF Holder
  <2>5. ValidOK(d, hp, status, [session EXCEPT ![s] = mine])
    BY <1>1, <1>6, <2>1, <2>3, <2>4, ValidMoves
  <2>6. QED
    BY <2>1, <2>2, <2>5, Zenon DEF st2, d, hp
<1>8. CASE ~session[s].explicit
  <2>1. session' = [session EXCEPT ![s] = Idle] /\ \E o \in {"aborted", "committed"} : st2 = Append(status, o)
    BY <1>1, <1>2, <1>8
  <2>2. PICK o \in {"aborted", "committed"} : st2 = Append(status, o)
    BY <2>1
  <2>3. \A i \in DOMAIN st2 : st2[i] = "active" => i \in DOMAIN status /\ status[i] = "active"
    BY <1>4, <2>2, BegunHolds
  <2>4. ~Running(Idle) /\ \A i : ~Holder(session[s], i)
    BY <1>1, <1>8 DEF Holder, Idle, Running
  <2>5. ValidOK(d, hp, st2, [session EXCEPT ![s] = Idle])
    BY <1>1, <1>6, <2>3, <2>4, ValidMoves
  <2>6. QED
    BY <2>1, <2>5, Zenon DEF st2, d, hp
<1>9. QED
  BY <1>7, <1>8

\* A table whose sequences are set again.
LEMMA RestoredRules ==
  ASSUME NEW c, CatalogShape(c), AllKeyed(c), NEW rows,
         NEW d, d = [c EXCEPT !.tables = [h \in DOMAIN c.tables |-> RestoreSequences(c.tables[h], rows[h])]],
         NEW h \in DOMAIN c.tables
  PROVE  SameRules(c.tables[h], d.tables[h])
<1> DEFINE t == c.tables[h]
           high(i) == {rows[h][r][i] : r \in {q \in DOMAIN rows[h] : rows[h][q][i] # NULL}} \cup {0}
           next(i) == 1 + (CHOOSE m \in high(i) : \A v \in high(i) : v <= m)
           columns == [i \in DOMAIN t.columns |->
                         IF t.columns[i].ident = "none" THEN t.columns[i]
                         ELSE [t.columns[i] EXCEPT !.nextSerial = next(i)]]
           u == [t EXCEPT !.columns = columns]
<1>1. RestoreSequences(t, rows[h]) = u
  BY Zenon DEF RestoreSequences
<1>2. TableShape(t) /\ d.tables[h] = RestoreSequences(t, rows[h])
  BY DEF CatalogShape
<1>3. /\ DOMAIN columns = DOMAIN t.columns
      /\ \A i \in DOMAIN t.columns : /\ columns[i].name = t.columns[i].name /\ columns[i].notNull = t.columns[i].notNull
                                     /\ columns[i].missing = t.columns[i].missing
                                     /\ columns[i].default = t.columns[i].default
  <2> HIDE DEF next, t
  <2>1. QED
    OBVIOUS
<1>4. Len(columns) = Len(t.columns)
  <2>1. IsSeq(t.columns) /\ Len(t.columns) \in Nat /\ DOMAIN t.columns = 1..Len(t.columns)
    BY <1>2, SeqIs DEF TableShape
  <2>2. columns = [i \in 1..Len(t.columns) |-> columns[i]]
    BY <2>1
  <2> HIDE DEF columns, t
  <2>3. QED
    BY <2>1, <2>2, FunctionsAreSeqs
<1> HIDE DEF columns
<1>5. u.columns = columns /\ u.checks = t.checks
  BY <1>2 DEF TableShape, Fields
<1>6. SameRules(t, u)
  BY <1>3, <1>4, <1>5 DEF SameRules
<1>7. QED
  BY <1>1, <1>2, <1>6

\* Nobody is there, and the rows read back fit.
LEMMA OpenedFits ==
  ASSUME NEW c, CatalogShape(c), AllKeyed(c), NEW rows,
         NEW d, d = [c EXCEPT !.tables = [h \in DOMAIN c.tables |-> RestoreSequences(c.tables[h], rows[h])]],
         NEW hp, DOMAIN hp = DOMAIN c.tables,
         \A h \in DOMAIN hp : \A i \in DOMAIN hp[h] :
           IsSeq(hp[h][i].vals) /\ Fits(c.tables[h], Values(c.tables[h], hp[h][i].vals))
  PROVE  ValidOK(d, hp, <<"committed">>, [s \in Sessions |-> Idle])
<1>1. ASSUME NEW h \in DOMAIN hp, NEW i \in DOMAIN hp[h]
      PROVE  VersionFits(d.tables[h], hp[h][i], <<"committed">>)
  <2> DEFINE t == c.tables[h]
             u == d.tables[h]
             vals == hp[h][i].vals
  <2>1. IsSeq(t.columns) /\ SameRules(t, u) /\ IsSeq(vals) /\ Fits(t, Values(t, vals))
    BY RestoredRules DEF CatalogShape, TableShape
  <2> HIDE DEF t, u, vals
  <2>2. Fits(u, Values(u, vals))
    BY <2>1, SameFits DEF Fits
  <2>3. QED
    BY <2>1, <2>2 DEF VersionFits, u, vals
<1>2. \A i \in DOMAIN <<"committed">> : <<"committed">>[i] # "active"
  OBVIOUS
<1> DEFINE ses == [s \in Sessions |-> Idle]
<1>3. \A s \in Sessions : ses[s].stmt = NoStatement
  BY DEF Idle
<1> HIDE DEF ses
<1>4. ValidOK(d, hp, <<"committed">>, ses)
  BY <1>1, <1>2, <1>3 DEF ValidOK, HeapFits, Held, Running
<1>5. QED
  BY <1>4 DEF ses

\* A restart.
LEMMA RestartValid ==
  ASSUME RowInv, ValidInv, Restart
  PROVE  ValidOK(catalog', heap', status', session')
<1> DEFINE kept(h) == Only(heap[h], {v \in ToSet(heap[h]) : Visible(v, NoTx, Taken)})
           rows(h) == [i \in DOMAIN kept(h) |-> Values(catalog.tables[h], kept(h)[i].vals)]
           all == [h \in DOMAIN catalog.tables |-> rows(h)]
           hp == [h \in DOMAIN heap |-> [i \in DOMAIN kept(h) |-> Version(kept(h)[i].vals, Boot)]]
           d == [catalog EXCEPT !.tables =
                    [h \in DOMAIN catalog.tables |-> RestoreSequences(catalog.tables[h], all[h])]]
<1>1. catalog' = [catalog EXCEPT !.tables =
                    [h \in DOMAIN catalog.tables |-> RestoreSequences(catalog.tables[h], rows(h))]]
  BY Zenon DEF Restart
<1>2. heap' = hp /\ session' = [s \in Sessions |-> Idle] /\ status' = <<"committed">>
  BY Zenon DEF Restart
<1> HIDE DEF rows
<1>3. catalog' = d
  BY <1>1
<1> HIDE DEF all
<1>4. /\ CatalogShape(catalog) /\ AllKeyed(catalog) /\ HeapOK(heap, catalog, Len(status))
      /\ HeapFits(heap, catalog, status) /\ StatusOK(status)
  BY DEF RowInv, CatInv, ValidInv, ValidOK
<1>5. ASSUME NEW h \in DOMAIN heap, NEW i \in DOMAIN hp[h]
      PROVE  IsSeq(hp[h][i].vals) /\ Fits(catalog.tables[h], Values(catalog.tables[h], hp[h][i].vals))
  <2> DEFINE q == heap[h]
             S == {v \in ToSet(q) : Visible(v, NoTx, Taken)}
             k == kept(h)
             t == catalog.tables[h]
             vals == hp[h][i].vals
  <2>1. hp[h] = [j \in DOMAIN k |-> Version(k[j].vals, Boot)] /\ k = Only(q, S)
    BY Zenon
  <2>2. i \in DOMAIN k /\ vals = k[i].vals
    <3> HIDE DEF k, hp
    <3>1. i \in DOMAIN k /\ hp[h][i] = Version(k[i].vals, Boot)
      BY <2>1
    <3>2. QED
      BY <3>1 DEF Version
  <2>3. IsSeq(q) /\ \A j \in DOMAIN q : VersionOK(q[j], Len(status), Width(catalog, h)) /\ VersionFits(t, q[j], status)
    BY <1>4 DEF HeapOK, VersionsOK, HeapFits
  <2> HIDE DEF k, q, t, kept, hp, vals, S
  <2>4. IsSeq(k) /\ ToSet(k) = ToSet(q) \cap S
    BY <2>1, <2>3, OnlyKeeps
  <2>5. k[i] \in ToSet(q) /\ k[i] \in S
    BY <2>2, <2>4, SeqIs
  <2>6. PICK j \in DOMAIN q : q[j] = k[i]
    BY <2>5, SeqIs
  <2>7. Visible(q[j], NoTx, Taken)
    BY <2>5, <2>6 DEF S
  <2>8. Lives(q[j], status)
    <3> DEFINE v == q[j]
               snap == Taken
    <3>1. VersionOK(v, Len(status), Width(catalog, h)) /\ Visible(v, NoTx, snap) /\ Open(NoTx) /\ snap = Taken
      BY <2>3, <2>7 DEF Open
    <3> HIDE DEF v, snap
    <3>2. Lives(v, status)
      BY <1>4, <3>1, SeenLives
    <3>3. QED
      BY <3>2 DEF v
  <2>9. IsSeq(vals) /\ Fits(t, Values(t, vals))
    BY <2>2, <2>3, <2>6, <2>8 DEF VersionFits
  <2>10. QED
    BY <2>9 DEF vals, t
<1>6. DOMAIN hp = DOMAIN catalog.tables /\ DOMAIN hp = DOMAIN heap
  BY <1>4 DEF HeapOK
<1> HIDE DEF hp
<1>7. ValidOK(d, hp, <<"committed">>, [s \in Sessions |-> Idle])
  BY <1>4, <1>5, <1>6, OpenedFits
<1>8. QED
  BY <1>2, <1>3, <1>7, Zenon

\* A database is opened with rows that fit.
LEMMA InitValid == Init => ValidInv
<1> SUFFICES ASSUME Init PROVE ValidInv
  OBVIOUS
<1> DEFINE c == Created(scenario.create)
           rows == scenario.rows
           hp == [h \in DOMAIN catalog.tables |-> [i \in DOMAIN rows[h] |-> Version(rows[h][i], Boot)]]
<1>1. scenario \in Scenarios
  BY DEF Init
<1>2. /\ catalog = [c EXCEPT !.tables = [h \in DOMAIN c.tables |-> RestoreSequences(c.tables[h], rows[h])]]
      /\ heap = hp /\ status = <<"committed">> /\ session = [s \in Sessions |-> Idle]
  BY Zenon DEF Init
<1>3. CatalogShape(c) /\ AllKeyed(c)
  BY <1>1, CreatedIs, CreatedKeyed DEF Sane
<1>4. \A h \in DOMAIN c.tables : \A i \in DOMAIN rows[h] :
        /\ IsList(rows[h][i])
        /\ checkRow(c.tables[h], Values(c.tables[h], rows[h][i])) /\ runChecks(c.tables[h], Values(c.tables[h], rows[h][i]))
  <2>1. \A sc \in Scenarios : \A h \in DOMAIN Created(sc.create).tables : \A i \in DOMAIN sc.rows[h] :
          /\ IsList(sc.rows[h][i])
          /\ checkRow(Created(sc.create).tables[h], Values(Created(sc.create).tables[h], sc.rows[h][i]))
          /\ runChecks(Created(sc.create).tables[h], Values(Created(sc.create).tables[h], sc.rows[h][i]))
    BY RowsAssumption, Zenon
  <2>2. QED
    BY <1>1, <2>1, Zenon
<1> HIDE DEF c
<1>5. DOMAIN catalog.tables = DOMAIN c.tables
  BY <1>2, <1>3, RestoredEvolves
<1>6. ASSUME NEW h \in DOMAIN hp, NEW i \in DOMAIN hp[h]
      PROVE  IsSeq(hp[h][i].vals) /\ Fits(c.tables[h], Values(c.tables[h], hp[h][i].vals))
  <2>1. h \in DOMAIN c.tables /\ i \in DOMAIN rows[h] /\ hp[h][i] = Version(rows[h][i], Boot)
    BY <1>5
  <2> DEFINE t == c.tables[h]
             vals == rows[h][i]
  <2>2. IsList(vals) /\ Fits(t, Values(t, vals))
    BY <1>4, <2>1 DEF Fits
  <2> HIDE DEF hp, t, vals
  <2>3. IsSeq(vals)
    BY <2>2, FunctionsAreSeqs DEF IsList
  <2>4. hp[h][i].vals = vals
    BY <2>1 DEF Version, vals
  <2>5. QED
    BY <2>2, <2>3, <2>4 DEF t
<1>7. DOMAIN hp = DOMAIN c.tables
  BY <1>5
<1> HIDE DEF hp, rows
<1>8. ValidOK(catalog, heap, status, session)
  BY <1>2, <1>3, <1>6, <1>7, OpenedFits
<1>9. QED
  BY <1>8 DEF ValidInv

\* Any step.
LEMMA NextValid ==
  ASSUME NewColumnsOnly, NewColumnsFit, RowInv, ValidInv, Resolves(catalog), Sheltered, [Next]_vars
  PROVE  ValidInv' /\ Resolves(catalog')
<1>1. scenario.sessions \subseteq Sessions
  BY RowsAssumption, Zenon DEF RowInv, CatInv
<1>2. \A stmt \in scenario.statements : Settled(stmt)
  BY Zenon DEF NewColumnsOnly, NewColumnsFit, SelfContained, Settled, RowInv, CatInv
<1>3. ValidOK(catalog', heap', status', session')
  <2>1. CASE UNCHANGED vars
    <3>1. ValidOK(catalog, heap, status, session)
      BY DEF ValidInv
    <3>2. catalog' = catalog /\ heap' = heap /\ status' = status /\ session' = session
      BY <2>1 DEF vars
    <3>3. QED
      BY <3>1, <3>2, Zenon
  <2>2. CASE \E s \in scenario.sessions : \E level \in scenario.levels : Begin(s, level)
    BY <1>1, <2>2, BeginValid
  <2>3. CASE \E s \in scenario.sessions : Commit(s) \/ Rollback(s)
    BY <1>1, <2>3, CommitValid
  <2>4. CASE \E s \in scenario.sessions : \E stmt \in scenario.statements : Start(s, stmt)
    BY <1>1, <2>4, StartValid
  <2>5. CASE \E s \in scenario.sessions : \E stmt \in scenario.statements : execDDL(s, stmt)
    BY <1>1, <1>2, <2>5, DDLValid
  <2>6. CASE \E s \in scenario.sessions : Step(s)
    BY <1>1, <2>6, StepValid DEF Sheltered
  <2>7. CASE \E s \in scenario.sessions : Finish(s)
    BY <1>1, <2>7, FinishValid
  <2>8. CASE Restart
    BY <2>8, RestartValid
  <2>9. QED
    BY <2>1, <2>2, <2>3, <2>4, <2>5, <2>6, <2>7, <2>8, Zenon DEF Next
<1>4. Resolves(catalog')
  BY NextRetains DEF RowInv, Retains
<1>5. QED
  BY <1>3, <1>4, Zenon DEF ValidInv

\* What a transaction sees that begins a statement now satisfies the constraints.
LEMMA ValidInvHolds == ASSUME RowInv, ValidInv PROVE RowsValid
<1>1. ASSUME NEW h \in Tables, NEW v \in FreshViews, NEW r \in DOMAIN View(h, v.tx, v.snap)
      PROVE  Fits(catalog.tables[h], View(h, v.tx, v.snap)[r])
  <2> DEFINE t == catalog.tables[h]
             x == heap[h][r]
             id == v.tx
             snap == v.snap
  <2>1. /\ StatusOK(status) /\ HeapOK(heap, catalog, Len(status)) /\ HeapFits(heap, catalog, status)
        /\ h \in DOMAIN heap
    BY PresentIs DEF RowInv, CatInv, ValidInv, ValidOK, Tables, HeapOK
  <2>2. snap = Taken /\ (id = NoTx \/ \E s \in Sessions : id = session[s].tx /\ session[s].tx # NoTx)
    BY DEF FreshViews
  <2>3. Open(id) /\ snap \subseteq Taken
    BY <2>2, OwnerIs DEF Open
  <2>4. r \in Seen(heap[h], id, snap) /\ View(h, id, snap)[r] = Values(t, x.vals)
    BY DEF View, RowsOf
  <2>5. VersionOK(x, Len(status), Width(catalog, h)) /\ VersionFits(t, x, status) /\ Visible(x, id, snap)
    BY <2>1, <2>4 DEF HeapOK, VersionsOK, HeapFits, Seen
  <2> HIDE DEF t, x, id, snap
  <2>6. Lives(x, status)
    BY <2>1, <2>2, <2>3, <2>5, SeenLives
  <2>7. View(h, id, snap)[r] = Values(t, x.vals) /\ Fits(t, Values(t, x.vals))
    BY <2>4, <2>5, <2>6 DEF VersionFits
  <2>8. QED
    BY <2>7 DEF t, id, snap
<1>2. \A h \in Tables : \A v \in FreshViews : \A r \in DOMAIN View(h, v.tx, v.snap) :
        /\ checkRow(catalog.tables[h], View(h, v.tx, v.snap)[r])
        /\ runChecks(catalog.tables[h], View(h, v.tx, v.snap)[r])
  BY <1>1 DEF Fits
<1>3. QED
  BY <1>2, Zenon DEF RowsValid

\* Whatever was inserted, updated, sent along a reference or found by ON CONFLICT,
\* and whatever columns and constraints came later, the rows that are seen satisfy
\* NOT NULL and CHECK. The two places where the engine does not look are hypotheses:
\* applyRefAction writes a child's row without its CHECKs, and SET NOT NULL reads the
\* rows of its own transaction's snapshot, which other rows may have followed. Nor
\* does ADD COLUMN look at the rows there are, so its CHECKs have to pass on the
\* value that those read in the new column.
THEOREM RowsAlwaysValid ==
  ASSUME NewColumnsOnly, NewColumnsFit
  PROVE  Spec => ([]Sheltered => []RowsValid)
<1>1. Init => RowInv /\ ValidInv /\ Resolves(catalog)
  BY InitRows, InitValid, InitSane DEF Sane
<1>2. RowInv /\ ValidInv /\ Resolves(catalog) /\ Sheltered /\ [Next]_vars
        => RowInv' /\ ValidInv' /\ Resolves(catalog)'
  BY NextRows, NextValid
<1>3. RowInv /\ ValidInv => RowsValid
  BY ValidInvHolds
<1>4. QED
  BY <1>1, <1>2, <1>3, PTL DEF Spec
=============================================================================
