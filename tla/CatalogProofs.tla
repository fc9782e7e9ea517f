---------------------------- MODULE CatalogProofs ----------------------------
(***************************************************************************)
(* Proofs about the catalog, for any tables, any scenario and any number   *)
(* of connections: whatever schema statements run, and whatever happens to *)
(* rows between them, what a table says of the references to it agrees     *)
(* with the tables that make them, and what is stored as syntax binds.     *)
(***************************************************************************)
EXTENDS Statements, TLAPS, WellFoundedInduction, FiniteSetTheorems, SequenceTheorems

\* A nonempty set of naturals has a least element.
LEMMA LeastOf ==
  ASSUME NEW S \in SUBSET Nat, S # {}
  PROVE  \E m \in S : \A n \in S : m <= n
<1>1. PICK m \in S : \A n \in S : <<n, m>> \notin OpToRel(<, Nat)
  BY NatLessThanWellFounded, WFMin, Zenon
<1>2. \A n \in S : ~(n < m)
  BY <1>1, Zenon DEF OpToRel
<1>3. QED
  BY <1>2

\* What holds of 0, and passes from i - 1 to i, holds up to n.
LEMMA UpTo ==
  ASSUME NEW S, NEW n \in Nat, 0 \in S, \A i \in 1..n : i - 1 \in S => i \in S
  PROVE  \A i \in 0..n : i \in S
<1> DEFINE bad == {i \in 0..n : i \notin S}
<1> SUFFICES ASSUME bad # {} PROVE FALSE
  OBVIOUS
<1>1. PICK m \in bad : \A i \in bad : m <= i
  <2>1. bad \in SUBSET Nat
    OBVIOUS
  <2> HIDE DEF bad
  <2>2. QED
    BY <2>1, LeastOf
<1>2. m \in 1..n /\ m \notin S
  BY <1>1
<1>3. m - 1 \in S
  <2>1. m - 1 \in 0..n /\ m - 1 < m
    BY <1>2
  <2>2. m - 1 \notin bad
    BY <2>1, <1>1, <1>2
  <2>3. QED
    BY <2>1, <2>2
<1>4. QED
  BY <1>2, <1>3

(***************************************************************************)
(* Sequences.                                                              *)
(***************************************************************************)

\* A sequence of whatever its elements are.
IsSeq(q) == q \in Seq(ToSet(q))

\* Its positions.
LEMMA SeqIs ==
  ASSUME NEW q
  PROVE  /\ IsSeq(q) => Len(q) \in Nat /\ DOMAIN q = 1..Len(q) /\ \A i \in DOMAIN q : q[i] \in ToSet(q)
         /\ \A x : x \in ToSet(q) <=> \E i \in DOMAIN q : q[i] = x
BY DEF IsSeq, ToSet

\* A function on the first n numbers is one.
LEMMA FunctionsAreSeqs ==
  ASSUME NEW n \in Nat, NEW q, q = [i \in 1..n |-> q[i]]
  PROVE  IsSeq(q) /\ Len(q) = n
<1>1. q \in [1..n -> ToSet(q)]
  BY DEF ToSet
<1>2. q \in Seq(ToSet(q)) /\ Len(q) = n
  BY <1>1
<1>3. QED
  BY <1>2 DEF IsSeq

\* The elements of two sequences, one after the other.
LEMMA ConcatIs ==
  ASSUME NEW q, NEW r, IsSeq(q), IsSeq(r)
  PROVE  /\ IsSeq(q \o r) /\ Len(q \o r) = Len(q) + Len(r) /\ ToSet(q \o r) = ToSet(q) \cup ToSet(r)
         /\ \A i \in 1..Len(q) : (q \o r)[i] = q[i]
         /\ \A i \in 1..Len(r) : (q \o r)[Len(q) + i] = r[i]
         /\ \A i \in DOMAIN (q \o r) : i \in 1..Len(q) \/ \E j \in 1..Len(r) : i = Len(q) + j
<1> DEFINE S == ToSet(q) \cup ToSet(r)
<1>1. q \in Seq(S) /\ r \in Seq(S)
  <2>1. q \in Seq(ToSet(q)) /\ r \in Seq(ToSet(r))
    BY DEF IsSeq
  <2> HIDE DEF S
  <2>2. ToSet(q) \subseteq S /\ ToSet(r) \subseteq S
    BY DEF S
  <2>3. QED
    BY <2>1, <2>2
<1>2. Len(q) \in Nat /\ Len(r) \in Nat /\ DOMAIN q = 1..Len(q) /\ DOMAIN r = 1..Len(r)
  BY SeqIs
<1> HIDE DEF S
<1>3. /\ q \o r \in Seq(S) /\ Len(q \o r) = Len(q) + Len(r)
      /\ \A i \in 1..Len(q) + Len(r) : (q \o r)[i] = IF i <= Len(q) THEN q[i] ELSE r[i - Len(q)]
  BY <1>1, ConcatProperties
<1>4. DOMAIN (q \o r) = 1..(Len(q) + Len(r))
  BY <1>3
<1>5. \A i \in 1..Len(q) : (q \o r)[i] = q[i]
  BY <1>2, <1>3
<1>6. \A i \in 1..Len(r) : (q \o r)[Len(q) + i] = r[i]
  <2> SUFFICES ASSUME NEW i \in 1..Len(r) PROVE (q \o r)[Len(q) + i] = r[i]
    OBVIOUS
  <2>1. Len(q) + i \in 1..Len(q) + Len(r) /\ ~(Len(q) + i <= Len(q)) /\ Len(q) + i - Len(q) = i
    BY <1>2
  <2>2. QED
    BY <1>3, <2>1
<1>7. \A i \in DOMAIN (q \o r) : i \in 1..Len(q) \/ \E j \in 1..Len(r) : i = Len(q) + j
  <2> SUFFICES ASSUME NEW i \in 1..(Len(q) + Len(r)), i \notin 1..Len(q)
               PROVE  \E j \in 1..Len(r) : i = Len(q) + j
    BY <1>4
  <2>1. i - Len(q) \in 1..Len(r) /\ i = Len(q) + (i - Len(q))
    BY <1>2
  <2>2. QED
    BY <2>1
<1>8. ToSet(q \o r) = S
  <2>1. ASSUME NEW x \in ToSet(q \o r) PROVE x \in S
    <3>1. PICK i \in DOMAIN (q \o r) : x = (q \o r)[i]
      BY <2>1, SeqIs
    <3>2. QED
      BY <1>2, <1>5, <1>6, <1>7, <3>1, SeqIs DEF S
  <2>2. ASSUME NEW x \in S PROVE x \in ToSet(q \o r)
    <3>1. CASE x \in ToSet(q)
      <4>1. PICK i \in 1..Len(q) : x = q[i]
        BY <1>2, <3>1, SeqIs
      <4>2. i \in DOMAIN (q \o r) /\ (q \o r)[i] = x
        BY <1>2, <1>4, <1>5, <4>1
      <4>3. QED
        BY <4>2, SeqIs
    <3>2. CASE x \in ToSet(r)
      <4>1. PICK i \in 1..Len(r) : x = r[i]
        BY <1>2, <3>2, SeqIs
      <4>2. Len(q) + i \in DOMAIN (q \o r) /\ (q \o r)[Len(q) + i] = x
        BY <1>2, <1>4, <1>6, <4>1
      <4>3. QED
        BY <4>2, SeqIs
    <3>3. QED
      BY <2>2, <3>1, <3>2 DEF S
  <2>3. QED
    BY <2>1, <2>2
<1>9. IsSeq(q \o r)
  BY <1>3, <1>8 DEF IsSeq
<1>10. QED
  BY <1>3, <1>5, <1>6, <1>7, <1>8, <1>9 DEF S

\* The elements of a sequence and one more.
LEMMA AppendIs ==
  ASSUME NEW q, IsSeq(q), NEW x
  PROVE  /\ IsSeq(Append(q, x)) /\ Len(Append(q, x)) = Len(q) + 1
         /\ ToSet(Append(q, x)) = ToSet(q) \cup {x}
         /\ DOMAIN Append(q, x) = 1..(Len(q) + 1)
         /\ \A i \in DOMAIN q : Append(q, x)[i] = q[i]
         /\ Append(q, x)[Len(q) + 1] = x
         /\ \A i \in DOMAIN Append(q, x) :
              Append(q, x)[i] = x \/ (i \in DOMAIN q /\ Append(q, x)[i] = q[i])
<1> DEFINE S == ToSet(q) \cup {x}
           r == Append(q, x)
<1>1. Len(q) \in Nat /\ DOMAIN q = 1..Len(q) /\ \A i \in DOMAIN q : q[i] \in S
  BY SeqIs
<1>2. q \in Seq(S)
  <2>1. q \in Seq(ToSet(q))
    BY DEF IsSeq
  <2> HIDE DEF S
  <2>2. ToSet(q) \subseteq S
    BY DEF S
  <2>3. QED
    BY <2>1, <2>2
<1>3. x \in S
  OBVIOUS
<1> HIDE DEF S
<1>4. /\ r \in Seq(S) /\ Len(r) = Len(q) + 1 /\ DOMAIN r = 1..(Len(q) + 1)
      /\ \A i \in 1..Len(q) : r[i] = q[i]
      /\ r[Len(q) + 1] = x
  BY <1>2, <1>3, <1>1
<1> HIDE DEF r
<1>5. \A i \in DOMAIN r : r[i] = x \/ (i \in DOMAIN q /\ r[i] = q[i])
  <2> SUFFICES ASSUME NEW i \in 1..(Len(q) + 1) PROVE r[i] = x \/ (i \in DOMAIN q /\ r[i] = q[i])
    BY <1>4
  <2>1. i = Len(q) + 1 \/ i \in 1..Len(q)
    BY <1>1
  <2>2. QED
    BY <1>1, <1>4, <2>1
<1>6. ToSet(r) = S
  <2>1. \A y \in ToSet(r) : y \in S
    BY <1>1, <1>3, <1>5, SeqIs
  <2>2. \A y \in ToSet(q) : y \in ToSet(r)
    <3> SUFFICES ASSUME NEW y \in ToSet(q) PROVE y \in ToSet(r)
      OBVIOUS
    <3>1. PICK i \in DOMAIN q : q[i] = y
      BY SeqIs
    <3>2. i \in DOMAIN r /\ r[i] = y
      BY <3>1, <1>1, <1>4
    <3>3. QED
      BY <3>2, SeqIs
  <2>3. x \in ToSet(r)
    <3>1. Len(q) + 1 \in DOMAIN r
      BY <1>1, <1>4
    <3>2. QED
      BY <3>1, <1>4, SeqIs
  <2>4. QED
    BY <2>1, <2>2, <2>3 DEF S
<1>7. IsSeq(r)
  BY <1>4, <1>6 DEF IsSeq
<1>8. QED
  BY <1>1, <1>4, <1>5, <1>6, <1>7 DEF S, r

\* Two sequences without repetitions, and with nothing in common.
LEMMA ConcatInjective ==
  ASSUME NEW q, NEW r, IsSeq(q), IsSeq(r), IsInjective(q), IsInjective(r), ToSet(q) \cap ToSet(r) = {}
  PROVE  IsInjective(q \o r)
<1> DEFINE qr == q \o r
<1>1. /\ \A i \in 1..Len(q) : qr[i] = q[i]
      /\ \A i \in 1..Len(r) : qr[Len(q) + i] = r[i]
      /\ \A i \in DOMAIN qr : i \in 1..Len(q) \/ \E j \in 1..Len(r) : i = Len(q) + j
  BY ConcatIs, Zenon
<1> HIDE DEF qr
<1>2. /\ Len(q) \in Nat /\ DOMAIN q = 1..Len(q) /\ Len(r) \in Nat /\ DOMAIN r = 1..Len(r)
      /\ \A i \in DOMAIN q : q[i] \in ToSet(q)
      /\ \A i \in DOMAIN r : r[i] \in ToSet(r)
  BY SeqIs
<1>3. \A i \in 1..Len(q), j \in 1..Len(r) : q[i] # r[j]
  BY <1>2
<1>4. ASSUME NEW i \in DOMAIN qr, NEW j \in DOMAIN qr, qr[i] = qr[j]
      PROVE  i = j
  <2>1. CASE i \in 1..Len(q)
    <3>1. CASE j \in 1..Len(q)
      BY <2>1, <3>1, <1>1, <1>2, <1>4 DEF IsInjective
    <3>2. CASE j \notin 1..Len(q)
      <4>1. PICK k \in 1..Len(r) : j = Len(q) + k
        BY <1>1, <3>2
      <4>2. q[i] = r[k]
        BY <1>1, <1>4, <2>1, <4>1
      <4>3. QED
        BY <1>3, <2>1, <4>2
    <3>3. QED
      BY <3>1, <3>2
  <2>2. CASE i \notin 1..Len(q)
    <3>1. PICK k \in 1..Len(r) : i = Len(q) + k
      BY <1>1, <2>2
    <3>2. qr[i] = r[k]
      BY <1>1, <3>1
    <3>3. CASE j \in 1..Len(q)
      <4>1. q[j] = r[k]
        BY <1>1, <1>4, <3>2, <3>3
      <4>2. QED
        BY <1>3, <3>3, <4>1
    <3>4. CASE j \notin 1..Len(q)
      <4>1. PICK m \in 1..Len(r) : j = Len(q) + m
        BY <1>1, <3>4
      <4>2. r[m] = r[k]
        BY <1>1, <1>4, <3>2, <4>1
      <4>3. QED
        BY <1>2, <3>1, <4>1, <4>2 DEF IsInjective
    <3>5. QED
      BY <3>3, <3>4
  <2>3. QED
    BY <2>1, <2>2
<1>5. QED
  BY <1>4 DEF IsInjective, qr

\* The sequence without elements, and those of one.
LEMMA SmallSeqs ==
  /\ IsSeq(<<>>) /\ ToSet(<<>>) = {} /\ IsInjective(<<>>) /\ DOMAIN <<>> = {}
  /\ \A x : IsSeq(<<x>>) /\ ToSet(<<x>>) = {x} /\ IsInjective(<<x>>) /\ Len(<<x>>) = 1 /\ <<x>>[1] = x
BY DEF IsSeq, ToSet, IsInjective

\* Nothing is added, and one element is.
LEMMA ConcatSmall ==
  ASSUME NEW q, IsSeq(q)
  PROVE  q \o <<>> = q /\ \A x : q \o <<x>> = Append(q, x)
<1>1. q \in Seq(ToSet(q))
  BY DEF IsSeq
<1>2. q \o <<>> = q
  BY <1>1, ConcatEmptySeq
<1>3. ASSUME NEW x PROVE q \o <<x>> = Append(q, x)
  <2> DEFINE S == ToSet(q) \cup {x}
  <2>1. x \in S /\ ToSet(q) \subseteq S
    OBVIOUS
  <2> HIDE DEF S
  <2>2. q \in Seq(S)
    BY <1>1, <2>1
  <2>3. Append(q, x) = q \o <<x>>
    BY <2>1, <2>2, AppendIsConcat
  <2>4. QED
    BY <2>3
<1>4. QED
  BY <1>2, <1>3

\* Only, element by element.
OnlyUpTo(q, S) == CHOOSE f : f = [n \in 0..Len(q) |-> IF n = 0 THEN <<>>
                                    ELSE IF q[n] \in S THEN Append(f[n - 1], q[n]) ELSE f[n - 1]]

\* There is such a function.
LEMMA OnlyIs ==
  ASSUME NEW q, NEW S, Len(q) \in Nat
  PROVE  /\ Only(q, S) = OnlyUpTo(q, S)[Len(q)]
         /\ OnlyUpTo(q, S)[0] = <<>>
         /\ \A n \in 1..Len(q) : OnlyUpTo(q, S)[n] =
              IF q[n] \in S THEN Append(OnlyUpTo(q, S)[n - 1], q[n]) ELSE OnlyUpTo(q, S)[n - 1]
<1> DEFINE next(r, n) == IF q[n] \in S THEN Append(r, q[n]) ELSE r
           Rule(f, m) == f = [n \in 0..m |-> IF n = 0 THEN <<>> ELSE next(f[n - 1], n)]
           T == {m \in 0..Len(q) : \E f : Rule(f, m)}
<1>1. 0 \in T
  <2> DEFINE g == [n \in 0..0 |-> <<>>]
  <2> HIDE DEF next
  <2>1. Rule(g, 0)
    OBVIOUS
  <2>2. \E f : Rule(f, 0)
    BY <2>1, Zenon
  <2> HIDE DEF Rule
  <2>3. QED
    BY <2>2
<1>2. ASSUME NEW m \in 1..Len(q), m - 1 \in T
      PROVE  m \in T
  <2> HIDE DEF next
  <2>1. PICK f : Rule(f, m - 1)
    BY <1>2
  <2> DEFINE g == [n \in 0..m |-> IF n = m THEN next(f[m - 1], m) ELSE f[n]]
  <2>2. \A n \in 0..m : g[n] = IF n = 0 THEN <<>> ELSE next(g[n - 1], n)
    <3> SUFFICES ASSUME NEW n \in 0..m PROVE g[n] = IF n = 0 THEN <<>> ELSE next(g[n - 1], n)
      OBVIOUS
    <3>1. CASE n = m
      BY <3>1
    <3>2. CASE n # m
      <4>1. n \in 0..(m - 1)
        BY <3>2
      <4>2. f[n] = IF n = 0 THEN <<>> ELSE next(f[n - 1], n)
        BY <4>1, <2>1
      <4>3. n # 0 => n - 1 \in 0..m /\ n - 1 # m
        BY <4>1
      <4>4. QED
        BY <3>2, <4>1, <4>2, <4>3
    <3>3. QED
      BY <3>1, <3>2
  <2>3. Rule(g, m)
    BY <2>2, Zenon
  <2>4. \E h : Rule(h, m)
    BY <2>3, Zenon
  <2> HIDE DEF Rule
  <2>5. QED
    BY <2>4
<1>3. \E f : Rule(f, Len(q))
  <2> HIDE DEF Rule
  <2>1. \A i \in 0..Len(q) : i \in T
    <3> HIDE DEF T
    <3>1. QED
      BY <1>1, <1>2, UpTo
  <2>2. QED
    BY <2>1
<1> DEFINE f == CHOOSE f : Rule(f, Len(q))
<1>4. Rule(f, Len(q))
  BY <1>3, Zenon
<1>5. OnlyUpTo(q, S) = f
  BY Zenon DEF OnlyUpTo
<1>6. Only(q, S) = f[Len(q)]
  BY Zenon DEF Only
<1> HIDE DEF f, next
<1>7. /\ f[0] = <<>>
      /\ \A n \in 1..Len(q) : f[n] = next(f[n - 1], n)
  BY <1>4
<1>8. QED
  BY <1>5, <1>6, <1>7, Zenon DEF next

\* The elements of a set, in their order: those, as often as they were there.
LEMMA OnlyKeeps ==
  ASSUME NEW q, NEW S, IsSeq(q)
  PROVE  /\ IsSeq(Only(q, S))
         /\ ToSet(Only(q, S)) = ToSet(q) \cap S
         /\ IsInjective(q) => IsInjective(Only(q, S))
<1> DEFINE f == OnlyUpTo(q, S)
           first(n) == {q[i] : i \in 1..n} \cap S
           Right(r, n) == IsSeq(r) /\ ToSet(r) = first(n) /\ (IsInjective(q) => IsInjective(r))
           T == {n \in 0..Len(q) : Right(f[n], n)}
<1>1. /\ Len(q) \in Nat /\ DOMAIN q = 1..Len(q)
      /\ \A x : x \in ToSet(q) <=> \E i \in DOMAIN q : q[i] = x
  BY SeqIs
<1>2. /\ Only(q, S) = f[Len(q)] /\ f[0] = <<>>
      /\ \A n \in 1..Len(q) : f[n] = IF q[n] \in S THEN Append(f[n - 1], q[n]) ELSE f[n - 1]
  BY <1>1, OnlyIs
<1> HIDE DEF f
<1>3. 0 \in T
  <2>1. first(0) = {}
    OBVIOUS
  <2> HIDE DEF first
  <2>2. Right(f[0], 0)
    BY <2>1, <1>2, SmallSeqs
  <2>3. QED
    BY <2>2, <1>1
<1>4. ASSUME NEW n \in 1..Len(q), n - 1 \in T
      PROVE  n \in T
  <2> DEFINE r == f[n - 1]
  <2>1. Right(r, n - 1)
    BY <1>4
  <2> HIDE DEF r
  <2>2. first(n) = first(n - 1) \cup ({q[n]} \cap S)
    <3>1. 1..n = 1..(n - 1) \cup {n}
      BY <1>1
    <3>2. QED
      BY <3>1
  <2>3. CASE q[n] \notin S
    <3>1. f[n] = r
      BY <1>2, <2>3 DEF r
    <3>2. first(n) = first(n - 1)
      BY <2>2, <2>3
    <3> HIDE DEF first
    <3>3. Right(f[n], n)
      BY <2>1, <3>1, <3>2
    <3>4. QED
      BY <3>3
  <2>4. CASE q[n] \in S
    <3>1. f[n] = Append(r, q[n])
      BY <1>2, <2>4 DEF r
    <3>2. first(n) = first(n - 1) \cup {q[n]}
      BY <2>2, <2>4
    <3>3. IsSeq(Append(r, q[n])) /\ ToSet(Append(r, q[n])) = ToSet(r) \cup {q[n]}
      BY <2>1, AppendIs
    <3>4. IsInjective(q) => IsInjective(Append(r, q[n]))
      <4> SUFFICES ASSUME IsInjective(q) PROVE IsInjective(Append(r, q[n]))
        OBVIOUS
      <4>1. q[n] \notin first(n - 1)
        BY <1>1 DEF IsInjective
      <4> DEFINE x == q[n]
      <4> HIDE DEF first, x
      <4>2. IsSeq(<<x>>) /\ ToSet(<<x>>) = {x} /\ IsInjective(<<x>>) /\ Append(r, x) = r \o <<x>>
        BY <2>1, SmallSeqs, ConcatSmall
      <4>3. IsSeq(r) /\ IsInjective(r) /\ ToSet(r) \cap ToSet(<<x>>) = {}
        BY <2>1, <4>1, <4>2 DEF x
      <4>4. QED
        BY <4>2, <4>3, ConcatInjective DEF x
    <3> HIDE DEF first
    <3>5. Right(f[n], n)
      BY <2>1, <3>1, <3>2, <3>3, <3>4
    <3>6. QED
      BY <3>5
  <2>5. QED
    BY <2>3, <2>4
<1>5. \A n \in 0..Len(q) : n \in T
  <2> HIDE DEF T
  <2>1. QED
    BY <1>1, <1>3, <1>4, UpTo
<1>6. Right(f[Len(q)], Len(q))
  BY <1>1, <1>5
<1>7. first(Len(q)) = ToSet(q) \cap S
  BY <1>1
<1>8. QED
  BY <1>2, <1>6, <1>7

(***************************************************************************)
(* Catalogs.                                                               *)
(***************************************************************************)
Fields == {"name", "columns", "checks", "foreignKeys", "keys", "indexes", "referencedBy"}

\* What makes a table of a record: lists that are lists, and columns with a name.
TableShape(t) ==
  /\ DOMAIN t = Fields
  /\ IsSeq(t.columns) /\ \A i \in DOMAIN t.columns : "name" \in DOMAIN t.columns[i]
  /\ IsSeq(t.checks) /\ IsSeq(t.indexes) /\ IsSeq(t.foreignKeys) /\ IsSeq(t.referencedBy)

\* What makes a catalog of one: a name refers to the table that has it.
CatalogShape(c) ==
  /\ DOMAIN c = {"names", "tables"} /\ DOMAIN c.names = TableNames
  /\ IsSeq(c.tables)
  /\ \A h \in DOMAIN c.tables : TableShape(c.tables[h])
  /\ \A n \in TableNames : \/ c.names[n] = NoTable
                           \/ c.names[n] \in DOMAIN c.tables /\ c.tables[c.names[n]].name = n

\* The references to table h, as pairs of a table and the number of a foreign key.
Refers(c, g, f, h) ==
  f \in DOMAIN c.tables[g].foreignKeys /\ c.tables[g].foreignKeys[f].parent = h

Referring(g, f) == [child |-> g, fk |-> f]

\* ReferencedByAgrees, of any catalog.
TableAgrees(c, h) ==
  /\ IsInjective(c.tables[h].referencedBy)
  /\ \A x : x \in ToSet(c.tables[h].referencedBy) <=>
              \E g \in Present(c) : \E f : Refers(c, g, f, h) /\ x = Referring(g, f)
  /\ \A f \in DOMAIN c.tables[h].foreignKeys : c.tables[h].foreignKeys[f].parent \in Present(c)

Agrees(c) == \A h \in Present(c) : TableAgrees(c, h)

\* One catalog has the tables of another, with its references.
Alike(c, d) ==
  /\ Present(d) = Present(c) /\ DOMAIN d.tables = DOMAIN c.tables
  /\ \A h \in DOMAIN c.tables : /\ d.tables[h].foreignKeys = c.tables[h].foreignKeys
                                /\ d.tables[h].referencedBy = c.tables[h].referencedBy

\* The tables there are.
LEMMA PresentIs ==
  ASSUME NEW c, CatalogShape(c)
  PROVE  /\ Present(c) \subseteq DOMAIN c.tables
         /\ \A h \in Present(c) : c.tables[h].name \in TableNames /\ c.names[c.tables[h].name] = h
         /\ \A n \in TableNames : c.names[n] # NoTable => c.names[n] \in Present(c)
         /\ \A h : h \in Present(c) <=> h # NoTable /\ \E n \in TableNames : c.names[n] = h
<1>1. DOMAIN c.tables = 1..Len(c.tables) /\ Len(c.tables) \in Nat
  BY SeqIs DEF CatalogShape
<1>2. NoTable \notin DOMAIN c.tables
  BY <1>1 DEF NoTable
<1>3. QED
  BY <1>2 DEF CatalogShape, Present

\* The references of one agree if those of the other do.
LEMMA AlikeAgrees ==
  ASSUME NEW c, NEW d, Alike(c, d), Agrees(c)
  PROVE  Agrees(d) /\ Present(d) = Present(c)
<1>1. Present(d) = Present(c)
  BY DEF Alike
<1>2. Present(c) \subseteq DOMAIN c.tables
  BY DEF Present
<1>3. \A g \in Present(c) : \A f, h : Refers(d, g, f, h) <=> Refers(c, g, f, h)
  BY <1>2 DEF Alike, Refers
<1>4. ASSUME NEW h \in Present(d)
      PROVE  TableAgrees(d, h)
  <2>1. /\ d.tables[h].foreignKeys = c.tables[h].foreignKeys
        /\ d.tables[h].referencedBy = c.tables[h].referencedBy
    BY <1>1, <1>2, <1>4 DEF Alike
  <2>2. TableAgrees(c, h)
    BY <1>1, <1>4 DEF Agrees
  <2>3. \A x : x \in ToSet(d.tables[h].referencedBy) <=>
                 \E g \in Present(d) : \E f : Refers(d, g, f, h) /\ x = Referring(g, f)
    BY <1>1, <1>3, <2>1, <2>2 DEF TableAgrees
  <2>4. QED
    BY <1>1, <2>1, <2>2, <2>3 DEF TableAgrees
<1>5. QED
  BY <1>1, <1>4 DEF Agrees

\* A catalog with other tables in the place of its own, under the same names.
Retabled(c, d, tables) ==
  /\ tables = [h \in DOMAIN c.tables |-> tables[h]]
  /\ \A h \in DOMAIN c.tables : TableShape(tables[h]) /\ tables[h].name = c.tables[h].name
  /\ d = [c EXCEPT !.tables = tables]

\* It is a catalog, of the same tables.
LEMMA TablesChanged ==
  ASSUME NEW c, CatalogShape(c), NEW tables, NEW d, Retabled(c, d, tables)
  PROVE  CatalogShape(d) /\ d.tables = tables /\ d.names = c.names /\ Present(d) = Present(c)
<1> USE DEF Retabled
<1>1. DOMAIN d = {"names", "tables"} /\ d.tables = tables /\ d.names = c.names
  BY DEF CatalogShape
<1>2. DOMAIN c.tables = 1..Len(c.tables) /\ Len(c.tables) \in Nat
  BY SeqIs DEF CatalogShape
<1>3. DOMAIN tables = DOMAIN c.tables
  OBVIOUS
<1>4. IsSeq(tables)
  BY <1>2, FunctionsAreSeqs
<1>5. CatalogShape(d)
  BY <1>1, <1>3, <1>4 DEF CatalogShape
<1>6. QED
  BY <1>1, <1>3, <1>5 DEF Present

\* One table in the place of another.
Replaced(c, d, h, t) ==
  /\ h \in DOMAIN c.tables => TableShape(t) /\ t.name = c.tables[h].name
  /\ d = [c EXCEPT !.tables = [c.tables EXCEPT ![h] = t]]

\* It is a catalog too.
LEMMA TableChanged ==
  ASSUME NEW c, CatalogShape(c), NEW h, NEW t, NEW d, Replaced(c, d, h, t)
  PROVE  /\ CatalogShape(d) /\ d.names = c.names /\ Present(d) = Present(c)
         /\ DOMAIN d.tables = DOMAIN c.tables
         /\ \A g \in DOMAIN c.tables : d.tables[g] = IF g = h THEN t ELSE c.tables[g]
<1> DEFINE tables == [c.tables EXCEPT ![h] = t]
<1>1. tables = [g \in DOMAIN c.tables |-> tables[g]]
  OBVIOUS
<1>2. \A g \in DOMAIN c.tables : tables[g] = IF g = h THEN t ELSE c.tables[g]
  OBVIOUS
<1>3. \A g \in DOMAIN c.tables : TableShape(tables[g]) /\ tables[g].name = c.tables[g].name
  BY <1>2 DEF CatalogShape, Replaced
<1>4. d = [c EXCEPT !.tables = tables]
  BY DEF CatalogShape, Replaced
<1> HIDE DEF tables
<1>5. CatalogShape(d) /\ d.tables = tables /\ d.names = c.names /\ Present(d) = Present(c)
  BY <1>1, <1>3, <1>4, TablesChanged DEF Retabled
<1>6. DOMAIN tables = DOMAIN c.tables
  BY <1>1
<1>7. QED
  BY <1>2, <1>5, <1>6

\* ReferencedByAgrees is that of the catalog there is.
LEMMA AgreesIs == ReferencedByAgrees <=> Agrees(catalog)
<1> DEFINE references(h) == UNION {{[child |-> g, fk |-> f] :
          f \in {i \in DOMAIN catalog.tables[g].foreignKeys : catalog.tables[g].foreignKeys[i].parent = h}}
          : g \in Tables}
<1>1. \A h, x : x \in references(h) <=>
         \E g \in Present(catalog) : \E f : Refers(catalog, g, f, h) /\ x = Referring(g, f)
  <2> SUFFICES ASSUME NEW h, NEW x
               PROVE  x \in references(h) <=>
                        \E g \in Present(catalog) : \E f : Refers(catalog, g, f, h) /\ x = Referring(g, f)
    OBVIOUS
  <2>1. x \in references(h) <=>
          \E g \in Present(catalog) :
            \E f \in {i \in DOMAIN catalog.tables[g].foreignKeys : catalog.tables[g].foreignKeys[i].parent = h} :
              x = [child |-> g, fk |-> f]
    BY DEF Tables
  <2>2. QED
    BY <2>1 DEF Refers, Referring
<1>2. ReferencedByAgrees <=> \A h \in Present(catalog) :
        /\ IsInjective(catalog.tables[h].referencedBy)
        /\ ToSet(catalog.tables[h].referencedBy) = references(h)
        /\ \A f \in DOMAIN catalog.tables[h].foreignKeys :
             catalog.tables[h].foreignKeys[f].parent \in Present(catalog)
  BY Zenon DEF ReferencedByAgrees, Tables
<1> HIDE DEF references
<1>3. \A h : ToSet(catalog.tables[h].referencedBy) = references(h) <=>
        \A x : x \in ToSet(catalog.tables[h].referencedBy) <=> x \in references(h)
  OBVIOUS
<1>4. QED
  BY <1>1, <1>2, <1>3 DEF Agrees, TableAgrees

(***************************************************************************)
(* Columns, and what is stored as syntax.                                  *)
(***************************************************************************)
HasColumn(t, name) == \E i \in DOMAIN t.columns : t.columns[i].name = name

\* The number of a column is that of one with the name.
LEMMA ColumnIndexIs ==
  ASSUME NEW t, IsSeq(t.columns), NEW name
  PROVE  /\ ColumnIndex(t, name) # 0 <=> HasColumn(t, name)
         /\ ColumnIndex(t, name) # 0 => /\ ColumnIndex(t, name) \in DOMAIN t.columns
                                        /\ t.columns[ColumnIndex(t, name)].name = name
<1> DEFINE I == {i \in 1..Len(t.columns) : t.columns[i].name = name}
           least == CHOOSE i \in I : \A j \in I : i <= j
<1>1. ColumnIndex(t, name) = IF I # {} THEN least ELSE 0
  BY Zenon DEF ColumnIndex, SelectInSeq, Min
<1>2. DOMAIN t.columns = 1..Len(t.columns) /\ Len(t.columns) \in Nat
  BY SeqIs
<1>3. I \in SUBSET Nat /\ I \subseteq DOMAIN t.columns /\ 0 \notin I
  BY <1>2
<1>4. I # {} <=> HasColumn(t, name)
  BY <1>2 DEF HasColumn
<1>5. \A i \in I : t.columns[i].name = name
  OBVIOUS
<1> HIDE DEF I
<1>6. I # {} => least \in I
  <2>1. I # {} => \E i \in I : \A j \in I : i <= j
    BY <1>3, LeastOf
  <2>2. QED
    BY <2>1, Zenon
<1> HIDE DEF least
<1>7. QED
  BY <1>1, <1>3, <1>4, <1>5, <1>6

\* A predicate binds if there is a column it names.
LEMMA BindsIs ==
  ASSUME NEW t, IsSeq(t.columns), NEW p
  PROVE  Binds(t, p) <=> p.rel = "none" \/ HasColumn(t, p.col)
BY ColumnIndexIs DEF Binds

\* What is stored in a table as syntax binds.
TableResolves(t) ==
  /\ \A i \in DOMAIN t.checks : Binds(t, t.checks[i])
  /\ \A x \in DOMAIN t.indexes : Binds(t, t.indexes[x].where)

Resolves(c) == \A h \in DOMAIN c.tables : TableResolves(c.tables[h])

\* It still does when there are other columns, if none it names is missing.
LEMMA ResolvesWithColumns ==
  ASSUME NEW t, NEW u, IsSeq(t.columns), IsSeq(u.columns), TableResolves(t),
         u.checks = t.checks, u.indexes = t.indexes,
         \A i \in DOMAIN t.checks : HasColumn(t, t.checks[i].col) => HasColumn(u, t.checks[i].col),
         \A x \in DOMAIN t.indexes :
           HasColumn(t, t.indexes[x].where.col) => HasColumn(u, t.indexes[x].where.col)
  PROVE  TableResolves(u)
<1>1. \A i \in DOMAIN t.checks : Binds(t, t.checks[i]) => Binds(u, t.checks[i])
  BY BindsIs
<1>2. \A x \in DOMAIN t.indexes : Binds(t, t.indexes[x].where) => Binds(u, t.indexes[x].where)
  BY BindsIs
<1>3. QED
  BY <1>1, <1>2 DEF TableResolves

\* What a schema statement is asked for: what was right of the catalog still is.
Preserves(c, d) ==
  CatalogShape(d) /\ (Agrees(c) => Agrees(d)) /\ (Resolves(c) => Resolves(d))

\* A change within one table does, if its references stay.
LEMMA OneTablePreserves ==
  ASSUME NEW c, CatalogShape(c), NEW h, NEW t,
         h \in DOMAIN c.tables =>
           /\ TableShape(t) /\ t.name = c.tables[h].name
           /\ t.foreignKeys = c.tables[h].foreignKeys /\ t.referencedBy = c.tables[h].referencedBy
           /\ TableResolves(c.tables[h]) => TableResolves(t),
         NEW d, d = [c EXCEPT !.tables = [c.tables EXCEPT ![h] = t]]
  PROVE  Preserves(c, d)
<1>1. /\ CatalogShape(d) /\ Present(d) = Present(c) /\ DOMAIN d.tables = DOMAIN c.tables
      /\ \A g \in DOMAIN c.tables : d.tables[g] = IF g = h THEN t ELSE c.tables[g]
  <2>1. Replaced(c, d, h, t)
    BY DEF Replaced
  <2>2. QED
    BY <2>1, TableChanged
<1>2. Alike(c, d)
  BY <1>1 DEF Alike
<1>3. Agrees(c) => Agrees(d)
  BY <1>2, AlikeAgrees
<1>4. Resolves(c) => Resolves(d)
  BY <1>1 DEF Resolves
<1>5. QED
  BY <1>1, <1>3, <1>4 DEF Preserves

\* One table in the place of another.
Stands(t, u) ==
  /\ TableShape(u) /\ u.name = t.name
  /\ u.foreignKeys = t.foreignKeys /\ u.referencedBy = t.referencedBy
  /\ TableResolves(t) => TableResolves(u)

\* Columns with the names there were.
LEMMA ColumnsStand ==
  ASSUME NEW t, TableShape(t), NEW columns,
         columns = [i \in DOMAIN t.columns |-> columns[i]],
         \A i \in DOMAIN t.columns : "name" \in DOMAIN columns[i] /\ columns[i].name = t.columns[i].name
  PROVE  Stands(t, [t EXCEPT !.columns = columns])
<1> DEFINE u == [t EXCEPT !.columns = columns]
<1>2. /\ u.columns = columns /\ DOMAIN u = Fields
      /\ u.name = t.name /\ u.checks = t.checks /\ u.indexes = t.indexes
      /\ u.foreignKeys = t.foreignKeys /\ u.referencedBy = t.referencedBy
  BY DEF TableShape, Fields
<1> HIDE DEF u
<1>4. IsSeq(columns) /\ DOMAIN columns = DOMAIN t.columns
  <2>1. DOMAIN t.columns = 1..Len(t.columns) /\ Len(t.columns) \in Nat
    BY SeqIs DEF TableShape
  <2>2. columns = [i \in 1..Len(t.columns) |-> columns[i]]
    BY <2>1
  <2>3. DOMAIN columns = 1..Len(t.columns)
    BY <2>2
  <2>4. QED
    BY <2>1, <2>2, <2>3, FunctionsAreSeqs
<1>5. TableShape(u)
  BY <1>2, <1>4 DEF TableShape
<1>6. \A name : HasColumn(t, name) => HasColumn(u, name)
  BY <1>2, <1>4 DEF HasColumn
<1>7. TableResolves(t) => TableResolves(u)
  BY <1>2, <1>4, <1>6, ResolvesWithColumns DEF TableShape
<1>8. QED
  BY <1>2, <1>5, <1>7 DEF Stands, u

\* Tables that stand for those there were.
LEMMA StandingPreserves ==
  ASSUME NEW c, CatalogShape(c), NEW tables,
         tables = [h \in DOMAIN c.tables |-> tables[h]],
         \A h \in DOMAIN c.tables : Stands(c.tables[h], tables[h]),
         NEW d, d = [c EXCEPT !.tables = tables]
  PROVE  Preserves(c, d)
<1>1. \A h \in DOMAIN c.tables : TableShape(tables[h]) /\ tables[h].name = c.tables[h].name
  BY DEF Stands
<1>2. CatalogShape(d) /\ d.tables = tables /\ Present(d) = Present(c)
  BY <1>1, TablesChanged DEF Retabled
<1>3. DOMAIN tables = DOMAIN c.tables
  OBVIOUS
<1>4. Alike(c, d)
  BY <1>2, <1>3 DEF Alike, Stands
<1>5. Agrees(c) => Agrees(d)
  BY <1>4, AlikeAgrees
<1>6. Resolves(c) => Resolves(d)
  BY <1>2, <1>3 DEF Resolves, Stands
<1>7. QED
  BY <1>2, <1>5, <1>6 DEF Preserves

\* ... and one of them.
LEMMA OneStandingPreserves ==
  ASSUME NEW c, CatalogShape(c), NEW h, NEW t, h \in DOMAIN c.tables => Stands(c.tables[h], t),
         NEW d, d = [c EXCEPT !.tables = [c.tables EXCEPT ![h] = t]]
  PROVE  Preserves(c, d)
BY OneTablePreserves DEF Stands

\* The numbers of its sequences are no matter of the others.
LEMMA RestoreStands ==
  ASSUME NEW t, TableShape(t), NEW rows
  PROVE  Stands(t, RestoreSequences(t, rows))
<1> DEFINE high(i) == {rows[r][i] : r \in {q \in DOMAIN rows : rows[q][i] # NULL}} \cup {0}
           next(i) == 1 + (CHOOSE m \in high(i) : \A v \in high(i) : v <= m)
           columns == [i \in DOMAIN t.columns |->
                         IF t.columns[i].ident = "none" THEN t.columns[i]
                         ELSE [t.columns[i] EXCEPT !.nextSerial = next(i)]]
<1>1. RestoreSequences(t, rows) = [t EXCEPT !.columns = columns]
  BY Zenon DEF RestoreSequences
<1> HIDE DEF next
<1>2. \A i \in DOMAIN t.columns : "name" \in DOMAIN columns[i] /\ columns[i].name = t.columns[i].name
  BY DEF TableShape
<1>3. columns = [i \in DOMAIN t.columns |-> columns[i]]
  OBVIOUS
<1> HIDE DEF columns
<1>4. QED
  BY <1>1, <1>2, <1>3, ColumnsStand

(***************************************************************************)
(* Schema statements.                                                      *)
(***************************************************************************)

\* A statement that changes nothing.
LEMMA NothingPreserves == ASSUME NEW c, CatalogShape(c) PROVE Preserves(c, c)
BY DEF Preserves

\* A table that is looked up is there.
LEMMA LookupIs ==
  ASSUME NEW c, CatalogShape(c), NEW n \in TableNames, Lookup(c, n) # NoTable
  PROVE  /\ Lookup(c, n) \in DOMAIN c.tables /\ TableShape(c.tables[Lookup(c, n)])
         /\ Lookup(c, n) \in Present(c) /\ c.tables[Lookup(c, n)].name = n
BY PresentIs DEF Lookup, CatalogShape

\* SET NOT NULL and DROP NOT NULL.
LEMMA SetNotNullPreserves ==
  ASSUME NEW c, CatalogShape(c), NEW s, s.table \in TableNames, NEW rows, NEW d \in SetNotNull(c, s, rows)
  PROVE  Preserves(c, d)
<1> DEFINE h == Lookup(c, s.table)
           t == c.tables[h]
           i == ColumnIndex(t, s.column)
           columns == [t.columns EXCEPT ![i] = [t.columns[i] EXCEPT !.notNull = s.notNull]]
           u == [t EXCEPT !.columns = columns]
<1>1. h # NoTable /\ (d = c \/ d = [c EXCEPT !.tables[h].columns[i].notNull = s.notNull])
  BY DEF SetNotNull
<1>2. [c EXCEPT !.tables[h].columns[i].notNull = s.notNull] = [c EXCEPT !.tables = [c.tables EXCEPT ![h] = u]]
  OBVIOUS
<1>3. TableShape(t)
  BY <1>1, LookupIs
<1>4. /\ columns = [j \in DOMAIN t.columns |-> columns[j]]
      /\ \A j \in DOMAIN t.columns : "name" \in DOMAIN columns[j] /\ columns[j].name = t.columns[j].name
  <2> HIDE DEF t, i
  <2>1. QED
    BY <1>3 DEF TableShape
<1>5. Stands(t, u)
  <2> HIDE DEF t, columns
  <2>1. QED
    BY <1>3, <1>4, ColumnsStand
<1> HIDE DEF u
<1>6. d = [c EXCEPT !.tables = [c.tables EXCEPT ![h] = u]] => Preserves(c, d)
  BY <1>5, OneStandingPreserves
<1>7. QED
  BY <1>1, <1>2, <1>6, NothingPreserves

\* RENAME COLUMN: no stored syntax names the column, or the statement fails.
LEMMA RenameColumnPreserves ==
  ASSUME NEW c, CatalogShape(c), NEW s, s.table \in TableNames, NEW d \in RenameColumn(c, s)
  PROVE  Preserves(c, d)
<1> DEFINE h == Lookup(c, s.table)
           t == c.tables[h]
           i == ColumnIndex(t, s.column)
           columns == [t.columns EXCEPT ![i] = [t.columns[i] EXCEPT !.name = s.to]]
           u == [t EXCEPT !.columns = columns]
<1>1. h # NoTable /\ i # 0
  BY DEF RenameColumn
<1>2. CASE d = c
  BY <1>2, NothingPreserves
<1>3. CASE d # c
  <2>1. ~dependsOnColumnName(t, s.column) /\ d = [c EXCEPT !.tables[h].columns[i].name = s.to]
    BY <1>1, <1>3 DEF RenameColumn
  <2>2. d = [c EXCEPT !.tables = [c.tables EXCEPT ![h] = u]]
    BY <2>1
  <2>3. TableShape(t)
    BY <1>1, LookupIs
  <2>4. i \in DOMAIN t.columns /\ t.columns[i].name = s.column
    <3> HIDE DEF t
    <3>1. QED
      BY <1>1, <2>3, ColumnIndexIs DEF TableShape
  <2> HIDE DEF i, t
  <2>5. /\ DOMAIN columns = DOMAIN t.columns /\ columns = [j \in DOMAIN t.columns |-> columns[j]]
        /\ \A j \in DOMAIN t.columns : "name" \in DOMAIN columns[j]
        /\ \A j \in DOMAIN t.columns : j # i => columns[j] = t.columns[j]
    BY <2>3 DEF TableShape
  <2>6. /\ u.columns = columns /\ DOMAIN u = Fields
        /\ u.name = t.name /\ u.checks = t.checks /\ u.indexes = t.indexes
        /\ u.foreignKeys = t.foreignKeys /\ u.referencedBy = t.referencedBy
    BY <2>3 DEF TableShape, Fields
  <2> HIDE DEF columns, u
  <2>7. IsSeq(columns)
    <3>1. DOMAIN t.columns = 1..Len(t.columns) /\ Len(t.columns) \in Nat
      BY <2>3, SeqIs DEF TableShape
    <3>2. QED
      BY <2>5, <3>1, FunctionsAreSeqs
  <2>8. TableShape(u)
    BY <2>3, <2>5, <2>6, <2>7 DEF TableShape
  <2>9. \A name : name # s.column => (HasColumn(t, name) => HasColumn(u, name))
    BY <2>4, <2>5, <2>6 DEF HasColumn
  <2>10. TableResolves(t) => TableResolves(u)
    <3>1. /\ \A k \in DOMAIN t.checks : t.checks[k].col # s.column
          /\ \A x \in DOMAIN t.indexes : t.indexes[x].where.col # s.column
      BY <2>1 DEF dependsOnColumnName
    <3>2. QED
      BY <2>3, <2>6, <2>7, <2>9, <3>1, ResolvesWithColumns DEF TableShape
  <2>11. Stands(t, u)
    BY <2>6, <2>8, <2>10 DEF Stands
  <2>12. QED
    BY <2>2, <2>11, OneStandingPreserves DEF t
<1>4. QED
  BY <1>2, <1>3

\* CREATE INDEX: the predicate has been bound.
LEMMA CreateIndexPreserves ==
  ASSUME NEW c, CatalogShape(c), NEW s, s.table \in TableNames, bindCreateIndex(c, s),
         NEW sound, NEW d \in CreateIndex(c, s, sound)
  PROVE  Preserves(c, d)
<1> DEFINE h == Lookup(c, s.table)
           t == c.tables[h]
           ix == [name |-> s.name, cols |-> columnOrdinals(t, s.cols), unique |-> s.unique,
                  where |-> s.where, sound |-> sound]
           u == [t EXCEPT !.indexes = Append(t.indexes, ix)]
<1>1. h # NoTable /\ Binds(t, s.where)
  BY DEF bindCreateIndex
<1>2. d = c \/ d = [c EXCEPT !.tables[h].indexes = Append(t.indexes, ix)]
  BY DEF CreateIndex
<1>3. [c EXCEPT !.tables[h].indexes = Append(t.indexes, ix)] = [c EXCEPT !.tables = [c.tables EXCEPT ![h] = u]]
  OBVIOUS
<1>4. TableShape(t)
  BY <1>1, LookupIs
<1>5. ix.where = s.where
  OBVIOUS
<1> HIDE DEF t, ix
<1>6. /\ u.indexes = Append(t.indexes, ix) /\ DOMAIN u = Fields
      /\ u.name = t.name /\ u.checks = t.checks /\ u.columns = t.columns
      /\ u.foreignKeys = t.foreignKeys /\ u.referencedBy = t.referencedBy
  BY <1>4 DEF TableShape, Fields
<1>7. /\ IsSeq(Append(t.indexes, ix))
      /\ \A x \in DOMAIN Append(t.indexes, ix) :
           \/ Append(t.indexes, ix)[x] = ix
           \/ (x \in DOMAIN t.indexes /\ Append(t.indexes, ix)[x] = t.indexes[x])
  <2>1. IsSeq(t.indexes)
    BY <1>4 DEF TableShape
  <2>2. QED
    BY <2>1, AppendIs, Zenon
<1> HIDE DEF u
<1>8. TableShape(u)
  BY <1>4, <1>6, <1>7 DEF TableShape
<1>9. \A p : Binds(t, p) => Binds(u, p)
  <2>1. \A name : HasColumn(t, name) => HasColumn(u, name)
    BY <1>6 DEF HasColumn
  <2>2. QED
    BY <2>1, <1>4, <1>8, BindsIs DEF TableShape
<1>10. TableResolves(t) => TableResolves(u)
  <2>1. TableResolves(t) => \A x \in DOMAIN u.indexes : Binds(u, u.indexes[x].where)
    BY <1>1, <1>5, <1>6, <1>7, <1>9 DEF TableResolves
  <2>2. QED
    BY <2>1, <1>6, <1>9 DEF TableResolves
<1>11. Stands(t, u)
  BY <1>6, <1>8, <1>10 DEF Stands
<1>12. d = [c EXCEPT !.tables = [c.tables EXCEPT ![h] = u]] => Preserves(c, d)
  BY <1>11, OneStandingPreserves DEF t
<1>13. QED
  BY <1>2, <1>3, <1>12, NothingPreserves

\* DROP INDEX.
LEMMA DropIndexPreserves ==
  ASSUME NEW c, CatalogShape(c), NEW s, NEW d \in DropIndex(c, s)
  PROVE  Preserves(c, d)
<1> DEFINE having == {h \in Present(c) : s.name \in IndexNames(c, h)}
           left(h) == Only(c.tables[h].indexes, {x \in ToSet(c.tables[h].indexes) : x.name # s.name})
<1>1. d = c \/ \E h \in having : d = [c EXCEPT !.tables[h].indexes = left(h)]
  BY DEF DropIndex
<1>2. SUFFICES ASSUME NEW h \in having, d = [c EXCEPT !.tables[h].indexes = left(h)]
               PROVE  Preserves(c, d)
  BY <1>1, NothingPreserves
<1> DEFINE t == c.tables[h]
           u == [t EXCEPT !.indexes = left(h)]
<1>3. d = [c EXCEPT !.tables = [c.tables EXCEPT ![h] = u]]
  BY <1>2
<1>4. TableShape(t)
  BY <1>2 DEF Present, CatalogShape
<1>5. IsSeq(left(h)) /\ ToSet(left(h)) \subseteq ToSet(t.indexes)
  BY <1>4, OnlyKeeps DEF TableShape
<1> HIDE DEF left, t
<1>6. /\ u.indexes = left(h) /\ DOMAIN u = Fields
      /\ u.name = t.name /\ u.checks = t.checks /\ u.columns = t.columns
      /\ u.foreignKeys = t.foreignKeys /\ u.referencedBy = t.referencedBy
  BY <1>4 DEF TableShape, Fields
<1> HIDE DEF u
<1>7. TableShape(u)
  BY <1>4, <1>5, <1>6 DEF TableShape
<1>8. \A p : Binds(t, p) => Binds(u, p)
  <2>1. \A name : HasColumn(t, name) => HasColumn(u, name)
    BY <1>6 DEF HasColumn
  <2>2. QED
    BY <2>1, <1>4, <1>7, BindsIs DEF TableShape
<1>9. TableResolves(t) => TableResolves(u)
  <2>1. \A x \in DOMAIN u.indexes : \E y \in DOMAIN t.indexes : u.indexes[x] = t.indexes[y]
    BY <1>4, <1>5, <1>6, SeqIs DEF TableShape
  <2>2. TableResolves(t) => \A x \in DOMAIN u.indexes : Binds(u, u.indexes[x].where)
    BY <2>1, <1>8 DEF TableResolves
  <2>3. QED
    BY <2>2, <1>6, <1>8 DEF TableResolves
<1>10. Stands(t, u)
  BY <1>6, <1>7, <1>9 DEF Stands
<1>11. QED
  BY <1>3, <1>10, OneStandingPreserves DEF t

\* RENAME TABLE: the name goes from one entry to another.
LEMMA RenameTablePreserves ==
  ASSUME NEW c, CatalogShape(c), NEW s, s.table \in TableNames, s.to \in TableNames,
         NEW d \in RenameTable(c, s)
  PROVE  Preserves(c, d)
<1> DEFINE h == Lookup(c, s.table)
           t == c.tables[h]
           u == [t EXCEPT !.name = s.to]
<1>1. CASE d = c
  BY <1>1, NothingPreserves
<1>2. CASE d # c
  <2>1. /\ h # NoTable /\ s.to # s.table /\ Lookup(c, s.to) = NoTable
        /\ d = [names  |-> [c.names EXCEPT ![s.table] = NoTable, ![s.to] = h],
                tables |-> [c.tables EXCEPT ![h].name = s.to]]
    BY <1>2 DEF RenameTable
  <2>2. h \in DOMAIN c.tables /\ TableShape(t) /\ c.names[s.table] = h /\ c.names[s.to] = NoTable
    BY <2>1, LookupIs DEF Lookup
  <2>3. d.tables = [c.tables EXCEPT ![h] = u]
    BY <2>1
  <2> HIDE DEF h, t
  <2>4. /\ u.indexes = t.indexes /\ DOMAIN u = Fields
        /\ u.name = s.to /\ u.checks = t.checks /\ u.columns = t.columns
        /\ u.foreignKeys = t.foreignKeys /\ u.referencedBy = t.referencedBy
    BY <2>2 DEF TableShape, Fields
  <2> HIDE DEF u
  <2>5. TableShape(u)
    BY <2>2, <2>4 DEF TableShape
  <2>6. TableResolves(t) => TableResolves(u)
    <3>1. \A name : HasColumn(t, name) => HasColumn(u, name)
      BY <2>4 DEF HasColumn
    <3>2. QED
      BY <2>2, <2>4, <2>5, <3>1, ResolvesWithColumns DEF TableShape
  <2>7. /\ DOMAIN d.names = TableNames /\ d.names[s.to] = h /\ d.names[s.table] = NoTable
        /\ \A n \in TableNames : n \notin {s.to, s.table} => d.names[n] = c.names[n]
    BY <2>1 DEF CatalogShape
  <2>8. DOMAIN d = {"names", "tables"}
    BY <2>1
  <2>9. /\ DOMAIN d.tables = DOMAIN c.tables
        /\ \A g \in DOMAIN c.tables : d.tables[g] = IF g = h THEN u ELSE c.tables[g]
    BY <2>3
  <2>10. IsSeq(d.tables)
    <3>1. DOMAIN c.tables = 1..Len(c.tables) /\ Len(c.tables) \in Nat
      BY SeqIs DEF CatalogShape
    <3>2. d.tables = [g \in DOMAIN c.tables |-> d.tables[g]]
      BY <2>3
    <3>3. QED
      BY <3>1, <3>2, FunctionsAreSeqs
  <2>11. \A n \in TableNames : c.names[n] = h => n = s.table
    BY <2>1, <2>2, PresentIs DEF CatalogShape
  <2>12. CatalogShape(d)
    <3>1. \A g \in DOMAIN d.tables : TableShape(d.tables[g])
      BY <2>5, <2>9 DEF CatalogShape
    <3>2. ASSUME NEW n \in TableNames, d.names[n] # NoTable
          PROVE  d.names[n] \in DOMAIN d.tables /\ d.tables[d.names[n]].name = n
      <4>1. CASE n = s.to
        BY <4>1, <2>2, <2>4, <2>7, <2>9
      <4>2. CASE n # s.to
        <5>1. n # s.table /\ d.names[n] = c.names[n] /\ c.names[n] # h
          BY <3>2, <4>2, <2>7, <2>11
        <5>2. QED
          BY <3>2, <5>1, <2>9 DEF CatalogShape
      <4>3. QED
        BY <4>1, <4>2
    <3>3. QED
      BY <2>7, <2>8, <2>10, <3>1, <3>2 DEF CatalogShape
  <2>13. Present(d) = Present(c)
    <3>1. \A g : g \in Present(d) => g \in Present(c)
      <4> SUFFICES ASSUME NEW g \in Present(d) PROVE g \in Present(c)
        OBVIOUS
      <4>1. PICK n \in TableNames : d.names[n] = g /\ g # NoTable
        BY <2>12, PresentIs
      <4>2. \E m \in TableNames : c.names[m] = g
        BY <4>1, <2>2, <2>7
      <4>3. QED
        BY <4>1, <4>2, PresentIs
    <3>2. \A g : g \in Present(c) => g \in Present(d)
      <4> SUFFICES ASSUME NEW g \in Present(c) PROVE g \in Present(d)
        OBVIOUS
      <4>1. PICK n \in TableNames : c.names[n] = g /\ g # NoTable
        BY PresentIs
      <4>2. \E m \in TableNames : d.names[m] = g
        BY <4>1, <2>2, <2>7
      <4>3. QED
        BY <4>1, <4>2, <2>12, PresentIs
    <3>3. QED
      BY <3>1, <3>2
  <2>14. Alike(c, d)
    BY <2>4, <2>9, <2>13 DEF Alike, t
  <2>15. Agrees(c) => Agrees(d)
    BY <2>14, AlikeAgrees
  <2>16. Resolves(c) => Resolves(d)
    BY <2>6, <2>9 DEF Resolves, t
  <2>17. QED
    BY <2>12, <2>15, <2>16 DEF Preserves
<1>3. QED
  BY <1>1, <1>2

\* DROP TABLE.
LEMMA DropTablePreserves ==
  ASSUME NEW c, CatalogShape(c), Agrees(c), NEW s, s.tables \subseteq TableNames, NEW d \in DropTable(c, s)
  PROVE  Preserves(c, d)
<1> DEFINE going == {Lookup(c, n) : n \in s.tables} \ {NoTable}
           stays(g) == {r \in ToSet(c.tables[g].referencedBy) :
                          r.child \notin going \/ g \notin Parents(c.tables, r.child) \ {r.child}}
           left(g) == Only(c.tables[g].referencedBy, stays(g))
           u(g) == [c.tables[g] EXCEPT !.referencedBy = left(g)]
<1>1. /\ \A h \in going : \A r \in ToSet(c.tables[h].referencedBy) : Lookup(c, c.tables[r.child].name) \in going
      /\ d = [names  |-> [n \in TableNames |-> IF n \in s.tables THEN NoTable ELSE c.names[n]],
              tables |-> detach(c.tables, going)]
  BY Zenon DEF DropTable
<1>2. detach(c.tables, going) = [g \in DOMAIN c.tables |-> u(g)]
  BY Zenon DEF detach
<1>3. \A h : h \in going <=> h # NoTable /\ \E n \in s.tables : c.names[n] = h
  BY DEF Lookup
<1>4. \A g : \A r : r \in stays(g) <=>
        /\ r \in ToSet(c.tables[g].referencedBy)
        /\ r.child \notin going \/ g = r.child \/ g \notin Parents(c.tables, r.child)
  OBVIOUS
<1> HIDE DEF going, stays
<1>5. \A g \in DOMAIN c.tables : /\ TableShape(c.tables[g])
                                 /\ IsSeq(left(g)) /\ ToSet(left(g)) = ToSet(c.tables[g].referencedBy) \cap stays(g)
                                 /\ IsInjective(c.tables[g].referencedBy) => IsInjective(left(g))
  BY OnlyKeeps DEF CatalogShape, TableShape
<1> HIDE DEF left
<1>6. \A g \in DOMAIN c.tables :
        /\ u(g).indexes = c.tables[g].indexes /\ DOMAIN u(g) = Fields /\ u(g).name = c.tables[g].name
        /\ u(g).checks = c.tables[g].checks /\ u(g).columns = c.tables[g].columns
        /\ u(g).foreignKeys = c.tables[g].foreignKeys /\ u(g).referencedBy = left(g)
  BY <1>5 DEF TableShape, Fields
<1> HIDE DEF u
<1>7. \A g \in DOMAIN c.tables : TableShape(u(g))
  BY <1>5, <1>6 DEF TableShape
<1>8. \A g \in DOMAIN c.tables : TableResolves(c.tables[g]) => TableResolves(u(g))
  <2> SUFFICES ASSUME NEW g \in DOMAIN c.tables, TableResolves(c.tables[g]) PROVE TableResolves(u(g))
    OBVIOUS
  <2>1. \A name : HasColumn(c.tables[g], name) => HasColumn(u(g), name)
    BY <1>6 DEF HasColumn
  <2>2. QED
    BY <2>1, <1>5, <1>6, <1>7, ResolvesWithColumns DEF TableShape
<1>9. /\ DOMAIN d = {"names", "tables"} /\ DOMAIN d.names = TableNames
      /\ \A n \in TableNames : d.names[n] = IF n \in s.tables THEN NoTable ELSE c.names[n]
      /\ d.tables = [g \in DOMAIN c.tables |-> u(g)]
  BY <1>1, <1>2
<1>10. DOMAIN d.tables = DOMAIN c.tables /\ \A g \in DOMAIN c.tables : d.tables[g] = u(g)
  BY <1>9
<1>11. CatalogShape(d)
  <2>1. DOMAIN c.tables = 1..Len(c.tables) /\ Len(c.tables) \in Nat
    BY SeqIs DEF CatalogShape
  <2>2. d.tables = [g \in 1..Len(c.tables) |-> d.tables[g]]
    BY <1>9, <2>1
  <2>3. IsSeq(d.tables)
    BY <2>1, <2>2, FunctionsAreSeqs
  <2>4. QED
    BY <1>6, <1>7, <1>9, <1>10, <2>3 DEF CatalogShape
<1>12. \A g : g \in Present(d) <=> g \in Present(c) /\ g \notin going
  <2>1. \A m, n \in TableNames : c.names[m] = c.names[n] /\ c.names[m] # NoTable => m = n
    BY DEF CatalogShape
  <2>2. QED
    BY <1>3, <1>9, <1>11, <2>1, PresentIs
<1>13. Resolves(c) => Resolves(d)
  BY <1>8, <1>10 DEF Resolves
<1>14. ASSUME NEW g \in Present(c)
       PROVE  /\ g \in DOMAIN c.tables /\ d.tables[g].referencedBy = left(g)
              /\ d.tables[g].foreignKeys = c.tables[g].foreignKeys
  BY <1>6, <1>10, PresentIs
<1>15. \A g, f, h : g \in Present(c) => (Refers(c, g, f, h) <=> Refers(d, g, f, h))
  BY <1>14 DEF Refers
<1>16. ASSUME NEW h \in Present(d)
       PROVE  TableAgrees(d, h)
  <2>1. h \in Present(c) /\ h \notin going /\ TableAgrees(c, h)
    BY <1>12 DEF Agrees
  <2>2. IsInjective(d.tables[h].referencedBy)
    BY <1>5, <1>14, <2>1 DEF TableAgrees
  <2>3. \A x : x \in ToSet(d.tables[h].referencedBy) <=>
                 \E g \in Present(d) : \E f : Refers(d, g, f, h) /\ x = Referring(g, f)
    <3>1. \A g, f : Refers(c, g, f, h) => h \in Parents(c.tables, g)
      BY DEF Refers, Parents
    <3>2. \A g, f : Referring(g, f).child = g
      BY DEF Referring
    <3>3. \A g \in Present(c) : \A f : Refers(c, g, f, h) => (Referring(g, f) \in stays(h) <=> g \notin going)
      BY <1>4, <2>1, <3>1, <3>2 DEF TableAgrees
    <3>4. \A x : x \in ToSet(left(h)) <=> x \in ToSet(c.tables[h].referencedBy) /\ x \in stays(h)
      BY <1>5, <1>14, <2>1
    <3>5. \A x : x \in ToSet(left(h)) <=>
                   \E g \in Present(c) : \E f : Refers(c, g, f, h) /\ x = Referring(g, f) /\ g \notin going
      BY <2>1, <3>3, <3>4 DEF TableAgrees
    <3>6. QED
      BY <1>12, <1>14, <1>15, <2>1, <3>5
  <2>4. ASSUME NEW f \in DOMAIN d.tables[h].foreignKeys
        PROVE  d.tables[h].foreignKeys[f].parent \in Present(d)
    <3> DEFINE p == c.tables[h].foreignKeys[f].parent
    <3>1. f \in DOMAIN c.tables[h].foreignKeys /\ d.tables[h].foreignKeys[f].parent = p
      BY <1>14, <2>1
    <3>2. p \in Present(c)
      BY <2>1, <3>1 DEF TableAgrees
    <3> HIDE DEF p
    <3>3. Refers(c, h, f, p)
      BY <3>1 DEF Refers, p
    <3>4. Referring(h, f) \in ToSet(c.tables[p].referencedBy)
      BY <2>1, <3>2, <3>3 DEF Agrees, TableAgrees
    <3>5. Lookup(c, c.tables[Referring(h, f).child].name) = h
      BY <2>1, PresentIs DEF Lookup, Referring
    <3>6. p \notin going
      BY <1>1, <2>1, <3>4, <3>5
    <3>7. QED
      BY <1>12, <3>1, <3>2, <3>6
  <2>5. QED
    BY <2>2, <2>3, <2>4 DEF TableAgrees
<1>17. QED
  BY <1>11, <1>13, <1>16 DEF Preserves, Agrees

\* What a table has in a catalog, nothing if it is not there.
RefsTo(c, g) == IF g \in Present(c) THEN c.tables[g].referencedBy ELSE <<>>
KeysOf(c, g) == IF g \in Present(c) THEN c.tables[g].foreignKeys ELSE <<>>

\* Table h has gained the foreign keys N, which the tables they refer to have
\* added to their lists.
Registers(c, d, h, N, added) ==
  /\ Present(d) = Present(c) \cup {h}
  /\ \A g \in Present(d) \ {h} : d.tables[g].foreignKeys = c.tables[g].foreignKeys
  /\ DOMAIN d.tables[h].foreignKeys = DOMAIN KeysOf(c, h) \cup N
  /\ N \cap DOMAIN KeysOf(c, h) = {}
  /\ \A f \in DOMAIN KeysOf(c, h) : d.tables[h].foreignKeys[f] = KeysOf(c, h)[f]
  /\ \A f \in N : d.tables[h].foreignKeys[f].parent \in Present(d)
  /\ \A g \in Present(d) :
       /\ d.tables[g].referencedBy = RefsTo(c, g) \o added[g]
       /\ IsSeq(added[g]) /\ IsInjective(added[g])
       /\ \A x : x \in ToSet(added[g]) <=>
                   \E f \in N : d.tables[h].foreignKeys[f].parent = g /\ x = Referring(h, f)

\* The references agree again.
LEMMA ReferencesAdded ==
  ASSUME NEW c, CatalogShape(c), Agrees(c), NEW d, NEW h, NEW N, NEW added, Registers(c, d, h, N, added)
  PROVE  Agrees(d)
<1>1. /\ Present(d) = Present(c) \cup {h}
      /\ \A g \in Present(d) \ {h} : d.tables[g].foreignKeys = c.tables[g].foreignKeys
      /\ DOMAIN d.tables[h].foreignKeys = DOMAIN KeysOf(c, h) \cup N
      /\ N \cap DOMAIN KeysOf(c, h) = {}
      /\ \A f \in DOMAIN KeysOf(c, h) : d.tables[h].foreignKeys[f] = KeysOf(c, h)[f]
      /\ \A f \in N : d.tables[h].foreignKeys[f].parent \in Present(d)
      /\ \A g \in Present(d) :
           /\ d.tables[g].referencedBy = RefsTo(c, g) \o added[g]
           /\ IsSeq(added[g]) /\ IsInjective(added[g])
           /\ \A x : x \in ToSet(added[g]) <=>
                       \E f \in N : d.tables[h].foreignKeys[f].parent = g /\ x = Referring(h, f)
  BY DEF Registers
<1> USE <1>1
<1>2. \A g : /\ IsSeq(RefsTo(c, g)) /\ IsInjective(RefsTo(c, g))
             /\ \A x : x \in ToSet(RefsTo(c, g)) <=>
                         \E k \in Present(c) : \E f : Refers(c, k, f, g) /\ x = Referring(k, f)
  <2> SUFFICES ASSUME NEW g
               PROVE  /\ IsSeq(RefsTo(c, g)) /\ IsInjective(RefsTo(c, g))
                      /\ \A x : x \in ToSet(RefsTo(c, g)) <=>
                                  \E k \in Present(c) : \E f : Refers(c, k, f, g) /\ x = Referring(k, f)
    OBVIOUS
  <2>1. CASE g \in Present(c)
    <3>1. RefsTo(c, g) = c.tables[g].referencedBy /\ TableShape(c.tables[g]) /\ TableAgrees(c, g)
      BY <2>1, PresentIs DEF RefsTo, Agrees, CatalogShape
    <3>2. QED
      BY <3>1 DEF TableShape, TableAgrees
  <2>2. CASE g \notin Present(c)
    <3>1. \A k \in Present(c) : \A f : ~Refers(c, k, f, g)
      BY <2>2 DEF Agrees, TableAgrees, Refers
    <3>2. RefsTo(c, g) = <<>>
      BY <2>2 DEF RefsTo
    <3>3. QED
      BY <3>1, <3>2, SmallSeqs
  <2>3. QED
    BY <2>1, <2>2
<1>3. \A g, f : g \in Present(c) /\ g # h => \A k : Refers(d, g, f, k) <=> Refers(c, g, f, k)
  BY DEF Refers
<1>4. \A f, k : Refers(d, h, f, k) <=> \/ h \in Present(c) /\ Refers(c, h, f, k)
                                       \/ f \in N /\ d.tables[h].foreignKeys[f].parent = k
  <2>1. CASE h \in Present(c)
    BY <2>1 DEF Refers, KeysOf
  <2>2. CASE h \notin Present(c)
    <3>1. DOMAIN KeysOf(c, h) = {}
      BY <2>2 DEF KeysOf
    <3>2. QED
      BY <2>2, <3>1 DEF Refers
  <2>3. QED
    BY <2>1, <2>2
<1>5. ASSUME NEW g \in Present(d)
      PROVE  TableAgrees(d, g)
  <2>1. ToSet(RefsTo(c, g)) \cap ToSet(added[g]) = {}
    <3> SUFFICES ASSUME NEW x \in ToSet(RefsTo(c, g)), x \in ToSet(added[g]) PROVE FALSE
      OBVIOUS
    <3>1. PICK f \in N : x = Referring(h, f)
      OBVIOUS
    <3>2. PICK k \in Present(c) : \E e : Refers(c, k, e, g) /\ x = Referring(k, e)
      BY <1>2
    <3>3. PICK e : Refers(c, k, e, g) /\ x = Referring(k, e)
      BY <3>2
    <3>4. k = h /\ e = f
      <4>1. Referring(h, f) = Referring(k, e)
        BY <3>1, <3>3
      <4>2. QED
        BY <4>1 DEF Referring
    <3>5. f \in DOMAIN KeysOf(c, h)
      BY <3>3, <3>4 DEF Refers, KeysOf
    <3>6. QED
      BY <3>1, <3>5
  <2>2. IsInjective(d.tables[g].referencedBy)
    <3>1. IsInjective(RefsTo(c, g) \o added[g])
      BY <1>2, <2>1, ConcatInjective
    <3>2. QED
      BY <3>1
  <2>3. \A x : x \in ToSet(d.tables[g].referencedBy) <=> x \in ToSet(RefsTo(c, g)) \/ x \in ToSet(added[g])
    <3>1. ToSet(RefsTo(c, g) \o added[g]) = ToSet(RefsTo(c, g)) \cup ToSet(added[g])
      BY <1>2, ConcatIs
    <3>2. QED
      BY <3>1
  <2>4. \A x : x \in ToSet(added[g]) <=>
                 \E f \in N : d.tables[h].foreignKeys[f].parent = g /\ x = Referring(h, f)
    OBVIOUS
  <2>5. \A x : x \in ToSet(d.tables[g].referencedBy) <=>
                 \E k \in Present(d) : \E f : Refers(d, k, f, g) /\ x = Referring(k, f)
    <3> SUFFICES ASSUME NEW x
                 PROVE  x \in ToSet(d.tables[g].referencedBy) <=>
                          \E k \in Present(d) : \E f : Refers(d, k, f, g) /\ x = Referring(k, f)
      OBVIOUS
    <3>1. ASSUME x \in ToSet(RefsTo(c, g))
          PROVE  \E k \in Present(d) : \E f : Refers(d, k, f, g) /\ x = Referring(k, f)
      <4>1. PICK k \in Present(c) : \E f : Refers(c, k, f, g) /\ x = Referring(k, f)
        BY <1>2, <3>1
      <4>2. PICK f : Refers(c, k, f, g) /\ x = Referring(k, f)
        BY <4>1
      <4>3. Refers(d, k, f, g)
        BY <1>3, <1>4, <4>2
      <4>4. QED
        BY <4>2, <4>3
    <3>2. ASSUME x \in ToSet(added[g])
          PROVE  \E k \in Present(d) : \E f : Refers(d, k, f, g) /\ x = Referring(k, f)
      BY <1>4, <2>4, <3>2
    <3>3. ASSUME NEW k \in Present(d), NEW f, Refers(d, k, f, g), x = Referring(k, f)
          PROVE  x \in ToSet(RefsTo(c, g)) \/ x \in ToSet(added[g])
      <4>1. CASE k # h
        BY <1>2, <1>3, <3>3, <4>1
      <4>2. CASE k = h
        BY <1>2, <1>4, <2>4, <3>3, <4>2
      <4>3. QED
        BY <4>1, <4>2
    <3>4. x \in ToSet(d.tables[g].referencedBy) =>
            \E k \in Present(d) : \E f : Refers(d, k, f, g) /\ x = Referring(k, f)
      BY <2>3, <3>1, <3>2, Zenon
    <3>5. (\E k \in Present(d) : \E f : Refers(d, k, f, g) /\ x = Referring(k, f))
            => x \in ToSet(d.tables[g].referencedBy)
      BY <2>3, <3>3, Zenon
    <3>6. QED
      BY <3>4, <3>5, Zenon
  <2>6. ASSUME NEW f \in DOMAIN d.tables[g].foreignKeys
        PROVE  d.tables[g].foreignKeys[f].parent \in Present(d)
    <3>1. Refers(d, g, f, d.tables[g].foreignKeys[f].parent)
      BY <2>6 DEF Refers
    <3>2. CASE g = h /\ f \in N
      BY <3>2
    <3>3. CASE g = h /\ f \notin N
      <4>1. h \in Present(c) /\ Refers(c, h, f, d.tables[g].foreignKeys[f].parent)
        BY <1>4, <3>1, <3>3
      <4>2. QED
        BY <4>1 DEF Agrees, TableAgrees, Refers
    <3>4. CASE g # h
      <4>1. g \in Present(c) /\ Refers(c, g, f, d.tables[g].foreignKeys[f].parent)
        BY <1>3, <3>1, <3>4
      <4>2. QED
        BY <4>1 DEF Agrees, TableAgrees, Refers
    <3>5. QED
      BY <3>2, <3>3, <3>4
  <2>7. QED
    BY <2>2, <2>5, <2>6 DEF TableAgrees
<1>6. QED
  BY <1>5 DEF Agrees

\* A reference that is resolved is to a table that is there, or to its own.
LEMMA ResolvedParent ==
  ASSUME NEW c, CatalogShape(c), NEW h, NEW t, NEW r, r.parent \in TableNames, NEW cols,
         NEW f \in resolveForeignKey(c, h, t, r, cols)
  PROVE  f.parent \in Present(c) \cup {h}
<1> DEFINE parent == IF r.parent = t.name THEN h ELSE Lookup(c, r.parent)
<1>1. parent # NoTable /\ f.parent = parent
  <2>1. parent # NoTable
    BY DEF resolveForeignKey
  <2>2. f.parent = parent
    BY DEF resolveForeignKey
  <2>3. QED
    BY <2>1, <2>2
<1>2. QED
  BY <1>1, PresentIs DEF Lookup

\* A list is a sequence.
LEMMA ListsAreSeqs == ASSUME NEW q, IsList(q) PROVE IsSeq(q)
BY FunctionsAreSeqs DEF IsList

\* What a CREATE TABLE is made of.
Creation(s) ==
  /\ IsList(s.columns) /\ IsList(s.checks) /\ IsList(s.refs) /\ s.table \in TableNames
  /\ \A i \in DOMAIN s.refs : s.refs[i].parent \in TableNames

\* What CREATE TABLE binds to is a table, whose CHECKs bind and whose references
\* are to tables that are there, or to itself.
LEMMA BoundTable ==
  ASSUME NEW c, CatalogShape(c), NEW s, Creation(s),
         NEW t \in bindCreateTable(c, s)
  PROVE  /\ TableShape(t) /\ t.name = s.table /\ s.table \in TableNames /\ t.referencedBy = <<>>
         /\ TableResolves(t)
         /\ \A i \in DOMAIN t.foreignKeys : t.foreignKeys[i].parent \in Present(c) \cup {Len(c.tables) + 1}
<1> DEFINE h == Len(c.tables) + 1
           b == bareTable(s)
           own(i) == columnOrdinals(b, s.refs[i].cols)
           fk(i) == resolveForeignKey(c, h, b, s.refs[i], own(i))
           chosen(i) == CHOOSE f \in fk(i) : TRUE
           keys == [i \in DOMAIN s.refs |-> chosen(i)]
<1>1. /\ t = [b EXCEPT !.foreignKeys = keys]
      /\ \A i \in DOMAIN s.refs : fk(i) # {}
      /\ \A i \in DOMAIN s.checks : Binds(b, s.checks[i])
  BY Zenon DEF bindCreateTable
<1>2. \A i \in DOMAIN s.refs : chosen(i) \in fk(i)
  BY <1>1, Zenon
<1>3. /\ IsList(s.columns) /\ IsList(s.checks) /\ IsList(s.refs) /\ s.table \in TableNames
      /\ \A i \in DOMAIN s.refs : s.refs[i].parent \in TableNames
  BY DEF Creation
<1>4. \A i \in DOMAIN s.refs : chosen(i).parent \in Present(c) \cup {h}
  <2> HIDE DEF chosen
  <2>1. QED
    BY <1>2, <1>3, ResolvedParent
<1> DEFINE cols == applyKeys(s.columns, s.keys)
<1>5. /\ DOMAIN cols = DOMAIN s.columns /\ cols = [i \in DOMAIN s.columns |-> cols[i]]
      /\ \A i \in DOMAIN s.columns : "name" \in DOMAIN cols[i]
  BY DEF applyKeys
<1> HIDE DEF cols
<1>6. /\ DOMAIN b = Fields /\ b.name = s.table /\ b.columns = cols /\ b.checks = s.checks
      /\ b.indexes = <<>> /\ b.referencedBy = <<>>
  BY DEF bareTable, Fields, cols
<1> HIDE DEF b, chosen
<1>7. IsSeq(cols)
  <2>1. DOMAIN s.columns = 1..Len(s.columns) /\ Len(s.columns) \in Nat
    BY <1>3 DEF IsList
  <2>2. QED
    BY <1>5, <2>1, FunctionsAreSeqs
<1>8. IsSeq(keys) /\ DOMAIN keys = DOMAIN s.refs
  <2>1. DOMAIN s.refs = 1..Len(s.refs) /\ Len(s.refs) \in Nat
    BY <1>3 DEF IsList
  <2>2. keys = [i \in 1..Len(s.refs) |-> keys[i]]
    BY <2>1
  <2>3. IsSeq(keys)
    BY <2>1, <2>2, FunctionsAreSeqs
  <2>4. QED
    BY <2>3
<1>9. \A i \in DOMAIN keys : keys[i].parent \in Present(c) \cup {h}
  BY <1>4
<1> HIDE DEF keys
<1>10. /\ DOMAIN t = Fields /\ t.name = s.table /\ t.columns = cols /\ t.checks = s.checks
       /\ t.indexes = <<>> /\ t.referencedBy = <<>> /\ t.foreignKeys = keys
  BY <1>1, <1>6 DEF Fields
<1>11. IsSeq(s.checks) /\ IsSeq(<<>>) /\ DOMAIN <<>> = {}
  <2>1. IsSeq(s.checks)
    BY <1>3, ListsAreSeqs
  <2>2. QED
    BY <2>1, SmallSeqs, Zenon
<1>12. TableShape(t)
  BY <1>5, <1>7, <1>8, <1>10, <1>11 DEF TableShape
<1>13. \A p : Binds(b, p) => Binds(t, p)
  <2>1. IsSeq(b.columns) /\ IsSeq(t.columns) /\ \A name : HasColumn(b, name) => HasColumn(t, name)
    BY <1>6, <1>7, <1>10 DEF HasColumn
  <2>2. QED
    BY <2>1, BindsIs
<1>14. TableResolves(t)
  BY <1>1, <1>10, <1>11, <1>13 DEF TableResolves
<1>15. QED
  BY <1>3, <1>9, <1>10, <1>12, <1>14

\* CREATE TABLE.
LEMMA CreateTablePreserves ==
  ASSUME NEW c, CatalogShape(c), NEW s, Creation(s), NEW d \in CreateTable(c, s)
  PROVE  Preserves(c, d)
<1> DEFINE h == Len(c.tables) + 1
<1>0. /\ Len(c.tables) \in Nat /\ DOMAIN c.tables = 1..Len(c.tables)
      /\ h \in Nat /\ h # 0 /\ h \notin DOMAIN c.tables /\ DOMAIN c.tables \subseteq 1..h
      /\ \A g \in 1..h : g = h \/ g \in DOMAIN c.tables
  <2>1. Len(c.tables) \in Nat /\ DOMAIN c.tables = 1..Len(c.tables)
    BY SeqIs DEF CatalogShape
  <2>2. \A g \in 1..h : g = h \/ g \in 1..Len(c.tables)
    BY <2>1
  <2>3. h \in Nat /\ h # 0 /\ h \notin 1..Len(c.tables) /\ 1..Len(c.tables) \subseteq 1..h
    BY <2>1
  <2>4. QED
    BY <2>1, <2>2, <2>3
<1>1. CASE d = c
  BY <1>1, NothingPreserves
<1>2. CASE d # c
  <2>1. PICK t \in bindCreateTable(c, s) :
          /\ Lookup(c, s.table) = NoTable
          /\ d = [names  |-> [c.names EXCEPT ![s.table] = h],
                  tables |-> AddReferencing(Append(c.tables, t), h)]
    BY <1>2, Zenon DEF CreateTable
  <2>2. /\ TableShape(t) /\ t.name = s.table /\ s.table \in TableNames /\ t.referencedBy = <<>>
        /\ TableResolves(t)
        /\ \A i \in DOMAIN t.foreignKeys : t.foreignKeys[i].parent \in Present(c) \cup {h}
    BY BoundTable
  <2> DEFINE more == Append(c.tables, t)
  <2>4. DOMAIN more = 1..h /\ more[h] = t /\ \A g \in DOMAIN c.tables : more[g] = c.tables[g]
    <3>1. IsSeq(c.tables)
      BY DEF CatalogShape
    <3>2. DOMAIN more = 1..(Len(c.tables) + 1)
      BY <3>1, AppendIs
    <3>3. more[Len(c.tables) + 1] = t
      BY <3>1, AppendIs
    <3>4. \A g \in DOMAIN c.tables : more[g] = c.tables[g]
      BY <3>1, AppendIs
    <3> HIDE DEF more
    <3>5. QED
      BY <3>2, <3>3, <3>4
  <2> HIDE DEF more, h
  <2> DEFINE refs == ReferencesOf(more, h)
             to(g) == {r \in ToSet(refs) : more[h].foreignKeys[r.fk].parent = g}
             added == [g \in DOMAIN more |-> Only(refs, to(g))]
             u(g) == [more[g] EXCEPT !.referencedBy = more[g].referencedBy \o Only(refs, to(g))]
  <2>3. AddReferencing(more, h) = [g \in DOMAIN more |-> u(g)]
    BY Zenon DEF AddReferencing
  <2> HIDE DEF u, added
  <2>5. \A g \in DOMAIN more : TableShape(more[g])
    BY <1>0, <2>2, <2>4 DEF CatalogShape
  <2> HIDE DEF to
  <2>6. /\ IsSeq(refs) /\ IsInjective(refs)
        /\ \A x : x \in ToSet(refs) <=> \E f \in DOMAIN t.foreignKeys : x = Referring(h, f)
    <3>1. refs = [i \in DOMAIN t.foreignKeys |-> Referring(h, i)]
      BY <2>4 DEF ReferencesOf, Referring
    <3>2. DOMAIN t.foreignKeys = 1..Len(t.foreignKeys) /\ Len(t.foreignKeys) \in Nat
      BY <2>2, SeqIs DEF TableShape
    <3> HIDE DEF refs, to
    <3>3. /\ DOMAIN refs = DOMAIN t.foreignKeys
          /\ \A i \in DOMAIN t.foreignKeys : refs[i] = Referring(h, i)
      BY <3>1
    <3>4. IsSeq(refs)
      <4>1. refs = [i \in 1..Len(t.foreignKeys) |-> refs[i]]
        BY <3>1, <3>2
      <4>2. QED
        BY <3>2, <4>1, FunctionsAreSeqs
    <3>5. IsInjective(refs)
      <4> SUFFICES ASSUME NEW i \in DOMAIN t.foreignKeys, NEW j \in DOMAIN t.foreignKeys, refs[i] = refs[j]
                   PROVE  i = j
        BY <3>3 DEF IsInjective
      <4>1. Referring(h, i) = Referring(h, j)
        BY <3>3
      <4>2. QED
        BY <4>1 DEF Referring
    <3>6. QED
      BY <3>3, <3>4, <3>5, SeqIs
  <2> HIDE DEF refs
  <2>7. ASSUME NEW g \in DOMAIN more
        PROVE  /\ IsSeq(Only(refs, to(g))) /\ IsInjective(Only(refs, to(g)))
               /\ \A x : x \in ToSet(Only(refs, to(g))) <=>
                           \E f \in DOMAIN t.foreignKeys : t.foreignKeys[f].parent = g /\ x = Referring(h, f)
    <3>1. \A x : x \in to(g) <=> x \in ToSet(refs) /\ t.foreignKeys[x.fk].parent = g
      BY <2>4 DEF to
    <3>2. /\ IsSeq(Only(refs, to(g))) /\ IsInjective(Only(refs, to(g)))
          /\ ToSet(Only(refs, to(g))) = ToSet(refs) \cap to(g)
      BY <2>6, OnlyKeeps
    <3>3. \A f : Referring(h, f).fk = f
      BY DEF Referring
    <3>4. QED
      BY <2>6, <3>1, <3>2, <3>3
  <2>8. \A g \in DOMAIN more : added[g] = Only(refs, to(g))
    BY DEF added
  <2> HIDE DEF to
  <2>9. ASSUME NEW g \in DOMAIN more
        PROVE  /\ TableShape(u(g)) /\ u(g).name = more[g].name /\ u(g).foreignKeys = more[g].foreignKeys
               /\ u(g).referencedBy = more[g].referencedBy \o added[g]
               /\ TableResolves(more[g]) => TableResolves(u(g))
    <3> DEFINE v == u(g)
    <3>1. /\ v.indexes = more[g].indexes /\ DOMAIN v = Fields /\ v.name = more[g].name
          /\ v.checks = more[g].checks /\ v.columns = more[g].columns
          /\ v.foreignKeys = more[g].foreignKeys
          /\ v.referencedBy = more[g].referencedBy \o Only(refs, to(g))
      BY <2>5 DEF TableShape, Fields, u
    <3>2. IsSeq(more[g].referencedBy) /\ IsSeq(Only(refs, to(g)))
      BY <2>5, <2>7 DEF TableShape
    <3>3. IsSeq(more[g].referencedBy \o Only(refs, to(g)))
      BY <3>2, ConcatIs
    <3> HIDE DEF v
    <3>4. TableShape(v)
      BY <2>5, <3>1, <3>3 DEF TableShape
    <3>5. TableResolves(more[g]) => TableResolves(v)
      <4>1. \A name : HasColumn(more[g], name) => HasColumn(v, name)
        BY <3>1 DEF HasColumn
      <4>2. QED
        BY <2>5, <3>1, <3>4, <4>1, ResolvesWithColumns DEF TableShape
    <3>6. QED
      BY <2>8, <3>1, <3>4, <3>5 DEF v
  <2>10. /\ DOMAIN d = {"names", "tables"} /\ DOMAIN d.names = TableNames
         /\ d.names[s.table] = h
         /\ \A n \in TableNames : n # s.table => d.names[n] = c.names[n]
         /\ d.tables = [g \in 1..h |-> u(g)]
    BY <2>1, <2>2, <2>3, <2>4 DEF CatalogShape, more
  <2>11. DOMAIN d.tables = DOMAIN more /\ \A g \in DOMAIN more : d.tables[g] = u(g)
    BY <2>4, <2>10
  <2>12. h \in DOMAIN more /\ h \notin DOMAIN c.tables /\ DOMAIN c.tables \subseteq DOMAIN more /\ h # NoTable
    BY <1>0, <2>4 DEF NoTable
  <2>13. CatalogShape(d)
    <3>1. IsSeq(d.tables)
      <4>1. h \in Nat
        BY <1>0
      <4>2. d.tables = [g \in 1..h |-> d.tables[g]]
        BY <2>10
      <4>3. QED
        BY <4>1, <4>2, FunctionsAreSeqs
    <3>2. ASSUME NEW n \in TableNames, d.names[n] # NoTable
          PROVE  d.names[n] \in DOMAIN d.tables /\ d.tables[d.names[n]].name = n
      <4>1. CASE n = s.table
        BY <4>1, <2>2, <2>4, <2>9, <2>10, <2>11, <2>12
      <4>2. CASE n # s.table
        <5>1. d.names[n] = c.names[n] /\ c.names[n] \in DOMAIN c.tables /\ c.tables[c.names[n]].name = n
          BY <3>2, <4>2, <2>10 DEF CatalogShape
        <5>2. c.names[n] \in DOMAIN more /\ more[c.names[n]] = c.tables[c.names[n]]
          BY <5>1, <2>4, <2>12
        <5>3. c.names[n] \in DOMAIN d.tables /\ d.tables[c.names[n]].name = more[c.names[n]].name
          BY <5>2, <2>9, <2>11
        <5>4. QED
          BY <5>1, <5>2, <5>3
      <4>3. QED
        BY <4>1, <4>2
    <3>3. \A g \in DOMAIN d.tables : TableShape(d.tables[g])
      BY <2>9, <2>11
    <3>4. QED
      BY <2>10, <3>1, <3>2, <3>3 DEF CatalogShape
  <2>14. Present(d) = Present(c) \cup {h}
    <3>1. \A g : g \in Present(d) <=> g \in Present(c) \/ g = h
      <4> SUFFICES ASSUME NEW g PROVE g \in Present(d) <=> g \in Present(c) \/ g = h
        OBVIOUS
      <4>1. c.names[s.table] = NoTable
        BY <2>1 DEF Lookup
      <4>2. (\E n \in TableNames : d.names[n] = g) <=> g = h \/ \E n \in TableNames \ {s.table} : c.names[n] = g
        BY <2>2, <2>10
      <4>3. g # NoTable => ((\E n \in TableNames : c.names[n] = g)
                              <=> \E n \in TableNames \ {s.table} : c.names[n] = g)
        BY <4>1
      <4>4. QED
        BY <2>12, <2>13, <4>2, <4>3, PresentIs
    <3>2. QED
      BY <3>1
  <2>15. h \notin Present(c) /\ Present(c) \subseteq DOMAIN c.tables
    BY <2>12, PresentIs
  <2>16. Resolves(c) => Resolves(d)
    BY <1>0, <2>2, <2>4, <2>9, <2>11 DEF Resolves
  <2>17. ASSUME Agrees(c) PROVE Agrees(d)
    <3>1. KeysOf(c, h) = <<>> /\ DOMAIN <<>> = {}
      BY <2>15, SmallSeqs, Zenon DEF KeysOf
    <3>2. d.tables[h].foreignKeys = t.foreignKeys
      BY <2>4, <2>9, <2>11, <2>12
    <3>3. \A g \in Present(d) \ {h} : d.tables[g].foreignKeys = c.tables[g].foreignKeys
      BY <2>4, <2>9, <2>11, <2>12, <2>14, <2>15
    <3>4. ASSUME NEW g \in Present(d)
          PROVE  d.tables[g].referencedBy = RefsTo(c, g) \o added[g]
      <4>1. g \in DOMAIN more /\ d.tables[g].referencedBy = more[g].referencedBy \o added[g]
        BY <2>9, <2>11, <2>12, <2>14, <2>15
      <4>2. more[g].referencedBy = RefsTo(c, g)
        <5>1. CASE g = h
          BY <5>1, <2>2, <2>4, <2>15 DEF RefsTo
        <5>2. CASE g # h
          <6>1. g \in Present(c) /\ more[g] = c.tables[g]
            BY <5>2, <2>4, <2>14, <2>15
          <6>2. QED
            BY <6>1 DEF RefsTo
        <5>3. QED
          BY <5>1, <5>2
      <4>3. QED
        BY <4>1, <4>2
    <3>5. Present(d) \subseteq DOMAIN more
      BY <2>12, <2>14, <2>15
    <3>6. \A g \in Present(d) :
            /\ IsSeq(added[g]) /\ IsInjective(added[g])
            /\ \A x : x \in ToSet(added[g]) <=>
                 \E f \in DOMAIN t.foreignKeys : d.tables[h].foreignKeys[f].parent = g /\ x = Referring(h, f)
      BY <2>7, <2>8, <3>2, <3>5
    <3>7. \A f \in DOMAIN t.foreignKeys : d.tables[h].foreignKeys[f].parent \in Present(d)
      BY <2>2, <2>14, <3>2
    <3> DEFINE N == DOMAIN t.foreignKeys
    <3>8. /\ DOMAIN d.tables[h].foreignKeys = DOMAIN KeysOf(c, h) \cup N
          /\ N \cap DOMAIN KeysOf(c, h) = {}
          /\ \A f \in DOMAIN KeysOf(c, h) : d.tables[h].foreignKeys[f] = KeysOf(c, h)[f]
      BY <3>1, <3>2
    <3>9. /\ \A f \in N : d.tables[h].foreignKeys[f].parent \in Present(d)
          /\ \A g \in Present(d) :
               /\ d.tables[g].referencedBy = RefsTo(c, g) \o added[g]
               /\ IsSeq(added[g]) /\ IsInjective(added[g])
               /\ \A x : x \in ToSet(added[g]) <=>
                           \E f \in N : d.tables[h].foreignKeys[f].parent = g /\ x = Referring(h, f)
      BY <3>4, <3>6, <3>7
    <3> HIDE DEF N
    <3>10. Registers(c, d, h, N, added)
      BY <2>14, <3>3, <3>8, <3>9 DEF Registers
    <3>11. QED
      BY <2>17, <3>10, ReferencesAdded
  <2>18. QED
    BY <2>13, <2>16, <2>17 DEF Preserves
<1>3. QED
  BY <1>1, <1>2

\* A list that is not empty has a first element.
LEMMA NonemptyList ==
  ASSUME NEW q, IsList(q), q # <<>>
  PROVE  1 \in DOMAIN q
<1>1. q \in Seq(ToSet(q)) /\ Len(q) \in Nat /\ DOMAIN q = 1..Len(q)
  BY ListsAreSeqs, SeqIs DEF IsSeq
<1>2. Len(q) # 0
  BY <1>1
<1>3. QED
  BY <1>1, <1>2

\* The CHECKs of a new column name no other.
NewColumnChecks(s) ==
  \A i \in DOMAIN s.checks : s.checks[i].rel = "none" \/ s.checks[i].col = s.column.name

\* An ADD COLUMN's lists are lists.
Addition(s) ==
  /\ IsList(s.checks) /\ IsList(s.refs) /\ s.table \in TableNames
  /\ \A i \in DOMAIN s.refs : s.refs[i].parent \in TableNames

\* A table with one more column.
Widened(t, u, s, col, fks) ==
  /\ IsList(s.checks) /\ "name" \in DOMAIN col /\ IsSeq(fks)
  /\ u = [t EXCEPT !.columns = Append(@, col), !.checks = @ \o s.checks, !.foreignKeys = @ \o fks]

\* It is a table.
LEMMA WidenedTable ==
  ASSUME NEW t, TableShape(t), NEW s, NEW col, NEW fks, NEW u, Widened(t, u, s, col, fks)
  PROVE  /\ TableShape(u) /\ u.name = t.name /\ u.referencedBy = t.referencedBy
         /\ u.foreignKeys = t.foreignKeys \o fks
         /\ col.name = s.column.name /\ NewColumnChecks(s) /\ TableResolves(t) => TableResolves(u)
<1> USE DEF Widened
<1> DEFINE columns == Append(t.columns, col)
           checks == t.checks \o s.checks
           keys == t.foreignKeys \o fks
<1>1. /\ DOMAIN u = Fields /\ u.name = t.name /\ u.referencedBy = t.referencedBy /\ u.indexes = t.indexes
      /\ u.columns = columns /\ u.checks = checks /\ u.foreignKeys = keys
  BY DEF TableShape, Fields
<1>2. IsSeq(t.columns) /\ IsSeq(t.checks) /\ IsSeq(t.foreignKeys) /\ IsSeq(s.checks)
  BY ListsAreSeqs DEF TableShape
<1>3. /\ IsSeq(columns)
      /\ \A i \in DOMAIN columns : columns[i] = col \/ (i \in DOMAIN t.columns /\ columns[i] = t.columns[i])
      /\ Len(t.columns) + 1 \in DOMAIN columns /\ columns[Len(t.columns) + 1] = col
      /\ \A i \in DOMAIN t.columns : i \in DOMAIN columns /\ columns[i] = t.columns[i]
  <2> DEFINE n == Len(t.columns)
  <2>1. n \in Nat /\ DOMAIN t.columns = 1..n
    BY <1>2, SeqIs
  <2>2. /\ IsSeq(columns) /\ DOMAIN columns = 1..(n + 1) /\ columns[n + 1] = col
        /\ \A i \in DOMAIN t.columns : columns[i] = t.columns[i]
        /\ \A i \in DOMAIN columns : columns[i] = col \/ (i \in DOMAIN t.columns /\ columns[i] = t.columns[i])
    <3>1. IsSeq(columns) /\ DOMAIN columns = 1..(n + 1) /\ columns[n + 1] = col
      BY <1>2, AppendIs
    <3>2. \A i \in DOMAIN t.columns : columns[i] = t.columns[i]
      BY <1>2, AppendIs
    <3>3. \A i \in DOMAIN columns : columns[i] = col \/ (i \in DOMAIN t.columns /\ columns[i] = t.columns[i])
      BY <1>2, AppendIs
    <3> HIDE DEF columns, n
    <3>4. QED
      BY <3>1, <3>2, <3>3
  <2> HIDE DEF columns, n
  <2>3. n + 1 \in DOMAIN columns /\ \A i \in DOMAIN t.columns : i \in DOMAIN columns
    BY <2>1, <2>2
  <2>4. QED
    BY <2>2, <2>3 DEF n
<1>4. IsSeq(keys)
  BY <1>2, ConcatIs
<1>5. /\ IsSeq(checks)
      /\ \A i \in DOMAIN checks : \/ \E j \in DOMAIN t.checks : checks[i] = t.checks[j]
                                  \/ \E j \in DOMAIN s.checks : checks[i] = s.checks[j]
  <2>1. IsSeq(checks) /\ ToSet(checks) = ToSet(t.checks) \cup ToSet(s.checks)
    BY <1>2, ConcatIs
  <2> HIDE DEF checks
  <2>2. \A i \in DOMAIN checks : checks[i] \in ToSet(t.checks) \/ checks[i] \in ToSet(s.checks)
    BY <2>1, SeqIs
  <2>3. QED
    BY <2>1, <2>2, SeqIs
<1> HIDE DEF columns, checks, keys
<1>6. TableShape(u)
  BY <1>1, <1>2, <1>3, <1>4, <1>5 DEF TableShape
<1>7. \A p : Binds(t, p) => Binds(u, p)
  <2>1. \A name : HasColumn(t, name) => HasColumn(u, name)
    BY <1>1, <1>3 DEF HasColumn
  <2>2. QED
    BY <2>1, <1>2, <1>6, BindsIs DEF TableShape
<1>8. ASSUME col.name = s.column.name, NewColumnChecks(s), TableResolves(t)
      PROVE  TableResolves(u)
  <2>1. HasColumn(u, s.column.name)
    BY <1>1, <1>3, <1>8 DEF HasColumn
  <2>2. \A j \in DOMAIN s.checks : Binds(u, s.checks[j])
    BY <1>6, <1>8, <2>1, BindsIs DEF NewColumnChecks, TableShape
  <2>3. \A i \in DOMAIN u.checks : Binds(u, u.checks[i])
    BY <1>1, <1>5, <1>7, <1>8, <2>2 DEF TableResolves
  <2>4. QED
    BY <1>1, <1>7, <1>8, <2>3 DEF TableResolves
<1>9. QED
  BY <1>1, <1>6, <1>8 DEF keys

\* ADD COLUMN, its CHECKs apart, which nothing binds.
LEMMA AddColumnPreserves ==
  ASSUME NEW c, CatalogShape(c), NEW s, Addition(s), NEW d \in AddColumn(c, s)
  PROVE  /\ CatalogShape(d) /\ (Agrees(c) => Agrees(d))
         /\ NewColumnChecks(s) /\ Resolves(c) => Resolves(d)
<1> DEFINE h == Lookup(c, s.table)
           t == c.tables[h]
           n == Len(t.foreignKeys) + 1
           extended(a) == [c.tables EXCEPT ![h].columns = Append(@, a.column), ![h].checks = @ \o s.checks,
                                           ![h].foreignKeys = @ \o a.fks]
           registered(a) ==
             IF a.fks = <<>> THEN extended(a)
             ELSE [extended(a) EXCEPT ![a.fks[1].parent].referencedBy = Append(@, [child |-> h, fk |-> n])]
<1>1. CASE d = c
  BY <1>1
<1>2. CASE d # c
  <2>1. PICK a \in bindAddColumn(c, s) : d = [c EXCEPT !.tables = registered(a)]
    BY <1>2, Zenon DEF AddColumn
  <2>2. /\ h # NoTable /\ "name" \in DOMAIN a.column /\ a.column.name = s.column.name
        /\ \/ a.fks = <<>>
           \/ \E r \in resolveForeignKey(c, h, t, s.refs[1], <<Len(t.columns) + 1>>) : s.refs # <<>> /\ a.fks = <<r>>
    BY DEF bindAddColumn
  <2>3. h \in DOMAIN c.tables /\ TableShape(t) /\ h \in Present(c)
    BY <2>2, LookupIs DEF Addition
  <2> DEFINE u == [t EXCEPT !.columns = Append(@, a.column), !.checks = @ \o s.checks,
                            !.foreignKeys = @ \o a.fks]
  <2>4. extended(a) = [c.tables EXCEPT ![h] = u]
    OBVIOUS
  <2>5. IsSeq(a.fks)
    BY <2>2, SmallSeqs
  <2>6. /\ TableShape(u) /\ u.name = t.name /\ u.referencedBy = t.referencedBy
        /\ u.foreignKeys = t.foreignKeys \o a.fks
        /\ NewColumnChecks(s) /\ TableResolves(t) => TableResolves(u)
    <3> HIDE DEF t
    <3>1. IsList(s.checks)
      BY DEF Addition
    <3>2. u = [t EXCEPT !.columns = Append(@, a.column), !.checks = @ \o s.checks,
                        !.foreignKeys = @ \o a.fks]
      OBVIOUS
    <3> HIDE DEF u
    <3>3. Widened(t, u, s, a.column, a.fks)
      BY <2>2, <2>5, <3>1, <3>2 DEF Widened
    <3>4. TableShape(t)
      BY <2>3
    <3>5. /\ TableShape(u) /\ u.name = t.name /\ u.referencedBy = t.referencedBy
          /\ u.foreignKeys = t.foreignKeys \o a.fks
          /\ a.column.name = s.column.name /\ NewColumnChecks(s) /\ TableResolves(t) => TableResolves(u)
      BY <3>3, <3>4, WidenedTable, Zenon
    <3>6. QED
      BY <2>2, <3>5, Zenon
  <2> HIDE DEF extended, u, registered, h, t, n
  <2>7. CASE a.fks = <<>>
    <3>1. d = [c EXCEPT !.tables = [c.tables EXCEPT ![h] = u]]
      BY <2>1, <2>4, <2>7 DEF registered
    <3>2. /\ CatalogShape(d) /\ Present(d) = Present(c) /\ DOMAIN d.tables = DOMAIN c.tables
          /\ \A g \in DOMAIN c.tables : d.tables[g] = IF g = h THEN u ELSE c.tables[g]
      <4>1. h \in DOMAIN c.tables => TableShape(u) /\ u.name = c.tables[h].name
        BY <2>6 DEF t
      <4>2. Replaced(c, d, h, u)
        BY <3>1, <4>1 DEF Replaced
      <4>3. QED
        BY <4>2, TableChanged
    <3>3. u.foreignKeys = t.foreignKeys
      BY <2>3, <2>6, <2>7, ConcatSmall DEF TableShape
    <3>4. Alike(c, d)
      BY <2>6, <3>2, <3>3 DEF Alike, t
    <3>5. Agrees(c) => Agrees(d)
      BY <3>4, AlikeAgrees
    <3>6. NewColumnChecks(s) /\ Resolves(c) => Resolves(d)
      BY <2>6, <3>2 DEF Resolves, t
    <3>7. QED
      BY <3>2, <3>5, <3>6
  <2>8. CASE a.fks # <<>>
    <3>1. PICK r \in resolveForeignKey(c, h, t, s.refs[1], <<Len(t.columns) + 1>>) : s.refs # <<>> /\ a.fks = <<r>>
      BY <2>2, <2>8
    <3>2. r.parent \in Present(c)
      <4>1. s.refs[1].parent \in TableNames
        <5>1. IsList(s.refs) /\ \A i \in DOMAIN s.refs : s.refs[i].parent \in TableNames
          BY DEF Addition
        <5>2. 1 \in DOMAIN s.refs
          BY <3>1, <5>1, NonemptyList
        <5>3. QED
          BY <5>1, <5>2
      <4>2. r.parent \in Present(c) \cup {h}
        BY <4>1, ResolvedParent
      <4>3. QED
        BY <2>3, <4>2
    <3> DEFINE p == r.parent
               ref == Referring(h, n)
               ext == [c.tables EXCEPT ![h] = u]
               tables == [ext EXCEPT ![p] = [ext[p] EXCEPT !.referencedBy = Append(ext[p].referencedBy, ref)]]
    <3>3. d = [c EXCEPT !.tables = tables]
      <4>1. a.fks[1] = r
        BY <3>1
      <4>2. registered(a) = tables
        BY <2>4, <2>8, <4>1 DEF Referring, registered
      <4>3. QED
        BY <2>1, <4>2
    <3>4. p \in DOMAIN c.tables
      BY <3>2, PresentIs
    <3>5. /\ DOMAIN ext = DOMAIN c.tables
          /\ \A g \in DOMAIN c.tables : ext[g] = IF g = h THEN u ELSE c.tables[g]
      OBVIOUS
    <3>6. /\ \A g \in DOMAIN c.tables : TableShape(ext[g]) /\ ext[g].name = c.tables[g].name
          /\ \A g \in DOMAIN c.tables : ext[g].referencedBy = c.tables[g].referencedBy
      BY <2>3, <2>6, <3>5 DEF CatalogShape, t
    <3> DEFINE v == [ext[p] EXCEPT !.referencedBy = Append(ext[p].referencedBy, ref)]
    <3>7. /\ DOMAIN tables = DOMAIN c.tables /\ tables = [g \in DOMAIN c.tables |-> tables[g]]
          /\ \A g \in DOMAIN c.tables : tables[g] = IF g = p THEN v ELSE ext[g]
      <4> HIDE DEF v
      <4>1. tables = [ext EXCEPT ![p] = v]
        BY DEF v
      <4> HIDE DEF tables, ext
      <4>2. QED
        BY <3>5, <4>1
    <3>8. /\ DOMAIN v = Fields /\ v.name = ext[p].name /\ v.columns = ext[p].columns /\ v.checks = ext[p].checks
          /\ v.indexes = ext[p].indexes /\ v.foreignKeys = ext[p].foreignKeys
          /\ v.referencedBy = Append(ext[p].referencedBy, ref)
      <4>1. TableShape(ext[p])
        BY <3>4, <3>6
      <4> HIDE DEF ext
      <4>2. QED
        BY <4>1 DEF TableShape, Fields
    <3> HIDE DEF ext, tables, v, ref
    <3>9. IsSeq(Append(ext[p].referencedBy, ref))
      BY <3>4, <3>6, AppendIs DEF TableShape
    <3>10. TableShape(v)
      BY <3>4, <3>6, <3>8, <3>9 DEF TableShape
    <3>11. \A g \in DOMAIN c.tables : TableShape(tables[g]) /\ tables[g].name = c.tables[g].name
      BY <3>4, <3>6, <3>7, <3>8, <3>10
    <3>12. CatalogShape(d) /\ d.tables = tables /\ Present(d) = Present(c)
      <4>1. Retabled(c, d, tables)
        BY <3>3, <3>7, <3>11 DEF Retabled
      <4>2. QED
        BY <4>1, TablesChanged
    <3>13. \A g \in DOMAIN c.tables : TableResolves(ext[g]) => TableResolves(tables[g])
      <4>1. TableResolves(ext[p]) => TableResolves(v)
        <5>1. \A name : HasColumn(ext[p], name) => HasColumn(v, name)
          BY <3>8 DEF HasColumn
        <5>2. QED
          BY <3>4, <3>6, <3>8, <3>10, <5>1, ResolvesWithColumns DEF TableShape
      <4>2. QED
        BY <3>7, <4>1
    <3>14. NewColumnChecks(s) /\ Resolves(c) => Resolves(d)
      BY <2>6, <3>5, <3>7, <3>12, <3>13 DEF Resolves, t
    <3>15. ASSUME Agrees(c) PROVE Agrees(d)
      <4> DEFINE N == {n}
                 added == [g \in Present(d) |-> IF g = p THEN <<ref>> ELSE <<>>]
                 keys == t.foreignKeys \o a.fks
      <4>1. \A g \in DOMAIN c.tables : tables[g].foreignKeys = ext[g].foreignKeys
        BY <3>7, <3>8
      <4>2. d.tables[h].foreignKeys = keys /\ KeysOf(c, h) = t.foreignKeys
        BY <2>3, <2>6, <3>5, <3>12, <4>1 DEF KeysOf, t
      <4>3. \A g \in Present(d) \ {h} : d.tables[g].foreignKeys = c.tables[g].foreignKeys
        BY <3>5, <3>12, <4>1, PresentIs
      <4>4. /\ Len(t.foreignKeys) \in Nat /\ DOMAIN t.foreignKeys = 1..Len(t.foreignKeys)
            /\ DOMAIN keys = 1..n /\ keys[n] = r
            /\ \A f \in DOMAIN t.foreignKeys : keys[f] = t.foreignKeys[f]
        <5>1. IsSeq(t.foreignKeys)
          BY <2>3 DEF TableShape
        <5>2. keys = Append(t.foreignKeys, r)
          BY <3>1, <5>1, ConcatSmall
        <5> HIDE DEF keys
        <5>3. QED
          BY <5>1, <5>2, AppendIs, SeqIs DEF n
      <4>5. /\ DOMAIN keys = DOMAIN t.foreignKeys \cup N /\ N \cap DOMAIN t.foreignKeys = {}
            /\ \A f \in N : keys[f] = r
        <5> HIDE DEF keys
        <5>1. n \in Nat /\ n \in 1..n /\ n \notin 1..Len(t.foreignKeys)
              /\ \A f : f \in 1..n <=> f = n \/ f \in 1..Len(t.foreignKeys)
          BY <4>4 DEF n
        <5>2. QED
          BY <4>4, <5>1
      <4> HIDE DEF keys
      <4>6. ASSUME NEW g \in Present(d)
            PROVE  /\ d.tables[g].referencedBy = RefsTo(c, g) \o added[g]
                   /\ IsSeq(added[g]) /\ IsInjective(added[g])
                   /\ \A x : x \in ToSet(added[g]) <=>
                               \E f \in N : d.tables[h].foreignKeys[f].parent = g /\ x = Referring(h, f)
        <5>1. /\ g \in DOMAIN c.tables /\ IsSeq(c.tables[g].referencedBy) /\ RefsTo(c, g) = c.tables[g].referencedBy
              /\ ext[g].referencedBy = c.tables[g].referencedBy /\ d.tables[g] = tables[g]
          BY <3>6, <3>12, PresentIs DEF RefsTo, CatalogShape, TableShape
        <5>2. IsSeq(added[g]) /\ IsInjective(added[g])
          BY SmallSeqs
        <5>3. CASE g = p
          <6>1. d.tables[g].referencedBy = Append(c.tables[g].referencedBy, ref) /\ added[g] = <<ref>>
            BY <3>7, <3>8, <5>1, <5>3
          <6>2. d.tables[g].referencedBy = RefsTo(c, g) \o added[g]
            BY <5>1, <6>1, ConcatSmall
          <6>3. ToSet(added[g]) = {ref}
            BY <6>1, SmallSeqs
          <6>4. \A f \in N : d.tables[h].foreignKeys[f].parent = g /\ Referring(h, f) = ref
            BY <4>2, <4>5, <5>3 DEF ref
          <6>5. QED
            BY <5>2, <6>2, <6>3, <6>4
        <5>4. CASE g # p
          <6>1. d.tables[g].referencedBy = c.tables[g].referencedBy /\ added[g] = <<>>
            BY <3>7, <5>1, <5>4
          <6>2. d.tables[g].referencedBy = RefsTo(c, g) \o added[g]
            BY <5>1, <6>1, ConcatSmall
          <6>3. ToSet(added[g]) = {}
            BY <6>1, SmallSeqs
          <6>4. \A f \in N : d.tables[h].foreignKeys[f].parent # g
            BY <4>2, <4>5, <5>4
          <6>5. QED
            BY <5>2, <6>2, <6>3, <6>4
        <5>5. QED
          BY <5>3, <5>4
      <4>7. Present(d) = Present(c) \cup {h}
        BY <2>3, <3>12
      <4>8. \A f \in N : d.tables[h].foreignKeys[f].parent \in Present(d)
        BY <3>2, <3>12, <4>2, <4>5
      <4> HIDE DEF added, N
      <4>9. Registers(c, d, h, N, added)
        BY <4>2, <4>3, <4>4, <4>5, <4>6, <4>7, <4>8 DEF Registers
      <4>10. QED
        BY <3>15, <4>9, ReferencesAdded
    <3>16. QED
      BY <3>12, <3>14, <3>15
  <2>9. QED
    BY <2>7, <2>8
<1>3. QED
  BY <1>1, <1>2

(***************************************************************************)
(* The catalog a scenario begins with.                                     *)
(***************************************************************************)

\* The catalogs after each of the statements that create it.
LEMMA CatalogAfterIs ==
  ASSUME NEW creates, Len(creates) \in Nat
  PROVE  /\ CatalogAfter(creates)[0] = EmptyCatalog
         /\ \A i \in 1..Len(creates) : CatalogAfter(creates)[i] =
              CHOOSE d \in Creating(CatalogAfter(creates)[i - 1], creates[i]) : TRUE
<1> DEFINE made(c, i) == CHOOSE d \in Creating(c, creates[i]) : TRUE
           Rule(f, n) == f = [i \in 0..n |-> IF i = 0 THEN EmptyCatalog ELSE made(f[i - 1], i)]
           S == {n \in 0..Len(creates) : \E f : Rule(f, n)}
           after == CHOOSE f : Rule(f, Len(creates))
<1>1. 0 \in S
  <2> DEFINE g == [i \in 0..0 |-> EmptyCatalog]
  <2> HIDE DEF made
  <2>1. Rule(g, 0)
    OBVIOUS
  <2>2. \E f : Rule(f, 0)
    BY <2>1, Zenon
  <2> HIDE DEF Rule
  <2>3. QED
    BY <2>2
<1>2. ASSUME NEW n \in 1..Len(creates), n - 1 \in S
      PROVE  n \in S
  <2> HIDE DEF made
  <2>1. PICK f : Rule(f, n - 1)
    BY <1>2
  <2> DEFINE g == [i \in 0..n |-> IF i = n THEN made(f[n - 1], n) ELSE f[i]]
  <2>2. \A i \in 0..n : g[i] = IF i = 0 THEN EmptyCatalog ELSE made(g[i - 1], i)
    <3> SUFFICES ASSUME NEW i \in 0..n PROVE g[i] = IF i = 0 THEN EmptyCatalog ELSE made(g[i - 1], i)
      OBVIOUS
    <3>1. CASE i = n
      BY <3>1
    <3>2. CASE i # n
      <4>1. i \in 0..(n - 1)
        BY <3>2
      <4>2. f[i] = IF i = 0 THEN EmptyCatalog ELSE made(f[i - 1], i)
        BY <4>1, <2>1
      <4>3. i # 0 => i - 1 \in 0..n /\ i - 1 # n
        BY <4>1
      <4>4. QED
        BY <3>2, <4>1, <4>2, <4>3
    <3>3. QED
      BY <3>1, <3>2
  <2>3. Rule(g, n)
    BY <2>2, Zenon
  <2>4. \E h : Rule(h, n)
    BY <2>3, Zenon
  <2> HIDE DEF Rule
  <2>5. QED
    BY <2>4
<1>3. \E f : Rule(f, Len(creates))
  <2> HIDE DEF Rule
  <2>1. \A i \in 0..Len(creates) : i \in S
    <3> HIDE DEF S
    <3>1. QED
      BY <1>1, <1>2, UpTo
  <2>2. QED
    BY <2>1
<1>4. Rule(after, Len(creates))
  BY <1>3, Zenon
<1>5. CatalogAfter(creates) = after
  BY Zenon DEF CatalogAfter
<1> HIDE DEF after, made
<1>6. /\ after[0] = EmptyCatalog
      /\ \A i \in 1..Len(creates) : after[i] = made(after[i - 1], i)
  BY <1>4
<1>7. QED
  BY <1>5, <1>6, Zenon DEF made

\* Nothing is right of no tables but everything.
LEMMA EmptyIs == CatalogShape(EmptyCatalog) /\ Agrees(EmptyCatalog) /\ Resolves(EmptyCatalog)
<1>1. /\ DOMAIN EmptyCatalog = {"names", "tables"} /\ DOMAIN EmptyCatalog.names = TableNames
      /\ EmptyCatalog.tables = <<>> /\ \A n \in TableNames : EmptyCatalog.names[n] = NoTable
  BY DEF EmptyCatalog
<1>2. IsSeq(<<>>) /\ DOMAIN <<>> = {}
  BY SmallSeqs, Zenon
<1>3. DOMAIN EmptyCatalog.tables = {} /\ IsSeq(EmptyCatalog.tables)
  BY <1>1, <1>2
<1>4. Present(EmptyCatalog) = {}
  BY <1>3 DEF Present
<1>5. QED
  BY <1>1, <1>3, <1>4 DEF CatalogShape, Agrees, Resolves

\* A statement of the list a scenario begins with.
Creates(s) == s.op \in {"create table", "create index"} /\ WellFormed(s)

\* One of those statements.
LEMMA CreatingPreserves ==
  ASSUME NEW c, CatalogShape(c), NEW s, Creates(s), NEW d \in Creating(c, s)
  PROVE  Preserves(c, d)
<1>1. \/ Creation(s) /\ d \in CreateTable(c, s)
      \/ s.table \in TableNames /\ bindCreateIndex(c, s) /\ d \in CreateIndex(c, s, TRUE)
  BY DEF Creating, WellFormed, Creation, Creates
<1> DEFINE made == Creation(s) /\ d \in CreateTable(c, s)
           indexed == s.table \in TableNames /\ bindCreateIndex(c, s) /\ d \in CreateIndex(c, s, TRUE)
<1>2. made => Preserves(c, d)
  BY CreateTablePreserves
<1>3. indexed => Preserves(c, d)
  BY CreateIndexPreserves
<1>4. QED
  BY <1>1, <1>2, <1>3, Zenon

\* What is right of a catalog.
Sane(c) == CatalogShape(c) /\ Agrees(c) /\ Resolves(c)

\* One such statement after another.
LEMMA CreatingStays ==
  ASSUME NEW c, Sane(c), NEW s, Creates(s), Creating(c, s) # {}
  PROVE  Sane(CHOOSE d \in Creating(c, s) : TRUE)
<1> DEFINE e == CHOOSE d \in Creating(c, s) : TRUE
<1>1. e \in Creating(c, s)
  BY Zenon
<1> HIDE DEF e
<1>2. Preserves(c, e)
  BY <1>1, CreatingPreserves, Zenon DEF Sane
<1>3. Sane(e)
  BY <1>2, Zenon DEF Preserves, Sane
<1>4. QED
  BY <1>3, Zenon DEF e

\* The catalog of a scenario.
LEMMA CreatedIs ==
  ASSUME NEW sc \in Scenarios
  PROVE  Sane(Created(sc.create))
<1> DEFINE creates == sc.create
           n == Len(creates)
           after == CatalogAfter(creates)
           S == {i \in 0..n : Sane(after[i])}
<1>1. IsList(creates)
  BY ScenariosAssumption, Zenon
<1>2. n \in Nat /\ DOMAIN creates = 1..n
  BY <1>1 DEF IsList
<1>3. \A i \in DOMAIN creates : Creates(creates[i]) /\ Creating(after[i - 1], creates[i]) # {}
  BY ScenariosAssumption, Zenon DEF Creates
<1>4. /\ after[0] = EmptyCatalog
      /\ \A i \in 1..n : after[i] = CHOOSE d \in Creating(after[i - 1], creates[i]) : TRUE
  BY <1>2, CatalogAfterIs
<1> HIDE DEF creates, after, n
<1>5. 0 \in S
  <2>1. Sane(after[0])
    BY <1>4, EmptyIs, Zenon DEF Sane
  <2>2. QED
    BY <1>2, <2>1
<1>6. \A i \in 1..n : i - 1 \in S => i \in S
  <2> SUFFICES ASSUME NEW i \in 1..n, Sane(after[i - 1]) PROVE Sane(after[i])
    BY <1>2
  <2>1. Creates(creates[i]) /\ Creating(after[i - 1], creates[i]) # {}
    BY <1>2, <1>3, Zenon
  <2>2. Sane(CHOOSE d \in Creating(after[i - 1], creates[i]) : TRUE)
    BY <2>1, CreatingStays, Zenon
  <2>3. QED
    BY <1>4, <2>2, Zenon
<1>7. \A i \in 0..n : i \in S
  <2> HIDE DEF S
  <2>1. QED
    BY <1>2, <1>5, <1>6, UpTo
<1>8. Sane(after[n])
  BY <1>2, <1>7
<1>9. QED
  BY <1>8, Zenon DEF Created, creates, after, n

(***************************************************************************)
(* Schema changes.                                                         *)
(***************************************************************************)

\* A CHECK that an ADD COLUMN brings names the column it adds.
SelfContained(s) == s.op = "add column" => NewColumnChecks(s)

\* A schema change on a table that there may be.
OnTable(s) == s.table \in TableNames

\* The rows that SET NOT NULL judges.
Judging(me, s) == Rows(World(me), me, Lookup(catalog, s.table))

\* What a schema change is, by its kind, and what is known of it then.
LEMMA DDLIs ==
  ASSUME NEW me, NEW s, IsDDL(s), WellFormed(s), BindsDDL(s), NEW d \in DDL(me, s)
  PROVE  \/ Creation(s) /\ d \in CreateTable(catalog, s)
         \/ s.tables \subseteq TableNames /\ d \in DropTable(catalog, s)
         \/ Addition(s) /\ s.op = "add column" /\ d \in AddColumn(catalog, s)
         \/ OnTable(s) /\ s.to \in TableNames /\ d \in RenameTable(catalog, s)
         \/ OnTable(s) /\ d \in RenameColumn(catalog, s)
         \/ OnTable(s) /\ s.op = "set not null" /\ d \in SetNotNull(catalog, s, Judging(me, s))
         \/ OnTable(s) /\ bindCreateIndex(catalog, s) /\ d \in CreateIndex(catalog, s, Sound(s))
         \/ d \in DropIndex(catalog, s)
<1>1. s.op \in SchemaChanges
  BY DEF IsDDL, WellFormed
<1>2. CASE s.op = "create table"
  BY <1>2 DEF DDL, WellFormed, Creation
<1>3. CASE s.op = "drop table"
  BY <1>3 DEF DDL, WellFormed
<1>4. CASE s.op = "add column"
  BY <1>4 DEF DDL, WellFormed, Addition
<1>5. CASE s.op = "rename table"
  BY <1>5 DEF DDL, WellFormed, OnTable
<1>6. CASE s.op = "rename column"
  BY <1>6 DEF DDL, WellFormed, OnTable
<1>7. CASE s.op = "set not null"
  BY <1>7 DEF DDL, WellFormed, OnTable, Judging
<1>8. CASE s.op = "create index"
  BY <1>8 DEF DDL, BindsDDL, WellFormed, OnTable
<1>9. CASE s.op = "drop index"
  BY <1>9 DEF DDL, WellFormed
<1>10. QED
  BY <1>1, <1>2, <1>3, <1>4, <1>5, <1>6, <1>7, <1>8, <1>9, Zenon DEF SchemaChanges

\* A schema change leaves a catalog behind it of which the same is right.
LEMMA DDLPreserves ==
  ASSUME CatalogShape(catalog), Agrees(catalog),
         NEW me, NEW s, IsDDL(s), WellFormed(s), BindsDDL(s), NEW d \in DDL(me, s)
  PROVE  /\ CatalogShape(d) /\ Agrees(d)
         /\ SelfContained(s) /\ Resolves(catalog) => Resolves(d)
<1> USE DEF Preserves, OnTable
<1>1. CASE Creation(s) /\ d \in CreateTable(catalog, s)
  BY <1>1, CreateTablePreserves
<1>2. CASE s.tables \subseteq TableNames /\ d \in DropTable(catalog, s)
  BY <1>2, DropTablePreserves
<1>3. CASE Addition(s) /\ s.op = "add column" /\ d \in AddColumn(catalog, s)
  BY <1>3, AddColumnPreserves DEF SelfContained
<1>4. CASE OnTable(s) /\ s.to \in TableNames /\ d \in RenameTable(catalog, s)
  BY <1>4, RenameTablePreserves
<1>5. CASE OnTable(s) /\ d \in RenameColumn(catalog, s)
  BY <1>5, RenameColumnPreserves
<1>6. CASE OnTable(s) /\ s.op = "set not null" /\ d \in SetNotNull(catalog, s, Judging(me, s))
  BY <1>6, SetNotNullPreserves
<1>7. CASE OnTable(s) /\ bindCreateIndex(catalog, s) /\ d \in CreateIndex(catalog, s, Sound(s))
  BY <1>7, CreateIndexPreserves
<1>8. CASE d \in DropIndex(catalog, s)
  BY <1>8, DropIndexPreserves
<1>9. QED
  BY <1>1, <1>2, <1>3, <1>4, <1>5, <1>6, <1>7, <1>8, DDLIs, Zenon

(***************************************************************************)
(* Calls.  Of the catalog they change the numbers of sequences at most.    *)
(***************************************************************************)

\* A call that leaves the catalog alone.
Keeps(w, x) == DOMAIN x = DOMAIN w /\ x.catalog = w.catalog

\* The ways a call ends.
LEMMA EndsKeep ==
  ASSUME NEW w, "catalog" \in DOMAIN w
  PROVE  /\ Keeps(w, w) /\ Keeps(w, Failed(w))
         /\ \A calls : Keeps(w, Then(w, calls))
         /\ \A me, h, v : Keeps(w, HeapDelete(w, me, h, v))
         /\ \A me, h, row : Keeps(w, Insert(w, me, h, row))
         /\ \A me, h, v, row : Keeps(w, Update(w, me, h, v, row))
<1>1. Keeps(w, w) /\ Keeps(w, Failed(w)) /\ \A calls : Keeps(w, Then(w, calls))
  BY DEF Keeps, Failed, Then
<1>2. \A me, h, v : Keeps(w, HeapDelete(w, me, h, v))
  BY DEF Keeps, Failed, HeapDelete
<1>3. \A me, h, row : Keeps(w, Insert(w, me, h, row))
  BY DEF Keeps, Failed, Insert
<1>4. \A me, h, v, row : Keeps(w, Update(w, me, h, v, row))
  BY DEF Keeps, Failed, Update
<1>5. QED
  BY <1>1, <1>2, <1>3, <1>4

\* A row of the statement.
LEMMA RowKeeps ==
  ASSUME NEW w, "catalog" \in DOMAIN w, NEW me, NEW s, NEW c
  PROVE  Keeps(w, execRow(w, me, s, c))
<1> DEFINE fresh == [w EXCEPT !.seen = {}]
<1>1. "catalog" \in DOMAIN fresh /\ Keeps(w, fresh)
  BY DEF Keeps
<1> HIDE DEF fresh
<1>2. \A calls : Keeps(fresh, Then(fresh, calls))
  BY <1>1, EndsKeep
<1>3. \A calls : Keeps(w, Then(fresh, calls))
  BY <1>1, <1>2 DEF Keeps
<1>4. Keeps(w, w) /\ Keeps(w, Failed(w))
  BY EndsKeep
<1>5. \/ execRow(w, me, s, c) \in {w, Failed(w)}
      \/ \E calls : execRow(w, me, s, c) = Then(fresh, calls)
  BY Zenon DEF execRow, fresh
<1>6. QED
  BY <1>3, <1>4, <1>5

\* What becomes of a row that refers to one that changes or goes, by cases.
LEMMA ChildCases ==
  ASSUME NEW w, NEW me, NEW c
  PROVE  LET fk     == w.catalog.tables[c.h].foreignKeys[c.fk]
             cur    == Current(w, c.h, c.v)
             action == IF c.next = <<>> THEN fk.onDelete ELSE fk.onUpdate
             marked == [w EXCEPT !.seen = @ \cup {<<c.h, c.v>>}, !.wrote = @ \cup {c.h}]
             moved  == follow(fk, cur, c.next)
             after  == Update(marked, me, c.h, c.v, moved)
             x      == applyRefAction(w, me, c)
         IN \/ x \in {w, Failed(w)}
            \/ /\ <<c.h, c.v>> \notin w.seen /\ action = "cascade" /\ c.next = <<>>
               /\ x = Then(marked, Append(applyRefActions(marked, me, c.h, cur, <<>>), RemoveCall(c.h, c.v)))
            \/ /\ <<c.h, c.v>> \notin w.seen /\ action = "cascade" /\ c.next # <<>>
               /\ \/ ~after.ok /\ x = after
                  \/ after.ok /\ x = Then(after, applyRefActions(after, me, c.h, cur, moved))
            \/ /\ <<c.h, c.v>> \notin w.seen /\ action \in {"set null", "set default"}
               /\ x = Update(marked, me, c.h, c.v, refReplacement(w.catalog.tables[c.h], fk.cols, action, cur))
<1> DEFINE fk     == w.catalog.tables[c.h].foreignKeys[c.fk]
           cur    == Current(w, c.h, c.v)
           action == IF c.next = <<>> THEN fk.onDelete ELSE fk.onUpdate
           marked == [w EXCEPT !.seen = @ \cup {<<c.h, c.v>>}, !.wrote = @ \cup {c.h}]
           moved  == follow(fk, cur, c.next)
           after  == Update(marked, me, c.h, c.v, moved)
           further(y) == IF y.ok THEN Then(y, applyRefActions(y, me, c.h, cur, moved)) ELSE y
           told   == [y \in {after} |-> further(y)]
<1>1. told[after] = further(after)
  <2> HIDE DEF after, further
  <2>1. QED
    OBVIOUS
<1>2. QED
  BY <1>1, Zenon DEF applyRefAction

\* A row that refers to one that changes.
LEMMA ChildKeeps ==
  ASSUME NEW w, "catalog" \in DOMAIN w, NEW me, NEW c
  PROVE  Keeps(w, applyRefAction(w, me, c))
<1> DEFINE marked == [w EXCEPT !.seen = @ \cup {<<c.h, c.v>>}, !.wrote = @ \cup {c.h}]
           updated(row) == Update(marked, me, c.h, c.v, row)
<1>1. "catalog" \in DOMAIN marked /\ Keeps(w, marked)
  BY DEF Keeps
<1> HIDE DEF marked
<1>2. (\A calls : Keeps(w, Then(marked, calls))) /\ \A row : Keeps(w, updated(row))
  <2>1. (\A calls : Keeps(marked, Then(marked, calls))) /\ \A row : Keeps(marked, updated(row))
    BY <1>1, EndsKeep
  <2> HIDE DEF updated
  <2>2. QED
    BY <1>1, <2>1 DEF Keeps
<1>3. \A row, calls : Keeps(w, Then(updated(row), calls))
  <2> SUFFICES ASSUME NEW row, NEW calls PROVE Keeps(w, Then(updated(row), calls))
    OBVIOUS
  <2>1. Keeps(w, updated(row))
    BY <1>2
  <2> HIDE DEF updated
  <2>2. "catalog" \in DOMAIN updated(row)
    BY <2>1 DEF Keeps
  <2>3. Keeps(updated(row), Then(updated(row), calls))
    BY <2>2, EndsKeep
  <2>4. QED
    BY <2>1, <2>3 DEF Keeps
<1>4. Keeps(w, w) /\ Keeps(w, Failed(w))
  BY EndsKeep
<1>5. \/ applyRefAction(w, me, c) \in {w, Failed(w)}
      \/ \E calls : applyRefAction(w, me, c) = Then(marked, calls)
      \/ \E row : applyRefAction(w, me, c) = updated(row)
      \/ \E row, calls : applyRefAction(w, me, c) = Then(updated(row), calls)
  <2> DEFINE t == w.catalog.tables[c.h]
             fk == t.foreignKeys[c.fk]
             cur == Current(w, c.h, c.v)
             action == IF c.next = <<>> THEN fk.onDelete ELSE fk.onUpdate
             moved == follow(fk, cur, c.next)
             new == refReplacement(t, fk.cols, action, cur)
             gone == Append(applyRefActions(marked, me, c.h, cur, <<>>), RemoveCall(c.h, c.v))
             told == applyRefActions(updated(moved), me, c.h, cur, moved)
             x == applyRefAction(w, me, c)
  <2>1. x \in {w, Failed(w), updated(moved), updated(new), Then(marked, gone), Then(updated(moved), told)}
    BY ChildCases, Zenon DEF marked
  <2> HIDE DEF x, updated, moved, new, gone, told
  <2>2. \/ x \in {w, Failed(w)}
        \/ \E calls : x = Then(marked, calls)
        \/ \E row : x = updated(row)
        \/ \E row, calls : x = Then(updated(row), calls)
    BY <2>1
  <2>3. QED
    BY <2>2 DEF x
<1>6. QED
  BY <1>2, <1>3, <1>4, <1>5

\* A row to insert draws numbers.
LEMMA StoreDraws ==
  ASSUME NEW w, "catalog" \in DOMAIN w, CatalogShape(w.catalog), NEW me, NEW s, NEW c
  PROVE  Preserves(w.catalog, store(w, me, s, c).catalog)
<1> DEFINE t == w.catalog.tables[c.h]
           serial(i) == SelectInSeq(targets(t, s), LAMBDA n : n = t.columns[i].name) = 0 /\ t.columns[i].ident # "none"
           columns == [i \in DOMAIN t.columns |->
                         IF serial(i) THEN [t.columns[i] EXCEPT !.nextSerial = @ + 1] ELSE t.columns[i]]
           drawn == [w EXCEPT !.catalog.tables[c.h].columns = columns]
           u == [t EXCEPT !.columns = columns]
<1>1. "catalog" \in DOMAIN drawn /\ drawn.catalog = [w.catalog EXCEPT !.tables = [w.catalog.tables EXCEPT ![c.h] = u]]
  <2> HIDE DEF columns
  <2>1. QED
    OBVIOUS
<1>2. store(w, me, s, c).catalog = drawn.catalog
  <2>1. \/ \E existing, row : store(w, me, s, c) = resolve(drawn, me, s, c, existing, row)
        \/ store(w, me, s, c) = Failed(drawn)
        \/ \E row : store(w, me, s, c) = Insert(drawn, me, c.h, row)
    BY Zenon DEF store
  <2> HIDE DEF drawn
  <2>2. Keeps(drawn, drawn) /\ Keeps(drawn, Failed(drawn)) /\ \A row : Keeps(drawn, Insert(drawn, me, c.h, row))
    BY <1>1, EndsKeep
  <2>3. \A existing, row : Keeps(drawn, resolve(drawn, me, s, c, existing, row))
    <3>1. \A v, row : Keeps(drawn, Update(drawn, me, c.h, v, row))
      BY <1>1, EndsKeep
    <3>2. QED
      BY <2>2, <3>1 DEF resolve
  <2>4. QED
    BY <2>1, <2>2, <2>3 DEF Keeps
<1>3. c.h \in DOMAIN w.catalog.tables => Stands(t, u)
  <2> SUFFICES ASSUME c.h \in DOMAIN w.catalog.tables PROVE Stands(t, u)
    OBVIOUS
  <2>1. TableShape(t)
    BY DEF CatalogShape
  <2> HIDE DEF t
  <2>2. columns = [i \in DOMAIN t.columns |-> columns[i]]
    OBVIOUS
  <2> HIDE DEF serial
  <2>3. \A i \in DOMAIN t.columns : "name" \in DOMAIN columns[i] /\ columns[i].name = t.columns[i].name
    BY <2>1 DEF TableShape
  <2> HIDE DEF columns
  <2>4. QED
    BY <2>1, <2>2, <2>3, ColumnsStand
<1>4. c.h \in DOMAIN w.catalog.tables => Stands(w.catalog.tables[c.h], u)
  <2> HIDE DEF u
  <2>1. QED
    BY <1>3, Zenon DEF t
<1> HIDE DEF u, drawn, t
<1>5. Preserves(w.catalog, drawn.catalog)
  BY <1>1, <1>4, OneStandingPreserves
<1>6. QED
  BY <1>2, <1>5

\* Any call.
LEMMA CallPreserves ==
  ASSUME NEW w, "catalog" \in DOMAIN w, CatalogShape(w.catalog), NEW me, NEW s, NEW c
  PROVE  Preserves(w.catalog, execCall(w, me, s, c).catalog)
<1>1. \/ execCall(w, me, s, c) = execRow(w, me, s, c)
      \/ execCall(w, me, s, c) = execWrite(w, me, c)
      \/ execCall(w, me, s, c) = applyRefAction(w, me, c)
      \/ execCall(w, me, s, c) = HeapDelete(w, me, c.h, c.v)
      \/ execCall(w, me, s, c) = store(w, me, s, c)
  BY Zenon DEF execCall
<1>2. Keeps(w, execRow(w, me, s, c)) /\ Keeps(w, applyRefAction(w, me, c))
  BY RowKeeps, ChildKeeps
<1>3. Keeps(w, execWrite(w, me, c)) /\ Keeps(w, HeapDelete(w, me, c.h, c.v))
  <2>1. (\A h, v : Keeps(w, HeapDelete(w, me, h, v))) /\ \A h, v, row : Keeps(w, Update(w, me, h, v, row))
    BY EndsKeep
  <2>2. QED
    BY <2>1 DEF execWrite
<1>4. Preserves(w.catalog, w.catalog)
  BY NothingPreserves
<1>5. Preserves(w.catalog, store(w, me, s, c).catalog)
  BY StoreDraws
<1>6. QED
  BY <1>1, <1>2, <1>3, <1>4, <1>5 DEF Keeps

(***************************************************************************)
(* The invariant.                                                          *)
(***************************************************************************)

\* Sequences that are rebuilt from rows, whatever these are.
LEMMA RestoredPreserves ==
  ASSUME NEW c, CatalogShape(c), NEW rows,
         NEW d, d = [c EXCEPT !.tables = [h \in DOMAIN c.tables |-> RestoreSequences(c.tables[h], rows[h])]]
  PROVE  Preserves(c, d)
<1> DEFINE tables == [h \in DOMAIN c.tables |-> RestoreSequences(c.tables[h], rows[h])]
<1>1. \A h \in DOMAIN c.tables : Stands(c.tables[h], tables[h])
  BY RestoreStands DEF CatalogShape
<1>2. tables = [h \in DOMAIN c.tables |-> tables[h]]
  OBVIOUS
<1> HIDE DEF tables
<1>3. d = [c EXCEPT !.tables = tables]
  BY Zenon DEF tables
<1>4. QED
  BY <1>1, <1>2, <1>3, StandingPreserves

\* The database as it is opened.
LEMMA InitSane == Init => scenario \in Scenarios /\ Sane(catalog)
<1> SUFFICES ASSUME Init PROVE scenario \in Scenarios /\ Sane(catalog)
  OBVIOUS
<1> DEFINE c == Created(scenario.create)
           rows == scenario.rows
<1>1. scenario \in Scenarios
  BY DEF Init
<1>2. catalog = [c EXCEPT !.tables = [h \in DOMAIN c.tables |-> RestoreSequences(c.tables[h], rows[h])]]
  BY Zenon DEF Init
<1>3. Sane(c)
  BY <1>1, CreatedIs
<1> HIDE DEF c
<1>4. Preserves(c, catalog)
  BY <1>2, <1>3, RestoredPreserves DEF Sane
<1>5. QED
  BY <1>1, <1>3, <1>4 DEF Sane, Preserves

\* A catalog whose lists of references agree, made by the statements there are.
CatInv == scenario \in Scenarios /\ CatalogShape(catalog) /\ Agrees(catalog)

\* What a step may do to it.
Retains(c, d) == CatalogShape(d) /\ Agrees(d) /\ (Resolves(c) => Resolves(d))

\* What the CHECKs of the new columns of the statements there are refer to.
NewColumnsOnly == \A sc \in Scenarios : \A s \in sc.statements : SelfContained(s)

\* A schema statement.
LEMMA ExecDDLRetains ==
  ASSUME CatInv, NEW s, NEW stmt \in scenario.statements, execDDL(s, stmt)
  PROVE  /\ scenario' = scenario /\ CatalogShape(catalog') /\ Agrees(catalog')
         /\ NewColumnsOnly => Retains(catalog, catalog')
<1>1. scenario' = scenario /\ IsDDL(stmt) /\ BindsDDL(stmt)
  BY DEF execDDL
<1>2. catalog' = catalog \/ catalog' \in DDL(Entered(s), stmt)
  BY DEF execDDL
<1>3. WellFormed(stmt) /\ (NewColumnsOnly => SelfContained(stmt))
  BY ScenariosAssumption, Zenon DEF CatInv, NewColumnsOnly
<1>4. CASE catalog' = catalog
  BY <1>1, <1>4 DEF CatInv, Retains
<1>5. CASE catalog' \in DDL(Entered(s), stmt)
  <2>1. CatalogShape(catalog') /\ Agrees(catalog') /\ (SelfContained(stmt) /\ Resolves(catalog) => Resolves(catalog'))
    BY <1>1, <1>3, <1>5, DDLPreserves, Zenon DEF CatInv
  <2>2. QED
    BY <1>1, <1>3, <2>1 DEF Retains
<1>6. QED
  BY <1>2, <1>4, <1>5

\* A call.
LEMMA StepRetains ==
  ASSUME CatInv, NEW s, Step(s)
  PROVE  scenario' = scenario /\ Retains(catalog, catalog')
<1>1. scenario' = scenario
  BY DEF Step
<1> DEFINE me == session[s]
           world == [World(me) EXCEPT !.agenda = Tail(@)]
<1>2. "catalog" \in DOMAIN world /\ world.catalog = catalog
  BY DEF World
<1>3. catalog' = execCall(world, me, me.stmt, Head(me.agenda)).catalog
  BY Zenon DEF Step
<1> HIDE DEF world
<1>4. Preserves(catalog, catalog')
  BY <1>2, <1>3, CallPreserves DEF CatInv
<1>5. QED
  BY <1>1, <1>4 DEF CatInv, Preserves, Retains

\* A restart.
LEMMA RestartRetains ==
  ASSUME CatInv, Restart
  PROVE  scenario' = scenario /\ Retains(catalog, catalog')
<1> DEFINE kept(h) == Only(heap[h], {v \in ToSet(heap[h]) : Visible(v, NoTx, Taken)})
           rows(h) == [i \in DOMAIN kept(h) |-> Values(catalog.tables[h], kept(h)[i].vals)]
           all == [h \in DOMAIN catalog.tables |-> rows(h)]
<1>1. scenario' = scenario
  BY DEF Restart
<1>2. catalog' = [catalog EXCEPT !.tables =
                    [h \in DOMAIN catalog.tables |-> RestoreSequences(catalog.tables[h], rows(h))]]
  BY Zenon DEF Restart
<1> HIDE DEF rows
<1>3. [h \in DOMAIN catalog.tables |-> RestoreSequences(catalog.tables[h], rows(h))] =
        [h \in DOMAIN catalog.tables |-> RestoreSequences(catalog.tables[h], all[h])]
  OBVIOUS
<1> HIDE DEF all
<1>4. Preserves(catalog, catalog')
  BY <1>2, <1>3, RestoredPreserves DEF CatInv
<1>5. QED
  BY <1>1, <1>4 DEF CatInv, Preserves, Retains

\* Any step.
LEMMA NextRetains ==
  ASSUME CatInv, [Next]_vars
  PROVE  CatInv' /\ (NewColumnsOnly => Retains(catalog, catalog'))
<1>1. \/ UNCHANGED <<scenario, catalog>>
      \/ \E s : Step(s)
      \/ \E s : \E stmt \in scenario.statements : execDDL(s, stmt)
      \/ Restart
  <2>1. CASE UNCHANGED vars
    BY <2>1 DEF vars
  <2>2. CASE \E s \in scenario.sessions : \E level \in scenario.levels : Begin(s, level)
    BY <2>2 DEF Begin
  <2>3. CASE \E s \in scenario.sessions : Commit(s) \/ Rollback(s) \/ Finish(s)
    BY <2>3 DEF Commit, Rollback, Finish
  <2>4. CASE \E s \in scenario.sessions : \E stmt \in scenario.statements : Start(s, stmt)
    BY <2>4 DEF Start
  <2>5. QED
    BY <2>1, <2>2, <2>3, <2>4, Zenon DEF Next
<1>2. CASE UNCHANGED <<scenario, catalog>>
  BY <1>2 DEF CatInv, Retains
<1>3. CASE \E s : Step(s)
  BY <1>3, StepRetains DEF CatInv, Retains
<1>4. CASE \E s : \E stmt \in scenario.statements : execDDL(s, stmt)
  BY <1>4, ExecDDLRetains DEF CatInv
<1>5. CASE Restart
  BY <1>5, RestartRetains DEF CatInv, Retains
<1>6. QED
  BY <1>1, <1>2, <1>3, <1>4, <1>5

\* It is an invariant.
LEMMA CatInvHolds == Spec => []CatInv
<1>1. Init => CatInv
  BY InitSane DEF CatInv, Sane
<1>2. CatInv /\ [Next]_vars => CatInv'
  BY NextRetains
<1>3. QED
  BY <1>1, <1>2, PTL DEF Spec

(***************************************************************************)
(* Theorems.                                                               *)
(***************************************************************************)

\* AddReferencing and detach keep each other's books: whatever schema changes run
\* in whatever order, with drops, re-creations under the same name, self-references
\* and restarts, the lists the parents keep are the foreign keys of the tables
\* there are.
THEOREM ReferencesAlwaysAgree == Spec => []ReferencedByAgrees
<1>1. CatInv => ReferencedByAgrees
  BY AgreesIs DEF CatInv
<1>2. QED
  BY <1>1, CatInvHolds, PTL

\* What is stored as syntax still binds, whatever is renamed, added and dropped:
\* RenameColumn refuses what dependsOnColumnName finds.  The CHECKs that come with
\* a new column have to name that column, because bindAddColumn stores them
\* without binding them.
THEOREM StoredSyntaxAlwaysResolves ==
  ASSUME NewColumnsOnly
  PROVE  Spec => []StoredSyntaxResolves
<1>1. Init => CatInv /\ Resolves(catalog)
  BY InitSane DEF CatInv, Sane
<1>2. CatInv /\ Resolves(catalog) /\ [Next]_vars => (CatInv /\ Resolves(catalog))'
  BY NextRetains DEF Retains
<1>3. Resolves(catalog) => StoredSyntaxResolves
  BY DEF StoredSyntaxResolves, Resolves, TableResolves, Tables, Present
<1>4. QED
  BY <1>1, <1>2, <1>3, PTL DEF Spec
=============================================================================
