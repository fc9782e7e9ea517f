---------------------------- MODULE ReplayProofs ----------------------------
(***************************************************************************)
(* What replaying a log computes, for a log of any length: the lemmas on   *)
(* which the proofs about Engine rest.                                     *)
(*                                                                         *)
(* Induction is over sets of numbers: what a replay has done after i       *)
(* records is followed from i - 1 to i, for all i up to the log's length.  *)
(***************************************************************************)
EXTENDS Engine, TLAPS, WellFoundedInduction, FiniteSetTheorems, SequenceTheorems

(***************************************************************************)
(* Induction.                                                              *)
(***************************************************************************)

\* A nonempty set of naturals has a least element.
LEMMA LeastOf ==
  ASSUME NEW S \in SUBSET Nat, S # {}
  PROVE  \E m \in S : \A n \in S : m <= n
<1>1. PICK m \in S : \A n \in S : <<n, m>> \notin OpToRel(<, Nat)
  BY NatLessThanWellFounded, WFMin, Zenon
<1>2. \A n \in S : ~(n < m)
  BY <1>1, Zenon DEF OpToRel
<1>3. QED
  BY <1>2

\* What holds of 0, and passes from i - 1 to i, holds up to n.
LEMMA UpTo ==
  ASSUME NEW S, NEW n \in Nat, 0 \in S, \A i \in 1..n : i - 1 \in S => i \in S
  PROVE  \A i \in 0..n : i \in S
<1> DEFINE bad == {i \in 0..n : i \notin S}
<1> SUFFICES ASSUME bad # {} PROVE FALSE
  OBVIOUS
<1>1. PICK m \in bad : \A i \in bad : m <= i
  <2>1. bad \in SUBSET Nat
    OBVIOUS
  <2> HIDE DEF bad
  <2>2. QED
    BY <2>1, LeastOf
<1>2. m \in 1..n /\ m \notin S
  BY <1>1
<1>3. m - 1 \in S
  <2>1. m - 1 \in 0..n /\ m - 1 < m
    BY <1>2
  <2>2. m - 1 \notin bad
    BY <2>1, <1>1, <1>2
  <2>3. QED
    BY <2>1, <2>2
<1>4. QED
  BY <1>2, <1>3

(***************************************************************************)
(* Replay.                                                                 *)
(***************************************************************************)

\* The states a replay goes through.
Steps(f, s, l) == f[0] = s /\ \A i \in 1..Len(l) : f[i] = apply(f[i - 1], l[i])

\* There are such states, and the last of them is the result.
LEMMA ReplayHas ==
  ASSUME NEW s, NEW l, Len(l) \in Nat
  PROVE  \E f : Steps(f, s, l) /\ Replay(s, l) = f[Len(l)]
<1> DEFINE Rule(f, n) == f = [i \in 0..n |-> IF i = 0 THEN s ELSE apply(f[i - 1], l[i])]
           S == {n \in 0..Len(l) : \E f : Rule(f, n)}
           after == CHOOSE f : Rule(f, Len(l))
<1>1. 0 \in S
  <2> DEFINE g == [i \in 0..0 |-> s]
  <2>1. Rule(g, 0)
    OBVIOUS
  <2>2. \E f : Rule(f, 0)
    BY <2>1, Zenon
  <2> HIDE DEF Rule
  <2>3. QED
    BY <2>2
<1>2. ASSUME NEW n \in 1..Len(l), n - 1 \in S
      PROVE  n \in S
  <2>1. PICK f : Rule(f, n - 1)
    BY <1>2
  <2> DEFINE g == [i \in 0..n |-> IF i = n THEN apply(f[n - 1], l[n]) ELSE f[i]]
  <2>2. \A i \in 0..n : g[i] = IF i = 0 THEN s ELSE apply(g[i - 1], l[i])
    <3> SUFFICES ASSUME NEW i \in 0..n PROVE g[i] = IF i = 0 THEN s ELSE apply(g[i - 1], l[i])
      OBVIOUS
    <3>1. CASE i = n
      BY <3>1
    <3>2. CASE i # n
      <4>1. i \in 0..(n - 1)
        BY <3>2
      <4>2. f[i] = IF i = 0 THEN s ELSE apply(f[i - 1], l[i])
        BY <4>1, <2>1
      <4>3. i # 0 => i - 1 \in 0..n /\ i - 1 # n
        BY <4>1
      <4>4. QED
        BY <3>2, <4>1, <4>2, <4>3
    <3>3. QED
      BY <3>1, <3>2
  <2>3. Rule(g, n)
    BY <2>2, Zenon
  <2>4. \E h : Rule(h, n)
    BY <2>3, Zenon
  <2> HIDE DEF Rule
  <2>5. QED
    BY <2>4
<1>3. Len(l) \in S
  <2> HIDE DEF S
  <2>1. \A i \in 0..Len(l) : i \in S
    BY <1>1, <1>2, UpTo
  <2>2. QED
    BY <2>1
<1>4. Rule(after, Len(l))
  BY <1>3
<1>5. Replay(s, l) = after[Len(l)]
  BY DEF Replay
<1>6. Steps(after, s, l)
  <2> HIDE DEF after
  <2>1. QED
    BY <1>4 DEF Steps
<1>7. QED
  BY <1>5, <1>6

\* The states are determined, so whoever goes through them ends at the result.
LEMMA ReplayEnds ==
  ASSUME NEW s, NEW l, Len(l) \in Nat, NEW f, Steps(f, s, l)
  PROVE  Replay(s, l) = f[Len(l)]
<1>1. PICK g : Steps(g, s, l) /\ Replay(s, l) = g[Len(l)]
  BY ReplayHas
<1> DEFINE S == {i \in 0..Len(l) : f[i] = g[i]}
<1>2. \A i \in 0..Len(l) : i \in S
  <2>1. 0 \in S
    BY <1>1 DEF Steps
  <2>2. \A i \in 1..Len(l) : i - 1 \in S => i \in S
    BY <1>1 DEF Steps
  <2> HIDE DEF S
  <2>3. QED
    BY <2>1, <2>2, UpTo
<1>3. QED
  BY <1>1, <1>2

\* An empty log leaves the database as it is.
LEMMA ReplayEmpty == ASSUME NEW s PROVE Replay(s, <<>>) = s
<1>1. Len(<<>>) = 0
  BY EmptySeq
<1>2. PICK f : Steps(f, s, <<>>) /\ Replay(s, <<>>) = f[Len(<<>>)]
  BY <1>1, ReplayHas
<1>3. QED
  BY <1>1, <1>2 DEF Steps

\* Recovery reads one frame after the other.
LEMMA ReplayConcat ==
  ASSUME NEW R, NEW s, NEW l \in Seq(R), NEW m \in Seq(R)
  PROVE  Replay(s, l \o m) = Replay(Replay(s, l), m)
<1>2. Len(l) \in Nat /\ Len(m) \in Nat /\ Len(l \o m) = Len(l) + Len(m) /\ Len(l \o m) \in Nat
  OBVIOUS
<1>1. PICK f : Steps(f, s, l \o m) /\ Replay(s, l \o m) = f[Len(l \o m)]
  BY <1>2, ReplayHas, Zenon
<1>3. Steps(f, s, l)
  <2>1. \A i \in 1..Len(l) : i \in 1..Len(l \o m) /\ (l \o m)[i] = l[i]
    OBVIOUS
  <2>2. QED
    BY <1>1, <2>1 DEF Steps
<1>4. Replay(s, l) = f[Len(l)]
  BY <1>2, <1>3, ReplayEnds
<1> DEFINE g == [i \in 0..Len(m) |-> f[Len(l) + i]]
<1>5. Steps(g, f[Len(l)], m)
  <2>1. ASSUME NEW i \in 1..Len(m)
        PROVE  g[i] = apply(g[i - 1], m[i])
    <3>1. Len(l) + i \in 1..Len(l \o m) /\ (l \o m)[Len(l) + i] = m[i]
      BY <1>2
    <3>2. f[Len(l) + i] = apply(f[(Len(l) + i) - 1], m[i])
      BY <1>1, <3>1 DEF Steps
    <3>3. (Len(l) + i) - 1 = Len(l) + (i - 1) /\ i - 1 \in 0..Len(m) /\ i \in 0..Len(m)
      BY <1>2
    <3>4. QED
      BY <3>2, <3>3
  <2>2. g[0] = f[Len(l)]
    BY <1>2
  <2> HIDE DEF g
  <2>3. QED
    BY <2>1, <2>2 DEF Steps
<1>6. Replay(f[Len(l)], m) = g[Len(m)]
  <2> HIDE DEF g
  <2>1. QED
    BY <1>2, <1>5, ReplayEnds
<1>7. g[Len(m)] = f[Len(l \o m)]
  <2>1. Len(m) \in 0..Len(m)
    BY <1>2
  <2>2. g[Len(m)] = f[Len(l) + Len(m)]
    BY <2>1
  <2>3. QED
    BY <2>2, <1>2
<1>8. QED
  BY <1>1, <1>4, <1>6, <1>7

\* One more record is one more step.
LEMMA ReplayAppend ==
  ASSUME NEW R, NEW s, NEW l \in Seq(R), NEW rec \in R
  PROVE  Replay(s, Append(l, rec)) = apply(Replay(s, l), rec)
<1>2. Len(l) \in Nat /\ Len(Append(l, rec)) = Len(l) + 1 /\ Len(Append(l, rec)) \in Nat
  OBVIOUS
<1>1. PICK f : Steps(f, s, Append(l, rec)) /\ Replay(s, Append(l, rec)) = f[Len(Append(l, rec))]
  BY <1>2, ReplayHas, Zenon
<1>3. Steps(f, s, l)
  <2>1. \A i \in 1..Len(l) : i \in 1..Len(Append(l, rec)) /\ Append(l, rec)[i] = l[i]
    OBVIOUS
  <2>2. QED
    BY <1>1, <2>1 DEF Steps
<1>4. Replay(s, l) = f[Len(l)]
  BY <1>2, <1>3, ReplayEnds
<1>5. f[Len(l) + 1] = apply(f[Len(l)], rec)
  BY <1>1, <1>2 DEF Steps
<1>6. QED
  BY <1>1, <1>2, <1>4, <1>5

\* What is true of the state before a log, and stays true at each of its records,
\* is true after it.  T[i] are the states in which it is true after i records.
LEMMA ReplayFollows ==
  ASSUME NEW s, NEW l, Len(l) \in Nat, NEW T, s \in T[0],
         \A i \in 1..Len(l) : \A x \in T[i - 1] : apply(x, l[i]) \in T[i]
  PROVE  Replay(s, l) \in T[Len(l)]
<1>1. PICK f : Steps(f, s, l) /\ Replay(s, l) = f[Len(l)]
  BY ReplayHas
<1> DEFINE S == {i \in 0..Len(l) : f[i] \in T[i]}
<1>2. \A i \in 0..Len(l) : i \in S
  <2>1. 0 \in S
    BY <1>1 DEF Steps
  <2>2. \A i \in 1..Len(l) : i - 1 \in S => i \in S
    BY <1>1 DEF Steps
  <2> HIDE DEF S
  <2>3. QED
    BY <2>1, <2>2, UpTo
<1>3. QED
  BY <1>1, <1>2

(***************************************************************************)
(* The records of a log that are kept.                                     *)
(***************************************************************************)

\* What is kept of the first i records.
Keeps(f, l, S) ==
  f[0] = <<>> /\ \A i \in 1..Len(l) : f[i] = IF l[i] \in S THEN Append(f[i - 1], l[i]) ELSE f[i - 1]

\* The function Kept is taken from exists.
LEMMA KeptHas ==
  ASSUME NEW l, NEW S, Len(l) \in Nat
  PROVE  \E f : Keeps(f, l, S) /\ Kept(l, S) = f[Len(l)]
<1> DEFINE Rule(f, n) == f = [i \in 0..n |-> IF i = 0 THEN <<>>
                                ELSE IF l[i] \in S THEN Append(f[i - 1], l[i]) ELSE f[i - 1]]
           N == {n \in 0..Len(l) : \E f : Rule(f, n)}
           kept == CHOOSE f : Rule(f, Len(l))
<1>1. 0 \in N
  <2> DEFINE g == [i \in 0..0 |-> <<>>]
  <2>1. Rule(g, 0)
    OBVIOUS
  <2>2. \E f : Rule(f, 0)
    BY <2>1, Zenon
  <2> HIDE DEF Rule
  <2>3. QED
    BY <2>2
<1>2. ASSUME NEW n \in 1..Len(l), n - 1 \in N
      PROVE  n \in N
  <2>1. PICK f : Rule(f, n - 1)
    BY <1>2
  <2> DEFINE last == IF l[n] \in S THEN Append(f[n - 1], l[n]) ELSE f[n - 1]
             g == [i \in 0..n |-> IF i = n THEN last ELSE f[i]]
  <2>2. \A i \in 0..n : g[i] = IF i = 0 THEN <<>>
                               ELSE IF l[i] \in S THEN Append(g[i - 1], l[i]) ELSE g[i - 1]
    <3> SUFFICES ASSUME NEW i \in 0..n
                 PROVE  g[i] = IF i = 0 THEN <<>>
                               ELSE IF l[i] \in S THEN Append(g[i - 1], l[i]) ELSE g[i - 1]
      OBVIOUS
    <3>1. CASE i = n
      BY <3>1
    <3>2. CASE i # n
      <4>1. i \in 0..(n - 1)
        BY <3>2
      <4>2. f[i] = IF i = 0 THEN <<>> ELSE IF l[i] \in S THEN Append(f[i - 1], l[i]) ELSE f[i - 1]
        BY <4>1, <2>1
      <4>3. i # 0 => i - 1 \in 0..n /\ i - 1 # n
        BY <4>1
      <4>4. QED
        BY <3>2, <4>1, <4>2, <4>3
    <3>3. QED
      BY <3>1, <3>2
  <2>3. Rule(g, n)
    BY <2>2, Zenon
  <2>4. \E h : Rule(h, n)
    BY <2>3, Zenon
  <2> HIDE DEF Rule
  <2>5. QED
    BY <2>4
<1>3. Len(l) \in N
  <2> HIDE DEF N
  <2>1. \A i \in 0..Len(l) : i \in N
    BY <1>1, <1>2, UpTo
  <2>2. QED
    BY <2>1
<1>4. Rule(kept, Len(l))
  BY <1>3
<1>5. Kept(l, S) = kept[Len(l)]
  BY DEF Kept
<1>6. Keeps(kept, l, S)
  <2> HIDE DEF kept
  <2>1. kept[0] = <<>>
    BY <1>4
  <2>2. ASSUME NEW i \in 1..Len(l)
        PROVE  kept[i] = IF l[i] \in S THEN Append(kept[i - 1], l[i]) ELSE kept[i - 1]
    <3>1. i \in 0..Len(l) /\ i # 0
      OBVIOUS
    <3>2. QED
      BY <3>1, <1>4
  <2>3. QED
    BY <2>1, <2>2 DEF Keeps
<1>7. QED
  BY <1>5, <1>6

\* It is the only one.
LEMMA KeptEnds ==
  ASSUME NEW l, NEW S, Len(l) \in Nat, NEW f, Keeps(f, l, S)
  PROVE  Kept(l, S) = f[Len(l)]
<1>1. PICK g : Keeps(g, l, S) /\ Kept(l, S) = g[Len(l)]
  BY KeptHas
<1> DEFINE N == {i \in 0..Len(l) : f[i] = g[i]}
<1>2. \A i \in 0..Len(l) : i \in N
  <2>1. 0 \in N
    BY <1>1 DEF Keeps
  <2>2. \A i \in 1..Len(l) : i - 1 \in N => i \in N
    BY <1>1 DEF Keeps
  <2> HIDE DEF N
  <2>3. QED
    BY <2>1, <2>2, UpTo
<1>3. QED
  BY <1>1, <1>2

\* Nothing is kept of nothing.
LEMMA KeptEmpty == ASSUME NEW S PROVE Kept(<<>>, S) = <<>>
<1>1. Len(<<>>) = 0
  BY EmptySeq
<1>2. PICK f : Keeps(f, <<>>, S) /\ Kept(<<>>, S) = f[Len(<<>>)]
  BY <1>1, KeptHas
<1>3. QED
  BY <1>1, <1>2 DEF Keeps

\* One more record is kept or is not.
LEMMA KeptAppend ==
  ASSUME NEW R, NEW S, NEW l \in Seq(R), NEW rec \in R
  PROVE  Kept(Append(l, rec), S) = IF rec \in S THEN Append(Kept(l, S), rec) ELSE Kept(l, S)
<1>1. Len(l) \in Nat /\ Len(Append(l, rec)) = Len(l) + 1 /\ Len(Append(l, rec)) \in Nat
  OBVIOUS
<1>2. PICK f : Keeps(f, Append(l, rec), S) /\ Kept(Append(l, rec), S) = f[Len(Append(l, rec))]
  BY <1>1, KeptHas, Zenon
<1>3. Keeps(f, l, S)
  <2>1. \A i \in 1..Len(l) : i \in 1..Len(Append(l, rec)) /\ Append(l, rec)[i] = l[i]
    OBVIOUS
  <2>2. QED
    BY <1>2, <2>1 DEF Keeps
<1>4. Kept(l, S) = f[Len(l)]
  BY <1>1, <1>3, KeptEnds
<1>5. f[Len(l) + 1] = IF rec \in S THEN Append(f[Len(l)], rec) ELSE f[Len(l)]
  BY <1>1, <1>2 DEF Keeps
<1>6. QED
  BY <1>1, <1>2, <1>4, <1>5

\* The kept records are those of l that are in S, in the order they have there.
Picks(h, k, l, n, S) ==
  /\ h \in [1..Len(k) -> 1..n]
  /\ \A i \in 1..Len(k) : l[h[i]] \in S /\ k[i] = l[h[i]]
  /\ \A i, j \in 1..Len(k) : i < j => h[i] < h[j]
  /\ \A j \in 1..n : l[j] \in S => \E i \in 1..Len(k) : h[i] = j

\* What is kept is a subsequence: the members of S, each once and in order.
LEMMA KeptPicks ==
  ASSUME NEW R, NEW S, NEW l \in Seq(R)
  PROVE  Kept(l, S) \in Seq(R) /\ \E h : Picks(h, Kept(l, S), l, Len(l), S)
<1>0. Len(l) \in Nat
  OBVIOUS
<1>1. PICK f : Keeps(f, l, S) /\ Kept(l, S) = f[Len(l)]
  BY <1>0, KeptHas
<1> DEFINE N == {n \in 0..Len(l) : f[n] \in Seq(R) /\ \E h : Picks(h, f[n], l, n, S)}
<1>2. 0 \in N
  <2>1. f[0] = <<>> /\ Len(<<>>) = 0 /\ f[0] \in Seq(R)
    BY <1>1, EmptySeq DEF Keeps
  <2>2. Picks([i \in 1..0 |-> 0], f[0], l, 0, S)
    BY <2>1 DEF Picks
  <2>3. \E h : Picks(h, f[0], l, 0, S)
    BY <2>2
  <2>4. 0 \in 0..Len(l) /\ f[0] \in Seq(R) /\ \E h : Picks(h, f[0], l, 0, S)
    BY <2>1, <2>3, <1>0
  <2>5. QED
    BY <2>4, Zenon
<1>3. ASSUME NEW n \in 1..Len(l), n - 1 \in N
      PROVE  n \in N
  <2> DEFINE k == f[n - 1]
  <2>1. k \in Seq(R) /\ Len(k) \in Nat /\ l[n] \in R
    BY <1>3
  <2>2. PICK h : Picks(h, k, l, n - 1, S)
    BY <1>3
  <2>3. f[n] = IF l[n] \in S THEN Append(k, l[n]) ELSE k
    BY <1>1 DEF Keeps
  <2> HIDE DEF k
  <2>4. CASE l[n] \in S
    <3> DEFINE g == [i \in 1..(Len(k) + 1) |-> IF i = Len(k) + 1 THEN n ELSE h[i]]
               m == Append(k, l[n])
    <3>1. m \in Seq(R) /\ Len(m) = Len(k) + 1 /\ m[Len(k) + 1] = l[n]
          /\ \A i \in 1..Len(k) : m[i] = k[i]
      BY <2>1
    <3>2. \A i \in 1..Len(k) : i \in 1..(Len(k) + 1) /\ i # Len(k) + 1 /\ g[i] = h[i] /\ h[i] \in 1..(n - 1)
      <4>1. h \in [1..Len(k) -> 1..(n - 1)]
        BY <2>2 DEF Picks
      <4>2. \A i \in 1..Len(k) : i \in 1..(Len(k) + 1) /\ i # Len(k) + 1
        BY <2>1
      <4>3. QED
        BY <4>1, <4>2
    <3>3. g[Len(k) + 1] = n
      BY <2>1
    <3>4. \A i \in 1..(Len(k) + 1) : i = Len(k) + 1 \/ i \in 1..Len(k)
      BY <2>1
    <3>5. g \in [1..(Len(k) + 1) -> 1..n]
      <4>1. \A i \in 1..(Len(k) + 1) : g[i] \in 1..n
        <5> HIDE DEF g
        <5>1. QED
          BY <3>2, <3>3, <3>4
      <4>2. QED
        BY <4>1
    <3> HIDE DEF g, m
    <3>6. \A i \in 1..Len(m) : l[g[i]] \in S /\ m[i] = l[g[i]]
      BY <3>1, <3>2, <3>3, <3>4, <2>2, <2>4 DEF Picks
    <3>7. \A i, j \in 1..Len(m) : i < j => g[i] < g[j]
      <4> SUFFICES ASSUME NEW i \in 1..(Len(k) + 1), NEW j \in 1..(Len(k) + 1), i < j PROVE g[i] < g[j]
        BY <3>1
      <4>1. i \in 1..Len(k)
        BY <2>1
      <4>2. QED
        BY <4>1, <3>2, <3>3, <3>4, <2>2 DEF Picks
    <3>8. \A j \in 1..n : l[j] \in S => \E i \in 1..Len(m) : g[i] = j
      <4> SUFFICES ASSUME NEW j \in 1..n, l[j] \in S PROVE \E i \in 1..(Len(k) + 1) : g[i] = j
        BY <3>1
      <4>1. CASE j = n
        BY <4>1, <3>3, <2>1
      <4>2. CASE j # n
        <5>1. j \in 1..(n - 1)
          BY <4>2
        <5>2. PICK i \in 1..Len(k) : h[i] = j
          BY <5>1, <2>2 DEF Picks
        <5>3. QED
          BY <5>2, <3>2
      <4>3. QED
        BY <4>1, <4>2
    <3>9. Picks(g, m, l, n, S)
      BY <3>1, <3>5, <3>6, <3>7, <3>8 DEF Picks
    <3>10. \E x : Picks(x, f[n], l, n, S)
      BY <3>9, <2>3, <2>4 DEF m
    <3>11. n \in 0..Len(l) /\ f[n] \in Seq(R)
      BY <3>1, <2>3, <2>4, <1>0 DEF m
    <3>12. QED
      BY <3>10, <3>11, Zenon
  <2>5. CASE l[n] \notin S
    <3>1. f[n] = k
      BY <2>3, <2>5
    <3>2. Picks(h, k, l, n, S)
      <4>1. h \in [1..Len(k) -> 1..n]
        BY <2>1, <2>2 DEF Picks
      <4>2. \A j \in 1..n : l[j] \in S => \E i \in 1..Len(k) : h[i] = j
        BY <2>2, <2>5 DEF Picks
      <4>3. QED
        BY <4>1, <4>2, <2>2 DEF Picks
    <3>3. \E x : Picks(x, f[n], l, n, S)
      BY <3>1, <3>2
    <3>4. n \in 0..Len(l) /\ f[n] \in Seq(R)
      BY <3>1, <2>1, <1>0
    <3>5. QED
      BY <3>3, <3>4, Zenon
  <2>6. QED
    BY <2>4, <2>5
<1>4. Len(l) \in N
  <2> HIDE DEF N
  <2>1. \A i \in 0..Len(l) : i \in N
    BY <1>0, <1>2, <1>3, UpTo
  <2>2. QED
    BY <2>1, <1>0
<1>5. QED
  BY <1>1, <1>4

\* Nothing is kept of records that are not in S.
LEMMA KeptNone ==
  ASSUME NEW R, NEW S, NEW l \in Seq(R), NEW m \in Seq(R), \A i \in 1..Len(m) : m[i] \notin S
  PROVE  Kept(l \o m, S) = Kept(l, S)
<1>1. Len(l) \in Nat /\ Len(m) \in Nat /\ Len(l \o m) = Len(l) + Len(m) /\ Len(l \o m) \in Nat
  OBVIOUS
<1>2. PICK f : Keeps(f, l \o m, S) /\ Kept(l \o m, S) = f[Len(l \o m)]
  BY <1>1, KeptHas, Zenon
<1>3. Keeps(f, l, S)
  <2>1. \A i \in 1..Len(l) : i \in 1..Len(l \o m) /\ (l \o m)[i] = l[i]
    OBVIOUS
  <2>2. QED
    BY <1>2, <2>1 DEF Keeps
<1>4. Kept(l, S) = f[Len(l)]
  BY <1>1, <1>3, KeptEnds
<1> DEFINE N == {n \in 0..Len(m) : f[Len(l) + n] = f[Len(l)]}
<1>5. 0 \in N
  BY <1>1
<1>6. ASSUME NEW n \in 1..Len(m), n - 1 \in N
      PROVE  n \in N
  <2>1. Len(l) + n \in 1..Len(l \o m) /\ (l \o m)[Len(l) + n] = m[n] /\ n \in 0..Len(m)
    BY <1>1
  <2>2. f[Len(l) + n] = f[(Len(l) + n) - 1]
    BY <1>2, <2>1 DEF Keeps
  <2>3. (Len(l) + n) - 1 = Len(l) + (n - 1)
    BY <1>1
  <2>4. QED
    BY <2>1, <2>2, <2>3, <1>6
<1>7. Len(m) \in N
  <2> HIDE DEF N
  <2>1. \A n \in 0..Len(m) : n \in N
    BY <1>1, <1>5, <1>6, UpTo
  <2>2. QED
    BY <2>1, <1>1
<1>8. QED
  BY <1>1, <1>2, <1>4, <1>7

\* Everything is kept of records that are in S.
LEMMA KeptAll ==
  ASSUME NEW R, NEW S, NEW l \in Seq(R), \A i \in 1..Len(l) : l[i] \in S
  PROVE  Kept(l, S) = l
<1>1. Len(l) \in Nat
  OBVIOUS
<1>2. PICK f : Keeps(f, l, S) /\ Kept(l, S) = f[Len(l)]
  BY <1>1, KeptHas, Zenon
<1> DEFINE N == {n \in 0..Len(l) : f[n] \in Seq(R) /\ Len(f[n]) = n /\ \A i \in 1..n : f[n][i] = l[i]}
<1>3. 0 \in N
  <2>1. f[0] = <<>> /\ f[0] \in Seq(R) /\ Len(f[0]) = 0
    BY <1>2, EmptySeq DEF Keeps
  <2>2. 0 \in 0..Len(l) /\ \A i \in 1..0 : f[0][i] = l[i]
    BY <1>1
  <2>3. QED
    BY <2>1, <2>2, Zenon
<1>4. ASSUME NEW n \in 1..Len(l), n - 1 \in N
      PROVE  n \in N
  <2> DEFINE k == f[n - 1]
             e == l[n]
             m == Append(k, e)
  <2>1. k \in Seq(R) /\ Len(k) = n - 1 /\ \A i \in 1..(n - 1) : k[i] = l[i]
    BY <1>4
  <2>2. f[n] = m
    BY <1>2 DEF Keeps
  <2>3. e \in R
    OBVIOUS
  <2> HIDE DEF k, e
  <2>4. m \in Seq(R) /\ Len(m) = Len(k) + 1 /\ m[Len(k) + 1] = e /\ \A i \in 1..Len(k) : m[i] = k[i]
    BY <2>1, <2>3, AppendProperties
  <2> HIDE DEF m
  <2>5. Len(m) = n /\ m[n] = l[n]
    BY <2>1, <2>4 DEF e
  <2>6. \A i \in 1..n : m[i] = l[i]
    <3> SUFFICES ASSUME NEW i \in 1..n PROVE m[i] = l[i]
      OBVIOUS
    <3>1. i = n \/ i \in 1..(n - 1)
      OBVIOUS
    <3>2. QED
      BY <3>1, <2>1, <2>4, <2>5
  <2>7. n \in 0..Len(l)
    BY <1>1
  <2>8. QED
    BY <2>2, <2>4, <2>5, <2>6, <2>7
<1>5. Len(l) \in N
  <2> HIDE DEF N
  <2>1. \A n \in 0..Len(l) : n \in N
    BY <1>1, <1>3, <1>4, UpTo
  <2>2. QED
    BY <2>1, <1>1
<1>6. QED
  BY <1>1, <1>2, <1>5, SeqEqual

(***************************************************************************)
(* The states of a recovery.                                               *)
(***************************************************************************)

States ==
  [cat : [TableNames -> Nat], tname : [Tables -> TableNames], tables : Nat,
   rows : SUBSET [table : Nat, id : 0..MaxVal, val : 0..MaxVal], ok : BOOLEAN]

DdlRecords == {rec \in Records : isDDL(rec)}
RowRecords == {rec \in Records : rec.op \in {"insert", "delete"}}

\* What an insert or delete record does.
placed(x, rec) ==
  {r \in x.rows : ~(r.table = x.cat[rec.name] /\ r.id = rec.id)} \cup
  (IF rec.op = "insert" THEN {[table |-> x.cat[rec.name], id |-> rec.id, val |-> rec.val]} ELSE {})

\* A recovery that has failed does nothing more.
LEMMA ApplyFailed == ASSUME NEW x \in States, NEW rec, ~x.ok PROVE apply(x, rec) = x
  BY DEF apply

\* A record is of the schema or of a row.
LEMMA RecordOps ==
  ASSUME NEW rec \in Records
  PROVE  rec \in DdlRecords \/ rec \in RowRecords
  BY DEF Records, DdlRecords, RowRecords, isDDL

\* A row's record, with both of its outcomes.
LEMMA ApplyRow ==
  ASSUME NEW x \in States, NEW rec \in RowRecords, x.ok
  PROVE  apply(x, rec) = IF x.cat[rec.name] = NoTable THEN [x EXCEPT !.ok = FALSE]
                         ELSE [x EXCEPT !.rows = placed(x, rec)]
<1>1. rec.op = "insert" \/ rec.op = "delete"
  BY DEF RowRecords
<1>2. CASE x.cat[rec.name] = NoTable
  BY <1>1, <1>2 DEF apply, NoTable
<1>3. CASE x.cat[rec.name] # NoTable /\ rec.op = "insert"
  BY <1>3 DEF apply, placed
<1>4. CASE x.cat[rec.name] # NoTable /\ rec.op = "delete"
  BY <1>4 DEF apply, placed
<1>5. QED
  BY <1>1, <1>2, <1>3, <1>4

\* The state of a recovery that goes on.
fields(c, n, t, r) == [cat |-> c, tname |-> n, tables |-> t, rows |-> r, ok |-> TRUE]

\* A state whose names were replaced, field by field.
LEMMA WithFields ==
  ASSUME NEW x \in States, x.ok, NEW c, NEW n
  PROVE  /\ [x EXCEPT !.cat = c, !.tname = n] = fields(c, n, x.tables, x.rows)
         /\ [x EXCEPT !.cat = c] = fields(c, x.tname, x.tables, x.rows)
<1> DEFINE y == [x EXCEPT !.cat = c]
           z == [x EXCEPT !.cat = c, !.tname = n]
<1>1. y = fields(c, x.tname, x.tables, x.rows)
  <2>1. PICK b : b = TRUE
    OBVIOUS
  <2>2. x.ok = b
    BY <2>1 DEF States
  <2>3. y = [cat |-> c, tname |-> x.tname, tables |-> x.tables, rows |-> x.rows, ok |-> b]
    BY <2>2 DEF States
  <2>4. QED
    BY <2>1, <2>3 DEF fields
<1>2. z = [y EXCEPT !.tname = n]
  OBVIOUS
<1> HIDE DEF y, z
<1>3. z = fields(c, n, x.tables, x.rows)
  BY <1>1, <1>2 DEF fields
<1>4. QED
  BY <1>1, <1>3 DEF y, z

\* And its number of tables.
LEMMA WithTables ==
  ASSUME NEW z, NEW t, NEW c, NEW n, NEW k, NEW r, z = fields(c, n, k, r)
  PROVE  [z EXCEPT !.tables = t] = fields(c, n, t, r)
<1>1. PICK b : b = TRUE
  OBVIOUS
<1>2. z = [cat |-> c, tname |-> n, tables |-> k, rows |-> r, ok |-> b]
  BY <1>1 DEF fields
<1>3. [z EXCEPT !.tables = t] = [cat |-> c, tname |-> n, tables |-> t, rows |-> r, ok |-> b]
  BY <1>2
<1>4. QED
  BY <1>1, <1>3 DEF fields

\* CREATE, with both of its outcomes.
LEMMA ApplyCreate ==
  ASSUME NEW x \in States, NEW rec \in Records, x.ok, rec.op = "create"
  PROVE  apply(x, rec) = IF x.cat[rec.name] # NoTable THEN [x EXCEPT !.ok = FALSE]
                         ELSE fields([x.cat EXCEPT ![rec.name] = x.tables + 1],
                                     [x.tname EXCEPT ![x.tables + 1] = rec.name],
                                     x.tables + 1, x.rows)
<1>1. PICK c : c = [x.cat EXCEPT ![rec.name] = x.tables + 1]
  OBVIOUS
<1>2. PICK n : n = [x.tname EXCEPT ![x.tables + 1] = rec.name]
  OBVIOUS
<1>3. PICK t : t = x.tables + 1
  OBVIOUS
<1>4. apply(x, rec) = IF x.cat[rec.name] # NoTable THEN [x EXCEPT !.ok = FALSE]
                      ELSE [x EXCEPT !.cat = c, !.tname = n, !.tables = t]
  BY <1>1, <1>2, <1>3 DEF apply
<1>5. [x EXCEPT !.cat = c, !.tname = n, !.tables = t] = fields(c, n, t, x.rows)
  <2>1. PICK z : z = [x EXCEPT !.cat = c, !.tname = n]
    OBVIOUS
  <2>2. z = fields(c, n, x.tables, x.rows)
    BY <2>1, WithFields, Zenon
  <2>3. [x EXCEPT !.cat = c, !.tname = n, !.tables = t] = [z EXCEPT !.tables = t]
    BY <2>1
  <2>4. PICK k, r : k = x.tables /\ r = x.rows
    OBVIOUS
  <2>5. z = fields(c, n, k, r)
    BY <2>2, <2>4
  <2>6. [z EXCEPT !.tables = t] = fields(c, n, t, r)
    BY <2>5, WithTables
  <2>7. QED
    BY <2>3, <2>4, <2>6
<1>6. QED
  BY <1>1, <1>2, <1>3, <1>4, <1>5

\* RENAME, with both of its outcomes.
LEMMA ApplyRename ==
  ASSUME NEW x \in States, NEW rec \in Records, x.ok, rec.op = "rename"
  PROVE  apply(x, rec) =
           IF x.cat[rec.name] = NoTable \/ (rec.to # rec.name /\ x.cat[rec.to] # NoTable)
           THEN [x EXCEPT !.ok = FALSE]
           ELSE fields([x.cat EXCEPT ![rec.name] = NoTable, ![rec.to] = x.cat[rec.name]],
                       [x.tname EXCEPT ![x.cat[rec.name]] = rec.to],
                       x.tables, x.rows)
<1>1. apply(x, rec) =
        IF x.cat[rec.name] = NoTable \/ (rec.to # rec.name /\ x.cat[rec.to] # NoTable)
        THEN [x EXCEPT !.ok = FALSE]
        ELSE [x EXCEPT !.cat = [x.cat EXCEPT ![rec.name] = NoTable, ![rec.to] = x.cat[rec.name]],
                       !.tname = [x.tname EXCEPT ![x.cat[rec.name]] = rec.to]]
  BY DEF apply
<1>2. QED
  BY <1>1, WithFields, Zenon

\* DROP, with both of its outcomes.
LEMMA ApplyDrop ==
  ASSUME NEW x \in States, NEW rec \in Records, x.ok, rec.op = "drop"
  PROVE  apply(x, rec) = IF x.cat[rec.name] = NoTable THEN [x EXCEPT !.ok = FALSE]
                         ELSE fields([x.cat EXCEPT ![rec.name] = NoTable], x.tname,
                                     x.tables, x.rows)
<1>1. apply(x, rec) = IF x.cat[rec.name] = NoTable THEN [x EXCEPT !.ok = FALSE]
                      ELSE [x EXCEPT !.cat = [x.cat EXCEPT ![rec.name] = NoTable]]
  BY DEF apply
<1>2. QED
  BY <1>1, WithFields, Zenon

\* An update of a function stays in its type.
LEMMA ExceptType ==
  ASSUME NEW A, NEW B, NEW f \in [A -> B], NEW a, NEW b \in B
  PROVE  [f EXCEPT ![a] = b] \in [A -> B]
  OBVIOUS

\* One record leads to a state of recovery.
LEMMA ApplyType ==
  ASSUME NEW x \in States, NEW rec \in Records
  PROVE  apply(x, rec) \in States
<1>0. rec.name \in TableNames /\ rec.to \in TableNames /\ rec.id \in 0..MaxVal /\ rec.val \in 0..MaxVal
  BY DEF Records
<1> DEFINE Cat == [TableNames -> Nat]
           Name == [Tables -> TableNames]
<1>1. x.cat \in Cat /\ x.tname \in Name /\ x.tables \in Nat /\ x.ok \in BOOLEAN
      /\ x.rows \in SUBSET [table : Nat, id : 0..MaxVal, val : 0..MaxVal]
  BY DEF States
<1>2. [x EXCEPT !.ok = FALSE] \in States
  BY DEF States
<1>3. ASSUME NEW c \in Cat, NEW n \in Name, NEW t \in Nat
      PROVE  fields(c, n, t, x.rows) \in States
  BY <1>1 DEF States, fields
<1> HIDE DEF Cat, Name
<1>4. CASE ~x.ok
  BY <1>4, ApplyFailed
<1>5. CASE x.ok /\ rec \in RowRecords
  <2>1. placed(x, rec) \subseteq [table : Nat, id : 0..MaxVal, val : 0..MaxVal]
    BY <1>0, <1>1 DEF placed, Cat
  <2>2. [x EXCEPT !.rows = placed(x, rec)] \in States
    BY <2>1 DEF States
  <2>3. QED
    BY <1>2, <1>5, <2>2, ApplyRow
<1>6. CASE x.ok /\ rec.op = "create"
  <2>0. x.tables + 1 \in Nat
    BY <1>1
  <2>1. [x.cat EXCEPT ![rec.name] = x.tables + 1] \in Cat
    BY <1>1, <2>0, ExceptType, Zenon DEF Cat
  <2>2. [x.tname EXCEPT ![x.tables + 1] = rec.name] \in Name
    BY <1>0, <1>1, ExceptType, Zenon DEF Name
  <2>3. QED
    BY <1>2, <1>3, <1>6, <2>0, <2>1, <2>2, ApplyCreate, Zenon
<1>7. CASE x.ok /\ rec.op = "rename"
  <2>1. NoTable \in Nat /\ x.cat[rec.name] \in Nat
    BY <1>0, <1>1 DEF NoTable, Cat
  <2>2. [x.cat EXCEPT ![rec.name] = NoTable, ![rec.to] = x.cat[rec.name]] \in Cat
    BY <1>1, <2>1 DEF Cat
  <2>3. [x.tname EXCEPT ![x.cat[rec.name]] = rec.to] \in Name
    BY <1>0, <1>1, ExceptType, Zenon DEF Name
  <2>4. QED
    BY <1>1, <1>2, <1>3, <1>7, <2>2, <2>3, ApplyRename, Zenon
<1>8. CASE x.ok /\ rec.op = "drop"
  <2>1. [x.cat EXCEPT ![rec.name] = NoTable] \in Cat
    BY <1>1 DEF NoTable, Cat
  <2>2. QED
    BY <1>1, <1>2, <1>3, <1>8, <2>1, ApplyDrop, Zenon
<1>9. QED
  BY <1>4, <1>5, <1>6, <1>7, <1>8, RecordOps DEF DdlRecords, isDDL

\* The database before recovery is such a state.
LEMMA NothingType == NothingReplayed \in States
  BY EngineAssumption DEF NothingReplayed, States, NoTable

\* So do many.
LEMMA ReplayType ==
  ASSUME NEW x \in States, NEW l \in Seq(Records)
  PROVE  Replay(x, l) \in States
<1> DEFINE T == [i \in 0..Len(l) |-> States]
<1>1. Len(l) \in Nat /\ \A i \in 1..Len(l) : l[i] \in Records
  OBVIOUS
<1>2. x \in T[0]
  BY <1>1
<1>3. \A i \in 1..Len(l) : \A y \in T[i - 1] : apply(y, l[i]) \in T[i]
  BY <1>1, ApplyType
<1>4. Replay(x, l) \in T[Len(l)]
  <2> HIDE DEF T
  <2>1. QED
    BY <1>1, <1>2, <1>3, ReplayFollows
<1>5. QED
  BY <1>1, <1>4

\* And so does the whole log.
LEMMA ReplayedType ==
  ASSUME NEW l \in Seq(Records)
  PROVE  Replayed(l) \in States
  BY NothingType, ReplayType DEF Replayed

(***************************************************************************)
(* What one record changes, and what it leaves alone.                      *)
(***************************************************************************)

\* The schema two states of a recovery have in common.
Alike(x, y) == x.cat = y.cat /\ x.tname = y.tname /\ x.tables = y.tables /\ (x.ok <=> y.ok)

\* A row's record leaves the tables alone.
LEMMA RowEffect ==
  ASSUME NEW x \in States, NEW rec \in RowRecords, x.ok, x.cat[rec.name] # NoTable
  PROVE  Alike(apply(x, rec), x) /\ apply(x, rec).rows = placed(x, rec)
<1>1. apply(x, rec) = [x EXCEPT !.rows = placed(x, rec)]
  BY ApplyRow
<1>2. QED
  BY <1>1 DEF States, Alike

\* A schema statement leaves the rows alone, and takes no table away.
LEMMA DdlEffect ==
  ASSUME NEW x \in States, NEW rec \in DdlRecords
  PROVE  apply(x, rec).rows = x.rows /\ x.tables <= apply(x, rec).tables
<1>0. rec \in Records /\ x.tables \in Nat
  BY DEF States, DdlRecords
<1>1. [x EXCEPT !.ok = FALSE].rows = x.rows /\ [x EXCEPT !.ok = FALSE].tables = x.tables
  BY DEF States
<1>3. \/ apply(x, rec) = x
      \/ apply(x, rec) = [x EXCEPT !.ok = FALSE]
      \/ \E c, n : apply(x, rec) = fields(c, n, x.tables + 1, x.rows)
      \/ \E c, n : apply(x, rec) = fields(c, n, x.tables, x.rows)
  <2>1. CASE ~x.ok
    BY <2>1, ApplyFailed
  <2>2. CASE x.ok /\ rec.op = "create"
    BY <1>0, <2>2, ApplyCreate, Zenon
  <2>3. CASE x.ok /\ rec.op = "rename"
    BY <1>0, <2>3, ApplyRename, Zenon
  <2>4. CASE x.ok /\ rec.op = "drop"
    BY <1>0, <2>4, ApplyDrop, Zenon
  <2>5. QED
    BY <2>1, <2>2, <2>3, <2>4 DEF DdlRecords, isDDL
<1>4. CASE apply(x, rec) = x
  BY <1>0, <1>4
<1>5. CASE apply(x, rec) = [x EXCEPT !.ok = FALSE]
  BY <1>0, <1>1, <1>5
<1>6. ASSUME NEW c, NEW n, NEW t \in {x.tables, x.tables + 1}, apply(x, rec) = fields(c, n, t, x.rows)
      PROVE  apply(x, rec).rows = x.rows /\ x.tables <= apply(x, rec).tables
  <2>1. fields(c, n, t, x.rows).rows = x.rows /\ fields(c, n, t, x.rows).tables = t
    BY DEF fields
  <2>2. QED
    BY <1>0, <1>6, <2>1
<1>7. QED
  BY <1>3, <1>4, <1>5, <1>6

\* A statement does the same to two states with the same schema.
LEMMA DdlAlike ==
  ASSUME NEW x \in States, NEW y \in States, NEW rec \in DdlRecords, Alike(x, y)
  PROVE  Alike(apply(x, rec), apply(y, rec))
<1>0. x.ok \in BOOLEAN /\ y.ok \in BOOLEAN /\ rec \in Records
  BY DEF States, DdlRecords
<1>1. Alike([x EXCEPT !.ok = FALSE], [y EXCEPT !.ok = FALSE])
  BY DEF Alike, States
<1>2. CASE ~x.ok
  BY <1>2, ApplyFailed DEF Alike
<1>3. CASE x.ok /\ rec.op = "create"
  <2>1. y.ok /\ y.cat = x.cat /\ y.tname = x.tname /\ y.tables = x.tables
    BY <1>3 DEF Alike
  <2>2. CASE x.cat[rec.name] # NoTable
    BY <1>0, <1>1, <1>3, <2>1, <2>2, ApplyCreate
  <2>3. CASE x.cat[rec.name] = NoTable
    BY <1>0, <1>3, <2>1, <2>3, ApplyCreate DEF Alike, fields
  <2>4. QED
    BY <2>2, <2>3
<1>4. CASE x.ok /\ rec.op = "rename"
  <2>1. y.ok /\ y.cat = x.cat /\ y.tname = x.tname /\ y.tables = x.tables
    BY <1>4 DEF Alike
  <2>2. CASE x.cat[rec.name] = NoTable \/ (rec.to # rec.name /\ x.cat[rec.to] # NoTable)
    BY <1>0, <1>1, <1>4, <2>1, <2>2, ApplyRename
  <2>3. CASE ~(x.cat[rec.name] = NoTable \/ (rec.to # rec.name /\ x.cat[rec.to] # NoTable))
    BY <1>0, <1>4, <2>1, <2>3, ApplyRename DEF Alike, fields
  <2>4. QED
    BY <2>2, <2>3
<1>5. CASE x.ok /\ rec.op = "drop"
  <2>1. y.ok /\ y.cat = x.cat /\ y.tname = x.tname /\ y.tables = x.tables
    BY <1>5 DEF Alike
  <2>2. CASE x.cat[rec.name] = NoTable
    BY <1>0, <1>1, <1>5, <2>1, <2>2, ApplyDrop
  <2>3. CASE x.cat[rec.name] # NoTable
    BY <1>0, <1>5, <2>1, <2>3, ApplyDrop DEF Alike, fields
  <2>4. QED
    BY <2>2, <2>3
<1>6. QED
  BY <1>2, <1>3, <1>4, <1>5 DEF DdlRecords, isDDL

\* A record after which recovery goes on is one before which it did.
LEMMA FailureStays ==
  ASSUME NEW x \in States, NEW rec \in Records, apply(x, rec).ok
  PROVE  x.ok /\ (rec \in RowRecords => x.cat[rec.name] # NoTable)
<1>1. x.ok
  BY ApplyFailed
<1>2. ASSUME rec \in RowRecords, x.cat[rec.name] = NoTable PROVE FALSE
  <2>1. apply(x, rec) = [x EXCEPT !.ok = FALSE]
    BY <1>1, <1>2, ApplyRow
  <2>2. [x EXCEPT !.ok = FALSE].ok = FALSE
    BY DEF States
  <2>3. QED
    BY <2>1, <2>2
<1>3. QED
  BY <1>1, <1>2

(***************************************************************************)
(* Tables and rows that belong together.                                   *)
(***************************************************************************)
Consistent(x) ==
  /\ \A n \in TableNames : x.cat[n] # NoTable => x.cat[n] \in 1..x.tables /\ x.tname[x.cat[n]] = n
  /\ \A r \in x.rows : r.table \in 1..x.tables
  /\ \A r, q \in x.rows : r.table = q.table /\ r.id = q.id => r = q
  /\ IsFiniteSet(x.rows)

\* Placing a row keeps rows apart and in tables there are.
LEMMA PlacedConsistent ==
  ASSUME NEW x \in States, NEW rec \in RowRecords, x.cat[rec.name] # NoTable, Consistent(x)
  PROVE  /\ \A r \in placed(x, rec) : r.table \in 1..x.tables
         /\ \A r, q \in placed(x, rec) : r.table = q.table /\ r.id = q.id => r = q
         /\ IsFiniteSet(placed(x, rec))
<1>1. rec.name \in TableNames
  BY DEF RowRecords, Records
<1>2. x.cat[rec.name] \in 1..x.tables
  BY <1>1 DEF Consistent
<1>3. \A r \in placed(x, rec) : r.table \in 1..x.tables
  BY <1>2 DEF placed, Consistent
<1>4. \A r, q \in placed(x, rec) : r.table = q.table /\ r.id = q.id => r = q
  BY DEF placed, Consistent
<1>5. IsFiniteSet(placed(x, rec))
  <2> DEFINE others == {r \in x.rows : ~(r.table = x.cat[rec.name] /\ r.id = rec.id)}
             new == [table |-> x.cat[rec.name], id |-> rec.id, val |-> rec.val]
  <2>1. IsFiniteSet(others)
    BY FS_Subset DEF Consistent
  <2> HIDE DEF others
  <2>2. IsFiniteSet(others \cup {new})
    BY <2>1, FS_AddElement
  <2>3. placed(x, rec) = others \/ placed(x, rec) = others \cup {new}
    BY DEF placed, others
  <2>4. QED
    BY <2>1, <2>2, <2>3
<1>6. QED
  BY <1>3, <1>4, <1>5

\* One record keeps a state consistent, as long as there are no more tables than MaxTable.
LEMMA ApplyConsistent ==
  ASSUME NEW x \in States, NEW rec \in Records, Consistent(x), apply(x, rec).tables <= MaxTable
  PROVE  Consistent(apply(x, rec))
<1>0. x.ok \in BOOLEAN /\ x.tables \in Nat /\ x.cat \in [TableNames -> Nat]
      /\ x.tname \in [Tables -> TableNames] /\ MaxTable \in Nat
      /\ rec.name \in TableNames /\ rec.to \in TableNames
  BY EngineAssumption DEF States, Records
<1>1. Consistent([x EXCEPT !.ok = FALSE])
  BY DEF Consistent, States
<1>2. CASE ~x.ok
  BY <1>2, ApplyFailed
<1>3. CASE x.ok /\ rec \in RowRecords
  <2>1. CASE x.cat[rec.name] = NoTable
    BY <1>1, <1>3, <2>1, ApplyRow
  <2>2. CASE x.cat[rec.name] # NoTable
    <3>1. Alike(apply(x, rec), x) /\ apply(x, rec).rows = placed(x, rec)
      BY <1>3, <2>2, RowEffect
    <3>2. QED
      BY <1>3, <2>2, <3>1, PlacedConsistent DEF Consistent, Alike
  <2>3. QED
    BY <2>1, <2>2
<1>4. CASE x.ok /\ rec.op = "create"
  <2>1. CASE x.cat[rec.name] # NoTable
    BY <1>1, <1>4, <2>1, ApplyCreate
  <2>2. CASE x.cat[rec.name] = NoTable
    <3> DEFINE y == apply(x, rec)
               t == x.tables + 1
    <3>1. y.cat = [x.cat EXCEPT ![rec.name] = t] /\ y.tname = [x.tname EXCEPT ![t] = rec.name]
          /\ y.tables = t /\ y.rows = x.rows
      BY <1>4, <2>2, ApplyCreate DEF fields
    <3>2. t \in Tables /\ t \in Nat /\ x.tables \in Nat /\ x.tables < t
      BY <1>0, <3>1 DEF Tables
    <3> HIDE DEF y, t
    <3>3. ASSUME NEW n \in TableNames, y.cat[n] # NoTable
          PROVE  y.cat[n] \in 1..y.tables /\ y.tname[y.cat[n]] = n
      <4>1. CASE n = rec.name
        <5>1. y.cat[n] = t
          BY <1>0, <3>1, <4>1, Zenon
        <5>2. y.tname[t] = rec.name
          BY <1>0, <3>1, <3>2, Zenon
        <5>3. QED
          BY <5>1, <5>2, <3>1, <3>2, <4>1 DEF Tables
      <4>2. CASE n # rec.name
        <5>1. y.cat[n] = x.cat[n]
          BY <1>0, <3>1, <4>2, Zenon
        <5>2. x.cat[n] \in 1..x.tables /\ x.tname[x.cat[n]] = n
          BY <3>3, <5>1 DEF Consistent
        <5>3. x.cat[n] # t
          BY <5>2, <3>2
        <5>4. x.cat[n] \in Tables
          BY <5>2, <3>2, <1>0 DEF Tables
        <5>5. y.tname[x.cat[n]] = x.tname[x.cat[n]]
          BY <1>0, <3>1, <5>3, <5>4, Zenon
        <5>6. x.cat[n] \in 1..t
          BY <5>2, <3>2
        <5>7. QED
          BY <5>1, <5>2, <5>5, <5>6, <3>1
      <4>3. QED
        BY <4>1, <4>2
    <3>4. \A r \in y.rows : r.table \in 1..y.tables
      BY <3>1, <3>2 DEF Consistent
    <3>5. QED
      BY <3>1, <3>3, <3>4 DEF Consistent, y
  <2>3. QED
    BY <2>1, <2>2
<1>5. CASE x.ok /\ rec.op = "rename"
  <2>1. CASE x.cat[rec.name] = NoTable \/ (rec.to # rec.name /\ x.cat[rec.to] # NoTable)
    BY <1>1, <1>5, <2>1, ApplyRename
  <2>2. CASE ~(x.cat[rec.name] = NoTable \/ (rec.to # rec.name /\ x.cat[rec.to] # NoTable))
    <3> DEFINE y == apply(x, rec)
               t == x.cat[rec.name]
    <3>1. y.cat = [x.cat EXCEPT ![rec.name] = NoTable, ![rec.to] = t]
          /\ y.tname = [x.tname EXCEPT ![t] = rec.to] /\ y.tables = x.tables /\ y.rows = x.rows
      BY <1>5, <2>2, ApplyRename DEF fields
    <3>2. t \in 1..x.tables /\ x.tname[t] = rec.name /\ t # NoTable
      BY <2>2, <1>0 DEF Consistent
    <3>3. x.tables <= MaxTable
      BY <3>1
    <3>4. t \in Tables
      BY <3>2, <3>3, <1>0 DEF Tables
    <3> HIDE DEF y, t
    <3>5. ASSUME NEW n \in TableNames, y.cat[n] # NoTable
          PROVE  y.cat[n] \in 1..y.tables /\ y.tname[y.cat[n]] = n
      <4>1. CASE n = rec.to
        BY <1>0, <3>1, <3>2, <3>4, <4>1
      <4>2. CASE n # rec.to
        <5>1. n # rec.name /\ y.cat[n] = x.cat[n]
          BY <1>0, <3>1, <3>5, <4>2
        <5>2. x.cat[n] \in 1..x.tables /\ x.tname[x.cat[n]] = n
          BY <3>5, <5>1 DEF Consistent
        <5>3. x.cat[n] # t
          BY <5>1, <5>2, <3>2
        <5>4. x.cat[n] \in Tables
          BY <5>2, <3>3, <1>0 DEF Tables
        <5>5. y.tname[x.cat[n]] = x.tname[x.cat[n]]
          BY <1>0, <3>1, <5>3, <5>4, Zenon
        <5>6. QED
          BY <5>1, <5>2, <5>5, <3>1
      <4>3. QED
        BY <4>1, <4>2
    <3>6. QED
      BY <3>1, <3>5 DEF Consistent, y
  <2>3. QED
    BY <2>1, <2>2
<1>6. CASE x.ok /\ rec.op = "drop"
  <2>1. CASE x.cat[rec.name] = NoTable
    BY <1>1, <1>6, <2>1, ApplyDrop
  <2>2. CASE x.cat[rec.name] # NoTable
    <3> DEFINE y == apply(x, rec)
    <3>1. y.cat = [x.cat EXCEPT ![rec.name] = NoTable]
          /\ y.tname = x.tname /\ y.tables = x.tables /\ y.rows = x.rows
      BY <1>6, <2>2, ApplyDrop DEF fields
    <3> HIDE DEF y
    <3>2. ASSUME NEW n \in TableNames, y.cat[n] # NoTable
          PROVE  y.cat[n] = x.cat[n]
      BY <1>0, <3>1, <3>2
    <3>3. QED
      BY <3>1, <3>2 DEF Consistent, y
  <2>3. QED
    BY <2>1, <2>2
<1>7. QED
  BY <1>2, <1>3, <1>4, <1>5, <1>6, RecordOps DEF DdlRecords, isDDL

(***************************************************************************)
(* What a whole log does.                                                  *)
(***************************************************************************)

\* The number of tables recovery has made only grows, so that a log it reads to
\* the end with few enough of them kept to few enough all along.
LEMMA ReplayConsistent ==
  ASSUME NEW x \in States, NEW l \in Seq(Records), Consistent(x), Replay(x, l).tables <= MaxTable
  PROVE  Consistent(Replay(x, l))
<1>0. Len(l) \in Nat /\ (\A i \in 1..Len(l) : l[i] \in Records) /\ MaxTable \in Nat
  BY EngineAssumption
<1> DEFINE Good == {y \in States : y.tables <= MaxTable => Consistent(y)}
           T == [i \in 0..Len(l) |-> Good]
<1>1. ASSUME NEW y \in Good, NEW rec \in Records
      PROVE  apply(y, rec) \in Good
  <2>1. y \in States /\ apply(y, rec) \in States
    BY ApplyType
  <2>2. y.tables \in Nat /\ apply(y, rec).tables \in Nat
    BY <2>1 DEF States
  <2>3. y.tables <= apply(y, rec).tables
    <3>1. CASE rec \in DdlRecords
      BY <2>1, <3>1, DdlEffect
    <3>2. CASE rec \in RowRecords /\ y.ok /\ y.cat[rec.name] # NoTable
      BY <2>1, <2>2, <3>2, RowEffect DEF Alike
    <3>3. CASE rec \in RowRecords /\ y.ok /\ y.cat[rec.name] = NoTable
      <4>1. apply(y, rec) = [y EXCEPT !.ok = FALSE]
        BY <2>1, <3>3, ApplyRow
      <4>2. [y EXCEPT !.ok = FALSE].tables = y.tables
        BY <2>1 DEF States
      <4>3. QED
        BY <2>2, <4>1, <4>2
    <3>4. CASE ~y.ok
      BY <2>1, <2>2, <3>4, ApplyFailed
    <3>5. QED
      BY <3>1, <3>2, <3>3, <3>4, RecordOps
  <2>4. QED
    BY <1>0, <2>1, <2>2, <2>3, ApplyConsistent
<1>2. x \in T[0]
  BY <1>0
<1>3. \A i \in 1..Len(l) : \A y \in T[i - 1] : apply(y, l[i]) \in T[i]
  <2> SUFFICES ASSUME NEW i \in 1..Len(l), NEW y \in T[i - 1] PROVE apply(y, l[i]) \in T[i]
    OBVIOUS
  <2>1. T[i - 1] = Good /\ T[i] = Good
    BY <1>0
  <2> HIDE DEF T, Good
  <2>2. QED
    BY <1>0, <1>1, <2>1
<1>4. Replay(x, l) \in T[Len(l)]
  <2> HIDE DEF T
  <2>1. QED
    BY <1>0, <1>2, <1>3, ReplayFollows
<1>5. QED
  BY <1>0, <1>4

\* Recovery makes a consistent state.
LEMMA ReplayedConsistent ==
  ASSUME NEW l \in Seq(Records), Replayed(l).tables <= MaxTable
  PROVE  Consistent(Replayed(l))
<1>1. Consistent(NothingReplayed)
  BY FS_EmptySet DEF Consistent, NothingReplayed, NoTable
<1>2. QED
  BY <1>1, NothingType, ReplayConsistent DEF Replayed

\* Every row that recovery ends with is one the log says to insert.
LEMMA RowsInserted ==
  ASSUME NEW l \in Seq(Records), NEW r \in Replayed(l).rows
  PROVE  \E i \in 1..Len(l) : l[i].op = "insert" /\ l[i].id = r.id /\ l[i].val = r.val
<1>0. Len(l) \in Nat /\ \A i \in 1..Len(l) : l[i] \in Records
  OBVIOUS
<1> DEFINE From(i) == {q \in [table : Nat, id : 0..MaxVal, val : 0..MaxVal] :
                         \E j \in 1..i : l[j].op = "insert" /\ l[j].id = q.id /\ l[j].val = q.val}
           T == [i \in 0..Len(l) |-> {y \in States : y.rows \subseteq From(i)}]
<1>1. ASSUME NEW i \in 1..Len(l), NEW y \in States, y.rows \subseteq From(i - 1)
      PROVE  apply(y, l[i]).rows \subseteq From(i)
  <2>1. From(i - 1) \subseteq From(i)
    OBVIOUS
  <2>2. y.rows \subseteq From(i)
    BY <1>1, <2>1
  <2>3. l[i] \in Records
    BY <1>0
  <2>4. apply(y, l[i]) \in States
    BY <2>3, ApplyType
  <2>5. apply(y, l[i]).rows \subseteq [table : Nat, id : 0..MaxVal, val : 0..MaxVal]
    BY <2>4 DEF States
  <2>6. CASE l[i] \in DdlRecords
    <3> HIDE DEF From
    <3>1. QED
      BY <2>2, <2>6, DdlEffect
  <2>7. CASE l[i] \in RowRecords /\ y.ok /\ y.cat[l[i].name] # NoTable
    <3>1. apply(y, l[i]).rows = placed(y, l[i])
      BY <2>7, RowEffect
    <3> SUFFICES ASSUME NEW q \in placed(y, l[i]) PROVE q \in From(i)
      BY <3>1
    <3>2. CASE q \in y.rows
      BY <3>2, <2>2
    <3>3. CASE q \notin y.rows
      <4>1. l[i].op = "insert" /\ q = [table |-> y.cat[l[i].name], id |-> l[i].id, val |-> l[i].val]
        BY <3>3 DEF placed
      <4>2. q.id = l[i].id /\ q.val = l[i].val /\ i \in 1..i
        BY <4>1
      <4>3. q \in [table : Nat, id : 0..MaxVal, val : 0..MaxVal]
        BY <2>5, <3>1
      <4>4. QED
        BY <4>1, <4>2, <4>3
    <3>4. QED
      BY <3>2, <3>3
  <2>8. CASE l[i] \in RowRecords /\ y.ok /\ y.cat[l[i].name] = NoTable
    <3>1. apply(y, l[i]) = [y EXCEPT !.ok = FALSE]
      BY <2>8, ApplyRow
    <3>2. [y EXCEPT !.ok = FALSE].rows = y.rows
      BY DEF States
    <3> HIDE DEF From
    <3>3. QED
      BY <2>2, <3>1, <3>2
  <2>9. CASE ~y.ok
    <3> HIDE DEF From
    <3>1. QED
      BY <2>2, <2>9, ApplyFailed
  <2>10. QED
    BY <2>3, <2>6, <2>7, <2>8, <2>9, RecordOps
<1>2. NothingReplayed \in T[0]
  BY <1>0, NothingType DEF NothingReplayed
<1>3. \A i \in 1..Len(l) : \A y \in T[i - 1] : apply(y, l[i]) \in T[i]
  <2> SUFFICES ASSUME NEW i \in 1..Len(l), NEW y \in T[i - 1] PROVE apply(y, l[i]) \in T[i]
    OBVIOUS
  <2>1. y \in States /\ y.rows \subseteq From(i - 1)
    BY <1>0
  <2>2. apply(y, l[i]).rows \subseteq From(i)
    BY <1>1, <2>1
  <2>3. apply(y, l[i]) \in States
    BY <1>0, <2>1, ApplyType
  <2> HIDE DEF From
  <2>4. QED
    BY <2>2, <2>3, <1>0
<1>4. Replay(NothingReplayed, l) \in T[Len(l)]
  <2> HIDE DEF T
  <2>1. QED
    BY <1>0, <1>2, <1>3, ReplayFollows
<1>5. QED
  BY <1>0, <1>4 DEF Replayed

(***************************************************************************)
(* The history of a log.                                                   *)
(***************************************************************************)

\* A history holds schema statements.
LEMMA HistoryType ==
  ASSUME NEW l \in Seq(Records)
  PROVE  History(l) \in Seq(Records) /\ \A i \in 1..Len(History(l)) : isDDL(History(l)[i])
<1>1. PICK h : Picks(h, History(l), l, Len(l), DdlRecords)
  BY KeptPicks DEF History, DdlRecords
<1>2. History(l) \in Seq(Records)
  BY KeptPicks DEF History
<1>3. ASSUME NEW i \in 1..Len(History(l))
      PROVE  isDDL(History(l)[i])
  <2>1. l[h[i]] \in DdlRecords /\ History(l)[i] = l[h[i]]
    BY <1>1 DEF Picks
  <2>2. QED
    BY <2>1 DEF DdlRecords
<1>4. QED
  BY <1>2, <1>3

\* A schema statement at the end of the log is at the end of the history.
LEMMA HistoryAppend ==
  ASSUME NEW l \in Seq(Records), NEW rec \in Records
  PROVE  History(Append(l, rec)) = IF isDDL(rec) THEN Append(History(l), rec) ELSE History(l)
<1>1. rec \in DdlRecords <=> isDDL(rec)
  BY DEF DdlRecords
<1>2. QED
  BY <1>1, KeptAppend DEF History, DdlRecords

\* Rows at the end of the log leave the history as it is.
LEMMA HistoryOfRows ==
  ASSUME NEW l \in Seq(Records), NEW p \in Seq(RowRecords)
  PROVE  History(l \o p) = History(l)
<1>1. p \in Seq(Records)
  BY SeqMonotonic DEF RowRecords
<1>2. \A i \in 1..Len(p) : p[i] \notin DdlRecords
  <2>1. \A i \in 1..Len(p) : p[i] \in RowRecords
    OBVIOUS
  <2>2. QED
    BY <2>1 DEF DdlRecords, RowRecords, isDDL
<1>3. QED
  BY <1>1, <1>2, KeptNone DEF History, DdlRecords

\* A log of schema statements is its own history.
LEMMA HistoryOfSchema ==
  ASSUME NEW l \in Seq(Records), \A i \in 1..Len(l) : isDDL(l[i])
  PROVE  History(l) = l
<1>1. \A i \in 1..Len(l) : l[i] \in DdlRecords
  <2>1. \A i \in 1..Len(l) : l[i] \in Records
    OBVIOUS
  <2>2. QED
    BY <2>1 DEF DdlRecords
<1>2. QED
  BY <1>1, KeptAll DEF History, DdlRecords

\* The history by itself makes the tables that the whole log makes, and no rows:
\* what a checkpoint begins with.
LEMMA HistoryMakesTables ==
  ASSUME NEW l \in Seq(Records), Replayed(l).ok
  PROVE  Alike(Replayed(History(l)), Replayed(l)) /\ Replayed(History(l)).rows = {}
<1>0. Len(l) \in Nat /\ \A i \in 1..Len(l) : l[i] \in Records
  OBVIOUS
<1>1. PICK f : Steps(f, NothingReplayed, l) /\ Replayed(l) = f[Len(l)]
  BY <1>0, ReplayHas DEF Replayed
<1>2. PICK k : Keeps(k, l, DdlRecords) /\ History(l) = k[Len(l)]
  BY <1>0, KeptHas DEF History, DdlRecords
<1> DEFINE Same(i) == Alike(Replayed(k[i]), f[i]) /\ Replayed(k[i]).rows = {}
           N == {i \in 0..Len(l) : f[i] \in States /\ k[i] \in Seq(Records) /\ (f[i].ok => Same(i))}
<1>3. 0 \in N
  <2>1. f[0] = NothingReplayed /\ k[0] = <<>> /\ k[0] \in Seq(Records)
    BY <1>1, <1>2, EmptySeq DEF Steps, Keeps
  <2>2. Replayed(k[0]) = NothingReplayed
    BY <2>1, ReplayEmpty DEF Replayed
  <2>3. Same(0)
    BY <2>1, <2>2 DEF Alike, NothingReplayed
  <2>4. 0 \in 0..Len(l) /\ f[0] \in States
    BY <1>0, <2>1, NothingType
  <2> HIDE DEF Same
  <2>5. QED
    BY <2>1, <2>3, <2>4, Zenon
<1>4. ASSUME NEW i \in 1..Len(l), i - 1 \in N
      PROVE  i \in N
  <2>1. f[i - 1] \in States /\ k[i - 1] \in Seq(Records) /\ (f[i - 1].ok => Same(i - 1))
    BY <1>4
  <2>2. f[i] = apply(f[i - 1], l[i]) /\ l[i] \in Records
    BY <1>0, <1>1 DEF Steps
  <2>3. f[i] \in States
    BY <2>1, <2>2, ApplyType
  <2>4. k[i] = IF l[i] \in DdlRecords THEN Append(k[i - 1], l[i]) ELSE k[i - 1]
    BY <1>2 DEF Keeps
  <2>5. k[i] \in Seq(Records)
    BY <2>1, <2>2, <2>4
  <2>6. ASSUME f[i].ok PROVE Same(i)
    <3>1. f[i - 1].ok /\ (l[i] \in RowRecords => f[i - 1].cat[l[i].name] # NoTable)
      BY <2>1, <2>2, <2>6, FailureStays
    <3>2. Alike(Replayed(k[i - 1]), f[i - 1]) /\ Replayed(k[i - 1]).rows = {}
      BY <2>1, <3>1
    <3>3. CASE l[i] \in DdlRecords
      <4>1. Replayed(k[i]) = apply(Replayed(k[i - 1]), l[i])
        BY <2>1, <2>2, <2>4, <3>3, ReplayAppend DEF Replayed
      <4>2. Replayed(k[i - 1]) \in States
        BY <2>1, ReplayedType
      <4>3. QED
        BY <2>1, <2>2, <3>2, <3>3, <4>1, <4>2, DdlAlike, DdlEffect
    <3>4. CASE l[i] \notin DdlRecords
      <4>1. l[i] \in RowRecords
        BY <2>2, <3>4, RecordOps
      <4>2. Alike(f[i], f[i - 1])
        BY <2>1, <2>2, <3>1, <4>1, RowEffect
      <4>3. QED
        BY <2>4, <3>2, <3>4, <4>2 DEF Alike
    <3>5. QED
      BY <3>3, <3>4
  <2> HIDE DEF Same
  <2>7. QED
    BY <1>0, <2>3, <2>5, <2>6
<1>5. Len(l) \in N
  <2> HIDE DEF N
  <2>1. \A i \in 0..Len(l) : i \in N
    BY <1>0, <1>3, <1>4, UpTo
  <2>2. QED
    BY <2>1, <1>0
<1>6. QED
  BY <1>1, <1>2, <1>5

(***************************************************************************)
(* The rows of one transaction, or of one checkpoint.                      *)
(***************************************************************************)

\* Every record is about a table there is.
Placeable(x, p) == \A i \in 1..Len(p) : x.cat[p[i].name] # NoTable

\* A row is inserted once, and deleted after that.
Orderly(p) ==
  \A i, j \in 1..Len(p) :
    i < j /\ p[i].name = p[j].name /\ p[i].id = p[j].id => p[i].op = "insert" /\ p[j].op = "delete"

\* The identities of the rows inserted are new.
Fresh(x, p) ==
  \A i \in 1..Len(p) : p[i].op = "insert" =>
    \A r \in x.rows : ~(r.table = x.cat[p[i].name] /\ r.id = p[i].id)

\* The rows after the first n records of p: old ones and new ones, less those deleted.
InsertedIn(x, p, n, r) ==
  \E i \in 1..n : p[i].op = "insert" /\ r = [table |-> x.cat[p[i].name], id |-> p[i].id, val |-> p[i].val]
DeletedIn(x, p, n, r) ==
  \E i \in 1..n : p[i].op = "delete" /\ r.table = x.cat[p[i].name] /\ r.id = p[i].id
After(x, p, n) ==
  {r \in [table : Nat, id : 0..MaxVal, val : 0..MaxVal] :
     (r \in x.rows \/ InsertedIn(x, p, n, r)) /\ ~DeletedIn(x, p, n, r)}

\* A frame of rows of tables there are can be replayed, and makes no tables.
LEMMA BatchRuns ==
  ASSUME NEW x \in States, NEW p \in Seq(RowRecords), x.ok, Placeable(x, p)
  PROVE  Alike(Replay(x, p), x)
<1>0. Len(p) \in Nat /\ \A i \in 1..Len(p) : p[i] \in RowRecords /\ p[i] \in Records
  BY DEF RowRecords
<1> DEFINE Good == {y \in States : Alike(y, x)}
           T == [i \in 0..Len(p) |-> Good]
<1>1. x \in T[0]
  BY <1>0 DEF Alike
<1>2. ASSUME NEW i \in 1..Len(p), NEW y \in Good
      PROVE  apply(y, p[i]) \in Good
  <2>1. y.ok /\ y.cat[p[i].name] # NoTable /\ p[i] \in RowRecords /\ p[i] \in Records /\ y \in States
    BY <1>0 DEF Placeable, Alike
  <2>2. Alike(apply(y, p[i]), y)
    BY <2>1, RowEffect
  <2>3. QED
    BY <2>1, <2>2, ApplyType DEF Alike
<1>3. \A i \in 1..Len(p) : \A y \in T[i - 1] : apply(y, p[i]) \in T[i]
  <2> SUFFICES ASSUME NEW i \in 1..Len(p), NEW y \in T[i - 1] PROVE apply(y, p[i]) \in T[i]
    OBVIOUS
  <2>1. T[i - 1] = Good /\ T[i] = Good
    BY <1>0
  <2> HIDE DEF T, Good
  <2>2. QED
    BY <1>2, <2>1
<1>4. Replay(x, p) \in T[Len(p)]
  <2> HIDE DEF T
  <2>1. QED
    BY <1>0, <1>1, <1>3, ReplayFollows
<1>5. QED
  BY <1>0, <1>4

\* The rows after a frame: those it does not touch, and those its inserts leave.
LEMMA BatchRows ==
  ASSUME NEW x \in States, NEW p \in Seq(RowRecords), x.ok, Consistent(x),
         Placeable(x, p), Orderly(p), Fresh(x, p)
  PROVE  Replay(x, p).rows = After(x, p, Len(p))
<1>0. Len(p) \in Nat /\ \A i \in 1..Len(p) : p[i] \in RowRecords /\ p[i] \in Records
  BY DEF RowRecords
<1> DEFINE Good(n) == {y \in States : Alike(y, x) /\ y.rows = After(x, p, n)}
           T == [i \in 0..Len(p) |-> Good(i)]
<1>1. x \in T[0]
  <2>1. x.rows \subseteq [table : Nat, id : 0..MaxVal, val : 0..MaxVal]
    BY DEF States
  <2>2. \A r : ~InsertedIn(x, p, 0, r) /\ ~DeletedIn(x, p, 0, r)
    BY DEF InsertedIn, DeletedIn
  <2>3. x.rows = After(x, p, 0)
    BY <2>1, <2>2 DEF After
  <2>4. QED
    BY <1>0, <2>3 DEF Alike
<1>2. ASSUME NEW n \in 1..Len(p), NEW y \in Good(n - 1)
      PROVE  apply(y, p[n]) \in Good(n)
  <2> DEFINE rec == p[n]
             t == x.cat[rec.name]
             z == apply(y, rec)
  <2>1. y.ok /\ y.cat[rec.name] # NoTable /\ rec \in RowRecords /\ rec \in Records /\ y \in States
        /\ y.cat = x.cat /\ y.rows = After(x, p, n - 1) /\ Alike(y, x)
    BY <1>0 DEF Placeable, Alike
  <2>2. Alike(z, y) /\ z.rows = placed(y, rec)
    BY <2>1, RowEffect
  <2>3. z \in States /\ z.rows \subseteq [table : Nat, id : 0..MaxVal, val : 0..MaxVal]
    BY <2>1, ApplyType DEF States
  <2>4. rec.name \in TableNames /\ rec.op \in {"insert", "delete"}
    BY <2>1 DEF RowRecords, Records
  <2>5. \A i \in 1..Len(p) : p[i].name \in TableNames /\ x.cat[p[i].name] # NoTable
    BY <1>0 DEF Placeable, Records
  <2>6. \A i \in 1..Len(p) : x.cat[p[i].name] = t => p[i].name = rec.name
    BY <2>4, <2>5 DEF Consistent
  <2>7. 1..n = (1..(n - 1)) \cup {n} /\ n \notin 1..(n - 1) /\ 1..(n - 1) \subseteq 1..Len(p)
    BY <1>0
  <2> HIDE DEF rec, z
  <2>8. ASSUME NEW r \in [table : Nat, id : 0..MaxVal, val : 0..MaxVal]
        PROVE  r \in z.rows <=> r \in After(x, p, n)
    <3>1. InsertedIn(x, p, n, r) <=>
            \/ InsertedIn(x, p, n - 1, r)
            \/ rec.op = "insert" /\ r = [table |-> t, id |-> rec.id, val |-> rec.val]
      BY <2>7 DEF InsertedIn, rec
    <3>2. DeletedIn(x, p, n, r) <=>
            \/ DeletedIn(x, p, n - 1, r)
            \/ rec.op = "delete" /\ r.table = t /\ r.id = rec.id
      BY <2>7 DEF DeletedIn, rec
    <3>3. r \in After(x, p, n - 1) <=>
            (r \in x.rows \/ InsertedIn(x, p, n - 1, r)) /\ ~DeletedIn(x, p, n - 1, r)
      BY DEF After
    <3>4. r \in After(x, p, n) <=>
            (r \in x.rows \/ InsertedIn(x, p, n, r)) /\ ~DeletedIn(x, p, n, r)
      BY DEF After
    <3>5. r \in z.rows <=>
            \/ r \in After(x, p, n - 1) /\ ~(r.table = t /\ r.id = rec.id)
            \/ rec.op = "insert" /\ r = [table |-> t, id |-> rec.id, val |-> rec.val]
      BY <2>1, <2>2 DEF placed
    <3>6. CASE rec.op = "delete"
      BY <3>1, <3>2, <3>3, <3>4, <3>5, <3>6
    <3>7. CASE rec.op = "insert"
      <4>1. ASSUME r.table = t, r.id = rec.id
            PROVE  r \notin x.rows /\ ~InsertedIn(x, p, n - 1, r) /\ ~DeletedIn(x, p, n - 1, r)
        <5>1. r \notin x.rows
          BY <3>7, <4>1 DEF Fresh, rec
        <5>2. ASSUME NEW i \in 1..(n - 1), x.cat[p[i].name] = t, p[i].id = rec.id
              PROVE  FALSE
          <6>1. i \in 1..Len(p) /\ i < n
            BY <2>7
          <6>2. p[i].name = rec.name
            BY <2>6, <5>2, <6>1
          <6>3. p[n].op = "delete"
            BY <5>2, <6>1, <6>2 DEF Orderly, rec
          <6>4. QED
            BY <6>3, <3>7 DEF rec
        <5>3. ~InsertedIn(x, p, n - 1, r)
          BY <4>1, <5>2 DEF InsertedIn
        <5>4. ~DeletedIn(x, p, n - 1, r)
          BY <4>1, <5>2 DEF DeletedIn
        <5>5. QED
          BY <5>1, <5>3, <5>4
      <4>2. r = [table |-> t, id |-> rec.id, val |-> rec.val] => r.table = t /\ r.id = rec.id
        OBVIOUS
      <4>3. QED
        BY <3>1, <3>2, <3>3, <3>4, <3>5, <3>7, <4>1, <4>2
    <3>8. QED
      BY <2>4, <3>6, <3>7
  <2>9. z.rows = After(x, p, n)
    BY <2>3, <2>8 DEF After
  <2>10. Alike(z, x)
    BY <2>1, <2>2 DEF Alike
  <2>11. QED
    BY <2>3, <2>9, <2>10 DEF z, rec
<1>3. \A i \in 1..Len(p) : \A y \in T[i - 1] : apply(y, p[i]) \in T[i]
  <2> SUFFICES ASSUME NEW i \in 1..Len(p), NEW y \in T[i - 1] PROVE apply(y, p[i]) \in T[i]
    OBVIOUS
  <2>1. T[i - 1] = Good(i - 1) /\ T[i] = Good(i)
    BY <1>0
  <2> HIDE DEF T, Good
  <2>2. QED
    BY <1>2, <2>1
<1>4. Replay(x, p) \in T[Len(p)]
  <2> HIDE DEF T
  <2>1. QED
    BY <1>0, <1>1, <1>3, ReplayFollows
<1>5. QED
  BY <1>0, <1>4

\* A finite set as a sequence: each member once.
LEMMA SetInSequence ==
  ASSUME NEW S, IsFiniteSet(S)
  PROVE  /\ SetToSeq(S) \in Seq(S)
         /\ \A i, j \in 1..Len(SetToSeq(S)) : SetToSeq(S)[i] = SetToSeq(S)[j] => i = j
         /\ \A s \in S : \E i \in 1..Len(SetToSeq(S)) : SetToSeq(S)[i] = s
<1> DEFINE n == Cardinality(S)
           f == SetToSeq(S)
<1>1. n \in Nat /\ ExistsBijection(1..n, S)
  BY FS_CardinalityType
<1>2. PICK g : g \in Bijection(1..n, S)
  BY <1>1 DEF ExistsBijection
<1>3. g \in [1..n -> S] /\ IsInjective(g)
  BY <1>2 DEF Bijection, Injection, IsInjective
<1>4. f \in [1..n -> S] /\ IsInjective(f)
  BY <1>3 DEF SetToSeq
<1> HIDE DEF f, n
<1>5. f \in Injection(1..n, S)
  BY <1>4 DEF Injection, IsInjective
<1>6. IsFiniteSet(1..n) /\ Cardinality(1..n) = n
  <2>1. IsFiniteSet(1..n) /\ Cardinality(1..n) = IF 1 > n THEN 0 ELSE n - 1 + 1
    BY <1>1, FS_Interval DEF n
  <2>2. QED
    BY <1>1, <2>1 DEF n
<1>7. f \in Surjection(1..n, S)
  BY <1>5, <1>6, FS_Injection DEF n
<1>8. f \in Seq(S) /\ Len(f) = n
  BY <1>1, <1>4 DEF n
<1>9. \A i, j \in 1..n : f[i] = f[j] => i = j
  BY <1>4 DEF IsInjective
<1>10. \A s \in S : \E i \in 1..n : f[i] = s
  BY <1>7 DEF Surjection
<1>11. QED
  BY <1>8, <1>9, <1>10 DEF f
=============================================================================
