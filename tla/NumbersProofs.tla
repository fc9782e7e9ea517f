---------------------------- MODULE NumbersProofs ----------------------------
(***************************************************************************)
(* The arithmetic of decimals in a word is that of decimals without        *)
(* bounds, for a word of any width and any limit of the scale; the values  *)
(* of a column are in a total order, and values that are equal hash alike, *)
(* where floats do not round them; and a quotient within the limit of      *)
(* places is the nearest there is.                                         *)
(***************************************************************************)
EXTENDS Numbers, TLAPS, WellFoundedInduction

Modulus == 2 * (WordMax + 1)

\* What the machine keeps of a result differs from it by a multiple of the
\* modulus, and is in the word.
LEMMA WrapIsCongruent ==
  ASSUME NEW n \in Int
  PROVE  /\ Wrap(n) \in Word
         /\ \E k \in Int : n = Wrap(n) + k * Modulus
<1> DEFINE m == n + WordMax + 1
<1>1. Modulus \in Int /\ Modulus > 0 /\ WordMax \in Int /\ m \in Int
  BY WidthsAssumption DEF Modulus
<1>2. /\ m = Modulus * (m \div Modulus) + (m % Modulus)
      /\ m % Modulus \in 0..(Modulus - 1) /\ m \div Modulus \in Int
  <2> HIDE DEF m
  <2> QED BY <1>1
<1>3. Wrap(n) = (m % Modulus) - WordMax - 1
  BY DEF Wrap, Modulus
<1>4. Wrap(n) \in Word
  <2>1. m % Modulus \in Int /\ m % Modulus >= 0 /\ m % Modulus <= 2 * WordMax + 1
    BY <1>1, <1>2 DEF Modulus
  <2> HIDE DEF m
  <2> QED BY <1>1, <1>3, <2>1 DEF Word
<1>5. n = Wrap(n) + (m \div Modulus) * Modulus
  <2>1. n = m - WordMax - 1
    BY <1>1
  <2>2. (m \div Modulus) * Modulus = Modulus * (m \div Modulus)
    BY <1>1, <1>2
  <2>3. m % Modulus \in Int /\ Modulus * (m \div Modulus) \in Int
    BY <1>1, <1>2
  <2> HIDE DEF m
  <2> QED BY <1>1, <1>2, <1>3, <2>1, <2>2, <2>3
<1>6. QED
  BY <1>2, <1>4, <1>5

\* A multiple of the modulus that is not zero is as large as the modulus.
LEMMA MultiplesAreFar ==
  ASSUME NEW k \in Int
  PROVE  /\ k > 0 => k * Modulus >= Modulus
         /\ k < 0 => k * Modulus <= -Modulus
         /\ k = 0 => k * Modulus = 0
         /\ k * Modulus \in Int
<1>1. Modulus \in Int /\ Modulus > 0
  BY WidthsAssumption DEF Modulus
<1> HIDE DEF Modulus
<1>2. k > 0 => k * Modulus >= Modulus
  BY <1>1
<1>3. k < 0 => k * Modulus <= -Modulus
  BY <1>1
<1>4. QED
  BY <1>1, <1>2, <1>3

\* What fits is kept as it is.
LEMMA WrapKeepsWords ==
  ASSUME NEW n \in Word
  PROVE  Wrap(n) = n
<1>1. n \in Int /\ WordMax \in Int /\ n >= -WordMax - 1 /\ n <= WordMax
  BY WidthsAssumption DEF Word
<1>2. PICK k \in Int : n = Wrap(n) + k * Modulus
  BY <1>1, WrapIsCongruent
<1>3. Wrap(n) \in Int /\ Wrap(n) >= -WordMax - 1 /\ Wrap(n) <= WordMax
  BY <1>1, WrapIsCongruent DEF Word
<1>4. /\ k > 0 => k * Modulus >= Modulus
      /\ k < 0 => k * Modulus <= -Modulus
      /\ k = 0 => k * Modulus = 0
      /\ k * Modulus \in Int
  BY MultiplesAreFar
<1> DEFINE d == k * Modulus
<1>5. d \in Int /\ (d = 0 \/ d >= Modulus \/ d <= -Modulus)
  BY <1>4
<1>6. n = Wrap(n) + d
  BY <1>2
<1>7. Modulus = 2 * WordMax + 2
  BY <1>1 DEF Modulus
<1> HIDE DEF d, Modulus, Wrap
<1>8. QED
  BY <1>1, <1>3, <1>5, <1>6, <1>7

\* A sum that passes the check of the signs did not wrap (addNoOverflow).
LEMMA AddIsExact ==
  ASSUME NEW x \in Word, NEW y \in Word, addNoOverflow(x, y).ok
  PROVE  addNoOverflow(x, y).n = x + y
<1> DEFINE sum == Wrap(x + y)
<1>1. /\ x \in Int /\ WordMax \in Int /\ x >= -WordMax - 1 /\ x <= WordMax
      /\ y \in Int /\ y >= -WordMax - 1 /\ y <= WordMax
  BY WidthsAssumption DEF Word
<1>2. x + y \in Int
  BY <1>1
<1>3. PICK k \in Int : x + y = sum + k * Modulus
  BY <1>2, WrapIsCongruent
<1>4. sum \in Int /\ sum >= -WordMax - 1 /\ sum <= WordMax
  BY <1>1, <1>2, WrapIsCongruent DEF Word
<1> DEFINE d == k * Modulus
<1>5. d \in Int /\ (d = 0 \/ d >= Modulus \/ d <= -Modulus)
  BY MultiplesAreFar
<1>6. x + y = sum + d
  BY <1>3
<1>7. Modulus = 2 * WordMax + 2
  BY <1>1 DEF Modulus
<1>8. ~(x > 0 /\ y > 0 /\ sum < 0) /\ ~(x < 0 /\ y < 0 /\ sum >= 0)
  BY DEF addNoOverflow, Checked
<1>9. addNoOverflow(x, y).n = sum
  BY DEF addNoOverflow, Checked
<1> HIDE DEF sum, d, Modulus
<1>10. d = 0
  BY <1>1, <1>4, <1>5, <1>6, <1>7, <1>8
<1>11. QED
  BY <1>2, <1>4, <1>6, <1>9, <1>10

\* Go's quotient is off by less than the divisor.
LEMMA QuoIsNear ==
  ASSUME NEW m \in Int, NEW n \in Int, n # 0
  PROVE  \E r \in Int : m = n * Quo(m, n) + r /\ -Abs(n) < r /\ r < Abs(n)
<1> DEFINE a == Abs(m)  b == Abs(n)  q == a \div b  r == a % b
<1>1. a \in Int /\ b \in Int /\ b > 0 /\ a >= 0
  BY DEF Abs
<1>2. a = b * q + r /\ q \in Int /\ r \in Int /\ 0 <= r /\ r < b
  <2> HIDE DEF a, b
  <2> QED BY <1>1
<1>3. Quo(m, n) = Sign(m) * Sign(n) * q
  BY DEF Quo
<1>4. (m < 0 => a = -m) /\ (m >= 0 => a = m) /\ (n < 0 => b = -n) /\ (n > 0 => b = n)
  BY DEF Abs
<1> HIDE DEF a, b, q, r
<1>5. CASE m = 0
  <2>1. Quo(m, n) = 0
    <3>1. Sign(m) = 0 /\ Sign(n) \in Int
      BY <1>5 DEF Sign
    <3>2. QED
      BY <1>2, <1>3, <3>1
  <2>2. m = n * Quo(m, n) + 0 /\ -b < 0 /\ 0 < b
    BY <1>1, <1>5, <2>1
  <2>3. QED
    BY <2>2 DEF b
<1>6. CASE m > 0 /\ n > 0
  <2>1. Quo(m, n) = q
    BY <1>2, <1>3, <1>6 DEF Sign
  <2>2. m = n * Quo(m, n) + r /\ -b < r /\ r < b
    BY <1>1, <1>2, <1>4, <1>6, <2>1
  <2>3. QED
    BY <1>2, <2>2 DEF b
<1>7. CASE m > 0 /\ n < 0
  <2>1. Quo(m, n) = -q
    BY <1>2, <1>3, <1>7 DEF Sign
  <2>2. n * (-q) = b * q
    BY <1>2, <1>4, <1>7
  <2>3. m = n * Quo(m, n) + r /\ -b < r /\ r < b
    BY <1>1, <1>2, <1>4, <1>7, <2>1, <2>2
  <2>4. QED
    BY <1>2, <2>3 DEF b
<1>8. CASE m < 0 /\ n > 0
  <2>1. Quo(m, n) = -q
    BY <1>2, <1>3, <1>8 DEF Sign
  <2>2. n * (-q) = -(b * q)
    BY <1>2, <1>4, <1>8
  <2>3. b * q \in Int
    BY <1>1, <1>2
  <2>4. m = n * Quo(m, n) + (-r) /\ -b < -r /\ -r < b
    BY <1>1, <1>2, <1>4, <1>8, <2>1, <2>2, <2>3
  <2>5. -r \in Int
    BY <1>2
  <2>6. QED
    BY <2>4, <2>5 DEF b
<1>9. CASE m < 0 /\ n < 0
  <2>1. Quo(m, n) = q
    BY <1>2, <1>3, <1>9 DEF Sign
  <2>2. n * q = -(b * q)
    BY <1>2, <1>4, <1>9
  <2>3. b * q \in Int
    BY <1>1, <1>2
  <2>4. m = n * Quo(m, n) + (-r) /\ -b < -r /\ -r < b
    BY <1>1, <1>2, <1>4, <1>9, <2>1, <2>2, <2>3
  <2>5. -r \in Int
    BY <1>2
  <2>6. QED
    BY <2>4, <2>5 DEF b
<1>10. QED
  BY <1>5, <1>6, <1>7, <1>8, <1>9

\* A product whose quotient by one factor is the other did not wrap, whatever
\* the other is (mulNoOverflow).
LEMMA MulIsExact ==
  ASSUME NEW x \in Int, NEW y \in Word, mulNoOverflow(x, y).ok
  PROVE  mulNoOverflow(x, y).n = x * y /\ x * y \in Word
<1> DEFINE prod == Wrap(x * y)
<1>1. y \in Int /\ WordMax \in Int /\ WordMax >= 10 /\ y >= -WordMax - 1 /\ y <= WordMax
  BY WidthsAssumption DEF Word
<1>2. CASE x = 0 \/ y = 0
  <2>1. x * y = 0
    BY <1>1, <1>2
  <2>2. mulNoOverflow(x, y).n = 0
    BY <1>2 DEF mulNoOverflow, Checked
  <2>3. 0 \in Word
    BY <1>1 DEF Word
  <2>4. QED
    BY <2>1, <2>2, <2>3
<1>3. CASE x # 0 /\ y # 0
  <2>1. Quo(prod, y) = x /\ mulNoOverflow(x, y).n = prod
    BY <1>3 DEF mulNoOverflow, Checked
  <2>2. x * y \in Int
    BY <1>1
  <2>3. prod \in Word /\ \E k \in Int : x * y = prod + k * Modulus
    BY <2>2, WrapIsCongruent
  <2>4. PICK k \in Int : x * y = prod + k * Modulus
    BY <2>3
  <2>5. prod \in Int
    BY <1>1, <2>3 DEF Word
  <2>6. PICK r \in Int : prod = y * Quo(prod, y) + r /\ -Abs(y) < r /\ r < Abs(y)
    BY <1>1, <1>3, <2>5, QuoIsNear
  <2> DEFINE d == k * Modulus  xy == x * y
  <2>7. d \in Int /\ (d = 0 \/ d >= Modulus \/ d <= -Modulus)
    BY MultiplesAreFar
  <2>8. y * x = xy
    BY <1>1
  <2>9. prod = xy + r /\ xy = prod + d
    BY <2>1, <2>4, <2>6, <2>8
  <2>10. r > -Modulus /\ r < Modulus /\ Modulus \in Int
    <3>1. Abs(y) \in Int /\ Abs(y) <= WordMax + 1
      BY <1>1 DEF Abs
    <3>2. Modulus = 2 * WordMax + 2
      BY <1>1 DEF Modulus
    <3> HIDE DEF Modulus
    <3>3. QED
      BY <1>1, <2>6, <3>1, <3>2
  <2> HIDE DEF d, xy, prod, Modulus
  <2>11. d = 0
    <3>1. xy \in Int
      BY <2>2 DEF xy
    <3>2. QED
      BY <2>5, <2>7, <2>9, <2>10, <3>1
  <2>12. xy = prod
    BY <2>2, <2>5, <2>9, <2>11 DEF xy
  <2>13. QED
    BY <2>1, <2>3, <2>12 DEF xy
<1>4. QED
  BY <1>2, <1>3

\* What is multiplied by ten as often as its checks allow is still in the word
\* (scaleNoOverflow).
LEMMA ScalingStaysInWord ==
  ASSUME NEW x \in Word, NEW by \in 0..MaxSmallScale, scaleNoOverflow(x, by).ok
  PROVE  scaleNoOverflow(x, by).n = x * 10^by /\ x * 10^by \in Word
<1>1. x \in Int /\ WordMax \in Int /\ WordMax >= 10 /\ by \in Int
  BY WidthsAssumption DEF Word
<1>2. scaleNoOverflow(x, by).n = x * 10^by
  BY DEF scaleNoOverflow, Checked
<1>3. CASE by = 0
  <2>1. 10^by = 1
    BY <1>3, PowersAssumption
  <2>2. x * 10^by = x
    BY <1>1, <2>1
  <2>3. QED
    BY <1>2, <2>2
<1>4. CASE by > 0
  <2>1. by \in 1..MaxSmallScale /\ by \in 1..by /\ by - 1 \in Nat
    BY <1>1, <1>4, WidthsAssumption
  <2>2. 10^by = 10 * 10^(by - 1)
    BY <2>1, PowersAssumption
  <2> DEFINE p == 10^(by - 1)
  <2>3. p \in Int
    BY <2>1
  <2>4. mulNoOverflow(x * p, 10).ok
    BY <2>1 DEF scaleNoOverflow, Checked
  <2> HIDE DEF p
  <2>5. x * p \in Int /\ 10 \in Word
    BY <1>1, <2>3 DEF Word
  <2>6. (x * p) * 10 \in Word
    BY <2>4, <2>5, MulIsExact
  <2>7. x * (10 * p) = (x * p) * 10
    BY <1>1, <2>3
  <2>8. QED
    BY <1>2, <2>2, <2>6, <2>7 DEF p
<1>5. QED
  BY <1>1, <1>3, <1>4

\* Digits that could be aligned are those of the aligned decimals (alignSmall).
LEMMA AlignedAreRescaled ==
  ASSUME NEW a, NEW b, a.s \in Nat, b.s \in Nat, alignSmall(a, b).ok
  PROVE  /\ alignSmall(a, b).x = rescale(a, Larger(a.s, b.s)) /\ alignSmall(a, b).x \in Word
         /\ alignSmall(a, b).y = rescale(b, Larger(a.s, b.s)) /\ alignSmall(a, b).y \in Word
         /\ alignSmall(a, b).s = Larger(a.s, b.s)
<1> DEFINE s == Larger(a.s, b.s)
           x == scaleNoOverflow(a.u, s - a.s)
           y == scaleNoOverflow(b.u, s - b.s)
<1>1. CASE ~(IsSmall(a) /\ IsSmall(b))
  BY <1>1 DEF alignSmall
<1>2. CASE IsSmall(a) /\ IsSmall(b)
  <2>1. /\ alignSmall(a, b).ok = (x.ok /\ y.ok)
        /\ alignSmall(a, b).x = x.n /\ alignSmall(a, b).y = y.n /\ alignSmall(a, b).s = s
    BY <1>2, Zenon DEF alignSmall, Aligned
  <2>2. a.u \in Word /\ b.u \in Word /\ a.s <= MaxSmallScale /\ b.s <= MaxSmallScale
    BY <1>2 DEF IsSmall
  <2>3. s - a.s \in 0..MaxSmallScale /\ s - b.s \in 0..MaxSmallScale
    BY <2>2, WidthsAssumption DEF Larger
  <2>4. x.ok /\ y.ok
    BY <2>1
  <2> HIDE DEF s
  <2>5. x.n = a.u * 10^(s - a.s) /\ a.u * 10^(s - a.s) \in Word
    BY <2>2, <2>3, <2>4, ScalingStaysInWord
  <2>6. y.n = b.u * 10^(s - b.s) /\ b.u * 10^(s - b.s) \in Word
    BY <2>2, <2>3, <2>4, ScalingStaysInWord
  <2> HIDE DEF x, y
  <2>7. QED
    BY <2>1, <2>5, <2>6 DEF s, rescale
<1>3. QED
  BY <1>1, <1>2

\* The fast paths of decimal_value.go answer digit for digit what decimal.go
\* answers, for words of any width and all decimals there are.
THEOREM WordArithmeticExact == DecimalPathsAgree
<1> SUFFICES ASSUME NEW a \in Decimals, NEW b \in Decimals
             PROVE  /\ AddNumeric(a, b) = DecimalAdd(a, b)
                    /\ SubNumeric(a, b) = DecimalSub(a, b)
                    /\ MulNumeric(a, b) = DecimalMul(a, b)
                    /\ NegNumeric(a) = DecimalNeg(a)
                    /\ cmpNumeric(a, b) = DecimalCmp(a, b)
                    /\ b.u # 0 => ModNumeric(a, b) = DecimalMod(a, b)
  BY DEF DecimalPathsAgree
<1> DEFINE w == alignSmall(a, b)
           s == Larger(a.s, b.s)
<1>1. a.u \in Int /\ a.s \in Nat /\ b.u \in Int /\ b.s \in Nat
  BY SampleAssumption DEF Decimals, Valued
<1>2. w.ok => /\ w.x = rescale(a, s) /\ w.x \in Word
              /\ w.y = rescale(b, s) /\ w.y \in Word
              /\ w.s = s
  BY <1>1, AlignedAreRescaled
<1> HIDE DEF w, s
<1>3. AddNumeric(a, b) = DecimalAdd(a, b)
  <2>1. w.ok /\ addNoOverflow(w.x, w.y).ok => addNoOverflow(w.x, w.y).n = w.x + w.y
    BY <1>2, AddIsExact
  <2>2. AddNumeric(a, b) = IF w.ok /\ addNoOverflow(w.x, w.y).ok
                           THEN Decimal(addNoOverflow(w.x, w.y).n, w.s) ELSE DecimalAdd(a, b)
    BY Zenon DEF AddNumeric, w
  <2>3. DecimalAdd(a, b) = Decimal(rescale(a, s) + rescale(b, s), s)
    BY DEF DecimalAdd, s
  <2>4. QED
    BY <1>2, <2>1, <2>2, <2>3
<1>4. SubNumeric(a, b) = DecimalSub(a, b)
  <2> DEFINE diff == addNoOverflow(w.x, Wrap(-w.y))
  <2>1. SubNumeric(a, b) = IF w.ok /\ diff.ok /\ w.y # -WordMax - 1
                           THEN Decimal(diff.n, w.s) ELSE DecimalSub(a, b)
    BY Zenon DEF SubNumeric, w
  <2>2. DecimalSub(a, b) = Decimal(rescale(a, s) - rescale(b, s), s)
    BY DEF DecimalSub, s
  <2>3. ASSUME w.ok, diff.ok, w.y # -WordMax - 1
        PROVE  diff.n = w.x - w.y
    <3>1. w.x \in Word /\ w.y \in Word /\ w.x \in Int /\ w.y \in Int
      BY <1>2, <2>3, WidthsAssumption DEF Word
    <3>2. -w.y \in Word
      BY <2>3, <3>1, WidthsAssumption DEF Word
    <3>3. Wrap(-w.y) = -w.y
      BY <3>2, WrapKeepsWords
    <3>4. diff.n = w.x + (-w.y)
      BY <2>3, <3>1, <3>2, <3>3, AddIsExact
    <3>5. QED
      BY <3>1, <3>4
  <2> HIDE DEF diff
  <2>4. QED
    BY <1>2, <2>1, <2>2, <2>3
<1>5. MulNumeric(a, b) = DecimalMul(a, b)
  <2>1. IsSmall(b) /\ mulNoOverflow(a.u, b.u).ok => mulNoOverflow(a.u, b.u).n = a.u * b.u
    BY <1>1, MulIsExact DEF IsSmall
  <2>2. MulNumeric(a, b) = IF IsSmall(a) /\ IsSmall(b) /\ a.s + b.s <= MaxSmallScale /\ mulNoOverflow(a.u, b.u).ok
                           THEN Decimal(mulNoOverflow(a.u, b.u).n, a.s + b.s) ELSE DecimalMul(a, b)
    BY Zenon DEF MulNumeric
  <2>3. QED
    BY <2>1, <2>2 DEF DecimalMul
<1>6. NegNumeric(a) = DecimalNeg(a)
  <2>1. ASSUME IsSmall(a), a.u # -WordMax - 1
        PROVE  Wrap(-a.u) = -a.u
    <3>1. -a.u \in Word
      BY <1>1, <2>1, WidthsAssumption DEF IsSmall, Word
    <3>2. QED
      BY <3>1, WrapKeepsWords
  <2>2. QED
    BY <2>1 DEF NegNumeric, DecimalNeg
<1>7. cmpNumeric(a, b) = DecimalCmp(a, b)
  BY <1>2, Zenon DEF cmpNumeric, DecimalCmp, w, s
<1>8. b.u # 0 => ModNumeric(a, b) = DecimalMod(a, b)
  BY <1>2, Zenon DEF ModNumeric, DecimalMod, w, s
<1>9. QED
  BY <1>3, <1>4, <1>5, <1>6, <1>7, <1>8

(***************************************************************************)
(* Powers of ten and of two.                                               *)
(***************************************************************************)

\* What ^ is: the provers do not know.
PowersOf(b) == b^0 = 1 /\ \A n \in Nat : b^(n + 1) = b * b^n
PowersOfTen == 10^0 = 1 /\ \A n \in Nat : 10^(n + 1) = 10 * 10^n
PowersOfTwo == 2^0 = 1 /\ \A n \in Nat : 2^(n + 1) = 2 * 2^n

\* A nonempty set of naturals has a least element.
LEMMA LeastNumber ==
  ASSUME NEW S \in SUBSET Nat, S # {}
  PROVE  \E m \in S : \A n \in S : m <= n
<1>1. PICK m \in S : \A n \in S : <<n, m>> \notin OpToRel(<, Nat)
  BY NatLessThanWellFounded, WFMin, Zenon
<1>2. \A n \in S : ~(n < m)
  BY <1>1, Zenon DEF OpToRel
<1>3. QED
  BY <1>2

\* Powers are positive.
LEMMA AnyPowerPositive ==
  ASSUME NEW b \in Nat, b >= 2, PowersOf(b), NEW n \in Nat
  PROVE  b^n \in Nat /\ b^n >= 1
<1> DEFINE bad == {i \in Nat : ~(b^i >= 1)}
<1>0. \A i \in Nat : b^i \in Int
  OBVIOUS
<1>1. CASE bad = {}
  <2>1. b^n >= 1
    BY <1>1
  <2>2. QED
    BY <1>0, <2>1
<1>2. CASE bad # {}
  <2>1. PICK m \in bad : \A i \in bad : m <= i
    <3>1. bad \in SUBSET Nat
      OBVIOUS
    <3> HIDE DEF bad
    <3>2. QED
      BY <1>2, <3>1, LeastNumber
  <2>2. m \in Nat /\ ~(b^m >= 1)
    OBVIOUS
  <2>3. m # 0
    <3>1. b^0 = 1 /\ 1 >= 1
      BY DEF PowersOf
    <3>2. b^0 >= 1
      BY <3>1
    <3>3. QED
      BY <2>2, <3>2, Zenon
  <2>4. PICK k \in Nat : m = k + 1
    <3>1. m - 1 \in Nat /\ m = (m - 1) + 1
      BY <2>2, <2>3
    <3>2. QED
      BY <3>1
  <2>5. b^k >= 1
    <3>1. ~(m <= k)
      BY <2>4
    <3>2. k \notin bad
      BY <2>1, <3>1
    <3>3. QED
      BY <3>2
  <2>6. b^m = b * b^k
    BY <2>4 DEF PowersOf
  <2>7. QED
    BY <1>0, <2>2, <2>5, <2>6
<1>3. QED
  BY <1>1, <1>2

\* The power of a sum is the product of the powers.
LEMMA AnyPowerOfSum ==
  ASSUME NEW b \in Nat, b >= 2, PowersOf(b), NEW m \in Nat, NEW n \in Nat
  PROVE  b^(m + n) = b^m * b^n
<1> DEFINE bad == {i \in Nat : b^(m + i) # b^m * b^i}
<1>0. \A i \in Nat : b^i \in Int
  OBVIOUS
<1>1. CASE bad = {}
  BY <1>1
<1>2. CASE bad # {}
  <2>1. PICK l \in bad : \A i \in bad : l <= i
    <3>1. bad \in SUBSET Nat
      OBVIOUS
    <3> HIDE DEF bad
    <3>2. QED
      BY <1>2, <3>1, LeastNumber
  <2>2. l \in Nat /\ b^(m + l) # b^m * b^l
    OBVIOUS
  <2>3. l # 0
    <3>1. m + 0 = m /\ b^m * 1 = b^m
      BY <1>0
    <3>2. QED
      BY <2>2, <3>1 DEF PowersOf
  <2>4. PICK k \in Nat : l = k + 1
    <3>1. l - 1 \in Nat /\ l = (l - 1) + 1
      BY <2>2, <2>3
    <3>2. QED
      BY <3>1
  <2>5. b^(m + k) = b^m * b^k
    <3>1. ~(l <= k)
      BY <2>4
    <3>2. k \notin bad
      BY <2>1, <3>1
    <3>3. QED
      BY <3>2
  <2>6. b^l = b * b^k /\ b^(m + l) = b * b^(m + k)
    <3>1. m + l = (m + k) + 1 /\ m + k \in Nat
      BY <2>4
    <3>2. QED
      BY <2>4, <3>1 DEF PowersOf
  <2>7. PICK x \in Int, y \in Int : x = b^m /\ y = b^k
    BY <1>0
  <2>8. b * (x * y) = x * (b * y)
    OBVIOUS
  <2>9. QED
    BY <2>2, <2>5, <2>6, <2>7, <2>8
<1>3. QED
  BY <1>1, <1>2

\* A number has fewer digits than its value says.
LEMMA AnyPowerExceeds ==
  ASSUME NEW b \in Nat, b >= 2, PowersOf(b), NEW n \in Nat
  PROVE  n < b^n
<1> DEFINE bad == {i \in Nat : ~(i < b^i)}
<1>1. CASE bad = {}
  BY <1>1
<1>2. CASE bad # {}
  <2>1. PICK m \in bad : \A i \in bad : m <= i
    <3>1. bad \in SUBSET Nat
      OBVIOUS
    <3> HIDE DEF bad
    <3>2. QED
      BY <1>2, <3>1, LeastNumber
  <2>2. m \in Nat /\ ~(m < b^m)
    OBVIOUS
  <2>3. m # 0
    <3>1. 0 < 1
      OBVIOUS
    <3>2. 0 < b^0
      BY <3>1 DEF PowersOf
    <3>3. QED
      BY <2>2, <3>2
  <2>4. PICK k \in Nat : m = k + 1
    <3>1. m - 1 \in Nat /\ m = (m - 1) + 1
      BY <2>2, <2>3
    <3>2. QED
      BY <3>1
  <2>5. k < b^k
    <3>1. ~(m <= k)
      BY <2>4
    <3>2. k \notin bad
      BY <2>1, <3>1
    <3>3. QED
      BY <3>2
  <2>6. b^m = b * b^k /\ b^k \in Nat
    BY <2>4, AnyPowerPositive DEF PowersOf
  <2>7. QED
    BY <2>2, <2>4, <2>5, <2>6
<1>3. QED
  BY <1>1, <1>2

\* Powers grow.
LEMMA AnyPowerGrows ==
  ASSUME NEW b \in Nat, b >= 2, PowersOf(b), NEW m \in Nat, NEW n \in Nat, m <= n
  PROVE  b^m <= b^n
<1>1. PICK k \in Nat : n = m + k
  <2>1. n - m \in Nat /\ n = m + (n - m)
    OBVIOUS
  <2>2. QED
    BY <2>1
<1>2. b^n = b^m * b^k
  BY <1>1, AnyPowerOfSum
<1>3. PICK p \in Nat, q \in Nat : p = b^m /\ q = b^k /\ q >= 1
  BY AnyPowerPositive
<1>4. p <= p * q
  BY <1>3
<1>5. QED
  BY <1>2, <1>3, <1>4

\* Powers of ten are positive.
LEMMA PowerPositive ==
  ASSUME PowersOfTen, NEW n \in Nat
  PROVE  10^n \in Nat /\ 10^n >= 1
<1>1. PowersOf(10) /\ 10 >= 2 /\ 10 \in Nat
  BY DEF PowersOf, PowersOfTen
<1>2. QED
  BY <1>1, AnyPowerPositive

\* The power of ten of a sum is the product of the powers.
LEMMA PowerOfSum ==
  ASSUME PowersOfTen, NEW m \in Nat, NEW n \in Nat
  PROVE  10^(m + n) = 10^m * 10^n
<1>1. PowersOf(10) /\ 10 >= 2 /\ 10 \in Nat
  BY DEF PowersOf, PowersOfTen
<1>2. QED
  BY <1>1, AnyPowerOfSum

\* A power of ten is larger than its exponent.
LEMMA PowerExceeds ==
  ASSUME PowersOfTen, NEW n \in Nat
  PROVE  n < 10^n
<1>1. PowersOf(10) /\ 10 >= 2 /\ 10 \in Nat
  BY DEF PowersOf, PowersOfTen
<1>2. QED
  BY <1>1, AnyPowerExceeds

\* Powers of ten grow.
LEMMA PowerGrows ==
  ASSUME PowersOfTen, NEW m \in Nat, NEW n \in Nat, m <= n
  PROVE  10^m <= 10^n
<1>1. PowersOf(10) /\ 10 >= 2 /\ 10 \in Nat
  BY DEF PowersOf, PowersOfTen
<1>2. QED
  BY <1>1, AnyPowerGrows

\* Powers of two are positive.
LEMMA TwosPositive ==
  ASSUME PowersOfTwo, NEW n \in Nat
  PROVE  2^n \in Nat /\ 2^n >= 1
<1>1. PowersOf(2) /\ 2 >= 2 /\ 2 \in Nat
  BY DEF PowersOf, PowersOfTwo
<1>2. QED
  BY <1>1, AnyPowerPositive

\* The power of two of a sum is the product of the powers.
LEMMA TwosOfSum ==
  ASSUME PowersOfTwo, NEW m \in Nat, NEW n \in Nat
  PROVE  2^(m + n) = 2^m * 2^n
<1>1. PowersOf(2) /\ 2 >= 2 /\ 2 \in Nat
  BY DEF PowersOf, PowersOfTwo
<1>2. QED
  BY <1>1, AnyPowerOfSum

\* A power of two is larger than its exponent.
LEMMA TwosExceed ==
  ASSUME PowersOfTwo, NEW n \in Nat
  PROVE  n < 2^n
<1>1. PowersOf(2) /\ 2 >= 2 /\ 2 \in Nat
  BY DEF PowersOf, PowersOfTwo
<1>2. QED
  BY <1>1, AnyPowerExceeds

\* Powers of two grow.
LEMMA TwosGrow ==
  ASSUME PowersOfTwo, NEW m \in Nat, NEW n \in Nat, m <= n
  PROVE  2^m <= 2^n
<1>1. PowersOf(2) /\ 2 >= 2 /\ 2 \in Nat
  BY DEF PowersOf, PowersOfTwo
<1>2. QED
  BY <1>1, AnyPowerGrows

(***************************************************************************)
(* Decimals of any scale.                                                  *)
(***************************************************************************)

\* Adding places multiplies the digits.
LEMMA RescaledFurther ==
  ASSUME PowersOfTen, NEW a, a.u \in Int, a.s \in Nat, NEW s \in Nat, NEW t \in Nat, a.s <= s, s <= t
  PROVE  /\ rescale(a, s) \in Int /\ rescale(a, t) \in Int
         /\ rescale(a, t) = rescale(a, s) * 10^(t - s)
<1>1. s - a.s \in Nat /\ t - s \in Nat /\ t - a.s \in Nat /\ (s - a.s) + (t - s) = t - a.s
  OBVIOUS
<1>2. 10^(t - a.s) = 10^(s - a.s) * 10^(t - s)
  BY <1>1, PowerOfSum
<1>3. PICK p \in Int, q \in Int, r \in Int : p = 10^(s - a.s) /\ q = 10^(t - s) /\ r = 10^(t - a.s)
  BY <1>1
<1>4. PICK u \in Int : u = a.u
  OBVIOUS
<1>5. r = p * q
  BY <1>2, <1>3
<1>6. u * r = (u * p) * q /\ u * p \in Int /\ u * r \in Int
  BY <1>5
<1>7. rescale(a, s) = u * p /\ rescale(a, t) = u * r
  BY <1>3, <1>4 DEF rescale
<1>8. QED
  BY <1>3, <1>6, <1>7

\* Two decimals compare alike at all scales that have room for both.
LEMMA CmpAtAnyScale ==
  ASSUME PowersOfTen, NEW a, NEW b, a.u \in Int, b.u \in Int, a.s \in Nat, b.s \in Nat,
         NEW t \in Nat, a.s <= t, b.s <= t
  PROVE  /\ rescale(a, t) \in Int /\ rescale(b, t) \in Int
         /\ DecimalCmp(a, b) = Sign(rescale(a, t) - rescale(b, t))
<1>1. PICK s \in Nat : s = Larger(a.s, b.s) /\ a.s <= s /\ b.s <= s /\ s <= t
  BY DEF Larger
<1>2. PICK p \in Nat : p = 10^(t - s) /\ p >= 1
  <2>1. t - s \in Nat
    BY <1>1
  <2>2. QED
    BY <2>1, PowerPositive
<1>3. /\ rescale(a, s) \in Int /\ rescale(a, t) \in Int /\ rescale(a, t) = rescale(a, s) * p
      /\ rescale(b, s) \in Int /\ rescale(b, t) \in Int /\ rescale(b, t) = rescale(b, s) * p
  BY <1>1, <1>2, RescaledFurther
<1>4. PICK x \in Int, y \in Int : x = rescale(a, s) /\ y = rescale(b, s)
  BY <1>3
<1>5. x < y => x * p < y * p
  BY <1>2
<1>6. y < x => y * p < x * p
  BY <1>2
<1>7. x * p \in Int /\ y * p \in Int
  BY <1>2
<1>8. Sign(x - y) = Sign(x * p - y * p)
  <2>1. PICK v \in Int, w \in Int : v = x * p /\ w = y * p
    BY <1>7
  <2>2. (x < y => v < w) /\ (y < x => w < v) /\ (x = y => v = w)
    BY <1>5, <1>6, <2>1
  <2>3. Sign(x - y) = Sign(v - w)
    BY <2>2 DEF Sign
  <2>4. QED
    BY <2>1, <2>3
<1>9. DecimalCmp(a, b) = Sign(x - y)
  BY <1>1, <1>4 DEF DecimalCmp
<1>10. QED
  BY <1>3, <1>4, <1>8, <1>9

\* The order of decimals is that of numbers.
LEMMA DecimalsOrdered ==
  ASSUME PowersOfTen, NEW a, NEW b, NEW c, a.u \in Int, b.u \in Int, c.u \in Int,
         a.s \in Nat, b.s \in Nat, c.s \in Nat
  PROVE  /\ DecimalCmp(a, b) \in Int /\ DecimalCmp(a, b) = -DecimalCmp(b, a)
         /\ DecimalCmp(a, b) <= 0 /\ DecimalCmp(b, c) <= 0 => DecimalCmp(a, c) <= 0
<1>1. PICK t \in Nat : a.s <= t /\ b.s <= t /\ c.s <= t
  <2>1. /\ a.s + b.s + c.s \in Nat /\ a.s <= a.s + b.s + c.s
        /\ b.s <= a.s + b.s + c.s /\ c.s <= a.s + b.s + c.s
    OBVIOUS
  <2>2. QED
    BY <2>1
<1>2. PICK x \in Int, y \in Int, z \in Int : x = rescale(a, t) /\ y = rescale(b, t) /\ z = rescale(c, t)
  BY <1>1, CmpAtAnyScale
<1>3. /\ DecimalCmp(a, b) = Sign(x - y) /\ DecimalCmp(b, a) = Sign(y - x)
      /\ DecimalCmp(b, c) = Sign(y - z) /\ DecimalCmp(a, c) = Sign(x - z)
  BY <1>1, <1>2, CmpAtAnyScale
<1>4. QED
  BY <1>3 DEF Sign

\* Whether the words are compared or the decimals.
LEMMA CmpNumericIsDecimal ==
  ASSUME NEW a, NEW b, a.s \in Nat, b.s \in Nat
  PROVE  cmpNumeric(a, b) = DecimalCmp(a, b)
<1>1. PICK w : w = alignSmall(a, b)
  OBVIOUS
<1>2. w.ok => w.x = rescale(a, Larger(a.s, b.s)) /\ w.y = rescale(b, Larger(a.s, b.s))
  BY <1>1, AlignedAreRescaled
<1>3. QED
  BY <1>1, <1>2, Zenon DEF cmpNumeric, DecimalCmp

\* A factor that is at least one cancels.
LEMMA FactorCancels ==
  ASSUME NEW x \in Int, NEW y \in Int, NEW p \in Nat, p >= 1, x * p = y * p
  PROVE  x = y
<1>1. x < y => x * p < y * p
  OBVIOUS
<1>2. y < x => y * p < x * p
  OBVIOUS
<1>3. x * p \in Int /\ y * p \in Int
  OBVIOUS
<1>4. QED
  BY <1>1, <1>2, <1>3

\* A multiple has no remainder, and what has none is a multiple.
LEMMA RemainderOfMultiple ==
  ASSUME NEW x \in Int, NEW p \in Nat, p >= 1
  PROVE  /\ x % p = 0 => x = (x \div p) * p /\ x \div p \in Int
         /\ \A w \in Int : x = w * p => x % p = 0
<1>1. x = p * (x \div p) + (x % p) /\ x % p \in 0..(p - 1) /\ x \div p \in Int
  OBVIOUS
<1>2. PICK q \in Int, r \in 0..(p - 1) : q = x \div p /\ r = x % p
  BY <1>1
<1>3. x = p * q + r
  BY <1>1, <1>2
<1>4. ASSUME NEW w \in Int, x = w * p PROVE r = 0
  <2>1. r = (w - q) * p
    BY <1>3, <1>4
  <2>2. w - q >= 1 => (w - q) * p >= p
    OBVIOUS
  <2>3. w - q <= -1 => (w - q) * p <= -p
    OBVIOUS
  <2>4. w - q = 0 => (w - q) * p = 0
    OBVIOUS
  <2>5. PICK m \in Int : m = (w - q) * p
    OBVIOUS
  <2>6. QED
    BY <2>1, <2>2, <2>3, <2>4, <2>5
<1>5. r = 0 => x = q * p
  BY <1>3
<1>6. QED
  BY <1>2, <1>4, <1>5

\* The digits of a number without the d zeros at their end, or as many of them
\* as are behind the point.
Stripped(v, w, d) ==
  /\ d \in 0..v.s /\ w \in Int
  /\ Bits(v) = <<w, v.s - d>> /\ v.u = w * 10^d
  /\ d < v.s => ~\E x \in Int : w = 10 * x

\* The bits of a number are its digits without the zeros at their end.
LEMMA BitsAreStripped ==
  ASSUME PowersOfTen, NEW v, v.u \in Int, v.s \in Nat
  PROVE  \E w, d : Stripped(v, w, d)
<1> DEFINE zeros == {d \in 0..v.s : v.u % 10^d = 0}
           most  == CHOOSE d \in zeros : \A e \in zeros : e <= d
           rest  == {n \in 0..v.s : v.s - n \in zeros}
<1>1. v.s \in rest
  <2>1. v.u % 1 = 0
    OBVIOUS
  <2>2. v.s - v.s = 0 /\ 0 \in 0..v.s /\ v.s \in 0..v.s
    OBVIOUS
  <2>3. 0 \in zeros
    BY <2>1, <2>2 DEF PowersOfTen
  <2>4. QED
    BY <2>2, <2>3
<1>2. PICK m \in rest : \A n \in rest : m <= n
  <2>1. rest \in SUBSET Nat
    OBVIOUS
  <2> HIDE DEF rest
  <2>2. QED
    BY <1>1, <2>1, LeastNumber
<1>3. v.s - m \in zeros /\ \A e \in zeros : e <= v.s - m
  <2>1. ASSUME NEW e \in zeros PROVE e <= v.s - m
    <3>1. e \in 0..v.s
      OBVIOUS
    <3>2. v.s - e \in 0..v.s /\ v.s - (v.s - e) = e
      BY <3>1
    <3>3. v.s - e \in rest
      BY <3>2
    <3>4. m <= v.s - e /\ m \in 0..v.s
      BY <1>2, <3>3
    <3>5. QED
      BY <3>1, <3>4
  <2>2. QED
    BY <1>2, <2>1
<1>4. most \in zeros /\ \A e \in zeros : e <= most
  <2> HIDE DEF zeros
  <2>1. QED
    BY <1>3
<1>5. PICK d : d = most
  OBVIOUS
<1>6. d \in zeros /\ \A e \in zeros : e <= d
  BY <1>4, <1>5
<1>7. Bits(v) = <<v.u \div 10^d, v.s - d>>
  BY <1>5 DEF Bits
<1> HIDE DEF most, rest
<1>8. d \in 0..v.s /\ v.u % 10^d = 0
  BY <1>6
<1>9. PICK p \in Nat : p = 10^d /\ p >= 1
  BY <1>8, PowerPositive
<1>10. PICK w \in Int : w = v.u \div 10^d /\ v.u = w * p
  BY <1>8, <1>9, RemainderOfMultiple
<1>11. ASSUME d < v.s, NEW x \in Int, w = 10 * x PROVE FALSE
  <2>1. 10^(d + 1) = 10 * p /\ d + 1 \in 0..v.s
    BY <1>8, <1>9, <1>11 DEF PowersOfTen
  <2>2. v.u = x * (10 * p) /\ 10 * p \in Nat /\ 10 * p >= 1
    BY <1>9, <1>10, <1>11
  <2>3. v.u % (10 * p) = 0
    BY <2>2, RemainderOfMultiple
  <2>4. d + 1 \in zeros
    BY <2>1, <2>3
  <2>5. d + 1 <= d
    BY <1>6, <2>4
  <2>6. QED
    BY <1>8, <2>5
<1>12. Stripped(v, w, d)
  BY <1>7, <1>8, <1>9, <1>10, <1>11 DEF Stripped
<1>13. QED
  BY <1>12

\* A number has one sequence of digits without zeros at their end.
LEMMA StrippedOnce ==
  ASSUME PowersOfTen, NEW w \in Int, NEW x \in Int, NEW e \in Nat, NEW f \in Nat,
         w * 10^f = x * 10^e, e < f, ~\E y \in Int : x = 10 * y
  PROVE  FALSE
<1>1. PICK k \in Nat : f = e + (k + 1)
  <2>1. f - e - 1 \in Nat /\ f = e + ((f - e - 1) + 1)
    OBVIOUS
  <2>2. QED
    BY <2>1
<1>2. 10^f = 10^e * 10^(k + 1) /\ 10^(k + 1) = 10 * 10^k
  <2>1. k + 1 \in Nat
    OBVIOUS
  <2>2. 10^(e + (k + 1)) = 10^e * 10^(k + 1)
    BY <2>1, PowerOfSum
  <2>3. 10^(k + 1) = 10 * 10^k
    BY DEF PowersOfTen
  <2>4. QED
    BY <1>1, <2>2, <2>3
<1>3. PICK p \in Nat, q \in Nat : p = 10^e /\ q = 10^k /\ p >= 1
  BY PowerPositive
<1>4. w * (p * (10 * q)) = x * p
  BY <1>2, <1>3
<1>5. w * (p * (10 * q)) = (10 * (w * q)) * p
  OBVIOUS
<1>6. 10 * (w * q) \in Int /\ w * q \in Int
  OBVIOUS
<1>7. 10 * (w * q) = x
  BY <1>3, <1>4, <1>5, <1>6, FactorCancels
<1>8. QED
  BY <1>6, <1>7

\* Decimals that are equal have equal digits over the product of their scales.
LEMMA EqualsOverProduct ==
  ASSUME PowersOfTen, NEW a, NEW b, a.u \in Int, b.u \in Int, a.s \in Nat, b.s \in Nat,
         DecimalCmp(a, b) = 0
  PROVE  a.u * 10^(b.s) = b.u * 10^(a.s)
<1>1. PICK t \in Nat : t = a.s + b.s /\ a.s <= t /\ b.s <= t /\ t - a.s = b.s /\ t - b.s = a.s
  OBVIOUS
<1>2. PICK m \in Int, n \in Int : m = rescale(a, t) /\ n = rescale(b, t)
  BY <1>1, CmpAtAnyScale
<1>3. Sign(m - n) = 0
  BY <1>1, <1>2, CmpAtAnyScale
<1>4. m = n
  BY <1>3 DEF Sign
<1>5. QED
  BY <1>1, <1>2, <1>4 DEF rescale

\* Numbers that are equal have the same digits, whatever their scales are.
LEMMA EqualBitsAlike ==
  ASSUME PowersOfTen, NEW a, NEW b, a.u \in Int, b.u \in Int, a.s \in Nat, b.s \in Nat,
         DecimalCmp(a, b) = 0
  PROVE  Bits(a) = Bits(b)
<1>1. PICK w, d : Stripped(a, w, d)
  BY BitsAreStripped
<1>2. /\ d \in 0..a.s /\ w \in Int /\ Bits(a) = <<w, a.s - d>> /\ a.u = w * 10^d
      /\ d < a.s => ~\E y \in Int : w = 10 * y
  BY <1>1 DEF Stripped
<1>3. PICK x, g : Stripped(b, x, g)
  BY BitsAreStripped
<1>4. /\ g \in 0..b.s /\ x \in Int /\ Bits(b) = <<x, b.s - g>> /\ b.u = x * 10^g
      /\ g < b.s => ~\E y \in Int : x = 10 * y
  BY <1>3 DEF Stripped
<1>5. PICK e \in Nat, f \in Nat : e = a.s - d /\ f = b.s - g
  BY <1>2, <1>4
<1>6. a.u * 10^(b.s) = b.u * 10^(a.s)
  BY EqualsOverProduct
<1>7. 10^(b.s) = 10^g * 10^f /\ 10^(a.s) = 10^d * 10^e
  <2>1. b.s = g + f /\ a.s = d + e
    BY <1>2, <1>4, <1>5
  <2>2. g \in Nat /\ d \in Nat
    BY <1>2, <1>4
  <2>3. QED
    BY <2>1, <2>2, PowerOfSum
<1>8. PICK p \in Nat, q \in Nat : p = 10^d /\ q = 10^g /\ p >= 1 /\ q >= 1
  BY <1>2, <1>4, PowerPositive
<1>9. PICK m \in Nat, n \in Nat : m = 10^e /\ n = 10^f
  BY PowerPositive
<1>10. (w * p) * (q * n) = (x * q) * (p * m)
  BY <1>2, <1>4, <1>6, <1>7, <1>8, <1>9
<1>11. w * n = x * m
  <2>1. (w * p) * (q * n) = ((w * n) * p) * q /\ (x * q) * (p * m) = ((x * m) * p) * q
    BY <1>2, <1>4
  <2>2. PICK y \in Int, z \in Int : y = w * n /\ z = x * m
    BY <1>2, <1>4
  <2>3. (y * p) * q = (z * p) * q /\ y * p \in Int /\ z * p \in Int
    BY <1>10, <2>1, <2>2
  <2>4. y * p = z * p
    BY <1>8, <2>3, FactorCancels
  <2>5. y = z
    BY <1>8, <2>4, FactorCancels
  <2>6. QED
    BY <2>2, <2>5
<1>12. ~(e < f)
  <2>1. SUFFICES ASSUME e < f PROVE FALSE
    OBVIOUS
  <2>2. ~\E y \in Int : x = 10 * y
    BY <1>4, <1>5, <2>1
  <2>3. w * 10^f = x * 10^e
    BY <1>9, <1>11
  <2>4. QED
    BY <1>2, <1>4, <2>1, <2>2, <2>3, StrippedOnce
<1>13. ~(f < e)
  <2>1. SUFFICES ASSUME f < e PROVE FALSE
    OBVIOUS
  <2>2. ~\E y \in Int : w = 10 * y
    BY <1>2, <1>5, <2>1
  <2>3. x * 10^e = w * 10^f
    BY <1>9, <1>11
  <2>4. QED
    BY <1>2, <1>4, <2>1, <2>2, <2>3, StrippedOnce
<1>14. e = f
  BY <1>12, <1>13
<1>15. w = x
  <2>1. m >= 1 /\ m = n
    BY <1>9, <1>14, PowerPositive
  <2>2. QED
    BY <1>2, <1>4, <1>11, <2>1, FactorCancels
<1>16. QED
  BY <1>2, <1>4, <1>5, <1>14, <1>15

\* What a quotient without remainder leaves out is less than the divisor.
LEMMA QuotientBounds ==
  ASSUME NEW x \in Nat, NEW p \in Nat, p >= 1
  PROVE  /\ x \div p \in Nat
         /\ (x \div p) * p <= x /\ x < (x \div p + 1) * p
<1>1. x = p * (x \div p) + (x % p) /\ x % p \in 0..(p - 1) /\ x \div p \in Int
  OBVIOUS
<1>2. PICK q \in Int, r \in 0..(p - 1) : q = x \div p /\ r = x % p
  BY <1>1
<1>3. x = p * q + r
  BY <1>1, <1>2
<1>4. q * p <= x /\ x < (q + 1) * p
  BY <1>3
<1>5. q >= 0
  <2>1. q + 1 <= 0 => (q + 1) * p <= 0
    OBVIOUS
  <2>2. (q + 1) * p \in Int
    OBVIOUS
  <2>3. QED
    BY <1>4, <2>1, <2>2
<1>6. QED
  BY <1>2, <1>4, <1>5

\* A positive factor keeps the sign.
LEMMA SignKept ==
  ASSUME NEW x \in Int, NEW p \in Nat, p >= 1
  PROVE  x * p \in Int /\ Sign(x * p) = Sign(x) /\ Abs(x * p) = Abs(x) * p
<1>1. PICK y \in Int : y = x * p
  OBVIOUS
<1>2. x > 0 => y > 0
  BY <1>1
<1>3. x < 0 => y < 0
  BY <1>1
<1>4. x = 0 => y = 0
  BY <1>1
<1>5. (-x) * p = -y
  BY <1>1
<1>6. QED
  BY <1>1, <1>2, <1>3, <1>4, <1>5 DEF Sign, Abs

(***************************************************************************)
(* Floats.                                                                 *)
(***************************************************************************)

\* What up and down choose.
IsUp(n, d, bits, i) == n < 2^(i + bits) * d /\ (i > 0 => n >= 2^(i - 1 + bits) * d)
IsDown(n, d, bits, places, j) ==
  n * 2^j < 2^bits * d /\ (j < places => n * 2^(j + 1) >= 2^bits * d)

\* A distance of the numbers of so many bits is large enough for n/d only if the
\* one before it is not: there is one.
LEMMA UpIsOne ==
  ASSUME PowersOfTwo, NEW n \in Nat, NEW d \in Nat, d >= 1, NEW bits \in Nat,
         NEW i \in Nat, NEW j \in Nat, IsUp(n, d, bits, i), IsUp(n, d, bits, j)
  PROVE  ~(i < j)
<1>1. SUFFICES ASSUME i < j PROVE FALSE
  OBVIOUS
<1>2. PICK x \in Nat, y \in Nat : x = 2^(i + bits) /\ y = 2^(j - 1 + bits) /\ x <= y
  <2>1. i + bits \in Nat /\ j - 1 + bits \in Nat /\ i + bits <= j - 1 + bits
    BY <1>1
  <2>2. QED
    BY <2>1, TwosPositive, TwosGrow
<1>3. n < x * d /\ n >= y * d
  BY <1>1, <1>2 DEF IsUp
<1>4. x * d <= y * d
  BY <1>2
<1>5. x * d \in Int /\ y * d \in Int
  OBVIOUS
<1>6. QED
  BY <1>3, <1>4, <1>5

\* What up chooses is there.
LEMMA UpIsThere ==
  ASSUME PowersOfTwo, NEW n \in Nat, NEW d \in Nat, d >= 1, NEW bits \in Nat
  PROVE  up(n, d, bits) \in 0..n /\ IsUp(n, d, bits, up(n, d, bits))
<1> DEFINE S == {i \in Nat : n < 2^(i + bits) * d}
<1>1. n \in S
  <2>1. PICK x \in Nat, y \in Nat : x = 2^n /\ y = 2^(n + bits) /\ n < x /\ x <= y
    <3>1. n + bits \in Nat /\ n <= n + bits
      OBVIOUS
    <3>2. QED
      BY <3>1, TwosPositive, TwosExceed, TwosGrow
  <2>2. y <= y * d /\ y * d \in Int
    OBVIOUS
  <2>3. QED
    BY <2>1, <2>2
<1>2. PICK m \in S : \A i \in S : m <= i
  <2>1. S \in SUBSET Nat
    OBVIOUS
  <2> HIDE DEF S
  <2>2. QED
    BY <1>1, <2>1, LeastNumber
<1>3. m \in 0..n /\ n < 2^(m + bits) * d
  BY <1>1, <1>2
<1>4. m > 0 => n >= 2^(m - 1 + bits) * d
  <2>1. SUFFICES ASSUME m > 0 PROVE n >= 2^(m - 1 + bits) * d
    OBVIOUS
  <2>2. m - 1 \in Nat /\ ~(m <= m - 1) /\ m - 1 + bits \in Nat
    BY <1>3, <2>1
  <2>3. ~(n < 2^(m - 1 + bits) * d)
    BY <1>2, <2>2
  <2>4. 2^(m - 1 + bits) * d \in Int
    BY <2>2, TwosPositive
  <2>5. QED
    BY <2>3, <2>4
<1> HIDE DEF S
<1>5. \E i \in 0..n : n < 2^(i + bits) * d /\ (i > 0 => n >= 2^(i - 1 + bits) * d)
  BY <1>3, <1>4
<1>6. PICK i : i = up(n, d, bits)
  OBVIOUS
<1>7. i \in 0..n /\ n < 2^(i + bits) * d /\ (i > 0 => n >= 2^(i - 1 + bits) * d)
  BY <1>5, <1>6, Zenon DEF up
<1>8. QED
  BY <1>6, <1>7, Zenon DEF IsUp

\* The most places that leave room for n/d are the ones that one more do not.
LEMMA DownIsOne ==
  ASSUME PowersOfTwo, NEW n \in Nat, NEW d \in Nat, d >= 1, NEW bits \in Nat, NEW places \in Nat,
         NEW i \in 0..places, NEW j \in 0..places,
         IsDown(n, d, bits, places, i), IsDown(n, d, bits, places, j)
  PROVE  ~(i < j)
<1>1. SUFFICES ASSUME i < j PROVE FALSE
  OBVIOUS
<1>2. PICK x \in Nat, y \in Nat : x = 2^(i + 1) /\ y = 2^j /\ x <= y
  <2>1. i + 1 \in Nat /\ j \in Nat /\ i + 1 <= j
    BY <1>1
  <2>2. QED
    BY <2>1, TwosPositive, TwosGrow
<1>3. PICK z \in Nat : z = 2^bits * d
  BY TwosPositive
<1>4. n * y < z /\ n * x >= z
  BY <1>1, <1>2, <1>3 DEF IsDown
<1>5. n * x <= n * y
  BY <1>2
<1>6. n * x \in Int /\ n * y \in Int
  OBVIOUS
<1>7. QED
  BY <1>4, <1>5, <1>6

\* What down chooses is there.
LEMMA DownIsThere ==
  ASSUME PowersOfTwo, NEW n \in Nat, NEW d \in Nat, d >= 1, NEW bits \in Nat, NEW places \in Nat,
         n < 2^bits * d
  PROVE  /\ down(n, d, bits, places) \in 0..places
         /\ IsDown(n, d, bits, places, down(n, d, bits, places))
<1>1. PICK z \in Nat : z = 2^bits * d /\ n < z
  BY TwosPositive
<1> DEFINE S == {k \in Nat : k <= places /\ n * 2^(places - k) < z}
<1>2. places \in S
  <2>1. places - places = 0 /\ n * 1 = n
    OBVIOUS
  <2>2. n * 2^(places - places) < z
    BY <1>1, <2>1 DEF PowersOfTwo
  <2>3. QED
    BY <2>2
<1>3. PICK m \in S : \A k \in S : m <= k
  <2>1. S \in SUBSET Nat
    OBVIOUS
  <2> HIDE DEF S
  <2>2. QED
    BY <1>2, <2>1, LeastNumber
<1>4. PICK j \in 0..places : j = places - m /\ n * 2^j < z
  BY <1>3
<1>5. j < places => n * 2^(j + 1) >= z
  <2>1. SUFFICES ASSUME j < places PROVE n * 2^(j + 1) >= z
    OBVIOUS
  <2>2. m \in Nat /\ m - 1 \in Nat /\ m - 1 <= places /\ places - (m - 1) = j + 1 /\ ~(m <= m - 1)
    BY <1>3, <1>4, <2>1
  <2>3. ~(n * 2^(j + 1) < z)
    BY <1>3, <2>2
  <2>4. n * 2^(j + 1) \in Int
    BY TwosPositive
  <2>5. QED
    BY <2>3, <2>4
<1> HIDE DEF S
<1>6. \E k \in 0..places : n * 2^k < 2^bits * d /\ (k < places => n * 2^(k + 1) >= 2^bits * d)
  BY <1>1, <1>4, <1>5
<1>7. PICK k : k = down(n, d, bits, places)
  OBVIOUS
<1>8. k \in 0..places /\ n * 2^k < 2^bits * d /\ (k < places => n * 2^(k + 1) >= 2^bits * d)
  BY <1>6, <1>7, Zenon DEF down
<1>9. QED
  BY <1>7, <1>8, Zenon DEF IsDown

\* A number that is rounded is so many places of a natural.
LEMMA NearestIsBinary ==
  ASSUME PowersOfTwo, NEW n \in Nat, NEW d \in Nat, d >= 1, NEW bits \in Nat, NEW places \in Nat
  PROVE  nearest(n, d, bits, places).n \in Nat /\ nearest(n, d, bits, places).places \in Nat
<1>1. PICK i \in Nat : i = up(n, d, bits) /\ IsUp(n, d, bits, i)
  BY UpIsThere
<1>2. PICK j : j = IF i > 0 THEN 0 ELSE down(n, d, bits, places)
  OBVIOUS
<1>3. j \in Nat
  <2>1. CASE i > 0
    BY <1>2, <2>1
  <2>2. CASE ~(i > 0)
    <3>1. i = 0 /\ 0 + bits = bits
      BY <2>2
    <3>2. n < 2^bits * d
      BY <1>1, <3>1 DEF IsUp
    <3>3. down(n, d, bits, places) \in 0..places
      BY <3>2, DownIsThere
    <3>4. QED
      BY <1>2, <2>2, <3>3
  <2>3. QED
    BY <2>1, <2>2
<1>4. nearest(n, d, bits, places) = onGrid(n, d, i, j)
  BY <1>1, <1>2 DEF nearest, onFinest
<1>5. PICK p \in Nat, q \in Nat, t \in Nat : p = n * 2^j /\ q = d * 2^i /\ t = 2^i /\ q >= 1
  <2>1. 2^j \in Nat /\ 2^i \in Nat /\ 2^i >= 1
    BY <1>3, TwosPositive
  <2>2. QED
    BY <2>1
<1>6. PICK w \in Nat : w = p \div q
  BY <1>5, QuotientBounds
<1>7. PICK h \in {w, w + 1} : onGrid(n, d, i, j) = [n |-> h * t, places |-> j]
  BY <1>5, <1>6 DEF onGrid, toEven
<1>8. QED
  BY <1>3, <1>4, <1>7

\* What the constructor of floats makes has digits and a scale.
IsFloat(v) == v.k = "float" /\ v.u \in Int /\ v.s \in Nat

\* The float for a fraction.
LEMMA FloatIsFloat ==
  ASSUME PowersOfTen, PowersOfTwo, NEW n \in Int, NEW d \in Nat, d >= 1
  PROVE  IsFloat(Float(n, d))
<1>1. PICK m \in Nat, e \in {-1, 0, 1} : m = Abs(n) /\ e = Sign(n)
  BY DEF Abs, Sign
<1>2. PICK b : b = nearest(m, d, FloatBits, FloatPlaces)
  OBVIOUS
<1>3. b.n \in Nat /\ b.places \in Nat
  BY <1>2, WidthsAssumption, NearestIsBinary
<1>4. PICK w \in Int : w = e * ((b.n * 10^b.places) \div 2^b.places)
  <2>1. PICK x \in Nat, y \in Nat : x = 10^b.places /\ y = 2^b.places /\ y >= 1
    BY <1>3, PowerPositive, TwosPositive
  <2>2. b.n * x \in Nat
    BY <1>3
  <2>3. (b.n * x) \div y \in Nat
    BY <2>1, <2>2, QuotientBounds
  <2>4. QED
    BY <2>1, <2>3
<1>5. PICK v : v = V("float", w, b.places)
  OBVIOUS
<1>6. v.u \in Int /\ v.s \in Nat
  BY <1>3, <1>5 DEF V
<1>7. PICK z, g : Stripped(v, z, g)
  BY <1>6, BitsAreStripped
<1>8. Bits(v)[1] \in Int /\ Bits(v)[2] \in Nat
  BY <1>6, <1>7 DEF Stripped
<1>9. Float(n, d) = V("float", Bits(v)[1], Bits(v)[2])
  BY <1>1, <1>2, <1>4, <1>5, Zenon DEF Float, asDigits, FloatOf
<1>10. QED
  BY <1>8, <1>9 DEF IsFloat, V

\* The precision of a quotient is GuardBits where both are shorter than that.
LEMMA PrecisionIsThere ==
  ASSUME PowersOfTwo, NEW u \in Nat, NEW d \in Nat
  PROVE  /\ precision(u, d) \in Nat
         /\ u < 2^GuardBits /\ d < 2^GuardBits => precision(u, d) = GuardBits
<1> DEFINE Fits(b) == u < 2^b /\ d < 2^b
           S == {b \in Nat : b >= GuardBits /\ Fits(b)}
<1>1. PICK G \in Nat : G = GuardBits
  BY WidthsAssumption
<1>2. \A b \in Nat, c \in Nat : b <= c => 2^b \in Nat /\ 2^c \in Nat /\ 2^b <= 2^c
  BY TwosPositive, TwosGrow
<1>3. G + u + d \in S
  <2>1. PICK s \in Nat : s = G + u + d /\ u <= s /\ d <= s /\ G <= s
    OBVIOUS
  <2>2. s < 2^s /\ 2^s \in Nat
    BY TwosExceed, TwosPositive
  <2>3. u < 2^s /\ d < 2^s
    BY <2>1, <2>2
  <2>4. QED
    BY <1>1, <2>1, <2>3
<1>4. PICK m \in S : \A b \in S : m <= b
  <2>1. S \in SUBSET Nat
    OBVIOUS
  <2> HIDE DEF S
  <2>2. QED
    BY <1>3, <2>1, LeastNumber
<1>5. m \in G..(G + u + d) /\ Fits(m)
  BY <1>1, <1>3, <1>4
<1>6. m > G => ~Fits(m - 1)
  <2>1. SUFFICES ASSUME m > G PROVE ~Fits(m - 1)
    OBVIOUS
  <2>2. m - 1 \in Nat /\ m - 1 >= G /\ ~(m <= m - 1)
    BY <1>5, <2>1
  <2>3. m - 1 \notin S
    BY <1>4, <2>2
  <2>4. QED
    BY <1>1, <2>2, <2>3
<1> HIDE DEF S
<1>7. PICK p : p = precision(u, d)
  OBVIOUS
<1>8. p \in G..(G + u + d) /\ Fits(p) /\ (p > G => ~Fits(p - 1))
  <2>1. \E b \in GuardBits..(GuardBits + u + d) :
          u < 2^b /\ d < 2^b /\ (b > GuardBits => ~(u < 2^(b - 1) /\ d < 2^(b - 1)))
    BY <1>1, <1>5, <1>6
  <2>2. p \in GuardBits..(GuardBits + u + d) /\ u < 2^p /\ d < 2^p
        /\ (p > GuardBits => ~(u < 2^(p - 1) /\ d < 2^(p - 1)))
    BY <1>7, <2>1, Zenon DEF precision
  <2>3. QED
    BY <1>1, <2>2
<1>9. ASSUME Fits(G), p > G PROVE FALSE
  <2>1. PICK q \in Nat : q = p - 1 /\ G <= q
    BY <1>8, <1>9
  <2>2. 2^G \in Nat /\ 2^q \in Nat /\ 2^G <= 2^q
    BY <1>2, <2>1
  <2>3. Fits(q)
    BY <1>9, <2>2
  <2>4. QED
    BY <1>8, <1>9, <2>1, <2>3
<1>10. QED
  BY <1>1, <1>7, <1>8, <1>9

\* What a decimal is converted to (Float64), and any number (AsFloat).
LEMMA ConvertedIsFloat ==
  ASSUME PowersOfTen, PowersOfTwo, NEW v, v.u \in Int, v.s \in Nat
  PROVE  IsFloat(Float64(v)) /\ (IsNumeric(v.k) => IsFloat(AsFloat(v)))
<1>1. PICK m \in Nat, e \in {-1, 0, 1} : m = Abs(v.u) /\ e = Sign(v.u)
  BY DEF Abs, Sign
<1>2. PICK t \in Nat : t = 10^v.s /\ t >= 1
  BY PowerPositive
<1>3. IsFloat(Float64(v))
  <2>1. PICK prec \in Nat : prec = precision(m, t)
    BY PrecisionIsThere
  <2>2. PICK quo : quo = nearest(m, t, prec, FloatPlaces + prec)
    OBVIOUS
  <2>3. quo.n \in Nat /\ quo.places \in Nat
    <3>1. FloatPlaces + prec \in Nat
      BY WidthsAssumption
    <3>2. QED
      BY <1>2, <2>2, <3>1, NearestIsBinary
  <2>4. Float64(v) = Float(e * quo.n, 2^quo.places * 1)
    BY <1>1, <1>2, <2>1, <2>2, Zenon DEF Float64, quotient, Again
  <2>5. e * quo.n \in Int /\ 2^quo.places * 1 \in Nat /\ 2^quo.places * 1 >= 1
    BY <2>3, TwosPositive
  <2>6. QED
    BY <2>4, <2>5, FloatIsFloat
<1>4. ASSUME v.k = "int" \/ (v.k = "numeric" /\ IsSmall(v)) PROVE IsFloat(AsFloat(v))
  <2>1. PICK digits : digits = nearest(m, 1, FloatBits, FloatPlaces)
    OBVIOUS
  <2>2. digits.n \in Nat /\ digits.places \in Nat
    <3>1. 1 \in Nat /\ 1 >= 1 /\ FloatBits \in Nat /\ FloatPlaces \in Nat
      BY WidthsAssumption
    <3>2. PICK one \in Nat : one = 1 /\ one >= 1
      BY <3>1
    <3>3. nearest(m, one, FloatBits, FloatPlaces).n \in Nat /\ nearest(m, one, FloatBits, FloatPlaces).places \in Nat
      BY <3>1, <3>2, NearestIsBinary
    <3>4. QED
      BY <2>1, <3>2, <3>3
  <2>3. AsFloat(v) = Float(e * digits.n, 2^digits.places * t)
    <3>1. v.k # "float" /\ ~(v.k = "numeric" /\ ~IsSmall(v))
      BY <1>4
    <3>2. AsFloat(v) = Again(Sign(v.u), nearest(Abs(v.u), 1, FloatBits, FloatPlaces), 10^v.s)
      BY <1>4, <3>1 DEF AsFloat
    <3>3. QED
      BY <1>1, <1>2, <2>1, <3>2, Zenon DEF Again
  <2>4. PICK q \in Nat : q = 2^digits.places /\ q >= 1
    BY <2>2, TwosPositive
  <2>5. e * digits.n \in Int /\ q * t \in Nat /\ q * t >= 1
    BY <1>2, <2>2, <2>4
  <2>6. QED
    BY <2>3, <2>4, <2>5, FloatIsFloat
<1>5. ASSUME v.k = "numeric", ~IsSmall(v) PROVE IsFloat(AsFloat(v))
  BY <1>3, <1>5 DEF AsFloat
<1>6. ASSUME v.k = "float" PROVE IsFloat(AsFloat(v))
  BY <1>6 DEF AsFloat, IsFloat
<1>7. QED
  BY <1>3, <1>4, <1>5, <1>6 DEF IsNumeric

\* Two fractions that are equal.
SameRatio(n, d, m, c) == d >= 1 /\ c >= 1 /\ n * c = m * d

\* n/d is less than y/x.
Less(n, d, x, y) == n * x < y * d

\* Fractions that are equal are on the same side of a third.
LEMMA EqualsOnOneSide ==
  ASSUME NEW n \in Nat, NEW d \in Nat, NEW m \in Nat, NEW c \in Nat, SameRatio(n, d, m, c),
         NEW x \in Nat, NEW y \in Nat, Less(n, d, x, y)
  PROVE  Less(m, c, x, y)
<1>0. d >= 1 /\ c >= 1 /\ n * c = m * d /\ n * x < y * d
  BY DEF SameRatio, Less
<1>1. PICK p \in Nat, q \in Nat, z \in Nat, w \in Nat : p = n * x /\ q = y * d /\ z = m * x /\ w = y * c
  OBVIOUS
<1>2. p * c < q * c
  BY <1>0, <1>1
<1>3. p * c = z * d
  <2>1. p * c = (n * c) * x /\ z * d = (m * d) * x
    BY <1>1
  <2>2. QED
    BY <1>0, <2>1
<1>4. q * c = w * d
  BY <1>1
<1>5. w <= z => w * d <= z * d
  BY <1>0
<1>6. p * c \in Int /\ q * c \in Int
  OBVIOUS
<1>7. z < w
  BY <1>2, <1>3, <1>4, <1>5, <1>6
<1>8. QED
  BY <1>1, <1>7 DEF Less

DividedAlike(n, d, m, c) ==
  /\ n \div d = m \div c
  /\ 2 * (n % d) > d => 2 * (m % c) > c
  /\ 2 * (n % d) = d => 2 * (m % c) = c

\* Dividing the terms of equal fractions gives the same quotient, and remainders
\* on the same side of one half.
LEMMA EqualsDividedAlike ==
  ASSUME NEW n \in Nat, NEW d \in Nat, NEW m \in Nat, NEW c \in Nat, SameRatio(n, d, m, c)
  PROVE  DividedAlike(n, d, m, c)
<1>0. d >= 1 /\ c >= 1 /\ n * c = m * d
  BY DEF SameRatio
<1>1. PICK w \in Int, r \in 0..(d - 1) : n = d * w + r /\ w = n \div d /\ r = n % d
  <2>1. n = d * (n \div d) + (n % d) /\ n % d \in 0..(d - 1) /\ n \div d \in Int
    BY <1>0
  <2>2. QED
    BY <2>1
<1>2. PICK v \in Int, s \in 0..(c - 1) : m = c * v + s /\ v = m \div c /\ s = m % c
  <2>1. m = c * (m \div c) + (m % c) /\ m % c \in 0..(c - 1) /\ m \div c \in Int
    BY <1>0
  <2>2. QED
    BY <2>1
<1>3. PICK t \in Nat : t = d * c /\ t >= 1
  BY <1>0
<1>4. PICK x \in Nat, y \in Nat : x = r * c /\ y = s * d
  OBVIOUS
<1>5. x < t /\ y < t
  <2>1. (r + 1) * c <= d * c /\ (s + 1) * d <= c * d
    OBVIOUS
  <2>2. (r + 1) * c = x + c /\ (s + 1) * d = y + d
    BY <1>4
  <2>3. QED
    BY <1>3, <2>1, <2>2
<1>6. w * t + x = v * t + y
  <2>1. n * c = w * t + x
    <3>1. (d * w + r) * c = w * (d * c) + r * c
      OBVIOUS
    <3>2. QED
      BY <1>1, <1>3, <1>4, <3>1
  <2>2. m * d = v * t + y
    <3>1. (c * v + s) * d = v * (d * c) + s * d
      OBVIOUS
    <3>2. QED
      BY <1>2, <1>3, <1>4, <3>1
  <2>3. QED
    BY <1>0, <2>1, <2>2
<1>7. PICK wt \in Int, vt \in Int : wt = w * t /\ vt = v * t
  OBVIOUS
<1>8. ~(w < v)
  <2>1. w + 1 <= v => (w + 1) * t <= v * t
    OBVIOUS
  <2>2. (w + 1) * t = wt + t
    BY <1>7
  <2>3. QED
    BY <1>5, <1>6, <1>7, <2>1, <2>2
<1>9. ~(v < w)
  <2>1. v + 1 <= w => (v + 1) * t <= w * t
    OBVIOUS
  <2>2. (v + 1) * t = vt + t
    BY <1>7
  <2>3. QED
    BY <1>5, <1>6, <1>7, <2>1, <2>2
<1>10. w = v /\ x = y
  <2>1. w = v
    BY <1>8, <1>9
  <2>2. QED
    BY <1>6, <1>7, <2>1
<1>11. 2 * r > d => 2 * s > c
  <2>1. SUFFICES ASSUME 2 * r > d, 2 * s <= c PROVE FALSE
    OBVIOUS
  <2>2. (2 * r) * c > d * c /\ (2 * s) * d <= c * d
    BY <1>0, <2>1
  <2>3. (2 * r) * c = 2 * x /\ (2 * s) * d = 2 * y
    BY <1>4
  <2>4. QED
    BY <1>3, <1>10, <2>2, <2>3
<1>12. 2 * r = d => 2 * s = c
  <2>1. SUFFICES ASSUME 2 * r = d PROVE 2 * s = c
    OBVIOUS
  <2>2. (2 * r) * c = 2 * x /\ (2 * s) * d = 2 * y
    BY <1>4
  <2>3. (2 * s) * d = c * d
    BY <1>10, <2>1, <2>2
  <2>4. 2 * s \in Int
    OBVIOUS
  <2>5. QED
    BY <1>0, <2>3, <2>4, FactorCancels
<1>13. QED
  BY <1>1, <1>2, <1>10, <1>11, <1>12 DEF DividedAlike

\* Equal fractions are rounded alike.
LEMMA EqualsRoundedAlike ==
  ASSUME PowersOfTwo, NEW n \in Nat, NEW d \in Nat, NEW m \in Nat, NEW c \in Nat, SameRatio(n, d, m, c),
         NEW bits \in Nat, NEW places \in Nat
  PROVE  nearest(n, d, bits, places) = nearest(m, c, bits, places)
<1>0. d >= 1 /\ c >= 1
  BY DEF SameRatio
<1>1. \A x \in Nat, y \in Nat : n * x < y * d <=> m * x < y * c
  <2>1. SameRatio(m, c, n, d)
    BY DEF SameRatio
  <2>2. \A x \in Nat, y \in Nat : Less(n, d, x, y) <=> Less(m, c, x, y)
    BY <2>1, EqualsOnOneSide
  <2>3. QED
    BY <2>2 DEF Less
<1>2. \A y \in Nat : n < y * d <=> m < y * c
  <2>1. n * 1 = n /\ m * 1 = m
    OBVIOUS
  <2>2. QED
    BY <1>1, <2>1
<1>3. PICK i \in Nat : i = up(n, d, bits) /\ IsUp(n, d, bits, i)
  <2>1. up(n, d, bits) \in 0..n /\ IsUp(n, d, bits, up(n, d, bits))
    BY <1>0, UpIsThere
  <2>2. QED
    BY <2>1
<1>4. PICK k \in Nat : k = up(m, c, bits) /\ IsUp(m, c, bits, k)
  <2>1. up(m, c, bits) \in 0..m /\ IsUp(m, c, bits, up(m, c, bits))
    BY <1>0, UpIsThere
  <2>2. QED
    BY <2>1
<1>5. IsUp(m, c, bits, i)
  <2>1. PICK x \in Nat : x = 2^(i + bits)
    BY TwosPositive
  <2>2. m < x * c
    BY <1>2, <1>3, <2>1 DEF IsUp
  <2>3. ASSUME i > 0 PROVE m >= 2^(i - 1 + bits) * c
    <3>1. PICK y \in Nat : y = 2^(i - 1 + bits)
      <4>1. i - 1 + bits \in Nat
        BY <2>3
      <4>2. QED
        BY <4>1, TwosPositive
    <3>2. n >= y * d
      BY <1>3, <2>3, <3>1 DEF IsUp
    <3>3. ~(n < y * d)
      BY <3>2
    <3>4. ~(m < y * c)
      BY <1>2, <3>3
    <3>5. QED
      BY <3>1, <3>4
  <2>4. QED
    BY <2>1, <2>2, <2>3 DEF IsUp
<1>6. i = k
  <2>1. ~(i < k)
    BY <1>0, <1>4, <1>5, UpIsOne, Zenon
  <2>2. ~(k < i)
    BY <1>0, <1>4, <1>5, UpIsOne, Zenon
  <2>3. QED
    BY <2>1, <2>2
<1>7. PICK j \in Nat : /\ j = IF i > 0 THEN 0 ELSE down(n, d, bits, places)
                       /\ j = IF i > 0 THEN 0 ELSE down(m, c, bits, places)
  <2>1. CASE i > 0
    BY <2>1
  <2>2. CASE ~(i > 0)
    <3>1. i = 0 /\ 0 + bits = bits
      BY <2>2
    <3>2. n < 2^bits * d /\ m < 2^bits * c
      BY <1>3, <1>4, <1>6, <3>1 DEF IsUp
    <3>3. PICK j \in 0..places : j = down(n, d, bits, places) /\ IsDown(n, d, bits, places, j)
      BY <1>0, <3>2, DownIsThere
    <3>4. PICK l \in 0..places : l = down(m, c, bits, places) /\ IsDown(m, c, bits, places, l)
      BY <1>0, <3>2, DownIsThere
    <3>5. PICK z \in Nat, x \in Nat, y \in Nat : z = 2^bits /\ x = 2^j /\ y = 2^(j + 1)
      BY TwosPositive
    <3>6. n * x < z * d /\ (j < places => ~(n * y < z * d))
      BY <3>3, <3>5 DEF IsDown
    <3>7. m * x < z * c /\ (j < places => ~(m * y < z * c))
      BY <1>1, <3>6
    <3>8. IsDown(m, c, bits, places, j)
      BY <3>5, <3>7 DEF IsDown
    <3>9. ~(j < l) /\ ~(l < j)
      <4>1. j \in 0..places /\ l \in 0..places
        OBVIOUS
      <4>2. IsDown(m, c, bits, places, l)
        BY <3>4
      <4>3. ~(j < l)
        BY <1>0, <3>8, <4>1, <4>2, DownIsOne, Zenon
      <4>4. ~(l < j)
        BY <1>0, <3>8, <4>1, <4>2, DownIsOne, Zenon
      <4>5. QED
        BY <4>3, <4>4
    <3>10. QED
      BY <2>2, <3>3, <3>4, <3>9
  <2>3. QED
    BY <2>1, <2>2
<1>8. onGrid(n, d, i, j) = onGrid(m, c, i, j)
  <2>1. PICK x \in Nat, y \in Nat : x = 2^j /\ y = 2^i /\ y >= 1
    BY TwosPositive
  <2>2. PICK p \in Nat, q \in Nat, s \in Nat, t \in Nat :
          p = n * x /\ q = d * y /\ s = m * x /\ t = c * y /\ q >= 1 /\ t >= 1
    BY <1>0, <2>1
  <2>3. SameRatio(p, q, s, t) /\ SameRatio(s, t, p, q)
    <3>1. p * t = (n * c) * (x * y) /\ s * q = (m * d) * (x * y)
      BY <2>2
    <3>2. p * t = s * q
      BY <3>1 DEF SameRatio
    <3>3. q >= 1 /\ t >= 1
      BY <2>2
    <3>4. QED
      BY <3>2, <3>3 DEF SameRatio
  <2>4. /\ p \div q = s \div t
        /\ 2 * (p % q) > q <=> 2 * (s % t) > t
        /\ 2 * (p % q) = q <=> 2 * (s % t) = t
    <3>1. DividedAlike(p, q, s, t) /\ DividedAlike(s, t, p, q)
      BY <2>3, EqualsDividedAlike
    <3>2. QED
      BY <3>1 DEF DividedAlike
  <2>5. PICK w, h : w = p \div q /\ h = IF 2 * (p % q) > q \/ (2 * (p % q) = q /\ w % 2 = 1) THEN w + 1 ELSE w
    OBVIOUS
  <2>6. h = IF 2 * (s % t) > t \/ (2 * (s % t) = t /\ w % 2 = 1) THEN w + 1 ELSE w
    BY <2>4, <2>5
  <2>7. onGrid(n, d, i, j) = [n |-> h * y, places |-> j]
    BY <2>1, <2>2, <2>5 DEF onGrid, toEven
  <2>8. onGrid(m, c, i, j) = [n |-> h * y, places |-> j]
    BY <2>1, <2>2, <2>4, <2>5, <2>6 DEF onGrid, toEven
  <2>9. QED
    BY <2>7, <2>8
<1>9. QED
  BY <1>3, <1>4, <1>6, <1>7, <1>8 DEF nearest, onFinest

\* Decimals of ordinary length that are equal are converted to the same float.
LEMMA EqualsConvertedAlike ==
  ASSUME PowersOfTen, PowersOfTwo, NEW a, NEW b, a.u \in Int, b.u \in Int, a.s \in Nat, b.s \in Nat,
         DecimalCmp(a, b) = 0, IsShort(a), IsShort(b)
  PROVE  Float64(a) = Float64(b)
<1>1. PICK p \in Nat, q \in Nat : p = 10^a.s /\ q = 10^b.s /\ p >= 1 /\ q >= 1
  BY PowerPositive
<1>2. a.u * q = b.u * p
  BY <1>1, EqualsOverProduct
<1>3. PICK m \in Nat, n \in Nat : m = Abs(a.u) /\ n = Abs(b.u)
  BY DEF Abs
<1>4. Sign(a.u) = Sign(b.u) /\ m * q = n * p
  <2>1. Sign(a.u * q) = Sign(a.u) /\ Abs(a.u * q) = m * q
    BY <1>1, <1>3, SignKept
  <2>2. Sign(b.u * p) = Sign(b.u) /\ Abs(b.u * p) = n * p
    BY <1>1, <1>3, SignKept
  <2>3. QED
    BY <1>2, <2>1, <2>2
<1>5. PICK G \in Nat : G = GuardBits /\ precision(m, p) = G /\ precision(n, q) = G
  <2>1. m < 2^GuardBits /\ p < 2^GuardBits /\ n < 2^GuardBits /\ q < 2^GuardBits
    BY <1>1, <1>3 DEF IsShort
  <2>2. QED
    BY <2>1, WidthsAssumption, PrecisionIsThere
<1>6. SameRatio(m, p, n, q)
  BY <1>1, <1>4 DEF SameRatio
<1>7. nearest(m, p, G, FloatPlaces + G) = nearest(n, q, G, FloatPlaces + G)
  <2>1. FloatPlaces + G \in Nat
    BY WidthsAssumption
  <2>2. QED
    BY <1>6, <2>1, EqualsRoundedAlike
<1>8. PICK quo : quo = nearest(m, p, G, FloatPlaces + G)
  OBVIOUS
<1>9. Float64(a) = Again(Sign(a.u), quo, 1)
  BY <1>1, <1>3, <1>5, <1>8, Zenon DEF Float64, quotient
<1>10. Float64(b) = Again(Sign(b.u), quo, 1)
  BY <1>1, <1>3, <1>5, <1>7, <1>8, Zenon DEF Float64, quotient
<1>11. QED
  BY <1>4, <1>9, <1>10

(***************************************************************************)
(* The order of values.                                                    *)
(***************************************************************************)

\* Decimals that are equal compare alike with others that are equal.
LEMMA EqualsCompareAlike ==
  ASSUME PowersOfTen, NEW a, NEW b, NEW c, NEW d,
         a.u \in Int, b.u \in Int, c.u \in Int, d.u \in Int,
         a.s \in Nat, b.s \in Nat, c.s \in Nat, d.s \in Nat,
         DecimalCmp(c, a) = 0, DecimalCmp(d, b) = 0
  PROVE  DecimalCmp(c, d) = DecimalCmp(a, b)
<1>1. PICK t \in Nat : a.s <= t /\ b.s <= t /\ c.s <= t /\ d.s <= t
  <2>1. PICK t \in Nat : t = a.s + b.s + c.s + d.s
    OBVIOUS
  <2>2. QED
    BY <2>1
<1>2. PICK x \in Int, y \in Int, z \in Int, w \in Int :
        x = rescale(a, t) /\ y = rescale(b, t) /\ z = rescale(c, t) /\ w = rescale(d, t)
  BY <1>1, CmpAtAnyScale
<1>3. /\ DecimalCmp(a, b) = Sign(x - y) /\ DecimalCmp(c, d) = Sign(z - w)
      /\ DecimalCmp(c, a) = Sign(z - x) /\ DecimalCmp(d, b) = Sign(w - y)
  BY <1>1, <1>2, CmpAtAnyScale
<1>4. z = x /\ w = y
  BY <1>3 DEF Sign
<1>5. QED
  BY <1>3, <1>4

\* How two numbers compare: exactly where both are exact, both floats, or both
\* held by floats.
LEMMA NumbersCompared ==
  ASSUME PowersOfTen, PowersOfTwo, NEW a, NEW b, Valued(a), Valued(b), IsNumeric(a.k), IsNumeric(b.k),
         \/ IsExact(a.k) /\ IsExact(b.k)
         \/ a.k = "float" /\ b.k = "float"
         \/ IsHeld(a) /\ IsHeld(b)
  PROVE  Compare(a, b) = DecimalCmp(a, b)
<1>1. a.u \in Int /\ a.s \in Nat /\ b.u \in Int /\ b.s \in Nat
  BY DEF Valued
<1>2. ~IsNull(a) /\ ~IsNull(b)
  BY DEF IsNull, IsNumeric
<1>3. CASE IsExact(a.k) /\ IsExact(b.k)
  <2>1. cmpNumeric(a, b) = DecimalCmp(a, b)
    BY <1>1, CmpNumericIsDecimal
  <2>2. QED
    BY <1>2, <1>3, <2>1 DEF Compare
<1>4. CASE ~(IsExact(a.k) /\ IsExact(b.k))
  <2>1. Compare(a, b) = DecimalCmp(AsFloat(a), AsFloat(b))
    BY <1>2, <1>4 DEF Compare
  <2>2. CASE a.k = "float" /\ b.k = "float"
    BY <2>1, <2>2 DEF AsFloat
  <2>3. CASE IsHeld(a) /\ IsHeld(b)
    <3>1. PICK f, g : f = AsFloat(a) /\ g = AsFloat(b)
      OBVIOUS
    <3>2. f.u \in Int /\ f.s \in Nat /\ g.u \in Int /\ g.s \in Nat
      BY <1>1, <3>1, ConvertedIsFloat DEF IsFloat
    <3>3. DecimalCmp(f, a) = 0 /\ DecimalCmp(g, b) = 0
      BY <2>3, <3>1 DEF IsHeld
    <3>4. QED
      BY <1>1, <2>1, <3>1, <3>2, <3>3, EqualsCompareAlike
  <2>4. QED
    BY <1>4, <2>2, <2>3
<1>5. QED
  BY <1>3, <1>4

\* How two values of a column compare.
LEMMA CompareInColumn ==
  ASSUME PowersOfTen, PowersOfTwo, NEW column \in Columns,
         NEW a \in column, NEW b \in column, ~IsNull(a), ~IsNull(b)
  PROVE  /\ Compare(a, b) = IF IsNumeric(a.k) THEN DecimalCmp(a, b) ELSE Sign(a.u - b.u)
         /\ IsNumeric(a.k) <=> IsNumeric(b.k)
<1>1. Valued(a) /\ Valued(b)
  BY SampleAssumption DEF Columns, Held
<1>2. \/ a.k = b.k
      \/ IsNumeric(a.k) /\ IsNumeric(b.k) /\ IsExact(a.k) /\ IsExact(b.k)
      \/ IsNumeric(a.k) /\ IsNumeric(b.k) /\ IsHeld(a) /\ IsHeld(b)
  BY DEF Columns, Held, IsNull, IsExact, IsNumeric
<1>3. CASE IsNumeric(a.k) /\ IsNumeric(b.k)
  <2>1. a.k = b.k => (IsExact(a.k) /\ IsExact(b.k)) \/ (a.k = "float" /\ b.k = "float")
    BY <1>3 DEF IsExact, IsNumeric
  <2>2. Compare(a, b) = DecimalCmp(a, b)
    BY <1>1, <1>2, <1>3, <2>1, NumbersCompared
  <2>3. QED
    BY <1>3, <2>2
<1>4. CASE ~(IsNumeric(a.k) /\ IsNumeric(b.k))
  <2>1. a.k = b.k
    BY <1>2, <1>4
  <2>2. ~IsExact(a.k) /\ ~IsNumeric(a.k) /\ ~IsNumeric(b.k)
    BY <1>4, <2>1 DEF IsExact, IsNumeric
  <2>3. QED
    BY <2>1, <2>2 DEF Compare
<1>5. QED
  BY <1>3, <1>4

\* Which of two values is the greater does not depend on which is asked.
LEMMA CompareTurns ==
  ASSUME PowersOfTen, PowersOfTwo, NEW a \in Sample, NEW b \in Sample
  PROVE  Compare(a, b) = -Compare(b, a)
<1>1. Valued(a) /\ Valued(b)
  BY SampleAssumption
<1>2. a.u \in Int /\ a.s \in Nat /\ b.u \in Int /\ b.s \in Nat
  BY <1>1 DEF Valued
<1>3. CASE IsNull(a) \/ IsNull(b)
  BY <1>3 DEF Compare
<1>4. CASE ~IsNull(a) /\ ~IsNull(b) /\ IsExact(a.k) /\ IsExact(b.k)
  <2>1. cmpNumeric(a, b) = DecimalCmp(a, b) /\ cmpNumeric(b, a) = DecimalCmp(b, a)
    BY <1>2, CmpNumericIsDecimal
  <2>2. DecimalCmp(a, b) = -DecimalCmp(b, a)
    BY <1>2, DecimalsOrdered
  <2>3. QED
    BY <1>4, <2>1, <2>2 DEF Compare
<1>5. CASE ~IsNull(a) /\ ~IsNull(b) /\ ~(IsExact(a.k) /\ IsExact(b.k)) /\ IsNumeric(a.k) /\ IsNumeric(b.k)
  <2>1. PICK f, g : f = AsFloat(a) /\ g = AsFloat(b)
    OBVIOUS
  <2>2. f.u \in Int /\ f.s \in Nat /\ g.u \in Int /\ g.s \in Nat
    BY <1>2, <1>5, <2>1, ConvertedIsFloat DEF IsFloat
  <2>3. DecimalCmp(f, g) = -DecimalCmp(g, f)
    BY <2>2, DecimalsOrdered
  <2>4. QED
    BY <1>5, <2>1, <2>3 DEF Compare
<1>6. CASE ~IsNull(a) /\ ~IsNull(b) /\ ~(IsNumeric(a.k) /\ IsNumeric(b.k))
  <2>1. ~(IsExact(a.k) /\ IsExact(b.k))
    BY <1>6 DEF IsExact, IsNumeric
  <2>2. PICK x \in Int : x = IF a.k # b.k THEN KindOrder[a.k] - KindOrder[b.k] ELSE a.u - b.u
    BY <1>1, <1>2 DEF Valued, KindOrder
  <2>3. -x = IF b.k # a.k THEN KindOrder[b.k] - KindOrder[a.k] ELSE b.u - a.u
    <3>1. KindOrder[a.k] \in Int /\ KindOrder[b.k] \in Int
      BY <1>1 DEF Valued, KindOrder
    <3>2. QED
      BY <1>2, <2>2, <3>1
  <2>4. Compare(a, b) = Sign(x) /\ Compare(b, a) = Sign(-x)
    BY <1>6, <2>1, <2>2, <2>3 DEF Compare
  <2>5. QED
    BY <2>4 DEF Sign
<1>7. QED
  BY <1>3, <1>4, <1>5, <1>6

\* The values of a column, of one kind, of the exact numeric kinds or numbers that
\* a float holds, and NULLs, are in a total order: sorting, min and max and the
\* keys of groups take Compare (value.go) for one.  A comparison of two values,
\* rounded or not, does not depend on which is asked.
THEOREM ColumnsAreOrdered ==
  ASSUME PowersOfTen, PowersOfTwo, value \in Sample \cup {NoValue}
  PROVE  CompareIsTotal
<1>1. SUFFICES ASSUME value # NoValue
               PROVE  /\ \A a \in Sample : Compare(value, a) = -Compare(a, value)
                      /\ \A column \in Columns : value \in column =>
                           \A a \in column : Compare(value, a) <= 0 =>
                             \A b \in column : Compare(a, b) <= 0 => Compare(value, b) <= 0
  BY DEF CompareIsTotal
<1>2. PICK v \in Sample : v = value
  BY <1>1
<1>3. \A a \in Sample : Compare(v, a) = -Compare(a, v)
  BY CompareTurns
<1>4. ASSUME NEW w, NEW x, IsNull(w) \/ IsNull(x)
      PROVE  Compare(w, x) = IF IsNull(w) THEN IF IsNull(x) THEN 0 ELSE 1 ELSE -1
  BY <1>4 DEF Compare
<1>5. ASSUME NEW column \in Columns, v \in column,
             NEW a \in column, Compare(v, a) <= 0,
             NEW b \in column, Compare(a, b) <= 0
      PROVE  Compare(v, b) <= 0
  <2>1. \A w \in column : w.u \in Int /\ w.s \in Nat
    <3>1. \A w \in column : w \in Sample
      BY <1>5 DEF Columns, Held
    <3>2. QED
      BY <3>1, SampleAssumption DEF Valued
  <2>2. CASE IsNull(b)
    BY <1>4, <2>2
  <2>3. CASE ~IsNull(b) /\ (IsNull(v) \/ IsNull(a))
    <3>1. ~IsNull(a)
      BY <1>4, <1>5, <2>3
    <3>2. Compare(v, a) = 1
      BY <1>4, <2>3, <3>1
    <3>3. QED
      BY <1>5, <3>2
  <2>4. CASE ~IsNull(b) /\ ~IsNull(v) /\ ~IsNull(a) /\ IsNumeric(v.k)
    <3>1. Compare(v, a) = DecimalCmp(v, a) /\ IsNumeric(a.k)
      BY <1>5, <2>4, CompareInColumn
    <3>2. Compare(a, b) = DecimalCmp(a, b) /\ Compare(v, b) = DecimalCmp(v, b)
      BY <1>5, <2>4, <3>1, CompareInColumn
    <3>3. QED
      BY <1>5, <2>1, <3>1, <3>2, DecimalsOrdered
  <2>5. CASE ~IsNull(b) /\ ~IsNull(v) /\ ~IsNull(a) /\ ~IsNumeric(v.k)
    <3>1. Compare(v, a) = Sign(v.u - a.u) /\ ~IsNumeric(a.k)
      BY <1>5, <2>5, CompareInColumn
    <3>2. Compare(a, b) = Sign(a.u - b.u) /\ Compare(v, b) = Sign(v.u - b.u)
      BY <1>5, <2>5, <3>1, CompareInColumn
    <3>3. v.u \in Int /\ a.u \in Int /\ b.u \in Int
      BY <1>5, <2>1
    <3>4. QED
      BY <1>5, <3>1, <3>2, <3>3 DEF Sign
  <2>6. QED
    BY <2>2, <2>3, <2>4, <2>5
<1>6. QED
  BY <1>2, <1>3, <1>5

(***************************************************************************)
(* Hashes.                                                                 *)
(***************************************************************************)

\* The hash of a number: that of the integer it is, and else of a float's bits.
LEMMA HashOfNumber ==
  ASSUME PowersOfTen, NEW v, Valued(v), IsNumeric(v.k)
  PROVE  /\ IsWhole(v) => Hash(v) = <<"int", Bits(v)[1], 0>>
         /\ ~IsWhole(v) /\ v.k = "numeric" => Hash(v) = <<"bits", Bits(Float64(v))>>
         /\ ~IsWhole(v) /\ v.k = "float" => Hash(v) = <<"bits", Bits(v)>>
         /\ ~IsWhole(v) => v.k # "int"
<1>1. CASE v.k \in {"float", "numeric"}
  BY <1>1 DEF Hash
<1>2. CASE v.k = "int"
  <2>1. PICK w, d : Stripped(v, w, d)
    BY BitsAreStripped DEF Valued
  <2>2. d \in 0..v.s /\ w \in Int /\ Bits(v) = <<w, v.s - d>> /\ v.u = w * 10^d
    BY <2>1 DEF Stripped
  <2>3. v.s = 0 /\ v.u \in Int /\ v.u \in Word
    BY <1>2 DEF Valued
  <2>4. d = 0
    BY <2>2, <2>3
  <2>5. v.u = w /\ v.s - d = 0
    BY <2>2, <2>3, <2>4 DEF PowersOfTen
  <2>6. Bits(v)[1] = v.u /\ Bits(v)[2] = 0
    BY <2>2, <2>5
  <2>7. IsWhole(v)
    BY <2>3, <2>6 DEF IsWhole
  <2>8. Hash(v) = <<"int", v.u, 0>>
    BY <1>2 DEF Hash
  <2>9. QED
    BY <2>6, <2>7, <2>8
<1>3. QED
  BY <1>1, <1>2 DEF IsNumeric

\* Where two numbers are equal and both are whole, or both of ordinary length, or
\* both held by floats, they hash alike.
LEMMA EqualNumbersHashAlike ==
  ASSUME PowersOfTen, PowersOfTwo, NEW a, NEW b, Valued(a), Valued(b), IsNumeric(a.k), IsNumeric(b.k),
         DecimalCmp(a, b) = 0,
         \/ IsHeld(a) /\ IsHeld(b)
         \/ /\ IsExact(a.k) /\ (IsShort(a) \/ IsWhole(a))
            /\ IsExact(b.k) /\ (IsShort(b) \/ IsWhole(b))
  PROVE  Hash(a) = Hash(b)
<1>1. a.u \in Int /\ a.s \in Nat /\ b.u \in Int /\ b.s \in Nat
  BY DEF Valued
<1>2. Bits(a) = Bits(b)
  BY <1>1, EqualBitsAlike
<1>3. IsWhole(a) <=> IsWhole(b)
  BY <1>2 DEF IsWhole
<1>4. CASE IsWhole(a)
  BY <1>2, <1>3, <1>4, HashOfNumber
<1>5. CASE ~IsWhole(a) /\ IsHeld(a) /\ IsHeld(b)
  <2>1. ASSUME NEW v, Valued(v), IsNumeric(v.k), IsHeld(v), ~IsWhole(v)
        PROVE  Hash(v) = <<"bits", Bits(v)>>
    <3>1. v.u \in Int /\ v.s \in Nat
      BY <2>1 DEF Valued
    <3>2. CASE v.k = "float"
      BY <2>1, <3>2, HashOfNumber
    <3>3. CASE v.k = "numeric"
      <4>1. PICK f : f = Float64(v)
        OBVIOUS
      <4>2. f.u \in Int /\ f.s \in Nat
        BY <3>1, <4>1, ConvertedIsFloat DEF IsFloat
      <4>3. DecimalCmp(f, v) = 0
        BY <2>1, <3>3, <4>1 DEF IsHeld
      <4>4. Bits(f) = Bits(v)
        BY <3>1, <4>2, <4>3, EqualBitsAlike
      <4>5. Hash(v) = <<"bits", Bits(Float64(v))>>
        BY <2>1, <3>3, HashOfNumber
      <4>6. QED
        BY <4>1, <4>4, <4>5
    <3>4. QED
      BY <2>1, <3>2, <3>3, HashOfNumber DEF IsNumeric
  <2>2. Hash(a) = <<"bits", Bits(a)>> /\ Hash(b) = <<"bits", Bits(b)>>
    BY <1>3, <1>5, <2>1
  <2>3. QED
    BY <1>2, <2>2
<1>6. CASE /\ ~IsWhole(a) /\ IsExact(a.k) /\ IsExact(b.k)
           /\ IsShort(a) \/ IsWhole(a)
           /\ IsShort(b) \/ IsWhole(b)
  <2>1. IsShort(a) /\ IsShort(b) /\ ~IsWhole(b)
    BY <1>3, <1>6
  <2>2. a.k # "int" /\ b.k # "int"
    BY <1>6, <2>1, HashOfNumber
  <2>3. a.k = "numeric" /\ b.k = "numeric"
    BY <1>6, <2>2 DEF IsExact
  <2>4. Float64(a) = Float64(b)
    BY <1>1, <2>1, EqualsConvertedAlike
  <2>5. Hash(a) = <<"bits", Bits(Float64(a))>> /\ Hash(b) = <<"bits", Bits(Float64(b))>>
    BY <1>6, <2>1, <2>3, HashOfNumber
  <2>6. QED
    BY <2>4, <2>5
<1>7. QED
  BY <1>4, <1>5, <1>6

\* Values that compare equal hash alike where no comparison and no hash rounds:
\* those that are no numbers or that floats hold, and the exact numbers that are
\* whole or of ordinary length.  GROUP BY, DISTINCT and the set operations look
\* for a key among those with its hash (value.go, Hash).
THEOREM EqualsHashAlike ==
  ASSUME PowersOfTen, PowersOfTwo, value \in Sample \cup {NoValue}
  PROVE  EqualHashAlike
<1>1. SUFFICES ASSUME NEW values \in Unrounded, value \in values, NEW b \in values, Compare(value, b) = 0
               PROVE  Hash(value) = Hash(b)
  BY DEF EqualHashAlike
<1>2. PICK a \in values : a = value
  BY <1>1
<1>3. Valued(a) /\ Valued(b) /\ Compare(a, b) = 0
  BY <1>1, <1>2, SampleAssumption DEF Unrounded, Held
<1>4. a.u \in Int /\ b.u \in Int /\ a.s \in Nat /\ b.s \in Nat
  BY <1>3 DEF Valued
<1>5. CASE IsNull(a) \/ IsNull(b)
  <2>1. IsNull(a) /\ IsNull(b)
    BY <1>3, <1>5 DEF Compare
  <2>2. a.k = "null" /\ b.k = "null" /\ a.u = 0 /\ b.u = 0
    BY <1>3, <2>1 DEF IsNull, Valued
  <2>3. Hash(a) = Hash(b)
    BY <2>2 DEF Hash
  <2>4. QED
    BY <1>2, <2>3
<1>6. CASE ~IsNull(a) /\ ~IsNull(b) /\ IsNumeric(a.k) /\ IsNumeric(b.k)
  <2>1. \/ IsHeld(a) /\ IsHeld(b)
        \/ /\ IsExact(a.k) /\ (IsShort(a) \/ IsWhole(a))
           /\ IsExact(b.k) /\ (IsShort(b) \/ IsWhole(b))
    BY <1>6 DEF Unrounded, Held
  <2>2. DecimalCmp(a, b) = 0
    BY <1>3, <1>6, <2>1, NumbersCompared
  <2>3. Hash(a) = Hash(b)
    BY <1>3, <1>6, <2>1, <2>2, EqualNumbersHashAlike
  <2>4. QED
    BY <1>2, <2>3
<1>7. CASE ~IsNull(a) /\ ~IsNull(b) /\ ~(IsNumeric(a.k) /\ IsNumeric(b.k))
  <2>1. ~(IsExact(a.k) /\ IsExact(b.k))
    BY <1>7 DEF IsExact, IsNumeric
  <2>2. Sign(IF a.k # b.k THEN KindOrder[a.k] - KindOrder[b.k] ELSE a.u - b.u) = 0
    BY <1>3, <1>7, <2>1 DEF Compare
  <2>3. a.k = b.k
    <3>1. SUFFICES ASSUME a.k # b.k PROVE FALSE
      OBVIOUS
    <3>2. Sign(KindOrder[a.k] - KindOrder[b.k]) = 0
      BY <2>2, <3>1
    <3>3. a.k \in DOMAIN KindOrder /\ b.k \in DOMAIN KindOrder
      BY <1>3 DEF Valued
    <3>4. KindOrder[a.k] \in Int /\ KindOrder[b.k] \in Int /\ KindOrder[a.k] # KindOrder[b.k]
      BY <3>1, <3>3 DEF KindOrder
    <3>5. QED
      BY <3>2, <3>4 DEF Sign
  <2>4. a.u = b.u
    <3>1. Sign(a.u - b.u) = 0
      BY <2>2, <2>3
    <3>2. QED
      BY <1>4, <3>1 DEF Sign
  <2>5. ~IsNumeric(a.k)
    BY <1>7, <2>3
  <2>6. Hash(a) = Hash(b)
    BY <2>3, <2>4, <2>5 DEF Hash, IsNumeric
  <2>7. QED
    BY <1>2, <2>6
<1>8. QED
  BY <1>5, <1>6, <1>7

(***************************************************************************)
(* Quotients.                                                              *)
(***************************************************************************)

\* The number of digits of a number.
LEMMA DigitsExist ==
  ASSUME PowersOfTen, NEW u \in Nat, u >= 1
  PROVE  \E n \in 0..u : 10^n <= u /\ u < 10^(n + 1)
<1> DEFINE S == {n \in Nat : u < 10^(n + 1)}
<1>1. u \in S
  <2>1. u + 1 < 10^(u + 1) /\ 10^(u + 1) \in Int
    BY PowerExceeds
  <2>2. u < 10^(u + 1)
    BY <2>1
  <2>3. QED
    BY <2>2
<1>2. PICK m \in S : \A n \in S : m <= n
  <2>1. S \in SUBSET Nat
    OBVIOUS
  <2> HIDE DEF S
  <2>2. QED
    BY <1>1, <2>1, LeastNumber
<1>3. m \in 0..u /\ u < 10^(m + 1)
  BY <1>1, <1>2
<1>4. 10^m <= u
  <2>1. CASE m = 0
    <3>1. 10^m = 1
      BY <2>1 DEF PowersOfTen
    <3>2. QED
      BY <3>1
  <2>2. CASE m # 0
    <3>1. m - 1 \in Nat /\ (m - 1) + 1 = m /\ ~(m <= m - 1)
      BY <1>3, <2>2
    <3>2. m - 1 \notin S
      BY <1>2, <3>1
    <3>3. ~(u < 10^m)
      BY <3>1, <3>2
    <3>4. 10^m \in Int
      BY <1>3
    <3>5. QED
      BY <3>3, <3>4
  <2>3. QED
    BY <2>1, <2>2
<1>5. QED
  BY <1>3, <1>4

\* The exponent of the leading digit, to PostgreSQL's base, is that of the
\* leading decimal digit, rounded down.
LEMMA WeightBounds ==
  ASSUME PowersOfTen, NEW d, d.u \in Int, d.s \in Nat, d.u # 0
  PROVE  /\ nbaseWeight(d) \in Int
         /\ \E n \in Nat : /\ 10^n <= Abs(d.u) /\ Abs(d.u) < 10^(n + 1)
                           /\ DecDigits * nbaseWeight(d) <= n - d.s
                           /\ n - d.s < DecDigits * nbaseWeight(d) + DecDigits
<1>1. PICK u \in Nat : u = Abs(d.u) /\ u >= 1
  BY DEF Abs
<1>2. PICK n : n = leading(d.u)
  OBVIOUS
<1>3. n \in 0..u /\ 10^n <= u /\ u < 10^(n + 1)
  <2>1. \E i \in 0..Abs(d.u) : 10^i <= Abs(d.u) /\ Abs(d.u) < 10^(i + 1)
    BY <1>1, DigitsExist
  <2>2. n \in 0..Abs(d.u) /\ 10^n <= Abs(d.u) /\ Abs(d.u) < 10^(n + 1)
    BY <1>2, <2>1, Zenon DEF leading
  <2>3. QED
    BY <1>1, <2>2
<1>4. PICK e \in Int : e = n - d.s
  BY <1>3
<1>5. PICK D \in Nat : D = DecDigits /\ D >= 1
  BY WidthsAssumption
<1>6. nbaseWeight(d) = IF e >= 0 THEN e \div D ELSE -((-e + D - 1) \div D)
  <2>1. nbaseWeight(d) = IF n - d.s >= 0 THEN (n - d.s) \div DecDigits
                         ELSE -((-(n - d.s) + DecDigits - 1) \div DecDigits)
    <3> DEFINE x == leading(d.u) - d.s
    <3>1. nbaseWeight(d) = IF d.u = 0 THEN 0 ELSE IF x >= 0 THEN x \div DecDigits
                           ELSE -((-x + DecDigits - 1) \div DecDigits)
      BY Zenon DEF nbaseWeight
    <3>2. x = n - d.s
      BY <1>2, Zenon
    <3> HIDE DEF x
    <3>3. QED
      BY <3>1, <3>2
  <2>2. QED
    BY <1>4, <1>5, <2>1
<1>7. PICK w : w = nbaseWeight(d)
  OBVIOUS
<1>8. w \in Int /\ D * w <= e /\ e < D * w + D
  <2>1. CASE e >= 0
    <3>1. e \in Nat /\ w = e \div D
      BY <1>6, <1>7, <2>1
    <3>2. w \in Nat /\ w * D <= e /\ e < (w + 1) * D
      BY <1>5, <3>1, QuotientBounds
    <3>3. QED
      BY <1>5, <3>2
  <2>2. CASE ~(e >= 0)
    <3>1. PICK x \in Nat : x = -e + D - 1
      BY <1>5, <2>2
    <3>2. PICK y \in Nat : y = x \div D /\ y * D <= x /\ x < (y + 1) * D
      BY <1>5, QuotientBounds
    <3>3. w = -y
      BY <1>6, <1>7, <2>2, <3>1, <3>2
    <3>4. D * w = -(y * D) /\ (y + 1) * D = y * D + D /\ y * D \in Int
      BY <3>2, <3>3
    <3>5. QED
      BY <3>1, <3>2, <3>3, <3>4
  <2>3. QED
    BY <2>1, <2>2
<1>9. QED
  BY <1>1, <1>3, <1>4, <1>5, <1>7, <1>8

\* The power of ten that the leading digit, to PostgreSQL's base, counts.
Shift(d) == d.s + DecDigits * nbaseWeight(d)

\* The leading digit is one of that base's, and what follows it is less than one
\* more would be.  The digits are compared k places further, for those behind
\* the point.
LEMMA LeadBounds ==
  ASSUME PowersOfTen, NEW d, d.u \in Int, d.s \in Nat, d.u # 0
  PROVE  /\ Shift(d) \in Int /\ lead(d) \in Nat /\ lead(d) >= 1 /\ lead(d) + 1 <= 10^DecDigits
         /\ \A k \in Nat : Shift(d) + k >= 0 =>
              /\ lead(d) * 10^(Shift(d) + k) <= Abs(d.u) * 10^k
              /\ Abs(d.u) * 10^k < (lead(d) + 1) * 10^(Shift(d) + k)
<1>1. PICK A \in Nat : A = Abs(d.u) /\ A >= 1
  BY DEF Abs
<1>2. PICK w \in Int : w = nbaseWeight(d)
  BY WeightBounds
<1>3. PICK D \in Nat : D = DecDigits /\ D >= 1
  BY WidthsAssumption
<1>4. PICK z \in Int : z = D * w
  BY <1>2, <1>3
<1>5. PICK n \in Nat : 10^n <= A /\ A < 10^(n + 1) /\ z <= n - d.s /\ n - d.s < z + D
  <2>1. \E i \in Nat : /\ 10^i <= Abs(d.u) /\ Abs(d.u) < 10^(i + 1)
                       /\ DecDigits * nbaseWeight(d) <= i - d.s
                       /\ i - d.s < DecDigits * nbaseWeight(d) + DecDigits
    BY WeightBounds
  <2>2. QED
    BY <1>1, <1>2, <1>3, <1>4, <2>1
<1>6. PICK h \in Int : h = Shift(d) /\ h = d.s + z
  BY <1>2, <1>3, <1>4 DEF Shift
<1>7. lead(d) = IF h > 0 THEN A \div 10^h ELSE A * 10^(-h)
  <2>1. lead(d) = IF d.s + DecDigits * nbaseWeight(d) > 0
                  THEN Abs(d.u) \div 10^(d.s + DecDigits * nbaseWeight(d))
                  ELSE Abs(d.u) * 10^(-(d.s + DecDigits * nbaseWeight(d)))
    BY DEF lead
  <2>2. QED
    BY <1>1, <1>6, <2>1 DEF Shift
<1>8. h <= n /\ n + 1 <= h + D
  BY <1>3, <1>4, <1>5, <1>6
<1>9. CASE h > 0
  <2>1. h \in Nat
    BY <1>9
  <2>2. PICK p \in Nat : p = 10^h /\ p >= 1
    BY <2>1, PowerPositive
  <2>3. PICK l \in Nat : l = A \div p /\ l * p <= A /\ A < (l + 1) * p
    BY <2>2, QuotientBounds
  <2>4. lead(d) = l
    BY <1>7, <1>9, <2>2, <2>3
  <2>5. l >= 1
    <3>1. p <= A
      <4>1. 10^h <= 10^n
        BY <1>8, <2>1, PowerGrows
      <4>2. 10^n \in Int
        OBVIOUS
      <4>3. QED
        BY <1>5, <2>2, <4>1, <4>2
    <3>2. l = 0 => (l + 1) * p = p
      BY <2>2
    <3>3. QED
      BY <2>2, <2>3, <3>1, <3>2
  <2>6. l + 1 <= 10^DecDigits
    <3>1. PICK t \in Nat : t = 10^D
      BY PowerPositive
    <3>2. 10^(n + 1) <= 10^(h + D) /\ 10^(h + D) = p * t
      BY <1>8, <2>1, <2>2, <3>1, PowerGrows, PowerOfSum
    <3>3. 10^(n + 1) \in Int /\ p * t \in Int
      BY <3>1
    <3>4. l * p < p * t
      <4>1. l * p \in Int
        BY <2>2
      <4>2. QED
        BY <1>5, <2>3, <3>2, <3>3, <4>1
    <3>5. l >= t => l * p >= p * t
      BY <2>2, <3>1
    <3>6. l * p \in Int
      BY <2>2
    <3>7. l < t
      BY <3>1, <3>3, <3>4, <3>5, <3>6
    <3>8. QED
      BY <1>3, <3>1, <3>7
  <2>7. ASSUME NEW k \in Nat
        PROVE  l * 10^(h + k) <= A * 10^k /\ A * 10^k < (l + 1) * 10^(h + k)
    <3>1. PICK g \in Nat : g = 10^k /\ g >= 1
      BY PowerPositive
    <3>2. 10^(h + k) = p * g
      BY <2>1, <2>2, <3>1, PowerOfSum
    <3>3. PICK x \in Nat, y \in Nat : x = l * p /\ y = (l + 1) * p
      BY <2>2
    <3>4. x * g <= A * g /\ A * g < y * g
      BY <2>3, <3>1, <3>3
    <3>5. x * g = l * (p * g) /\ y * g = (l + 1) * (p * g)
      BY <2>2, <3>1, <3>3
    <3>6. QED
      BY <3>1, <3>2, <3>4, <3>5
  <2>8. \A k \in Nat : Shift(d) + k >= 0 =>
          /\ lead(d) * 10^(Shift(d) + k) <= Abs(d.u) * 10^k
          /\ Abs(d.u) * 10^k < (lead(d) + 1) * 10^(Shift(d) + k)
    BY <1>1, <1>6, <2>4, <2>7
  <2>9. QED
    BY <1>6, <2>4, <2>5, <2>6, <2>8
<1>10. CASE ~(h > 0)
  <2>1. PICK m \in Nat : m = -h
    BY <1>10
  <2>2. PICK p \in Nat : p = 10^m /\ p >= 1
    BY PowerPositive
  <2>3. PICK l \in Nat : l = A * p /\ l >= 1
    BY <1>1, <2>2
  <2>4. lead(d) = l
    BY <1>7, <1>10, <2>1, <2>2, <2>3
  <2>5. l + 1 <= 10^DecDigits
    <3>1. PICK t \in Nat : t = 10^D
      BY PowerPositive
    <3>2. (n + 1) + m \in Nat /\ (n + 1) + m <= D /\ n + 1 \in Nat
      BY <1>8, <2>1
    <3>3. 10^((n + 1) + m) <= t
      BY <3>1, <3>2, PowerGrows
    <3>4. 10^((n + 1) + m) = 10^(n + 1) * p
      BY <2>2, <3>2, PowerOfSum
    <3>5. PICK r \in Nat : r = 10^(n + 1)
      BY <3>2, PowerPositive
    <3>6. A * p < r * p
      BY <1>5, <2>2, <3>5
    <3>7. r * p \in Nat
      BY <2>2
    <3>8. l < t
      BY <2>3, <3>1, <3>3, <3>4, <3>5, <3>6, <3>7
    <3>9. QED
      BY <1>3, <3>1, <3>8
  <2>6. ASSUME NEW k \in Nat, h + k >= 0
        PROVE  l * 10^(h + k) <= A * 10^k /\ A * 10^k < (l + 1) * 10^(h + k)
    <3>1. PICK j \in Nat : j = h + k /\ k = m + j
      BY <2>1, <2>6
    <3>2. PICK g \in Nat : g = 10^j /\ g >= 1
      BY PowerPositive
    <3>3. 10^k = p * g
      BY <2>2, <3>1, <3>2, PowerOfSum
    <3>4. A * (p * g) = l * g
      BY <2>3
    <3>5. (l + 1) * g = l * g + g /\ l * g \in Int
      BY <3>2
    <3>6. QED
      BY <3>1, <3>2, <3>3, <3>4, <3>5
  <2>7. \A k \in Nat : Shift(d) + k >= 0 =>
          /\ lead(d) * 10^(Shift(d) + k) <= Abs(d.u) * 10^k
          /\ Abs(d.u) * 10^k < (lead(d) + 1) * 10^(Shift(d) + k)
    BY <1>1, <1>6, <2>4, <2>6
  <2>8. QED
    BY <1>6, <2>3, <2>4, <2>5, <2>7
<1>11. QED
  BY <1>9, <1>10

\* Dropping the last place rounds to the nearest, and a five away from zero.
LEMMA RoundsOnePlace ==
  ASSUME PowersOfTen, NEW d, NEW s \in Nat, d.u \in Int, d.s = s + 1
  PROVE  \E q \in Nat : /\ Round(d, s) = Decimal(Sign(d.u) * q, s)
                        /\ 10 * q <= Abs(d.u) + 5 /\ Abs(d.u) < 10 * q + 5
<1>1. PICK t \in Int : t = d.u
  OBVIOUS
<1>2. PICK m \in Nat : m = Abs(t)
  BY DEF Abs
<1>3. PICK y \in Nat, r \in 0..9 : m = 10 * y + r /\ y = m \div 10
  <2>1. m = 10 * (m \div 10) + (m % 10) /\ m \div 10 \in Nat /\ m % 10 \in 0..9
    OBVIOUS
  <2>2. QED
    BY <2>1
<1>4. Quo(t, 10) = Sign(t) * y
  <2>1. Sign(10) = 1 /\ Abs(10) = 10 /\ Sign(t) * 1 = Sign(t)
    BY DEF Sign, Abs
  <2>2. Quo(t, 10) = (Sign(t) * Sign(10)) * (Abs(t) \div Abs(10))
    BY DEF Quo
  <2>3. QED
    BY <1>2, <1>3, <2>1, <2>2
<1>5. Abs(Rem(t, 10)) = r
  <2>1. Rem(t, 10) = t - 10 * (Sign(t) * y)
    BY <1>4 DEF Rem
  <2>2. CASE t > 0
    <3>1. Sign(t) = 1 /\ m = t
      BY <1>2, <2>2 DEF Sign, Abs
    <3>2. Rem(t, 10) = r
      BY <1>3, <2>1, <3>1
    <3>3. QED
      BY <3>2 DEF Abs
  <2>3. CASE t < 0
    <3>1. Sign(t) = -1 /\ m = -t
      BY <1>2, <2>3 DEF Sign, Abs
    <3>2. Rem(t, 10) = -r
      BY <1>3, <2>1, <3>1
    <3>3. QED
      BY <3>2 DEF Abs
  <2>4. CASE t = 0
    <3>1. Sign(t) = 0 /\ m = 0
      BY <1>2, <2>4 DEF Sign, Abs
    <3>2. r = 0 /\ Rem(t, 10) = 0
      BY <1>3, <2>1, <2>4, <3>1
    <3>3. QED
      BY <3>2 DEF Abs
  <2>5. QED
    BY <2>2, <2>3, <2>4
<1>6. Round(d, s) = Decimal(IF 2 * r >= 10 THEN Sign(t) * y + Sign(t) ELSE Sign(t) * y, s)
  <2>1. ~(s >= d.s) /\ d.s - s = 1
    OBVIOUS
  <2>2. 10^1 = 10
    <3>1. 10^(0 + 1) = 10 * 10^0 /\ 0 + 1 = 1 /\ 10 * 1 = 10
      BY DEF PowersOfTen
    <3>2. QED
      BY <3>1 DEF PowersOfTen
  <2>3. Round(d, s) = Decimal(IF 2 * Abs(Rem(d.u, 10^(d.s - s))) >= 10^(d.s - s)
                              THEN Quo(d.u, 10^(d.s - s)) + Sign(d.u) ELSE Quo(d.u, 10^(d.s - s)), s)
    BY <2>1 DEF Round
  <2>4. QED
    BY <1>1, <1>4, <1>5, <2>1, <2>2, <2>3
<1>7. CASE r >= 5
  <2>1. Round(d, s) = Decimal(Sign(t) * y + Sign(t), s)
    BY <1>6, <1>7
  <2>2. Sign(t) * y + Sign(t) = Sign(t) * (y + 1)
    BY DEF Sign
  <2>3. 10 * (y + 1) <= m + 5 /\ m < 10 * (y + 1) + 5
    BY <1>3, <1>7
  <2>4. QED
    BY <1>1, <1>2, <2>1, <2>2, <2>3
<1>8. CASE ~(r >= 5)
  <2>1. Round(d, s) = Decimal(Sign(t) * y, s)
    BY <1>6, <1>8
  <2>2. 10 * y <= m + 5 /\ m < 10 * y + 5
    BY <1>3, <1>8
  <2>3. QED
    BY <1>1, <1>2, <2>1, <2>2
<1>9. QED
  BY <1>7, <1>8

\* A quotient to a number of places is within half of the last place, and a half
\* is rounded away from zero.
LEMMA QuotientIsNear ==
  ASSUME PowersOfTen, NEW a, NEW b, a.u \in Int, b.u \in Int, b.u # 0, a.s \in Nat, b.s \in Nat,
         NEW s \in Nat, a.s <= s
  PROVE  \E q \in Nat : /\ divTo(a, b, s) = Decimal(Sign(a.u) * Sign(b.u) * q, s)
                        /\ (10 * q) * Abs(b.u) <= Abs(a.u) * 10^(s - a.s + b.s + 1) + 5 * Abs(b.u)
                        /\ Abs(a.u) * 10^(s - a.s + b.s + 1) < (10 * q) * Abs(b.u) + 5 * Abs(b.u)
<1>1. PICK p \in Nat : p = 10^(s - a.s + b.s + 1) /\ p >= 1
  <2>1. s - a.s + b.s + 1 \in Nat
    OBVIOUS
  <2>2. QED
    BY <2>1, PowerPositive
<1>2. PICK x \in Int, y \in Int : x = a.u /\ y = b.u /\ y # 0
  OBVIOUS
<1>3. PICK A \in Nat, B \in Nat : A = Abs(x) /\ B = Abs(y) /\ B >= 1
  BY <1>2 DEF Abs
<1>4. PICK n \in Nat : n = A * p
  OBVIOUS
<1>5. PICK t \in Int : t = Quo(x * p, y) /\ Abs(t) = n \div B
                       /\ (t = 0 \/ Sign(t) = Sign(x) * Sign(y))
  <2>1. x * p \in Int /\ Sign(x * p) = Sign(x) /\ Abs(x * p) = n
    BY <1>1, <1>3, <1>4, SignKept
  <2>2. PICK m \in Nat : m = n \div B
    BY <1>3, QuotientBounds
  <2>3. Quo(x * p, y) = Sign(x) * Sign(y) * m
    BY <1>3, <2>1, <2>2 DEF Quo
  <2>4. PICK g \in {-1, 0, 1} : g = Sign(x) * Sign(y) /\ (g = 0 => x = 0)
    BY <1>2 DEF Sign
  <2>5. g = 0 => m = 0
    <3>1. SUFFICES ASSUME g = 0 PROVE m = 0
      OBVIOUS
    <3>2. n = 0
      BY <1>3, <1>4, <2>4, <3>1 DEF Abs
    <3>3. m * B <= 0
      BY <1>3, <2>2, <3>2, QuotientBounds
    <3>4. m >= 1 => m * B >= 1
      BY <1>3
    <3>5. m * B \in Int
      BY <1>3
    <3>6. QED
      BY <3>3, <3>4, <3>5
  <2>6. g * m \in Int /\ Abs(g * m) = m /\ (g * m = 0 \/ Sign(g * m) = g)
    BY <2>5 DEF Abs, Sign
  <2>7. QED
    BY <2>2, <2>3, <2>4, <2>6
<1>6. PICK m \in Nat : m = Abs(t) /\ m * B <= n /\ n < (m + 1) * B
  <2>1. n \div B \in Nat /\ (n \div B) * B <= n /\ n < (n \div B + 1) * B
    BY <1>3, QuotientBounds
  <2>2. QED
    BY <1>5, <2>1
<1>7. PICK q \in Nat : /\ divTo(a, b, s) = Decimal(Sign(t) * q, s)
                       /\ 10 * q <= m + 5 /\ m < 10 * q + 5
  <2>1. PICK d : d = Decimal(t, s + 1)
    OBVIOUS
  <2>2. d.u = t /\ d.s = s + 1
    BY <2>1 DEF Decimal, V
  <2>3. \E q \in Nat : /\ Round(d, s) = Decimal(Sign(d.u) * q, s)
                       /\ 10 * q <= Abs(d.u) + 5 /\ Abs(d.u) < 10 * q + 5
    BY <2>2, RoundsOnePlace
  <2>4. divTo(a, b, s) = Round(d, s)
    BY <1>1, <1>2, <1>5, <2>1 DEF divTo
  <2>5. QED
    BY <1>6, <2>2, <2>3, <2>4
<1>8. Sign(t) * q = Sign(x) * Sign(y) * q
  <2>1. CASE t = 0
    <3>1. m = 0
      BY <1>6, <2>1 DEF Abs
    <3>2. q = 0
      BY <1>7, <3>1
    <3>3. QED
      BY <3>2 DEF Sign
  <2>2. CASE t # 0
    BY <1>5, <2>2
  <2>3. QED
    BY <2>1, <2>2
<1>9. (10 * q) * B <= n + 5 * B
  <2>1. (10 * q) * B <= (m + 5) * B
    BY <1>3, <1>7
  <2>2. (m + 5) * B = m * B + 5 * B /\ m * B \in Int
    BY <1>3
  <2>3. (10 * q) * B \in Int
    BY <1>3
  <2>4. QED
    BY <1>6, <2>1, <2>2, <2>3
<1>10. n < (10 * q) * B + 5 * B
  <2>1. (m + 1) * B <= (10 * q + 5) * B
    BY <1>3, <1>7
  <2>2. (10 * q + 5) * B = (10 * q) * B + 5 * B /\ (10 * q) * B \in Int
    BY <1>3
  <2>3. (m + 1) * B \in Int
    BY <1>3
  <2>4. QED
    BY <1>6, <2>1, <2>2, <2>3
<1>11. QED
  BY <1>1, <1>2, <1>3, <1>4, <1>7, <1>8, <1>9, <1>10

\* A factor that is at least one does not change which is larger.
LEMMA FactorOrders ==
  ASSUME NEW x \in Int, NEW y \in Int, NEW p \in Nat, p >= 1, x * p <= y * p
  PROVE  x <= y
<1>1. y < x => y * p < x * p
  OBVIOUS
<1>2. x * p \in Int /\ y * p \in Int
  OBVIOUS
<1>3. QED
  BY <1>1, <1>2

\* A quotient is computed to as many places as its operands have, and to enough
\* for its significant digits.
LEMMA EnoughPlaces ==
  ASSUME PowersOfTen, NEW a, NEW b, a.u \in Int, b.u \in Int, a.u # 0, b.u # 0, a.s \in Nat, b.s \in Nat
  PROVE  /\ wantedScale(a, b) \in Nat /\ a.s <= wantedScale(a, b) /\ b.s <= wantedScale(a, b)
         /\ 10^(MinSigDigits - 1) * Abs(b.u) <= Abs(a.u) * 10^(wantedScale(a, b) - a.s + b.s)
<1>1. PICK v \in Int, w \in Int : v = nbaseWeight(a) /\ w = nbaseWeight(b)
  BY WeightBounds
<1>2. PICK l \in Nat, g \in Nat : l = lead(a) /\ g = lead(b) /\ l >= 1 /\ g >= 1 /\ g + 1 <= 10^DecDigits
  BY LeadBounds
<1>3. PICK less \in {0, 1} : less = (IF l < g THEN 1 ELSE 0)
  OBVIOUS
<1>4. PICK D \in Nat, M \in Nat : D = DecDigits /\ M = MinSigDigits /\ M >= 1
  BY WidthsAssumption
<1>5. PICK s : s = wantedScale(a, b)
  OBVIOUS
<1>6. s = Larger(M - (v - w - less) * D, Larger(a.s, b.s))
  BY <1>1, <1>2, <1>3, <1>4, <1>5 DEF wantedScale
<1>7. s \in Nat /\ a.s <= s /\ b.s <= s /\ M - (v - w - less) * D <= s
  <2>1. M - (v - w - less) * D \in Int
    BY <1>1, <1>3, <1>4
  <2>2. QED
    BY <1>6, <2>1 DEF Larger
<1>8. PICK h \in Int, f \in Int : h = Shift(a) /\ f = Shift(b) /\ h = a.s + D * v /\ f = b.s + D * w
  BY <1>1, <1>4 DEF Shift
<1>9. PICK k \in Nat : h + k \in Nat /\ f + k \in Nat
  <2>1. Abs(h) + Abs(f) \in Nat /\ h + (Abs(h) + Abs(f)) \in Nat /\ f + (Abs(h) + Abs(f)) \in Nat
    BY DEF Abs
  <2>2. QED
    BY <2>1
<1>10. PICK A \in Nat, B \in Nat : A = Abs(a.u) /\ B = Abs(b.u)
  BY DEF Abs
<1>11. PICK c \in Nat : c = 10^k /\ c >= 1
  BY PowerPositive
<1>12. PICK u \in Nat, z \in Nat : u = 10^(h + k) /\ z = 10^(f + k) /\ u >= 1 /\ z >= 1
  BY <1>9, PowerPositive
<1>13. l * u <= A * c
  <2>1. \A i \in Nat : Shift(a) + i >= 0 => lead(a) * 10^(Shift(a) + i) <= Abs(a.u) * 10^i
    BY LeadBounds
  <2>2. QED
    BY <1>2, <1>8, <1>9, <1>10, <1>11, <1>12, <2>1
<1>14. B * c < (g + 1) * z
  <2>1. \A i \in Nat : Shift(b) + i >= 0 => Abs(b.u) * 10^i < (lead(b) + 1) * 10^(Shift(b) + i)
    BY LeadBounds
  <2>2. QED
    BY <1>2, <1>8, <1>9, <1>10, <1>11, <1>12, <2>1
<1>15. PICK e \in Nat : e = s - a.s + b.s
  BY <1>7
<1>16. PICK x \in Nat : x = 10^e /\ x >= 1
  BY PowerPositive
<1>17. (M + less * D) + (f + k) <= (h + k) + e
  <2>1. (v - w - less) * D = D * v - D * w - less * D
    BY <1>1, <1>3, <1>4
  <2>2. D * v \in Int /\ D * w \in Int /\ less * D \in Int
    BY <1>1, <1>3, <1>4
  <2>3. QED
    BY <1>4, <1>7, <1>8, <1>9, <1>15, <2>1, <2>2
<1>18. PICK m \in Nat, n \in Nat : m = 10^M /\ n = 10^(M - 1) /\ m = 10 * n /\ m >= 1
  <2>1. M - 1 \in Nat /\ (M - 1) + 1 = M
    BY <1>4
  <2>2. 10^M = 10 * 10^(M - 1)
    BY <2>1 DEF PowersOfTen
  <2>3. QED
    BY <2>1, <2>2, PowerPositive
<1>19. PICK r \in Nat : r = 10^(less * D) /\ r >= 1 /\ m * r * z <= u * x
  <2>1. less * D \in Nat /\ M + less * D \in Nat
    BY <1>3, <1>4
  <2>2. PICK r \in Nat : r = 10^(less * D) /\ r >= 1
    BY <2>1, PowerPositive
  <2>3. 10^((M + less * D) + (f + k)) = (m * r) * z
    <3>1. 10^((M + less * D) + (f + k)) = 10^(M + less * D) * 10^(f + k)
      BY <1>9, <2>1, PowerOfSum
    <3>2. 10^(M + less * D) = 10^M * 10^(less * D)
      BY <2>1, PowerOfSum
    <3>3. QED
      BY <1>12, <1>18, <2>2, <3>1, <3>2
  <2>4. 10^((h + k) + e) = u * x
    BY <1>9, <1>12, <1>16, PowerOfSum
  <2>5. (M + less * D) + (f + k) \in Nat /\ (h + k) + e \in Nat
    BY <1>9, <2>1
  <2>6. 10^((M + less * D) + (f + k)) <= 10^((h + k) + e)
    BY <1>17, <2>5, PowerGrows
  <2>7. QED
    BY <2>2, <2>3, <2>4, <2>6
<1>20. g + 1 <= 2 * (l * r)
  <2>1. CASE less = 0
    <3>1. g <= l
      BY <1>3, <2>1
    <3>2. l <= l * r
      BY <1>19
    <3>3. l * r \in Nat
      BY <1>19
    <3>4. QED
      BY <1>2, <3>1, <3>2, <3>3
  <2>2. CASE less = 1
    <3>1. less * D = D
      BY <1>4, <2>2
    <3>2. g + 1 <= r
      BY <1>2, <1>4, <1>19, <3>1
    <3>3. r <= l * r
      BY <1>2
    <3>4. l * r \in Nat
      BY <1>19
    <3>5. QED
      BY <3>2, <3>3, <3>4
  <2>3. QED
    BY <2>1, <2>2
<1>21. (n * B) * c <= (A * x) * c
  <2>1. PICK lr \in Nat : lr = l * r
    OBVIOUS
  <2>2. B * c <= (2 * lr) * z
    <3>1. (g + 1) * z <= (2 * lr) * z
      BY <1>20, <2>1
    <3>2. B * c \in Int /\ (g + 1) * z \in Int /\ (2 * lr) * z \in Int
      OBVIOUS
    <3>3. QED
      BY <1>14, <3>1, <3>2
  <2>3. m * (B * c) <= m * ((2 * lr) * z)
    <3>1. PICK i \in Nat, j \in Nat : i = B * c /\ j = (2 * lr) * z
      OBVIOUS
    <3>2. i <= j
      BY <2>2, <3>1
    <3>3. m * i <= m * j
      BY <3>2
    <3>4. QED
      BY <3>1, <3>3
  <2>4. m * ((2 * lr) * z) = (2 * l) * (m * r * z)
    BY <2>1
  <2>5. (2 * l) * (m * r * z) <= (2 * l) * (u * x)
    <3>1. PICK i \in Nat, j \in Nat : i = m * r * z /\ j = u * x
      OBVIOUS
    <3>2. i <= j
      BY <1>19, <3>1
    <3>3. (2 * l) * i <= (2 * l) * j
      BY <3>2
    <3>4. QED
      BY <3>1, <3>3
  <2>6. (2 * l) * (u * x) <= 2 * ((A * c) * x)
    <3>1. PICK i \in Nat, j \in Nat : i = l * u /\ j = A * c
      OBVIOUS
    <3>2. i * x <= j * x
      BY <1>13, <3>1
    <3>3. (2 * l) * (u * x) = 2 * (i * x)
      BY <3>1
    <3>4. i * x \in Int /\ j * x \in Int
      OBVIOUS
    <3>5. 2 * (i * x) <= 2 * (j * x)
      BY <3>2, <3>4
    <3>6. QED
      BY <3>1, <3>3, <3>5
  <2>7. PICK i \in Nat, j \in Nat : i = (n * B) * c /\ j = (A * x) * c
    OBVIOUS
  <2>8. m * (B * c) = 10 * i
    BY <1>18, <2>7
  <2>9. 2 * ((A * c) * x) = 2 * j
    BY <2>7
  <2>10. m * ((2 * lr) * z) \in Int /\ (2 * l) * (u * x) \in Int
    OBVIOUS
  <2>11. 10 * i <= 2 * j
    BY <2>3, <2>4, <2>5, <2>6, <2>8, <2>9, <2>10
  <2>12. QED
    BY <2>7, <2>11
<1>22. n * B <= A * x
  BY <1>11, <1>21, FactorOrders
<1>23. QED
  BY <1>4, <1>5, <1>7, <1>10, <1>15, <1>16, <1>18, <1>22

\* The limit of the places is not below those of operands that keep to it, and a
\* quotient with fewer has as many as are wanted.
LEMMA PlacesWithinLimit ==
  ASSUME PowersOfTen, NEW a, NEW b, a.u \in Int, b.u \in Int, a.u # 0, b.u # 0, a.s \in Nat, b.s \in Nat,
         a.s <= MaxScale, b.s <= MaxScale
  PROVE  /\ divScale(a, b) \in Nat /\ a.s <= divScale(a, b) /\ b.s <= divScale(a, b)
         /\ divScale(a, b) < MaxScale =>
              10^(MinSigDigits - 1) * Abs(b.u) <= Abs(a.u) * 10^(divScale(a, b) - a.s + b.s)
<1>1. PICK w \in Nat : w = wantedScale(a, b) /\ a.s <= w /\ b.s <= w
  BY EnoughPlaces
<1>2. divScale(a, b) = IF w < MaxScale THEN w ELSE MaxScale
  BY <1>1 DEF divScale, Smaller
<1>3. 10^(MinSigDigits - 1) * Abs(b.u) <= Abs(a.u) * 10^(w - a.s + b.s)
  BY <1>1, EnoughPlaces
<1>4. CASE w < MaxScale
  BY <1>1, <1>2, <1>3, <1>4
<1>5. CASE ~(w < MaxScale)
  <2>1. divScale(a, b) = MaxScale /\ MaxScale \in Nat
    BY <1>2, <1>5, WidthsAssumption
  <2>2. QED
    BY <2>1
<1>6. QED
  BY <1>4, <1>5

\* Where the operands keep to the limit of places, a quotient is the decimal
\* nearest to the true one among those of its scale, a tie going away from zero,
\* with the places of its operands, and, if its own places are below the limit,
\* no fewer significant digits than are promised: the scale is chosen from the
\* leading digits and one place more is computed and rounded (decimal_parse.go,
\* Div and divScale).
THEOREM QuotientsAreNearest ==
  ASSUME PowersOfTen, value \in Sample \cup {NoValue}
  PROVE  DivisionNearest
<1> DEFINE Exact(a, b, q) == a.u * 10^(b.s + q.s)
           Near(a, b, q)  == q.u * b.u * 10^a.s
           Unit(a, b)     == Abs(b.u) * 10^a.s
           Good(a, b, q)  == /\ 2 * Abs(Exact(a, b, q) - Near(a, b, q)) <= Unit(a, b)
                             /\ 2 * Abs(Exact(a, b, q) - Near(a, b, q)) = Unit(a, b) =>
                                  Abs(Near(a, b, q)) > Abs(Exact(a, b, q))
                             /\ q.s >= a.s /\ q.s >= b.s
                             /\ a.u # 0 /\ q.s < MaxScale => Abs(q.u) * 10 >= 10^MinSigDigits
<1>1. ASSUME NEW a, NEW b, NEW q, a.u \in Int, b.u \in Int, b.u # 0, a.s \in Nat, b.s \in Nat,
             a.s <= MaxScale, b.s <= MaxScale, q = DivNumeric(a, b)
      PROVE  Good(a, b, q)
  <2>1. PICK p \in Nat : p = 10^a.s /\ p >= 1
    BY <1>1, PowerPositive
  <2>2. PICK B \in Nat : B = Abs(b.u) /\ B >= 1
    BY <1>1 DEF Abs
  <2>3. PICK U \in Nat : U = B * p /\ U >= 1
    BY <2>1, <2>2
  <2>4. q = DecimalDiv(a, b)
    BY <1>1 DEF DivNumeric
  <2>5. CASE a.u = 0
    <3>1. q.u = 0 /\ q.s = Larger(a.s, b.s)
      BY <2>4, <2>5 DEF DecimalDiv, Decimal, V
    <3>2. q.s \in Nat /\ q.s >= a.s /\ q.s >= b.s
      BY <1>1, <3>1 DEF Larger
    <3>3. Near(a, b, q) = 0
      BY <1>1, <2>1, <3>1
    <3>4. Exact(a, b, q) = 0
      <4>1. 10^(b.s + q.s) \in Nat
        BY <1>1, <3>2, PowerPositive
      <4>2. QED
        BY <2>5, <4>1
    <3>5. Abs(Exact(a, b, q) - Near(a, b, q)) = 0
      BY <3>3, <3>4 DEF Abs
    <3>6. Unit(a, b) = U
      BY <2>1, <2>2, <2>3
    <3> HIDE DEF Exact, Near, Unit
    <3>7. QED
      BY <2>3, <2>5, <3>2, <3>5, <3>6
  <2>6. CASE a.u # 0
    <3>1. PICK s \in Nat : /\ s = divScale(a, b) /\ a.s <= s /\ b.s <= s
                           /\ s < MaxScale =>
                                10^(MinSigDigits - 1) * Abs(b.u) <= Abs(a.u) * 10^(s - a.s + b.s)
      BY <1>1, <2>6, PlacesWithinLimit
    <3>2. q = divTo(a, b, s)
      <4>1. ~(s - a.s + b.s + 1 < 0)
        BY <1>1, <3>1
      <4>2. QED
        BY <2>4, <2>6, <3>1, <4>1 DEF DecimalDiv
    <3>3. PICK A \in Nat : A = Abs(a.u) /\ A >= 1
      BY <1>1, <2>6 DEF Abs
    <3>4. PICK e \in Nat : e = s - a.s + b.s
      BY <1>1, <3>1
    <3>5. PICK x \in Nat : x = 10^e /\ x >= 1
      BY PowerPositive
    <3>6. PICK Q \in Nat : /\ q = Decimal(Sign(a.u) * Sign(b.u) * Q, s)
                           /\ (10 * Q) * B <= A * 10^(e + 1) + 5 * B
                           /\ A * 10^(e + 1) < (10 * Q) * B + 5 * B
      <4>1. \E i \in Nat :
              /\ divTo(a, b, s) = Decimal(Sign(a.u) * Sign(b.u) * i, s)
              /\ (10 * i) * Abs(b.u) <= Abs(a.u) * 10^(s - a.s + b.s + 1) + 5 * Abs(b.u)
              /\ Abs(a.u) * 10^(s - a.s + b.s + 1) < (10 * i) * Abs(b.u) + 5 * Abs(b.u)
        BY <1>1, <3>1, QuotientIsNear
      <4>2. QED
        BY <2>2, <3>2, <3>3, <3>4, <4>1
    <3>7. PICK t \in Nat, r \in Nat : t = A * x /\ r = Q * B
      OBVIOUS
    <3>8. 2 * r <= 2 * t + B /\ 2 * t < 2 * r + B
      <4>1. 10^(e + 1) = 10 * x
        BY <3>5 DEF PowersOfTen
      <4>2. A * (10 * x) = 10 * t /\ (10 * Q) * B = 10 * r
        BY <3>7
      <4>3. QED
        BY <3>6, <4>1, <4>2
    <3>9. PICK i \in {-1, 1}, j \in {-1, 1} : i = Sign(a.u) /\ j = Sign(b.u)
      BY <1>1, <2>6 DEF Sign
    <3>10. a.u = i * A /\ b.u = j * B
      BY <1>1, <2>2, <3>3, <3>9 DEF Sign, Abs
    <3>11. q.u = i * j * Q /\ q.s = s
      BY <3>6, <3>9 DEF Decimal, V
    <3>12. Exact(a, b, q) = i * (t * p)
      <4>1. 10^(b.s + s) = x * p
        <5>1. b.s + s = e + a.s
          BY <1>1, <3>4
        <5>2. QED
          BY <1>1, <2>1, <3>5, <5>1, PowerOfSum
      <4>2. (i * A) * (x * p) = i * (t * p)
        BY <3>7, <3>9
      <4>3. QED
        BY <3>10, <3>11, <4>1, <4>2
    <3>13. Near(a, b, q) = i * (r * p)
      <4>1. ((i * j * Q) * (j * B)) * p = i * (r * p)
        BY <3>7, <3>9
      <4>2. QED
        BY <2>1, <3>10, <3>11, <4>1
    <3>14. Unit(a, b) = B * p
      BY <2>1, <2>2
    <3>15. PICK c \in Int : c = t - r
      OBVIOUS
    <3>16. Abs(Exact(a, b, q) - Near(a, b, q)) = Abs(c) * p
      <4>1. PICK y \in Int : y = c * p
        OBVIOUS
      <4>2. i * (t * p) - i * (r * p) = i * y
        BY <3>9, <3>15, <4>1
      <4>3. Abs(i * y) = Abs(y)
        BY <3>9 DEF Abs
      <4>4. Abs(y) = Abs(c) * p
        BY <2>1, <4>1, SignKept
      <4>5. QED
        BY <3>12, <3>13, <4>2, <4>3, <4>4
    <3>17. PICK z \in Nat : z = Abs(c) /\ 2 * z <= B /\ (2 * z = B => t < r)
      <4>1. PICK z \in Nat : z = Abs(c)
        BY DEF Abs
      <4>2. CASE c < 0
        <5>1. z = r - t
          BY <3>15, <4>1, <4>2 DEF Abs
        <5>2. QED
          BY <3>8, <3>15, <4>1, <4>2, <5>1
      <4>3. CASE ~(c < 0)
        <5>1. z = t - r
          BY <3>15, <4>1, <4>3 DEF Abs
        <5>2. QED
          BY <3>8, <4>1, <5>1
      <4>4. QED
        BY <4>2, <4>3
    <3>18. Abs(Near(a, b, q)) = r * p /\ Abs(Exact(a, b, q)) = t * p
      <4>1. PICK y \in Nat, w \in Nat : y = r * p /\ w = t * p
        OBVIOUS
      <4>2. Abs(i * y) = y /\ Abs(i * w) = w
        BY <3>9 DEF Abs
      <4>3. QED
        BY <3>12, <3>13, <4>1, <4>2
    <3>19. 2 * (z * p) <= B * p /\ (2 * (z * p) = B * p => r * p > t * p)
      <4>1. 2 * (z * p) = (2 * z) * p
        OBVIOUS
      <4>2. (2 * z) * p <= B * p
        BY <3>17
      <4>3. ASSUME 2 * (z * p) = B * p PROVE r * p > t * p
        <5>1. 2 * z = B
          BY <2>1, <4>1, <4>3, FactorCancels
        <5>2. t < r
          BY <3>17, <5>1
        <5>3. QED
          BY <2>1, <5>2
      <4>4. QED
        BY <4>1, <4>2, <4>3
    <3>20. q.s < MaxScale => Abs(q.u) * 10 >= 10^MinSigDigits
      <4>0. SUFFICES ASSUME s < MaxScale PROVE Abs(q.u) * 10 >= 10^MinSigDigits
        BY <3>11
      <4>1. PICK n \in Nat : n = 10^(MinSigDigits - 1) /\ 10^MinSigDigits = 10 * n
        <5>1. MinSigDigits - 1 \in Nat /\ (MinSigDigits - 1) + 1 = MinSigDigits
          BY WidthsAssumption
        <5>2. 10^MinSigDigits = 10 * 10^(MinSigDigits - 1)
          BY <5>1 DEF PowersOfTen
        <5>3. QED
          BY <5>1, <5>2, PowerPositive
      <4>2. n * B <= t
        BY <2>2, <3>1, <3>3, <3>4, <3>5, <3>7, <4>0, <4>1
      <4>3. Q >= n
        <5>1. Q + 1 <= n => (Q + 1) * B <= n * B
          BY <2>2
        <5>2. (Q + 1) * B = r + B /\ n * B \in Int
          BY <3>7
        <5>3. QED
          BY <2>2, <3>8, <4>2, <5>1, <5>2
      <4>4. Abs(q.u) = Q
        <5>1. Abs(i * j * Q) = Q
          BY <3>9 DEF Abs
        <5>2. QED
          BY <3>11, <5>1
      <4>5. QED
        BY <4>1, <4>3, <4>4
    <3> HIDE DEF Exact, Near, Unit
    <3>21. 2 * Abs(Exact(a, b, q) - Near(a, b, q)) <= Unit(a, b)
      BY <3>14, <3>16, <3>17, <3>19
    <3>22. 2 * Abs(Exact(a, b, q) - Near(a, b, q)) = Unit(a, b) => Abs(Near(a, b, q)) > Abs(Exact(a, b, q))
      BY <3>14, <3>16, <3>17, <3>18, <3>19
    <3>23. QED
      BY <3>1, <3>11, <3>20, <3>21, <3>22
  <2>7. QED
    BY <2>5, <2>6
<1>2. SUFFICES ASSUME value \in Decimals, NEW b \in Decimals, b.u # 0, value.s <= MaxScale, b.s <= MaxScale
               PROVE  Good(value, b, DivNumeric(value, b))
  BY DEF DivisionNearest
<1>3. value.u \in Int /\ b.u \in Int /\ value.s \in Nat /\ b.s \in Nat
  BY <1>2, SampleAssumption DEF Decimals, Valued
<1> HIDE DEF Good
<1>4. QED
  BY <1>1, <1>2, <1>3
=============================================================================
