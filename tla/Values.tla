------------------------------- MODULE Values -------------------------------
(***************************************************************************)
(* internal/types: values, their order, equality and hashing, three-valued *)
(* logic, and decimals with their two representations.                     *)
(*                                                                         *)
(* A value is [k, u, s]: its kind, its digits and how many of them are     *)
(* behind the point.  For a boolean and a text u is its place in the       *)
(* order.  A float is a fraction of a power of two, which has an end as a  *)
(* decimal and is kept as that; NaN, the infinities and -0 are left out.   *)
(* Bytea, JSON and the temporal kinds order and hash like text.            *)
(*                                                                         *)
(* The widths of the code are constants: a word of 64 bits, 18 digits      *)
(* behind the point of a small decimal, 16 significant digits of a         *)
(* quotient and no more than 1000 behind its point, 4 decimal digits in a  *)
(* digit of PostgreSQL's; 53 bits of a float, 64 of a big.Float, and 1074  *)
(* binary places of the least float.                                       *)
(***************************************************************************)
EXTENDS Integers, Sequences, FiniteSets

CONSTANTS
  WordMax,        \* the largest integer of a word; the least is -WordMax - 1
  MaxSmallScale,  \* the largest scale of a decimal kept in a word
  MinSigDigits,   \* digits a quotient has at least
  DecDigits,      \* how many of them go together
  MaxScale,       \* and places at most
  FloatBits,      \* the significant bits of a float
  GuardBits,      \* those of the quotient a decimal is converted by
  FloatPlaces     \* the binary places of the least float

ASSUME WidthsAssumption ==
  /\ WordMax \in Nat /\ WordMax >= 10 /\ MaxSmallScale \in Nat
  /\ MinSigDigits \in Nat \ {0} /\ DecDigits \in Nat \ {0} /\ MaxScale \in Nat
  /\ FloatBits \in Nat \ {0} /\ GuardBits \in Nat \ {0} /\ FloatPlaces \in Nat

\* What ^ is, as far as the proofs need it: the provers do not know.
ASSUME PowersAssumption ==
  10^0 = 1 /\ \A n \in 1..MaxSmallScale : 10^n = 10 * 10^(n - 1)

V(kind, digits, scale) == [k |-> kind, u |-> digits, s |-> scale]

NULL     == V("null", 0, 0)
IntV(n)  == V("int", n, 0)
TextV(n) == V("text", n, 0)
BoolV(b) == V("bool", IF b THEN 1 ELSE 0, 0)

\* What an evaluation can fail with.
DivisionByZero       == V("error", 1, 0)
CardinalityViolation == V("error", 2, 0)
InternalError        == V("error", 3, 0)
CastError            == V("error", 4, 0)
\* Not an error of the code: pow10 panics, and nothing recovers.
Panicked             == V("error", 5, 0)
IsError(v) == v.k = "error"
\* The first error of a sequence of values, or else the result.
Unless(vals, result) ==
  IF \E i \in DOMAIN vals : IsError(vals[i])
  THEN vals[CHOOSE i \in DOMAIN vals : IsError(vals[i]) /\ \A j \in 1..(i - 1) : ~IsError(vals[j])]
  ELSE result

IsNull(v)    == v.k = "null"
IsNumeric(k) == k \in {"int", "float", "numeric"}
IsExact(k)   == k \in {"int", "numeric"}
KindOrder    == [null |-> 0, bool |-> 1, int |-> 2, float |-> 3, text |-> 4, numeric |-> 12]

Sign(n) == IF n < 0 THEN -1 ELSE IF n > 0 THEN 1 ELSE 0
Abs(n)  == IF n < 0 THEN -n ELSE n
Larger(m, n) == IF m > n THEN m ELSE n
Smaller(m, n) == IF m < n THEN m ELSE n
\* Go's division truncates, and its remainder has the dividend's sign.
Quo(m, n) == Sign(m) * Sign(n) * (Abs(m) \div Abs(n))
Rem(m, n) == m - n * Quo(m, n)

(***************************************************************************)
(* Three-valued logic.                                                     *)
(***************************************************************************)
Bool3Of(b) == IF b THEN "true" ELSE "false"
Not3(b)    == CASE b = "true" -> "false" [] b = "false" -> "true" [] OTHER -> "unknown"
And3(a, b) == IF "false" \in {a, b} THEN "false" ELSE IF "unknown" \in {a, b} THEN "unknown" ELSE "true"
Or3(a, b)  == IF "true" \in {a, b} THEN "true" ELSE IF "unknown" \in {a, b} THEN "unknown" ELSE "false"
Value3(b)  == IF b = "unknown" THEN NULL ELSE BoolV(b = "true")
Truth(v)   == IF v.k = "bool" THEN Bool3Of(v.u # 0) ELSE "unknown"

(***************************************************************************)
(* Decimals of any size.                                                   *)
(***************************************************************************)
Decimal(digits, scale) == V("numeric", digits, scale)

rescale(d, scale) == d.u * 10^(scale - d.s)

DecimalAdd(a, b) == LET s == Larger(a.s, b.s) IN Decimal(rescale(a, s) + rescale(b, s), s)
DecimalSub(a, b) == LET s == Larger(a.s, b.s) IN Decimal(rescale(a, s) - rescale(b, s), s)
DecimalMul(a, b) == Decimal(a.u * b.u, a.s + b.s)
DecimalMod(a, b) == LET s == Larger(a.s, b.s) IN Decimal(Rem(rescale(a, s), rescale(b, s)), s)
DecimalNeg(a)    == Decimal(-a.u, a.s)
DecimalCmp(a, b) == LET s == Larger(a.s, b.s) IN Sign(rescale(a, s) - rescale(b, s))

\* (variant) the digits that are dropped are forgotten
RoundDown(d, scale) == IF scale >= d.s THEN Decimal(rescale(d, scale), scale) ELSE Decimal(Quo(d.u, 10^(d.s - scale)), scale)

Round(d, scale) ==
  IF scale >= d.s THEN Decimal(rescale(d, scale), scale)
  ELSE LET drop == 10^(d.s - scale)
           q    == Quo(d.u, drop)
           r    == Rem(d.u, drop)
       IN Decimal(IF 2 * Abs(r) >= drop THEN q + Sign(d.u) ELSE q, scale)

\* How many digits follow the leading one.
leading(u) == CHOOSE n \in 0..Abs(u) : 10^n <= Abs(u) /\ Abs(u) < 10^(n + 1)

\* The exponent, to the base of a PostgreSQL digit, of the leading one.
nbaseWeight(d) ==
  IF d.u = 0 THEN 0
  ELSE LET e == leading(d.u) - d.s
       IN IF e >= 0 THEN e \div DecDigits ELSE -((-e + DecDigits - 1) \div DecDigits)

lead(d) ==
  LET shift == d.s + DecDigits * nbaseWeight(d)
  IN IF d.u = 0 THEN 0 ELSE IF shift > 0 THEN Abs(d.u) \div 10^shift ELSE Abs(d.u) * 10^(-shift)

wantedScale(a, b) ==
  LET less == IF lead(a) < lead(b) THEN 1 ELSE 0
      want == MinSigDigits - (nbaseWeight(a) - nbaseWeight(b) - less) * DecDigits
  IN Larger(want, Larger(a.s, b.s))

divScale(a, b) == Smaller(wantedScale(a, b), MaxScale)

\* One more place than wanted is computed, and rounded.  The limit of the scale may
\* leave fewer places than the dividend has: then the power of ten is negative.
divTo(a, b, places) ==
  LET shift == places - a.s + b.s + 1
  IN IF shift < 0 THEN Panicked
     ELSE Round(Decimal(Quo(a.u * 10^shift, b.u), places + 1), places)

DecimalDiv(a, b) ==
  IF a.u = 0 THEN Decimal(0, Larger(a.s, b.s)) ELSE divTo(a, b, divScale(a, b))

(***************************************************************************)
(* Decimals in a word.  Arithmetic is Go's on int64, modulo 2^64, with the *)
(* checks for what does not fit; the answer of a check that says no is     *)
(* not used.                                                               *)
(***************************************************************************)
Word    == (-WordMax - 1)..WordMax
Wrap(n) == ((n + WordMax + 1) % (2 * (WordMax + 1))) - WordMax - 1

IsSmall(v) == v.s <= MaxSmallScale /\ v.u \in Word

Checked(ok, n) == [ok |-> ok, n |-> n]

\* (variant) zero is taken for a sum of the right sign
AddCheckingSignOnly(x, y) ==
  LET sum == Wrap(x + y)
  IN Checked(~(x > 0 /\ y > 0 /\ sum < 0) /\ ~(x < 0 /\ y < 0 /\ sum > 0), sum)

addNoOverflow(x, y) ==
  LET sum == Wrap(x + y)
  IN Checked(~(x > 0 /\ y > 0 /\ sum < 0) /\ ~(x < 0 /\ y < 0 /\ sum >= 0), sum)

mulNoOverflow(x, y) ==
  LET prod == Wrap(x * y)
  IN IF x = 0 \/ y = 0 THEN Checked(TRUE, 0)
     ELSE IF -WordMax - 1 \in {x, y} THEN Checked(FALSE, 0)
     ELSE Checked(Quo(prod, y) = x, prod)

scaleNoOverflow(x, by) ==
  Checked(\A i \in 1..by : mulNoOverflow(x * 10^(i - 1), 10).ok, x * 10^by)

Aligned(x, y, s) == [ok |-> x.ok /\ y.ok, x |-> x.n, y |-> y.n, s |-> s]
alignSmall(a, b) ==
  LET s == Larger(a.s, b.s)
  IN IF IsSmall(a) /\ IsSmall(b)
     THEN Aligned(scaleNoOverflow(a.u, s - a.s), scaleNoOverflow(b.u, s - b.s), s)
     ELSE [ok |-> FALSE, x |-> 0, y |-> 0, s |-> s]

AddNumeric(a, b) ==
  LET w == alignSmall(a, b) sum == addNoOverflow(w.x, w.y)
  IN IF w.ok /\ sum.ok THEN Decimal(sum.n, w.s) ELSE DecimalAdd(a, b)

SubNumeric(a, b) ==
  LET w == alignSmall(a, b) diff == addNoOverflow(w.x, Wrap(-w.y))
  IN IF w.ok /\ diff.ok /\ w.y # -WordMax - 1 THEN Decimal(diff.n, w.s) ELSE DecimalSub(a, b)

MulNumeric(a, b) ==
  LET prod == mulNoOverflow(a.u, b.u)
  IN IF IsSmall(a) /\ IsSmall(b) /\ a.s + b.s <= MaxSmallScale /\ prod.ok
     THEN Decimal(prod.n, a.s + b.s) ELSE DecimalMul(a, b)

DivNumeric(a, b) == IF b.u = 0 THEN DivisionByZero ELSE DecimalDiv(a, b)

ModNumeric(a, b) ==
  LET w == alignSmall(a, b)
  IN IF b.u = 0 THEN DivisionByZero
     ELSE IF w.ok THEN Decimal(Rem(w.x, w.y), w.s) ELSE DecimalMod(a, b)

NegNumeric(a) == IF IsSmall(a) /\ a.u # -WordMax - 1 THEN Decimal(Wrap(-a.u), a.s) ELSE DecimalNeg(a)

cmpNumeric(a, b) ==
  LET w == alignSmall(a, b) IN IF w.ok THEN Sign(w.x - w.y) ELSE DecimalCmp(a, b)

(***************************************************************************)
(* Floats.                                                                 *)
(***************************************************************************)
\* The digits without the zeros at their end.
Bits(v) ==
  LET zeros == {d \in 0..v.s : v.u % 10^d = 0}
      most  == CHOOSE d \in zeros : \A e \in zeros : e <= d
  IN <<v.u \div 10^most, v.s - most>>

\* How far apart the numbers of so many bits are around n/d: 2^up if there are
\* that many bits before the point, and else 2^-down, with a least.
up(n, d, bits) ==
  CHOOSE i \in 0..n : n < 2^(i + bits) * d /\ (i > 0 => n >= 2^(i - 1 + bits) * d)
down(n, d, bits, places) ==
  CHOOSE j \in 0..places : n * 2^j < 2^bits * d /\ (j < places => n * 2^(j + 1) >= 2^bits * d)

\* The integer nearest to p/q; a tie goes to the even one.
toEven(p, q) ==
  LET w == p \div q  r == 2 * (p % q)
  IN IF r > q \/ (r = q /\ w % 2 = 1) THEN w + 1 ELSE w

\* The multiple of 2^i/2^j nearest to n/d, in binary places.
onGrid(n, d, i, j) == [n |-> toEven(n * 2^j, d * 2^i) * 2^i, places |-> j]

\* n/d rounded to so many bits, n not below zero.
onFinest(n, d, bits, places, i) == onGrid(n, d, i, IF i > 0 THEN 0 ELSE down(n, d, bits, places))
nearest(n, d, bits, places)     == onFinest(n, d, bits, places, up(n, d, bits))

\* The float for n/d.  What is left of 10^j after 2^j is 5^j: a binary fraction
\* ends.
FloatOf(bits)     == V("float", bits[1], bits[2])
asDigits(sign, b) == FloatOf(Bits(V("float", sign * ((b.n * 10^b.places) \div 2^b.places), b.places)))
Float(n, d) == asDigits(Sign(n), nearest(Abs(n), d, FloatBits, FloatPlaces))

\* A quotient of big.Floats has the precision of the more precise of the two, and
\* an integer has what it needs, but GuardBits at least.
precision(u, d) ==
  CHOOSE b \in GuardBits..(GuardBits + u + d) :
    /\ u < 2^b /\ d < 2^b
    /\ b > GuardBits => ~(u < 2^(b - 1) /\ d < 2^(b - 1))

\* Rounded twice: to that precision, and to a float.
quotient(n, d, prec)  == nearest(n, d, prec, FloatPlaces + prec)
Again(sign, b, over)  == Float(sign * b.n, 2^b.places * over)
Float64(d) == Again(Sign(d.u), quotient(Abs(d.u), 10^d.s, precision(Abs(d.u), 10^d.s)), 1)

\* A decimal in a word is the float of its digits, rounded, over a power of ten,
\* and rounded again; the powers are exact, up to MaxSmallScale.  An integer is
\* over 1: rounded again it stays.
AsFloat(v) ==
  CASE v.k = "float" -> v
    [] v.k = "numeric" /\ ~IsSmall(v) -> Float64(v)
    [] v.k = "int" \/ (v.k = "numeric" /\ IsSmall(v)) ->
         Again(Sign(v.u), nearest(Abs(v.u), 1, FloatBits, FloatPlaces), 10^v.s)

(***************************************************************************)
(* Order, equality and hashing.                                            *)
(***************************************************************************)
\* (variant) NULL is after everything, NULL too
NullAfterNull(a, b) ==
  IF IsNull(a) THEN 1 ELSE IF IsNull(b) THEN -1
  ELSE IF IsNumeric(a.k) /\ IsNumeric(b.k) THEN DecimalCmp(AsFloat(a), AsFloat(b))
  ELSE Sign(IF a.k # b.k THEN KindOrder[a.k] - KindOrder[b.k] ELSE a.u - b.u)

Compare(a, b) ==
  IF IsNull(a) \/ IsNull(b) THEN (IF IsNull(a) THEN 1 ELSE 0) - (IF IsNull(b) THEN 1 ELSE 0)
  ELSE IF IsExact(a.k) /\ IsExact(b.k) THEN cmpNumeric(a, b)
  ELSE IF IsNumeric(a.k) /\ IsNumeric(b.k) THEN DecimalCmp(AsFloat(a), AsFloat(b))
  ELSE Sign(IF a.k # b.k THEN KindOrder[a.k] - KindOrder[b.k] ELSE a.u - b.u)

Ordering(op, c) ==
  CASE op = "=" -> c = 0 [] op = "<>" -> c # 0 [] op = "<" -> c < 0
    [] op = "<=" -> c <= 0 [] op = ">" -> c > 0 [] op = ">=" -> c >= 0
sqlCmp(op, a, b) ==
  IF IsNull(a) \/ IsNull(b) THEN "unknown" ELSE Bool3Of(Ordering(op, Compare(a, b)))

IsDistinctFrom(a, b) == Bool3Of(Compare(a, b) # 0)

\* Whether converting to an integer and back gives the same (on amd64, where
\* what is too large for a word becomes the least one).
IsWhole(v) == Bits(v)[2] = 0 /\ Bits(v)[1] \in Word

\* (variant) a decimal is hashed digit for digit
HashOfDigits(v) ==
  IF v.k = "float" THEN <<"int">> \o Bits(v) ELSE <<IF v.k = "numeric" THEN "int" ELSE v.k, v.u, v.s>>

\* What is written into a hash: the class of the kind, and for a number the
\* integer it is, or else the bits of the float.  Different bytes are taken to
\* hash differently.
Hash(v) ==
  CASE v.k \in {"float", "numeric"} /\ IsWhole(v) -> <<"int", Bits(v)[1], 0>>
    [] v.k = "numeric" /\ ~IsWhole(v) -> <<"bits", Bits(Float64(v))>>
    [] v.k = "float" /\ ~IsWhole(v) -> <<"bits", Bits(v)>>
    [] OTHER -> <<v.k, v.u, 0>>

hashKey(key)  == [i \in DOMAIN key |-> Hash(key[i])]
sameKey(a, b) == Len(a) = Len(b) /\ \A i \in DOMAIN a : Compare(a[i], b[i]) = 0
\* A key is looked for among the ones with its hash.
Found(key, other) == hashKey(key) = hashKey(other) /\ sameKey(key, other)

(***************************************************************************)
(* Conversions between the numbers and booleans.  What is converted to and *)
(* from text is not in the model.                                          *)
(***************************************************************************)
ToNumeric(v) == Decimal(v.u, v.s)

\* The text of a float is the shortest that is read back as it: of the decimals
\* with so many places, and fewer than none are zeros before the point, those on
\* either side of the float.
Around(f, places) ==
  LET k == IF places >= 0 THEN (Abs(f.u) * 10^places) \div 10^f.s ELSE Abs(f.u) \div 10^(f.s - places)
  IN {Decimal(Sign(f.u) * n * 10^Larger(-places, 0), Larger(places, 0)) : n \in {k, k + 1}}
ReadBack(f, places) == {d \in Around(f, places) : DecimalCmp(Float(d.u, 10^d.s), f) = 0}
Distance(f, d)      == LET s == Larger(f.s, d.s) IN Abs(rescale(f, s) - rescale(d, s))

Fewest(f) ==
  LET places == {p \in (f.s - leading(f.u) - 1)..f.s : ReadBack(f, p) # {}}
  IN CHOOSE p \in places : \A q \in places : p <= q
Closest(f, ds) == CHOOSE d \in ds : \A e \in ds : Distance(f, d) <= Distance(f, e)
Shortest(f)    == IF f.u = 0 THEN Decimal(0, 0) ELSE Closest(f, ReadBack(f, Fewest(f)))

InWord(n) == IF n \in Word THEN IntV(n) ELSE CastError

\* An integer loses nothing in the quotient of Float64.
Cast(v, want) ==
  IF IsNull(v) \/ v.k = want THEN v
  ELSE CASE <<v.k, want>> = <<"int", "bool">>    -> BoolV(v.u # 0)
         [] <<v.k, want>> = <<"bool", "int">>    -> IntV(v.u)
         [] <<v.k, want>> = <<"float", "int">>   -> IF IsWhole(v) THEN IntV(Quo(v.u, 10^v.s)) ELSE CastError
         [] <<v.k, want>> = <<"numeric", "int">> -> InWord(Round(v, 0).u)
         [] <<v.k, want>> \in {<<"int", "float">>, <<"numeric", "float">>} -> Float64(v)
         [] <<v.k, want>> = <<"int", "numeric">> -> ToNumeric(v)
         [] <<v.k, want>> = <<"float", "numeric">> -> Shortest(v)
         [] OTHER                                -> CastError
=============================================================================
