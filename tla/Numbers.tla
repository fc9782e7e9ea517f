------------------------------- MODULE Numbers -------------------------------
(***************************************************************************)
(* What the rest of lightsql takes for granted of values: that comparing,  *)
(* hashing and the two representations of a decimal agree.                 *)
(***************************************************************************)
EXTENDS Values

CONSTANTS Sample    \* the values this is about
VARIABLES value     \* the one of them that meets all the others, or NoValue

NoValue == V("no value", 0, 0)

\* A value as the constructors make it.
Valued(v) == /\ v \in [k : DOMAIN KindOrder, u : Int, s : Nat]
             /\ v.k \notin {"float", "numeric"} => v.s = 0
             /\ v.k = "null" => v.u = 0
             /\ v.k = "int" => v.u \in Word
             /\ v.k = "float" => v = Float(v.u, 10^v.s)

ASSUME SampleAssumption == \A v \in Sample : Valued(v)

\* A number that a float is, by both ways in which the code converts: to compare
\* (AsFloat) and to hash and to cast (Float64).
IsHeld(v) ==
  IsNumeric(v.k) => DecimalCmp(AsFloat(v), v) = 0 /\ (v.k = "numeric" => DecimalCmp(Float64(v), v) = 0)
Held == {v \in Sample : IsHeld(v)}

\* A number that Float64 converts by a quotient of GuardBits bits.  One with more
\* digits is converted by a longer one, and its equal need not be: then the two
\* may be rounded to neighbouring floats.
IsShort(v) == Abs(v.u) < 2^GuardBits /\ 10^v.s < 2^GuardBits

\* Values of which none is rounded when they are compared, or alike when they are
\* hashed: those that are no numbers or are held, and the exact ones that are
\* whole or of ordinary length.
Unrounded == {{v \in Sample : ~IsNumeric(v.k)} \cup Held,
              {v \in Sample : IsExact(v.k) /\ (IsShort(v) \/ IsWhole(v))}}

\* GROUP BY, DISTINCT and the set operations look for a key among the keys with
\* its hash, so values that compare equal have to hash alike whatever their
\* kinds and scales are (value.go: "the invariant Hash must preserve"): where
\* nothing is rounded they do.
EqualHashAlike ==
  \A values \in Unrounded : value \in values =>
    \A b \in values : Compare(value, b) = 0 => Hash(value) = Hash(b)

\* The values that can meet in a column: those of one kind, the exact numbers,
\* and numbers of all kinds that a float holds; and NULL.
Columns ==
  {{v \in Sample : v.k \in {"null", kind}} : kind \in DOMAIN KindOrder}
  \cup {{v \in Sample : IsNull(v) \/ IsExact(v.k)}, {v \in Held : IsNull(v) \/ IsNumeric(v.k)}}

\* Sorting, min and max, and the keys of groups take Compare for a total order
\* of the values of a column, of several numeric kinds and scales and with NULLs:
\* equality and less carry over.  Which of two values is the greater does not
\* depend on which is asked, rounded or not.
CompareIsTotal ==
  value # NoValue =>
    /\ \A a \in Sample : Compare(value, a) = -Compare(a, value)
    /\ \A column \in Columns : value \in column =>
         \A a \in column : Compare(value, a) <= 0 =>
           \A b \in column : Compare(a, b) <= 0 => Compare(value, b) <= 0

Decimals == {v \in Sample : v.k = "numeric"}

\* The arithmetic in a word, with its checks for what does not fit, gives the
\* result of the arithmetic without bounds, digit for digit, wherever the checks
\* let it through, and at the ends of the word too.
DecimalPathsAgree ==
  value \in Decimals => \A b \in Decimals :
    /\ AddNumeric(value, b) = DecimalAdd(value, b)
    /\ SubNumeric(value, b) = DecimalSub(value, b)
    /\ MulNumeric(value, b) = DecimalMul(value, b)
    /\ NegNumeric(value) = DecimalNeg(value)
    /\ cmpNumeric(value, b) = DecimalCmp(value, b)
    /\ b.u # 0 => ModNumeric(value, b) = DecimalMod(value, b)

\* A quotient of decimals within the limit of places is the decimal nearest to the
\* true one among those of its scale, a tie going away from zero; it has no fewer
\* places than its operands, and at least MinSigDigits significant digits unless
\* its own places are at the limit.
DivisionNearest ==
  value \in Decimals => \A b \in Decimals :
    b.u # 0 /\ value.s <= MaxScale /\ b.s <= MaxScale =>
      \E q \in {DivNumeric(value, b)} :
        \* |value/b - q| * 2 <= 10^-q.s, the denominators multiplied out
        LET exact == value.u * 10^(b.s + q.s)
            near  == q.u * b.u * 10^value.s
            unit  == Abs(b.u) * 10^value.s
        IN /\ 2 * Abs(exact - near) <= unit
           /\ 2 * Abs(exact - near) = unit => Abs(near) > Abs(exact)
           /\ q.s >= value.s /\ q.s >= b.s
           /\ value.u # 0 /\ q.s < MaxScale => Abs(q.u) * 10 >= 10^MinSigDigits
=============================================================================
