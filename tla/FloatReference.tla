--------------------------- MODULE FloatReference ---------------------------
(***************************************************************************)
(* What IEEE 754 arithmetic has to return, stated without an algorithm and *)
(* without the code's definitions.  The magnitudes a format represents are *)
(* the numbers Units(p), p a bit pattern without sign, in units of the     *)
(* smallest subnormal; the pattern of infinity stands for the first power  *)
(* of two out of range.  An exact result is a rational number of units, or *)
(* its square root, and is rounded to one of its two neighbours in that    *)
(* order.                                                                  *)
(***************************************************************************)
LOCAL INSTANCE Integers

(* Formats are given by their field widths e and f.                        *)
Inf(e, f) == (2^e - 1) * 2^f
Nan(e, f) == Inf(e, f) + 2^(f - 1)
Negative(e, f, bits) == bits >= 2^(e + f)
Pattern(e, f, bits) == bits % 2^(e + f)
IsNan(e, f, bits) == Pattern(e, f, bits) > Inf(e, f)
IsSignaling(e, f, bits) == IsNan(e, f, bits) /\ Pattern(e, f, bits) < Nan(e, f)
IsInf(e, f, bits) == Pattern(e, f, bits) = Inf(e, f)
IsZero(e, f, bits) == Pattern(e, f, bits) = 0
Sign(e, f, negative) == IF negative THEN 2^(e + f) ELSE 0

Units(f, p) == IF p < 2^f THEN p ELSE (2^f + (p % 2^f)) * 2^(p \div 2^f - 1)

(* 1 is UnitsPerOne units.                                                 *)
UnitsPerOne(e, f) == 2^(f + 2^(e - 1) - 2)

(* x.num / x.den, or its root, compared with a number of quarter units.    *)
AtLeast(x, q) == IF x.root THEN q * q * x.den <= 16 * x.num ELSE q * x.den <= 4 * x.num
Above(x, q) == IF x.root THEN q * q * x.den < 16 * x.num ELSE q * x.den < 4 * x.num

AwayFromZero(rounding, negative) ==
  IF negative THEN rounding = "Down" ELSE rounding = "Up"
Nearest(rounding) == rounding \in {"NearestTiesToEven", "NearestTiesToMaximumMagnitude"}

(* x rounded to the pattern below or to the next one.                      *)
RoundedFrom(below, e, f, negative, x, rounding) ==
  LET exact == ~Above(x, 4 * Units(f, below))
      middle == 2 * (Units(f, below) + Units(f, below + 1))
      up == \/ AwayFromZero(rounding, negative)
            \/ Nearest(rounding) /\ Above(x, middle)
            \/ Nearest(rounding) /\ AtLeast(x, middle)
                 /\ (below % 2 = 1 \/ rounding # "NearestTiesToEven")
      above == ~exact /\ up
      overflow == below = Inf(e, f) \/ (above /\ below + 1 = Inf(e, f))
      normal == 4 * 2^f
      tiny == /\ ~AtLeast(x, normal)
              /\ ~(AwayFromZero(rounding, negative) /\ Above(x, normal - 2))
              /\ ~(Nearest(rounding) /\ AtLeast(x, normal - 1))
      pattern == IF overflow
                 THEN IF AwayFromZero(rounding, negative) \/ Nearest(rounding)
                      THEN Inf(e, f) ELSE Inf(e, f) - 1
                 ELSE IF above THEN below + 1 ELSE below
  IN  [bits |-> Sign(e, f, negative) + pattern,
       flags |-> IF overflow THEN {"OF", "NX"}
                 ELSE IF exact THEN {} ELSE IF tiny THEN {"NX", "UF"} ELSE {"NX"}]

(* The correctly rounded pattern and the flags of a non-zero exact result. *)
Rounded(e, f, negative, x, rounding) ==
  RoundedFrom(CHOOSE p \in 0..Inf(e, f) :
                /\ AtLeast(x, 4 * Units(f, p))
                /\ p = Inf(e, f) \/ ~AtLeast(x, 4 * Units(f, p + 1)),
              e, f, negative, x, rounding)

Exactly(bits) == [bits |-> bits, flags |-> {}]
Invalid(e, f) == [bits |-> Nan(e, f), flags |-> {"NV"}]
NanOf(e, f, operands) ==
  [bits |-> Nan(e, f),
   flags |-> IF \E o \in operands : IsSignaling(e, f, o) THEN {"NV"} ELSE {}]

(* (+/-) a * b (+/-) c with one rounding.                                  *)
FusedMultiplyAdd(e, f, a, b, c, negate_product, negate_addend, rounding) ==
  LET one == UnitsPerOne(e, f)
      ps == (Negative(e, f, a) # Negative(e, f, b)) # negate_product
      cs == Negative(e, f, c) # negate_addend
      product == Units(f, Pattern(e, f, a)) * Units(f, Pattern(e, f, b))
      addend == Units(f, Pattern(e, f, c)) * one
      sum == (IF ps THEN -product ELSE product) + (IF cs THEN -addend ELSE addend)
      infinite == IsInf(e, f, a) \/ IsInf(e, f, b)
  IN  CASE infinite /\ (IsZero(e, f, a) \/ IsZero(e, f, b)) -> Invalid(e, f)
        [] ~(infinite /\ (IsZero(e, f, a) \/ IsZero(e, f, b)))
             /\ (\E o \in {a, b, c} : IsNan(e, f, o)) -> NanOf(e, f, {a, b, c})
        [] OTHER ->
             IF infinite /\ IsInf(e, f, c) /\ ps # cs THEN Invalid(e, f)
             ELSE IF infinite THEN Exactly(Sign(e, f, ps) + Inf(e, f))
             ELSE IF IsInf(e, f, c) THEN Exactly(Sign(e, f, cs) + Inf(e, f))
             ELSE IF sum = 0
             THEN Exactly(Sign(e, f, IF ps = cs THEN ps ELSE rounding = "Down"))
             ELSE Rounded(e, f, sum < 0,
                          [num |-> IF sum < 0 THEN -sum ELSE sum, den |-> one, root |-> FALSE],
                          rounding)

One(e, f) == (2^(e - 1) - 1) * 2^f

(* Sum, difference and product are fused operations with a neutral third   *)
(* operand.                                                                *)
Sum(e, f, a, b, rounding) ==
  FusedMultiplyAdd(e, f, a, One(e, f), b, FALSE, FALSE, rounding)
Difference(e, f, a, b, rounding) ==
  FusedMultiplyAdd(e, f, a, One(e, f), b, FALSE, TRUE, rounding)
Product(e, f, a, b, rounding) ==
  FusedMultiplyAdd(e, f, a, b, Sign(e, f, Negative(e, f, a) # Negative(e, f, b)),
                   FALSE, FALSE, rounding)

Quotient(e, f, a, b, rounding) ==
  LET negative == Negative(e, f, a) # Negative(e, f, b)
      infinite == Exactly(Sign(e, f, negative) + Inf(e, f))
  IN  IF IsNan(e, f, a) \/ IsNan(e, f, b) THEN NanOf(e, f, {a, b})
      ELSE IF IsInf(e, f, a) THEN IF IsInf(e, f, b) THEN Invalid(e, f) ELSE infinite
      ELSE IF IsZero(e, f, b)
      THEN IF IsZero(e, f, a) THEN Invalid(e, f) ELSE [infinite EXCEPT !.flags = {"DZ"}]
      ELSE IF IsZero(e, f, a) \/ IsInf(e, f, b) THEN Exactly(Sign(e, f, negative))
      ELSE Rounded(e, f, negative,
                   [num |-> Units(f, Pattern(e, f, a)) * UnitsPerOne(e, f),
                    den |-> Units(f, Pattern(e, f, b)), root |-> FALSE], rounding)

SquareRoot(e, f, a, rounding) ==
  IF IsNan(e, f, a) THEN NanOf(e, f, {a})
  ELSE IF IsZero(e, f, a) THEN Exactly(a)
  ELSE IF Negative(e, f, a) THEN Invalid(e, f)
  ELSE IF IsInf(e, f, a) THEN Exactly(a)
  ELSE Rounded(e, f, FALSE, [num |-> Units(f, Pattern(e, f, a)) * UnitsPerOne(e, f),
                             den |-> 1, root |-> TRUE], rounding)

(* An integer, and a value of another format d/g, in format e/f.           *)
FromInteger(e, f, n, rounding) ==
  IF n = 0 THEN Exactly(0)
  ELSE Rounded(e, f, n < 0, [num |-> (IF n < 0 THEN -n ELSE n) * UnitsPerOne(e, f),
                             den |-> 1, root |-> FALSE], rounding)

Converted(e, f, d, g, a, rounding) ==
  IF IsNan(d, g, a)
  THEN [bits |-> Nan(e, f), flags |-> IF IsSignaling(d, g, a) THEN {"NV"} ELSE {}]
  ELSE IF IsInf(d, g, a) THEN Exactly(Sign(e, f, Negative(d, g, a)) + Inf(e, f))
  ELSE IF IsZero(d, g, a) THEN Exactly(Sign(e, f, Negative(d, g, a)))
  ELSE Rounded(e, f, Negative(d, g, a),
               [num |-> Units(g, Pattern(d, g, a)) * UnitsPerOne(e, f),
                den |-> UnitsPerOne(d, g), root |-> FALSE], rounding)

(* The integers low..high nearest to a: out of range values and NaN        *)
(* saturate and are invalid.                                               *)
ToInteger(e, f, a, low, high, rounding) ==
  LET one == UnitsPerOne(e, f)
      negative == Negative(e, f, a)
      units == Units(f, Pattern(e, f, a))
      floor == units \div one
      twice == 2 * (units - floor * one)
      up == \/ AwayFromZero(rounding, negative) /\ twice > 0
            \/ Nearest(rounding) /\ twice > one
            \/ Nearest(rounding) /\ twice = one
                 /\ (floor % 2 = 1 \/ rounding # "NearestTiesToEven")
      magnitude == IF up THEN floor + 1 ELSE floor
      integer == IF negative THEN -magnitude ELSE magnitude
  IN  IF IsNan(e, f, a) THEN [value |-> high, flags |-> {"NV"}]
      ELSE IF IsInf(e, f, a) \/ integer \notin low..high
      THEN [value |-> IF negative THEN low ELSE high, flags |-> {"NV"}]
      ELSE [value |-> integer, flags |-> IF twice = 0 THEN {} ELSE {"NX"}]

(* The order of the represented numbers; zeros are equal.                  *)
Number(e, f, a) ==
  IF Negative(e, f, a) THEN -Units(f, Pattern(e, f, a)) ELSE Units(f, Pattern(e, f, a))
=============================================================================
