----------------------------- MODULE SoftFloat -----------------------------
(***************************************************************************)
(* The software floating point of src/core/soft_float_arithmetic.cpp and   *)
(* src/core/soft_float_conversion.cpp.  Every operation unpacks its        *)
(* operands, computes an exact integer magnitude (or one with a sticky     *)
(* last bit) and hands it to round_and_pack, which alone rounds, encodes   *)
(* and raises flags.                                                       *)
(*                                                                         *)
(* A bit pattern is a natural number.  The widths of the two formats are   *)
(* constants, 8/23 and 11/52 in the code.  A WideUnsigned is a natural     *)
(* number here; module WideUnsigned has its limbs.  Flags are a set.       *)
(***************************************************************************)
EXTENDS Integers

CONSTANTS
  SingleExponentBits, SingleFractionBits,
  DoubleExponentBits, DoubleFractionBits,
  DivideGuardBits     \* extra quotient bits of floating_divide, 128

ASSUME FormatAssumption ==
  /\ SingleExponentBits \in Nat \ {0, 1} /\ SingleFractionBits \in Nat \ {0, 1}
  /\ DoubleExponentBits > SingleExponentBits /\ DoubleFractionBits >= SingleFractionBits
  /\ DivideGuardBits > DoubleFractionBits + 2

FloatingFormat == {"Single", "Double"}
FloatingRoundingMode ==
  {"NearestTiesToEven", "TowardZero", "Down", "Up", "NearestTiesToMaximumMagnitude"}
FloatingExceptionFlag == {"NV", "DZ", "OF", "UF", "NX"}

decode_rounding_mode(encoded) ==
  CASE encoded = 0 -> "NearestTiesToEven" [] encoded = 1 -> "TowardZero"
    [] encoded = 2 -> "Down" [] encoded = 3 -> "Up"
    [] encoded = 4 -> "NearestTiesToMaximumMagnitude" [] OTHER -> "reserved"

Format(exponent_bits, fraction_bits) ==
  [exponent_bits |-> exponent_bits, fraction_bits |-> fraction_bits,
   bias |-> 2^(exponent_bits - 1) - 1,
   minimum_exponent |-> 2 - 2^(exponent_bits - 1),
   maximum_exponent |-> 2^(exponent_bits - 1) - 1,
   sign_mask |-> 2^(exponent_bits + fraction_bits),
   canonical_nan |-> (2^exponent_bits - 1) * 2^fraction_bits + 2^(fraction_bits - 1)]

format_of(name) ==
  IF name = "Single" THEN Format(SingleExponentBits, SingleFractionBits)
                     ELSE Format(DoubleExponentBits, DoubleFractionBits)

exponent_all_ones(format) == 2^format.exponent_bits - 1
sign_bit(format, sign) == IF sign THEN format.sign_mask ELSE 0
signed_zero(format, sign) == sign_bit(format, sign)
infinity(format, sign) ==
  sign_bit(format, sign) + exponent_all_ones(format) * 2^format.fraction_bits

Result(bits, flags) == [bits |-> bits, flags |-> flags]
invalid_result(format) == Result(format.canonical_nan, {"NV"})

(* The bits of a WideUnsigned that is in range.                            *)
bit_length(value) ==
  CHOOSE n \in 0..30 : value < 2^n /\ (n = 0 \/ value >= 2^(n - 1))
bit(value, index) == (value \div 2^index) % 2
any_low_bits(value, count) == value % 2^count # 0

-----------------------------------------------------------------------------
unpack(format, bits) ==
  LET exponent_field == (bits \div 2^format.fraction_bits) % 2^format.exponent_bits
      fraction == bits % 2^format.fraction_bits
      special == exponent_field = exponent_all_ones(format)
      Unpacked(category, significand, exponent) ==
        [sign |-> bits >= format.sign_mask, category |-> category,
         significand |-> significand, exponent |-> exponent]
  IN  CASE special /\ fraction = 0 -> Unpacked("Infinity", 0, 0)
        [] special /\ fraction # 0 ->
             Unpacked(IF bit(fraction, format.fraction_bits - 1) = 1
                      THEN "QuietNan" ELSE "SignalingNan", 0, 0)
        [] exponent_field = 0 /\ fraction = 0 -> Unpacked("Zero", 0, 0)
        [] exponent_field = 0 /\ fraction # 0 ->
             Unpacked("Finite", fraction, format.minimum_exponent - format.fraction_bits)
        [] OTHER ->
             Unpacked("Finite", 2^format.fraction_bits + fraction,
                      exponent_field - format.bias - format.fraction_bits)

is_nan(operand) == operand.category \in {"QuietNan", "SignalingNan"}
nan_flags(operands) ==
  IF \E o \in operands : o.category = "SignalingNan" THEN {"NV"} ELSE {}
nan_result(format, operands) == Result(format.canonical_nan, nan_flags(operands))

-----------------------------------------------------------------------------
(* Rounding.                                                               *)

should_increment(rounding, sign, halfway, lower, odd) ==
  CASE rounding = "NearestTiesToEven" -> halfway /\ (lower \/ odd)
    [] rounding = "TowardZero" -> FALSE
    [] rounding = "Down" -> sign /\ (halfway \/ lower)
    [] rounding = "Up" -> ~sign /\ (halfway \/ lower)
    [] OTHER -> halfway

(* [value, inexact]; half and sticky are taken before the bits are lost.   *)
rounded_right_shift(value, shift, sign, rounding) ==
  LET halfway == bit(value, shift - 1) = 1
      lower == any_low_bits(value, shift - 1)
      kept == value \div 2^shift
      increment == should_increment(rounding, sign, halfway, lower, kept % 2 = 1)
  IN  IF shift = 0 THEN [value |-> value, inexact |-> FALSE]
      ELSE [value |-> IF increment THEN kept + 1 ELSE kept, inexact |-> halfway \/ lower]

(* A carry out of the rounded significand moves to the exponent.           *)
Renormalized(rounded, precision, exponent) ==
  LET carry == bit_length(rounded.value) > precision
  IN  [value |-> IF carry THEN rounded.value \div 2 ELSE rounded.value,
       exponent |-> IF carry THEN exponent + 1 ELSE exponent,
       inexact |-> rounded.inexact]

(* The magnitude with precision bits, as if the exponent had no bounds.    *)
RoundToPrecision(format, sign, magnitude, exponent, rounding) ==
  LET precision == format.fraction_bits + 1
      length == bit_length(magnitude)
  IN  Renormalized(IF length > precision
                   THEN rounded_right_shift(magnitude, length - precision, sign, rounding)
                   ELSE [value |-> magnitude * 2^(precision - length), inexact |-> FALSE],
                   precision, exponent + length - 1)

mut_tiny_after_unbounded_rounding(format, sign, magnitude, exponent, rounding) ==
  exponent + bit_length(magnitude) - 1 < format.minimum_exponent

(* Underflow is detected after rounding to an unbounded exponent.          *)
tiny_after_unbounded_rounding(format, sign, magnitude, exponent, rounding) ==
  RoundToPrecision(format, sign, magnitude, exponent, rounding).exponent
    < format.minimum_exponent

overflow_to_infinity(rounding, sign) ==
  \/ rounding \in {"NearestTiesToEven", "NearestTiesToMaximumMagnitude"}
  \/ rounding = "Up" /\ ~sign
  \/ rounding = "Down" /\ sign

InexactFlags(inexact, tiny) ==
  IF inexact THEN {"NX"} \cup (IF tiny THEN {"UF"} ELSE {}) ELSE {}

(* A significand rounded to full precision: it may be out of range.        *)
PackNormal(format, sign, normal, tiny, rounding) ==
  IF normal.exponent > format.maximum_exponent
  THEN Result(IF overflow_to_infinity(rounding, sign) THEN infinity(format, sign)
              ELSE infinity(format, sign) - 1, {"OF", "NX"})
  ELSE Result(sign_bit(format, sign)
                + (normal.exponent + format.bias) * 2^format.fraction_bits
                + (normal.value % 2^format.fraction_bits),
              InexactFlags(normal.inexact, tiny))

(* One rounded to the unit of subnormals: it may become the least normal.  *)
PackSubnormal(format, sign, subnormal, tiny) ==
  Result(sign_bit(format, sign)
           + (IF subnormal.value >= 2^format.fraction_bits
              THEN 2^format.fraction_bits ELSE subnormal.value),
         InexactFlags(subnormal.inexact, tiny))

(* magnitude * 2^exponent, rounded and encoded.                            *)
round_and_pack(format, sign, magnitude, exponent, rounding) ==
  LET result_exponent == exponent + bit_length(magnitude) - 1
      tiny == tiny_after_unbounded_rounding(format, sign, magnitude, exponent, rounding)
      unit_exponent == format.minimum_exponent - format.fraction_bits
  IN  CASE magnitude = 0 -> Result(signed_zero(format, sign), {})
        [] magnitude # 0 /\ result_exponent >= format.minimum_exponent ->
             PackNormal(format, sign,
                        RoundToPrecision(format, sign, magnitude, exponent, rounding),
                        tiny, rounding)
        [] OTHER ->
             PackSubnormal(format, sign,
                           IF exponent < unit_exponent
                           THEN rounded_right_shift(magnitude, unit_exponent - exponent,
                                                    sign, rounding)
                           ELSE [value |-> magnitude * 2^(exponent - unit_exponent),
                                 inexact |-> FALSE],
                           tiny)

-----------------------------------------------------------------------------
(* Significand arithmetic, one bit or one pair of bits at a time.          *)

multiply_significands(lhs, rhs) ==
  LET Sum[n \in 0..bit_length(rhs)] ==
        IF n = 0 THEN 0
        ELSE Sum[n - 1] + bit(rhs, n - 1) * lhs * 2^(n - 1)
  IN  Sum[bit_length(rhs)]

(* Restoring division of numerator * 2^precision.                          *)
divide_significands(numerator, denominator, precision) ==
  LET dividend == numerator * 2^precision
      Step[index \in 0..bit_length(dividend)] ==
        IF index = bit_length(dividend) THEN [quotient |-> 0, remainder |-> 0]
        ELSE LET before == Step[index + 1]
                 remainder == 2 * before.remainder + bit(dividend, index)
             IN  IF remainder >= denominator
                 THEN [quotient |-> before.quotient + 2^index,
                       remainder |-> remainder - denominator]
                 ELSE [quotient |-> before.quotient, remainder |-> remainder]
  IN  Step[0]

(* Digit-by-digit root of significand * 4^shift_pairs.                     *)
square_root_significand(significand, shift_pairs) ==
  LET radicand == significand * 4^shift_pairs
      pairs == (bit_length(radicand) + 1) \div 2
      Step[pair \in 0..pairs] ==
        IF pair = pairs THEN [root |-> 0, remainder |-> 0]
        ELSE LET before == Step[pair + 1]
                 remainder == 4 * before.remainder + ((radicand \div 4^pair) % 4)
                 trial == 4 * before.root + 1
             IN  IF remainder >= trial
                 THEN [root |-> 2 * before.root + 1, remainder |-> remainder - trial]
                 ELSE [root |-> 2 * before.root, remainder |-> remainder]
  IN  Step[0]

(* An extra last bit says whether the infinite tail is not zero.           *)
WithSticky(value, remainder) == 2 * value + (IF remainder # 0 THEN 1 ELSE 0)

-----------------------------------------------------------------------------
(* Arithmetic.                                                             *)

(* Two finite non-zero terms [sign, significand, exponent].                *)
AddMagnitudes(format, lhs, rhs, rounding) ==
  LET common_exponent == IF lhs.exponent < rhs.exponent THEN lhs.exponent ELSE rhs.exponent
      left == lhs.significand * 2^(lhs.exponent - common_exponent)
      right == rhs.significand * 2^(rhs.exponent - common_exponent)
  IN  IF lhs.sign # rhs.sign /\ left = right
      THEN Result(signed_zero(format, rounding = "Down"), {})
      ELSE round_and_pack(format, IF left >= right THEN lhs.sign ELSE rhs.sign,
                          CASE lhs.sign = rhs.sign -> left + right
                            [] lhs.sign # rhs.sign /\ left >= right -> left - right
                            [] lhs.sign # rhs.sign /\ left < right -> right - left,
                          common_exponent, rounding)

PackTerm(format, term, rounding) ==
  round_and_pack(format, term.sign, term.significand, term.exponent, rounding)

(* The sum of two terms that are finite or zero.                           *)
add_finite(format, lhs, rhs, rounding) ==
  IF lhs.category = "Zero" /\ rhs.category = "Zero"
  THEN Result(signed_zero(format, IF lhs.sign = rhs.sign THEN lhs.sign
                                  ELSE rounding = "Down"), {})
  ELSE IF "Zero" \in {lhs.category, rhs.category}
  THEN PackTerm(format, IF lhs.category = "Zero" THEN rhs ELSE lhs, rounding)
  ELSE AddMagnitudes(format, lhs, rhs, rounding)

add_unpacked(format, lhs, rhs, rounding) ==
  LET infinite == {o \in {lhs, rhs} : o.category = "Infinity"}
  IN  CASE is_nan(lhs) \/ is_nan(rhs) -> nan_result(format, {lhs, rhs})
        [] ~is_nan(lhs) /\ ~is_nan(rhs) /\ infinite # {} ->
             IF \E o, p \in infinite : o.sign # p.sign THEN invalid_result(format)
             ELSE Result(infinity(format, \E o \in infinite : o.sign), {})
        [] OTHER -> add_finite(format, lhs, rhs, rounding)

floating_add(name, lhs, rhs, rounding) ==
  LET format == format_of(name)
  IN  add_unpacked(format, unpack(format, lhs), unpack(format, rhs), rounding)

(* rhs with its sign bit inverted.                                         *)
flip_sign(format, bits) ==
  IF bits >= format.sign_mask THEN bits - format.sign_mask ELSE bits + format.sign_mask

floating_subtract(name, lhs, rhs, rounding) ==
  floating_add(name, lhs, flip_sign(format_of(name), rhs), rounding)

multiply_unpacked(format, lhs, rhs, rounding) ==
  LET sign == lhs.sign # rhs.sign
      zero == "Zero" \in {lhs.category, rhs.category}
      infinite == "Infinity" \in {lhs.category, rhs.category}
  IN  IF is_nan(lhs) \/ is_nan(rhs) THEN nan_result(format, {lhs, rhs})
      ELSE IF zero /\ infinite THEN invalid_result(format)
      ELSE IF infinite THEN Result(infinity(format, sign), {})
      ELSE IF zero THEN Result(signed_zero(format, sign), {})
      ELSE round_and_pack(format, sign,
                          multiply_significands(lhs.significand, rhs.significand),
                          lhs.exponent + rhs.exponent, rounding)

floating_multiply(name, lhs, rhs, rounding) ==
  LET format == format_of(name)
  IN  multiply_unpacked(format, unpack(format, lhs), unpack(format, rhs), rounding)

divide_unpacked(format, lhs, rhs, rounding) ==
  LET sign == lhs.sign # rhs.sign
      precision == format.fraction_bits + DivideGuardBits
      division == divide_significands(lhs.significand, rhs.significand, precision)
  IN  IF is_nan(lhs) \/ is_nan(rhs) THEN nan_result(format, {lhs, rhs})
      ELSE IF lhs.category = rhs.category /\ lhs.category \in {"Zero", "Infinity"}
      THEN invalid_result(format)
      ELSE IF lhs.category = "Infinity" THEN Result(infinity(format, sign), {})
      ELSE IF rhs.category = "Infinity" THEN Result(signed_zero(format, sign), {})
      ELSE IF rhs.category = "Zero" THEN Result(infinity(format, sign), {"DZ"})
      ELSE IF lhs.category = "Zero" THEN Result(signed_zero(format, sign), {})
      ELSE round_and_pack(format, sign, WithSticky(division.quotient, division.remainder),
                          lhs.exponent - rhs.exponent - precision - 1, rounding)

floating_divide(name, lhs, rhs, rounding) ==
  LET format == format_of(name)
  IN  divide_unpacked(format, unpack(format, lhs), unpack(format, rhs), rounding)

root_unpacked(format, operand, rounding) ==
  LET odd == operand.exponent % 2
      significand == operand.significand * 2^odd
      precision == format.fraction_bits + 5
      source_root_bits == (bit_length(significand) + 1) \div 2
      shift_pairs == IF precision > source_root_bits THEN precision - source_root_bits ELSE 0
      square_root == square_root_significand(significand, shift_pairs)
  IN  IF is_nan(operand) THEN nan_result(format, {operand})
      ELSE IF operand.category = "Zero" THEN Result(signed_zero(format, operand.sign), {})
      ELSE IF operand.sign THEN invalid_result(format)
      ELSE IF operand.category = "Infinity" THEN Result(infinity(format, FALSE), {})
      ELSE round_and_pack(format, FALSE, WithSticky(square_root.root, square_root.remainder),
                          (operand.exponent - odd) \div 2 - shift_pairs - 1, rounding)

floating_square_root(name, operand, rounding) ==
  LET format == format_of(name) IN root_unpacked(format, unpack(format, operand), rounding)

(* One rounding for product and sum.  An invalid product is reported even  *)
(* when the addend is a quiet NaN.                                         *)
fused_unpacked(format, lhs, rhs, addend, sign, rounding) ==
  LET categories == {lhs.category, rhs.category}
      product == [sign |-> sign,
                  category |-> IF "Zero" \in categories THEN "Zero" ELSE "Finite",
                  significand |-> multiply_significands(lhs.significand, rhs.significand),
                  exponent |-> lhs.exponent + rhs.exponent]
  IN  IF categories = {"Zero", "Infinity"} THEN invalid_result(format)
      ELSE IF \E o \in {lhs, rhs, addend} : is_nan(o)
      THEN nan_result(format, {lhs, rhs, addend})
      ELSE IF "Infinity" \in categories
      THEN IF addend.category = "Infinity" /\ sign # addend.sign
           THEN invalid_result(format) ELSE Result(infinity(format, sign), {})
      ELSE IF addend.category = "Infinity" THEN Result(infinity(format, addend.sign), {})
      ELSE add_finite(format, product, addend, rounding)

floating_fused_multiply_add(name, multiplicand, multiplier, addend, negate_product, negate_addend, rounding) ==
  LET format == format_of(name)
      lhs == unpack(format, multiplicand)
      rhs == unpack(format, multiplier)
  IN  fused_unpacked(format, lhs, rhs,
                     [unpack(format, addend) EXCEPT !.sign = (@ # negate_addend)],
                     (lhs.sign # rhs.sign) # negate_product, rounding)

-----------------------------------------------------------------------------
(* Sign injection, comparison, classification.                             *)

floating_sign_inject(name, magnitude, sign_source, operation) ==
  LET format == format_of(name)
      first == magnitude >= format.sign_mask
      second == sign_source >= format.sign_mask
      sign == CASE operation = 0 -> second
                [] operation = 1 -> ~second
                [] operation = 2 -> first # second
  IN  (magnitude % format.sign_mask) + sign_bit(format, sign)

numeric_less(format, lhs, rhs) ==
  LET lhs_sign == lhs >= format.sign_mask
      rhs_sign == rhs >= format.sign_mask
  IN  /\ ~(lhs % format.sign_mask = 0 /\ rhs % format.sign_mask = 0)
      /\ IF lhs_sign # rhs_sign THEN lhs_sign
         ELSE IF lhs_sign THEN lhs > rhs ELSE lhs < rhs

numeric_equal(format, lhs, rhs) ==
  ~numeric_less(format, lhs, rhs) /\ ~numeric_less(format, rhs, lhs)

(* lhs and rhs are the unpacked operands of lhs_bits and rhs_bits.         *)
ordered_unpacked(format, lhs, rhs, lhs_bits, rhs_bits, maximum) ==
  LET flags == nan_flags({lhs, rhs})
      less == numeric_less(format, lhs_bits, rhs_bits)
      zeros == lhs.category = "Zero" /\ rhs.category = "Zero"
  IN  IF is_nan(lhs) /\ is_nan(rhs) THEN Result(format.canonical_nan, flags)
      ELSE IF is_nan(lhs) THEN Result(rhs_bits, flags)
      ELSE IF is_nan(rhs) THEN Result(lhs_bits, flags)
      ELSE IF zeros
      THEN Result(signed_zero(format, IF maximum THEN lhs.sign /\ rhs.sign
                                      ELSE lhs.sign \/ rhs.sign), {})
      ELSE IF numeric_equal(format, lhs_bits, rhs_bits) THEN Result(lhs_bits, {})
      ELSE Result(IF maximum = less THEN rhs_bits ELSE lhs_bits, {})

floating_minimum_maximum(name, lhs, rhs, maximum) ==
  LET format == format_of(name)
  IN  ordered_unpacked(format, unpack(format, lhs), unpack(format, rhs), lhs, rhs, maximum)

(* FEQ raises invalid for signaling NaNs only, FLT and FLE for every NaN.  *)
floating_compare(name, lhs, rhs, comparison) ==
  LET format == format_of(name)
      operands == {unpack(format, lhs), unpack(format, rhs)}
      less == numeric_less(format, lhs, rhs)
      equal == numeric_equal(format, lhs, rhs)
  IN  IF \E o \in operands : is_nan(o)
      THEN [value |-> FALSE,
            flags |-> IF comparison # "Equal" THEN {"NV"} ELSE nan_flags(operands)]
      ELSE [value |-> CASE comparison = "Equal" -> equal
                        [] comparison = "LessThan" -> less
                        [] comparison = "LessThanOrEqual" -> less \/ equal,
            flags |-> {}]

(* The index of the class bit.                                             *)
class_of(operand, subnormal) ==
  CASE operand.category = "Infinity" -> IF operand.sign THEN 0 ELSE 7
    [] operand.category = "Zero" -> IF operand.sign THEN 3 ELSE 4
    [] operand.category = "SignalingNan" -> 8
    [] operand.category = "QuietNan" -> 9
    [] operand.category = "Finite" /\ operand.sign -> IF subnormal THEN 2 ELSE 1
    [] operand.category = "Finite" /\ ~operand.sign -> IF subnormal THEN 5 ELSE 6

floating_classify(name, bits) ==
  LET format == format_of(name)
  IN  class_of(unpack(format, bits), (bits % format.sign_mask) < 2^format.fraction_bits)

-----------------------------------------------------------------------------
(* Conversion.                                                             *)

converted_unpacked(target, operand, rounding) ==
  CASE is_nan(operand) -> nan_result(target, {operand})
    [] operand.category = "Infinity" -> Result(infinity(target, operand.sign), {})
    [] operand.category = "Zero" -> Result(signed_zero(target, operand.sign), {})
    [] operand.category = "Finite" -> PackTerm(target, operand, rounding)

floating_convert_format(destination, source, bits, rounding) ==
  converted_unpacked(format_of(destination), unpack(format_of(source), bits), rounding)

floating_from_integer(destination, integer, unsigned_integer, width, rounding) ==
  LET operand == integer % 2^width
      sign == ~unsigned_integer /\ operand >= 2^(width - 1)
      magnitude == IF sign THEN 2^width - operand ELSE operand
  IN  round_and_pack(format_of(destination), sign, magnitude, 0, rounding)

invalid_integer_result(sign, unsigned_integer, width) ==
  [value |-> CASE unsigned_integer /\ sign -> 0
               [] unsigned_integer /\ ~sign -> 2^width - 1
               [] ~unsigned_integer /\ sign -> 2^(width - 1)
               [] ~unsigned_integer /\ ~sign -> 2^(width - 1) - 1,
   flags |-> {"NV"}]

round_to_integer_magnitude(magnitude, exponent, sign, rounding) ==
  IF exponent >= 0 THEN [value |-> magnitude * 2^exponent, inexact |-> FALSE]
  ELSE rounded_right_shift(magnitude, -exponent, sign, rounding)

(* A NaN saturates like a positive overflow, whatever its sign.            *)
integer_unpacked(operand, unsigned_integer, width, rounding) ==
  LET rounded == round_to_integer_magnitude(operand.significand, operand.exponent,
                                            operand.sign, rounding)
      invalid == invalid_integer_result(operand.sign, unsigned_integer, width)
      limit == IF unsigned_integer THEN IF operand.sign THEN 0 ELSE 2^width - 1
               ELSE IF operand.sign THEN 2^(width - 1) ELSE 2^(width - 1) - 1
  IN  IF is_nan(operand) THEN invalid_integer_result(FALSE, unsigned_integer, width)
      ELSE IF operand.category = "Infinity" THEN invalid
      ELSE IF operand.category = "Zero" THEN [value |-> 0, flags |-> {}]
      ELSE IF rounded.value > limit THEN invalid
      ELSE [value |-> IF operand.sign THEN (2^width - rounded.value) % 2^width
                      ELSE rounded.value,
            flags |-> IF rounded.inexact THEN {"NX"} ELSE {}]

floating_to_integer(source, bits, unsigned_integer, width, rounding) ==
  integer_unpacked(unpack(format_of(source), bits), unsigned_integer, width, rounding)
=============================================================================
