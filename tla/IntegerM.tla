------------------------------ MODULE IntegerM ------------------------------
(***************************************************************************)
(* The M extension, src/core/integer_m.cpp: products from half-width limbs *)
(* and signed division from unsigned magnitudes, on bit patterns that are  *)
(* natural numbers below 2^XLEN.  A word is half a register.               *)
(***************************************************************************)
EXTENDS Integers

CONSTANT WordBits    \* 32 in the code

ASSUME WordAssumption == WordBits \in Nat \ {0}

XLEN == 2 * WordBits
Register == 0..(2^XLEN - 1)

mut_multiply_unsigned_64(lhs, rhs) ==
  LET limb == 2^WordBits
      low_low == (lhs % limb) * (rhs % limb)
      low_high == (lhs % limb) * (rhs \div limb)
      high_low == (lhs \div limb) * (rhs % limb)
      high_high == (lhs \div limb) * (rhs \div limb)
      middle == ((low_low \div limb) + (low_high % limb) + (high_low % limb)) % limb
  IN  [low |-> (low_low % limb) + ((middle * limb) % 2^XLEN),
       high |-> high_high + (low_high \div limb) + (high_low \div limb) + (middle \div limb)]

(* The two halves of the product; no partial sum exceeds a register.       *)
multiply_unsigned_64(lhs, rhs) ==
  LET limb == 2^WordBits
      low_low == (lhs % limb) * (rhs % limb)
      low_high == (lhs % limb) * (rhs \div limb)
      high_low == (lhs \div limb) * (rhs % limb)
      high_high == (lhs \div limb) * (rhs \div limb)
      middle == ((low_low \div limb) + (low_high % limb) + (high_low % limb)) % 2^XLEN
  IN  [low |-> (low_low % limb) + ((middle * limb) % 2^XLEN),
       high |-> (high_high + (low_high \div limb) + (high_low \div limb) + (middle \div limb))
                  % 2^XLEN]

twos_complement_negate(value, width) == (2^width - value) % 2^width

(* Division by zero gives all ones and the dividend; the most negative     *)
(* number divided by -1 gives itself.                                      *)
divide_signed(dividend, divisor, width) ==
  LET negative(value) == value >= 2^(width - 1)
      magnitude(value) == IF negative(value) THEN twos_complement_negate(value, width) ELSE value
      quotient == magnitude(dividend) \div magnitude(divisor)
      remainder == magnitude(dividend) % magnitude(divisor)
  IN  IF divisor = 0 THEN [quotient |-> 2^width - 1, remainder |-> dividend]
      ELSE [quotient |-> IF negative(dividend) # negative(divisor)
                         THEN twos_complement_negate(quotient, width) ELSE quotient,
            remainder |-> IF negative(dividend)
                          THEN twos_complement_negate(remainder, width) ELSE remainder]

divide_unsigned(dividend, divisor, width) ==
  IF divisor = 0 THEN [quotient |-> 2^width - 1, remainder |-> dividend]
  ELSE [quotient |-> dividend \div divisor, remainder |-> dividend % divisor]

extend_word(value) ==
  IF value >= 2^(WordBits - 1) THEN 2^XLEN - 2^WordBits + value ELSE value

execute_doubleword(function3, lhs, rhs) ==
  LET product == multiply_unsigned_64(lhs, rhs)
      signed(value, correction) == IF value >= 2^(XLEN - 1) THEN correction ELSE 0
  IN  CASE function3 = "MUL" -> product.low
        [] function3 = "MULH" ->
             (product.high - signed(lhs, rhs) - signed(rhs, lhs)) % 2^XLEN
        [] function3 = "MULHSU" -> (product.high - signed(lhs, rhs)) % 2^XLEN
        [] function3 = "MULHU" -> product.high
        [] function3 = "DIV" -> divide_signed(lhs, rhs, XLEN).quotient
        [] function3 = "DIVU" -> divide_unsigned(lhs, rhs, XLEN).quotient
        [] function3 = "REM" -> divide_signed(lhs, rhs, XLEN).remainder
        [] function3 = "REMU" -> divide_unsigned(lhs, rhs, XLEN).remainder

execute_word(function3, lhs, rhs) ==
  LET lhs_word == lhs % 2^WordBits
      rhs_word == rhs % 2^WordBits
  IN  extend_word(
        CASE function3 = "MUL" -> (lhs_word * rhs_word) % 2^WordBits
          [] function3 = "DIV" -> divide_signed(lhs_word, rhs_word, WordBits).quotient
          [] function3 = "DIVU" -> divide_unsigned(lhs_word, rhs_word, WordBits).quotient
          [] function3 = "REM" -> divide_signed(lhs_word, rhs_word, WordBits).remainder
          [] function3 = "REMU" -> divide_unsigned(lhs_word, rhs_word, WordBits).remainder)

-----------------------------------------------------------------------------
(* What the instructions promise, in exact integers.                       *)

AsSigned(value, width) == IF value >= 2^(width - 1) THEN value - 2^width ELSE value

(* dividend = divisor * quotient + remainder, with a remainder that is     *)
(* smaller than the divisor and has the dividend's sign, modulo 2^width;   *)
(* the exceptions are division by zero and overflow.                       *)
DividesTo(dividend, divisor, quotient, remainder, width) ==
  LET Abs(n) == IF n < 0 THEN -n ELSE n
  IN  \/ divisor = 0 /\ quotient = -1 /\ remainder = dividend
      \/ /\ dividend = -(2^(width - 1)) /\ divisor = -1
         /\ quotient = dividend /\ remainder = 0
      \/ /\ divisor # 0 /\ dividend = divisor * quotient + remainder
         /\ Abs(remainder) < Abs(divisor)
         /\ remainder # 0 => (remainder < 0) = (dividend < 0)

DoublewordExact(lhs, rhs) ==
  LET a == AsSigned(lhs, XLEN)
      b == AsSigned(rhs, XLEN)
      Do(function3) == execute_doubleword(function3, lhs, rhs)
  IN  /\ AsSigned(Do("MULH"), XLEN) * 2^XLEN + Do("MUL") = a * b
      /\ AsSigned(Do("MULHSU"), XLEN) * 2^XLEN + Do("MUL") = a * rhs
      /\ Do("MULHU") * 2^XLEN + Do("MUL") = lhs * rhs
      /\ DividesTo(a, b, AsSigned(Do("DIV"), XLEN), AsSigned(Do("REM"), XLEN), XLEN)
      /\ rhs # 0 => /\ Do("DIVU") * rhs + Do("REMU") = lhs
                    /\ Do("REMU") < rhs
      /\ rhs = 0 => Do("DIVU") = 2^XLEN - 1 /\ Do("REMU") = lhs

(* Word results are sign-extended, the unsigned ones as well.              *)
WordExact(lhs, rhs) ==
  LET p == lhs % 2^WordBits
      q == rhs % 2^WordBits
      a == AsSigned(p, WordBits)
      b == AsSigned(q, WordBits)
      Do(function3) == AsSigned(execute_word(function3, lhs, rhs), XLEN)
      Narrow(function3) == Do(function3) % 2^WordBits
      fits == -(2^(WordBits - 1))..(2^(WordBits - 1) - 1)
  IN  /\ \A function3 \in {"MUL", "DIV", "DIVU", "REM", "REMU"} : Do(function3) \in fits
      /\ Narrow("MUL") = (a * b) % 2^WordBits
      /\ DividesTo(a, b, Do("DIV"), Do("REM"), WordBits)
      /\ q # 0 => Narrow("DIVU") * q + Narrow("REMU") = p /\ Narrow("REMU") < q
      /\ q = 0 => Narrow("DIVU") = 2^WordBits - 1 /\ Narrow("REMU") = p
=============================================================================
