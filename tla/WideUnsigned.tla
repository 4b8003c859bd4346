---------------------------- MODULE WideUnsigned ----------------------------
(***************************************************************************)
(* The fixed-width integers the floating-point operations compute with,    *)
(* class WideUnsigned of src/core/soft_float_arithmetic.cpp: kWideLimbs    *)
(* limbs of LimbBits bits, the least significant first.  Limb arithmetic   *)
(* wraps, so that carry and borrow have to be recovered by comparison.     *)
(***************************************************************************)
EXTENDS Integers

CONSTANTS
  kWideLimbs,   \* 72 in the code
  LimbBits      \* 64 in the code

ASSUME WideAssumption == kWideLimbs \in Nat \ {0} /\ LimbBits \in Nat \ {0}

Index == 0..(kWideLimbs - 1)
LimbBase == 2^LimbBits
WideBits == kWideLimbs * LimbBits
Wide == [Index -> 0..(LimbBase - 1)]

wide_zero(w) == \A i \in Index : w[i] = 0

LimbLength(limb) == CHOOSE n \in 0..LimbBits : limb < 2^n /\ (n = 0 \/ limb >= 2^(n - 1))

wide_bit_length(w) ==
  IF wide_zero(w) THEN 0
  ELSE LET top == CHOOSE i \in Index : w[i] # 0 /\ \A j \in Index : j > i => w[j] = 0
       IN  top * LimbBits + LimbLength(w[top])

wide_bit(w, index) ==
  index < WideBits /\ (w[index \div LimbBits] \div 2^(index % LimbBits)) % 2 = 1

set_bit(w, index) ==
  IF index < WideBits /\ ~wide_bit(w, index)
  THEN [w EXCEPT ![index \div LimbBits] = @ + 2^(index % LimbBits)]
  ELSE w

shift_left(w, amount) ==
  LET words == amount \div LimbBits
      bits == amount % LimbBits
  IN  [i \in Index |->
        IF amount >= WideBits \/ i < words THEN 0
        ELSE ((w[i - words] * 2^bits) % LimbBase)
             + (IF bits # 0 /\ i > words THEN w[i - words - 1] \div 2^(LimbBits - bits) ELSE 0)]

shift_right(w, amount) ==
  LET words == amount \div LimbBits
      bits == amount % LimbBits
  IN  [i \in Index |->
        IF amount >= WideBits \/ i + words >= kWideLimbs THEN 0
        ELSE (w[i + words] \div 2^bits)
             + (IF bits # 0 /\ i + words + 1 < kWideLimbs
                THEN (w[i + words + 1] * 2^(LimbBits - bits)) % LimbBase ELSE 0)]

wide_any_low_bits(w, count) ==
  LET bounded == IF count < WideBits THEN count ELSE WideBits
      whole_words == bounded \div LimbBits
      remainder == bounded % LimbBits
  IN  \/ \E i \in Index : i < whole_words /\ w[i] # 0
      \/ remainder # 0 /\ whole_words < kWideLimbs /\ w[whole_words] % 2^remainder # 0

(* The most significant limb that differs decides.                         *)
compare(w, other) ==
  IF w = other THEN 0
  ELSE LET i == CHOOSE i \in Index : w[i] # other[i] /\ \A j \in Index : j > i => w[j] = other[j]
       IN  IF w[i] < other[i] THEN -1 ELSE 1

(* Carry[i] enters limb i: either addition of the limb below may wrap.     *)
add(w, other) ==
  LET Carry[i \in 0..kWideLimbs] ==
        IF i = 0 THEN 0
        ELSE LET first == (w[i - 1] + other[i - 1]) % LimbBase
                 result == (first + Carry[i - 1]) % LimbBase
             IN  IF first < w[i - 1] \/ result < first THEN 1 ELSE 0
  IN  [i \in Index |-> (w[i] + other[i] + Carry[i]) % LimbBase]

(* Adding the borrow to the subtrahend may wrap too.                       *)
subtract(w, other) ==
  LET Borrow[i \in 0..kWideLimbs] ==
        IF i = 0 THEN 0
        ELSE LET subtrahend == (other[i - 1] + Borrow[i - 1]) % LimbBase
             IN  IF subtrahend < other[i - 1] \/ w[i - 1] < subtrahend THEN 1 ELSE 0
  IN  [i \in Index |-> (w[i] - other[i] - Borrow[i]) % LimbBase]

-----------------------------------------------------------------------------
(* The number a wide value stands for, and what the operations promise.    *)

ValueOf(w) ==
  LET Low[i \in 0..kWideLimbs] == IF i = 0 THEN 0 ELSE Low[i - 1] + w[i - 1] * LimbBase^(i - 1)
  IN  Low[kWideLimbs]

WideUnaryExact(w) ==
  LET v == ValueOf(w) IN
  /\ wide_zero(w) = (v = 0)
  /\ v < 2^wide_bit_length(w) /\ (v # 0 => v >= 2^(wide_bit_length(w) - 1))
  /\ \A n \in 0..(WideBits + 1) :
       /\ wide_bit(w, n) = ((v \div 2^n) % 2 = 1)
       /\ wide_any_low_bits(w, n) = (v % 2^n # 0)
       /\ ValueOf(shift_left(w, n)) = (v * 2^n) % 2^WideBits
       /\ ValueOf(shift_right(w, n)) = v \div 2^n
       /\ n < WideBits => ValueOf(set_bit(w, n)) = IF (v \div 2^n) % 2 = 1 THEN v ELSE v + 2^n

WideBinaryExact(w, other) ==
  LET a == ValueOf(w)
      b == ValueOf(other)
  IN  /\ compare(w, other) = (IF a < b THEN -1 ELSE IF a = b THEN 0 ELSE 1)
      /\ ValueOf(add(w, other)) = (a + b) % 2^WideBits
      /\ ValueOf(subtract(w, other)) = (a - b) % 2^WideBits
=============================================================================
