------------------------------- MODULE MCHart -------------------------------
(***************************************************************************)
(* The execution units of the hart.  A behaviour exercises one of them:    *)
(* the floating-point unit, the vector unit or the atomic instructions, as *)
(* state machines; or, for the units that only compute, one input of the   *)
(* integer unit, of the instruction front end (fetch and the expansion of  *)
(* compressed encodings) or of the wide integers under the soft float.     *)
(***************************************************************************)
EXTENDS FloatingUnit, IntegerCore, WideUnsigned, Compressed, Vector, Reservation

VARIABLES
  executing,   \* the unit
  input        \* the first operand of a unit that only computes

hartVars == <<executing, input, fpVars, vecVars, reservationVars>>

HartInit ==
  /\ FpInit /\ VecInit /\ ReservationInit
  /\ \/ executing \in {"floating", "vector", "atomic"} /\ input = 0
     \/ executing \in {"integer", "front end"} /\ input \in Register
     \/ executing = "wide" /\ input \in 0..(2^WideBits - 1)
  /\ executing # "atomic" => memory = [a \in Mapped |-> 0]

FloatingStep ==
  executing = "floating" /\ FpNext /\ UNCHANGED <<executing, input, vecVars, reservationVars>>

VectorStep ==
  executing = "vector" /\ VecNext /\ UNCHANGED <<executing, input, fpVars, reservationVars>>

AtomicStep ==
  executing = "atomic" /\ ReservationNext /\ UNCHANGED <<executing, input, fpVars, vecVars>>

HartSpec == HartInit /\ [][FloatingStep \/ VectorStep \/ AtomicStep]_hartVars

-----------------------------------------------------------------------------
(* Operands around the boundaries of word and double word.                 *)
SecondRegisters == {0, 1, 2, 3, 7, 8, 15, 16, 64, 120, 127, 128, 129, 200, 240, 247, 255}

LimbsOf(n) == [i \in Index |-> (n \div LimbBase^i) % LimbBase]

(* Every integer instruction, AMO operation and wide-integer operation     *)
(* computes the exact mathematical result modulo the register width, over  *)
(* every first operand: high halves of signed products from unsigned       *)
(* partial products, division at zero and at the most negative value,      *)
(* arithmetic shifts, sign-extended word results, carries and borrows that *)
(* run through several limbs.                                              *)
IntegerExact ==
  /\ executing = "integer" =>
       \A operand \in SecondRegisters :
         /\ DoublewordExact(input, operand) /\ WordExact(input, operand)
         /\ AluExact(input, operand)
         /\ AtomicExact(input, operand, XLEN) /\ AtomicExact(input, operand, WordBits)
  /\ executing = "wide" =>
       /\ WideUnaryExact(LimbsOf(input))
       /\ \A other \in Wide : WideBinaryExact(LimbsOf(input), other)

(* Every 16-bit encoding expands to the instruction the manual gives for   *)
(* it, immediates and registers included, or is refused just when it is    *)
(* reserved; and a fetch takes a second half-word only for a 32-bit        *)
(* encoding and names the half-word that cannot be fetched.                *)
InstructionExact ==
  executing = "front end" =>
    /\ \A low \in 0..255 : low % 4 # 3 => ExpansionExact(256 * input + low)
    /\ \A wide \in BOOLEAN, faults \in SUBSET {input, (input + 2) % 2^XLEN} :
         FetchExact(input, wide, faults)

-----------------------------------------------------------------------------
(* Bytes of two bits, registers of eight bytes, memory of two pages, of    *)
(* which a transfer from address 2 on crosses into the second.             *)

VectorMemory == [a \in 0..15 |-> (a * 3 + 1) % 4]

VectorFile ==
  {[r \in 0..3 |-> [b \in 0..7 |-> IF r = 0 THEN (b % 2) + 1 ELSE (r * 5 + b * b + b) % 4]]}

MemoryInsn(loads, masked, eew, vd, strided, stride) ==
  [kind |-> "memory", load |-> loads, masked |-> masked, eew |-> eew, vd |-> vd, base |-> 2,
   strided |-> strided, stride |-> stride]

IntegerInsn(operation, form, masked, scalar) ==
  [kind |-> "integer", operation |-> operation, form |-> form, masked |-> masked,
   vd |-> 2, vs2 |-> 2, vs1 |-> 3, scalar |-> scalar]

FloatingInsn(operation, form, masked, vd, enabled, mode) ==
  [kind |-> "floating", operation |-> operation, form |-> form, masked |-> masked,
   vd |-> vd, vs2 |-> 2, vs1 |-> 3, scalar |-> 2^16 - 2^8 + 38, fs |-> enabled, frm |-> mode]

VectorProgram ==
  {MemoryInsn(loads, masked, eew, 2, stride # 0, stride) :
     loads \in BOOLEAN, masked \in BOOLEAN, eew \in {2, 4, 8}, stride \in {0, 3, 15}}
  \cup {MemoryInsn(loads, masked, 2, 0, FALSE, 0) : loads \in BOOLEAN, masked \in BOOLEAN}
  \cup {IntegerInsn(operation, form, masked, 1) :
     form \in {"vv", "vx"}, masked \in BOOLEAN,
     operation \in {"Add", "Subtract", "Multiply", "DivideUnsigned", "RemainderUnsigned",
                    "DivideSigned", "RemainderSigned"}}
  \cup {IntegerInsn("Add", "vi", masked, immediate) : masked \in BOOLEAN, immediate \in {3, 17, 31}}
  \cup {FloatingInsn(operation, form, masked, 2, TRUE, 2) :
     operation \in {"Add", "Subtract", "Multiply", "Divide"}, form \in {"vv", "vx"},
     masked \in BOOLEAN}
  \cup {FloatingInsn("Add", "vv", masked, 0, enabled, mode) :
     masked \in BOOLEAN, enabled \in BOOLEAN, mode \in {0, 5}}

(* Element widths of one, two and four bytes, LMUL 1, 2 and 1/2, every     *)
(* combination of agnosticism that matters, and invalid types.             *)
VectorTypes ==
  {64 * policy + 8 * vsew + vlmul : policy \in {0, 1, 2}, vsew \in {0, 1, 2}, vlmul \in {0, 1}}
    \cup {7, 15, 23, 4, 32, 256 + 8}

=============================================================================
