---------------------------- MODULE VectorGroup ----------------------------
(***************************************************************************)
(* The value layer of the V extension: vtype decoding and vector length    *)
(* selection (src/vector/vector_configuration.cpp), the placement of       *)
(* elements in register groups (vector_register_group.cpp), element        *)
(* arithmetic (vector_integer.cpp).  A byte has kBitsPerByte bits, and     *)
(* vsew, vlmul, vta and vma keep their places in vtype; bit 8 stands for   *)
(* the reserved bits and kVtypeVill for bit 63.                            *)
(***************************************************************************)
EXTENDS Integers, Sequences

CONSTANTS
  kVectorLengthBits,           \* VLEN, 256 in the code
  kMaximumElementLengthBits,   \* ELEN, 64 in the code
  kBitsPerByte,                \* 8 in the code
  kRegisterCount               \* 32 in the code

ASSUME VectorAssumption ==
  /\ {kVectorLengthBits, kMaximumElementLengthBits, kBitsPerByte, kRegisterCount} \subseteq Nat \ {0}
  /\ kVectorLengthBits % kBitsPerByte = 0

Nothing == [none |-> TRUE]    \* std::nullopt
NoElement == -1               \* std::nullopt where an element value is expected
kRegisterBytes == kVectorLengthBits \div kBitsPerByte
kVtypeImplementedMask == 255
kVtypeVill == 512

VectorRegisters == [0..(kRegisterCount - 1) -> [0..(kRegisterBytes - 1) -> 0..(2^kBitsPerByte - 1)]]

vlmul_of(vtype) == vtype % 8
vsew_of(vtype) == (vtype \div 8) % 8
tail_agnostic(vtype) == (vtype \div 64) % 2 = 1
mask_agnostic(vtype) == (vtype \div 128) % 2 = 1

(* LMUL as numerator and denominator; encoding 4 is reserved.              *)
decode_lmul(encoding) ==
  <<<<1, 1>>, <<2, 1>>, <<4, 1>>, <<8, 1>>, <<>>, <<1, 8>>, <<1, 4>>, <<1, 2>>>>[encoding + 1]

illegal_configuration ==
  [valid |-> FALSE, vtype |-> kVtypeVill, sew_bits |-> 0, lmul |-> <<0, 1>>, vlmax |-> 0]

decode_vector_configuration(vtype) ==
  LET sew_bits == kBitsPerByte * <<1, 2, 4, 8, 16, 32, 64, 128>>[vsew_of(vtype) + 1]
      lmul == decode_lmul(vlmul_of(vtype))
      vlmax == ((kVectorLengthBits \div sew_bits) * lmul[1]) \div lmul[2]
  IN  IF \/ vtype > kVtypeImplementedMask
         \/ vsew_of(vtype) > 3
         \/ lmul = <<>>
         \/ sew_bits > (kMaximumElementLengthBits * lmul[1]) \div lmul[2]
         \/ vlmax = 0
      THEN illegal_configuration
      ELSE [valid |-> TRUE, vtype |-> vtype, sew_bits |-> sew_bits, lmul |-> lmul, vlmax |-> vlmax]

select_vector_length(application_vector_length, vlmax) ==
  IF application_vector_length < vlmax THEN application_vector_length ELSE vlmax

mut_can_preserve_vector_length(previous_vtype, requested_vtype) ==
  /\ decode_vector_configuration(previous_vtype).valid
  /\ decode_vector_configuration(requested_vtype).valid

can_preserve_vector_length(previous_vtype, requested_vtype) ==
  LET previous == decode_vector_configuration(previous_vtype)
      requested == decode_vector_configuration(requested_vtype)
  IN  previous.valid /\ requested.valid /\ previous.vlmax = requested.vlmax

(* EMUL = (EEW / SEW) * LMUL in lowest terms, if it is one of the          *)
(* encodable multipliers.                                                  *)
derive_memory_configuration(current, element_width_bits) ==
  LET numerator == current.lmul[1] * element_width_bits
      denominator == current.lmul[2] * current.sew_bits
      emul == {m \in {decode_lmul(e) : e \in (0..7) \ {4}} : m[1] * denominator = m[2] * numerator}
  IN  IF ~current.valid \/ emul = {} THEN Nothing
      ELSE [current EXCEPT !.sew_bits = element_width_bits, !.lmul = CHOOSE m \in emul : TRUE]

-----------------------------------------------------------------------------
physical_register_count(configuration) ==
  IF configuration.lmul[1] >= configuration.lmul[2]
  THEN configuration.lmul[1] \div configuration.lmul[2] ELSE 1

create(configuration, base_register) ==
  LET register_count == physical_register_count(configuration)
  IN  IF \/ ~configuration.valid
         \/ base_register >= kRegisterCount
         \/ base_register % register_count # 0
         \/ register_count > kRegisterCount - base_register
      THEN Nothing
      ELSE [configuration |-> configuration, base |-> base_register]

locate(group, element_index) ==
  LET width_bytes == group.configuration.sew_bits \div kBitsPerByte
      byte_index == element_index * width_bytes
      register_offset == byte_index \div kRegisterBytes
      byte_offset == byte_index % kRegisterBytes
  IN  IF \/ element_index >= group.configuration.vlmax
         \/ register_offset >= physical_register_count(group.configuration)
         \/ byte_offset + width_bytes > kRegisterBytes
      THEN Nothing
      ELSE [register |-> group.base + register_offset, offset |-> byte_offset, width |-> width_bytes]

(* Little endian.  A write to an element without a place changes nothing.  *)
read_element(v, group, element_index) ==
  LET location == locate(group, element_index)
      Low[n \in 0..location.width] ==
        IF n = 0 THEN 0
        ELSE Low[n - 1] + v[location.register][location.offset + n - 1] * 2^(kBitsPerByte * (n - 1))
  IN  IF location = Nothing THEN NoElement ELSE Low[location.width]

write_element(v, group, element_index, value) ==
  LET location == locate(group, element_index)
  IN  IF location = Nothing THEN v
      ELSE [v EXCEPT ![location.register] =
             [byte \in DOMAIN @ |->
               LET n == byte - location.offset
               IN  IF n \in 0..(location.width - 1)
                   THEN (value \div 2^(kBitsPerByte * n)) % 2^kBitsPerByte
                   ELSE @[byte]]]

(* v0 holds one bit for every element; value_or(false) past its capacity.  *)
mask_bit(v, element_index) ==
  /\ element_index < kVectorLengthBits
  /\ (v[0][element_index \div kBitsPerByte] \div 2^(element_index % kBitsPerByte)) % 2 = 1

-----------------------------------------------------------------------------
negate(value, width) == (-value) % 2^width

signed_divide(lhs, rhs, width) ==
  LET negative(n) == n >= 2^(width - 1)
      magnitude(n) == IF negative(n) THEN negate(n, width) ELSE n
      quotient == magnitude(lhs) \div magnitude(rhs)
  IN  CASE rhs = 0 -> 2^width - 1
        [] lhs = 2^(width - 1) /\ rhs = 2^width - 1 -> lhs
        [] OTHER -> IF negative(lhs) # negative(rhs) THEN negate(quotient, width) ELSE quotient

execute_vector_integer_operation(operation, wide_lhs, wide_rhs, sew_bits) ==
  LET lhs == wide_lhs % 2^sew_bits
      rhs == wide_rhs % 2^sew_bits
  IN  CASE operation = "Add" -> (lhs + rhs) % 2^sew_bits
        [] operation = "Subtract" -> (lhs - rhs) % 2^sew_bits
        [] operation = "Multiply" -> (lhs * rhs) % 2^sew_bits
        [] operation = "DivideUnsigned" -> IF rhs = 0 THEN 2^sew_bits - 1 ELSE lhs \div rhs
        [] operation = "RemainderUnsigned" -> IF rhs = 0 THEN lhs ELSE lhs % rhs
        [] operation = "DivideSigned" -> signed_divide(lhs, rhs, sew_bits)
        [] operation = "RemainderSigned" ->
             CASE rhs = 0 -> lhs
               [] lhs = 2^(sew_bits - 1) /\ rhs = 2^sew_bits - 1 -> 0
               [] OTHER -> (lhs - signed_divide(lhs, rhs, sew_bits) * rhs) % 2^sew_bits

(* The 5-bit immediate of the vi forms: `immediate | 0xE0` fills the upper *)
(* bits of one byte, whatever the element width.                           *)
sign_extend_vector_immediate(immediate, sew_bits) ==
  (IF immediate >= 16 THEN 224 + immediate ELSE immediate) % 2^sew_bits
=============================================================================
