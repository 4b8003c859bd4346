---------------------------- MODULE IntegerCore ----------------------------
(***************************************************************************)
(* The base integer instructions of Cpu::execute_standard and the fetch    *)
(* that precedes them (src/core/cpu.cpp).  An instruction is given by its  *)
(* decoded fields, a register is a natural number below 2^XLEN, and the    *)
(* result says what the hart does: retire, trap or access memory.          *)
(***************************************************************************)
EXTENDS IntegerM

illegal == [does |-> "illegal"]
retire(next_pc) == [does |-> "retire", next |-> next_pc % 2^XLEN]
write_and_retire(value, next_pc) ==
  [does |-> "write", value |-> value % 2^XLEN, next |-> next_pc % 2^XLEN]
misaligned(target) == [does |-> "misaligned", target |-> target]

(* Flipping the sign bit maps the signed order to the unsigned one.        *)
signed_less(lhs, rhs) ==
  LET flip(value) == (value + 2^(XLEN - 1)) % 2^XLEN
  IN  flip(lhs) < flip(rhs)

(* arithmetic_shift_right64 and 32: shift, then set the vacated bits.      *)
arithmetic_shift_right(value, amount, width) ==
  IF amount = 0 THEN value
  ELSE (value \div 2^amount)
         + (IF value >= 2^(width - 1) THEN ((2^width - 1) * 2^(width - amount)) % 2^width ELSE 0)

sign_extend_word(value) == extend_word(value % 2^WordBits)

(* Bit by bit; Table[a + b] is the result for bits a and b.                *)
BitByBit(lhs, rhs, Table) ==
  LET At(v, i) == (v \div 2^i) % 2
      Low[n \in 0..XLEN] ==
        IF n = 0 THEN 0 ELSE Low[n - 1] + Table[At(lhs, n - 1) + At(rhs, n - 1) + 1] * 2^(n - 1)
  IN  Low[XLEN]
Xor == <<0, 1, 0>>
Or == <<0, 1, 1>>
And == <<0, 0, 1>>
Truth(p) == IF p THEN 1 ELSE 0

branch_taken(function3, source1, source2) ==
  CASE function3 = 0 -> source1 = source2
    [] function3 = 1 -> source1 # source2
    [] function3 = 4 -> signed_less(source1, source2)
    [] function3 = 5 -> ~signed_less(source1, source2)
    [] function3 = 6 -> source1 < source2
    [] function3 = 7 -> source1 >= source2

(* Widths of LB, LH, LW, LD in bits.                                       *)
AccessBits(function3) == XLEN \div 2^(3 - (function3 % 4))

(* The instructions of OP-IMM and of OP with function7 = 0 share function3.*)
compute(function3, lhs, rhs, amount) ==
  CASE function3 = 0 -> lhs + rhs
    [] function3 = 1 -> lhs * 2^amount
    [] function3 = 2 -> Truth(signed_less(lhs, rhs))
    [] function3 = 3 -> Truth(lhs < rhs)
    [] function3 = 4 -> BitByBit(lhs, rhs, Xor)
    [] function3 = 5 -> lhs \div 2^amount
    [] function3 = 6 -> BitByBit(lhs, rhs, Or)
    [] function3 = 7 -> BitByBit(lhs, rhs, And)

op_imm(i, source1, next_pc) ==
  LET amount == i.immediate % XLEN
      function6 == i.function7 \div 2
  IN  IF i.function3 = 5 /\ function6 = 16
      THEN write_and_retire(arithmetic_shift_right(source1, amount, XLEN), next_pc)
      ELSE IF i.function3 \in {1, 5} /\ function6 # 0 THEN illegal
      ELSE write_and_retire(compute(i.function3, source1, i.immediate % 2^XLEN, amount), next_pc)

(* Word results are computed in 32 bits and then sign-extended.            *)
op_word(function3, function7, lhs, rhs, next_pc) ==
  LET p == lhs % 2^WordBits
      q == rhs % 2^WordBits
      amount == q % WordBits
      WordResult(value) == write_and_retire(sign_extend_word(value), next_pc)
  IN  CASE function7 = 0 /\ function3 = 0 -> WordResult(p + q)
        [] function7 = 32 /\ function3 = 0 -> WordResult(p - q)
        [] function7 = 0 /\ function3 = 1 -> WordResult(p * 2^amount)
        [] function7 = 0 /\ function3 = 5 -> WordResult(p \div 2^amount)
        [] function7 = 32 /\ function3 = 5 -> WordResult(arithmetic_shift_right(p, amount, WordBits))
        [] OTHER -> illegal

op_imm_32(i, source1, next_pc) ==
  IF i.function3 = 0 THEN op_word(0, 0, source1, i.immediate, next_pc)
  ELSE IF i.function3 \in {1, 5}
  THEN op_word(i.function3, i.function7, source1, i.immediate % WordBits, next_pc)
  ELSE illegal

op(i, source1, source2, next_pc) ==
  LET amount == source2 % XLEN
      Operation == <<"MUL", "MULH", "MULHSU", "MULHU", "DIV", "DIVU", "REM", "REMU">>
  IN  CASE i.function7 = 1 ->
             write_and_retire(execute_doubleword(Operation[i.function3 + 1], source1, source2), next_pc)
        [] i.function7 = 0 -> write_and_retire(compute(i.function3, source1, source2, amount), next_pc)
        [] i.function7 = 32 /\ i.function3 = 0 -> write_and_retire(source1 - source2, next_pc)
        [] i.function7 = 32 /\ i.function3 = 5 ->
             write_and_retire(arithmetic_shift_right(source1, amount, XLEN), next_pc)
        [] OTHER -> illegal

op_32(i, source1, source2, next_pc) ==
  LET Operation == <<"MUL", "", "", "", "DIV", "DIVU", "REM", "REMU">>
  IN  IF i.function7 # 1 THEN op_word(i.function3, i.function7, source1, source2, next_pc)
      ELSE IF i.function3 \in 1..3 THEN illegal
      ELSE write_and_retire(execute_word(Operation[i.function3 + 1], source1, source2), next_pc)

(* The value an AMO stores, on operands cut to the access width.           *)
calculate(operation, observed, operand, width) ==
  LET a == observed % 2^width
      b == operand % 2^width
      flip(value) == (value + 2^(width - 1)) % 2^width
  IN  CASE operation = "Swap" -> b
        [] operation = "Add" -> (a + b) % 2^width
        [] operation = "Xor" -> BitByBit(a, b, Xor)
        [] operation = "And" -> BitByBit(a, b, And)
        [] operation = "Or" -> BitByBit(a, b, Or)
        [] operation = "MinimumSigned" -> IF flip(a) < flip(b) THEN a ELSE b
        [] operation = "MaximumSigned" -> IF flip(a) < flip(b) THEN b ELSE a
        [] operation = "MinimumUnsigned" -> IF a < b THEN a ELSE b
        [] operation = "MaximumUnsigned" -> IF a < b THEN b ELSE a

(* What a load makes of the bits the bus returns.                          *)
load(i, loaded, next_pc) ==
  LET bits == AccessBits(i.function3)
  IN  IF i.function3 = 7 THEN illegal
      ELSE write_and_retire(
             IF i.function3 < 4 /\ loaded >= 2^(bits - 1) THEN loaded - 2^bits ELSE loaded, next_pc)

(* length is 2 after a compressed encoding and 4 otherwise; loaded is what *)
(* the address source1 + immediate holds.                                  *)
execute_standard(i, source1, source2, pc, length, loaded) ==
  LET sequential_pc == pc + length
      Jump(target, action) == IF target % 2 = 1 THEN misaligned(target % 2^XLEN) ELSE action
      indirect == (source1 + i.immediate) % 2^XLEN
      target == (pc + i.immediate) % 2^XLEN
      jalr_target == indirect - (indirect % 2)
  IN  CASE i.opcode = "LUI" -> write_and_retire(i.immediate, sequential_pc)
        [] i.opcode = "AUIPC" -> write_and_retire(pc + i.immediate, sequential_pc)
        [] i.opcode = "JAL" -> Jump(target, write_and_retire(sequential_pc, target))
        [] i.opcode = "JALR" ->
             IF i.function3 # 0 THEN illegal
             ELSE Jump(jalr_target, write_and_retire(sequential_pc, jalr_target))
        [] i.opcode = "BRANCH" ->
             IF i.function3 \in {2, 3} THEN illegal
             ELSE IF branch_taken(i.function3, source1, source2) THEN Jump(target, retire(target))
             ELSE retire(sequential_pc)
        [] i.opcode = "LOAD" -> load(i, loaded, sequential_pc)
        [] i.opcode = "STORE" ->
             IF i.function3 > 3 THEN illegal
             ELSE [does |-> "store", address |-> indirect,
                   value |-> source2 % 2^AccessBits(i.function3), next |-> sequential_pc % 2^XLEN]
        [] i.opcode = "OP-IMM" -> op_imm(i, source1, sequential_pc)
        [] i.opcode = "OP-IMM-32" -> op_imm_32(i, source1, sequential_pc)
        [] i.opcode = "OP" -> op(i, source1, source2, sequential_pc)
        [] i.opcode = "OP-32" -> op_32(i, source1, source2, sequential_pc)
        [] i.opcode = "FENCE" -> IF i.function3 < 2 THEN retire(sequential_pc) ELSE illegal

-----------------------------------------------------------------------------
(* Cpu::fetch reads one half-word, and a second one only for a 32-bit      *)
(* encoding; Faults says which half-word addresses cannot be fetched.      *)

fetch(pc, wide, Faults) ==
  CASE pc % 2 = 1 -> [does |-> "misaligned", value |-> pc, pc |-> pc]
    [] pc % 2 = 0 /\ pc \in Faults -> [does |-> "fault", value |-> pc, pc |-> pc]
    [] pc % 2 = 0 /\ pc \notin Faults /\ ~wide -> [does |-> "packet", length |-> 2, pc |-> pc]
    [] OTHER ->
         IF pc > 2^XLEN - 1 - 2 THEN [does |-> "fault", value |-> pc, pc |-> pc]
         ELSE IF pc + 2 \in Faults THEN [does |-> "fault", value |-> pc + 2, pc |-> pc]
         ELSE [does |-> "packet", length |-> 4, pc |-> pc]

-----------------------------------------------------------------------------
(* What the manual says, in integers: signed operands are negative numbers *)
(* and an arithmetic shift is a division rounded down.                     *)

Do(opcode, function3, function7, immediate, source1, source2) ==
  execute_standard([opcode |-> opcode, function3 |-> function3, function7 |-> function7,
                    immediate |-> immediate], source1, source2, 2, 4, source1)

Gives(result, value) == result.does = "write" /\ (result.value - value) % 2^XLEN = 0 /\ result.next = 6

BitwiseExact(xor, or, and, lhs, rhs) ==
  xor + and = or /\ or + and = lhs + rhs /\ and <= lhs /\ and <= rhs

ComputesExactly(opcode, source1, operand, source2, immediate) ==
  LET a == AsSigned(source1, XLEN)
      b == AsSigned(operand, XLEN)
      k == operand % XLEN
      R(function3, function7) == Do(opcode, function3, function7, immediate, source1, source2)
  IN  /\ \A t \in {<<0, 0, a + b>>, <<1, 0, a * 2^k>>, <<2, 0, Truth(a < b)>>,
                   <<3, 0, Truth(source1 < operand)>>, <<5, 0, source1 \div 2^k>>,
                   <<5, 32, a \div 2^k>>} :
           Gives(R(t[1], t[2]), t[3])
      /\ BitwiseExact(R(4, 0).value, R(6, 0).value, R(7, 0).value, source1, operand)

WordComputesExactly(opcode, source1, operand, source2, immediate) ==
  LET p == source1 % 2^WordBits
      a == AsSigned(p, WordBits)
      b == AsSigned(operand % 2^WordBits, WordBits)
      k == operand % WordBits
      Low(n) == AsSigned(n % 2^WordBits, WordBits)
  IN  \A t \in {<<0, 0, Low(a + b)>>, <<1, 0, Low(p * 2^k)>>, <<5, 0, Low(p \div 2^k)>>,
                <<5, 32, a \div 2^k>>} :
        Gives(Do(opcode, t[1], t[2], immediate, source1, source2), t[3])

LinksTo(jalr, target) ==
  /\ jalr.does = "write" /\ jalr.value = 6
  /\ jalr.next \in {target % 2^XLEN, (target - 1) % 2^XLEN} /\ jalr.next % 2 = 0

AluExact(source1, source2) ==
  LET Low(function3) == source1 % 2^AccessBits(function3)
      Loaded(n) == IF n < 4 THEN AsSigned(Low(n), AccessBits(n)) ELSE Low(n)
      a == AsSigned(source1, XLEN)
      b == AsSigned(source2, XLEN)
  IN  /\ ComputesExactly("OP", source1, source2, source2, 0)
      /\ ComputesExactly("OP-IMM", source1, source2, 0, b)
      /\ WordComputesExactly("OP-32", source1, source2, source2, 0)
      /\ WordComputesExactly("OP-IMM-32", source1, source2, 0, b)
      /\ \A t \in {<<"OP", a - b>>, <<"OP-32", AsSigned((a - b) % 2^WordBits, WordBits)>>} :
           Gives(Do(t[1], 0, 32, 0, source1, source2), t[2])
      /\ \A n \in 0..6 :
           Gives(execute_standard([opcode |-> "LOAD", function3 |-> n, function7 |-> 0,
                                   immediate |-> 0], 0, 0, 2, 4, Low(n)), Loaded(n))
      /\ \A t \in {<<0, a = b>>, <<1, a # b>>, <<4, a < b>>, <<5, a >= b>>,
                   <<6, source1 < source2>>, <<7, source1 >= source2>>} :
           (Do("BRANCH", t[1], 0, -4, source1, source2).next = 2^XLEN - 2) = t[2]
      /\ LinksTo(Do("JALR", 0, 0, b, source1, 0), a + b)

AtomicExact(observed, operand, width) ==
  LET S(n) == AsSigned(n % 2^width, width)
      R(operation) == calculate(operation, observed, operand, width)
      both == {observed % 2^width, operand % 2^width}
      Extreme(value, Least(_, _)) == value \in both /\ \A n \in both : Least(value, n)
  IN  /\ (R("Add") - S(observed) - S(operand)) % 2^width = 0
      /\ R("Swap") = operand % 2^width
      /\ R("Xor") + R("And") = R("Or")
      /\ (R("Or") + R("And") - observed - operand) % 2^width = 0
      /\ Extreme(R("MinimumSigned"), LAMBDA v, n : S(v) <= S(n))
      /\ Extreme(R("MaximumSigned"), LAMBDA v, n : S(v) >= S(n))
      /\ Extreme(R("MinimumUnsigned"), LAMBDA v, n : v <= n)
      /\ Extreme(R("MaximumUnsigned"), LAMBDA v, n : v >= n)

(* A fetch succeeds exactly when every half-word of the instruction is     *)
(* inside the address space and can be fetched; otherwise it names the     *)
(* first that is not, and always the instruction's own address as pc.      *)
FetchExact(pc, wide, Faults) ==
  LET halves == IF wide THEN <<pc, pc + 2>> ELSE <<pc>>
      bad == {n \in DOMAIN halves : halves[n] \in Faults \/ halves[n] >= 2^XLEN}
      result == fetch(pc, wide, Faults)
  IN  /\ result.pc = pc
      /\ (result.does = "misaligned") = (pc % 2 = 1)
      /\ pc % 2 = 0 => ((result.does = "packet") = (bad = {}))
      /\ result.does = "packet" => result.length = 2 * (IF wide THEN 2 ELSE 1)
      /\ result.does = "fault" =>
           LET first == CHOOSE n \in bad : \A m \in bad : n <= m
           IN  result.value = IF halves[first] >= 2^XLEN THEN pc ELSE halves[first]
=============================================================================
