----------------------------- MODULE Compressed -----------------------------
(***************************************************************************)
(* The expansion of 16-bit RV64C instructions to base instructions         *)
(* (src/core/compressed_decoder.cpp) and the field extraction that the     *)
(* executor applies to the result (src/core/decoder.cpp).  A 32-bit word   *)
(* is the record of the six fields decode returns, which partition its     *)
(* bits; a 64-bit immediate is the integer it denotes.                     *)
(***************************************************************************)
EXTENDS Integers, Sequences

Reserved == [op |-> "reserved"]   \* std::nullopt
Halfword == 0..65535

BitField(b, high, low) == (b \div 2^low) % 2^(high - low + 1)
BitAt(b, i) == BitField(b, i, i)

-----------------------------------------------------------------------------
(* decoder.cpp                                                             *)

InstructionWord(opcode, rd, funct3, rs1, rs2, funct7) ==
  [opcode |-> opcode, rd |-> rd, funct3 |-> funct3, rs1 |-> rs1, rs2 |-> rs2, funct7 |-> funct7]

sign_extend(value, width) ==
  LET narrowed == value % 2^width
  IN  IF narrowed >= 2^(width - 1) THEN narrowed - 2^width ELSE narrowed

immediate_i(w) == sign_extend(w.funct7 * 32 + w.rs2, 12)

immediate_s(w) == sign_extend(w.funct7 * 32 + w.rd, 12)

immediate_b(w) ==
  sign_extend(BitAt(w.funct7, 6) * 2^12 + BitAt(w.rd, 0) * 2^11
              + BitField(w.funct7, 5, 0) * 32 + BitField(w.rd, 4, 1) * 2, 13)

immediate_u(w) ==
  sign_extend(w.funct7 * 2^13 + w.rs2 * 2^8 + w.rs1 * 8 + w.funct3, 20) * 2^12

immediate_j(w) ==
  sign_extend(BitAt(w.funct7, 6) * 2^20 + (w.rs1 * 8 + w.funct3) * 2^12
              + BitAt(w.rs2, 0) * 2^11 + (BitField(w.funct7, 5, 0) * 16 + BitField(w.rs2, 4, 1)) * 2, 21)

-----------------------------------------------------------------------------
(* compressed_decoder.cpp                                                  *)

encode_i(opcode, rd, funct3, rs1, immediate) ==
  LET imm == immediate % 2^12
  IN  InstructionWord(opcode, rd, funct3, rs1, imm % 32, imm \div 32)

encode_r(opcode, rd, funct3, rs1, rs2, funct7) == InstructionWord(opcode, rd, funct3, rs1, rs2, funct7)

encode_s(opcode, funct3, rs1, rs2, immediate) ==
  LET imm == immediate % 2^12
  IN  InstructionWord(opcode, imm % 32, funct3, rs1, rs2, imm \div 32)

encode_b(funct3, rs1, rs2, immediate) ==
  LET imm == immediate % 2^13
  IN  InstructionWord(99, BitField(imm, 4, 1) * 2 + BitAt(imm, 11), funct3, rs1, rs2,
           BitAt(imm, 12) * 64 + BitField(imm, 10, 5))

encode_j(immediate) ==
  LET imm == immediate % 2^21
      top == BitAt(imm, 20) * 2^11 + BitField(imm, 10, 1) * 2 + BitAt(imm, 11)  \* word bits 31..20
      mid == BitField(imm, 19, 12)                                              \* word bits 19..12
  IN  InstructionWord(111, 0, mid % 8, mid \div 8, top % 32, top \div 32)

kNop == encode_i(19, 0, 0, 0, 0)
kEbreak == encode_i(115, 0, 0, 0, 1)

compact_register(field) == 8 + (field % 8)

Shift(b) == BitAt(b, 12) * 32 + BitField(b, 6, 2)

ci_immediate(b) == sign_extend(Shift(b), 6)

jump_immediate(b) ==
  sign_extend(BitAt(b, 12) * 2^11 + BitAt(b, 11) * 2^4 + BitField(b, 10, 9) * 2^8 + BitAt(b, 8) * 2^10
              + BitAt(b, 7) * 2^6 + BitAt(b, 6) * 2^7 + BitField(b, 5, 3) * 2 + BitAt(b, 2) * 2^5, 12)

mut_branch_immediate(b) ==
  sign_extend(BitAt(b, 12) * 2^8 + BitField(b, 11, 10) * 2^3 + BitField(b, 6, 5) * 2^6
              + BitField(b, 4, 3) * 2 + BitAt(b, 2) * 2^5, 10)

branch_immediate(b) ==
  sign_extend(BitAt(b, 12) * 2^8 + BitField(b, 11, 10) * 2^3 + BitField(b, 6, 5) * 2^6
              + BitField(b, 4, 3) * 2 + BitAt(b, 2) * 2^5, 9)

decompress_quadrant0(b, function3) ==
  LET destination == compact_register(b \div 4)
      source1 == compact_register(b \div 2^7)
      source2 == destination
      spn == BitField(b, 10, 7) * 2^6 + BitField(b, 12, 11) * 2^4 + BitAt(b, 5) * 2^3 + BitAt(b, 6) * 2^2
      double == BitField(b, 6, 5) * 2^6 + BitField(b, 12, 10) * 2^3
      single == BitAt(b, 5) * 2^6 + BitField(b, 12, 10) * 2^3 + BitAt(b, 6) * 2^2
  IN  CASE function3 = 0 -> IF spn = 0 THEN Reserved ELSE encode_i(19, destination, 0, 2, spn)
        [] function3 \in {1, 3} -> encode_i(IF function3 = 1 THEN 7 ELSE 3, destination, 3, source1, double)
        [] function3 = 2 -> encode_i(3, destination, 2, source1, single)
        [] function3 \in {5, 7} -> encode_s(IF function3 = 5 THEN 39 ELSE 35, 3, source1, source2, double)
        [] function3 = 6 -> encode_s(35, 2, source1, source2, single)
        [] OTHER -> Reserved

decompress_misc_alu(b) ==
  LET destination == compact_register(b \div 2^7)
      selector == BitField(b, 11, 10)
      source2 == compact_register(b \div 4)
      function2 == BitField(b, 6, 5)
      function7 == IF function2 = 0 THEN 32 ELSE 0
  IN  CASE selector < 2 ->
             IF Shift(b) = 0 THEN kNop
             ELSE encode_i(19, destination, 5, destination, selector * 1024 + Shift(b))
        [] selector = 2 -> encode_i(19, destination, 7, destination, ci_immediate(b))
        [] selector = 3 /\ BitAt(b, 12) = 0 ->
             encode_r(51, destination, <<0, 4, 6, 7>>[function2 + 1], destination, source2, function7)
        [] OTHER ->
             IF function2 > 1 THEN Reserved
             ELSE encode_r(59, destination, 0, destination, source2, function7)

decompress_quadrant1(b, function3) ==
  LET destination == BitField(b, 11, 7)
      immediate == ci_immediate(b)
      stack_immediate == sign_extend(BitAt(b, 12) * 2^9 + BitAt(b, 6) * 2^4 + BitAt(b, 5) * 2^6
                                     + BitField(b, 4, 3) * 2^7 + BitAt(b, 2) * 2^5, 10)
      upper == immediate % 2^20
  IN  CASE function3 = 0 ->
             IF destination = 0 \/ immediate = 0 THEN kNop
             ELSE encode_i(19, destination, 0, destination, immediate)
        [] function3 = 1 ->
             IF destination = 0 THEN Reserved ELSE encode_i(27, destination, 0, destination, immediate)
        [] function3 = 2 ->
             IF destination = 0 THEN kNop ELSE encode_i(19, destination, 0, 0, immediate)
        [] function3 = 3 /\ destination = 2 ->
             IF stack_immediate = 0 THEN Reserved ELSE encode_i(19, 2, 0, 2, stack_immediate)
        [] function3 = 3 /\ destination # 2 ->
             IF immediate = 0 THEN Reserved
             ELSE IF destination = 0 THEN kNop
             ELSE InstructionWord(55, destination, upper % 8, BitField(upper, 7, 3),
                                  BitField(upper, 12, 8), upper \div 2^13)
        [] function3 = 4 -> decompress_misc_alu(b)
        [] function3 = 5 -> encode_j(jump_immediate(b))
        [] OTHER -> encode_b(IF function3 = 6 THEN 0 ELSE 1, compact_register(b \div 2^7), 0,
                             branch_immediate(b))

decompress_cr(b) ==
  LET destination == BitField(b, 11, 7)
      source2 == BitField(b, 6, 2)
      high_bit == BitAt(b, 12) = 1
  IN  CASE ~high_bit /\ source2 = 0 ->
             IF destination = 0 THEN Reserved ELSE encode_i(103, 0, 0, destination, 0)
        [] ~high_bit /\ source2 # 0 ->
             IF destination = 0 THEN kNop ELSE encode_r(51, destination, 0, 0, source2, 0)
        [] high_bit /\ source2 = 0 ->
             IF destination = 0 THEN kEbreak ELSE encode_i(103, 1, 0, destination, 0)
        [] OTHER ->
             IF destination = 0 THEN kNop ELSE encode_r(51, destination, 0, destination, source2, 0)

decompress_quadrant2(b, function3) ==
  LET destination == BitField(b, 11, 7)
      source2 == BitField(b, 6, 2)
      load_double == BitField(b, 4, 2) * 2^6 + BitAt(b, 12) * 2^5 + BitField(b, 6, 5) * 2^3
      load_single == BitField(b, 3, 2) * 2^6 + BitAt(b, 12) * 2^5 + BitField(b, 6, 4) * 2^2
  IN  CASE function3 = 0 ->
             IF destination = 0 \/ Shift(b) = 0 THEN kNop
             ELSE encode_i(19, destination, 1, destination, Shift(b))
        [] function3 \in {1, 3} ->
             IF function3 = 3 /\ destination = 0 THEN Reserved
             ELSE encode_i(IF function3 = 1 THEN 7 ELSE 3, destination, 3, 2, load_double)
        [] function3 = 2 ->
             IF destination = 0 THEN Reserved ELSE encode_i(3, destination, 2, 2, load_single)
        [] function3 = 4 -> decompress_cr(b)
        [] function3 \in {5, 7} ->
             encode_s(IF function3 = 5 THEN 39 ELSE 35, 3, 2, source2,
                      BitField(b, 9, 7) * 2^6 + BitField(b, 12, 10) * 2^3)
        [] OTHER -> encode_s(35, 2, 2, source2, BitField(b, 8, 7) * 2^6 + BitField(b, 12, 9) * 2^2)

decompress_rv64c(b) ==
  CASE b % 4 = 0 -> decompress_quadrant0(b, BitField(b, 15, 13))
    [] b % 4 = 1 -> decompress_quadrant1(b, BitField(b, 15, 13))
    [] b % 4 = 2 -> decompress_quadrant2(b, BitField(b, 15, 13))
    [] OTHER -> Reserved

-----------------------------------------------------------------------------
(* What the ISA manual says of each encoding, independently of the code:   *)
(* the layout of an immediate lists, from instruction bit `top` downwards, *)
(* the immediate bit each instruction bit holds.                           *)

Imm(b, top, layout) ==
  LET Sum[k \in 0..Len(layout)] ==
        IF k = 0 THEN 0 ELSE Sum[k - 1] + BitAt(b, top - k + 1) * 2^layout[k]
  IN  Sum[Len(layout)]

Signed(value, top_bit) == IF value >= 2^top_bit THEN value - 2^(top_bit + 1) ELSE value

RegImm(op, rd, rs1, imm) == [op |-> op, rd |-> rd, rs1 |-> rs1, rs2 |-> 0, imm |-> imm]
RegReg(op, rd, rs1, rs2) == [op |-> op, rd |-> rd, rs1 |-> rs1, rs2 |-> rs2, imm |-> 0]
NoRd(op, rs1, rs2, imm) == [op |-> op, rd |-> 0, rs1 |-> rs1, rs2 |-> rs2, imm |-> imm]

(* The instruction an encoding stands for; a HINT stands for the computing *)
(* instruction it is an unused form of.                                    *)
Manual(b) ==
  LET kind == <<b % 4, BitField(b, 15, 13)>>
      rd == BitField(b, 11, 7)
      rs2 == BitField(b, 6, 2)
      rd_ == 8 + BitField(b, 9, 7)
      rs2_ == 8 + BitField(b, 4, 2)
      six == Imm(b, 12, <<5>>) + Imm(b, 6, <<4, 3, 2, 1, 0>>)
      spn == Imm(b, 12, <<5, 4, 9, 8, 7, 6, 2, 3>>)
      sp16 == Signed(Imm(b, 12, <<9>>) + Imm(b, 6, <<4, 6, 8, 7, 5>>), 9)
      d == Imm(b, 12, <<5, 4, 3>>) + Imm(b, 6, <<7, 6>>)
      w == Imm(b, 12, <<5, 4, 3>>) + Imm(b, 6, <<2, 6>>)
      dsp == Imm(b, 12, <<5>>) + Imm(b, 6, <<4, 3, 8, 7, 6>>)
      wsp == Imm(b, 12, <<5>>) + Imm(b, 6, <<4, 3, 2, 7, 6>>)
      br == Signed(Imm(b, 12, <<8, 4, 3>>) + Imm(b, 6, <<7, 6, 2, 1, 5>>), 8)
      arith == <<"sub", "xor", "or", "and", "subw", "addw">>
      row == 4 * BitAt(b, 12) + BitField(b, 6, 5) + 1
  IN  CASE kind = <<0, 0>> -> IF spn = 0 THEN Reserved ELSE RegImm("addi", rs2_, 2, spn)
        [] kind = <<0, 1>> -> RegImm("fld", rs2_, rd_, d)
        [] kind = <<0, 2>> -> RegImm("lw", rs2_, rd_, w)
        [] kind = <<0, 3>> -> RegImm("ld", rs2_, rd_, d)
        [] kind = <<0, 5>> -> NoRd("fsd", rd_, rs2_, d)
        [] kind = <<0, 6>> -> NoRd("sw", rd_, rs2_, w)
        [] kind = <<0, 7>> -> NoRd("sd", rd_, rs2_, d)
        [] kind = <<1, 0>> -> RegImm("addi", rd, rd, Signed(six, 5))
        [] kind = <<1, 1>> -> IF rd = 0 THEN Reserved ELSE RegImm("addiw", rd, rd, Signed(six, 5))
        [] kind = <<1, 2>> -> RegImm("addi", rd, 0, Signed(six, 5))
        [] kind = <<1, 3>> /\ rd = 2 -> IF sp16 = 0 THEN Reserved ELSE RegImm("addi", 2, 2, sp16)
        [] kind = <<1, 3>> /\ rd # 2 ->
             IF six = 0 THEN Reserved ELSE RegImm("lui", rd, 0, Signed(six, 5) * 4096)
        [] kind = <<1, 4>> /\ BitField(b, 11, 10) < 3 ->
             LET op == <<"srli", "srai", "andi">>[BitField(b, 11, 10) + 1]
             IN  RegImm(op, rd_, rd_, IF op = "andi" THEN Signed(six, 5) ELSE six)
        [] kind = <<1, 4>> /\ BitField(b, 11, 10) = 3 ->
             IF row > 6 THEN Reserved ELSE RegReg(arith[row], rd_, rd_, rs2_)
        [] kind = <<1, 5>> ->
             RegImm("jal", 0, 0, Signed(Imm(b, 12, <<11, 4, 9, 8, 10, 6, 7, 3, 2, 1, 5>>), 11))
        [] kind = <<1, 6>> -> NoRd("beq", rd_, 0, br)
        [] kind = <<1, 7>> -> NoRd("bne", rd_, 0, br)
        [] kind = <<2, 0>> -> RegImm("slli", rd, rd, six)
        [] kind = <<2, 1>> -> RegImm("fld", rd, 2, dsp)
        [] kind = <<2, 2>> -> IF rd = 0 THEN Reserved ELSE RegImm("lw", rd, 2, wsp)
        [] kind = <<2, 3>> -> IF rd = 0 THEN Reserved ELSE RegImm("ld", rd, 2, dsp)
        [] kind = <<2, 4>> /\ rs2 = 0 ->
             IF rd = 0 THEN IF BitAt(b, 12) = 0 THEN Reserved ELSE RegImm("ebreak", 0, 0, 0)
             ELSE RegImm("jalr", BitAt(b, 12), rd, 0)
        [] kind = <<2, 4>> /\ rs2 # 0 -> RegReg("add", rd, BitAt(b, 12) * rd, rs2)
        [] kind = <<2, 5>> -> NoRd("fsd", 2, rs2, Imm(b, 12, <<5, 4, 3, 8, 7, 6>>))
        [] kind = <<2, 6>> -> NoRd("sw", 2, rs2, Imm(b, 12, <<5, 4, 3, 2, 7, 6>>))
        [] kind = <<2, 7>> -> NoRd("sd", 2, rs2, Imm(b, 12, <<5, 4, 3, 8, 7, 6>>))
        [] OTHER -> Reserved

(* What the executor makes of a word: the operation its dispatch selects   *)
(* and the operands the decoder extracts.                                  *)
Disassembled(w) ==
  LET f6 == w.funct7 \div 2
      shamt == BitField(immediate_i(w), 5, 0)
      I(op) == RegImm(op, w.rd, w.rs1, immediate_i(w))
      S(op) == NoRd(op, w.rs1, w.rs2, immediate_s(w))
      R(op) == RegReg(op, w.rd, w.rs1, w.rs2)
      key == <<w.opcode, w.funct3>>
  IN  CASE key = <<19, 0>> -> I("addi")
        [] key = <<19, 7>> -> I("andi")
        [] key = <<19, 1>> /\ f6 = 0 -> RegImm("slli", w.rd, w.rs1, shamt)
        [] key = <<19, 5>> /\ f6 = 0 -> RegImm("srli", w.rd, w.rs1, shamt)
        [] key = <<19, 5>> /\ f6 = 16 -> RegImm("srai", w.rd, w.rs1, shamt)
        [] key = <<27, 0>> -> I("addiw")
        [] key = <<3, 2>> -> I("lw")
        [] key = <<3, 3>> -> I("ld")
        [] key = <<7, 3>> -> I("fld")
        [] key = <<35, 2>> -> S("sw")
        [] key = <<35, 3>> -> S("sd")
        [] key = <<39, 3>> -> S("fsd")
        [] key = <<51, 0>> -> R(IF w.funct7 = 32 THEN "sub" ELSE "add")
        [] key = <<51, 4>> -> R("xor")
        [] key = <<51, 6>> -> R("or")
        [] key = <<51, 7>> -> R("and")
        [] key = <<59, 0>> -> R(IF w.funct7 = 32 THEN "subw" ELSE "addw")
        [] key = <<99, 0>> -> NoRd("beq", w.rs1, w.rs2, immediate_b(w))
        [] key = <<99, 1>> -> NoRd("bne", w.rs1, w.rs2, immediate_b(w))
        [] key = <<103, 0>> -> I("jalr")
        [] key = <<115, 0>> -> IF w = kEbreak THEN RegImm("ebreak", 0, 0, 0) ELSE Reserved
        [] w.opcode = 55 -> RegImm("lui", w.rd, 0, immediate_u(w))
        [] w.opcode = 111 -> RegImm("jal", w.rd, 0, immediate_j(w))
        [] OTHER -> Reserved

(* An instruction that leaves every register but x0 as it is.              *)
NoEffect(i) ==
  \/ /\ i.op \in {"addi", "lui", "slli", "srli", "srai", "add"}
     /\ i.rd = 0
  \/ /\ i.op \in {"addi", "slli", "srli", "srai"}
     /\ i.rd = i.rs1
     /\ i.imm = 0

StandsFor(word, expected) ==
  IF Reserved \in {expected, word} THEN expected = word
  ELSE \/ Disassembled(word) = expected
       \/ word = kNop /\ NoEffect(expected)

ExpansionExact(b) == StandsFor(decompress_rv64c(b), Manual(b))
=============================================================================
