---------------------------- MODULE FloatingUnit ----------------------------
(***************************************************************************)
(* Floating-point instructions, src/core/cpu_floating.cpp: the FS gate,    *)
(* the rounding mode, NaN boxing of single values in the wider registers,  *)
(* the arithmetic of module SoftFloat, the accrued flags and the Dirty     *)
(* state that tells the operating system to save the registers.            *)
(*                                                                         *)
(* The guest loads one to three operands, or an integer, executes one      *)
(* instruction and starts again with another task's context.  f[1..3] and  *)
(* x[1] are sources, f[0] and x[0] destinations.  An integer register is   *)
(* as wide as a Double (64 bits in the code), a word as a Single (32).     *)
(***************************************************************************)
EXTENDS SoftFloat, FloatReference

CONSTANTS
  SecondOperand,  \* the patterns loaded as second operand
  FusedAddend     \* the single patterns loaded as third operand

VARIABLES
  f, x,
  frm, fflags,   \* fcsr
  fs,            \* mstatus.FS
  stage,         \* operands loaded: "none", "one", "two", "three", "integer", or "done"
  insn,          \* the instruction that retired or trapped
  saved          \* while FS is Clean: the context the operating system has saved

fpVars == <<f, x, frm, fflags, fs, stage, insn, saved>>

FLEN == 1 + DoubleExponentBits + DoubleFractionBits
WLEN == 1 + SingleExponentBits + SingleFractionBits
Patterns(name) == 0..(2^(IF name = "Single" THEN WLEN ELSE FLEN) - 1)

box_single_precision(bits) == 2^FLEN - 2^WLEN + bits
Boxed(bits) == bits \div 2^WLEN = 2^(FLEN - WLEN) - 1
unbox_single_precision(bits) ==
  IF Boxed(bits) THEN bits % 2^WLEN ELSE format_of("Single").canonical_nan
sign_extend_single(bits) == IF bits >= 2^(WLEN - 1) THEN 2^FLEN - 2^WLEN + bits ELSE bits

Context == <<f, frm, fflags>>
None == [op |-> "none"]

FpInit ==
  /\ f = [i \in 0..3 |-> 0] /\ x = [i \in 0..1 |-> 0]
  /\ frm = 0 /\ fflags = {} /\ fs = "Off"
  /\ stage = "none" /\ insn = None /\ saved = <<>>

floating_state_enabled == fs # "Off"

mut_mark_floating_state_dirty(changes) ==
  fs' = IF fs = "Initial" /\ changes THEN "Dirty" ELSE fs

(* FS becomes Dirty when the instruction changes the context.              *)
mark_floating_state_dirty(changes) ==
  fs' = IF floating_state_enabled /\ changes THEN "Dirty" ELSE fs

(* What the operating system saved is of use only while FS says Clean.     *)
KeepSaved == saved' = IF fs' = "Clean" THEN saved ELSE <<>>

-----------------------------------------------------------------------------
(* Control registers.  Each rounding mode goes with some flags of earlier  *)
(* instructions.                                                           *)

StaleFlags(mode) ==
  CASE mode = 1 -> {"DZ"} [] mode = 2 -> {"NX", "UF"} [] mode = 3 -> {"OF"} [] OTHER -> {}

WriteFcsr(mode) ==
  /\ stage = "none" /\ floating_state_enabled
  /\ frm' = mode /\ fflags' = StaleFlags(mode)
  /\ mark_floating_state_dirty(TRUE)
  /\ KeepSaved
  /\ UNCHANGED <<f, x, stage, insn>>

(* Software writes FS; to write Clean it has saved the context.            *)
WriteFloatingStatus(status) ==
  /\ stage = "none" \/ (stage = "one" /\ status = "Clean")
  /\ fs' = status
  /\ saved' = IF status = "Clean" THEN Context ELSE <<>>
  /\ UNCHANGED <<f, x, frm, fflags, stage, insn>>

(* Another task is scheduled.                                              *)
SwitchContext ==
  /\ stage = "done"
  /\ f' = [i \in 0..3 |-> 0] /\ x' = [i \in 0..1 |-> 0]
  /\ frm' = 0 /\ fflags' = {} /\ fs' = "Off"
  /\ stage' = "none" /\ insn' = None /\ saved' = <<>>

(* With FS Off every floating-point instruction is illegal.                *)
StateOff ==
  /\ stage = "none" /\ ~floating_state_enabled
  /\ stage' = "done" /\ insn' = [op |-> "ILLEGAL"]
  /\ UNCHANGED <<f, x, frm, fflags, fs, saved>>

-----------------------------------------------------------------------------
(* FLW and FLD; the second operand is loaded only under the default mode.  *)

FloatingLoad(name, bits) ==
  LET r == CASE stage = "none" -> 1 [] stage = "one" -> 2 [] OTHER -> 3 IN
  /\ floating_state_enabled
  /\ \/ stage = "none" /\ stage' = "one"
     \/ stage = "one" /\ stage' = "two" /\ frm = 0 /\ bits \in SecondOperand
     \/ /\ stage = "two" /\ stage' = "three"
        /\ Boxed(f[1]) /\ Boxed(f[2]) /\ name = "Single" /\ bits \in FusedAddend
  /\ f' = [f EXCEPT ![r] = IF name = "Single" THEN box_single_precision(bits) ELSE bits]
  /\ mark_floating_state_dirty(TRUE)
  /\ KeepSaved
  /\ UNCHANGED <<x, frm, fflags, insn>>

LoadInteger(value) ==
  /\ stage = "none" /\ floating_state_enabled /\ stage' = "integer"
  /\ x' = [x EXCEPT ![1] = value]
  /\ UNCHANGED <<f, frm, fflags, fs, insn, saved>>

-----------------------------------------------------------------------------
(* The instructions.  rm is the rounding field: 7 selects frm.             *)

resolve_floating_rounding_mode(rm) == decode_rounding_mode(IF rm = 7 THEN frm ELSE rm)

read_computational_operand(name, r) ==
  IF name = "Single" THEN unbox_single_precision(f[r]) ELSE f[r]

Execute(op, name, rm) ==
  /\ floating_state_enabled
  /\ stage' = "done"
  /\ insn' = [op |-> op, name |-> name, rm |-> rm]

Illegal(op, name, rm) ==
  /\ Execute(op, name, rm)
  /\ UNCHANGED <<f, x, frm, fflags, fs, saved>>

write_floating_result(name, result) ==
  /\ f' = [f EXCEPT ![0] = IF name = "Single" THEN box_single_precision(result.bits)
                           ELSE result.bits]
  /\ fflags' = fflags \cup result.flags
  /\ mark_floating_state_dirty(TRUE)
  /\ KeepSaved
  /\ UNCHANGED <<x, frm>>

write_integer_result(value, flags) ==
  /\ x' = [x EXCEPT ![0] = value]
  /\ fflags' = fflags \cup flags
  /\ mark_floating_state_dirty(flags # {})
  /\ KeepSaved
  /\ UNCHANGED <<f, frm>>

(* An instruction with a rounding field: reserved modes are illegal, and   *)
(* any other computes its result.                                          *)
Rounding(op, name, rm, result) ==
  IF resolve_floating_rounding_mode(rm) = "reserved" THEN Illegal(op, name, rm)
  ELSE Execute(op, name, rm) /\ result

Arithmetic(op, name, rm) ==
  LET lhs == read_computational_operand(name, 1)
      rhs == read_computational_operand(name, 2)
      mode == resolve_floating_rounding_mode(rm)
  IN  /\ stage = "two"
      /\ Rounding(op, name, rm, write_floating_result(name,
           CASE op = "FADD" -> floating_add(name, lhs, rhs, mode)
             [] op = "FSUB" -> floating_subtract(name, lhs, rhs, mode)
             [] op = "FMUL" -> floating_multiply(name, lhs, rhs, mode)
             [] op = "FDIV" -> floating_divide(name, lhs, rhs, mode)))

FusedMultiply(op, rm) ==
  LET Operand(r) == read_computational_operand("Single", r)
  IN  /\ stage = "three"
      /\ Rounding(op, "Single", rm, write_floating_result("Single",
           floating_fused_multiply_add("Single", Operand(1), Operand(2), Operand(3),
                                       op \in {"FNMSUB", "FNMADD"}, op \in {"FMSUB", "FNMADD"},
                                       resolve_floating_rounding_mode(rm))))

Fsqrt(name, rm) ==
  /\ stage = "one"
  /\ Rounding("FSQRT", name, rm, write_floating_result(name,
       floating_square_root(name, read_computational_operand(name, 1),
                            resolve_floating_rounding_mode(rm))))

(* FCVT between the formats: name is the destination.                      *)
ConvertFormat(name, rm) ==
  LET source == IF name = "Single" THEN "Double" ELSE "Single"
  IN  /\ stage = "one"
      /\ Rounding("FCVT", name, rm, write_floating_result(name,
           floating_convert_format(name, source, read_computational_operand(source, 1),
                                   resolve_floating_rounding_mode(rm))))

(* FCVT.W.S and the like, and FCVT.S.W and the like.                       *)
ToKind == {"W", "WU", "L", "LU"}
FromKind == {"fromW", "fromWU", "fromL", "fromLU"}
IsUnsigned(kind) == kind \in {"WU", "LU", "fromWU", "fromLU"}
IntegerWidth(kind) == IF kind \in {"W", "WU", "fromW", "fromWU"} THEN WLEN ELSE FLEN

ToIntegerRegister(kind, name, rm) ==
  LET result == floating_to_integer(name, read_computational_operand(name, 1), IsUnsigned(kind),
                                    IntegerWidth(kind), resolve_floating_rounding_mode(rm))
  IN  /\ stage = "one"
      /\ Rounding(kind, name, rm, write_integer_result(
           IF IntegerWidth(kind) = WLEN THEN sign_extend_single(result.value) ELSE result.value,
           result.flags))

FromIntegerRegister(kind, name, rm) ==
  /\ stage = "integer"
  /\ Rounding(kind, name, rm, write_floating_result(name,
       floating_from_integer(name, x[1], IsUnsigned(kind), IntegerWidth(kind),
                             resolve_floating_rounding_mode(rm))))

SignInject(operation, name) ==
  /\ stage = "two"
  /\ Execute("FSGNJ", name, operation)
  /\ write_floating_result(name,
       Result(floating_sign_inject(name, read_computational_operand(name, 1),
                                   read_computational_operand(name, 2), operation), {}))

MinMax(op, name) ==
  /\ stage = "two"
  /\ Execute(op, name, 0)
  /\ write_floating_result(name,
       floating_minimum_maximum(name, read_computational_operand(name, 1),
                                read_computational_operand(name, 2), op = "FMAX"))

Compare(op, name) ==
  LET result == floating_compare(name, read_computational_operand(name, 1),
                                 read_computational_operand(name, 2), op)
  IN  /\ stage = "two"
      /\ Execute(op, name, 0)
      /\ write_integer_result(IF result.value THEN 1 ELSE 0, result.flags)

Classify(name) ==
  /\ stage = "one"
  /\ Execute("FCLASS", name, 0)
  /\ write_integer_result(floating_classify(name, read_computational_operand(name, 1)), {})

(* The moves copy bits: no unboxing, no flags.                             *)
MoveToInteger(name) ==
  /\ stage = "one"
  /\ Execute("FMV.X", name, 0)
  /\ write_integer_result(IF name = "Single" THEN sign_extend_single(f[1] % 2^WLEN) ELSE f[1], {})

MoveFromInteger(name) ==
  /\ stage = "integer"
  /\ Execute("FMV.F", name, 0)
  /\ write_floating_result(name, Result(x[1] % 2^(IF name = "Single" THEN WLEN ELSE FLEN), {}))

(* FSW and FSD: the stored bits are left in x[0].                          *)
FloatingStore(name) ==
  /\ stage = "one"
  /\ Execute("FSTORE", name, 0)
  /\ x' = [x EXCEPT ![0] = IF name = "Single" THEN f[1] % 2^WLEN ELSE f[1]]
  /\ UNCHANGED <<f, frm, fflags, fs, saved>>

(* Single instructions take two boxed operands, or one operand that is not *)
(* a box; two operands take their mode from the instruction.               *)
Interesting(name) == name = "Single" => Boxed(f[1]) /\ (Boxed(f[2]) \/ f[2] = 0)

FpNext ==
  \/ SwitchContext \/ StateOff
  \/ \E mode \in 0..7 : WriteFcsr(mode)
  \/ \E status \in {"Off", "Initial", "Clean", "Dirty"} : WriteFloatingStatus(status)
  \/ \E name \in FloatingFormat : \E bits \in Patterns(name) : FloatingLoad(name, bits)
  \/ \E value \in Patterns("Double") : LoadInteger(value)
  \/ \E op \in {"FADD", "FSUB", "FMUL", "FDIV"}, name \in FloatingFormat, rm \in 0..4 :
       Interesting(name) /\ Arithmetic(op, name, rm)
  \/ \E op \in {"FMADD", "FMSUB", "FNMSUB", "FNMADD"}, rm \in 0..4 : FusedMultiply(op, rm)
  \/ \E name \in FloatingFormat, rm \in {0, 6, 7} : Fsqrt(name, rm) \/ ConvertFormat(name, rm)
  \/ \E kind \in ToKind, name \in FloatingFormat : ToIntegerRegister(kind, name, 7)
  \/ \E kind \in FromKind, name \in FloatingFormat : FromIntegerRegister(kind, name, 7)
  \/ \E operation \in 0..2, name \in FloatingFormat :
       Interesting(name) /\ SignInject(operation, name)
  \/ \E op \in {"FMIN", "FMAX"}, name \in FloatingFormat : Interesting(name) /\ MinMax(op, name)
  \/ \E op \in {"Equal", "LessThan", "LessThanOrEqual"}, name \in FloatingFormat :
       Interesting(name) /\ Compare(op, name)
  \/ \E name \in FloatingFormat :
       Classify(name) \/ MoveToInteger(name) \/ MoveFromInteger(name) \/ FloatingStore(name)

FpSpec == FpInit /\ [][FpNext]_fpVars

-----------------------------------------------------------------------------
(* Properties.                                                             *)

E(name) == IF name = "Single" THEN SingleExponentBits ELSE DoubleExponentBits
F(name) == IF name = "Single" THEN SingleFractionBits ELSE DoubleFractionBits
Boxes == 2^FLEN - 2^WLEN

(* Operand r as name: a single value that is not boxed counts as a NaN.    *)
Operand(name, r) ==
  IF name = "Double" THEN f[r] ELSE IF f[r] >= Boxes THEN f[r] - Boxes ELSE Nan(E(name), F(name))

Is(ops) == stage = "done" /\ insn.op \in ops
Legal == resolve_floating_rounding_mode(insn.rm) # "reserved"

(* The destination and the flags after the instruction.                    *)
Yields(name, result) ==
  /\ f[0] = (IF name = "Single" THEN Boxes ELSE 0) + result.bits
  /\ fflags = StaleFlags(frm) \cup result.flags

(* Every sum, difference, product, quotient, root, fused operation and     *)
(* conversion of src/core/soft_float_arithmetic.cpp returns the correctly  *)
(* rounded exact result, for every operand and mode, subnormal and         *)
(* overflowing results included, and adds exactly the flags the standard   *)
(* asks for; a reserved rounding mode changes nothing.                     *)
FloatRounded ==
  LET name == insn.name
      e == E(name)
      g == F(name)
      mode == resolve_floating_rounding_mode(insn.rm)
      a == Operand(name, 1)
      b == Operand(name, 2)
      c == Operand(name, 3)
      other == IF name = "Single" THEN "Double" ELSE "Single"
      integer == LET bits == x[1] % 2^IntegerWidth(insn.op)
                 IN  IF ~IsUnsigned(insn.op) /\ bits >= 2^(IntegerWidth(insn.op) - 1)
                     THEN bits - 2^IntegerWidth(insn.op) ELSE bits
  IN  /\ Is({"FADD"}) /\ Legal => Yields(name, Sum(e, g, a, b, mode))
      /\ Is({"FSUB"}) /\ Legal => Yields(name, Difference(e, g, a, b, mode))
      /\ Is({"FMUL"}) /\ Legal => Yields(name, Product(e, g, a, b, mode))
      /\ Is({"FDIV"}) /\ Legal => Yields(name, Quotient(e, g, a, b, mode))
      /\ Is({"FSQRT"}) /\ Legal => Yields(name, SquareRoot(e, g, a, mode))
      /\ Is({"FMADD", "FMSUB", "FNMSUB", "FNMADD"}) /\ Legal =>
           Yields(name, FusedMultiplyAdd(e, g, a, b, c, insn.op \in {"FNMSUB", "FNMADD"},
                                         insn.op \in {"FMSUB", "FNMADD"}, mode))
      /\ Is({"FCVT"}) /\ Legal =>
           Yields(name, Converted(e, g, E(other), F(other), Operand(other, 1), mode))
      /\ Is(FromKind) /\ Legal =>
           Yields(name, FromInteger(e, g, integer, mode))
      /\ Is({"FSQRT", "FCVT"}) /\ ~Legal =>
           f[0] = 0 /\ fflags = StaleFlags(frm)

(* A conversion to an integer returns the rounded value if the integer     *)
(* type has it and else the nearest end of the type with only NV raised,   *)
(* also where rounding decides which: just above the largest value, just   *)
(* below zero for an unsigned type, at the most negative value.  A word    *)
(* is sign-extended even when it is unsigned.                              *)
SaturationExact ==
  (Is(ToKind) /\ Legal) =>
    LET name == insn.name
        width == IntegerWidth(insn.op)
        low == IF IsUnsigned(insn.op) THEN 0 ELSE -(2^(width - 1))
        high == IF IsUnsigned(insn.op) THEN 2^width - 1 ELSE 2^(width - 1) - 1
        result == ToInteger(E(name), F(name), Operand(name, 1), low, high,
                            resolve_floating_rounding_mode(insn.rm))
        word == result.value % 2^width
    IN  /\ x[0] = (IF word >= 2^(width - 1) THEN word + 2^FLEN - 2^width ELSE word)
                   % 2^FLEN
        /\ fflags = StaleFlags(frm) \cup result.flags

(* Comparisons, FMIN and FMAX agree with the order of the numbers the      *)
(* patterns represent, both zeros equal for a comparison and -0 below +0   *)
(* for a minimum; a NaN loses against a number, is never below one, and    *)
(* raises NV in just the cases the standard names.                         *)
OrderExact ==
  LET name == insn.name
      e == E(name)
      g == F(name)
      a == Operand(name, 1)
      b == Operand(name, 2)
      unordered == IsNan(e, g, a) \/ IsNan(e, g, b)
      signaling == IsSignaling(e, g, a) \/ IsSignaling(e, g, b)
      Below(p, q) == \/ Number(e, g, p) < Number(e, g, q)
                     \/ Number(e, g, p) = Number(e, g, q) /\ p >= q
      smaller == IF Below(a, b) THEN a ELSE b
      larger == IF Below(a, b) THEN b ELSE a
      number == IF ~IsNan(e, g, a) THEN a ELSE IF ~IsNan(e, g, b) THEN b ELSE Nan(e, g)
      Invalidly(flag) == IF flag THEN {"NV"} ELSE {}
      Says(true, flag) == x[0] = (IF true THEN 1 ELSE 0) /\ fflags = Invalidly(flag)
  IN  /\ Is({"Equal"}) =>
           Says(~unordered /\ Number(e, g, a) = Number(e, g, b), signaling)
      /\ Is({"LessThan"}) =>
           Says(~unordered /\ Number(e, g, a) < Number(e, g, b), unordered)
      /\ Is({"LessThanOrEqual"}) =>
           Says(~unordered /\ Number(e, g, a) <= Number(e, g, b), unordered)
      /\ Is({"FMIN"}) => Yields(name, [bits |-> IF unordered THEN number ELSE smaller,
                                       flags |-> Invalidly(signaling)])
      /\ Is({"FMAX"}) => Yields(name, [bits |-> IF unordered THEN number ELSE larger,
                                       flags |-> Invalidly(signaling)])

(* Rounding, saturation and order together: what a floating-point          *)
(* instruction leaves in its destination and in fflags is what the         *)
(* standard defines, whatever the operands.                                *)
FloatExact == FloatRounded /\ SaturationExact /\ OrderExact

(* An operating system that saves the floating-point context only when FS  *)
(* is Dirty loses nothing: while FS says Clean, registers, rounding mode   *)
(* and flags are those it saved, whatever loads, instructions and flags    *)
(* raised by instructions that write integer registers came in between.    *)
CleanMeansSaved == fs = "Clean" => saved = Context
=============================================================================
