------------------------------- MODULE Vector -------------------------------
(***************************************************************************)
(* Execution of the V extension (src/core/cpu.cpp): vset*, unit-stride and *)
(* strided memory instructions, integer and floating-point arithmetic.     *)
(* A memory instruction that faults in the middle records the element in   *)
(* vstart and is executed again, from there, once the handler has mapped   *)
(* the page.  The handler is guest code and only maps pages here.          *)
(***************************************************************************)
EXTENDS VectorGroup, FloatReference, FiniteSets

CONSTANTS
  VtypeRequests,      \* vtype values the guest asks for
  Lengths,            \* application vector lengths
  VectorInstructions, \* the decoded instructions the guest issues
  InitialRegisters,   \* register file contents to start from
  InitialMemory,      \* [address -> byte]
  PageBytes

ASSUME LengthAssumption == VtypeRequests \subseteq Nat /\ Lengths \subseteq Nat

VARIABLES
  vregs, vtype, vl, vstart,
  vs,        \* mstatus.VS: "Off", "Clean" or "Dirty"
  vfflags,   \* accrued floating-point exceptions
  vmem,      \* guest memory
  vmapped,   \* the pages that do not fault
  vinsn,     \* the instruction last issued
  vstage,    \* "none" before it, then "issued", "trapped", "illegal" or "retired"
  vbefore    \* history: the machine when it was first issued

vecVars == <<vregs, vtype, vl, vstart, vs, vfflags, vmem, vmapped, vinsn, vstage, vbefore>>

Memory == DOMAIN InitialMemory
AddressSpace == Cardinality(Memory)
Page(address) == address \div PageBytes
Pages == {Page(a) : a \in Memory}
kVstartRange == 8 * kRegisterBytes   \* 256: vstart keeps 8 bits
AllOnes(bits) == 2^bits - 1

vector_state_enabled == vs # "Off"

mark_vector_state_dirty == vs' = IF vector_state_enabled THEN "Dirty" ELSE vs

mut_set_vector_start_for_trap(element) == (element + 1) % kVstartRange

set_vector_start_for_trap(element) == element % kVstartRange

commit_vector_configuration(new_vtype, new_vl) ==
  /\ vtype' = new_vtype
  /\ vl' = new_vl
  /\ vstart' = 0
  /\ mark_vector_state_dirty

-----------------------------------------------------------------------------
(* vset*: kind "length" is an AVL operand, "maximum" is rs1 = x0 with a    *)
(* destination, "keep" is rs1 = rd = x0.  The destination receives vl.     *)

execute_vector_configuration ==
  \E kind \in {"length", "maximum", "keep"}, requested_vtype \in VtypeRequests, avl \in Lengths :
    LET configuration == decode_vector_configuration(requested_vtype)
        length == IF kind = "maximum" THEN configuration.vlmax
                  ELSE select_vector_length(avl, configuration.vlmax)
    IN  /\ vstage = "none"
        /\ vector_state_enabled
        /\ kind = "keep" => can_preserve_vector_length(vtype, requested_vtype)
        /\ IF kind = "keep"
           THEN commit_vector_configuration(configuration.vtype, vl)
           ELSE commit_vector_configuration(configuration.vtype, length)
        /\ UNCHANGED <<vregs, vfflags, vmem, vmapped, vinsn, vstage, vbefore>>

-----------------------------------------------------------------------------
(* The element loops.  A state of a loop is the record of what it has      *)
(* changed so far and of how it has stopped, if it has.                    *)

Write(s, group, element, value) ==
  IF locate(group, element) = Nothing THEN [s EXCEPT !.stop = "illegal"]
  ELSE [s EXCEPT !.v = write_element(@, group, element, value), !.dirty = TRUE]

(* An inactive element is left alone or, if agnostic, filled with ones.    *)
Inactive(s, group, element, writes) ==
  IF writes /\ mask_agnostic(vtype)
  THEN Write(s, group, element, AllOnes(group.configuration.sew_bits))
  ELSE s

Started == [v |-> vregs, m |-> vmem, flags |-> {}, dirty |-> FALSE, stop |-> "no", at |-> 0]

(* Byte accesses in order, each translated on its own; a fault names the   *)
(* element and keeps the bytes a store has already written.                *)
TransferElement(s, group, element) ==
  LET width == group.configuration.sew_bits \div kBitsPerByte
      stride == IF vinsn.strided THEN vinsn.stride ELSE width
      Address(byte) == (vinsn.base + element * stride + byte) % AddressSpace
      faults == {byte \in 0..(width - 1) : Page(Address(byte)) \notin vmapped}
      done == IF faults = {} THEN width ELSE CHOOSE b \in faults : \A c \in faults : b <= c
      Loaded[n \in 0..width] ==
        IF n = 0 THEN 0 ELSE Loaded[n - 1] + s.m[Address(n - 1)] * 2^(kBitsPerByte * (n - 1))
      value == read_element(s.v, group, element)
      Stored[n \in 0..width] ==
        IF n = 0 THEN s.m
        ELSE [Stored[n - 1] EXCEPT ![Address(n - 1)] =
               (value \div 2^(kBitsPerByte * (n - 1))) % 2^kBitsPerByte]
      Trapped(t) == [t EXCEPT !.stop = "trap", !.at = element]
  IN  IF vinsn.load
      THEN IF faults # {} THEN Trapped(s) ELSE Write(s, group, element, Loaded[width])
      ELSE IF value = NoElement THEN [s EXCEPT !.stop = "illegal"]
      ELSE IF faults # {} THEN Trapped([s EXCEPT !.m = Stored[done]])
      ELSE [s EXCEPT !.m = Stored[width]]

(* The operands of an arithmetic instruction; a scalar is its value.       *)
SourceGroups(configuration) ==
  {create(configuration, vinsn.vs2)}
    \cup (IF vinsn.form = "vv" THEN {create(configuration, vinsn.vs1)} ELSE {})

Rhs(s, configuration, element) ==
  CASE vinsn.form = "vv" -> read_element(s.v, create(configuration, vinsn.vs1), element)
    [] vinsn.form = "vx" -> vinsn.scalar
    [] vinsn.form = "vi" -> sign_extend_vector_immediate(vinsn.scalar, configuration.sew_bits)

(* The soft-float core, in formats of the two widths an element may have.  *)
VectorFloat ==
  INSTANCE SoftFloat WITH
    SingleExponentBits <- 2, SingleFractionBits <- 4 * kBitsPerByte - 3,
    DoubleExponentBits <- 3, DoubleFractionBits <- 8 * kBitsPerByte - 4,
    DivideGuardBits <- 8 * kBitsPerByte - 1

(* frm and FS are in force while the instruction runs.                     *)
VectorRounding(i) == VectorFloat!decode_rounding_mode(i.frm)

execute_vector_floating_operation(operation, format, lhs, rhs, rounding) ==
  CASE operation = "Add" -> VectorFloat!floating_add(format, lhs, rhs, rounding)
    [] operation = "Subtract" -> VectorFloat!floating_subtract(format, lhs, rhs, rounding)
    [] operation = "Multiply" -> VectorFloat!floating_multiply(format, lhs, rhs, rounding)
    [] operation = "Divide" -> VectorFloat!floating_divide(format, lhs, rhs, rounding)

WriteFloat(s, group, element, result) ==
  [Write(s, group, element, result.bits) EXCEPT !.flags = @ \cup result.flags]

ComputeOperands(s, group, element, lhs, rhs) ==
  LET sew_bits == group.configuration.sew_bits
      format == IF sew_bits = 4 * kBitsPerByte THEN "Single" ELSE "Double"
  IN  IF NoElement \in {lhs, rhs} THEN [s EXCEPT !.stop = "illegal"]
      ELSE IF vinsn.kind = "integer"
      THEN Write(s, group, element,
                 execute_vector_integer_operation(vinsn.operation, lhs, rhs, sew_bits))
      ELSE WriteFloat(s, group, element,
                      execute_vector_floating_operation(vinsn.operation, format, lhs,
                                                        rhs % 2^sew_bits, VectorRounding(vinsn)))

ComputeElement(s, group, element) ==
  ComputeOperands(s, group, element,
          read_element(s.v, create(group.configuration, vinsn.vs2), element),
          Rhs(s, group.configuration, element))

(* One turn of the body loop.                                              *)
ElementStep(s, group, element) ==
  IF vinsn.kind = "memory" THEN TransferElement(s, group, element)
  ELSE ComputeElement(s, group, element)

(* The body elements from vstart on and then the tail, which is only       *)
(* touched when there is a body.                                           *)
ForElements(s, group, vlmax, writes) ==
  LET Body[e \in 0..vl] ==
        IF e <= vstart THEN s
        ELSE LET p == Body[e - 1]
             IN  IF p.stop # "no" THEN p
                 ELSE IF vinsn.masked /\ ~mask_bit(p.v, e - 1) THEN Inactive(p, group, e - 1, writes)
                 ELSE ElementStep(p, group, e - 1)
      Rest[e \in 0..vlmax] ==
        IF e <= vl THEN Body[vl]
        ELSE LET p == Rest[e - 1]
             IN  IF p.stop # "no" THEN p
                 ELSE Write(p, group, e - 1, AllOnes(group.configuration.sew_bits))
  IN  IF vstart >= vl THEN s
      ELSE IF writes /\ tail_agnostic(vtype) THEN Rest[vlmax] ELSE Body[vl]

execute_vector_memory ==
  LET current == decode_vector_configuration(vtype)
      memory_configuration == derive_memory_configuration(current, vinsn.eew)
      group == create(memory_configuration, vinsn.vd)
  IN  IF \/ memory_configuration = Nothing
         \/ group = Nothing
         \/ vl > current.vlmax
         \/ vinsn.load /\ vinsn.masked /\ vinsn.vd = 0
      THEN [Started EXCEPT !.stop = "illegal"]
      ELSE ForElements(Started, group, current.vlmax, vinsn.load)

execute_vector_arithmetic ==
  LET configuration == decode_vector_configuration(vtype)
      destination == create(configuration, vinsn.vd)
  IN  IF \/ ~configuration.valid
         \/ /\ vinsn.kind = "floating"
            /\ \/ ~vinsn.fs
               \/ configuration.sew_bits \notin {4 * kBitsPerByte, 8 * kBitsPerByte}
               \/ VectorRounding(vinsn) = "reserved"
         \/ Nothing \in {destination} \cup SourceGroups(configuration)
         \/ vinsn.masked /\ vinsn.vd = 0
         \/ vl > configuration.vlmax
      THEN [Started EXCEPT !.stop = "illegal"]
      ELSE ForElements(Started, destination, configuration.vlmax, TRUE)

-----------------------------------------------------------------------------
(* The end of an instruction: a trap keeps what was done and records the   *)
(* element; the exception flags and vstart = 0 wait for the last element.  *)

Finish(s) ==
  /\ vregs' = s.v
  /\ vmem' = s.m
  /\ CASE s.stop = "no" ->
            /\ vstage' = "retired"
            /\ vstart' = 0
            /\ vfflags' = vfflags \cup s.flags
            /\ mark_vector_state_dirty
       [] s.stop = "trap" ->
            /\ vstage' = "trapped"
            /\ vstart' = set_vector_start_for_trap(s.at)
            /\ UNCHANGED vfflags
            /\ mark_vector_state_dirty
       [] s.stop = "illegal" ->
            /\ vstage' = "illegal"
            /\ UNCHANGED <<vstart, vfflags>>
            /\ IF s.dirty THEN mark_vector_state_dirty ELSE UNCHANGED vs
  /\ UNCHANGED <<vtype, vl, vmapped, vinsn, vbefore>>

Issue(i) ==
  /\ vstage = "none"
  /\ vector_state_enabled
  /\ vinsn' = i
  /\ vstage' = "issued"
  /\ vbefore' = [v |-> vregs, m |-> vmem, start |-> vstart, flags |-> vfflags]
  /\ UNCHANGED <<vregs, vtype, vl, vstart, vs, vfflags, vmem, vmapped>>

ExecuteMemory == vstage = "issued" /\ vinsn.kind = "memory" /\ Finish(execute_vector_memory)

ExecuteArithmetic == vstage = "issued" /\ vinsn.kind # "memory" /\ Finish(execute_vector_arithmetic)

-----------------------------------------------------------------------------
(* The guest around the vector unit.                                       *)

(* The page fault handler maps a page and returns to the instruction.      *)
HandleFault(page) ==
  /\ vstage = "trapped"
  /\ page \notin vmapped
  /\ vmapped' = vmapped \cup {page}
  /\ vstage' = "issued"
  /\ UNCHANGED <<vregs, vtype, vl, vstart, vs, vfflags, vmem, vinsn, vbefore>>

(* A CSR write of vstart.                                                  *)
WriteVstart(value) ==
  /\ vstage = "none"
  /\ vector_state_enabled
  /\ vstart' = value % kVstartRange
  /\ mark_vector_state_dirty
  /\ UNCHANGED <<vregs, vtype, vl, vfflags, vmem, vmapped, vinsn, vstage, vbefore>>

(* The scheduler saves the vector state if it is dirty and marks it clean, *)
(* or turns the unit on for the first time.                                *)
WriteVectorStatus ==
  /\ vstage \in {"none", "trapped"}
  /\ vs # "Clean"
  /\ vs' = "Clean"
  /\ UNCHANGED <<vregs, vtype, vl, vstart, vfflags, vmem, vmapped, vinsn, vstage, vbefore>>

VecInit ==
  /\ vregs \in InitialRegisters
  /\ vtype = kVtypeVill /\ vl = 0 /\ vstart = 0
  /\ vs = "Off" /\ vfflags = {}
  /\ vmem = InitialMemory
  /\ vmapped = {}
  /\ vinsn = Nothing /\ vstage = "none" /\ vbefore = Nothing

VecNext ==
  \/ execute_vector_configuration
  \/ \E i \in VectorInstructions : Issue(i)
  \/ ExecuteMemory
  \/ ExecuteArithmetic
  \/ \E page \in Pages : HandleFault(page)
  \/ \E value \in Lengths : WriteVstart(value)
  \/ WriteVectorStatus

VecSpec == VecInit /\ [][VecNext]_vecVars

-----------------------------------------------------------------------------
(* What an instruction does to each element, from the state before it was  *)
(* first issued and without any loop or fault.                             *)

IsBody(element) == element \in vbefore.start..(vl - 1)
IsActive(element) == ~vinsn.masked \/ mask_bit(vbefore.v, element)
IsTail(element) == element >= vl /\ vbefore.start < vl

GroupOf(register) ==
  LET current == decode_vector_configuration(vtype)
  IN  create(IF vinsn.kind = "memory" THEN derive_memory_configuration(current, vinsn.eew) ELSE current,
             register)

AddressOf(element, byte) ==
  LET width == vinsn.eew \div kBitsPerByte
  IN  (vinsn.base + element * (IF vinsn.strided THEN vinsn.stride ELSE width) + byte) % AddressSpace

Bytes(element) == 0..((vinsn.eew \div kBitsPerByte) - 1)

Operands(element, sew) ==
  [a |-> read_element(vbefore.v, GroupOf(vinsn.vs2), element),
   b |-> CASE vinsn.form = "vv" -> read_element(vbefore.v, GroupOf(vinsn.vs1), element)
           [] vinsn.form = "vx" -> vinsn.scalar % 2^sew
           [] vinsn.form = "vi" -> sign_extend_vector_immediate(vinsn.scalar, sew)]

(* The correctly rounded result in single format.                          *)
FloatOf(x, rounding) ==
  LET f == 4 * kBitsPerByte - 3
  IN  CASE vinsn.operation = "Add" -> Sum(2, f, x.a, x.b, rounding)
        [] vinsn.operation = "Subtract" -> Difference(2, f, x.a, x.b, rounding)
        [] vinsn.operation = "Multiply" -> Product(2, f, x.a, x.b, rounding)
        [] vinsn.operation = "Divide" -> Quotient(2, f, x.a, x.b, rounding)

FloatResult(element) == FloatOf(Operands(element, 4 * kBitsPerByte), VectorRounding(vinsn))

(* What integer arithmetic on a and b has to leave.                        *)
IsInteger(a, b, value, sew) ==
  LET Signed(n) == IF n >= 2^(sew - 1) THEN n - 2^sew ELSE n
      Abs(n) == IF n < 0 THEN -n ELSE n
      Divides(n, d, q, r) == n = d * q + r /\ Abs(r) < Abs(d) /\ (r = 0 \/ (r < 0) = (n < 0))
  IN  CASE vinsn.operation = "Add" -> (value - a - b) % 2^sew = 0
        [] vinsn.operation = "Subtract" -> (value - a + b) % 2^sew = 0
        [] vinsn.operation = "Multiply" -> (value - a * b) % 2^sew = 0
        [] vinsn.operation = "DivideUnsigned" ->
             IF b = 0 THEN value = 2^sew - 1 ELSE Divides(a, b, value, a - b * value)
        [] vinsn.operation = "RemainderUnsigned" ->
             IF b = 0 THEN value = a ELSE \E q \in 0..a : Divides(a, b, q, value)
        [] vinsn.operation = "DivideSigned" ->
             CASE b = 0 -> Signed(value) = -1
               [] Signed(a) = -(2^(sew - 1)) /\ Signed(b) = -1 -> value = a
               [] OTHER -> Divides(Signed(a), Signed(b), Signed(value), Signed(a) - Signed(b) * Signed(value))
        [] vinsn.operation = "RemainderSigned" ->
             CASE b = 0 -> value = a
               [] Signed(a) = -(2^(sew - 1)) /\ Signed(b) = -1 -> value = 0
               [] OTHER -> \E q \in -(2^sew)..(2^sew) : Divides(Signed(a), Signed(b), q, Signed(value))

(* The value of an active element of the destination after the instruction.*)
IsResult(element, value, sew) ==
  CASE vinsn.kind = "memory" ->
         \A byte \in Bytes(element) :
           (value \div 2^(kBitsPerByte * byte)) % 2^kBitsPerByte = vbefore.m[AddressOf(element, byte)]
    [] vinsn.kind = "floating" -> value = FloatResult(element).bits
    [] vinsn.kind = "integer" ->
         \E x \in {Operands(element, sew)} : IsInteger(x.a, x.b, value, sew)

(* The registers after a load or an arithmetic instruction on group.       *)
GroupAsDeclared(group) ==
  LET vlmax == group.configuration.vlmax
      sew == group.configuration.sew_bits
      Now(e) == read_element(vregs, group, e)
      Old(e) == read_element(vbefore.v, group, e)
      Covers(e, register, byte) ==
        LET l == locate(group, e) IN l.register = register /\ byte \in l.offset..(l.offset + l.width - 1)
  IN  /\ \A e \in 0..(vlmax - 1) :
           IF IsBody(e) /\ IsActive(e) THEN IsResult(e, Now(e), sew)
           ELSE Now(e) = IF \/ IsBody(e) /\ mask_agnostic(vtype)
                            \/ IsTail(e) /\ tail_agnostic(vtype)
                         THEN 2^sew - 1 ELSE Old(e)
      /\ \A register \in DOMAIN vregs : \A byte \in DOMAIN vregs[register] :
           \/ vregs[register][byte] = vbefore.v[register][byte]
           \/ \E e \in 0..(vlmax - 1) : Covers(e, register, byte)

RegistersAsDeclared == GroupAsDeclared(GroupOf(vinsn.vd))

(* Memory after a store: at each address the last active element wins.     *)
MemoryAsDeclared ==
  LET Writers(a) == {w \in {<<e, b>> : e \in 0..(vl - 1), b \in Bytes(0)} :
                       IsBody(w[1]) /\ IsActive(w[1]) /\ AddressOf(w[1], w[2]) = a}
      Last(S) == CHOOSE w \in S : \A u \in S : u[1] < w[1] \/ (u[1] = w[1] /\ u[2] <= w[2])
  IN  \A a \in Memory :
        vmem[a] = IF Writers(a) = {} THEN vbefore.m[a]
                  ELSE LET w == Last(Writers(a))
                       IN  (read_element(vbefore.v, GroupOf(vinsn.vd), w[1]) \div 2^(kBitsPerByte * w[2]))
                             % 2^kBitsPerByte

(* A vector instruction that retires, however often it has faulted and     *)
(* been resumed from vstart on the way, has the effect its elements        *)
(* declare: every active body element from the initial vstart is computed  *)
(* or transferred, inactive and tail elements are kept or filled with      *)
(* ones, nothing else changes, the exceptions of active elements alone are *)
(* accrued, and vstart is zero.  One that is refused has changed nothing.  *)
VectorRestart ==
  /\ vstage = "retired" =>
       /\ vstart = 0
       /\ IF vinsn.kind = "memory" /\ ~vinsn.load
          THEN vregs = vbefore.v /\ MemoryAsDeclared
          ELSE vmem = vbefore.m /\ RegistersAsDeclared
       /\ vinsn.kind = "floating" =>
            vfflags = vbefore.flags \cup
              UNION {FloatResult(e).flags : e \in {e \in 0..(vl - 1) : IsBody(e) /\ IsActive(e)}}
  /\ vstage = "illegal" =>
       /\ <<vregs, vmem>> = <<vbefore.v, vbefore.m>>
       /\ <<vstart, vfflags>> = <<vbefore.start, vbefore.flags>>

(* After any sequence of vset* instructions the vector length fits the     *)
(* configuration, and an invalid configuration has none: the length a      *)
(* "keep" form carries over was selected under another vtype.              *)
LengthFits ==
  LET configuration == decode_vector_configuration(vtype)
  IN  vl <= configuration.vlmax /\ (vtype = kVtypeVill <=> ~configuration.valid)

(* vadd.vi adds the 5-bit immediate sign-extended to the element width.    *)
ImmediateExtended ==
  vstage = "retired" /\ vinsn.kind = "integer" /\ vinsn.form = "vi" =>
    LET sew == decode_vector_configuration(vtype).sew_bits
        group == GroupOf(vinsn.vd)
        immediate == IF vinsn.scalar >= 16 THEN vinsn.scalar - 32 ELSE vinsn.scalar
    IN  \A e \in 0..(vl - 1) :
          IsBody(e) /\ IsActive(e) =>
            read_element(vregs, group, e) = (Operands(e, sew).a + immediate) % 2^sew
=============================================================================
