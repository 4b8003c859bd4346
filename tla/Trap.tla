-------------------------------- MODULE Trap --------------------------------
(***************************************************************************)
(* The privilege and trap machinery of the hart: the trap, status and      *)
(* interrupt registers of src/core/csr.cpp and the code of src/core/cpu.cpp *)
(* that enters traps, returns from them and waits for interrupts.  One     *)
(* action is one call the event loop makes on the hart (step_cpu: take a   *)
(* pending interrupt, or else step one instruction) or one level a device  *)
(* drives into mip between two such calls.                                 *)
(*                                                                         *)
(* Privileges are their encodings 0 (U), 1 (S) and 3 (M); mie, mip,        *)
(* mideleg and medeleg are the sets of their one bits, by cause code.      *)
(* What a trap handler's address, mcause or mtval is matters to no         *)
(* property here; that program counters stay even does, because trap entry *)
(* and epc writes clear bit 0.  mframe and sframe are history variables:   *)
(* the context the last trap to M (to S) saved, as a set of at most one    *)
(* record, emptied when the trap returns or software takes the saved       *)
(* fields over by writing their register.  Definitions named mut_... are   *)
(* faulty variants of the one that follows; no specification uses them.    *)
(***************************************************************************)
EXTENDS Integers

CONSTANTS
  Interrupt,     \* the interrupt causes that occur (a part of 1, 3 ... 11)
  Exception,     \* the exception causes that occur
  AddressSpace,  \* number of addresses (2^64 in the code)
  Desired        \* the values software writes to mstatus and sstatus

Mstatus == [SIE : BOOLEAN, MIE : BOOLEAN, SPIE : BOOLEAN, MPIE : BOOLEAN,
            SPP : {0, 1}, MPP : {0, 1, 2, 3}, MPRV : BOOLEAN, TW : BOOLEAN, TSR : BOOLEAN]

ASSUME TrapAssumption ==
  /\ Interrupt \subseteq {1, 3, 5, 7, 9, 11}
  /\ Exception \subseteq ((0..9) \cup {11, 12, 13, 15})
  /\ AddressSpace \in Nat \ {0} /\ AddressSpace % 4 = 0
  /\ Desired \subseteq Mstatus

VARIABLES privilege, pc, waiting, mstatus, medeleg, mideleg, mie, mip, mepc, sepc,
          mframe, sframe

hartVars == <<privilege, pc, waiting>>
deviceVars == <<medeleg, mideleg, mie, mip>>
trapVars == <<privilege, pc, waiting, mstatus, medeleg, mideleg, mie, mip, mepc, sepc,
              mframe, sframe>>

U == 0
S == 1
M == 3

SupervisorInterrupt == {1, 5, 9} \cap Interrupt
SoftwareWritablePending == {1} \cap Interrupt
DeviceInterrupt == {3, 7, 9, 11} \cap Interrupt
DelegatableException == Exception \ {11}

Address == 0..(AddressSpace - 1)
Aligned(a) == a - (a % 2)
EvenAddress == {a \in Address : a % 2 = 0}
sequential(a) == IF a + 4 < AddressSpace THEN a + 4 ELSE a + 4 - AddressSpace

Frame == [priv : {U, S, M}, ie : BOOLEAN, at : EvenAddress]

TrapTypeOK ==
  /\ privilege \in {U, S, M}
  /\ pc \in EvenAddress
  /\ waiting \in BOOLEAN
  /\ mstatus \in Mstatus /\ mstatus.MPP # 2
  /\ medeleg \in SUBSET DelegatableException
  /\ mideleg \in SUBSET SupervisorInterrupt
  /\ mie \in SUBSET Interrupt
  /\ mip \in SUBSET Interrupt
  /\ mepc \in EvenAddress
  /\ sepc \in EvenAddress
  /\ mframe \in SUBSET Frame
  /\ sframe \in SUBSET Frame

(* Reset: M-mode, everything masked, nothing delegated.                    *)
TrapInit ==
  /\ privilege = M
  /\ pc = 0
  /\ waiting = FALSE
  /\ mstatus = [SIE |-> FALSE, MIE |-> FALSE, SPIE |-> FALSE, MPIE |-> FALSE,
                SPP |-> 0, MPP |-> 0, MPRV |-> FALSE, TW |-> FALSE, TSR |-> FALSE]
  /\ medeleg = {} /\ mideleg = {} /\ mie = {} /\ mip = {}
  /\ mepc = 0 /\ sepc = 0
  /\ mframe = {} /\ sframe = {}

-----------------------------------------------------------------------------
(* Interrupt selection.                                                    *)

has_locally_enabled_interrupt == mip \cap mie # {}

(* The level an interrupt goes to.                                         *)
Target(i) == IF i \in mideleg THEN S ELSE M

(* Neither masked by the global enable of the current level nor aimed      *)
(* below it.                                                               *)
mut_Takeable(i) ==
  IF i \in mideleg THEN privilege # M ELSE privilege # M \/ mstatus.MIE

Takeable(i) ==
  IF i \in mideleg
  THEN privilege = U \/ (privilege = S /\ mstatus.SIE)
  ELSE privilege # M \/ mstatus.MIE

(* Position in the priority array MEI, MSI, MTI, SEI, SSI, STI.            *)
Rank(i) == CASE i = 11 -> 1 [] i = 3 -> 2 [] i = 7 -> 3
             [] i = 9 -> 4 [] i = 1 -> 5 [] i = 5 -> 6

(* The first takeable candidate of the array, as a set of at most one.     *)
select_pending_interrupt ==
  {i \in mip \cap mie :
     /\ Takeable(i)
     /\ \A j \in mip \cap mie : Takeable(j) => Rank(i) <= Rank(j)}

-----------------------------------------------------------------------------
(* Trap entry and return.                                                  *)

enter_machine_trap ==
  /\ mstatus' = [mstatus EXCEPT !.MPIE = mstatus.MIE, !.MIE = FALSE, !.MPP = privilege]
  /\ mepc' = Aligned(pc)
  /\ mframe' = {[priv |-> privilege, ie |-> mstatus.MIE, at |-> pc]}
  /\ UNCHANGED <<sepc, sframe>>

enter_supervisor_trap ==
  /\ mstatus' = [mstatus EXCEPT !.SPIE = mstatus.SIE, !.SIE = FALSE,
                                !.SPP = IF privilege = U THEN 0 ELSE 1]
  /\ sepc' = Aligned(pc)
  /\ sframe' = {[priv |-> privilege, ie |-> mstatus.SIE, at |-> pc]}
  /\ UNCHANGED <<mepc, mframe>>

(* The addresses a handler can start at: the base in tvec is a multiple of *)
(* 4, a vectored entry adds 4 * cause.                                     *)
trap_vector == {a \in EvenAddress : a % 4 = 0}

EnterTrap(target) ==
  /\ IF target = S THEN enter_supervisor_trap ELSE enter_machine_trap
  /\ privilege' = target
  /\ pc' \in trap_vector
  /\ waiting' = FALSE
  /\ UNCHANGED deviceVars

take_pending_interrupt ==
  \E i \in select_pending_interrupt : EnterTrap(Target(i))

mut_exception_delegated(cause) == cause \in medeleg

exception_delegated(cause) == privilege # M /\ cause \in medeleg

take_trap(cause) == EnterTrap(IF exception_delegated(cause) THEN S ELSE M)

return_from_machine ==
  /\ mstatus' = [mstatus EXCEPT !.MIE = mstatus.MPIE, !.MPIE = TRUE, !.MPP = U,
                                !.MPRV = @ /\ mstatus.MPP = M]
  /\ privilege' = mstatus.MPP
  /\ pc' = mepc
  /\ mframe' = {}
  /\ UNCHANGED <<mepc, sepc, sframe>>

mut_return_from_supervisor ==
  /\ mstatus' = [mstatus EXCEPT !.SIE = TRUE, !.SPIE = TRUE, !.SPP = 0, !.MPRV = FALSE]
  /\ privilege' = mstatus.SPP
  /\ pc' = sepc
  /\ sframe' = {}
  /\ UNCHANGED <<mepc, sepc, mframe>>

return_from_supervisor ==
  /\ mstatus' = [mstatus EXCEPT !.SIE = mstatus.SPIE, !.SPIE = TRUE, !.SPP = 0,
                                !.MPRV = FALSE]
  /\ privilege' = mstatus.SPP
  /\ pc' = sepc
  /\ sframe' = {}
  /\ UNCHANGED <<mepc, sepc, mframe>>

supervisor_return_allowed == privilege = M \/ (privilege = S /\ ~mstatus.TSR)

wait_for_interrupt_allowed == privilege = M \/ (privilege = S /\ ~mstatus.TW)

-----------------------------------------------------------------------------
(* One step of the hart.                                                   *)

(* Cpu::step is reached when no interrupt is taken; a waiting hart goes on *)
(* only if an interrupt is pending and locally enabled.                    *)
Stepping ==
  /\ select_pending_interrupt = {}
  /\ waiting => has_locally_enabled_interrupt

Stall ==
  /\ select_pending_interrupt = {}
  /\ waiting /\ ~has_locally_enabled_interrupt
  /\ UNCHANGED trapVars

environment_call_cause == CASE privilege = U -> 8 [] privilege = S -> 9 [] privilege = M -> 11

(* Fetch or execution fails; an ECALL fails with the cause of its level.   *)
Fault(cause) ==
  /\ Stepping
  /\ cause \in {8, 9, 11} => cause = environment_call_cause
  /\ take_trap(cause)

(* Any other instruction, a jump included: JALR clears bit 0 and every     *)
(* other offset is even.                                                   *)
Execute(next_pc) ==
  /\ Stepping
  /\ pc' = next_pc
  /\ waiting' = FALSE
  /\ UNCHANGED <<privilege, mstatus, deviceVars, mepc, sepc, mframe, sframe>>

mret ==
  /\ Stepping /\ privilege = M
  /\ return_from_machine
  /\ waiting' = FALSE
  /\ UNCHANGED deviceVars

sret ==
  /\ Stepping /\ supervisor_return_allowed
  /\ return_from_supervisor
  /\ waiting' = FALSE
  /\ UNCHANGED deviceVars

wfi ==
  /\ Stepping /\ wait_for_interrupt_allowed
  /\ pc' = sequential(pc)
  /\ waiting' = TRUE
  /\ UNCHANGED <<privilege, mstatus, deviceVars, mepc, sepc, mframe, sframe>>

(* A CSR instruction that access_allowed lets through writes one register  *)
(* and goes on to the next instruction.                                    *)
CsrWrite(required) ==
  /\ Stepping /\ privilege >= required
  /\ pc' = sequential(pc)
  /\ waiting' = FALSE
  /\ UNCHANGED privilege

write_mstatus(desired) ==
  /\ CsrWrite(M)
  /\ mstatus' = [desired EXCEPT !.MPP = IF @ = 2 THEN M ELSE @]
  /\ mframe' = {} /\ sframe' = {}
  /\ UNCHANGED <<deviceVars, mepc, sepc>>

mut_write_sstatus(desired) ==
  /\ CsrWrite(S)
  /\ mstatus' = [mstatus EXCEPT !.SIE = desired.SIE, !.SPIE = desired.SPIE,
                                !.MPIE = desired.MPIE, !.SPP = desired.SPP]
  /\ sframe' = {}
  /\ UNCHANGED <<deviceVars, mepc, sepc, mframe>>

write_sstatus(desired) ==
  /\ CsrWrite(S)
  /\ mstatus' = [mstatus EXCEPT !.SIE = desired.SIE, !.SPIE = desired.SPIE,
                                !.SPP = desired.SPP]
  /\ sframe' = {}
  /\ UNCHANGED <<deviceVars, mepc, sepc, mframe>>

write_mepc(value) ==
  /\ CsrWrite(M)
  /\ mepc' = Aligned(value)
  /\ mframe' = {}
  /\ UNCHANGED <<mstatus, deviceVars, sepc, sframe>>

write_sepc(value) ==
  /\ CsrWrite(S)
  /\ sepc' = Aligned(value)
  /\ sframe' = {}
  /\ UNCHANGED <<mstatus, deviceVars, mepc, mframe>>

write_medeleg(value) ==
  /\ CsrWrite(M)
  /\ medeleg' = value \cap DelegatableException
  /\ UNCHANGED <<mstatus, mideleg, mie, mip, mepc, sepc, mframe, sframe>>

write_mideleg(value) ==
  /\ CsrWrite(M)
  /\ mideleg' = value \cap SupervisorInterrupt
  /\ UNCHANGED <<mstatus, medeleg, mie, mip, mepc, sepc, mframe, sframe>>

write_mie(value) ==
  /\ CsrWrite(M)
  /\ mie' = value
  /\ UNCHANGED <<mstatus, medeleg, mideleg, mip, mepc, sepc, mframe, sframe>>

(* sie and sip are windows on mie and mip that mideleg opens.              *)
write_sie(value) ==
  /\ CsrWrite(S)
  /\ mie' = (mie \ mideleg) \cup (value \cap mideleg)
  /\ UNCHANGED <<mstatus, medeleg, mideleg, mip, mepc, sepc, mframe, sframe>>

write_mip(value) ==
  /\ CsrWrite(M)
  /\ mip' = (mip \ SoftwareWritablePending) \cup (value \cap SoftwareWritablePending)
  /\ UNCHANGED <<mstatus, medeleg, mideleg, mie, mepc, sepc, mframe, sframe>>

write_sip(value) ==
  LET mask == mideleg \cap SoftwareWritablePending IN
  /\ CsrWrite(S)
  /\ mip' = (mip \ mask) \cup (value \cap mask)
  /\ UNCHANGED <<mstatus, medeleg, mideleg, mie, mepc, sepc, mframe, sframe>>

(* CLINT and PLIC project their levels into mip.                           *)
set_interrupt_pending(i, asserted) ==
  /\ mip' = IF asserted THEN mip \cup {i} ELSE mip \ {i}
  /\ UNCHANGED <<hartVars, mstatus, medeleg, mideleg, mie, mepc, sepc, mframe, sframe>>

TrapNext ==
  \/ \E i \in DeviceInterrupt, asserted \in BOOLEAN : set_interrupt_pending(i, asserted)
  \/ take_pending_interrupt
  \/ Stall
  \/ \E cause \in Exception : Fault(cause)
  \/ \E a \in EvenAddress : Execute(a)
  \/ mret \/ sret \/ wfi
  \/ \E desired \in Desired : write_mstatus(desired) \/ write_sstatus(desired)
  \/ \E a \in Address : write_mepc(a) \/ write_sepc(a)
  \/ \E causes \in SUBSET Exception : write_medeleg(causes)
  \/ \E bits \in SUBSET Interrupt :
       \/ write_mideleg(bits) \/ write_mie(bits) \/ write_sie(bits)
       \/ write_mip(bits) \/ write_sip(bits)

TrapSpec == TrapInit /\ [][TrapNext]_trapVars

-----------------------------------------------------------------------------
(* Properties.                                                             *)

(* The context a trap saved survives everything but its own return and the *)
(* software that owns it: a supervisor that traps, returns or rewrites     *)
(* sstatus under an M handler's feet leaves MPP, MPIE and mepc alone, and  *)
(* an M trap taken inside an S handler leaves SPP, SPIE and sepc alone.    *)
FrameKept ==
  /\ \A f \in mframe : mstatus.MPP = f.priv /\ mstatus.MPIE = f.ie /\ mepc = f.at
  /\ \A f \in sframe : mstatus.SPP = f.priv /\ mstatus.SPIE = f.ie /\ sepc = f.at

(* A handler runs with its level masked until it returns or software       *)
(* unmasks it, whatever traps are taken and returned from in between.      *)
HandlerMasked ==
  /\ mframe # {} => ~mstatus.MIE
  /\ sframe # {} => ~mstatus.SIE

(* MPRV, which makes loads and stores use another level's translation, is  *)
(* in force only in M-mode: MRET to a lower level and SRET clear it, and   *)
(* nothing below M can set it.                                             *)
MprvOnlyInMachine == mstatus.MPRV => privilege = M

(* What an interrupted program depends on while its handlers run: its      *)
(* context is kept, its level masked and its translation not changed,      *)
(* under every nesting of traps, returns and CSR writes.                   *)
ContextKept == FrameKept /\ HandlerMasked /\ MprvOnlyInMachine

(* MRET and SRET give back exactly the interrupted context: level, program *)
(* counter and interrupt enable.                                           *)
RoundTrip ==
  [][/\ mret => \A f \in mframe :
                  privilege' = f.priv /\ pc' = f.at /\ mstatus'.MIE = f.ie
     /\ sret => \A f \in sframe :
                  privilege' = f.priv /\ pc' = f.at /\ mstatus'.SIE = f.ie]_trapVars

(* The level rises only through a trap, which lands on a handler and       *)
(* leaves the interrupted context in the frame of the level it enters; and *)
(* it falls only through MRET and SRET, so no trap is ever delegated       *)
(* downwards.                                                              *)
PrivilegeGate ==
  [][/\ privilege' > privilege =>
          /\ pc' \in trap_vector
          /\ \E f \in IF privilege' = M THEN mframe' ELSE sframe' :
               f.priv = privilege /\ f.at = pc
     /\ privilege' < privilege => mret \/ sret]_trapVars

(* An interrupt never re-enters a level whose handler has not yet unmasked *)
(* it; in an S handler only an M interrupt gets through.                   *)
NoReentry ==
  [][take_pending_interrupt =>
       /\ ~(privilege = M /\ mframe # {})
       /\ privilege = S /\ sframe # {} => privilege' = M]_trapVars
=============================================================================
