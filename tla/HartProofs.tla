----------------------------- MODULE HartProofs -----------------------------
(***************************************************************************)
(* What an operating system relies on in the hart, for every width of the  *)
(* formats, registers and elements: the floating-point context is what was *)
(* saved while FS says Clean, and the vector length fits its type.         *)
(***************************************************************************)
EXTENDS FloatingUnit, Vector, TLAPS

(* Time limits for the provers.                                            *)
USE SMTT(60), ZenonT(60)

-----------------------------------------------------------------------------
(* An instruction that writes a floating-point register makes FS Dirty.    *)
LEMMA FloatingResultDirty ==
  ASSUME NEW name, NEW result, floating_state_enabled, write_floating_result(name, result)
  PROVE CleanMeansSaved'
BY DEF write_floating_result, mark_floating_state_dirty, floating_state_enabled, CleanMeansSaved

(* One that writes an integer register does so if it raises a flag, and    *)
(* leaves the context alone otherwise.                                     *)
LEMMA IntegerResultTracked ==
  ASSUME NEW value, NEW flags, CleanMeansSaved, floating_state_enabled,
         write_integer_result(value, flags)
  PROVE CleanMeansSaved'
<1>1. CASE flags = {}
  <2>1. fflags' = fflags
    BY <1>1 DEF write_integer_result
  <2>2. f' = f /\ frm' = frm /\ fs' = fs
    BY <1>1 DEF write_integer_result, mark_floating_state_dirty
  <2>3. fs' = "Clean" => saved' = saved
    BY DEF write_integer_result, KeepSaved
  <2> QED BY <2>1, <2>2, <2>3 DEF CleanMeansSaved, Context
<1>2. CASE flags # {}
  BY <1>2 DEF write_integer_result, mark_floating_state_dirty, floating_state_enabled,
              CleanMeansSaved
<1> QED BY <1>1, <1>2

(* A refused instruction changes nothing.                                  *)
LEMMA IllegalTracked ==
  ASSUME NEW o, NEW name, NEW rm, CleanMeansSaved, Illegal(o, name, rm)
  PROVE CleanMeansSaved'
BY DEF Illegal, CleanMeansSaved, Context

(* Every floating-point instruction keeps FS honest.                       *)
LEMMA CleanKept ==
  ASSUME CleanMeansSaved, FpNext
  PROVE CleanMeansSaved'
<1>1. CASE SwitchContext \/ StateOff
  BY <1>1 DEF SwitchContext, StateOff, CleanMeansSaved, Context
<1>2. ASSUME NEW mode \in 0..7, WriteFcsr(mode) PROVE CleanMeansSaved'
  BY <1>2 DEF WriteFcsr, mark_floating_state_dirty, CleanMeansSaved
<1>3. ASSUME NEW status, WriteFloatingStatus(status) PROVE CleanMeansSaved'
  BY <1>3 DEF WriteFloatingStatus, CleanMeansSaved, Context
<1>4. ASSUME NEW name, NEW bits, FloatingLoad(name, bits) PROVE CleanMeansSaved'
  BY <1>4 DEF FloatingLoad, mark_floating_state_dirty, CleanMeansSaved
<1>5. ASSUME NEW value, LoadInteger(value) PROVE CleanMeansSaved'
  BY <1>5 DEF LoadInteger, CleanMeansSaved, Context
<1>6. ASSUME NEW o, NEW name, NEW rm, Arithmetic(o, name, rm) PROVE CleanMeansSaved'
  BY <1>6, FloatingResultDirty, IllegalTracked DEF Arithmetic, Rounding, Execute
<1>7. ASSUME NEW o, NEW rm, FusedMultiply(o, rm) PROVE CleanMeansSaved'
  BY <1>7, FloatingResultDirty, IllegalTracked DEF FusedMultiply, Rounding, Execute
<1>8. ASSUME NEW name, NEW rm, Fsqrt(name, rm) \/ ConvertFormat(name, rm) PROVE CleanMeansSaved'
  BY <1>8, FloatingResultDirty, IllegalTracked DEF Fsqrt, ConvertFormat, Rounding, Execute
<1>9. ASSUME NEW kind, NEW name, ToIntegerRegister(kind, name, 7) PROVE CleanMeansSaved'
  BY <1>9, IntegerResultTracked, IllegalTracked DEF ToIntegerRegister, Rounding, Execute
<1>10. ASSUME NEW kind, NEW name, FromIntegerRegister(kind, name, 7) PROVE CleanMeansSaved'
  BY <1>10, FloatingResultDirty, IllegalTracked DEF FromIntegerRegister, Rounding, Execute
<1>11. ASSUME NEW operation, NEW name, SignInject(operation, name) PROVE CleanMeansSaved'
  BY <1>11, FloatingResultDirty DEF SignInject, Execute
<1>12. ASSUME NEW o, NEW name, MinMax(o, name) PROVE CleanMeansSaved'
  BY <1>12, FloatingResultDirty DEF MinMax, Execute
<1>13. ASSUME NEW o, NEW name, Compare(o, name) PROVE CleanMeansSaved'
  BY <1>13, IntegerResultTracked, ZenonT(60) DEF Compare, Execute
<1>14. ASSUME NEW name, Classify(name) \/ MoveToInteger(name) PROVE CleanMeansSaved'
  BY <1>14, IntegerResultTracked DEF Classify, MoveToInteger, Execute
<1>15. ASSUME NEW name, MoveFromInteger(name) PROVE CleanMeansSaved'
  BY <1>15, FloatingResultDirty DEF MoveFromInteger, Execute
<1>16. ASSUME NEW name, FloatingStore(name) PROVE CleanMeansSaved'
  BY <1>16 DEF FloatingStore, CleanMeansSaved, Context
<1> QED
  BY <1>1, <1>2, <1>3, <1>4, <1>5, <1>6, <1>7, <1>8, <1>9, <1>10, <1>11, <1>12, <1>13, <1>14,
     <1>15, <1>16, ZenonT(60) DEF FpNext

(* An operating system may skip saving the floating-point context while FS *)
(* is Clean, whatever the formats: every instruction of cpu_floating.cpp   *)
(* that changes registers, mode or flags says so in FS.                    *)
THEOREM FloatingCleanMeansSaved == FpSpec => []CleanMeansSaved
<1>1. FpInit => CleanMeansSaved
  BY DEF FpInit, CleanMeansSaved
<1>2. CleanMeansSaved /\ [FpNext]_fpVars => CleanMeansSaved'
  BY CleanKept DEF fpVars, CleanMeansSaved, Context
<1> QED BY <1>1, <1>2, PTL DEF FpSpec

-----------------------------------------------------------------------------
(* A decoded vtype is the invalid one, or is itself and has a VLMAX.       *)
LEMMA DecodeWellFormed ==
  ASSUME NEW t \in Nat
  PROVE LET D == decode_vector_configuration(t)
        IN  \/ D = illegal_configuration
            \/ D.valid = TRUE /\ D.vtype = t /\ D.vlmax \in Nat /\ t <= 255
<1> DEFINE sew == kBitsPerByte * <<1, 2, 4, 8, 16, 32, 64, 128>>[vsew_of(t) + 1]
           lmul == decode_lmul(vlmul_of(t))
           vlmax == ((kVectorLengthBits \div sew) * lmul[1]) \div lmul[2]
<1>1. vsew_of(t) \in 0..7 /\ vlmul_of(t) \in 0..7
  BY DEF vsew_of, vlmul_of
<1>2. sew \in Nat \ {0}
  BY <1>1, VectorAssumption
<1>3. lmul = <<>> \/ (lmul[1] \in Nat \ {0} /\ lmul[2] \in Nat \ {0})
  BY <1>1 DEF decode_lmul
<1>4. kVectorLengthBits \div sew \in Nat
  BY <1>2, VectorAssumption
<1>5. lmul # <<>> => vlmax \in Nat
  <2> SUFFICES ASSUME lmul # <<>> PROVE vlmax \in Nat
    OBVIOUS
  <2>1. (kVectorLengthBits \div sew) * lmul[1] \in Nat
    BY <1>3, <1>4
  <2> HIDE DEF sew, lmul
  <2> QED BY <1>3, <2>1
<1> HIDE DEF sew, lmul, vlmax
<1>6. decode_vector_configuration(t) =
        IF \/ t > kVtypeImplementedMask \/ vsew_of(t) > 3 \/ lmul = <<>>
           \/ sew > (kMaximumElementLengthBits * lmul[1]) \div lmul[2]
           \/ vlmax = 0
        THEN illegal_configuration
        ELSE [valid |-> TRUE, vtype |-> t, sew_bits |-> sew, lmul |-> lmul, vlmax |-> vlmax]
  BY DEF decode_vector_configuration, sew, lmul, vlmax
<1> QED BY <1>5, <1>6 DEF kVtypeImplementedMask

(* The invalid type decodes to itself.                                     *)
LEMMA VillInvalid == decode_vector_configuration(kVtypeVill) = illegal_configuration
BY DEF decode_vector_configuration, kVtypeVill, kVtypeImplementedMask

VectorInv == LengthFits /\ vtype \in Nat /\ vl \in Nat

(* vsetvli, vsetivli and vsetvl commit a length their type admits.         *)
LEMMA ConfigurationFits ==
  ASSUME VectorInv, execute_vector_configuration
  PROVE VectorInv'
<1> PICK kind \in {"length", "maximum", "keep"}, r \in VtypeRequests, avl \in Lengths :
      LET configuration == decode_vector_configuration(r)
          length == IF kind = "maximum" THEN configuration.vlmax
                    ELSE select_vector_length(avl, configuration.vlmax)
      IN  /\ kind = "keep" => can_preserve_vector_length(vtype, r)
          /\ vtype' = configuration.vtype
          /\ vl' = IF kind = "keep" THEN vl ELSE length
  BY DEF execute_vector_configuration, commit_vector_configuration
<1> DEFINE D == decode_vector_configuration(r)
<1>1. r \in Nat /\ avl \in Nat
  BY LengthAssumption
<1>2. \/ D = illegal_configuration
      \/ D.valid = TRUE /\ D.vtype = r /\ D.vlmax \in Nat /\ r <= 255
  BY <1>1, DecodeWellFormed, ZenonT(60)
<1>3. /\ illegal_configuration.valid = FALSE /\ illegal_configuration.vlmax = 0
      /\ illegal_configuration.vtype = kVtypeVill
  BY DEF illegal_configuration
<1>4. decode_vector_configuration(vtype') = D
  BY <1>2, <1>3, VillInvalid
<1>5. kind = "keep" => D.valid /\ D.vlmax = decode_vector_configuration(vtype).vlmax
  BY DEF can_preserve_vector_length
<1>6. vl' \in Nat /\ vl' <= D.vlmax
  <2>1. CASE kind = "keep"
    BY <1>5, <2>1 DEF VectorInv, LengthFits
  <2>2. CASE kind # "keep"
    BY <1>1, <1>2, <1>3, <2>2 DEF select_vector_length
  <2> QED BY <2>1, <2>2
<1>7. vtype' \in Nat /\ (vtype' = kVtypeVill <=> ~D.valid)
  BY <1>1, <1>2, <1>3 DEF kVtypeVill
<1> QED BY <1>4, <1>6, <1>7 DEF VectorInv, LengthFits

(* After any sequence of instructions, faults and CSR writes the vector    *)
(* length fits the configuration in force, for every register length,      *)
(* element length, requested type and requested length.                    *)
THEOREM VectorLengthFits == VecSpec => []LengthFits
<1>1. VecInit => VectorInv
  <2> SUFFICES ASSUME VecInit PROVE VectorInv
    OBVIOUS
  <2>1. vtype = kVtypeVill /\ vl = 0
    BY DEF VecInit
  <2> QED BY <2>1, VillInvalid DEF VectorInv, LengthFits, illegal_configuration, kVtypeVill
<1>2. VectorInv /\ [VecNext]_vecVars => VectorInv'
  <2> SUFFICES ASSUME VectorInv, [VecNext]_vecVars PROVE VectorInv'
    OBVIOUS
  <2>1. ASSUME vtype' = vtype, vl' = vl PROVE VectorInv'
    BY <2>1 DEF VectorInv, LengthFits
  <2>2. CASE execute_vector_configuration
    BY <2>2, ConfigurationFits
  <2>3. CASE ExecuteMemory \/ ExecuteArithmetic
    BY <2>1, <2>3, ZenonT(60) DEF ExecuteMemory, ExecuteArithmetic, Finish
  <2>4. CASE \E i \in VectorInstructions : Issue(i)
    BY <2>1, <2>4 DEF Issue
  <2>5. CASE \E page \in Pages : HandleFault(page)
    BY <2>1, <2>5 DEF HandleFault
  <2>6. CASE \E value \in Lengths : WriteVstart(value)
    BY <2>1, <2>6 DEF WriteVstart
  <2>7. CASE WriteVectorStatus
    BY <2>1, <2>7 DEF WriteVectorStatus
  <2>8. CASE UNCHANGED vecVars
    BY <2>1, <2>8 DEF vecVars
  <2> QED BY <2>2, <2>3, <2>4, <2>5, <2>6, <2>7, <2>8 DEF VecNext
<1> QED BY <1>1, <1>2, PTL DEF VecSpec, VectorInv

=============================================================================
