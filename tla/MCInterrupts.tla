---------------------------- MODULE MCInterrupts ----------------------------
(***************************************************************************)
(* The two interrupt controllers.  A behaviour exercises one of them; the  *)
(* other keeps its initial state.                                          *)
(* PLIC: two sources and priorities 0..2, so that there are ties, a source *)
(* that overtakes one pending before it, sources masked by either          *)
(* threshold, and both contexts competing for one source.                  *)
(* CLINT: halves of four values, so that there are carries, wraps, and     *)
(* reads that do not start at a carry and finish before the next.          *)
(***************************************************************************)
EXTENDS Plic, Clint

VARIABLE controller

interruptVars == <<controller, plicVars, clintVars>>

InterruptInit == controller \in {"plic", "clint"} /\ PlicInit /\ ClintInit

PlicStep == controller = "plic" /\ PlicNext /\ UNCHANGED <<controller, clintVars>>

ClintStep == controller = "clint" /\ ClintNext /\ UNCHANGED <<controller, plicVars>>

(* The loop of the emulator turns, as in ClintSpec.                        *)
InterruptSpec ==
  /\ InterruptInit /\ [][PlicStep \/ ClintStep]_interruptVars
  /\ WF_interruptVars(ClintStep)

=============================================================================
