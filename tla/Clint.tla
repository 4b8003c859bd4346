------------------------------- MODULE Clint --------------------------------
(***************************************************************************)
(* The timer and software interrupt of src/devices/clint.cpp, driven by    *)
(* the run loop: before every instruction of the hart the timer advances   *)
(* by Ticks and the pending bits are recomputed.                           *)
(*                                                                         *)
(* A 64-bit timer register is the pair of its 32-bit halves, each counting *)
(* modulo Base (2^32 in the code).  The guest sets the timer with one      *)
(* 64-bit or three 32-bit stores, reads it with 32-bit loads until the     *)
(* high half repeats, sends itself software interrupts, waits, and serves  *)
(* interrupts.  old, target and start are history variables.               *)
(*                                                                         *)
(* Definitions named mut_... are faulty variants for sensitivity analysis; *)
(* no specification uses them.                                             *)
(***************************************************************************)
EXTENDS Naturals

CONSTANTS
  Base,    \* values of a register half
  Ticks    \* clint_ticks_per_iteration

ASSUME ClintAssumption == Base \in Nat /\ Ticks \in Nat \ {0} /\ Ticks < Base

VARIABLES
  mtime, mtimecmp, msip,   \* the device's registers
  time, mtip, msipp,       \* what the hart sees: time, mip.MTIP, mip.MSIP
  phase,                   \* "sync" or "hart"
  driver, resume,          \* the guest's next instruction, and after a handler
  waiting,                 \* the hart is in WFI
  high, low,               \* halves read from mtime
  old,                     \* mtimecmp before a three-store update
  target,                  \* its new value
  start,                   \* mtime when a read began
  wrapped                  \* mtime wrapped since

deviceVars == <<mtime, mtimecmp, msip>>
pendingVars == <<time, mtip, msipp>>
readVars == <<high, low, start>>
updateVars == <<old, target>>
clintVars == <<deviceVars, pendingVars, phase, driver, resume, waiting, readVars,
               updateVars, wrapped>>

Half == 0..(Base - 1)
Timer == [hi : Half, lo : Half]
Zero == [hi |-> 0, lo |-> 0]
Top == [hi |-> Base - 1, lo |-> Base - 1]
AtOrAfter(a, b) == a.hi > b.hi \/ (a.hi = b.hi /\ a.lo >= b.lo)

Masked == {"split_high", "split_low", "handler", "return"}
Point == Masked \cup {"main", "read_low", "read_check"}

ClintTypeOK ==
  /\ mtime \in Timer /\ mtimecmp \in Timer /\ msip \in BOOLEAN
  /\ time \in Timer /\ mtip \in BOOLEAN /\ msipp \in BOOLEAN
  /\ phase \in {"sync", "hart"} /\ driver \in Point /\ resume \in Point \ Masked
  /\ waiting \in BOOLEAN /\ high \in Half /\ low \in Half
  /\ old \in Timer /\ target \in Timer /\ start \in Timer /\ wrapped \in BOOLEAN

ClintInit ==
  /\ mtime = Zero /\ mtimecmp = Top /\ msip = FALSE
  /\ time = Zero /\ mtip = FALSE /\ msipp = FALSE
  /\ phase = "sync" /\ driver = "main" /\ resume = "main" /\ waiting = FALSE
  /\ high = 0 /\ low = 0 /\ old = Top /\ target = Top /\ start = Zero
  /\ wrapped = FALSE

-----------------------------------------------------------------------------
(* The device.                                                             *)

advance(t) ==
  IF t.lo + Ticks < Base THEN [t EXCEPT !.lo = t.lo + Ticks]
  ELSE [hi |-> IF t.hi + 1 < Base THEN t.hi + 1 ELSE 0, lo |-> t.lo + Ticks - Base]

mut_timer_pending(now) == AtOrAfter(now, mtimecmp) /\ now # mtimecmp

timer_pending(now) == AtOrAfter(now, mtimecmp)

mut_synchronize ==
  /\ time' = mtime' /\ msipp' = (msipp \/ msip) /\ mtip' = (mtip \/ timer_pending(mtime'))

synchronize ==
  /\ time' = mtime' /\ msipp' = msip /\ mtip' = timer_pending(mtime')

(* EventLoop::synchronize_devices.                                         *)
synchronize_devices ==
  /\ phase = "sync" /\ phase' = "hart"
  /\ mtime' = advance(mtime)
  /\ wrapped' = (wrapped \/ ~AtOrAfter(mtime', mtime))
  /\ synchronize
  /\ UNCHANGED <<mtimecmp, msip, driver, resume, waiting, readVars, updateVars>>

(* write_timer_register for each width and half.                           *)
write_double(value) == value
write_low(register, half) == [register EXCEPT !.lo = half]

mut_write_high(register, half) == [hi |-> half, lo |-> 0]

write_high(register, half) == [register EXCEPT !.hi = half]

-----------------------------------------------------------------------------
(* The hart.                                                               *)

Enabled == driver \notin Masked

take_interrupt ==
  /\ phase = "hart" /\ Enabled /\ (mtip \/ msipp)
  /\ phase' = "sync" /\ driver' = "handler" /\ resume' = driver /\ waiting' = FALSE
  /\ UNCHANGED <<deviceVars, pendingVars, readVars, updateVars, wrapped>>

Stall ==
  /\ phase = "hart" /\ waiting /\ ~mtip /\ ~msipp
  /\ phase' = "sync"
  /\ UNCHANGED <<deviceVars, pendingVars, driver, resume, waiting, readVars, updateVars,
                 wrapped>>

Instruction(point, next) ==
  /\ phase = "hart" /\ ~waiting /\ ~(Enabled /\ (mtip \/ msipp))
  /\ phase' = "sync" /\ driver = point /\ driver' = next
  /\ UNCHANGED <<pendingVars, resume>>

wfi ==
  /\ Instruction("main", "main") /\ waiting' = TRUE
  /\ UNCHANGED <<deviceVars, readVars, updateVars, wrapped>>

SetTimer(value) ==
  /\ Instruction("main", "main") /\ mtimecmp' = write_double(value)
  /\ UNCHANGED <<mtime, msip, waiting, readVars, updateVars, wrapped>>

SetTime(value) ==
  /\ Instruction("main", "main") /\ mtime' = write_double(value)
  /\ UNCHANGED <<mtimecmp, msip, waiting, readVars, updateVars, wrapped>>

(* The three-store update: low half to its maximum, high half, low half.   *)
SplitFirst(value) ==
  /\ Instruction("main", "split_high")
  /\ mtimecmp' = write_low(mtimecmp, Base - 1)
  /\ old' = mtimecmp /\ target' = value
  /\ UNCHANGED <<mtime, msip, waiting, readVars, wrapped>>

SplitSecond ==
  /\ Instruction("split_high", "split_low")
  /\ mtimecmp' = write_high(mtimecmp, target.hi)
  /\ UNCHANGED <<mtime, msip, waiting, readVars, updateVars, wrapped>>

SplitThird ==
  /\ Instruction("split_low", "main")
  /\ mtimecmp' = write_low(mtimecmp, target.lo)
  /\ old' = Top /\ target' = Top
  /\ UNCHANGED <<mtime, msip, waiting, readVars, wrapped>>

read_high(register) == register.hi

mut_read_low(register) == register.hi

read_low(register) == register.lo

ReadHigh ==
  /\ Instruction("main", "read_low")
  /\ high' = read_high(mtime) /\ start' = mtime /\ wrapped' = FALSE
  /\ UNCHANGED <<deviceVars, waiting, low, updateVars>>

ReadLow ==
  /\ Instruction("read_low", "read_check")
  /\ low' = read_low(mtime)
  /\ UNCHANGED <<deviceVars, waiting, high, start, updateVars, wrapped>>

(* Use the pair if the high half repeats, else start again with it.        *)
ReadCheck ==
  /\ Instruction("read_check", IF read_high(mtime) = high THEN "main" ELSE "read_low")
  /\ low' = 0
  /\ IF read_high(mtime) = high THEN high' = 0 /\ start' = Zero
     ELSE high' = read_high(mtime) /\ start' = mtime
  /\ UNCHANGED <<deviceVars, waiting, updateVars, wrapped>>

SendSoftware ==
  /\ Instruction("main", "main") /\ msip' = TRUE
  /\ UNCHANGED <<mtime, mtimecmp, waiting, readVars, updateVars, wrapped>>

(* The handler serves what mip shows.                                      *)
Serve ==
  /\ Instruction("handler", "return")
  /\ \/ mtip /\ (\E value \in Timer : mtimecmp' = write_double(value)) /\ UNCHANGED msip
     \/ msipp /\ msip' = FALSE /\ UNCHANGED mtimecmp
     \/ ~mtip /\ ~msipp /\ UNCHANGED <<mtimecmp, msip>>
  /\ UNCHANGED <<mtime, waiting, readVars, updateVars, wrapped>>

Return ==
  /\ phase = "hart" /\ driver = "return" /\ driver' = resume /\ resume' = "main"
  /\ phase' = "sync"
  /\ UNCHANGED <<deviceVars, pendingVars, waiting, readVars, updateVars, wrapped>>

ClintNext ==
  \/ synchronize_devices \/ take_interrupt \/ Stall \/ wfi
  \/ \E value \in Timer : SetTimer(value) \/ SetTime(value) \/ SplitFirst(value)
  \/ SplitSecond \/ SplitThird \/ ReadHigh \/ ReadLow \/ ReadCheck
  \/ SendSoftware \/ Serve \/ Return

(* The run loop always takes its next step.                                *)
ClintSpec == ClintInit /\ [][ClintNext]_clintVars /\ WF_clintVars(ClintNext)

-----------------------------------------------------------------------------
(* An interrupt is only taken when the device still asks for one: a store  *)
(* that rearms the timer or clears msip is seen before the next interrupt  *)
(* is taken, although MTIP and MSIP are recomputed once per iteration.     *)
InterruptGenuine ==
  [][driver' = "handler" /\ driver # "handler" => msip \/ AtOrAfter(mtime, mtimecmp)]_clintVars

(* During a three-store update of mtimecmp MTIP is only seen if the time   *)
(* has reached the old or the new deadline: no transient interrupt.        *)
NoTransient ==
  driver \in {"split_high", "split_low"} /\ phase = "hart" /\ mtip =>
    AtOrAfter(mtime, old) \/ AtOrAfter(mtime, target)

(* Reading the halves until the high one repeats yields a time between the *)
(* start of the read and its end, unless the 64-bit counter wrapped.       *)
ReadConsistent ==
  [][driver = "read_check" /\ driver' = "main" /\ ~wrapped =>
       AtOrAfter([hi |-> high, lo |-> low], start)
         /\ AtOrAfter(mtime, [hi |-> high, lo |-> low])]_clintVars

(* A hart waiting in WFI wakes: time reaches every mtimecmp.               *)
WaitEnds == waiting ~> ~waiting

=============================================================================
