-------------------------------- MODULE Plic --------------------------------
(***************************************************************************)
(* The platform-level interrupt controller, src/devices/plic.cpp: level    *)
(* triggered sources 1..kSourceCount, arbitrated for the two contexts of   *)
(* the hart (0 is M-mode, 1 is S-mode).  Every MMIO access holds mutex_,   *)
(* so one register access is one action.  A 32-bit enable word is the set  *)
(* of its one bits; the arrays are functions.  The priority and threshold  *)
(* fields keep their mask as the bound kPriorityMask.  Definitions named   *)
(* mut_... are faulty variants of the one that follows them; no            *)
(* specification uses them, they show that a property can fail.            *)
(***************************************************************************)
EXTENDS Naturals

CONSTANTS
  kSourceCount,    \* highest source id (31 in the code)
  kPriorityMask    \* largest priority and threshold (7 in the code)

ASSUME PlicAssumption ==
  /\ kSourceCount \in Nat \ {0}
  /\ kPriorityMask \in Nat \ {0}

VARIABLES priority, level, pending, claimed_by, enable, threshold

plicVars == <<priority, level, pending, claimed_by, enable, threshold>>

Source == 1..kSourceCount
Context == {0, 1}
Priority == 0..kPriorityMask

(* claimed_by is 0 when no context serves the source, context + 1 when one *)
(* does.                                                                   *)
PlicTypeOK ==
  /\ priority \in [Source -> Priority]
  /\ level \in [Source -> BOOLEAN]
  /\ pending \in [Source -> BOOLEAN]
  /\ claimed_by \in [Source -> 0..2]
  /\ enable \in [Context -> SUBSET Source]
  /\ threshold \in [Context -> Priority]

PlicInit ==
  /\ priority = [s \in Source |-> 0]
  /\ level = [s \in Source |-> FALSE]
  /\ pending = [s \in Source |-> FALSE]
  /\ claimed_by = [s \in Source |-> 0]
  /\ enable = [c \in Context |-> {}]
  /\ threshold = [c \in Context |-> 0]

-----------------------------------------------------------------------------
(* Arbitration.                                                            *)

Candidate(context, s) ==
  /\ pending[s]
  /\ claimed_by[s] = 0
  /\ s \in enable[context]
  /\ priority[s] > threshold[context]

(* The winner, as the set of the one selected source or the empty set: the *)
(* highest priority, the smallest id among equals.                         *)
select(context) ==
  {s \in Source :
     /\ Candidate(context, s)
     /\ \A t \in Source \ {s} :
          Candidate(context, t) =>
            \/ priority[t] < priority[s]
            \/ priority[t] = priority[s] /\ s < t}

context_pending(context) == select(context) # {}

(* The loop of Plic::select as it is written: sources in increasing order, *)
(* a later one replaces the selection only with a strictly higher          *)
(* priority.  scan(context)[n] is the selection after source n; the        *)
(* invariant ScanSelects compares it with select.                          *)
mut_Replaces(s, selected) == selected = 0 \/ priority[s] >= priority[selected]

Replaces(s, selected) == selected = 0 \/ priority[s] > priority[selected]

scan(context) ==
  LET selected[n \in 0..kSourceCount] ==
        IF n = 0 THEN 0
        ELSE IF Candidate(context, n) /\ Replaces(n, selected[n - 1])
             THEN n
             ELSE selected[n - 1]
  IN selected[kSourceCount]

-----------------------------------------------------------------------------
(* Device side.                                                            *)

(* A device drives its line.  Source 0 and ids above kSourceCount are      *)
(* ignored; lowering the line never withdraws a latched request.           *)
mut_withdraw(s, asserted) ==
  IF s \notin Source
  THEN UNCHANGED plicVars
  ELSE /\ level' = [level EXCEPT ![s] = asserted]
       /\ pending' = [pending EXCEPT ![s] = asserted /\ claimed_by[s] = 0]
       /\ UNCHANGED <<priority, claimed_by, enable, threshold>>

set_source_level(s, asserted) ==
  IF s \notin Source
  THEN UNCHANGED plicVars
  ELSE /\ level' = [level EXCEPT ![s] = asserted]
       /\ pending' = [pending EXCEPT ![s] = @ \/ (asserted /\ claimed_by[s] = 0)]
       /\ UNCHANGED <<priority, claimed_by, enable, threshold>>

-----------------------------------------------------------------------------
(* MMIO side: one action per register write, and the claim read, the only  *)
(* read with a side effect.                                                *)

write_priority(s, value) ==
  /\ priority' = [priority EXCEPT ![s] = value % (kPriorityMask + 1)]
  /\ UNCHANGED <<level, pending, claimed_by, enable, threshold>>

(* Bit 0 of the enable word is dropped.                                    *)
write_enable(context, bits) ==
  /\ enable' = [enable EXCEPT ![context] = bits \ {0}]
  /\ UNCHANGED <<priority, level, pending, claimed_by, threshold>>

write_threshold(context, value) ==
  /\ threshold' = [threshold EXCEPT ![context] = value % (kPriorityMask + 1)]
  /\ UNCHANGED <<priority, level, pending, claimed_by, enable>>

(* The claim read returns the winner, or 0 when there is none.             *)
read_claim(context) ==
  /\ pending' = [s \in Source |-> pending[s] /\ s \notin select(context)]
  /\ claimed_by' = [s \in Source |->
                      IF s \in select(context) THEN context + 1 ELSE claimed_by[s]]
  /\ UNCHANGED <<priority, level, enable, threshold>>

(* Only the context that serves the source completes it; the gateway then  *)
(* samples the line again.                                                 *)
mut_write_complete(context, s) ==
  IF s \in Source /\ claimed_by[s] = context + 1
  THEN /\ claimed_by' = [claimed_by EXCEPT ![s] = 0]
       /\ pending' = [pending EXCEPT ![s] = FALSE]
       /\ UNCHANGED <<priority, level, enable, threshold>>
  ELSE UNCHANGED plicVars

write_complete(context, s) ==
  IF s \in Source /\ claimed_by[s] = context + 1
  THEN /\ claimed_by' = [claimed_by EXCEPT ![s] = 0]
       /\ pending' = [pending EXCEPT ![s] = level[s]]
       /\ UNCHANGED <<priority, level, enable, threshold>>
  ELSE UNCHANGED plicVars

-----------------------------------------------------------------------------
(* The identifiers and values software and devices can present: one below  *)
(* and one above the implemented range.                                    *)
AnyId == 0..(kSourceCount + 1)
AnyPriority == 0..(kPriorityMask + 1)

PlicNext ==
  \/ \E s \in AnyId, asserted \in BOOLEAN : set_source_level(s, asserted)
  \/ \E s \in Source, value \in AnyPriority : write_priority(s, value)
  \/ \E c \in Context :
       \/ \E bits \in SUBSET (0..kSourceCount) : write_enable(c, bits)
       \/ \E value \in AnyPriority : write_threshold(c, value)
       \/ read_claim(c)
       \/ \E s \in AnyId : write_complete(c, s)

PlicSpec == PlicInit /\ [][PlicNext]_plicVars

-----------------------------------------------------------------------------
(* Properties.                                                             *)

(* Plic::select's scan computes the arbitration rule INT-REQ-008: the      *)
(* selected source is the highest-priority candidate, the smallest id      *)
(* among equals, and 0 exactly when there is no candidate.                 *)
ScanSelects ==
  \A c \in Context : select(c) = IF scan(c) = 0 THEN {} ELSE {scan(c)}

(* No level interrupt is lost: a line that is high at a source no context  *)
(* serves has a latched request, so set_source_level, claim and complete   *)
(* never leave an asserted device without a pending bit (INT-REQ-010).     *)
NoLostLevel ==
  \A s \in Source : level[s] /\ claimed_by[s] = 0 => pending[s]

(* A source in service is never offered a second time: the claim clears    *)
(* its request and nothing latches another one before the owner's          *)
(* complete, so the two contexts cannot serve one request twice.           *)
ServedOnce ==
  \A s \in Source : claimed_by[s] # 0 => ~pending[s]

(* The registers a source is arbitrated with can change at any moment;     *)
(* still every source follows the gateway protocol of module Gateway: a    *)
(* request is latched only from a high line, it is withdrawn only by a     *)
(* claim, and service ends only by the owner's complete.                   *)
Gate(s) ==
  CASE claimed_by[s] = 1 -> "M"
    [] claimed_by[s] = 2 -> "S"
    [] OTHER -> IF pending[s] THEN "waiting" ELSE "idle"

gateway ==
  INSTANCE Gateway WITH
    Context <- {"M", "S"},
    line <- level,
    gate <- [s \in Source |-> Gate(s)]

GatewaySpec == gateway!Spec
=============================================================================
