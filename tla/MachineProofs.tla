--------------------------- MODULE MachineProofs ----------------------------
(***************************************************************************)
(* The interrupt devices of the machine, for any number of sources and     *)
(* priorities, every width of the timer halves and every tick count; and   *)
(* the process that runs the machine, for any memory layout, any image     *)
(* files, any command lines and any point at which a host call fails or a  *)
(* signal arrives.                                                         *)
(*                                                                         *)
(* PlicInv is inductive: NoLostLevel and ServedOnce need the typing of     *)
(* claimed_by, and the refinement of Gateway needs ServedOnce (a complete  *)
(* at a source that is served finds no latched request, so the gateway     *)
(* leaves service for what the line says).  What the arbitration loop      *)
(* computes is proved by induction over the sources.                       *)
(*                                                                         *)
(* For the timer, Fresh ties the pending bits to the device whenever the   *)
(* hart runs; SplitShape describes mtimecmp between the stores of a split  *)
(* update; ReadShape says that a time in progress of being read was some   *)
(* past value of mtime.                                                    *)
(*                                                                         *)
(* ProcessInv says, for each call main may make next, which handlers are   *)
(* installed, what of the terminal is changed and what has been saved to   *)
(* change it back: a signal can end the process only where nothing is      *)
(* changed, and a call that fails leads to the restoring calls for exactly *)
(* what was changed before it.                                             *)
(***************************************************************************)
EXTENDS Plic, Clint, Lifecycle, WellFoundedInduction, TLAPS

(* Time limits for the provers.                                            *)
USE SMTT(60), ZenonT(60)

-----------------------------------------------------------------------------
(* Induction over the natural numbers, from the well-foundedness of <.     *)

(* The order of the natural numbers, as a relation.                        *)
Less == {p \in Nat \X Nat : p[1] < p[2]}

(* A non-empty set of natural numbers has a least member.                  *)
LEMMA LeastMember ==
  ASSUME NEW S, S \subseteq Nat, S # {}
  PROVE \E m \in S : \A n \in S : m <= n
<1>1. IsWellFoundedOn(Less, Nat)
  BY NatLessThanWellFounded DEF OpToRel, Less
<1>2. PICK m \in S : \A n \in S : <<n, m>> \notin Less
  BY <1>1, WFMin, ZenonT(60)
<1>3. \A n \in S : ~(n < m)
  BY <1>2, ZenonT(60) DEF Less
<1> QED BY <1>3

(* Induction over a set of natural numbers.                                *)
LEMMA Induction ==
  ASSUME NEW S, 0 \in S, \A n \in Nat : n \in S => n + 1 \in S
  PROVE Nat \subseteq S
<1> SUFFICES ASSUME Nat \ S # {} PROVE FALSE
  OBVIOUS
<1>1. PICK m \in Nat \ S : \A n \in Nat \ S : m <= n
  BY LeastMember, ZenonT(60)
<1>2. m # 0 /\ m - 1 \in Nat /\ ~(m <= m - 1) /\ (m - 1) + 1 = m
  OBVIOUS
<1>3. m - 1 \in S
  BY <1>1, <1>2
<1> QED BY <1>2, <1>3

-----------------------------------------------------------------------------
PlicInv == PlicTypeOK /\ NoLostLevel /\ ServedOnce

(* The state after construction satisfies the invariant.                   *)
LEMMA InitPlicInv == PlicInit => PlicInv
BY PlicAssumption DEF PlicInit, PlicInv, PlicTypeOK, NoLostLevel, ServedOnce,
   Source, Context, Priority

(* Masking keeps a register value in the range of its field.               *)
LEMMA MaskInRange ==
  ASSUME NEW v \in AnyPriority
  PROVE v % (kPriorityMask + 1) \in Priority
BY PlicAssumption DEF AnyPriority, Priority

(* Every device and MMIO operation preserves PlicInv.                      *)
LEMMA NextPlicInv == PlicInv /\ [PlicNext]_plicVars => PlicInv'
<1> SUFFICES ASSUME PlicInv, [PlicNext]_plicVars
             PROVE PlicInv'
  OBVIOUS
<1> USE DEF PlicInv, PlicTypeOK, NoLostLevel, ServedOnce
<1>1. ASSUME NEW s \in AnyId, NEW asserted \in BOOLEAN, set_source_level(s, asserted)
      PROVE PlicInv'
  <2>1. CASE s \notin Source
    BY <1>1, <2>1 DEF set_source_level, plicVars
  <2>2. CASE s \in Source
    BY <1>1, <2>2 DEF set_source_level
  <2> QED BY <2>1, <2>2
<1>2. ASSUME NEW s \in Source, NEW value \in AnyPriority, write_priority(s, value)
      PROVE PlicInv'
  BY <1>2, MaskInRange DEF write_priority
<1>3. ASSUME NEW c \in Context, NEW bits \in SUBSET (0..kSourceCount), write_enable(c, bits)
      PROVE PlicInv'
  <2>1. bits \ {0} \in SUBSET Source
    BY PlicAssumption DEF Source
  <2> QED BY <1>3, <2>1 DEF write_enable
<1>4. ASSUME NEW c \in Context, NEW value \in AnyPriority, write_threshold(c, value)
      PROVE PlicInv'
  BY <1>4, MaskInRange DEF write_threshold
<1>5. ASSUME NEW c \in Context, read_claim(c)
      PROVE PlicInv'
  <2> DEFINE win == select(c)
  <2>1. c + 1 \in 1..2
    BY DEF Context
  <2>2. /\ pending' = [s \in Source |-> pending[s] /\ s \notin win]
        /\ claimed_by' = [s \in Source |-> IF s \in win THEN c + 1 ELSE claimed_by[s]]
        /\ UNCHANGED <<priority, level, enable, threshold>>
    BY <1>5 DEF read_claim
  <2> HIDE DEF win
  <2>3. ASSUME NEW s \in Source
        PROVE /\ pending'[s] = (pending[s] /\ s \notin win)
              /\ claimed_by'[s] = IF s \in win THEN c + 1 ELSE claimed_by[s]
              /\ level'[s] = level[s]
    BY <2>2
  <2>4. PlicTypeOK'
    <3>1. pending' \in [Source -> BOOLEAN]
      BY <2>2
    <3>2. claimed_by' \in [Source -> 0..2]
      BY <2>1, <2>2
    <3> QED BY <2>2, <3>1, <3>2
  <2>5. NoLostLevel' /\ ServedOnce'
    <3>1. c + 1 # 0
      BY <2>1
    <3> HIDE DEF PlicTypeOK
    <3>2. ASSUME NEW s \in Source
          PROVE /\ level'[s] /\ claimed_by'[s] = 0 => pending'[s]
                /\ claimed_by'[s] # 0 => ~pending'[s]
      <4>1. CASE s \in win
        BY <2>3, <3>1, <4>1, ZenonT(60)
      <4>2. CASE s \notin win
        BY <2>3, <4>2, ZenonT(60)
      <4> QED BY <4>1, <4>2
    <3> QED BY <3>2
  <2> QED BY <2>4, <2>5
<1>6. ASSUME NEW c \in Context, NEW s \in AnyId, write_complete(c, s)
      PROVE PlicInv'
  <2>1. CASE s \in Source /\ claimed_by[s] = c + 1
    BY <1>6, <2>1 DEF write_complete
  <2>2. CASE ~(s \in Source /\ claimed_by[s] = c + 1)
    BY <1>6, <2>2 DEF write_complete, plicVars
  <2> QED BY <2>1, <2>2
<1>7. CASE UNCHANGED plicVars
  BY <1>7 DEF plicVars
<1> QED BY <1>1, <1>2, <1>3, <1>4, <1>5, <1>6, <1>7, ZenonT(60) DEF PlicNext

(* The registers keep their ranges whatever words software writes.         *)
THEOREM PlicTypeCorrect == PlicSpec => []PlicTypeOK
<1>1. PlicInv => PlicTypeOK
  BY DEF PlicInv
<1> QED BY <1>1, InitPlicInv, NextPlicInv, PTL DEF PlicSpec

(* A device whose line is high is never forgotten, in any interleaving of  *)
(* device updates, claims, completes and register writes.                  *)
THEOREM LevelNeverLost == PlicSpec => []NoLostLevel
<1>1. PlicInv => NoLostLevel
  BY DEF PlicInv
<1> QED BY <1>1, InitPlicInv, NextPlicInv, PTL DEF PlicSpec

(* A request one context serves is not offered again before that context   *)
(* completes it.                                                           *)
THEOREM RequestServedOnce == PlicSpec => []ServedOnce
<1>1. PlicInv => ServedOnce
  BY DEF PlicInv
<1> QED BY <1>1, InitPlicInv, NextPlicInv, PTL DEF PlicSpec

-----------------------------------------------------------------------------
(* The refinement of Gateway.                                              *)

gates == [s \in Source |-> Gate(s)]

(* The selected source is unique and is a candidate.                       *)
LEMMA SelectUnique ==
  ASSUME PlicTypeOK, NEW c \in Context, NEW s \in select(c)
  PROVE /\ select(c) = {s}
        /\ s \in Source
        /\ pending[s]
        /\ claimed_by[s] = 0
<1>1. s \in Source /\ Candidate(c, s)
  BY DEF select
<1>2. ASSUME NEW t \in select(c), t # s
      PROVE FALSE
  <2>1. t \in Source /\ Candidate(c, t)
    BY DEF select
  <2>2. priority[t] < priority[s] \/ (priority[t] = priority[s] /\ s < t)
    BY <1>1, <1>2, <2>1 DEF select
  <2>3. priority[s] < priority[t] \/ (priority[s] = priority[t] /\ t < s)
    BY <1>1, <1>2, <2>1, ZenonT(60) DEF select
  <2>4. priority[s] \in Nat /\ priority[t] \in Nat /\ s \in Nat /\ t \in Nat
    BY <1>1, <2>1, PlicAssumption DEF PlicTypeOK, Priority, Source
  <2> QED BY <2>2, <2>3, <2>4
<1> QED BY <1>1, <1>2 DEF Candidate

(* Gate read as a conditional.                                             *)
LEMMA GateCases ==
  ASSUME NEW s
  PROVE Gate(s) = IF claimed_by[s] = 1 THEN "M"
                  ELSE IF claimed_by[s] = 2 THEN "S"
                  ELSE IF pending[s] THEN "waiting" ELSE "idle"
BY DEF Gate

(* The same for the successor state.                                       *)
LEMMA GateCasesNext ==
  ASSUME NEW s
  PROVE Gate(s)' = IF claimed_by'[s] = 1 THEN "M"
                   ELSE IF claimed_by'[s] = 2 THEN "S"
                   ELSE IF pending'[s] THEN "waiting" ELSE "idle"
BY DEF Gate

(* The controller starts as an idle gateway.                               *)
LEMMA GatewayInit == PlicInit => gateway!Init
<1> SUFFICES ASSUME PlicInit PROVE gateway!Init
  OBVIOUS
<1>1. \A s \in Source : Gate(s) = "idle"
  BY GateCases DEF PlicInit
<1> QED BY <1>1 DEF gateway!Init, PlicInit

(* Every step of the controller is a step of one source's gateway or       *)
(* leaves them all alone.                                                  *)
LEMMA GatewayStep ==
  PlicInv /\ [PlicNext]_plicVars => [gateway!Next]_(gateway!vars)
<1> SUFFICES ASSUME PlicInv, [PlicNext]_plicVars
             PROVE [gateway!Next]_(gateway!vars)
  OBVIOUS
<1>t. PlicTypeOK /\ ServedOnce
  BY DEF PlicInv
<1>s. ASSUME UNCHANGED <<level, pending, claimed_by>>
      PROVE [gateway!Next]_(gateway!vars)
  <2>1. \A s \in Source : Gate(s)' = Gate(s)
    BY <1>s, GateCases, GateCasesNext
  <2> QED BY <1>s, <2>1 DEF gateway!vars
<1>1. ASSUME NEW s \in AnyId, NEW asserted \in BOOLEAN, set_source_level(s, asserted)
      PROVE [gateway!Next]_(gateway!vars)
  <2>1. CASE s \notin Source
    BY <1>1, <1>s, <2>1 DEF set_source_level, plicVars
  <2>2. CASE s \in Source
    <3>1. \A t \in Source : Gate(t)' =
             IF t = s /\ asserted /\ Gate(t) = "idle" THEN "waiting" ELSE Gate(t)
      BY <1>1, <1>t, <2>2, GateCases, GateCasesNext
         DEF set_source_level, PlicTypeOK, ServedOnce
    <3>2. gates' = [gates EXCEPT ![s] = IF asserted /\ @ = "idle" THEN "waiting" ELSE @]
      BY <2>2, <3>1, ZenonT(60) DEF gates
    <3>3. gateway!Drive(s, asserted)
      BY <1>1, <2>2, <3>2 DEF set_source_level, gateway!Drive, gates
    <3> QED BY <2>2, <3>3 DEF gateway!Next
  <2> QED BY <2>1, <2>2
<1>2. ASSUME NEW s \in Source, NEW value \in AnyPriority, write_priority(s, value)
      PROVE [gateway!Next]_(gateway!vars)
  BY <1>2, <1>s DEF write_priority
<1>3. ASSUME NEW c \in Context, NEW bits \in SUBSET (0..kSourceCount), write_enable(c, bits)
      PROVE [gateway!Next]_(gateway!vars)
  BY <1>3, <1>s DEF write_enable
<1>4. ASSUME NEW c \in Context, NEW value \in AnyPriority, write_threshold(c, value)
      PROVE [gateway!Next]_(gateway!vars)
  BY <1>4, <1>s DEF write_threshold
<1>5. ASSUME NEW c \in Context, read_claim(c)
      PROVE [gateway!Next]_(gateway!vars)
  <2>1. CASE select(c) = {}
    BY <1>5, <1>s, <1>t, <2>1 DEF read_claim, PlicTypeOK
  <2>2. ASSUME NEW s \in select(c)
        PROVE [gateway!Next]_(gateway!vars)
    <3>1. select(c) = {s} /\ s \in Source /\ pending[s] /\ claimed_by[s] = 0
      BY <1>t, SelectUnique
    <3> DEFINE name == IF c = 0 THEN "M" ELSE "S"
    <3>2. \A t \in Source : Gate(t)' = IF t = s THEN name ELSE Gate(t)
      BY <1>5, <1>t, <3>1, GateCases, GateCasesNext DEF read_claim, PlicTypeOK, Context
    <3>3. gates' = [gates EXCEPT ![s] = name]
      BY <3>1, <3>2, ZenonT(60) DEF gates
    <3>4. Gate(s) = "waiting"
      BY <3>1, GateCases
    <3>5. gateway!Claim(s, name)
      BY <1>5, <3>1, <3>3, <3>4, ZenonT(60) DEF read_claim, gateway!Claim, gates
    <3> QED BY <3>1, <3>5 DEF gateway!Next
  <2> QED BY <2>1, <2>2
<1>6. ASSUME NEW c \in Context, NEW s \in AnyId, write_complete(c, s)
      PROVE [gateway!Next]_(gateway!vars)
  <2>1. CASE s \in Source /\ claimed_by[s] = c + 1
    <3> DEFINE name == IF c = 0 THEN "M" ELSE "S"
    <3>1. Gate(s) = name
      BY <2>1, GateCases DEF Context
    <3>2. ASSUME NEW t \in Source
          PROVE Gate(t)' =
             IF t = s THEN (IF level[s] THEN "waiting" ELSE "idle") ELSE Gate(t)
      <4>1. /\ claimed_by'[t] = IF t = s THEN 0 ELSE claimed_by[t]
            /\ pending'[t] = IF t = s THEN level[s] ELSE pending[t]
        BY <1>6, <1>t, <2>1 DEF write_complete, PlicTypeOK
      <4>2. CASE t = s
        BY <4>1, <4>2, GateCasesNext
      <4>3. CASE t # s
        BY <4>1, <4>3, GateCases, GateCasesNext
      <4> QED BY <4>2, <4>3
    <3>3. gates' = [gates EXCEPT ![s] = IF level[s] THEN "waiting" ELSE "idle"]
      BY <2>1, <3>2, ZenonT(60) DEF gates
    <3>4. gateway!Complete(s, name)
      BY <1>6, <2>1, <3>1, <3>3, ZenonT(60) DEF write_complete, gateway!Complete, gates
    <3> QED BY <2>1, <3>4 DEF gateway!Next
  <2>2. CASE ~(s \in Source /\ claimed_by[s] = c + 1)
    BY <1>6, <1>s, <2>2 DEF write_complete, plicVars
  <2> QED BY <2>1, <2>2
<1>7. CASE UNCHANGED plicVars
  BY <1>7, <1>s DEF plicVars
<1> QED BY <1>1, <1>2, <1>3, <1>4, <1>5, <1>6, <1>7 DEF PlicNext

(* The controller implements the gateway protocol for every source,        *)
(* whatever the arbitration registers hold.                                *)
THEOREM ImplementsGateway == PlicSpec => GatewaySpec
BY InitPlicInv, NextPlicInv, GatewayInit, GatewayStep, PTL
   DEF PlicSpec, GatewaySpec, gateway!Spec

-----------------------------------------------------------------------------
(* The loop of Plic::select.  scan is a recursive function over the        *)
(* sources; what it computes is shown by induction on the source number.   *)

(* The selection after source n, given the selection before it.            *)
Step(c, n, before) == IF Candidate(c, n) /\ Replaces(n, before) THEN n ELSE before

(* f runs the loop of Plic::select up to source k.                         *)
Scans(c, k, f) == f = [n \in 0..k |-> IF n = 0 THEN 0 ELSE Step(c, n, f[n - 1])]

(* The loop can be run to any source.                                      *)
LEMMA ScanExists ==
  ASSUME NEW c
  PROVE \A k \in Nat : \E f : Scans(c, k, f)
<1> DEFINE S == {k \in Nat : \E f : Scans(c, k, f)}
<1>1. 0 \in S
  <2>1. Scans(c, 0, [n \in 0..0 |-> 0])
    BY DEF Scans
  <2> QED BY <2>1
<1>2. ASSUME NEW k \in Nat, k \in S PROVE k + 1 \in S
  <2>1. PICK f : Scans(c, k, f)
    BY <1>2
  <2> DEFINE g == [n \in 0..k + 1 |-> IF n = k + 1 THEN Step(c, n, f[k]) ELSE f[n]]
  <2>2. ASSUME NEW n \in 0..k + 1
        PROVE g[n] = IF n = 0 THEN 0 ELSE Step(c, n, g[n - 1])
    <3>1. CASE n = k + 1
      BY <3>1
    <3>2. CASE n # k + 1
      <4>1. n \in 0..k /\ g[n] = f[n] /\ (n # 0 => g[n - 1] = f[n - 1])
        BY <3>2
      <4>2. f[n] = IF n = 0 THEN 0 ELSE Step(c, n, f[n - 1])
        BY <2>1, <4>1, ZenonT(60) DEF Scans
      <4> HIDE DEF g
      <4> QED BY <4>1, <4>2, ZenonT(60)
    <3> QED BY <3>1, <3>2, ZenonT(60)
  <2>3. Scans(c, k + 1, g)
    <3>1. g = [n \in 0..k + 1 |-> g[n]]
      OBVIOUS
    <3> HIDE DEF g
    <3> QED BY <2>2, <3>1, ZenonT(60) DEF Scans
  <2> QED BY <2>3
<1> HIDE DEF S
<1>3. Nat \subseteq S
  BY <1>1, <1>2, Induction
<1> QED BY <1>3 DEF S

(* scan is the value of that loop after the last source.                   *)
LEMMA ScanRuns ==
  ASSUME NEW c
  PROVE \E f : Scans(c, kSourceCount, f) /\ scan(c) = f[kSourceCount]
<1>1. \E f : Scans(c, kSourceCount, f)
  BY ScanExists, PlicAssumption
<1>2. \E f : f = [n \in 0..kSourceCount |-> IF n = 0 THEN 0
                  ELSE IF Candidate(c, n) /\ Replaces(n, f[n - 1]) THEN n ELSE f[n - 1]]
  BY <1>1, ZenonT(60) DEF Scans, Step
<1> QED BY <1>2 DEF Scans, Step, scan

(* s wins the arbitration among the sources up to k.                       *)
Wins(c, k, s) ==
  /\ s \in 1..k /\ Candidate(c, s)
  /\ \A t \in (1..k) \ {s} : Candidate(c, t) =>
       priority[t] < priority[s] \/ (priority[t] = priority[s] /\ s < t)

(* After source k the loop holds the winner among the sources up to k, or  *)
(* 0 when none of them is a candidate.                                     *)
Selects(c, k, s) ==
  \/ s = 0 /\ \A t \in 1..k : ~Candidate(c, t)
  \/ Wins(c, k, s)

(* One iteration keeps that.                                               *)
LEMMA StepSelects ==
  ASSUME PlicTypeOK, NEW c \in Context, NEW k \in Nat, k + 1 \in Source,
         NEW s, Selects(c, k, s)
  PROVE Selects(c, k + 1, Step(c, k + 1, s))
<1>1. \A t \in 1..k + 1 : t \in 1..k \/ t = k + 1
  OBVIOUS
<1>2. \A t \in Source : priority[t] \in Nat
  BY PlicAssumption DEF PlicTypeOK, Priority
<1>3. \A t \in 1..k + 1 : t \in Source /\ t \in Nat
  BY PlicAssumption DEF Source
<1>4. CASE s = 0 /\ \A t \in 1..k : ~Candidate(c, t)
  BY <1>1, <1>4 DEF Selects, Wins, Step, Replaces
<1>5. CASE Wins(c, k, s)
  <2>1. s \in 1..k /\ s # 0 /\ s < k + 1
    BY <1>5 DEF Wins
  <2>2. CASE Candidate(c, k + 1) /\ Replaces(k + 1, s)
    <3>1. Step(c, k + 1, s) = k + 1 /\ priority[k + 1] > priority[s]
      BY <2>1, <2>2 DEF Step, Replaces
    <3>2. ASSUME NEW t \in 1..k, Candidate(c, t) PROVE priority[t] < priority[k + 1]
      <4>1. t = s \/ priority[t] < priority[s] \/ priority[t] = priority[s]
        BY <1>5, <3>2 DEF Wins
      <4> QED BY <1>2, <1>3, <2>1, <3>1, <4>1
    <3> QED BY <1>1, <2>2, <3>1, <3>2 DEF Selects, Wins
  <2>3. CASE ~(Candidate(c, k + 1) /\ Replaces(k + 1, s))
    <3>1. Step(c, k + 1, s) = s
      BY <2>3 DEF Step
    <3>2. Candidate(c, k + 1) =>
            priority[k + 1] < priority[s] \/ (priority[k + 1] = priority[s] /\ s < k + 1)
      BY <1>2, <1>3, <2>1, <2>3 DEF Replaces
    <3> QED BY <1>1, <1>5, <2>1, <3>1, <3>2 DEF Selects, Wins
  <2> QED BY <2>2, <2>3
<1> QED BY <1>4, <1>5 DEF Selects

(* After the last source the loop holds the winner of the arbitration.     *)
LEMMA ScanWins ==
  ASSUME PlicTypeOK, NEW c \in Context
  PROVE Selects(c, kSourceCount, scan(c))
<1>1. PICK f : Scans(c, kSourceCount, f) /\ scan(c) = f[kSourceCount]
  BY ScanRuns
<1> DEFINE S == {k \in Nat : k <= kSourceCount => Selects(c, k, f[k])}
<1>2. \A n \in 0..kSourceCount : f[n] = IF n = 0 THEN 0 ELSE Step(c, n, f[n - 1])
  BY <1>1, ZenonT(60) DEF Scans
<1>3. 0 \in S
  BY <1>2, PlicAssumption DEF Selects
<1>4. ASSUME NEW k \in Nat, k \in S PROVE k + 1 \in S
  <2> SUFFICES ASSUME k + 1 <= kSourceCount PROVE Selects(c, k + 1, f[k + 1])
    OBVIOUS
  <2>1. k + 1 \in Source /\ k + 1 \in 0..kSourceCount /\ k + 1 # 0 /\ (k + 1) - 1 = k
        /\ k <= kSourceCount
    BY PlicAssumption DEF Source
  <2>2. Selects(c, k, f[k]) /\ f[k + 1] = Step(c, k + 1, f[k])
    BY <1>2, <1>4, <2>1
  <2> QED BY <2>1, <2>2, StepSelects
<1> HIDE DEF S
<1>5. kSourceCount \in S
  BY <1>3, <1>4, Induction, PlicAssumption
<1> QED BY <1>1, <1>5, PlicAssumption DEF S

(* The scan and the arbitration rule agree in every state.                 *)
LEMMA ScanCorrect == PlicTypeOK => ScanSelects
<1> SUFFICES ASSUME PlicTypeOK, NEW c \in Context
             PROVE select(c) = IF scan(c) = 0 THEN {} ELSE {scan(c)}
  BY DEF ScanSelects
<1>1. CASE scan(c) = 0
  <2>1. \A t \in Source : ~Candidate(c, t)
    BY <1>1, ScanWins, PlicAssumption DEF Selects, Wins, Source
  <2> QED BY <1>1, <2>1 DEF select
<1>2. CASE scan(c) # 0
  <2>1. scan(c) \in select(c)
    BY <1>2, ScanWins, ZenonT(60) DEF Selects, Wins, Source, select
  <2> QED BY <1>2, <2>1, SelectUnique
<1> QED BY <1>1, <1>2

(* The loop of Plic::select computes the arbitration rule in every         *)
(* reachable state, for any number of sources.                             *)
THEOREM ScanArbitrates == PlicSpec => []ScanSelects
BY ScanCorrect, PlicTypeCorrect, PTL

-----------------------------------------------------------------------------
(* The timer.                                                              *)

Fresh ==
  phase = "hart" => mtip = AtOrAfter(mtime, mtimecmp) /\ msipp = msip

SplitShape ==
  /\ driver = "split_high" => mtimecmp.hi = old.hi /\ mtimecmp.lo = Base - 1
  /\ driver = "split_low" => mtimecmp.hi = target.hi /\ mtimecmp.lo = Base - 1

(* The read that is in progress, or that a handler interrupted.            *)
Reading(point) == driver = point \/ (driver \in {"handler", "return"} /\ resume = point)

Between(t) == AtOrAfter(t, start) /\ AtOrAfter(mtime, t)

ReadShape ==
  /\ ~wrapped /\ (Reading("read_low") \/ Reading("read_check")) =>
       high = start.hi /\ AtOrAfter(mtime, start)
  /\ ~wrapped /\ Reading("read_check") => \E h \in Half : Between([hi |-> h, lo |-> low])

(* Halves are naturals, so the order on pairs can be reasoned about.       *)
LEMMA HalfFacts == Half \subseteq Nat /\ 0 \in Half /\ Base - 1 \in Half /\
                   \A h \in Half : h <= Base - 1
BY ClintAssumption DEF Half

(* The order on timer values is reflexive and transitive.                  *)
LEMMA Order ==
  /\ \A a \in Timer : AtOrAfter(a, a)
  /\ \A a, b, c \in Timer : AtOrAfter(a, b) /\ AtOrAfter(b, c) => AtOrAfter(a, c)
<1>1. \A t \in Timer : t.hi \in Nat /\ t.lo \in Nat
  BY HalfFacts, ZenonT(60) DEF Timer
<1>2. ASSUME NEW a \in Timer PROVE AtOrAfter(a, a)
  BY <1>1 DEF AtOrAfter
<1>3. ASSUME NEW a \in Timer, NEW b \in Timer, NEW c \in Timer,
             AtOrAfter(a, b), AtOrAfter(b, c)
      PROVE AtOrAfter(a, c)
  BY <1>1, <1>3 DEF AtOrAfter
<1> QED
  BY <1>2, <1>3

(* Registers stay in range when the timer advances.                        *)
LEMMA AdvanceTyped == \A t \in Timer : advance(t) \in Timer
<1> SUFFICES ASSUME NEW t \in Timer PROVE advance(t) \in Timer
  OBVIOUS
<1>1. t.lo \in 0..(Base - 1) /\ t.hi \in 0..(Base - 1)
  BY DEF Timer, Half
<1>2. CASE t.lo + Ticks < Base
  BY <1>1, <1>2, ClintAssumption DEF Timer, Half, advance
<1>3. CASE ~(t.lo + Ticks < Base)
  <2>1. t.lo + Ticks - Base \in 0..(Base - 1)
    BY <1>1, <1>3, ClintAssumption
  <2>2. (IF t.hi + 1 < Base THEN t.hi + 1 ELSE 0) \in 0..(Base - 1)
    BY <1>1, ClintAssumption
  <2> QED
    BY <1>3, <2>1, <2>2 DEF Timer, Half, advance
<1> QED
  BY <1>2, <1>3

(* A store to one half of a register leaves a register value.              *)
LEMMA WriteTyped ==
  \A t \in Timer, h \in Half :
    /\ write_low(t, h) \in Timer /\ write_low(t, h).hi = t.hi /\ write_low(t, h).lo = h
    /\ write_high(t, h) \in Timer /\ write_high(t, h).lo = t.lo /\ write_high(t, h).hi = h
BY DEF Timer, write_low, write_high

(* The initial state satisfies the invariant.                              *)
LEMMA InitClint == ClintInit => ClintTypeOK /\ Fresh /\ SplitShape /\ ReadShape
<1> SUFFICES ASSUME ClintInit PROVE ClintTypeOK /\ Fresh /\ SplitShape /\ ReadShape
  OBVIOUS
<1>1. Zero \in Timer /\ Top \in Timer
  BY HalfFacts DEF Zero, Top, Timer
<1>2. ClintTypeOK
  BY <1>1, HalfFacts, ZenonT(60) DEF ClintInit, ClintTypeOK, Point, Masked
<1> QED
  BY <1>2 DEF ClintInit, Fresh, SplitShape, ReadShape, Reading

(* Every step keeps the types.                                             *)
LEMMA TypeStep ==
  ASSUME ClintTypeOK, [ClintNext]_clintVars
  PROVE ClintTypeOK'
<1> USE DEF ClintTypeOK
<1>0. /\ mtime.hi \in Half /\ mtime.lo \in Half
      /\ target.hi \in Half /\ target.lo \in Half
      /\ Top \in Timer /\ Base - 1 \in Half /\ 0 \in Half
  BY HalfFacts, ZenonT(60) DEF Timer, Top
<1>1. CASE synchronize_devices
  <2>1. mtime' \in Timer
    BY <1>1, AdvanceTyped, ZenonT(60) DEF synchronize_devices
  <2>2. mtip' \in BOOLEAN /\ wrapped' \in BOOLEAN
    BY <1>1 DEF synchronize_devices, synchronize, timer_pending, AtOrAfter
  <2> QED
    BY <1>1, <2>1, <2>2, ZenonT(60) DEF synchronize_devices, synchronize, readVars, updateVars
<1>2. CASE take_interrupt
  BY <1>2, ZenonT(60) DEF take_interrupt, deviceVars, pendingVars, readVars, updateVars, Enabled,
     Point, Masked
<1>3. CASE Stall
  BY <1>3, ZenonT(60) DEF Stall, deviceVars, pendingVars, readVars, updateVars
<1>4. CASE wfi
  BY <1>4, ZenonT(60) DEF wfi, Instruction, deviceVars, pendingVars, readVars, updateVars
<1>5. ASSUME NEW value \in Timer, SetTimer(value) \/ SetTime(value) \/ SplitFirst(value)
      PROVE ClintTypeOK'
  <2>1. write_low(mtimecmp, Base - 1) \in Timer
    BY <1>0, WriteTyped
  <2>2. CASE SetTimer(value)
    BY <2>2, ZenonT(60) DEF SetTimer, write_double, Instruction, pendingVars, readVars, updateVars
  <2>3. CASE SetTime(value)
    BY <2>3, ZenonT(60) DEF SetTime, write_double, Instruction, pendingVars, readVars, updateVars
  <2>4. CASE SplitFirst(value)
    BY <2>1, <2>4, ZenonT(60) DEF SplitFirst, Instruction, pendingVars, readVars, Point, Masked
  <2> QED
    BY <1>5, <2>2, <2>3, <2>4, ZenonT(60)
<1>6. CASE SplitSecond \/ SplitThird
  <2>1. write_high(mtimecmp, target.hi) \in Timer /\ write_low(mtimecmp, target.lo) \in Timer
    BY <1>0, WriteTyped, ZenonT(60)
  <2>2. CASE SplitSecond
    BY <2>1, <2>2, ZenonT(60)
       DEF SplitSecond, Instruction, pendingVars, readVars, updateVars, Point,
       Masked
  <2>3. CASE SplitThird
    BY <1>0, <2>1, <2>3, ZenonT(60)
       DEF SplitThird, Instruction, pendingVars, readVars, Point, Masked
  <2> QED
    BY <1>6, <2>2, <2>3, ZenonT(60)
<1>7. CASE ReadHigh \/ ReadLow \/ ReadCheck
  <2>1. Zero \in Timer
    BY HalfFacts DEF Zero, Timer
  <2>2. CASE ReadHigh \/ ReadLow
    BY <1>0, <2>2, ZenonT(60) DEF ReadHigh, ReadLow, read_high, read_low, Instruction,
       deviceVars, pendingVars, readVars, updateVars, Point, Masked
  <2>3. CASE ReadCheck
    BY <1>0, <2>1, <2>3, HalfFacts, ZenonT(60) DEF ReadCheck, read_high, Instruction,
       deviceVars, pendingVars, readVars, updateVars, Point, Masked
  <2> QED
    BY <1>7, <2>2, <2>3, ZenonT(60)
<1>8. CASE SendSoftware
  BY <1>8, ZenonT(60) DEF SendSoftware, Instruction, pendingVars, readVars, updateVars
<1>9. CASE Serve
  <2>1. mtimecmp' \in Timer /\ msip' \in BOOLEAN
    BY <1>9, ZenonT(60) DEF Serve, write_double
  <2> QED
    BY <1>9, <2>1, ZenonT(60)
       DEF Serve, Instruction, pendingVars, readVars, updateVars, Point, Masked
<1>10. CASE Return
  BY <1>10, ZenonT(60) DEF Return, deviceVars, pendingVars, readVars, updateVars, Point, Masked
<1>11. CASE UNCHANGED clintVars
  BY <1>11, ZenonT(60) DEF clintVars, deviceVars, pendingVars, readVars, updateVars
<1> QED
  BY <1>1, <1>2, <1>3, <1>4, <1>5, <1>6, <1>7, <1>8, <1>9, <1>10, <1>11, ZenonT(60) DEF ClintNext

(* The pending bits agree with the device whenever the hart runs, because  *)
(* only synchronize_devices leads there.                                   *)
LEMMA FreshStep ==
  ASSUME ClintTypeOK, Fresh, [ClintNext]_clintVars
  PROVE Fresh'
<1>1. CASE synchronize_devices
  BY <1>1 DEF synchronize_devices, synchronize, timer_pending, Fresh
<1>2. CASE UNCHANGED clintVars
  BY <1>2 DEF clintVars, deviceVars, pendingVars, Fresh
<1>3. CASE phase' = "sync"
  BY <1>3 DEF Fresh
<1> QED
  BY <1>1, <1>2, <1>3, ZenonT(60) DEF ClintNext, take_interrupt, Stall, wfi, SetTimer, SetTime,
     SplitFirst, SplitSecond, SplitThird, ReadHigh, ReadLow, ReadCheck, SendSoftware,
     Serve, Return, Instruction

(* mtimecmp between the stores of a split update.                          *)
LEMMA SplitStep ==
  ASSUME ClintTypeOK, SplitShape, [ClintNext]_clintVars
  PROVE SplitShape'
<1> USE DEF SplitShape
<1>0. mtimecmp \in Timer /\ Base - 1 \in Half /\ target.hi \in Half
  BY HalfFacts, ZenonT(60) DEF ClintTypeOK, Timer
<1>1. CASE synchronize_devices
  BY <1>1, ZenonT(60) DEF synchronize_devices, updateVars
<1>2. CASE \E value \in Timer : SplitFirst(value)
  <2> DEFINE first == write_low(mtimecmp, Base - 1)
  <2>1. first.hi = mtimecmp.hi /\ first.lo = Base - 1
    BY <1>0, WriteTyped, ZenonT(60)
  <2>2. mtimecmp' = first /\ old' = mtimecmp /\ driver' = "split_high"
    BY <1>2, ZenonT(60) DEF SplitFirst, Instruction
  <2> QED
    BY <2>1, <2>2, ZenonT(60)
<1>3. CASE SplitSecond
  <2> DEFINE second == write_high(mtimecmp, target.hi)
  <2>1. second.hi = target.hi /\ second.lo = mtimecmp.lo
    BY <1>0, WriteTyped, ZenonT(60)
  <2>2. /\ mtimecmp' = second /\ UNCHANGED updateVars
        /\ driver = "split_high" /\ driver' = "split_low"
    BY <1>3, ZenonT(60) DEF SplitSecond, Instruction
  <2> HIDE DEF second
  <2> QED
    BY <2>1, <2>2, ZenonT(60) DEF updateVars
<1>4. CASE UNCHANGED clintVars \/ Stall
  BY <1>4, ZenonT(60) DEF clintVars, deviceVars, updateVars, Stall
<1>5. CASE driver' \notin {"split_high", "split_low"}
  BY <1>5
<1> QED
  BY <1>1, <1>2, <1>3, <1>4, <1>5, ZenonT(60) DEF ClintNext, take_interrupt, wfi, SetTimer, SetTime,
     SplitThird, ReadHigh, ReadLow, ReadCheck, SendSoftware, Serve, Return, Instruction,
     ClintTypeOK, Point, Masked

(* A read in progress: while the counter does not wrap it only grows, so   *)
(* the halves read so far come from times between start and now.           *)
LEMMA ReadStep ==
  ASSUME ClintTypeOK, ReadShape, [ClintNext]_clintVars
  PROVE ReadShape'
<1>0. mtime \in Timer /\ start \in Timer /\ mtime' \in Timer /\ low \in Half
  BY TypeStep, ZenonT(60) DEF ClintTypeOK
<1>1. CASE synchronize_devices
  <2>1. /\ UNCHANGED <<driver, resume, high, low, start>>
        /\ ~wrapped' => ~wrapped /\ AtOrAfter(mtime', mtime)
    BY <1>1 DEF synchronize_devices, readVars
  <2>2. ASSUME ~wrapped', Reading("read_low") \/ Reading("read_check")
        PROVE high = start.hi /\ AtOrAfter(mtime', start)
    <3>1. high = start.hi /\ AtOrAfter(mtime, start) /\ AtOrAfter(mtime', mtime)
      BY <2>1, <2>2, ZenonT(60) DEF ReadShape
    <3> QED
      BY <1>0, <3>1, Order
  <2>3. ASSUME ~wrapped', Reading("read_check")
        PROVE \E h \in Half : AtOrAfter([hi |-> h, lo |-> low], start)
                               /\ AtOrAfter(mtime', [hi |-> h, lo |-> low])
    <3>1. PICK h \in Half : AtOrAfter([hi |-> h, lo |-> low], start)
                            /\ AtOrAfter(mtime, [hi |-> h, lo |-> low])
      BY <2>1, <2>3, ZenonT(60) DEF ReadShape, Between
    <3>2. [hi |-> h, lo |-> low] \in Timer
      BY <1>0 DEF Timer
    <3>3. AtOrAfter(mtime', [hi |-> h, lo |-> low])
      BY <1>0, <2>1, <2>3, <3>1, <3>2, Order, ZenonT(60)
    <3> QED
      BY <3>1, <3>3
  <2> QED
    BY <2>1, <2>2, <2>3, ZenonT(60) DEF ReadShape, Reading, Between
<1>2. CASE ReadHigh
  <2>1. /\ high' = mtime.hi /\ start' = mtime /\ mtime' = mtime /\ driver' = "read_low"
    BY <1>2 DEF ReadHigh, read_high, Instruction, deviceVars
  <2> QED
    BY <1>0, <2>1, Order, ZenonT(60) DEF ReadShape, Reading
<1>3. CASE ReadLow
  <2>1. /\ driver = "read_low" /\ driver' = "read_check"
        /\ low' = mtime.lo /\ UNCHANGED <<mtime, high, start, wrapped>>
    BY <1>3 DEF ReadLow, read_low, Instruction, deviceVars
  <2>2. ~wrapped => high = start.hi /\ AtOrAfter(mtime, start)
    BY <2>1, ZenonT(60) DEF ReadShape, Reading
  <2>3. mtime.hi \in Half /\ mtime = [hi |-> mtime.hi, lo |-> mtime.lo]
    BY <1>0 DEF Timer
  <2>4. ~wrapped => Between([hi |-> mtime.hi, lo |-> mtime.lo])
    BY <1>0, <2>2, <2>3, Order, ZenonT(60) DEF Between
  <2>5. ~wrapped' => \E h \in Half : AtOrAfter([hi |-> h, lo |-> low'], start')
                                    /\ AtOrAfter(mtime', [hi |-> h, lo |-> low'])
    BY <2>1, <2>3, <2>4 DEF Between
  <2> QED
    BY <2>1, <2>2, <2>5, ZenonT(60) DEF ReadShape, Reading, Between
<1>4. CASE ReadCheck
  <2>1. CASE driver' = "main"
    BY <2>1, ZenonT(60) DEF ReadShape, Reading
  <2>2. CASE driver' = "read_low"
    <3>1. high' = mtime.hi /\ start' = mtime /\ mtime' = mtime
      BY <1>4, <2>2 DEF ReadCheck, read_high, Instruction, deviceVars
    <3> QED
      BY <1>0, <2>2, <3>1, Order, ZenonT(60) DEF ReadShape, Reading
  <2> QED
    BY <1>4, <2>1, <2>2 DEF ReadCheck, Instruction
<1>5. CASE take_interrupt \/ Serve \/ Return \/ Stall \/ UNCHANGED clintVars
  <2>1. UNCHANGED <<mtime, high, low, start, wrapped>>
    BY <1>5, ZenonT(60) DEF take_interrupt, Serve, Return, Stall, clintVars, deviceVars, readVars,
       Instruction
  <2>2. \A point \in {"read_low", "read_check"} : Reading(point)' => Reading(point)
    BY <1>5, ZenonT(60) DEF take_interrupt, Serve, Return, Stall, clintVars, Instruction, Reading,
       Enabled, Masked
  <2> QED
    BY <2>1, <2>2, ZenonT(60) DEF ReadShape, Between
<1>6. CASE driver' \in {"main", "split_high", "split_low"}
  BY <1>6, ZenonT(60) DEF ReadShape, Reading
<1> QED
  BY <1>1, <1>2, <1>3, <1>4, <1>5, <1>6, ZenonT(60)
  DEF ClintNext, wfi, SetTimer, SetTime, SplitFirst,
     SplitSecond, SplitThird, SendSoftware, Instruction

ClintInv == ClintTypeOK /\ Fresh /\ SplitShape /\ ReadShape

(* The conjunction is inductive.                                           *)
LEMMA NextClint == ClintInv /\ [ClintNext]_clintVars => ClintInv'
BY TypeStep, FreshStep, SplitStep, ReadStep DEF ClintInv

(* Raising one half of mtimecmp to its maximum only postpones the          *)
(* deadline, so MTIP during a split update is due to the old or the new    *)
(* deadline.                                                               *)
LEMMA SplitSafe == ClintInv => NoTransient
<1> SUFFICES ASSUME ClintInv, driver \in {"split_high", "split_low"}, phase = "hart", mtip
             PROVE AtOrAfter(mtime, old) \/ AtOrAfter(mtime, target)
  BY DEF NoTransient
<1>1. /\ mtime.hi \in Nat /\ mtime.lo \in Nat /\ mtimecmp.hi \in Nat /\ mtimecmp.lo \in Nat
      /\ old.hi \in Nat /\ old.lo \in Nat /\ target.hi \in Nat /\ target.lo \in Nat
      /\ old.lo <= Base - 1 /\ target.lo <= Base - 1 /\ Base \in Nat
  BY HalfFacts, ClintAssumption, ZenonT(60) DEF ClintInv, ClintTypeOK, Timer
<1>2. AtOrAfter(mtime, mtimecmp)
  BY DEF ClintInv, Fresh
<1>3. CASE driver = "split_high"
  BY <1>1, <1>2, <1>3 DEF ClintInv, SplitShape, AtOrAfter
<1>4. CASE driver = "split_low"
  BY <1>1, <1>2, <1>4 DEF ClintInv, SplitShape, AtOrAfter
<1> QED
  BY <1>3, <1>4, ZenonT(60)

(* Type correctness and the absence of transient timer interrupts.         *)
THEOREM ClintInvariants == ClintSpec => [](ClintTypeOK /\ NoTransient)
<1>1. ClintInit => ClintInv
  BY InitClint DEF ClintInv
<1>2. ClintInv => ClintTypeOK /\ NoTransient
  BY SplitSafe DEF ClintInv
<1> QED
  BY <1>1, <1>2, NextClint, PTL DEF ClintSpec

(* An interrupt is only taken when the device asks for one at that moment. *)
THEOREM ClintInterruptGenuine == ClintSpec => InterruptGenuine
<1>1. ClintInit => ClintInv
  BY InitClint DEF ClintInv
<1>2. ASSUME ClintInv, [ClintNext]_clintVars, driver' = "handler", driver # "handler"
      PROVE msip \/ AtOrAfter(mtime, mtimecmp)
  <2>1. take_interrupt
    BY <1>2, ZenonT(60)
    DEF ClintNext, synchronize_devices, Stall, wfi, SetTimer, SetTime, SplitFirst,
       SplitSecond, SplitThird, ReadHigh, ReadLow, ReadCheck, SendSoftware, Serve, Return,
       Instruction, clintVars, ClintInv, ClintTypeOK, Masked
  <2> QED
    BY <1>2, <2>1 DEF take_interrupt, ClintInv, Fresh
<1>3. ClintInv /\ [ClintNext]_clintVars =>
        [driver' = "handler" /\ driver # "handler" => msip \/ AtOrAfter(mtime, mtimecmp)]_clintVars
  BY <1>2
<1> QED
  BY <1>1, <1>3, NextClint, PTL DEF ClintSpec, InterruptGenuine

(* A time read in two halves lies between the start and the end of the     *)
(* read.                                                                   *)
THEOREM ClintReadConsistent == ClintSpec => ReadConsistent
<1>1. ClintInit => ClintInv
  BY InitClint DEF ClintInv
<1>2. ASSUME ClintInv, [ClintNext]_clintVars, driver = "read_check", driver' = "main", ~wrapped
      PROVE AtOrAfter([hi |-> high, lo |-> low], start)
              /\ AtOrAfter(mtime, [hi |-> high, lo |-> low])
  <2>1. ReadCheck /\ mtime.hi = high
    BY <1>2, ZenonT(60)
    DEF ClintNext, synchronize_devices, take_interrupt, Stall, wfi, SetTimer,
       SetTime, SplitFirst, SplitSecond, SplitThird, ReadHigh, ReadLow, ReadCheck,
       SendSoftware, Serve, Return, Instruction, clintVars, read_high
  <2>2. high = start.hi /\ \E h \in Half : Between([hi |-> h, lo |-> low])
    BY <1>2, ZenonT(60) DEF ClintInv, ReadShape, Reading
  <2>3. PICK h \in Half : Between([hi |-> h, lo |-> low])
    BY <2>2
  <2>4. h \in Nat /\ high \in Nat /\ mtime.hi \in Nat /\ start.hi \in Nat
    BY <1>2, HalfFacts, ZenonT(60) DEF ClintInv, ClintTypeOK, Timer
  <2>5. h = high
    BY <2>1, <2>2, <2>3, <2>4 DEF Between, AtOrAfter
  <2> QED
    BY <2>3, <2>5 DEF Between
<1>3. ClintInv /\ [ClintNext]_clintVars =>
        [driver = "read_check" /\ driver' = "main" /\ ~wrapped =>
           AtOrAfter([hi |-> high, lo |-> low], start)
             /\ AtOrAfter(mtime, [hi |-> high, lo |-> low])]_clintVars
  BY <1>2, ZenonT(60)
<1> QED
  BY <1>1, <1>3, NextClint, PTL DEF ClintSpec, ReadConsistent

-----------------------------------------------------------------------------
(* The process.                                                            *)

(* Before the first handler, with one handler, with both.                  *)
Start == {"parse_cli", "built", "install_int"}
OneHandler == {"install_term", "uninstall_int"}
Raising == {"isatty", "tcgetattr", "getfl", "make_raw", "set_nonblock"}
Turning == {"loop", "process_one", "run_once"}
Restoring == {"restore_termios", "restore_flags", "restore_int"}

HandlerShape ==
  /\ pc \in Start => handler["SIGINT"] = "default" /\ handler["SIGTERM"] = "default"
  /\ pc \in OneHandler => handler["SIGINT"] = "stop" /\ handler["SIGTERM"] = "default"
  /\ pc \in Raising \cup Turning \cup Restoring =>
       handler["SIGINT"] = "stop" /\ handler["SIGTERM"] = "stop"
  /\ pc = "restore_term" => handler["SIGINT"] = "default" \/ "SIGINT" \in failed

(* What activate_raw has saved and changed, and restore changed back.      *)
TerminalShape ==
  /\ pc \in Start \cup OneHandler \cup {"isatty", "tcgetattr", "getfl", "make_raw"} =>
       termios = "cooked" /\ ~nonblock
  /\ pc = "set_nonblock" => ~nonblock
  /\ pc \in Start \cup OneHandler \cup {"isatty", "tcgetattr", "restore_int", "restore_term"} =>
       saved = {}
  /\ pc \in {"getfl", "restore_termios"} => "termios" \in saved
  /\ pc \in {"make_raw", "set_nonblock"} \cup Turning => saved = {"termios", "flags"}
  /\ pc \in {"restore_termios", "restore_flags"} /\ nonblock => "flags" \in saved
  /\ pc \in {"restore_flags", "restore_int", "restore_term"} =>
       termios = "cooked" \/ "termios" \in failed
  /\ pc \in {"restore_int", "restore_term"} => ~nonblock \/ "flags" \in failed

(* No restoring call has been made before the first of them.               *)
RunShape ==
  /\ pc # "returned"
  /\ pc \in Start \cup OneHandler \cup Raising => run = "none"
  /\ pc \in Start \cup OneHandler \cup Raising \cup Turning \cup {"restore_termios"} => failed = {}
  /\ run \in {"none", "Success", "RuntimeIo"}
  /\ pc = "built" => machine.code \in {"Success", "Resource", "Internal", "ImageFormat"}
  /\ pc = "parse_cli" => machine = NoMachine

ProcessTypeOK ==
  /\ pc \in Start \cup OneHandler \cup Raising \cup Turning \cup Restoring
              \cup {"restore_term", "returned"}
  /\ handler \in [Signal -> {"default", "stop"}]
  /\ termios \in {"cooked", "raw"} /\ nonblock \in BOOLEAN /\ saved \subseteq {"termios", "flags"}

Running == HandlerShape /\ TerminalShape /\ RunShape

Safe == (exit = "running" => Running) /\ TerminalRestored /\ ExitHonest

ProcessInv == ProcessTypeOK /\ Safe

-----------------------------------------------------------------------------
(* Building the machine.                                                   *)

(* build_machine answers with one of four exit codes.                      *)
LEMMA BuildCodes ==
  ASSUME NEW net, NEW layout, NEW disk_opens \in BOOLEAN, NEW image
  PROVE build_machine(net, layout, disk_opens, image).code
          \in {"Success", "Resource", "Internal", "ImageFormat"}
BY DEF build_machine

(* The span of addresses of a range, and the bytes of the three images.    *)
Span(base, size) == base..(base + size - 1)

ImagesAccepted(layout, image) ==
  /\ read_binary(image.bios) /\ read_binary(image.kernel)
  /\ FdtAccepted(layout) /\ image.fdt <= layout.reserved
  /\ Placeable(layout, image)

(* One range lies in another; two ranges have no byte in common.           *)
Within(base, size, origin, room) == Span(base, size) \subseteq Span(origin, room)

Disjoint(b, s, c, t) == Span(b, s) \cap Span(c, t) = {}

(* A range inside another.                                                 *)
LEMMA SpanInside ==
  ASSUME NEW base \in Nat, NEW size \in Int, NEW origin \in Nat, NEW room \in Nat,
         base >= origin, base + size <= origin + room
  PROVE Within(base, size, origin, room)
BY DEF Within, Span

(* Two ranges that overlaps tells apart.                                   *)
LEMMA SpansApart ==
  ASSUME NEW b \in Nat, NEW s \in Int, NEW c \in Nat, NEW t \in Int,
         ~overlaps([base |-> b, size |-> s], [base |-> c, size |-> t])
  PROVE Disjoint(b, s, c, t)
BY DEF Disjoint, Span, overlaps

(* The bytes of a range.                                                   *)
LEMMA SpanMember ==
  ASSUME NEW base \in Nat, NEW size \in Nat \ {0}, NEW i \in 0..(size - 1)
  PROVE base + i \in Span(base, size) /\ (base + i) - base = i
BY DEF Span

(* The first byte of a range.                                              *)
LEMMA SpanFirst ==
  ASSUME NEW base \in Nat, NEW size \in Nat \ {0}
  PROVE 0 \in 0..(size - 1) /\ base + 0 = base
OBVIOUS

(* A size that is not zero.                                                *)
LEMMA Positive == ASSUME NEW size \in Int, size > 0 PROVE size \in Nat \ {0}
OBVIOUS

(* A natural number is an integer.                                         *)
LEMMA Natural == ASSUME NEW size \in Nat PROVE size \in Int
OBVIOUS

(* Accepted images have bytes, lie in RAM and do not meet.                 *)
LEMMA ImagesApart ==
  ASSUME NEW layout \in Layout, NEW image \in Image, ImagesAccepted(layout, image)
  PROVE /\ image.bios \in Nat \ {0} /\ image.kernel \in Nat \ {0} /\ image.fdt \in Nat \ {0}
        /\ Within(layout.bios, image.bios, layout.ram.base, layout.ram.size)
        /\ Within(layout.kernel, image.kernel, layout.ram.base, layout.ram.size)
        /\ Within(layout.fdt, image.fdt, layout.ram.base, layout.ram.size)
        /\ Disjoint(layout.bios, image.bios, layout.kernel, image.kernel)
        /\ Disjoint(layout.bios, image.bios, layout.fdt, image.fdt)
        /\ Disjoint(layout.kernel, image.kernel, layout.fdt, image.fdt)
<1> DEFINE p == Placed(layout, image)
<1>1. /\ layout.ram.base \in Nat /\ layout.ram.size \in Nat
      /\ layout.bios \in Nat /\ layout.kernel \in Nat /\ layout.fdt \in Nat
      /\ image.bios \in Int /\ image.kernel \in Int /\ image.fdt \in Nat
  BY BootAssumption, ZenonT(60)
<1>2. /\ DOMAIN p = {"bios", "kernel", "fdt"}
      /\ p.bios = [base |-> layout.bios, size |-> image.bios] /\ p["bios"] = p.bios
      /\ p.kernel = [base |-> layout.kernel, size |-> image.kernel] /\ p["kernel"] = p.kernel
      /\ p.fdt = [base |-> layout.fdt, size |-> image.fdt] /\ p["fdt"] = p.fdt
      /\ p["bios"].base = layout.bios /\ p["bios"].size = image.bios
      /\ p["kernel"].base = layout.kernel /\ p["kernel"].size = image.kernel
      /\ p["fdt"].base = layout.fdt /\ p["fdt"].size = image.fdt
  BY ZenonT(60) DEF Placed
<1>3. /\ image.bios > 0 /\ image.kernel > 0
      /\ \A n \in DOMAIN p : create(p[n].base, p[n].size)
      /\ \A n \in DOMAIN p : /\ p[n].base >= layout.ram.base
                             /\ p[n].base + p[n].size <= layout.ram.base + layout.ram.size
      /\ ~overlaps(p.bios, p.kernel) /\ ~overlaps(p.bios, p.fdt) /\ ~overlaps(p.kernel, p.fdt)
  BY ZenonT(60) DEF ImagesAccepted, Placeable, read_binary
<1> HIDE DEF p
<1>4. /\ image.fdt # 0
      /\ layout.bios >= layout.ram.base
      /\ layout.bios + image.bios <= layout.ram.base + layout.ram.size
      /\ layout.kernel >= layout.ram.base
      /\ layout.kernel + image.kernel <= layout.ram.base + layout.ram.size
      /\ layout.fdt >= layout.ram.base
      /\ layout.fdt + image.fdt <= layout.ram.base + layout.ram.size
  BY <1>2, <1>3, ZenonT(60) DEF create
<1>5. image.bios \in Nat \ {0} /\ image.kernel \in Nat \ {0} /\ image.fdt \in Nat \ {0}
        /\ image.fdt \in Int
  BY <1>1, <1>3, <1>4, Positive, Natural, ZenonT(60)
<1>6. /\ Within(layout.bios, image.bios, layout.ram.base, layout.ram.size)
      /\ Within(layout.kernel, image.kernel, layout.ram.base, layout.ram.size)
      /\ Within(layout.fdt, image.fdt, layout.ram.base, layout.ram.size)
  BY <1>1, <1>4, <1>5, SpanInside, ZenonT(60)
<1>7. /\ Disjoint(layout.bios, image.bios, layout.kernel, image.kernel)
      /\ Disjoint(layout.bios, image.bios, layout.fdt, image.fdt)
      /\ Disjoint(layout.kernel, image.kernel, layout.fdt, image.fdt)
  BY <1>1, <1>2, <1>3, <1>5, SpansApart, ZenonT(60)
<1> QED BY <1>5, <1>6, <1>7, ZenonT(60)

(* The byte at a after the three images were written.                      *)
ByteAt(layout, image, a) ==
  IF a \in Span(layout.fdt, image.fdt) THEN <<"fdt", a - layout.fdt>>
  ELSE IF a \in Span(layout.kernel, image.kernel) THEN <<"kernel", a - layout.kernel>>
  ELSE IF a \in Span(layout.bios, image.bios) THEN <<"bios", a - layout.bios>>
  ELSE <<"zero", 0>>

(* What load_boot_images returns.                                          *)
LEMMA LoadCases ==
  ASSUME NEW layout \in Layout, NEW image \in Image
  PROVE /\ ImagesAccepted(layout, image) =>
             /\ load_boot_images(layout, image).ok = TRUE
             /\ load_boot_images(layout, image).pc = layout.bios
             /\ load_boot_images(layout, image).a0 = 0
             /\ load_boot_images(layout, image).a1 = layout.fdt
             /\ load_boot_images(layout, image).memory =
                  [a \in Span(layout.ram.base, layout.ram.size) |-> ByteAt(layout, image, a)]
        /\ ~ImagesAccepted(layout, image) => load_boot_images(layout, image) = Unloaded(layout)
<1>1. CASE ImagesAccepted(layout, image)
  <2> DEFINE bios(a) == write_bytes(Blank(layout.ram)[a], a, "bios", layout.bios, image.bios)
             kernel(a) == write_bytes(bios(a), a, "kernel", layout.kernel, image.kernel)
             fdt(a) == write_bytes(kernel(a), a, "fdt", layout.fdt, image.fdt)
  <2>1. DOMAIN Blank(layout.ram) = Span(layout.ram.base, layout.ram.size)
    BY DEF Blank, Span
  <2>2. ASSUME NEW a \in Span(layout.ram.base, layout.ram.size)
        PROVE fdt(a) = ByteAt(layout, image, a)
    <3>1. Blank(layout.ram)[a] = <<"zero", 0>>
      BY <2>2, ZenonT(60) DEF Blank, Span
    <3> QED BY <3>1, ZenonT(60) DEF write_bytes, ByteAt, Span
  <2>3. [a \in DOMAIN Blank(layout.ram) |-> fdt(a)]
          = [a \in Span(layout.ram.base, layout.ram.size) |-> ByteAt(layout, image, a)]
    BY <2>1, <2>2, ZenonT(60)
  <2> DEFINE memory == [a \in DOMAIN Blank(layout.ram) |-> fdt(a)]
  <2>4. load_boot_images(layout, image) =
          [ok |-> TRUE, memory |-> memory, pc |-> layout.bios, a0 |-> 0, a1 |-> layout.fdt]
    BY <1>1, ZenonT(60) DEF load_boot_images, ImagesAccepted
  <2>5. memory = [a \in Span(layout.ram.base, layout.ram.size) |-> ByteAt(layout, image, a)]
    BY <2>3, ZenonT(60)
  <2> HIDE DEF bios, kernel, fdt, memory
  <2>6. /\ load_boot_images(layout, image).ok = TRUE
        /\ load_boot_images(layout, image).pc = layout.bios
        /\ load_boot_images(layout, image).a0 = 0
        /\ load_boot_images(layout, image).a1 = layout.fdt
        /\ load_boot_images(layout, image).memory = memory
    BY <2>4
  <2> QED BY <1>1, <2>5, <2>6, ZenonT(60)
<1>2. CASE ~ImagesAccepted(layout, image)
  BY <1>2, ZenonT(60) DEF load_boot_images, ImagesAccepted
<1> QED BY <1>1, <1>2, ZenonT(60)

(* A region that does not overlap RAM answers no RAM address.              *)
LEMMA RamAlone ==
  ASSUME NEW layout \in Layout, RegionsAccepted(layout.ram),
         NEW a \in Span(layout.ram.base, layout.ram.size)
  PROVE /\ \A d \in Device : ~contains_address(d, a)
        /\ locate(layout.ram, a, 1) = {layout.ram}
<1>1. layout.ram.base \in Nat /\ layout.ram.size \in Nat
  BY BootAssumption, ZenonT(60)
<1>2. ASSUME NEW d \in Device PROVE ~contains_address(d, a)
  <2>1. d.base \in Nat /\ d.size \in Nat /\ ~overlaps(d, layout.ram)
    BY BootAssumption, ZenonT(60) DEF RegionsAccepted
  <2> QED BY <1>1, <2>1 DEF overlaps, contains_address, Span
<1>3. contains_span(layout.ram, a, 1)
  BY <1>1 DEF contains_span, contains_address, Span
<1>4. \A d \in Device : ~contains_span(d, a, 1)
  BY <1>2 DEF contains_span
<1> QED BY <1>2, <1>3, <1>4, ZenonT(60) DEF locate

(* A machine that was not loaded has only zeros in RAM.                    *)
LEMMA UnloadedBlank ==
  ASSUME NEW layout
  PROVE \A a \in DOMAIN Unloaded(layout).memory : Unloaded(layout).memory[a][1] = "zero"
BY ZenonT(60) DEF Unloaded, Blank

(* An image is where it was put.                                           *)
LEMMA ImageInPlace ==
  ASSUME NEW layout \in Layout, NEW image \in Image, ImagesAccepted(layout, image)
  PROVE /\ \A i \in 0..(image.bios - 1) :
             /\ layout.bios + i \in Span(layout.ram.base, layout.ram.size)
             /\ ByteAt(layout, image, layout.bios + i) = <<"bios", i>>
        /\ \A i \in 0..(image.kernel - 1) :
             /\ layout.kernel + i \in Span(layout.ram.base, layout.ram.size)
             /\ ByteAt(layout, image, layout.kernel + i) = <<"kernel", i>>
        /\ \A i \in 0..(image.fdt - 1) :
             /\ layout.fdt + i \in Span(layout.ram.base, layout.ram.size)
             /\ ByteAt(layout, image, layout.fdt + i) = <<"fdt", i>>
<1>1. layout.bios \in Nat /\ layout.kernel \in Nat /\ layout.fdt \in Nat
  BY BootAssumption, ZenonT(60)
<1>2. ASSUME NEW i \in 0..(image.bios - 1)
      PROVE /\ layout.bios + i \in Span(layout.ram.base, layout.ram.size)
            /\ ByteAt(layout, image, layout.bios + i) = <<"bios", i>>
  <2>1. layout.bios + i \in Span(layout.bios, image.bios) /\ (layout.bios + i) - layout.bios = i
    BY <1>1, ImagesApart, SpanMember, ZenonT(60)
  <2>2. /\ layout.bios + i \in Span(layout.ram.base, layout.ram.size)
        /\ layout.bios + i \notin Span(layout.kernel, image.kernel)
        /\ layout.bios + i \notin Span(layout.fdt, image.fdt)
    BY <2>1, ImagesApart, ZenonT(60) DEF Within, Disjoint
  <2> QED BY <2>1, <2>2, ZenonT(60) DEF ByteAt
<1>3. ASSUME NEW i \in 0..(image.kernel - 1)
      PROVE /\ layout.kernel + i \in Span(layout.ram.base, layout.ram.size)
            /\ ByteAt(layout, image, layout.kernel + i) = <<"kernel", i>>
  <2>1. layout.kernel + i \in Span(layout.kernel, image.kernel)
          /\ (layout.kernel + i) - layout.kernel = i
    BY <1>1, ImagesApart, SpanMember, ZenonT(60)
  <2>2. /\ layout.kernel + i \in Span(layout.ram.base, layout.ram.size)
        /\ layout.kernel + i \notin Span(layout.fdt, image.fdt)
    BY <2>1, ImagesApart, ZenonT(60) DEF Within, Disjoint
  <2> QED BY <2>1, <2>2, ZenonT(60) DEF ByteAt
<1>4. ASSUME NEW i \in 0..(image.fdt - 1)
      PROVE /\ layout.fdt + i \in Span(layout.ram.base, layout.ram.size)
            /\ ByteAt(layout, image, layout.fdt + i) = <<"fdt", i>>
  <2>1. layout.fdt + i \in Span(layout.fdt, image.fdt) /\ (layout.fdt + i) - layout.fdt = i
    BY <1>1, ImagesApart, SpanMember, ZenonT(60)
  <2>2. layout.fdt + i \in Span(layout.ram.base, layout.ram.size)
    BY <2>1, ImagesApart, ZenonT(60) DEF Within, Disjoint
  <2> QED BY <2>1, <2>2, ZenonT(60) DEF ByteAt
<1> QED BY <1>2, <1>3, <1>4, ZenonT(60)

(* A machine that build_machine returns is loaded, or has nothing loaded.  *)
LEMMA BuildLoads ==
  ASSUME NEW net, NEW layout \in Layout, NEW disk_opens \in BOOLEAN, NEW image \in Image
  PROVE MachineLoaded(build_machine(net, layout, disk_opens, image))
<1> DEFINE m == build_machine(net, layout, disk_opens, image)
           loaded == load_boot_images(layout, image)
<1>1. /\ m.layout = layout /\ m.image = image
      /\ \/ m.boot = Unloaded(layout) /\ m.code \in {"Resource", "Internal"}
         \/ /\ m.boot = loaded /\ RegionsAccepted(layout.ram)
            /\ m.code = IF loaded.ok THEN "Success" ELSE "ImageFormat"
  BY DEF build_machine
<1> SUFFICES MachineLoaded(m)
  OBVIOUS
<1> HIDE DEF m
<1>2. CASE m.boot = Unloaded(layout) /\ m.code # "Success"
  <2>1. \A a \in DOMAIN m.boot.memory : m.boot.memory[a][1] = "zero"
    BY <1>2, UnloadedBlank, ZenonT(60)
  <2> QED BY <1>2, <2>1, ZenonT(60) DEF MachineLoaded
<1>3. CASE ~(m.boot = Unloaded(layout) /\ m.code # "Success")
  <2>1. /\ m.boot = loaded /\ RegionsAccepted(layout.ram)
        /\ m.code = IF loaded.ok THEN "Success" ELSE "ImageFormat"
    BY <1>1, <1>3, ZenonT(60)
  <2>2. ImagesAccepted(layout, image)
    <3>1. Unloaded(layout).ok = FALSE
      BY ZenonT(60) DEF Unloaded
    <3> QED BY <1>3, <2>1, <3>1, LoadCases, ZenonT(60)
  <2> DEFINE ram == Span(layout.ram.base, layout.ram.size)
  <2>3. /\ m.code = "Success"
        /\ m.boot.memory = [a \in ram |-> ByteAt(layout, image, a)]
        /\ m.boot.pc = layout.bios /\ m.boot.a0 = 0 /\ m.boot.a1 = layout.fdt
    BY <2>1, <2>2, LoadCases, ZenonT(60)
  <2>4. DOMAIN m.boot.memory = ram /\ \A a \in ram : m.boot.memory[a] = ByteAt(layout, image, a)
    BY <2>3, ZenonT(60)
  <2> HIDE DEF ram
  <2>5. /\ Loaded(m, "bios", m.layout.bios, m.image.bios)
        /\ Loaded(m, "kernel", m.layout.kernel, m.image.kernel)
        /\ Loaded(m, "fdt", m.layout.fdt, m.image.fdt)
    <3>1. m.layout = layout /\ m.image = image
      BY <1>1, ZenonT(60)
    <3>2. Loaded(m, "bios", layout.bios, image.bios)
      BY <2>2, <2>4, ImageInPlace, ZenonT(60) DEF Loaded, ram
    <3>3. Loaded(m, "kernel", layout.kernel, image.kernel)
      BY <2>2, <2>4, ImageInPlace, ZenonT(60) DEF Loaded, ram
    <3>4. Loaded(m, "fdt", layout.fdt, image.fdt)
      BY <2>2, <2>4, ImageInPlace, ZenonT(60) DEF Loaded, ram
    <3> QED BY <3>1, <3>2, <3>3, <3>4, ZenonT(60)
  <2>6. /\ m.boot.memory[m.boot.pc] = <<"bios", 0>> /\ m.boot.a0 = 0
        /\ m.boot.memory[m.boot.a1] = <<"fdt", 0>>
    <3>1. layout.bios \in Nat /\ layout.fdt \in Nat
      BY BootAssumption, ZenonT(60)
    <3>2. /\ 0 \in 0..(image.bios - 1) /\ 0 \in 0..(image.fdt - 1)
          /\ layout.bios + 0 = layout.bios /\ layout.fdt + 0 = layout.fdt
      BY <2>2, <3>1, ImagesApart, SpanFirst, ZenonT(60)
    <3>3. /\ m.boot.memory[layout.bios + 0] = <<"bios", 0>>
          /\ m.boot.memory[layout.fdt + 0] = <<"fdt", 0>>
      BY <1>1, <2>5, <3>2, ZenonT(60) DEF Loaded
    <3> QED BY <2>3, <3>2, <3>3, ZenonT(60)
  <2>7. \A a \in DOMAIN m.boot.memory :
          m.boot.memory[a][1] = "zero" \/ m.boot.memory[a] \in
            {<<"bios", a - m.layout.bios>>, <<"kernel", a - m.layout.kernel>>,
             <<"fdt", a - m.layout.fdt>>}
    <3>1. \A a \in ram : \/ ByteAt(layout, image, a)[1] = "zero"
                         \/ ByteAt(layout, image, a) = <<"bios", a - layout.bios>>
                         \/ ByteAt(layout, image, a) = <<"kernel", a - layout.kernel>>
                         \/ ByteAt(layout, image, a) = <<"fdt", a - layout.fdt>>
      BY ZenonT(60) DEF ByteAt
    <3> QED BY <1>1, <2>4, <3>1, ZenonT(60)
  <2>8. RamReached(m)
    BY <1>1, <2>1, <2>4, RamAlone, ZenonT(60) DEF RamReached, ram
  <2>9. m.code = "Success"
    BY <2>3, ZenonT(60)
  <2> QED BY <2>5, <2>6, <2>7, <2>8, <2>9, ZenonT(60) DEF MachineLoaded
<1> QED BY <1>2, <1>3

-----------------------------------------------------------------------------
(* Every step of main.                                                     *)

(* Nothing of the host has been touched when main starts.                  *)
LEMMA InitProcess == LifecycleInit => ProcessInv
<1> SUFFICES ASSUME LifecycleInit PROVE ProcessInv
  OBVIOUS
<1> USE DEF LifecycleInit, Start, OneHandler, Raising, Turning, Restoring, Signal
<1>1. ProcessTypeOK
  BY ZenonT(60) DEF ProcessTypeOK
<1>2. HandlerShape
  BY DEF HandlerShape
<1>3. TerminalShape
  BY ZenonT(60) DEF TerminalShape
<1>4. RunShape
  BY DEF RunShape
<1> QED BY <1>1, <1>2, <1>3, <1>4, ZenonT(60)
           DEF ProcessInv, Safe, Running, TerminalRestored, ExitHonest

(* The types survive every step.                                           *)
LEMMA ProcessTyped ==
  ASSUME ProcessTypeOK, LifecycleNext PROVE ProcessTypeOK'
<1> USE DEF ProcessTypeOK, Start, OneHandler, Raising, Turning, Restoring, Go, ReturnCode
<1>1. CASE ParseCli \/ Built \/ IsATty
  BY <1>1, ZenonT(60) DEF ParseCli, Built, IsATty
<1>2. CASE InstallInt \/ InstallTerm \/ UninstallInt
  BY <1>2, ZenonT(60) DEF InstallInt, InstallTerm, UninstallInt
<1>3. CASE SaveTermios \/ SaveFlags \/ MakeRaw \/ SetNonblock
  BY <1>3, ZenonT(60) DEF SaveTermios, SaveFlags, MakeRaw, SetNonblock
<1>4. CASE Loop \/ ProcessOne \/ RunOnce
  BY <1>4, ZenonT(60) DEF Loop, ProcessOne, RunOnce
<1>5. CASE RestoreTermios \/ RestoreFlags
  BY <1>5, ZenonT(60) DEF RestoreTermios, RestoreFlags
<1>6. CASE RestoreInt \/ RestoreTerm
  BY <1>6, ZenonT(60) DEF RestoreInt, RestoreTerm
<1>7. ASSUME NEW s \in Signal, Deliver(s) PROVE ProcessTypeOK'
  BY <1>7, ZenonT(60) DEF Deliver
<1> QED BY <1>1, <1>2, <1>3, <1>4, <1>5, <1>6, <1>7, ZenonT(60) DEF LifecycleNext, Main, HostCalls

(* A step that changes nothing the shapes speak of keeps them.             *)
LEMMA ShapesKept ==
  ASSUME Running, UNCHANGED <<pc, machine, termios, nonblock, saved, handler, run, failed>>
  PROVE Running'
<1>1. HandlerShape'
  BY ZenonT(60) DEF Running, HandlerShape
<1>2. TerminalShape'
  BY ZenonT(60) DEF Running, TerminalShape
<1>3. RunShape'
  BY ZenonT(60) DEF Running, RunShape
<1> QED BY <1>1, <1>2, <1>3 DEF Running

(* A step that leads to another call is safe if the shapes are kept.       *)
LEMMA GoesOn ==
  ASSUME exit' = "running", Running' PROVE Safe'
BY DEF Safe, TerminalRestored, ExitHonest

(* Up to the first host call that changes anything.                        *)
LEMMA StartSafe ==
  ASSUME ProcessTypeOK, Running, ParseCli \/ Built PROVE Safe'
<1> USE DEF Start, OneHandler, Raising, Turning, Restoring, Signal, At
<1>1. CASE ParseCli
  <2>1. /\ pc = "parse_cli" /\ exit = "running"
        /\ UNCHANGED <<termios, nonblock, saved, handler, run, failed>>
        /\ \/ pc' = "returned" /\ exit' \in {"CliUsage", "Success"} /\ machine' = machine
           \/ /\ pc' = "built" /\ exit' = "running"
              /\ machine'.code \in {"Success", "Resource", "Internal", "ImageFormat"}
    BY <1>1, BuildCodes DEF ParseCli, Go, ReturnCode
  <2>2. /\ handler["SIGINT"] = "default" /\ handler["SIGTERM"] = "default" /\ failed = {}
        /\ termios = "cooked" /\ ~nonblock /\ saved = {} /\ run = "none" /\ machine = NoMachine
    BY <2>1, ZenonT(60) DEF Running, HandlerShape, TerminalShape, RunShape
  <2>3. CASE pc' = "built" /\ exit' = "running"
    <3>1. HandlerShape' /\ TerminalShape' /\ RunShape'
      BY <2>1, <2>2, <2>3, ZenonT(60) DEF HandlerShape, TerminalShape, RunShape
    <3> QED BY <2>3, <3>1, GoesOn, ZenonT(60) DEF Running
  <2>4. CASE pc' = "returned" /\ exit' # "running"
    BY <2>1, <2>2, <2>4 DEF Safe, TerminalRestored, ExitHonest
  <2> QED BY <2>1, <2>3, <2>4, ZenonT(60)
<1>2. CASE Built
  <2>1. /\ pc = "built" /\ exit = "running"
        /\ UNCHANGED <<machine, termios, nonblock, saved, handler, run, failed>>
        /\ \/ pc' = "returned" /\ exit' \in {"Resource", "Internal", "ImageFormat"}
           \/ pc' = "install_int" /\ exit' = "running"
    BY <1>2, ZenonT(60) DEF Built, Go, ReturnCode, Running, RunShape
  <2>2. /\ handler["SIGINT"] = "default" /\ handler["SIGTERM"] = "default" /\ failed = {}
        /\ termios = "cooked" /\ ~nonblock /\ saved = {} /\ run = "none"
    BY <2>1, ZenonT(60) DEF Running, HandlerShape, TerminalShape, RunShape
  <2>3. CASE pc' = "install_int" /\ exit' = "running"
    <3>1. HandlerShape' /\ TerminalShape' /\ RunShape'
      BY <2>1, <2>2, <2>3, ZenonT(60) DEF HandlerShape, TerminalShape, RunShape
    <3> QED BY <2>3, <3>1, GoesOn, ZenonT(60) DEF Running
  <2>4. CASE pc' = "returned" /\ exit' # "running"
    BY <2>1, <2>2, <2>4 DEF Safe, TerminalRestored, ExitHonest
  <2> QED BY <2>1, <2>3, <2>4, ZenonT(60)
<1> QED BY <1>1, <1>2

(* Installing the handlers; a failure takes back what was installed.       *)
LEMMA InstallSafe ==
  ASSUME ProcessTypeOK, Running, InstallInt \/ InstallTerm \/ UninstallInt PROVE Safe'
<1> USE DEF Start, OneHandler, Raising, Turning, Restoring, Signal, At, Go, ReturnCode
<1>1. CASE InstallInt
  <2>1. Running /\ pc = "install_int"
    BY <1>1, ZenonT(60) DEF InstallInt
  <2>2. /\ handler \in [Signal -> {"default", "stop"}]
        /\ handler["SIGINT"] = "default" /\ handler["SIGTERM"] = "default" /\ failed = {}
        /\ termios = "cooked" /\ ~nonblock /\ saved = {} /\ run = "none"
    BY <2>1, ZenonT(60) DEF Running, HandlerShape, TerminalShape, RunShape, ProcessTypeOK
  <2>3. CASE exit' = "running"
    <3>1. /\ pc' = "install_term" /\ handler' = [handler EXCEPT !["SIGINT"] = "stop"]
          /\ UNCHANGED <<machine, termios, nonblock, saved, run, failed>>
      BY <1>1, <2>3, ZenonT(60) DEF InstallInt
    <3>2. HandlerShape' /\ TerminalShape' /\ RunShape'
      BY <2>2, <3>1, ZenonT(60) DEF HandlerShape, TerminalShape, RunShape
    <3> QED BY <2>3, <3>2, GoesOn, ZenonT(60) DEF Running
  <2>4. CASE exit' # "running"
    <3>1. exit' = "Resource" /\ termios' = termios /\ nonblock' = nonblock
      BY <1>1, <2>4, ZenonT(60) DEF InstallInt
    <3> QED BY <2>2, <3>1 DEF Safe, TerminalRestored, ExitHonest
  <2> QED BY <2>3, <2>4
<1>2. CASE InstallTerm \/ UninstallInt
  <2>1. Running /\ pc \in OneHandler
    BY <1>2, ZenonT(60) DEF InstallTerm, UninstallInt
  <2>2. /\ handler \in [Signal -> {"default", "stop"}]
        /\ handler["SIGINT"] = "stop" /\ handler["SIGTERM"] = "default" /\ failed = {}
        /\ termios = "cooked" /\ ~nonblock /\ saved = {} /\ run = "none"
    BY <2>1, ZenonT(60) DEF Running, HandlerShape, TerminalShape, RunShape, ProcessTypeOK
  <2>3. CASE InstallTerm
    BY <2>2, <2>3, ZenonT(60) DEF InstallTerm, Safe, Running, HandlerShape, TerminalShape, RunShape,
                      TerminalRestored, ExitHonest
  <2>4. CASE UninstallInt
    BY <2>2, <2>4 DEF UninstallInt, Safe, TerminalRestored, ExitHonest
  <2> QED BY <1>2, <2>3, <2>4
<1> QED BY <1>1, <1>2

(* Making the terminal raw.                                                *)
LEMMA RaiseSafe ==
  ASSUME ProcessTypeOK, Running, IsATty \/ SaveTermios \/ SaveFlags \/ MakeRaw \/ SetNonblock
  PROVE Safe'
<1> USE DEF Start, OneHandler, Raising, Turning, Restoring, At, Go
<1>1. /\ exit' = "running" /\ pc \in Raising /\ UNCHANGED <<handler, run, failed>>
      /\ pc' \in Raising \cup Restoring \cup {"loop"} /\ pc' # "restore_flags"
  BY ZenonT(60) DEF IsATty, SaveTermios, SaveFlags, MakeRaw, SetNonblock
<1>2. handler["SIGINT"] = "stop" /\ handler["SIGTERM"] = "stop" /\ failed = {} /\ run = "none"
  BY <1>1, ZenonT(60) DEF Running, HandlerShape, RunShape
<1>3. HandlerShape' /\ RunShape'
  BY <1>1, <1>2, ZenonT(60) DEF HandlerShape, RunShape
<1>4. TerminalShape'
  <2>1. CASE IsATty \/ SaveTermios
    <3>1. termios = "cooked" /\ ~nonblock /\ saved = {}
      BY <2>1, ZenonT(60) DEF IsATty, SaveTermios, Running, TerminalShape
    <3> QED BY <2>1, <3>1 DEF IsATty, SaveTermios, TerminalShape
  <2>2. CASE SaveFlags
    <3>1. termios = "cooked" /\ ~nonblock /\ "termios" \in saved
            /\ saved \subseteq {"termios", "flags"}
      BY <2>2, ZenonT(60) DEF SaveFlags, Running, TerminalShape, ProcessTypeOK
    <3> QED BY <2>2, <3>1, ZenonT(60) DEF SaveFlags, TerminalShape
  <2>3. CASE MakeRaw \/ SetNonblock
    <3>1. ~nonblock /\ saved = {"termios", "flags"}
      BY <2>3, ZenonT(60) DEF MakeRaw, SetNonblock, Running, TerminalShape
    <3> QED BY <2>3, <3>1 DEF MakeRaw, SetNonblock, TerminalShape
  <2> QED BY <2>1, <2>2, <2>3
<1> QED BY <1>1, <1>3, <1>4, GoesOn DEF Running

(* The loop.                                                               *)
LEMMA TurnSafe ==
  ASSUME Running, Loop \/ ProcessOne \/ RunOnce PROVE Safe'
<1> USE DEF Start, OneHandler, Raising, Turning, Restoring, At, Go
<1>1. /\ exit' = "running" /\ pc \in Turning /\ pc' \in Turning \cup {"restore_termios"}
      /\ UNCHANGED <<termios, nonblock, saved, handler, failed>>
      /\ run' \in {run, "Success", "RuntimeIo"}
  BY ZenonT(60) DEF Loop, ProcessOne, RunOnce
<1>2. /\ handler["SIGINT"] = "stop" /\ handler["SIGTERM"] = "stop" /\ failed = {}
      /\ saved = {"termios", "flags"} /\ run \in {"none", "Success", "RuntimeIo"}
  BY <1>1, ZenonT(60) DEF Running, HandlerShape, TerminalShape, RunShape
<1>3. Running'
  BY <1>1, <1>2, ZenonT(60) DEF Running, HandlerShape, TerminalShape, RunShape
<1> QED BY <1>1, <1>3, GoesOn

(* Restoring the terminal and the handlers.                                *)
LEMMA RestoreSafe ==
  ASSUME ProcessTypeOK, Running, RestoreTermios \/ RestoreFlags \/ RestoreInt PROVE Safe'
<1> USE DEF Start, OneHandler, Raising, Turning, Restoring, Signal, At, Go
<1>1. /\ exit' = "running" /\ pc \in Restoring /\ run' = run
      /\ pc' \in {"restore_flags", "restore_int", "restore_term"}
  BY ZenonT(60) DEF RestoreTermios, RestoreFlags, RestoreInt
<1>2. /\ handler["SIGINT"] = "stop" /\ handler["SIGTERM"] = "stop"
      /\ run \in {"none", "Success", "RuntimeIo"} /\ handler \in [Signal -> {"default", "stop"}]
  BY <1>1, ZenonT(60) DEF Running, HandlerShape, RunShape, ProcessTypeOK
<1>3. HandlerShape' /\ RunShape'
  BY <1>1, <1>2, ZenonT(60) DEF HandlerShape, RunShape, RestoreTermios, RestoreFlags, RestoreInt
<1>4. TerminalShape'
  <2>1. CASE RestoreTermios
    BY <2>1, ZenonT(60) DEF RestoreTermios, Running, TerminalShape
  <2>2. CASE RestoreFlags
    BY <2>2, ZenonT(60) DEF RestoreFlags, Running, TerminalShape
  <2>3. CASE RestoreInt
    BY <2>3, ZenonT(60) DEF RestoreInt, Running, TerminalShape
  <2> QED BY <2>1, <2>2, <2>3
<1> QED BY <1>1, <1>3, <1>4, GoesOn DEF Running

(* The exit code is Success or RuntimeIo only if nothing failed.           *)
LEMMA ReturnSafe ==
  ASSUME ProcessTypeOK, Running, RestoreTerm PROVE Safe'
<1> USE DEF Signal, At, ReturnCode
<1>1. /\ exit' = exit_code(failed') /\ pc = "restore_term" /\ UNCHANGED <<termios, nonblock, run>>
      /\ handler \in [Signal -> {"default", "stop"}]
      /\ \/ handler' = [handler EXCEPT !["SIGTERM"] = "default"] /\ failed' = failed
         \/ failed' = failed \cup {"SIGTERM"} /\ handler' = handler
  BY ZenonT(60) DEF RestoreTerm, ProcessTypeOK
<1>2. /\ handler["SIGINT"] = "default" \/ "SIGINT" \in failed
      /\ termios = "cooked" \/ "termios" \in failed
      /\ ~nonblock \/ "flags" \in failed
      /\ run \in {"none", "Success", "RuntimeIo"}
  BY <1>1, ZenonT(60) DEF Running, HandlerShape, TerminalShape, RunShape
<1>3. /\ termios' = "cooked" \/ "termios" \in failed'
      /\ ~nonblock' \/ "flags" \in failed'
  BY <1>1, <1>2
<1>4. failed' = {} => handler'["SIGINT"] = "default" /\ handler'["SIGTERM"] = "default"
  BY <1>1, <1>2
<1>5. exit' \in {"Resource", "Success", "RuntimeIo"}
        /\ (exit' # "Resource" => run' = exit' /\ failed' = {})
  BY <1>1, <1>2 DEF exit_code
<1> QED BY <1>3, <1>4, <1>5 DEF Safe, TerminalRestored, ExitHonest

(* A signal that no handler takes finds the terminal as it was.            *)
LEMMA SignalSafe ==
  ASSUME ProcessTypeOK, Running, NEW s \in Signal, Deliver(s) PROVE Safe'
<1>1. UNCHANGED <<machine, termios, nonblock, saved, handler, run, failed>>
  BY ZenonT(60) DEF Deliver
<1>2. CASE handler[s] = "stop"
  <2>1. exit' = "running" /\ pc' = pc
    BY <1>2, ZenonT(60) DEF Deliver
  <2>2. Running'
    BY <1>1, <2>1, ShapesKept, ZenonT(60)
  <2> QED BY <2>1, <2>2, GoesOn
<1>3. CASE handler[s] # "stop"
  <2>1. exit' = "killed" /\ exit = "running"
    BY <1>3, ZenonT(60) DEF Deliver
  <2>2. pc \in Start \cup OneHandler \cup {"restore_term"}
    BY <1>3, ZenonT(60) DEF Running, HandlerShape, RunShape, ProcessTypeOK, Signal
  <2> QED BY <1>1, <2>1, <2>2 DEF Running, TerminalShape, Safe, TerminalRestored, ExitHonest
<1> QED BY <1>2, <1>3

(* Every step preserves the invariant.                                     *)
LEMMA NextProcess == ProcessInv /\ [LifecycleNext]_lifecycleVars => ProcessInv'
<1>1. ASSUME ProcessInv, LifecycleNext PROVE ProcessInv'
  <2>1. exit = "running"
    BY <1>1, ZenonT(60)
       DEF LifecycleNext, Main, HostCalls, At, ParseCli, Built, InstallInt, InstallTerm,
         UninstallInt, IsATty, SaveTermios, SaveFlags, MakeRaw, SetNonblock, Loop, ProcessOne,
         RunOnce, RestoreTermios, RestoreFlags, RestoreInt, RestoreTerm, Deliver
  <2>2. ProcessTypeOK /\ Running
    BY <1>1, <2>1 DEF ProcessInv, Safe
  <2>3. Safe'
    BY <1>1, <2>2, StartSafe, InstallSafe, RaiseSafe, TurnSafe, RestoreSafe, ReturnSafe, SignalSafe,
       ZenonT(60) DEF LifecycleNext, Main, HostCalls
  <2>4. ProcessTypeOK'
    BY <1>1, <2>2, ProcessTyped
  <2> QED BY <2>3, <2>4 DEF ProcessInv
<1>2. ASSUME ProcessInv, UNCHANGED lifecycleVars PROVE ProcessInv'
  <2>1. UNCHANGED <<pc, machine, termios, nonblock, saved, handler, run, failed, exit>>
    BY <1>2, ZenonT(60) DEF lifecycleVars
  <2>2. ProcessTypeOK'
    BY <1>2, <2>1, ZenonT(60) DEF ProcessInv, ProcessTypeOK
  <2>3. TerminalRestored' /\ ExitHonest'
    BY <1>2, <2>1, ZenonT(60) DEF ProcessInv, Safe, TerminalRestored, ExitHonest
  <2>4. Running => Running'
    BY <2>1, ShapesKept, ZenonT(60)
  <2> QED BY <1>2, <2>1, <2>2, <2>3, <2>4, ZenonT(60) DEF ProcessInv, Safe
<1> QED BY <1>1, <1>2

(* ProcessInv holds at every point of the process.                         *)
THEOREM ProcessInvariant == LifecycleSpec => []ProcessInv
BY InitProcess, NextProcess, PTL DEF LifecycleSpec

(* However the process ends, the terminal is as it was found, or the host  *)
(* refused to restore it.                                                  *)
THEOREM ProcessRestoresTerminal == LifecycleSpec => []TerminalRestored
<1>1. ProcessInv => TerminalRestored
  BY DEF ProcessInv, Safe
<1> QED BY <1>1, ProcessInvariant, PTL

(* The exit code says what happened.                                       *)
THEOREM ProcessExitHonest == LifecycleSpec => []ExitHonest
<1>1. ProcessInv => ExitHonest
  BY DEF ProcessInv, Safe
<1> QED BY <1>1, ProcessInvariant, PTL

(* Every machine that main obtains is loaded as the layout says, for any   *)
(* layout and any sizes of the images.                                     *)
THEOREM ProcessBootPlaced == LifecycleSpec => []BootPlaced
<1>1. LifecycleInit => BootPlaced
  BY DEF LifecycleInit, BootPlaced
<1>2. BootPlaced /\ [LifecycleNext]_lifecycleVars => BootPlaced'
  <2> SUFFICES ASSUME BootPlaced, [LifecycleNext]_lifecycleVars PROVE BootPlaced'
    OBVIOUS
  <2>1. CASE ParseCli
    <3>1. \/ machine' = machine
          \/ \E net : \E layout \in Layout, disk_opens \in BOOLEAN, image \in Image :
               machine' = build_machine(net, layout, disk_opens, image)
      BY <2>1, ZenonT(60) DEF ParseCli
    <3>2. machine' = machine \/ MachineLoaded(machine')
      BY <3>1, BuildLoads, ZenonT(60)
    <3> QED BY <3>2, ZenonT(60) DEF BootPlaced
  <2>2. CASE ~ParseCli
    <3>1. machine' = machine
      BY <2>2, ZenonT(60) DEF LifecycleNext, Main, HostCalls, Built, InstallInt, InstallTerm,
         UninstallInt, IsATty, SaveTermios, SaveFlags, MakeRaw, SetNonblock, Loop, ProcessOne,
         RunOnce, RestoreTermios, RestoreFlags, RestoreInt, RestoreTerm, Deliver, lifecycleVars
    <3> QED BY <3>1, ZenonT(60) DEF BootPlaced
  <2> QED BY <2>1, <2>2
<1> QED BY <1>1, <1>2, PTL DEF LifecycleSpec

=============================================================================
