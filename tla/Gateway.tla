------------------------------ MODULE Gateway ------------------------------
(***************************************************************************)
(* What the PLIC promises about one interrupt source, whatever the other   *)
(* sources, the priorities, the enables and the thresholds are.  A source  *)
(* is "idle", "waiting" for a claim, or in service at one context.  The    *)
(* code states the promise in include/rvemu/devices/plic.hpp: a request    *)
(* the gateway accepted is latched until it is claimed, a claim occupies   *)
(* the source, and only its owner's complete releases it; if the line is   *)
(* still high at that moment the source is a candidate again.              *)
(***************************************************************************)
CONSTANTS
  Source,
  Context   \* names of the contexts, other than "idle" and "waiting"

VARIABLES
  line,   \* line[s]: the level the device drives
  gate    \* gate[s]: "idle", "waiting" or the context serving s

vars == <<line, gate>>

Init ==
  /\ line = [s \in Source |-> FALSE]
  /\ gate = [s \in Source |-> "idle"]

(* The device drives its line; a rising or high line is accepted unless    *)
(* the source is in service.                                               *)
Drive(s, asserted) ==
  /\ line' = [line EXCEPT ![s] = asserted]
  /\ gate' = [gate EXCEPT ![s] = IF asserted /\ @ = "idle" THEN "waiting" ELSE @]

Claim(s, c) ==
  /\ gate[s] = "waiting"
  /\ gate' = [gate EXCEPT ![s] = c]
  /\ UNCHANGED line

Complete(s, c) ==
  /\ gate[s] = c
  /\ gate' = [gate EXCEPT ![s] = IF line[s] THEN "waiting" ELSE "idle"]
  /\ UNCHANGED line

Next ==
  \E s \in Source :
    \/ \E asserted \in BOOLEAN : Drive(s, asserted)
    \/ \E c \in Context : Claim(s, c) \/ Complete(s, c)

Spec == Init /\ [][Next]_vars
=============================================================================
