---------------------------- MODULE Reservation -----------------------------
(***************************************************************************)
(* LR, SC and AMO of the hart (src/core/cpu.cpp) on the bus reservation    *)
(* monitor (src/bus/bus.cpp), with DMA writes between any two bus          *)
(* transactions.  Addresses count 32-bit words; the reservation granule is *)
(* a double word.  An access covers one word or an aligned pair; only      *)
(* words in Mapped are RAM.  Tokens are drawn modulo TokenSpace (2^64 in   *)
(* the code), 0 meaning none.  An LR or AMO that faults changes nothing    *)
(* and is not a step.                                                      *)
(*                                                                         *)
(* linked, link and disturbed remember the last LR; result is what the     *)
(* last SC did.  Definitions named mut_... are faulty variants for         *)
(* sensitivity analysis; no specification uses them.                       *)
(***************************************************************************)
EXTENDS Naturals

CONSTANTS Word, Mapped, Value, TokenSpace

ASSUME ReservationAssumption ==
  /\ Word \subseteq Nat /\ Mapped \subseteq Word
  /\ Value # {} /\ TokenSpace \in Nat /\ TokenSpace > 2

VARIABLES
  memory,         \* contents of the mapped words
  reservation,    \* the monitor's record, or NoReservation
  next_token,     \* next_reservation_token_
  token,          \* the hart's reservation token
  amo,            \* the AMO between its read and its commit, or NoAmo
  linked,         \* an LR since the last SC
  link,           \* its address
  disturbed,      \* a DMA write or AMO touched its granule since
  result          \* outcome of the last SC

reservationVars == <<memory, reservation, next_token, token, amo, linked, link,
                     disturbed, result>>

Width == {1, 2}
Granule(a) == a - (a % 2)
Aligned(a, width) == a % width = 0
Words(a, width) == {a, a + width - 1}
Token == 0..(TokenSpace - 1)

NoReservation == [token |-> 0, address |-> 0]
NoAmo == [address |-> 0, width |-> 0, operation |-> <<>>, original |-> <<>>]
NoLink == 0

ReservationTypeOK ==
  /\ memory \in [Mapped -> Value]
  /\ reservation \in [token : Token, address : Word \cup {0}]
  /\ next_token \in Token /\ token \in Token
  /\ linked \in BOOLEAN /\ disturbed \in BOOLEAN /\ link \in Word \cup {NoLink}
  /\ result \in [outcome : {"none", "success", "failure", "trap"}, intact : BOOLEAN]

NoResult == [outcome |-> "none", intact |-> FALSE]

ReservationInit ==
  /\ memory \in {[a \in Mapped |-> v] : v \in Value}
  /\ reservation = NoReservation /\ next_token = 1 /\ token = 0
  /\ amo = NoAmo
  /\ linked = FALSE /\ link = NoLink /\ disturbed = FALSE /\ result = NoResult

Store(a, width, value) == [x \in Mapped |-> IF x \in Words(a, width) THEN value[x] ELSE memory[x]]

NextToken(t) == IF t + 1 < TokenSpace THEN t + 1 ELSE 0

(* Tokens are never 0.                                                     *)
next_reservation_token_locked == IF next_token = 0 THEN 1 ELSE next_token

Overlap(a, width, base) == Granule(base) \in {Granule(x) : x \in Words(a, width)}

(* A write by somebody else to the reserved granule ends the reservation.  *)
mut_invalidate_reservation_locked(a, width) ==
  reservation' = IF reservation.token # 0 /\ reservation.address = a
                 THEN NoReservation ELSE reservation

invalidate_reservation_locked(a, width) ==
  reservation' = IF reservation.token # 0 /\ Overlap(a, width, reservation.address)
                 THEN NoReservation ELSE reservation

Disturb(a, width) == disturbed' = (disturbed \/ (linked /\ Overlap(a, width, link)))

Located(a, width) == Aligned(a, width) /\ Words(a, width) \subseteq Mapped

load_reserved(a, width) ==
  /\ reservation' = [token |-> next_reservation_token_locked, address |-> a]
  /\ next_token' = NextToken(next_reservation_token_locked)

LoadReserved(a, width) ==
  /\ amo = NoAmo /\ Located(a, width)
  /\ load_reserved(a, width)
  /\ token' = next_reservation_token_locked
  /\ linked' = TRUE /\ link' = a /\ disturbed' = FALSE /\ result' = NoResult
  /\ UNCHANGED <<memory, amo>>

TokenMatches(a) ==
  token # 0 /\ reservation.token = token /\ reservation.address = a

Conclude(outcome, a) ==
  /\ result' = [outcome |-> outcome, intact |-> linked /\ ~disturbed /\ link = a]
  /\ token' = 0
  /\ linked' = FALSE /\ link' = NoLink /\ disturbed' = FALSE
  /\ UNCHANGED <<next_token, amo>>

(* The bus drops the reservation before it looks at the address.           *)
StoreConditional(a, width, value) ==
  /\ amo = NoAmo /\ Located(a, width)
  /\ reservation' = NoReservation
  /\ memory' = IF TokenMatches(a) THEN Store(a, width, value) ELSE memory
  /\ Conclude(IF TokenMatches(a) THEN "success" ELSE "failure", a)

(* A misaligned SC or one whose translation faults never reaches the bus;  *)
(* one to an address without RAM does.                                     *)
StoreConditionalTrap(a, width) ==
  /\ amo = NoAmo
  /\ \/ reservation' = reservation
     \/ Aligned(a, width) /\ ~Located(a, width) /\ reservation' = NoReservation
  /\ Conclude("trap", a)
  /\ UNCHANGED memory

(* A store by the hart itself leaves the reservation alone.                *)
HartStore(a, width, value) ==
  /\ amo = NoAmo /\ Located(a, width)
  /\ memory' = Store(a, width, value)
  /\ result' = NoResult
  /\ UNCHANGED <<reservation, next_token, token, amo, linked, link, disturbed>>

DmaWrite(a, width, value) ==
  /\ Located(a, width)
  /\ memory' = Store(a, width, value)
  /\ invalidate_reservation_locked(a, width) /\ Disturb(a, width)
  /\ result' = NoResult
  /\ UNCHANGED <<next_token, token, amo, linked, link>>

Observed(a, width) == [x \in Words(a, width) |-> memory[x]]

(* An AMO reads, computes, and commits with compare-and-exchange until the *)
(* memory still holds what it computed with.                               *)
AmoRead(a, width, operation) ==
  /\ amo = NoAmo /\ Located(a, width)
  /\ amo' = [address |-> a, width |-> width, operation |-> operation,
             original |-> Observed(a, width)]
  /\ result' = NoResult
  /\ UNCHANGED <<memory, reservation, next_token, token, linked, link, disturbed>>

execute_atomic_operation(operation, original) == [x \in DOMAIN original |-> operation[original[x]]]

mut_Unchanged == TRUE

Unchanged == Observed(amo.address, amo.width) = amo.original

AmoCommit ==
  /\ amo # NoAmo /\ Unchanged
  /\ memory' = Store(amo.address, amo.width,
                     execute_atomic_operation(amo.operation, amo.original))
  /\ invalidate_reservation_locked(amo.address, amo.width)
  /\ Disturb(amo.address, amo.width)
  /\ amo' = NoAmo
  /\ UNCHANGED <<next_token, token, linked, link, result>>

AmoRetry ==
  /\ amo # NoAmo /\ ~Unchanged
  /\ amo' = [amo EXCEPT !.original = Observed(amo.address, amo.width)]
  /\ UNCHANGED <<memory, reservation, next_token, token, linked, link, disturbed, result>>

Data(a, width) == [Words(a, width) -> Value]

ReservationNext ==
  \/ \E a \in Word, width \in Width :
       \/ LoadReserved(a, width)
       \/ StoreConditionalTrap(a, width)
       \/ \E value \in Data(a, width) :
            StoreConditional(a, width, value) \/ HartStore(a, width, value)
              \/ DmaWrite(a, width, value)
       \/ \E operation \in [Value -> Value] : AmoRead(a, width, operation)
  \/ AmoCommit \/ AmoRetry

ReservationSpec == ReservationInit /\ [][ReservationNext]_reservationVars

-----------------------------------------------------------------------------
(* SC stores exactly when the LR it belongs to still stands: an LR since   *)
(* the last SC (also one that trapped), at the same address, and no DMA    *)
(* write or AMO to its granule since, however tokens wrap around.          *)
ScExact ==
  result.outcome \in {"success", "failure"} => (result.outcome = "success" <=> result.intact)

(* An AMO replaces the value memory holds at the moment of its commit: no  *)
(* DMA write between its read and its commit is lost.                      *)
AmoAtomic ==
  [][amo # NoAmo /\ amo' = NoAmo =>
       \A x \in Words(amo.address, amo.width) :
         memory'[x] = amo.operation[memory[x]]]_reservationVars

=============================================================================
