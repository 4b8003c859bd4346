----------------------------- MODULE Uart16550 -----------------------------
(***************************************************************************)
(* The serial port, src/devices/uart16550.cpp: two bounded FIFOs, the      *)
(* interrupt enables, the divisor latch bit that multiplexes offsets 0 and *)
(* 1, and the sticky overrun flag.  One action per register access or      *)
(* host-side call; the registers that only store a value (DLL, DLM, MCR,   *)
(* SCR, the FCR copy) have no state here.  The modules that compose the    *)
(* port say who takes which action when.  Definitions named mut_... are    *)
(* faulty variants of one that follows them; no specification uses them.   *)
(***************************************************************************)
EXTENDS Naturals, Sequences

CONSTANT kFifoCapacity    \* 16 in the code

ASSUME UartAssumption == kFifoCapacity \in Nat \ {0}

VARIABLES rx_fifo, tx_fifo, ier, dlab, overrun_error

uartVars == <<rx_fifo, tx_fifo, ier, dlab, overrun_error>>

IerBit == {"RX", "TX", "LINE"}

UartTypeOK(Byte) ==
  /\ rx_fifo \in Seq(Byte) /\ Len(rx_fifo) <= kFifoCapacity
  /\ tx_fifo \in Seq(Byte) /\ Len(tx_fifo) <= kFifoCapacity
  /\ ier \subseteq IerBit
  /\ dlab \in BOOLEAN
  /\ overrun_error \in BOOLEAN

-----------------------------------------------------------------------------
(* Host side.                                                              *)

(* push_rx succeeds unless the FIFO is full, which is reported as overrun. *)
RxFull == Len(rx_fifo) >= kFifoCapacity

mut_push_rx(byte) ==
  /\ rx_fifo' = IF RxFull THEN Append(Tail(rx_fifo), byte) ELSE Append(rx_fifo, byte)
  /\ overrun_error' = (overrun_error \/ RxFull)
  /\ UNCHANGED <<tx_fifo, ier, dlab>>

push_rx(byte) ==
  /\ rx_fifo' = IF RxFull THEN rx_fifo ELSE Append(rx_fifo, byte)
  /\ overrun_error' = (overrun_error \/ RxFull)
  /\ UNCHANGED <<tx_fifo, ier, dlab>>

pop_tx ==
  /\ tx_fifo # <<>>
  /\ tx_fifo' = Tail(tx_fifo)
  /\ UNCHANGED <<rx_fifo, ier, dlab, overrun_error>>

(* The highest-priority interrupt cause.                                   *)
mut_current_interrupt ==
  IF "LINE" \in ier /\ overrun_error THEN "LINE"
  ELSE IF "RX" \in ier /\ RxFull THEN "RX"
  ELSE IF "TX" \in ier /\ tx_fifo = <<>> THEN "TX"
  ELSE "NONE"

current_interrupt ==
  IF "LINE" \in ier /\ overrun_error THEN "LINE"
  ELSE IF "RX" \in ier /\ rx_fifo # <<>> THEN "RX"
  ELSE IF "TX" \in ier /\ tx_fifo = <<>> THEN "TX"
  ELSE "NONE"

-----------------------------------------------------------------------------
(* Register accesses.                                                      *)

(* RBR; with the latch bit set, or nothing received, the read has no       *)
(* effect.                                                                 *)
read_rbr ==
  /\ rx_fifo' = IF dlab \/ rx_fifo = <<>> THEN rx_fifo ELSE Tail(rx_fifo)
  /\ UNCHANGED <<tx_fifo, ier, dlab, overrun_error>>

(* LSR: data ready and overrun as they are, transmitter always empty; the  *)
(* read clears the overrun flag.                                           *)
lsr_data_ready == rx_fifo # <<>>
lsr_thr_empty == TRUE

read_lsr ==
  /\ overrun_error' = FALSE
  /\ UNCHANGED <<rx_fifo, tx_fifo, ier, dlab>>

(* THR; a byte written to a full FIFO is dropped.                          *)
ThrAccepts == ~dlab /\ Len(tx_fifo) < kFifoCapacity

write_thr(byte) ==
  /\ tx_fifo' = IF ThrAccepts THEN Append(tx_fifo, byte) ELSE tx_fifo
  /\ UNCHANGED <<rx_fifo, ier, dlab, overrun_error>>

write_ier(bits) ==
  /\ ier' = IF dlab THEN ier ELSE bits
  /\ UNCHANGED <<rx_fifo, tx_fifo, dlab, overrun_error>>

(* FCR: clear is the set of the FIFOs whose clear bit is written.          *)
write_fcr(clear) ==
  /\ rx_fifo' = IF "RX" \in clear THEN <<>> ELSE rx_fifo
  /\ overrun_error' = (overrun_error /\ "RX" \notin clear)
  /\ tx_fifo' = IF "TX" \in clear THEN <<>> ELSE tx_fifo
  /\ UNCHANGED <<ier, dlab>>

write_lcr(latch) ==
  /\ dlab' = latch
  /\ UNCHANGED <<rx_fifo, tx_fifo, ier, overrun_error>>
=============================================================================
