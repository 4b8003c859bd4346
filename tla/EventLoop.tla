----------------------------- MODULE EventLoop -----------------------------
(***************************************************************************)
(* The run loop of src/runtime/event_loop.cpp with the terminal, the       *)
(* serial port, the interrupt controller and the hart it drives.  One      *)
(* iteration is: move terminal input to the port, move port output to the  *)
(* terminal, project the device levels into the pending bits, let the hart *)
(* take an interrupt or else execute one instruction.  The terminal        *)
(* decides at each call whether a byte is ready or accepted.               *)
(*                                                                         *)
(* The guest is a driver for the port: a main program that may idle, wait  *)
(* for an interrupt, poll and send, flush the FIFOs, arm the transmit      *)
(* interrupt or set the divisor, and an S-mode handler that claims, serves *)
(* and completes.  Each of its instructions is one loop iteration, so      *)
(* terminal traffic and level changes fall between any two of them.        *)
(*                                                                         *)
(* Terminal bytes are numbered in the order they are typed, guest bytes in *)
(* the order they are written, so that loss, duplication and reordering    *)
(* show.  sent, received, dropped and lost are history variables.          *)
(***************************************************************************)
EXTENDS Uart16550, Plic, SequencesExt

CONSTANTS
  MaxRx,     \* bytes the host types
  MaxTx,     \* bytes the guest sends
  MaxBytes   \* per-iteration budget of each direction (64 in the code)

ASSUME LoopAssumption == MaxRx \in Nat /\ MaxTx \in Nat /\ MaxBytes \in Nat \ {0}

VARIABLES
  phase,         \* where run_once is: "input", "output", "sync" or "step"
  count,         \* bytes moved in this phase
  pending_tx,    \* the byte popped from the port and not yet accepted
  external,      \* external[c]: MEIP and SEIP in mip
  driver,        \* the guest's next instruction
  resume,        \* where the handler returns to
  waiting,       \* the hart is in WFI
  typed,         \* bytes read from the terminal
  written,       \* bytes the guest wrote to THR
  host_out,      \* bytes the terminal accepted
  sent,          \* bytes the port accepted and no flush discarded
  received,      \* bytes the guest read from RBR
  lost,          \* bytes typed into a full FIFO
  flushed,       \* received bytes a flush discarded
  unreported,    \* some of them since the guest last read LSR or flushed
  dropped        \* bytes written to THR that the port dropped

loopVars == <<phase, count, pending_tx, external>>
guestVars == <<driver, resume, waiting>>
inputVars == <<typed, received, lost, flushed, unreported>>
outputVars == <<written, host_out, sent, dropped>>
vars == <<uartVars, plicVars, loopVars, guestVars, inputVars, outputVars>>

SupervisorContext == 1
Uart == 1                      \* interrupt_source of the port
MainPoint == {"main", "thr"}   \* main program, interrupts enabled
Masked == {"latch", "divisor", "unlatch"}
Handler == {"claim", "serve", "data", "txoff", "complete", "return"}
Byte == 0..(MaxRx + MaxTx)

EventLoopTypeOK ==
  /\ UartTypeOK(Byte) /\ PlicTypeOK
  /\ phase \in {"input", "output", "sync", "step"} /\ count \in 0..MaxBytes
  /\ pending_tx \in Seq(Byte) /\ Len(pending_tx) <= 1
  /\ external \in [Context -> BOOLEAN]
  /\ driver \in MainPoint \cup Masked \cup Handler /\ resume \in MainPoint
  /\ waiting \in BOOLEAN

(* After the driver has set up the port and the controller.                *)
Init ==
  /\ rx_fifo = <<>> /\ tx_fifo = <<>> /\ ier = {"RX", "LINE"}
  /\ dlab = FALSE /\ overrun_error = FALSE
  /\ priority = [s \in Source |-> 1] /\ threshold = [c \in Context |-> 0]
  /\ enable = [c \in Context |-> IF c = SupervisorContext THEN Source ELSE {}]
  /\ level = [s \in Source |-> FALSE] /\ pending = [s \in Source |-> FALSE]
  /\ claimed_by = [s \in Source |-> 0]
  /\ phase = "input" /\ count = 0 /\ pending_tx = <<>>
  /\ external = [c \in Context |-> FALSE]
  /\ driver = "main" /\ resume = "main" /\ waiting = FALSE
  /\ typed = 0 /\ received = <<>> /\ lost = {} /\ flushed = {} /\ unreported = FALSE
  /\ written = 0 /\ host_out = <<>> /\ sent = <<>> /\ dropped = {}

Goto(next) == phase' = next /\ count' = 0

-----------------------------------------------------------------------------
(* service_terminal_input.                                                 *)

(* The terminal has a byte; a full FIFO loses it and ends the phase.       *)
InputByte ==
  /\ phase = "input" /\ count < MaxBytes /\ typed < MaxRx
  /\ typed' = typed + 1
  /\ push_rx(typed')
  /\ lost' = IF RxFull THEN lost \cup {typed'} ELSE lost
  /\ unreported' = (unreported \/ RxFull)
  /\ IF RxFull THEN Goto("output") ELSE count' = count + 1 /\ UNCHANGED phase
  /\ UNCHANGED <<plicVars, pending_tx, external, guestVars, received, flushed,
                 outputVars>>

(* The budget is used up or the terminal has nothing.                      *)
InputDone ==
  /\ phase = "input"
  /\ Goto("output")
  /\ UNCHANGED <<uartVars, plicVars, pending_tx, external, guestVars, inputVars, outputVars>>

-----------------------------------------------------------------------------
(* service_uart_output.                                                    *)

NothingToSend == tx_fifo = <<>> /\ pending_tx = <<>>

(* Take a byte from the port unless one is left over, and offer it.        *)
TakeByte == IF pending_tx = <<>> THEN pop_tx ELSE UNCHANGED uartVars
OutgoingByte == IF pending_tx = <<>> THEN Head(tx_fifo) ELSE Head(pending_tx)

Accepted ==
  /\ phase = "output" /\ count < MaxBytes /\ ~NothingToSend
  /\ TakeByte
  /\ pending_tx' = <<>> /\ host_out' = Append(host_out, OutgoingByte)
  /\ count' = count + 1
  /\ UNCHANGED <<plicVars, phase, external, guestVars, inputVars, written, sent, dropped>>

mut_Refused ==
  /\ phase = "output" /\ count < MaxBytes /\ ~NothingToSend
  /\ TakeByte
  /\ pending_tx' = <<>>
  /\ Goto("sync")
  /\ UNCHANGED <<plicVars, external, guestVars, inputVars, outputVars>>

(* WouldBlock or a short write: the byte stays in pending_tx.              *)
Refused ==
  /\ phase = "output" /\ count < MaxBytes /\ ~NothingToSend
  /\ TakeByte
  /\ pending_tx' = <<OutgoingByte>>
  /\ Goto("sync")
  /\ UNCHANGED <<plicVars, external, guestVars, inputVars, outputVars>>

OutputDone ==
  /\ phase = "output"
  /\ count = MaxBytes \/ NothingToSend
  /\ Goto("sync")
  /\ UNCHANGED <<uartVars, plicVars, pending_tx, external, guestVars, inputVars, outputVars>>

-----------------------------------------------------------------------------
(* synchronize_devices: the port drives its line, then the controller      *)
(* drives the pending bits.  (The CLINT half is module Clint.)             *)

mut_synchronize_order ==
  /\ phase = "sync"
  /\ set_source_level(Uart, current_interrupt # "NONE")
  /\ external' = [c \in Context |-> context_pending(c)]
  /\ Goto("step")
  /\ UNCHANGED <<uartVars, pending_tx, guestVars, inputVars, outputVars>>

synchronize_devices ==
  /\ phase = "sync"
  /\ set_source_level(Uart, current_interrupt # "NONE")
  /\ external' = [c \in Context |-> context_pending(c)']
  /\ Goto("step")
  /\ UNCHANGED <<uartVars, pending_tx, guestVars, inputVars, outputVars>>

-----------------------------------------------------------------------------
(* step_cpu: a pending interrupt first, else one instruction.              *)

InterruptTaken == external[SupervisorContext] /\ driver \in MainPoint

take_interrupt ==
  /\ phase = "step" /\ InterruptTaken
  /\ driver' = "claim" /\ resume' = driver /\ waiting' = FALSE
  /\ Goto("input")
  /\ UNCHANGED <<uartVars, plicVars, pending_tx, external, inputVars, outputVars>>

(* A waiting hart steps only if the interrupt is pending.                  *)
Stall ==
  /\ phase = "step" /\ waiting /\ ~external[SupervisorContext]
  /\ Goto("input")
  /\ UNCHANGED <<uartVars, plicVars, pending_tx, external, guestVars, inputVars, outputVars>>

Instruction(at, next) ==
  /\ phase = "step" /\ ~InterruptTaken /\ ~waiting
  /\ driver = at /\ driver' = next
  /\ Goto("input")
  /\ UNCHANGED <<pending_tx, external, resume>>

Idle ==
  /\ Instruction("main", "main")
  /\ waiting' \in BOOLEAN            \* any instruction, or WFI
  /\ UNCHANGED <<uartVars, plicVars, inputVars, outputVars>>

(* Reading LSR consumes the overrun report.                                *)
Report == read_lsr /\ unreported' = FALSE

PollLsr ==
  /\ Instruction("main", IF lsr_thr_empty THEN "thr" ELSE "main")
  /\ written < MaxTx
  /\ Report
  /\ UNCHANGED <<plicVars, waiting, typed, received, lost, flushed, outputVars>>

SendByte ==
  LET byte == MaxRx + written + 1 IN
  /\ Instruction("thr", "main")
  /\ write_thr(byte)
  /\ written' = written + 1
  /\ sent' = IF ThrAccepts THEN Append(sent, byte) ELSE sent
  /\ dropped' = IF ThrAccepts THEN dropped ELSE dropped \cup {byte}
  /\ UNCHANGED <<plicVars, waiting, inputVars, host_out>>

(* A flush discards what is in the port, not the byte in pending_tx.       *)
Flush(clear) ==
  /\ Instruction("main", "main")
  /\ write_fcr(clear)
  /\ sent' = IF "TX" \in clear THEN host_out \o pending_tx ELSE sent
  /\ flushed' = IF "RX" \in clear THEN flushed \cup ToSet(rx_fifo) ELSE flushed
  /\ unreported' = (unreported /\ "RX" \notin clear)
  /\ UNCHANGED <<plicVars, waiting, typed, received, lost, written, host_out, dropped>>

ArmTransmit ==
  /\ Instruction("main", "main")
  /\ write_ier(ier \cup {"TX"})
  /\ UNCHANGED <<plicVars, waiting, inputVars, outputVars>>

(* The divisor is set with interrupts disabled.                            *)
SetDivisor ==
  /\ \/ Instruction("main", "latch") /\ UNCHANGED uartVars
     \/ Instruction("latch", "divisor") /\ write_lcr(TRUE)
     \/ Instruction("divisor", "unlatch") /\ write_thr(0)
     \/ Instruction("unlatch", "main") /\ write_lcr(FALSE)
  /\ UNCHANGED <<plicVars, waiting, inputVars, outputVars>>

-----------------------------------------------------------------------------
(* The interrupt handler.                                                  *)

Claim ==
  /\ Instruction("claim", IF context_pending(SupervisorContext) THEN "serve" ELSE "return")
  /\ read_claim(SupervisorContext)
  /\ UNCHANGED <<uartVars, waiting, inputVars, outputVars>>

Serve ==
  /\ Instruction("serve", IF lsr_data_ready THEN "data"
                          ELSE IF "TX" \in ier THEN "txoff" ELSE "complete")
  /\ Report
  /\ UNCHANGED <<plicVars, waiting, typed, received, lost, flushed, outputVars>>

ReadData ==
  /\ Instruction("data", "serve")
  /\ read_rbr
  /\ received' = Append(received, Head(rx_fifo))
  /\ UNCHANGED <<plicVars, waiting, typed, lost, flushed, unreported, outputVars>>

DisarmTransmit ==
  /\ Instruction("txoff", "complete")
  /\ write_ier(ier \ {"TX"})
  /\ UNCHANGED <<plicVars, waiting, inputVars, outputVars>>

Complete ==
  /\ Instruction("complete", "return")
  /\ write_complete(SupervisorContext, Uart)
  /\ UNCHANGED <<uartVars, waiting, inputVars, outputVars>>

Return ==
  /\ Instruction("return", resume)
  /\ UNCHANGED <<uartVars, plicVars, waiting, inputVars, outputVars>>

Next ==
  \/ InputByte \/ InputDone
  \/ Accepted \/ Refused \/ OutputDone
  \/ synchronize_devices
  \/ take_interrupt \/ Stall
  \/ Idle \/ PollLsr \/ SendByte \/ ArmTransmit \/ SetDivisor
  \/ \E clear \in SUBSET {"RX", "TX"} : Flush(clear)
  \/ Claim \/ Serve \/ ReadData \/ DisarmTransmit \/ Complete \/ Return

(* The loop never stops, and a terminal that is offered a byte again and   *)
(* again accepts it at last.                                               *)
Fairness == WF_vars(Next) /\ SF_vars(Accepted)

EventLoopSpec == Init /\ [][Next]_vars /\ Fairness

-----------------------------------------------------------------------------
(* Properties.                                                             *)

(* Terminal output keeps its order and loses nothing between the port and  *)
(* the terminal: what the port accepted is what the terminal has, then the *)
(* byte in flight, then the FIFO, whatever short writes happened.          *)
OutputConserved == sent = host_out \o pending_tx \o tx_fifo

(* Every byte read from the terminal is in one place: delivered to the     *)
(* guest, still in the FIFO (both in typing order), lost to an overrun or  *)
(* discarded by a flush.  A full FIFO never overwrites an unread byte, and *)
(* a loss shows in the overrun flag until software reads it from LSR or    *)
(* flushes the FIFO, however main program and handler interleave.          *)
InputConserved ==
  LET kept == received \o rx_fifo IN
  /\ \A i \in 1..(Len(kept) - 1) : kept[i] < kept[i + 1]
  /\ ToSet(kept) \cup lost \cup flushed = 1..typed
  /\ ToSet(kept) \cap (lost \cup flushed) = {}
  /\ unreported => overrun_error

(* When the hart decides whether to take an interrupt, SEIP and MEIP agree *)
(* with the controller's registers as they are now, although claims,       *)
(* completes and level changes of earlier iterations lie in between.       *)
PendingFresh ==
  phase = "step" => \A c \in Context : external[c] = context_pending(c)

(* The handler's claim always finds the request that caused the interrupt: *)
(* no iteration between the trap and the claim can withdraw it, and no     *)
(* completed request interrupts again.                                     *)
ClaimFinds == driver = "claim" => select(SupervisorContext) = {Uart}

(* The loop shows the hart the interrupts the devices ask for now, and the *)
(* driver finds what it was interrupted for, over every interleaving of    *)
(* terminal, port, controller and guest.                                   *)
InterruptFresh == EventLoopTypeOK /\ PendingFresh /\ ClaimFinds

(* A received byte is delivered: the FIFO is emptied again and again, even *)
(* when the guest sleeps in WFI or works with interrupts disabled.         *)
InputServed == rx_fifo # <<>> ~> rx_fifo = <<>>

(* Accepted output reaches the terminal, or is flushed: a byte left over   *)
(* by a short write is offered again.                                      *)
OutputDrained == tx_fifo \o pending_tx # <<>> ~> tx_fifo \o pending_tx = <<>>

(* Input and output both make progress, neither at the other's expense.    *)
ConsoleServed == InputServed /\ OutputDrained

(* specs/08-uart-console.md line 23: output is not dropped silently.  The  *)
(* driver writes THR only after LSR said that the transmitter is empty.    *)
NoSilentDrop == dropped = {}
=============================================================================
