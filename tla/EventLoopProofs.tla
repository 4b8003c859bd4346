-------------------------- MODULE EventLoopProofs ---------------------------
(***************************************************************************)
(* The event loop with the serial port, the interrupt controller and the   *)
(* guest's driver, for any number of bytes typed and written and any       *)
(* budget of an iteration.                                                 *)
(*                                                                         *)
(* LoopInv adds to the conservation of bytes what keeps it inductive: how  *)
(* the driver programmed the controller, that the port is in service       *)
(* exactly while the handler serves it, and that any two bytes kept are in *)
(* typing order (a flush splits them anywhere).                            *)
(***************************************************************************)
EXTENDS EventLoop, SequenceTheorems, TLAPS

(* Time limits for the provers.                                            *)
USE SMTT(60), ZenonT(60)

(* The latch bit is set only while the driver sets the divisor, the        *)
(* handler reads only what LSR announced, and a byte the driver is about   *)
(* to write is within its number.                                          *)
DriverShape ==
  /\ dlab <=> driver \in {"divisor", "unlatch"}
  /\ driver = "data" => rx_fifo # <<>>
  /\ driver = "thr" \/ (driver \in Handler /\ resume = "thr") => written < MaxTx

InService == {"serve", "data", "txoff", "complete"}

(* The controller as the driver set it up: only the port requests, and it  *)
(* is in service exactly while the handler serves it.                      *)
ControllerShape ==
  /\ \A s \in Source : priority[s] = 1
  /\ threshold[SupervisorContext] = 0 /\ enable[SupervisorContext] = Source
  /\ \A s \in Source \ {Uart} : ~pending[s]
  /\ claimed_by[Uart] = IF driver \in InService THEN SupervisorContext + 1 ELSE 0
  /\ driver = "claim" => pending[Uart]

OutputShape ==
  /\ written \in 0..MaxTx
  /\ host_out \in Seq(Byte)
  /\ OutputConserved

(* Any two bytes kept are in typing order: the property compares only      *)
(* neighbours, but a flush splits the sequence anywhere.                   *)
Kept == received \o rx_fifo

Increasing(s) == \A i, j \in 1..Len(s) : i < j => s[i] < s[j]

InputShape ==
  /\ typed \in 0..MaxRx
  /\ received \in Seq(Byte)
  /\ Increasing(Kept)
  /\ ToSet(Kept) \cup lost \cup flushed = 1..typed
  /\ ToSet(Kept) \cap (lost \cup flushed) = {}
  /\ unreported => overrun_error

LoopInv ==
  /\ EventLoopTypeOK /\ DriverShape /\ ControllerShape /\ PendingFresh
  /\ OutputShape /\ InputShape

-----------------------------------------------------------------------------
(* Which operation of the port a step performs.                            *)

(* Bytes are numbers.                                                      *)
LEMMA ByteFacts ==
  /\ Byte \subseteq Nat /\ 0 \in Byte
  /\ \A n \in 1..MaxRx : n \in Byte
  /\ \A n \in 1..MaxTx : MaxRx + n \in Byte
BY LoopAssumption DEF Byte

(* The byte the driver is about to write.                                  *)
LEMMA NextByte ==
  ASSUME written \in 0..MaxTx, DriverShape, SendByte
  PROVE MaxRx + written + 1 \in Byte /\ written' \in 0..MaxTx
<1>1. written < MaxTx /\ written' = written + 1
  BY DEF SendByte, Instruction, DriverShape
<1> QED BY <1>1, LoopAssumption DEF Byte

(* The port's operations.                                                  *)
PortOperation ==
  \/ \E byte \in Byte : push_rx(byte) \/ write_thr(byte)
  \/ pop_tx \/ read_rbr \/ read_lsr
  \/ \E bits \in SUBSET IerBit : write_ier(bits)
  \/ \E clear \in SUBSET {"RX", "TX"} : write_fcr(clear)
  \/ \E latch \in BOOLEAN : write_lcr(latch)
  \/ UNCHANGED uartVars

(* A FIFO that had room has a byte more, a FIFO that was not empty a byte  *)
(* less.                                                                   *)
LEMMA FifoTyped ==
  ASSUME NEW q \in Seq(Byte), Len(q) <= kFifoCapacity
  PROVE /\ \A byte \in Byte : Len(q) < kFifoCapacity =>
             Append(q, byte) \in Seq(Byte) /\ Len(Append(q, byte)) <= kFifoCapacity
        /\ q # <<>> => Tail(q) \in Seq(Byte) /\ Len(Tail(q)) <= kFifoCapacity
        /\ <<>> \in Seq(Byte) /\ Len(<<>>) <= kFifoCapacity
BY UartAssumption

(* They keep the port's registers well formed.                             *)
LEMMA PortTyped ==
  ASSUME UartTypeOK(Byte), PortOperation
  PROVE UartTypeOK(Byte)'
<1>1. ASSUME NEW byte \in Byte, push_rx(byte) PROVE UartTypeOK(Byte)'
  BY <1>1, FifoTyped, UartAssumption DEF push_rx, RxFull, UartTypeOK
<1>2. ASSUME NEW byte \in Byte, write_thr(byte) PROVE UartTypeOK(Byte)'
  BY <1>2, FifoTyped DEF write_thr, ThrAccepts, UartTypeOK
<1>3. CASE pop_tx
  BY <1>3, FifoTyped DEF pop_tx, UartTypeOK
<1>4. CASE read_rbr
  BY <1>4, FifoTyped DEF read_rbr, UartTypeOK
<1>5. CASE read_lsr
  BY <1>5, ZenonT(60) DEF read_lsr, UartTypeOK
<1>6. ASSUME NEW bits \in SUBSET IerBit, write_ier(bits) PROVE UartTypeOK(Byte)'
  BY <1>6 DEF write_ier, UartTypeOK
<1>7. ASSUME NEW clear \in SUBSET {"RX", "TX"}, write_fcr(clear) PROVE UartTypeOK(Byte)'
  BY <1>7, FifoTyped DEF write_fcr, UartTypeOK
<1>8. ASSUME NEW latch \in BOOLEAN, write_lcr(latch) PROVE UartTypeOK(Byte)'
  BY <1>8 DEF write_lcr, UartTypeOK
<1>9. CASE UNCHANGED uartVars
  BY <1>9 DEF uartVars, UartTypeOK
<1> QED BY <1>1, <1>2, <1>3, <1>4, <1>5, <1>6, <1>7, <1>8, <1>9, ZenonT(60) DEF PortOperation

(* A step of the loop performs at most one of them.                        *)
LEMMA PortStep ==
  ASSUME Next, typed \in 0..MaxRx, written \in 0..MaxTx, DriverShape, ier \subseteq IerBit
  PROVE PortOperation
<1> USE DEF PortOperation
<1>1. CASE InputByte
  <2>1. typed + 1 \in Byte
    BY <1>1, ByteFacts, LoopAssumption DEF InputByte
  <2> QED BY <1>1, <2>1 DEF InputByte
<1>2. CASE InputDone \/ OutputDone \/ synchronize_devices
  BY <1>2 DEF InputDone, OutputDone, synchronize_devices
<1>3. CASE Accepted \/ Refused
  BY <1>3 DEF Accepted, Refused, TakeByte
<1>4. CASE take_interrupt \/ Stall \/ Idle
  BY <1>4 DEF take_interrupt, Stall, Idle
<1>5. CASE PollLsr \/ Serve
  BY <1>5 DEF PollLsr, Serve, Report
<1>6. CASE SendByte
  <2>1. MaxRx + written + 1 \in Byte
    BY <1>6, NextByte, ZenonT(60)
  <2> QED BY <1>6, <2>1 DEF SendByte
<1>7. CASE ArmTransmit \/ DisarmTransmit
  <2>1. ier \cup {"TX"} \in SUBSET IerBit /\ ier \ {"TX"} \in SUBSET IerBit
    BY DEF IerBit
  <2> QED BY <1>7, <2>1 DEF ArmTransmit, DisarmTransmit
<1>8. CASE SetDivisor
  BY <1>8, ByteFacts, ZenonT(60) DEF SetDivisor
<1>9. ASSUME NEW clear \in SUBSET {"RX", "TX"}, Flush(clear) PROVE PortOperation
  BY <1>9, ZenonT(60) DEF Flush
<1>10. CASE Claim \/ Complete \/ Return
  BY <1>10 DEF Claim, Complete, Return
<1>11. CASE ReadData
  BY <1>11, ZenonT(60) DEF ReadData
<1> HIDE DEF PortOperation
<1> QED BY <1>1, <1>2, <1>3, <1>4, <1>5, <1>6, <1>7, <1>8, <1>9, <1>10, <1>11, ZenonT(60) DEF Next
(* An access of the main program or the handler leaves the loop's own      *)
(* state and moves the driver.                                             *)
LEMMA DriverKept ==
  ASSUME Next, DriverShape, resume \in MainPoint, rx_fifo \in Seq(Byte)
  PROVE DriverShape'
<1> USE DEF DriverShape, Handler, MainPoint
<1>1. CASE InputByte
  <2>1. rx_fifo # <<>> => rx_fifo' # <<>>
    BY <1>1 DEF InputByte, push_rx
  <2> QED BY <1>1, <2>1, ZenonT(60) DEF InputByte, push_rx, guestVars, outputVars
<1>2. CASE InputDone \/ OutputDone \/ synchronize_devices \/ Stall
  BY <1>2 DEF InputDone, OutputDone, synchronize_devices, Stall, uartVars, guestVars, outputVars
<1>3. CASE Accepted \/ Refused
  BY <1>3, ZenonT(60) DEF Accepted, Refused, TakeByte, pop_tx, uartVars, guestVars, outputVars
<1>4. CASE take_interrupt
  BY <1>4, ZenonT(60) DEF take_interrupt, InterruptTaken, uartVars, outputVars
<1>5. CASE Idle \/ PollLsr \/ Serve
  BY <1>5 DEF Idle, PollLsr, Serve, Instruction, Report, read_lsr, uartVars, outputVars,
              lsr_data_ready
<1>6. CASE SendByte \/ ArmTransmit \/ DisarmTransmit
  BY <1>6 DEF SendByte, ArmTransmit, DisarmTransmit, Instruction, write_thr, write_ier, outputVars
<1>7. CASE SetDivisor
  BY <1>7 DEF SetDivisor, Instruction, write_lcr, write_thr, uartVars, outputVars
<1>8. ASSUME NEW clear \in SUBSET {"RX", "TX"}, Flush(clear) PROVE DriverShape'
  BY <1>8 DEF Flush, Instruction, write_fcr
<1>9. CASE Claim \/ Complete \/ Return
  BY <1>9 DEF Claim, Complete, Return, Instruction, uartVars, outputVars
<1>10. CASE ReadData
  BY <1>10, ZenonT(60) DEF ReadData, Instruction, read_rbr, outputVars
<1> HIDE DEF DriverShape, Handler, MainPoint
<1> QED BY <1>1, <1>2, <1>3, <1>4, <1>5, <1>6, <1>7, <1>8, <1>9, <1>10, ZenonT(60) DEF Next

-----------------------------------------------------------------------------
(* The interrupt controller.                                               *)

(* With the registers the driver set, the port is selected exactly while   *)
(* its request is latched and not in service.                              *)
LEMMA SelectPort ==
  ASSUME PlicTypeOK, ControllerShape
  PROVE select(SupervisorContext) =
          IF pending[Uart] /\ claimed_by[Uart] = 0 THEN {Uart} ELSE {}
<1>1. Uart \in Source
  BY PlicAssumption DEF Source, Uart
<1>2. ASSUME NEW s \in Source
      PROVE Candidate(SupervisorContext, s) <=> s = Uart /\ pending[Uart] /\ claimed_by[Uart] = 0
  <2>1. priority[s] > threshold[SupervisorContext] /\ s \in enable[SupervisorContext]
    BY DEF ControllerShape
  <2> QED BY <2>1, ZenonT(60) DEF Candidate, ControllerShape
<1> QED BY <1>1, <1>2 DEF select

(* A step of the loop drives the port's line, claims or completes for the  *)
(* supervisor, or leaves the controller alone.                             *)
LEMMA ControllerStep ==
  ASSUME Next, resume \in MainPoint
  PROVE \/ synchronize_devices \/ Claim \/ Complete
        \/ UNCHANGED plicVars /\ ~(driver' \in InService /\ driver \notin InService)
           /\ ~(driver \in InService /\ driver' \notin InService)
           /\ (driver' = "claim" => driver = "claim" \/ take_interrupt)
<1> USE DEF InService
<1>1. CASE InputByte \/ InputDone \/ OutputDone \/ Stall
  BY <1>1, ZenonT(60) DEF InputByte, InputDone, OutputDone, Stall, guestVars
<1>3. CASE Accepted \/ Refused
  BY <1>3, ZenonT(60) DEF Accepted, Refused, guestVars
<1>4. CASE take_interrupt
  BY <1>4, ZenonT(60) DEF take_interrupt, InterruptTaken, MainPoint
<1>5. CASE Idle \/ PollLsr \/ Serve \/ SendByte
  BY <1>5, ZenonT(60) DEF Idle, PollLsr, Serve, SendByte, Instruction
<1>6. CASE ArmTransmit \/ DisarmTransmit \/ SetDivisor \/ ReadData
  BY <1>6, ZenonT(60) DEF ArmTransmit, DisarmTransmit, SetDivisor, ReadData, Instruction
<1>7. ASSUME NEW clear \in SUBSET {"RX", "TX"}, Flush(clear)
      PROVE UNCHANGED plicVars /\ driver' = driver /\ driver = "main"
  BY <1>7, ZenonT(60) DEF Flush, Instruction
<1>8. CASE Return
  BY <1>8 DEF Return, Instruction, MainPoint
<1> QED BY <1>1, <1>3, <1>4, <1>5, <1>6, <1>7, <1>8, ZenonT(60) DEF Next

(* The handler's claim takes the port into service, its complete releases  *)
(* it, and the interrupt it was taken for stays latched until the claim.   *)
LEMMA ControllerKept ==
  ASSUME Next, resume \in MainPoint, PlicTypeOK, ControllerShape, PendingFresh
  PROVE PlicTypeOK' /\ ControllerShape'
<1>1. Uart \in Source /\ SupervisorContext \in Context
  BY PlicAssumption DEF Source, Uart, Context, SupervisorContext
<1>2. CASE synchronize_devices
  <2>1. PICK asserted \in BOOLEAN :
          /\ level' = [level EXCEPT ![Uart] = asserted]
          /\ pending' = [pending EXCEPT ![Uart] = @ \/ (asserted /\ claimed_by[Uart] = 0)]
          /\ UNCHANGED <<priority, claimed_by, enable, threshold, driver>>
    BY <1>1, <1>2, ZenonT(60) DEF synchronize_devices, set_source_level, guestVars
  <2>2. PlicTypeOK'
    BY <1>1, <2>1, ZenonT(60) DEF PlicTypeOK
  <2>3. ControllerShape'
    BY <1>1, <2>1, ZenonT(60) DEF ControllerShape, PlicTypeOK
  <2> QED BY <2>2, <2>3
<1>3. CASE Claim
  <2>1. driver = "claim" /\ claimed_by[Uart] = 0 /\ pending[Uart]
    BY <1>3, ZenonT(60) DEF Claim, Instruction, ControllerShape, InService
  <2>2. select(SupervisorContext) = {Uart}
    BY <2>1, SelectPort, ZenonT(60)
  <2>3. /\ driver' = "serve"
        /\ pending' = [s \in Source |-> pending[s] /\ s # Uart]
        /\ claimed_by' = [s \in Source |->
                            IF s = Uart THEN SupervisorContext + 1 ELSE claimed_by[s]]
        /\ UNCHANGED <<priority, level, enable, threshold>>
    BY <1>3, <2>2, ZenonT(60) DEF Claim, Instruction, read_claim, context_pending
  <2>4. PlicTypeOK'
    BY <2>3 DEF PlicTypeOK, SupervisorContext
  <2>5. ControllerShape'
    BY <1>1, <2>3, ZenonT(60) DEF ControllerShape, InService
  <2> QED BY <2>4, <2>5
<1>4. CASE Complete
  <2>1. claimed_by[Uart] = SupervisorContext + 1 /\ driver' = "return"
    BY <1>4 DEF Complete, Instruction, ControllerShape, InService
  <2>2. /\ claimed_by' = [claimed_by EXCEPT ![Uart] = 0]
        /\ pending' = [pending EXCEPT ![Uart] = level[Uart]]
        /\ UNCHANGED <<priority, level, enable, threshold>>
    BY <1>1, <1>4, <2>1, ZenonT(60) DEF Complete, write_complete
  <2>3. PlicTypeOK'
    BY <1>1, <2>2 DEF PlicTypeOK
  <2>4. ControllerShape'
    BY <1>1, <2>1, <2>2, ZenonT(60) DEF ControllerShape, InService, PlicTypeOK
  <2> QED BY <2>3, <2>4
<1>5. CASE /\ UNCHANGED plicVars /\ ~(driver' \in InService /\ driver \notin InService)
           /\ ~(driver \in InService /\ driver' \notin InService)
           /\ (driver' = "claim" => driver = "claim" \/ take_interrupt)
  <2>1. take_interrupt => pending[Uart]
    <3> SUFFICES ASSUME take_interrupt PROVE pending[Uart]
      OBVIOUS
    <3>1. context_pending(SupervisorContext)
      BY <1>1 DEF take_interrupt, InterruptTaken, PendingFresh
    <3> QED BY <3>1, SelectPort, ZenonT(60) DEF context_pending
  <2>2. PlicTypeOK'
    BY <1>5, ZenonT(60) DEF PlicTypeOK, plicVars
  <2>3. ControllerShape'
    BY <1>5, <2>1, ZenonT(60) DEF ControllerShape, plicVars
  <2> QED BY <2>2, <2>3
<1> QED BY <1>2, <1>3, <1>4, <1>5, ControllerStep, ZenonT(60)

(* The pending bits are refreshed right before every step of the hart.     *)
LEMMA FreshKept ==
  ASSUME Next
  PROVE PendingFresh' /\ (phase' = "step" => synchronize_devices)
<1>1. CASE synchronize_devices
  BY <1>1, ZenonT(60) DEF synchronize_devices, PendingFresh, context_pending, select, Candidate
<1>2. CASE ~synchronize_devices
  <2>1. phase' # "step"
    <3>1. CASE InputByte
      BY <3>1 DEF InputByte, Goto
    <3>2. CASE InputDone \/ OutputDone \/ Refused \/ Accepted
      BY <3>2, ZenonT(60) DEF InputDone, OutputDone, Refused, Accepted, Goto
    <3>3. CASE take_interrupt \/ Stall \/ Idle \/ PollLsr \/ SendByte
      BY <3>3, ZenonT(60) DEF take_interrupt, Stall, Idle, PollLsr, SendByte, Instruction, Goto
    <3>4. CASE ArmTransmit \/ SetDivisor \/ \E clear \in SUBSET {"RX", "TX"} : Flush(clear)
      BY <3>4, ZenonT(60) DEF ArmTransmit, SetDivisor, Flush, Instruction, Goto
    <3>5. CASE Claim \/ Serve \/ ReadData \/ DisarmTransmit \/ Complete \/ Return
      BY <3>5, ZenonT(60)
         DEF Claim, Serve, ReadData, DisarmTransmit, Complete, Return, Instruction, Goto
    <3> QED BY <1>2, <3>1, <3>2, <3>3, <3>4, <3>5, ZenonT(60) DEF Next
  <2> QED BY <2>1 DEF PendingFresh
<1> QED BY <1>1, <1>2

-----------------------------------------------------------------------------
(* Output.                                                                 *)

(* Sequences of bytes.                                                     *)
Bytes == Seq(Byte)

(* Concatenation is associative.                                           *)
LEMMA ConcatAssociates ==
  ASSUME NEW a \in Bytes, NEW b \in Bytes, NEW c \in Bytes
  PROVE (a \o b) \o c = a \o (b \o c)
BY ConcatAssociative DEF Bytes

(* Concatenation is closed and has the empty sequence as its unit.         *)
LEMMA ConcatFacts ==
  /\ \A a, b \in Bytes : a \o b \in Bytes
  /\ \A a \in Bytes : a \o <<>> = a /\ <<>> \o a = a
  /\ <<>> \in Bytes
<1>1. \A a, b \in Bytes : a \o b \in Bytes
  BY ConcatProperties DEF Bytes
<1>2. \A a \in Bytes : a \o <<>> = a /\ <<>> \o a = a
  BY ConcatEmptySeq DEF Bytes
<1> QED BY <1>1, <1>2 DEF Bytes

(* Append is concatenation with a one-element sequence.                    *)
LEMMA AppendFacts ==
  ASSUME NEW a \in Bytes, NEW x \in Byte
  PROVE <<x>> \in Bytes /\ Append(a, x) = a \o <<x>> /\ Append(a, x) \in Bytes
BY AppendIsConcat, AppendProperties DEF Bytes

(* A sequence is its head and its tail.                                    *)
LEMMA HeadFacts ==
  ASSUME NEW a \in Bytes, a # <<>>
  PROVE /\ Head(a) \in Byte /\ Tail(a) \in Bytes /\ a = <<Head(a)>> \o Tail(a)
        /\ Len(a) <= 1 => a = <<Head(a)>>
<1>1. Head(a) \in Byte /\ Tail(a) \in Bytes /\ Len(a) \in Nat \ {0}
  BY HeadTailProperties DEF Bytes
<1>2. a = <<Head(a)>> \o Tail(a)
  <2> DEFINE b == <<Head(a)>> \o Tail(a)
  <2>1. <<Head(a)>> \in Bytes /\ Len(<<Head(a)>>) = 1 /\ <<Head(a)>>[1] = a[1]
    BY <1>1 DEF Bytes
  <2>2. Len(Tail(a)) = Len(a) - 1 /\ \A i \in 1..Len(a) - 1 : Tail(a)[i] = a[i + 1]
    BY HeadTailProperties, ZenonT(60) DEF Bytes
  <2>3. b \in Seq(Byte) /\ Len(b) = 1 + (Len(a) - 1)
        /\ \A i \in 1..1 + (Len(a) - 1) :
             b[i] = IF i <= 1 THEN <<Head(a)>>[i] ELSE Tail(a)[i - 1]
    BY <1>1, <2>1, <2>2, ConcatProperties DEF Bytes
  <2> HIDE DEF b
  <2>4. Len(a) = Len(b)
    BY <1>1, <2>3
  <2>5. ASSUME NEW i \in 1..Len(a) PROVE a[i] = b[i]
    <3>1. CASE i = 1
      BY <1>1, <2>1, <2>3, <3>1
    <3>2. CASE i # 1
      <4>1. i - 1 \in 1..Len(a) - 1 /\ i \in 1..1 + (Len(a) - 1) /\ ~(i <= 1) /\ (i - 1) + 1 = i
        BY <1>1, <3>2
      <4>2. b[i] = Tail(a)[i - 1] /\ Tail(a)[i - 1] = a[(i - 1) + 1]
        BY <2>2, <2>3, <4>1, ZenonT(60)
      <4> QED BY <4>1, <4>2, ZenonT(60)
    <3> QED BY <3>1, <3>2, ZenonT(60)
  <2>6. a = b
    BY <2>3, <2>4, <2>5, SeqEqual, ZenonT(60) DEF Bytes
  <2> QED BY <2>6 DEF b
<1>3. Len(a) <= 1 => a = <<Head(a)>>
  <2> SUFFICES ASSUME Len(a) <= 1 PROVE a = <<Head(a)>>
    OBVIOUS
  <2> DEFINE b == <<Head(a)>>
  <2>1. b \in Seq(Byte) /\ Len(b) = 1 /\ b[1] = a[1]
    BY <1>1 DEF Bytes
  <2> HIDE DEF b
  <2>2. Len(a) = 1
    BY <1>1
  <2>3. Len(a) = Len(b) /\ \A i \in 1..Len(a) : a[i] = b[i]
    <3>1. 1..Len(a) = {1}
      BY <2>2
    <3> QED BY <2>1, <2>2, <3>1, ZenonT(60)
  <2>4. a = b
    BY <2>1, <2>3, SeqEqual, ZenonT(60) DEF Bytes
  <2> QED BY <2>4, ZenonT(60) DEF b
<1> QED BY <1>1, <1>2, <1>3, ZenonT(60)

(* The head of a FIFO moves to the end of what precedes it.                *)
LEMMA HeadMoves ==
  ASSUME NEW a \in Bytes, NEW x \in Bytes, NEW t \in Bytes
  PROVE /\ (a \o x) \o t = (a \o <<>>) \o (x \o t)
        /\ ((a \o x) \o <<>>) \o t = (a \o <<>>) \o (x \o t)
<1>1. a \o x \in Bytes /\ (a \o x) \o <<>> = a \o x /\ a \o <<>> = a
  BY ConcatFacts
<1>2. (a \o x) \o t = a \o (x \o t)
  BY ConcatAssociates, ZenonT(60)
<1> QED BY <1>1, <1>2, ZenonT(60)

(* Only these steps move output.                                           *)
LEMMA OutputStep ==
  ASSUME Next, DriverShape
  PROVE \/ Accepted \/ Refused \/ SendByte
        \/ \E clear \in SUBSET {"RX", "TX"} : Flush(clear)
        \/ UNCHANGED <<tx_fifo, pending_tx, host_out, sent, written>>
<1>1. CASE InputByte \/ InputDone \/ OutputDone \/ Stall \/ take_interrupt
  BY <1>1, ZenonT(60)
     DEF InputByte, InputDone, OutputDone, Stall, take_interrupt, push_rx, uartVars, outputVars
<1>2. CASE synchronize_devices \/ Claim \/ Complete \/ Return
  BY <1>2, ZenonT(60)
     DEF synchronize_devices, Claim, Complete, Return, Instruction, uartVars, outputVars
<1>3. CASE Idle \/ PollLsr \/ Serve \/ ReadData
  BY <1>3, ZenonT(60)
     DEF Idle, PollLsr, Serve, ReadData, Instruction, Report, read_lsr, read_rbr, uartVars,
              outputVars
<1>4. CASE ArmTransmit \/ DisarmTransmit
  BY <1>4, ZenonT(60) DEF ArmTransmit, DisarmTransmit, Instruction, write_ier, outputVars
<1>5. CASE SetDivisor
  BY <1>5, ZenonT(60)
     DEF SetDivisor, Instruction, write_lcr, write_thr, ThrAccepts, uartVars, outputVars,
              DriverShape
<1> QED BY <1>1, <1>2, <1>3, <1>4, <1>5, ZenonT(60) DEF Next

(* Bytes move from the port to pending_tx and the terminal in order.       *)
LEMMA OutputKept ==
  ASSUME Next, DriverShape, tx_fifo \in Bytes, pending_tx \in Bytes, Len(pending_tx) <= 1,
         OutputShape
  PROVE OutputShape' /\ pending_tx' \in Bytes /\ Len(pending_tx') <= 1
<1>h. host_out \in Bytes
  BY ZenonT(60) DEF OutputShape, Bytes
<1>1. host_out \in Bytes /\ written \in 0..MaxTx /\ sent = (host_out \o pending_tx) \o tx_fifo
  BY ZenonT(60) DEF OutputShape, OutputConserved, Bytes
<1>s. SUFFICES /\ sent' = (host_out' \o pending_tx') \o tx_fifo'
               /\ host_out' \in Bytes /\ pending_tx' \in Bytes /\ Len(pending_tx') <= 1
               /\ written' \in 0..MaxTx
  BY ZenonT(60) DEF OutputShape, OutputConserved, Bytes
<1>e. <<>> \in Bytes /\ Len(<<>>) = 0
  BY ConcatFacts
<1> DEFINE h == <<Head(tx_fifo)>>  t == Tail(tx_fifo)
<1>t. tx_fifo # <<>> => /\ h \in Bytes /\ t \in Bytes /\ tx_fifo = h \o t /\ Len(h) = 1
                        /\ Append(host_out, Head(tx_fifo)) = host_out \o h
  BY <1>1, HeadFacts, AppendFacts, ZenonT(60)
<1>p. pending_tx # <<>> => /\ pending_tx = <<Head(pending_tx)>>
                           /\ Append(host_out, Head(pending_tx)) = host_out \o pending_tx
  <2> SUFFICES ASSUME pending_tx # <<>>
               PROVE /\ pending_tx = <<Head(pending_tx)>>
                     /\ Append(host_out, Head(pending_tx)) = host_out \o pending_tx
    OBVIOUS
  <2>1. pending_tx = <<Head(pending_tx)>> /\ Head(pending_tx) \in Byte
    BY HeadFacts, ZenonT(60)
  <2>2. Append(host_out, Head(pending_tx)) = host_out \o <<Head(pending_tx)>>
    BY <1>1, <2>1, AppendFacts, ZenonT(60)
  <2> QED BY <2>1, <2>2, ZenonT(60)
<1> HIDE DEF h, t
<1>2. CASE Accepted
  <2>0. sent' = sent /\ pending_tx' = <<>> /\ written' = written
    BY <1>2 DEF Accepted
  <2>1. CASE pending_tx = <<>>
    <3>1. tx_fifo # <<>> /\ tx_fifo' = t /\ host_out' = Append(host_out, Head(tx_fifo))
      BY <1>2, <2>1, ZenonT(60) DEF Accepted, TakeByte, OutgoingByte, NothingToSend, pop_tx, t
    <3>2. h \in Bytes /\ t \in Bytes /\ tx_fifo = h \o t /\ host_out' = host_out \o h
      BY <1>t, <3>1, ZenonT(60)
    <3>3. host_out \o h \in Bytes
      BY <1>1, <3>2, ConcatFacts, ZenonT(60)
    <3>4. ((host_out \o h) \o <<>>) \o t = (host_out \o <<>>) \o (h \o t)
      <4>1. h \in Bytes /\ t \in Bytes
        BY <3>2, ZenonT(60)
      <4> QED BY <1>h, <4>1, HeadMoves, ZenonT(60)
    <3> QED BY <1>1, <1>e, <2>0, <2>1, <3>1, <3>2, <3>3, <3>4, ZenonT(60)
  <2>2. CASE pending_tx # <<>>
    <3>1. tx_fifo' = tx_fifo /\ host_out' = Append(host_out, Head(pending_tx))
      BY <1>2, <2>2, ZenonT(60) DEF Accepted, TakeByte, OutgoingByte, uartVars
    <3>2. host_out' = host_out \o pending_tx /\ host_out' \in Bytes
      <4>1. host_out' = host_out \o pending_tx
        BY <1>p, <2>2, <3>1, ZenonT(60)
      <4>2. host_out \o pending_tx \in Bytes
        BY <1>h, ConcatFacts, ZenonT(60)
      <4> QED BY <4>1, <4>2, ZenonT(60)
    <3>3. (host_out' \o <<>>) \o tx_fifo = (host_out \o pending_tx) \o tx_fifo
      BY <3>2, ConcatFacts, ZenonT(60)
    <3>4. (host_out' \o pending_tx') \o tx_fifo' = (host_out' \o <<>>) \o tx_fifo
      BY <2>0, <3>1, ZenonT(60)
    <3> QED BY <1>1, <1>e, <2>0, <3>2, <3>3, <3>4, SMTT(60), ZenonT(60)
  <2> QED BY <2>1, <2>2, ZenonT(60)
<1>3. CASE Refused
  <2>0. sent' = sent /\ host_out' = host_out /\ written' = written
    BY <1>3, ZenonT(60) DEF Refused, outputVars
  <2>1. CASE pending_tx = <<>>
    <3>1. tx_fifo # <<>> /\ tx_fifo' = t /\ pending_tx' = h
      BY <1>3, <2>1, ZenonT(60) DEF Refused, TakeByte, OutgoingByte, NothingToSend, pop_tx, h, t
    <3>2. h \in Bytes /\ t \in Bytes /\ tx_fifo = h \o t /\ Len(h) = 1
      BY <1>t, <3>1, ZenonT(60)
    <3>3. (host_out \o h) \o t = (host_out \o <<>>) \o (h \o t)
      <4>1. h \in Bytes /\ t \in Bytes
        BY <3>2
      <4> QED BY <1>h, <4>1, HeadMoves, ZenonT(60)
    <3> QED BY <1>1, <2>0, <2>1, <3>1, <3>2, <3>3
  <2>2. CASE pending_tx # <<>>
    <3>1. tx_fifo' = tx_fifo /\ pending_tx' = pending_tx
      BY <1>3, <1>p, <2>2, ZenonT(60) DEF Refused, TakeByte, OutgoingByte, uartVars
    <3> QED BY <1>1, <2>0, <3>1, ZenonT(60)
  <2> QED BY <2>1, <2>2, ZenonT(60)
<1>4. CASE SendByte
  <2>0. host_out' = host_out /\ pending_tx' = pending_tx /\ written' \in 0..MaxTx
    <3>1. host_out' = host_out /\ pending_tx' = pending_tx
      BY <1>4, ZenonT(60) DEF SendByte, Instruction
    <3> QED BY <1>1, <1>4, <3>1, NextByte, ZenonT(60)
  <2> DEFINE byte == MaxRx + written + 1
  <2>1. byte \in Byte
    BY <1>1, <1>4, NextByte, ZenonT(60)
  <2>2. \/ tx_fifo' = tx_fifo /\ sent' = sent
        \/ tx_fifo' = Append(tx_fifo, byte) /\ sent' = Append(sent, byte)
    BY <1>4, ZenonT(60) DEF SendByte, write_thr
  <2> HIDE DEF byte
  <2>3. sent \in Bytes /\ host_out \o pending_tx \in Bytes
    BY <1>1, ConcatFacts, ZenonT(60)
  <2>4. Append(sent, byte) = (host_out \o pending_tx) \o Append(tx_fifo, byte)
    <3>1. Append(sent, byte) = sent \o <<byte>> /\ Append(tx_fifo, byte) = tx_fifo \o <<byte>>
          /\ <<byte>> \in Bytes
      BY <2>1, <2>3, AppendFacts, ZenonT(60)
    <3>2. ((host_out \o pending_tx) \o tx_fifo) \o <<byte>>
            = (host_out \o pending_tx) \o (tx_fifo \o <<byte>>)
      BY <2>3, <3>1, ConcatAssociates, ZenonT(60)
    <3> QED BY <1>1, <3>1, <3>2, ZenonT(60)
  <2> QED BY <1>1, <2>0, <2>2, <2>4, ZenonT(60)
<1>5. ASSUME NEW clear \in SUBSET {"RX", "TX"}, Flush(clear)
      PROVE /\ sent' = (host_out' \o pending_tx') \o tx_fifo'
            /\ host_out' = host_out /\ pending_tx' = pending_tx /\ written' = written
  <2>1. /\ host_out' = host_out /\ pending_tx' = pending_tx /\ written' = written
        /\ \/ tx_fifo' = tx_fifo /\ sent' = sent
           \/ tx_fifo' = <<>> /\ sent' = host_out \o pending_tx
    BY <1>5, ZenonT(60) DEF Flush, Instruction, write_fcr
  <2>2. (host_out \o pending_tx) \o <<>> = host_out \o pending_tx
    BY <1>1, ConcatFacts, ZenonT(60)
  <2> QED BY <1>1, <2>1, <2>2, ZenonT(60)
<1>6. CASE UNCHANGED <<tx_fifo, pending_tx, host_out, sent, written>>
  BY <1>1, <1>6, ZenonT(60)
<1> QED BY <1>1, <1>2, <1>3, <1>4, <1>5, <1>6, OutputStep, ZenonT(60)

-----------------------------------------------------------------------------
(* Input.                                                                  *)

(* The bytes of a sequence are the values at its positions.                *)
LEMMA ToSetFacts ==
  ASSUME NEW a \in Bytes
  PROVE ToSet(a) = {a[i] : i \in 1..Len(a)}
<1>1. DOMAIN a = 1..Len(a)
  BY DEF Bytes
<1> QED BY <1>1, ZenonT(60) DEF ToSet

(* The next byte typed is larger than every byte before it.                *)
LEMMA AppendIncreases ==
  ASSUME NEW a \in Bytes, NEW n \in Nat, n + 1 \in Byte, Increasing(a), ToSet(a) \subseteq 1..n
  PROVE Increasing(Append(a, n + 1)) /\ ToSet(Append(a, n + 1)) = ToSet(a) \cup {n + 1}
<1> DEFINE b == Append(a, n + 1)
<1>1. /\ b \in Bytes /\ Len(a) \in Nat /\ Len(b) = Len(a) + 1 /\ b[Len(a) + 1] = n + 1
      /\ \A i \in 1..Len(a) : b[i] = a[i]
  BY AppendProperties, LenProperties DEF Bytes
<1> HIDE DEF b
<1>2. \A i \in 1..Len(a) : a[i] \in 1..n
  BY ToSetFacts, ZenonT(60)
<1>3. \A i \in 1..Len(b) : i \in 1..Len(a) \/ i = Len(a) + 1
  BY <1>1
<1>4. Increasing(b)
  <2> SUFFICES ASSUME NEW i \in 1..Len(b), NEW j \in 1..Len(b), i < j PROVE b[i] < b[j]
    BY ZenonT(60) DEF Increasing
  <2>1. i \in 1..Len(a)
    BY <1>1
  <2>2. CASE j \in 1..Len(a)
    BY <1>1, <2>1, <2>2, ZenonT(60) DEF Increasing
  <2>3. CASE j = Len(a) + 1
    BY <1>1, <1>2, <2>1, <2>3
  <2> QED BY <1>3, <2>2, <2>3, ZenonT(60)
<1>5. ToSet(b) = ToSet(a) \cup {n + 1}
  <2>1. ToSet(b) = {b[i] : i \in 1..Len(b)} /\ ToSet(a) = {a[i] : i \in 1..Len(a)}
    BY <1>1, ToSetFacts, ZenonT(60)
  <2>2. Len(a) + 1 \in 1..Len(b) /\ \A i \in 1..Len(a) : i \in 1..Len(b)
    BY <1>1
  <2> QED BY <1>1, <1>3, <2>1, <2>2, ZenonT(60)
<1> QED BY <1>4, <1>5, ZenonT(60) DEF b

(* The two parts of an increasing sequence are increasing and disjoint.    *)
LEMMA PartsIncrease ==
  ASSUME NEW a \in Bytes, NEW b \in Bytes, Increasing(a \o b)
  PROVE /\ Increasing(a)
        /\ ToSet(a \o b) = ToSet(a) \cup ToSet(b)
        /\ ToSet(a) \cap ToSet(b) = {}
<1> DEFINE c == a \o b
<1>1. /\ c \in Bytes /\ Len(a) \in Nat /\ Len(b) \in Nat /\ Len(c) = Len(a) + Len(b)
      /\ \A i \in 1..Len(a) + Len(b) : c[i] = IF i <= Len(a) THEN a[i] ELSE b[i - Len(a)]
  BY ConcatProperties, LenProperties, ZenonT(60) DEF Bytes
<1>c. Increasing(c)
  OBVIOUS
<1> HIDE DEF c
<1>2. \A i \in 1..Len(a) : i \in 1..Len(c) /\ c[i] = a[i]
  BY <1>1
<1>3. \A i \in 1..Len(b) : Len(a) + i \in 1..Len(c) /\ c[Len(a) + i] = b[i]
  BY <1>1
<1>4. Increasing(a)
  BY <1>c, <1>2, ZenonT(60) DEF Increasing
<1>5. /\ ToSet(c) = {c[i] : i \in 1..Len(c)} /\ ToSet(a) = {a[i] : i \in 1..Len(a)}
      /\ ToSet(b) = {b[i] : i \in 1..Len(b)}
  BY <1>1, ToSetFacts, ZenonT(60)
<1>6. ToSet(c) = ToSet(a) \cup ToSet(b)
  <2>1. ToSet(a) \cup ToSet(b) \subseteq ToSet(c)
    BY <1>2, <1>3, <1>5, ZenonT(60)
  <2>2. ASSUME NEW i \in 1..Len(c) PROVE c[i] \in ToSet(a) \cup ToSet(b)
    <3>1. CASE i <= Len(a)
      BY <1>1, <1>5, <3>1
    <3>2. CASE ~(i <= Len(a))
      <4>1. i - Len(a) \in 1..Len(b) /\ c[i] = b[i - Len(a)]
        BY <1>1, <3>2
      <4> QED BY <1>5, <4>1, ZenonT(60)
    <3> QED BY <3>1, <3>2, ZenonT(60)
  <2> QED BY <1>5, <2>1, <2>2, ZenonT(60)
<1>7. ToSet(a) \cap ToSet(b) = {}
  <2> SUFFICES ASSUME NEW i \in 1..Len(a), NEW j \in 1..Len(b), a[i] = b[j] PROVE FALSE
    BY <1>5, ZenonT(60)
  <2>1. i < Len(a) + j
    BY <1>1
  <2>2. a[i] < b[j]
    BY <1>c, <1>2, <1>3, <2>1, ZenonT(60) DEF Increasing
  <2>3. a[i] \in Nat
    BY ByteFacts, ElementOfSeq, ZenonT(60) DEF Bytes
  <2> QED BY <2>2, <2>3
<1> QED BY <1>4, <1>6, <1>7, ZenonT(60) DEF c

(* Only these steps move input or change what is known of its loss.        *)
LEMMA InputStep ==
  ASSUME Next
  PROVE \/ InputByte \/ ReadData \/ \E clear \in SUBSET {"RX", "TX"} : Flush(clear)
        \/ UNCHANGED <<rx_fifo, typed, received, lost, flushed>> /\ ~unreported'
        \/ UNCHANGED <<rx_fifo, typed, received, lost, flushed, unreported, overrun_error>>
<1>1. CASE InputDone \/ OutputDone \/ Stall \/ take_interrupt
  BY <1>1, ZenonT(60) DEF InputDone, OutputDone, Stall, take_interrupt, uartVars, inputVars
<1>2. CASE Accepted \/ Refused
  BY <1>2, ZenonT(60) DEF Accepted, Refused, TakeByte, pop_tx, uartVars, inputVars
<1>3. CASE synchronize_devices \/ Claim \/ Complete \/ Return
  BY <1>3, ZenonT(60) DEF synchronize_devices, Claim, Complete, Return, uartVars, inputVars
<1>4. CASE PollLsr \/ Serve
  BY <1>4, ZenonT(60) DEF PollLsr, Serve, Report, read_lsr
<1>5. CASE Idle \/ SendByte \/ ArmTransmit \/ DisarmTransmit
  BY <1>5, ZenonT(60)
     DEF Idle, SendByte, ArmTransmit, DisarmTransmit, write_thr, write_ier, uartVars, inputVars
<1>6. CASE SetDivisor
  BY <1>6, ZenonT(60) DEF SetDivisor, write_lcr, write_thr, uartVars, inputVars
<1> QED BY <1>1, <1>2, <1>3, <1>4, <1>5, <1>6, ZenonT(60) DEF Next

(* Bytes are typed, delivered, lost and flushed once each and in order.    *)
LEMMA InputKept ==
  ASSUME Next, DriverShape, rx_fifo \in Bytes, InputShape
  PROVE InputShape'
<1>1. /\ typed \in 0..MaxRx /\ received \in Bytes /\ Increasing(Kept)
      /\ ToSet(Kept) \cup lost \cup flushed = 1..typed
      /\ ToSet(Kept) \cap (lost \cup flushed) = {}
      /\ unreported => overrun_error
  BY ZenonT(60) DEF InputShape, Bytes
<1>s. SUFFICES /\ typed' \in 0..MaxRx /\ received' \in Bytes /\ Increasing(Kept')
               /\ ToSet(Kept') \cup lost' \cup flushed' = 1..typed'
               /\ ToSet(Kept') \cap (lost' \cup flushed') = {}
               /\ unreported' => overrun_error'
  BY ZenonT(60) DEF InputShape, Bytes, Increasing, ToSet
<1>k. Kept = received \o rx_fifo /\ Kept' = received' \o rx_fifo' /\ Kept \in Bytes
  BY <1>1, ConcatFacts, ZenonT(60) DEF Kept
<1> HIDE DEF Kept
<1>2. CASE InputByte
  <2>1. /\ typed + 1 \in 0..MaxRx /\ typed' = typed + 1 /\ received' = received
        /\ flushed' = flushed /\ 1..typed + 1 = (1..typed) \cup {typed + 1}
        /\ typed + 1 \notin 1..typed /\ typed \in Nat
    BY <1>1, <1>2, LoopAssumption DEF InputByte
  <2>2. CASE RxFull
    <3>1. rx_fifo' = rx_fifo /\ overrun_error' = TRUE /\ lost' = lost \cup {typed + 1}
      BY <1>2, <2>2, ZenonT(60) DEF InputByte, push_rx
    <3>2. Kept' = Kept
      BY <1>k, <2>1, <3>1, ZenonT(60)
    <3> QED BY <1>1, <2>1, <3>1, <3>2, ZenonT(60)
  <2>3. CASE ~RxFull
    <3>1. /\ rx_fifo' = Append(rx_fifo, typed + 1) /\ lost' = lost
          /\ (unreported' => unreported) /\ (overrun_error => overrun_error')
      BY <1>2, <2>1, <2>3, ZenonT(60) DEF InputByte, push_rx
    <3>2. typed + 1 \in Byte
      BY <2>1, LoopAssumption DEF Byte
    <3>3. Kept' = Append(Kept, typed + 1)
      <4>1. /\ Append(rx_fifo, typed + 1) = rx_fifo \o <<typed + 1>> /\ <<typed + 1>> \in Bytes
            /\ Append(Kept, typed + 1) = Kept \o <<typed + 1>>
        BY <1>k, <3>2, AppendFacts, ZenonT(60)
      <4>2. (received \o rx_fifo) \o <<typed + 1>> = received \o (rx_fifo \o <<typed + 1>>)
        BY <1>1, <4>1, ConcatAssociates, ZenonT(60)
      <4> QED BY <1>k, <2>1, <3>1, <4>1, <4>2, ZenonT(60)
    <3>4. ToSet(Kept) \subseteq 1..typed
      BY <1>1, ZenonT(60)
    <3>5. Increasing(Kept') /\ ToSet(Kept') = ToSet(Kept) \cup {typed + 1}
      <4>1. /\ Increasing(Append(Kept, typed + 1))
            /\ ToSet(Append(Kept, typed + 1)) = ToSet(Kept) \cup {typed + 1}
        BY <1>1, <1>k, <2>1, <3>2, <3>4, AppendIncreases, ZenonT(60)
      <4> QED BY <3>3, <4>1, ZenonT(60)
    <3> QED BY <1>1, <2>1, <3>1, <3>5, ZenonT(60)
  <2> QED BY <2>2, <2>3, ZenonT(60)
<1>3. CASE ReadData
  <2>1. rx_fifo # <<>> /\ ~dlab
    BY <1>3 DEF ReadData, Instruction, DriverShape
  <2>2. /\ rx_fifo' = Tail(rx_fifo) /\ received' = Append(received, Head(rx_fifo))
        /\ UNCHANGED <<typed, lost, flushed, unreported, overrun_error>>
    BY <1>3, <2>1, ZenonT(60) DEF ReadData, read_rbr
  <2> DEFINE h == <<Head(rx_fifo)>>  t == Tail(rx_fifo)
  <2>3. h \in Bytes /\ t \in Bytes /\ rx_fifo = h \o t
          /\ Append(received, Head(rx_fifo)) = received \o h
    <3>1. Head(rx_fifo) \in Byte /\ t \in Bytes /\ rx_fifo = h \o t
      BY <2>1, HeadFacts, ZenonT(60)
    <3> QED BY <1>1, <3>1, AppendFacts, ZenonT(60)
  <2>4. received' \in Bytes
    <3>1. received \o h \in Bytes
      BY <1>1, <2>3, ConcatFacts, ZenonT(60)
    <3> QED BY <2>2, <2>3, <3>1, ZenonT(60)
  <2>5. Kept' = Kept
    <3>1. (received \o h) \o t = received \o (h \o t)
      BY <1>1, <2>3, ConcatAssociates, ZenonT(60)
    <3> HIDE DEF h, t
    <3>2. Kept' = (received \o h) \o t
      BY <1>k, <2>2, <2>3, ZenonT(60) DEF t
    <3> QED BY <1>k, <2>3, <3>1, <3>2, ZenonT(60)
  <2> QED BY <1>1, <2>2, <2>4, <2>5, ZenonT(60)
<1>4. ASSUME NEW clear \in SUBSET {"RX", "TX"}, Flush(clear)
      PROVE /\ typed' \in 0..MaxRx /\ received' \in Bytes /\ Increasing(Kept')
            /\ ToSet(Kept') \cup lost' \cup flushed' = 1..typed'
            /\ ToSet(Kept') \cap (lost' \cup flushed') = {}
            /\ unreported' => overrun_error'
  <2>1. CASE "RX" \in clear
    <3>1. /\ rx_fifo' = <<>> /\ received' = received /\ typed' = typed /\ lost' = lost
          /\ flushed' = flushed \cup ToSet(rx_fifo) /\ ~unreported'
      BY <1>4, <2>1, ZenonT(60) DEF Flush, write_fcr
    <3>2. Kept' = received
      BY <1>1, <1>k, <3>1, ConcatFacts, ZenonT(60)
    <3>3. /\ Increasing(received) /\ ToSet(Kept) = ToSet(received) \cup ToSet(rx_fifo)
          /\ ToSet(received) \cap ToSet(rx_fifo) = {}
      BY <1>1, <1>k, PartsIncrease, ZenonT(60)
    <3> QED BY <1>1, <3>1, <3>2, <3>3, ZenonT(60)
  <2>2. CASE "RX" \notin clear
    <3>1. /\ rx_fifo' = rx_fifo /\ received' = received /\ typed' = typed /\ lost' = lost
          /\ flushed' = flushed /\ (unreported' => unreported)
          /\ overrun_error' = (overrun_error /\ TRUE)
      BY <1>4, <2>2, ZenonT(60) DEF Flush, write_fcr
    <3>2. Kept' = Kept
      BY <1>k, <3>1, ZenonT(60)
    <3> QED BY <1>1, <3>1, <3>2, ZenonT(60)
  <2> QED BY <2>1, <2>2, ZenonT(60)
<1>5. CASE UNCHANGED <<rx_fifo, typed, received, lost, flushed>> /\ ~unreported'
  BY <1>1, <1>5, <1>k, ZenonT(60)
<1>6. CASE UNCHANGED <<rx_fifo, typed, received, lost, flushed, unreported, overrun_error>>
  BY <1>1, <1>6, <1>k, ZenonT(60)
<1> QED BY <1>2, <1>3, <1>4, <1>5, <1>6, InputStep, ZenonT(60)

-----------------------------------------------------------------------------
(* The invariant of the loop.                                              *)

(* It holds when the driver has set up the devices.                        *)
LEMMA InitLoopInv == Init => LoopInv
<1> SUFFICES ASSUME Init PROVE LoopInv
  OBVIOUS
<1>1. <<>> \in Seq(Byte) /\ Len(<<>>) = 0 /\ <<>> \o <<>> = <<>>
  BY EmptySeq, ConcatEmptySeq
<1>2. UartTypeOK(Byte)
  <2>1. rx_fifo = <<>> /\ tx_fifo = <<>> /\ ier = {"RX", "LINE"} /\ ~dlab /\ ~overrun_error
    BY ZenonT(60) DEF Init
  <2>2. Len(rx_fifo) <= kFifoCapacity /\ Len(tx_fifo) <= kFifoCapacity
    BY <1>1, <2>1, UartAssumption
  <2>3. dlab \in BOOLEAN /\ overrun_error \in BOOLEAN
    BY ZenonT(60) DEF Init
  <2>4. ier \subseteq IerBit
    BY <2>1 DEF IerBit
  <2> QED BY <1>1, <2>1, <2>2, <2>3, <2>4, ZenonT(60) DEF UartTypeOK
<1>3. PlicTypeOK
  BY PlicAssumption DEF Init, PlicTypeOK, Source, Context, Priority, SupervisorContext
<1>4. EventLoopTypeOK
  <2>1. pending_tx \in Seq(Byte) /\ Len(pending_tx) <= 1 /\ count \in 0..MaxBytes
    BY <1>1, LoopAssumption DEF Init
  <2>2. waiting \in BOOLEAN
    BY ZenonT(60) DEF Init
  <2>3. external \in [Context -> BOOLEAN]
    BY ZenonT(60) DEF Init
  <2> QED BY <1>2, <1>3, <2>1, <2>2, <2>3, ZenonT(60)
             DEF Init, EventLoopTypeOK, MainPoint, Handler, Masked
<1>5. DriverShape
  BY ZenonT(60) DEF Init, DriverShape, Handler
<1>6. ControllerShape
  <2>1. /\ priority = [s \in Source |-> 1] /\ threshold = [c \in Context |-> 0]
        /\ enable = [c \in Context |-> IF c = SupervisorContext THEN Source ELSE {}]
        /\ pending = [s \in Source |-> FALSE] /\ claimed_by = [s \in Source |-> 0]
        /\ driver = "main"
    BY ZenonT(60) DEF Init
  <2>2. Uart \in Source /\ SupervisorContext \in Context
    BY PlicAssumption DEF Source, Uart, Context, SupervisorContext
  <2> QED BY <2>1, <2>2, ZenonT(60) DEF ControllerShape, InService
<1>7. PendingFresh
  BY ZenonT(60) DEF Init, PendingFresh
<1>8. OutputShape
  BY <1>1, LoopAssumption DEF Init, OutputShape, OutputConserved
<1>9. InputShape
  <2>1. ToSet(<<>>) = {} /\ Increasing(<<>>) /\ Kept = <<>>
    BY <1>1 DEF Init, ToSet, Increasing, Kept
  <2>2. 1..0 = {}
    OBVIOUS
  <2> QED BY <1>1, <2>1, <2>2, LoopAssumption DEF Init, InputShape
<1> QED BY <1>4, <1>5, <1>6, <1>7, <1>8, <1>9 DEF LoopInv

(* The loop's own registers keep their ranges.                             *)
LEMMA LoopTyped ==
  ASSUME Next, EventLoopTypeOK
  PROVE /\ phase' \in {"input", "output", "sync", "step"} /\ count' \in 0..MaxBytes
        /\ external' \in [Context -> BOOLEAN]
        /\ driver' \in MainPoint \cup Masked \cup Handler /\ resume' \in MainPoint
        /\ waiting' \in BOOLEAN
<1>1. /\ phase \in {"input", "output", "sync", "step"} /\ count \in 0..MaxBytes
      /\ external \in [Context -> BOOLEAN]
      /\ driver \in MainPoint \cup Masked \cup Handler /\ resume \in MainPoint
      /\ waiting \in BOOLEAN
  BY ZenonT(60) DEF EventLoopTypeOK
<1>2. 0 \in 0..MaxBytes /\ (count < MaxBytes => count + 1 \in 0..MaxBytes)
  BY <1>1, LoopAssumption
<1>3. CASE InputByte
  BY <1>1, <1>2, <1>3, ZenonT(60) DEF InputByte, Goto, guestVars
<1>4. CASE InputDone \/ OutputDone \/ Stall
  BY <1>1, <1>2, <1>4, ZenonT(60) DEF InputDone, OutputDone, Stall, Goto, guestVars
<1>5. CASE Accepted \/ Refused
  BY <1>1, <1>2, <1>5, ZenonT(60) DEF Accepted, Refused, Goto, guestVars
<1>6. CASE synchronize_devices
  <2>1. external' \in [Context -> BOOLEAN]
    BY <1>6, ZenonT(60) DEF synchronize_devices, context_pending
  <2> QED BY <1>1, <1>2, <1>6, <2>1, ZenonT(60) DEF synchronize_devices, Goto, guestVars
<1>7. CASE take_interrupt
  BY <1>1, <1>2, <1>7, ZenonT(60) DEF take_interrupt, InterruptTaken, Goto, Handler
<1>8. ASSUME NEW at, NEW next \in MainPoint \cup Masked \cup Handler, Instruction(at, next),
             waiting' \in BOOLEAN
      PROVE /\ phase' \in {"input", "output", "sync", "step"} /\ count' \in 0..MaxBytes
            /\ external' \in [Context -> BOOLEAN]
            /\ driver' \in MainPoint \cup Masked \cup Handler /\ resume' \in MainPoint
            /\ waiting' \in BOOLEAN
  BY <1>1, <1>2, <1>8, ZenonT(60) DEF Instruction, Goto
<1>9. /\ {"main", "thr", "latch", "divisor", "unlatch", "serve", "data", "txoff", "complete",
          "return", resume} \subseteq MainPoint \cup Masked \cup Handler
  BY <1>1, ZenonT(60) DEF MainPoint, Masked, Handler
<1>10. CASE Idle \/ PollLsr \/ SendByte \/ ArmTransmit
  BY <1>1, <1>8, <1>9, <1>10, ZenonT(60) DEF Idle, PollLsr, SendByte, ArmTransmit
<1>11. CASE SetDivisor \/ \E clear \in SUBSET {"RX", "TX"} : Flush(clear)
  BY <1>1, <1>8, <1>9, <1>11, ZenonT(60) DEF SetDivisor, Flush
<1>12. CASE Claim \/ Serve \/ ReadData
  BY <1>1, <1>8, <1>9, <1>12, ZenonT(60) DEF Claim, Serve, ReadData
<1>13. CASE DisarmTransmit \/ Complete \/ Return
  BY <1>1, <1>8, <1>9, <1>13, ZenonT(60) DEF DisarmTransmit, Complete, Return
<1> QED BY <1>3, <1>4, <1>5, <1>6, <1>7, <1>10, <1>11, <1>12, <1>13, ZenonT(60) DEF Next

(* What a context has pending depends on the controller's registers only.  *)
LEMMA PendingUnchanged ==
  ASSUME UNCHANGED plicVars, NEW c PROVE context_pending(c)' = context_pending(c)
<1>1. \A s : Candidate(c, s)' = Candidate(c, s)
  BY ZenonT(60) DEF Candidate, plicVars
<1>2. priority' = priority
  BY ZenonT(60) DEF plicVars
<1>3. select(c)' = select(c)
  BY <1>1, <1>2, ZenonT(60) DEF select
<1> QED BY <1>3, ZenonT(60) DEF context_pending

(* Outside the loop nothing changes.                                       *)
LEMMA LoopStutters ==
  ASSUME LoopInv, UNCHANGED vars PROVE LoopInv'
<1>1. UNCHANGED <<uartVars, plicVars, loopVars, guestVars, inputVars, outputVars>>
  BY ZenonT(60) DEF vars
<1>2. EventLoopTypeOK' = EventLoopTypeOK
  <2>1. UartTypeOK(Byte)' = UartTypeOK(Byte)
    BY <1>1, ZenonT(60) DEF UartTypeOK, uartVars
  <2>2. PlicTypeOK' = PlicTypeOK
    BY <1>1, ZenonT(60) DEF PlicTypeOK, plicVars
  <2>3. UNCHANGED <<phase, count, pending_tx, external, driver, resume, waiting>>
    BY <1>1, ZenonT(60) DEF loopVars, guestVars
  <2> QED BY <2>1, <2>2, <2>3, ZenonT(60) DEF EventLoopTypeOK
<1>3. DriverShape' = DriverShape
  BY <1>1, ZenonT(60) DEF DriverShape, uartVars, guestVars, outputVars
<1>4. ControllerShape' = ControllerShape
  BY <1>1, ZenonT(60) DEF ControllerShape, plicVars, guestVars
<1>5. PendingFresh' = PendingFresh
  <2>1. UNCHANGED <<phase, external>> /\ UNCHANGED plicVars
    BY <1>1, ZenonT(60) DEF loopVars
  <2>2. ASSUME NEW c \in Context PROVE context_pending(c)' = context_pending(c)
    BY <2>1, PendingUnchanged, ZenonT(60)
  <2> QED BY <2>1, <2>2, ZenonT(60) DEF PendingFresh
<1>6. OutputShape' = OutputShape
  BY <1>1, ZenonT(60) DEF OutputShape, OutputConserved, uartVars, loopVars, outputVars
<1>7. InputShape' = InputShape
  BY <1>1, ZenonT(60) DEF InputShape, Kept, uartVars, inputVars
<1> QED BY <1>2, <1>3, <1>4, <1>5, <1>6, <1>7, ZenonT(60) DEF LoopInv

(* Every step of the loop preserves it.                                    *)
LEMMA NextLoopInv == LoopInv /\ [Next]_vars => LoopInv'
<1>1. ASSUME LoopInv, Next PROVE LoopInv'
  <2>1. /\ EventLoopTypeOK /\ DriverShape /\ ControllerShape /\ PendingFresh
        /\ OutputShape /\ InputShape
    BY <1>1 DEF LoopInv
  <2>2. /\ UartTypeOK(Byte) /\ PlicTypeOK /\ resume \in MainPoint /\ pending_tx \in Bytes
        /\ Len(pending_tx) <= 1
    BY <2>1, ZenonT(60) DEF EventLoopTypeOK, Bytes
  <2>3. rx_fifo \in Bytes /\ tx_fifo \in Bytes /\ ier \subseteq IerBit
    BY <2>2, ZenonT(60) DEF UartTypeOK, Bytes
  <2>4. typed \in 0..MaxRx /\ written \in 0..MaxTx
    BY <2>1, ZenonT(60) DEF InputShape, OutputShape
  <2>5. UartTypeOK(Byte)'
    BY <1>1, <2>1, <2>2, <2>3, <2>4, PortStep, PortTyped, ZenonT(60)
  <2>6. PlicTypeOK' /\ ControllerShape'
    BY <1>1, <2>1, <2>2, ControllerKept, ZenonT(60)
  <2>7. DriverShape'
    BY <1>1, <2>1, <2>2, <2>3, DriverKept DEF Bytes
  <2>8. OutputShape' /\ pending_tx' \in Bytes /\ Len(pending_tx') <= 1
    BY <1>1, <2>1, <2>2, <2>3, OutputKept, ZenonT(60)
  <2>9. InputShape'
    BY <1>1, <2>1, <2>3, InputKept, ZenonT(60)
  <2>10. EventLoopTypeOK'
    BY <1>1, <2>1, <2>5, <2>6, <2>8, LoopTyped, ZenonT(60) DEF EventLoopTypeOK, Bytes
  <2> QED BY <1>1, <2>6, <2>7, <2>8, <2>9, <2>10, FreshKept, ZenonT(60) DEF LoopInv
<1>2. ASSUME LoopInv, UNCHANGED vars PROVE LoopInv'
  BY <1>2, LoopStutters, ZenonT(60)
<1> QED BY <1>1, <1>2, ZenonT(60)

(* LoopInv holds in every reachable state.                                 *)
THEOREM LoopInvariant == EventLoopSpec => []LoopInv
BY InitLoopInv, NextLoopInv, PTL DEF EventLoopSpec

(* Terminal output keeps its order and loses nothing between the port and  *)
(* the terminal, for any FIFO capacity, budget and number of bytes.        *)
THEOREM LoopOutputConserved == EventLoopSpec => []OutputConserved
<1>1. LoopInv => OutputConserved
  BY DEF LoopInv, OutputShape
<1> QED BY <1>1, LoopInvariant, PTL

(* Every byte typed is delivered, waiting, lost or flushed, once, and a    *)
(* loss stays reported until software has seen it.                         *)
THEOREM LoopInputConserved == EventLoopSpec => []InputConserved
<1>1. LoopInv => InputConserved
  <2> SUFFICES ASSUME LoopInv PROVE InputConserved
    OBVIOUS
  <2>1. received \in Bytes /\ rx_fifo \in Bytes
    BY ZenonT(60) DEF LoopInv, InputShape, EventLoopTypeOK, UartTypeOK, Bytes
  <2>2. Len(Kept) \in Nat
    BY <2>1, ConcatFacts, LenProperties, ZenonT(60) DEF Kept, Bytes
  <2>3. \A i \in 1..(Len(Kept) - 1) : Kept[i] < Kept[i + 1]
    <3>1. Increasing(Kept)
      BY ZenonT(60) DEF LoopInv, InputShape
    <3> HIDE DEF Kept
    <3> QED BY <2>2, <3>1 DEF Increasing
  <2> QED BY <2>3, ZenonT(60) DEF InputConserved, LoopInv, InputShape, Kept
<1> QED BY <1>1, LoopInvariant, PTL

(* The hart sees the interrupts the devices ask for now, and the handler   *)
(* finds the request it was interrupted for.                               *)
THEOREM LoopInterruptFresh == EventLoopSpec => []InterruptFresh
<1>1. LoopInv => InterruptFresh
  <2> SUFFICES ASSUME LoopInv PROVE InterruptFresh
    OBVIOUS
  <2>1. PlicTypeOK /\ ControllerShape /\ EventLoopTypeOK /\ PendingFresh
    BY ZenonT(60) DEF LoopInv, EventLoopTypeOK
  <2>2. driver = "claim" => pending[Uart] /\ claimed_by[Uart] = 0
    BY <2>1, ZenonT(60) DEF ControllerShape, InService
  <2> QED BY <2>1, <2>2, SelectPort, ZenonT(60) DEF InterruptFresh, ClaimFinds
<1> QED BY <1>1, LoopInvariant, PTL

=============================================================================
