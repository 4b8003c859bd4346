----------------------------- MODULE BlockProofs ----------------------------
(***************************************************************************)
(* What the block device answers, for the instances of VirtioProofs.       *)
(*                                                                         *)
(* A well-behaved driver: DrivenInv says that a driver that notifies only  *)
(* after publishing well-formed requests never sees the device fail.       *)
(*                                                                         *)
(* The data: DataInv says that what is on the disk, and what every         *)
(* answered read has delivered, is one of the values the driver may expect *)
(* there once it has collected the requests answered before.               *)
(***************************************************************************)
EXTENDS VirtioProofs

(* Time limits for the provers.                                            *)
USE SMTT(60), ZenonT(60)

-----------------------------------------------------------------------------
(* A driver that notifies only after publishing, and whose requests are    *)
(* well-formed.                                                            *)

(* A driver that notifies only after publishing.                           *)
DrivenInv ==
  /\ \A q \in Queue, r \in Ring : queues[q].address[r] \in RamAddress \cup {NoAddress}
  /\ exit = "running"
  /\ driver \in {"publish", "batch", "kick"} => notifications = <<>>
  /\ notifications # <<>> => queues[BlockQueue].ready
  /\ driver \in {"batch", "kick"} \/ notifications # <<>> => used.idx # avail.idx

WellFormed(r) == r.chain /\ r.answer /\ ~(r.type = "IN" /\ Attempted(r) /\ Refused(r))

(* The rings of a ready queue lie in RAM.                                  *)
LEMMA ReadyInRam ==
  ASSUME SystemTyped, DrivenInv, queues[BlockQueue].ready, NEW r \in Ring
  PROVE InRam(r)
<1>1. BlockQueue \in Queue
  BY MmioAssumption DEF BlockQueue, Queue
<1>2. queues[BlockQueue].address[r] \in AlignedAddress
  BY <1>1, ZenonT(60) DEF SystemTyped, MmioInv, ReadyValid
<1>3. queues[BlockQueue].address[r] \in RamAddress \cup {NoAddress}
  BY <1>1, ZenonT(60) DEF DrivenInv
<1> QED BY <1>2, <1>3, MmioAssumption DEF InRam

(* A notification of such a driver is answered.                            *)
LEMMA DrivenAnswers ==
  ASSUME RingInv, DrivenInv, process_one, \A r \in Request : WellFormed(r)
  PROVE ~QueueError /\ ~Unanswerable /\ ~Undefined
<1> SUFFICES ASSUME QueueError \/ Unanswerable \/ Undefined PROVE FALSE
  OBVIOUS
<1> DEFINE i == synchronize_queue_generation
           h == available_head(i.last)
<1>1. exit = "running" /\ SystemTyped
  BY ZenonT(60) DEF RingInv, process_one
<1>2. PICK done \in Nat : RingsAt(done) /\ HeadsApart
  BY <1>1, ZenonT(60) DEF RingInv
<1>3. notifications # <<>>
  BY ZenonT(60) DEF QueueError, Unanswerable, Undefined, pop_notification
<1>4. queues[BlockQueue].ready /\ used.idx # avail.idx
  BY <1>3, ZenonT(60) DEF DrivenInv
<1>5. done < Len(submitted) /\ Len(submitted) \in Nat
  BY <1>1, <1>2, <1>4, Window DEF RingsAt
<1>6. Pending(i.last) \in 1..RingSize
  <2>1. Pending(i.last) = Len(submitted) - done /\ Pending(i.last) <= RingSize
    BY <1>1, <1>2, TakesOldest
  <2>2. RingSize \in Nat
    BY VirtqueueAssumption
  <2> QED BY <1>5, <2>1, <2>2
<1>7. InRam("descriptor_table") /\ InRam("available_ring") /\ InRam("used_ring")
  BY <1>1, <1>4, ReadyInRam DEF Ring
<1>8. h \in Slot
  BY <1>1, SynchronizedTyped DEF SystemTyped
<1>9. chains[h].request \in Request
  BY <1>1, <1>8 DEF SystemTyped, RamTyped
<1>10. WellFormed(chains[h].request)
  BY <1>9
<1>11. Takes(i.last) /\ Parses(h) /\ Answerable(h) /\ ~Overread(h)
  BY <1>4, <1>6, <1>7, <1>10, ZenonT(60) DEF Takes, Consumable, Parses,
                                         Answerable, Overread, WellFormed
<1> QED BY <1>11, ZenonT(60) DEF QueueError, Unanswerable, Undefined

(* Ring addresses come from RAM.                                           *)
LEMMA AddressesKept ==
  ASSUME SystemTyped, DrivenInv, ~Careless, [Next]_vars
  PROVE (\A q \in Queue, r \in Ring : queues[q].address[r] \in RamAddress \cup {NoAddress})'
<1> DEFINE Placed ==
             \A q \in Queue, r \in Ring : queues[q].address[r] \in RamAddress \cup {NoAddress}
<1>1. Placed /\ queues \in [Queue -> QueueState]
  BY ZenonT(60) DEF DrivenInv, SystemTyped, MmioInv, MmioTypeOK
<1>2. ASSUME queues' = queues PROVE Placed'
  BY <1>1, <1>2
<1>3. ASSUME NEW queue \in QueueState, WriteQueue(queue),
             queue_selector \in Queue =>
               \A r \in Ring : queue.address[r] \in RamAddress \cup {NoAddress}
      PROVE Placed'
  <2>1. queues' = IF queue_selector \in Queue
                  THEN [queues EXCEPT ![queue_selector] = queue] ELSE queues
    BY <1>3, ZenonT(60) DEF WriteQueue
  <2> QED BY <1>1, <1>3, <2>1
<1>4. ASSUME NEW ring \in Ring, PlaceRing(ring) PROVE Placed'
  <2>1. PICK a \in RamAddress : write_queue_address(ring, a)
    BY <1>4 DEF PlaceRing
  <2>2. CASE Configurable
    <3> DEFINE queue == [queues[queue_selector] EXCEPT !.address[ring] = a]
    <3>1. WriteQueue(queue) /\ queue_selector \in Queue
      BY <2>1, <2>2, ZenonT(60) DEF write_queue_address, Configurable
    <3>2. a \in Address
      BY MmioAssumption, BlockAssumption
    <3>3. queue \in QueueState
      BY <1>1, <3>1, <3>2, ZenonT(60) DEF QueueState
    <3>4. \A r \in Ring : queue.address[r] \in RamAddress \cup {NoAddress}
      BY <1>1, <3>1 DEF QueueState
    <3> HIDE DEF queue
    <3> QED BY <1>3, <3>1, <3>3, <3>4, ZenonT(60)
  <2>3. CASE ~Configurable
    BY <1>2, <2>1, <2>3, ZenonT(60) DEF write_queue_address, mmioVars
  <2> QED BY <2>2, <2>3
<1>5. ASSUME write_queue_num(RingSize) PROVE Placed'
  <2>1. CASE Configurable
    <3> DEFINE queue == [queues[queue_selector] EXCEPT !.size = RingSize]
    <3>1. WriteQueue(queue) /\ queue_selector \in Queue
      BY <1>5, <2>1, ZenonT(60) DEF write_queue_num, Configurable
    <3>2. queue \in QueueState
      BY <1>1, <3>1, BlockAssumption, ZenonT(60) DEF QueueState
    <3>3. \A r \in Ring : queue.address[r] \in RamAddress \cup {NoAddress}
      BY <1>1, <3>1 DEF QueueState
    <3> HIDE DEF queue
    <3> QED BY <1>3, <3>1, <3>2, <3>3, ZenonT(60)
  <2>2. CASE ~Configurable
    BY <1>2, <1>5, <2>2, ZenonT(60) DEF write_queue_num, mmioVars
  <2> QED BY <2>1, <2>2
<1>6. ASSUME write_queue_ready(TRUE) PROVE Placed'
  <2>1. CASE queue_selector \in Queue
    <3> DEFINE queue == [queues[queue_selector] EXCEPT
                           !.ready = (TRUE /\ selected_queue_valid_locked)]
    <3>1. WriteQueue(queue)
      BY <1>6, <2>1, ZenonT(60) DEF write_queue_ready
    <3>2. selected_queue_valid_locked \in BOOLEAN
      BY DEF selected_queue_valid_locked
    <3>3. queue \in QueueState
      BY <1>1, <2>1, <3>2 DEF QueueState
    <3>4. \A r \in Ring : queue.address[r] \in RamAddress \cup {NoAddress}
      BY <1>1, <2>1 DEF QueueState
    <3> HIDE DEF queue
    <3> QED BY <1>3, <3>1, <3>3, <3>4, ZenonT(60)
  <2>2. CASE queue_selector \notin Queue
    BY <1>2, <1>6, <2>2, ZenonT(60) DEF write_queue_ready, mmioVars
  <2> QED BY <2>1, <2>2
<1>7. ASSUME NEW v, v # {}, write_status_locked(v) PROVE Placed'
  BY <1>2, <1>7, StatusOnly, ZenonT(60)
<1>8. ASSUME ResetDevice PROVE Placed'
  <2>1. queues' = [q \in Queue |-> FreshQueue]
    BY <1>8, ZenonT(60) DEF ResetDevice, write_status_locked, reset_locked
  <2>2. \A r \in Ring : FreshQueue.address[r] = NoAddress
    BY DEF FreshQueue
  <2> HIDE DEF Placed
  <2>3. \A q \in Queue, r \in Ring : queues'[q].address[r] = NoAddress
    BY <2>1, <2>2
  <2> QED BY <2>3, ZenonT(60) DEF Placed
<1>9. ASSUME write_driver_features_sel(1) \/ write_driver_features({"VERSION_1"})
      PROVE queues' = queues
  BY <1>9, ZenonT(60) DEF write_driver_features_sel, write_driver_features
<1>10. ASSUME \/ process_one \/ synchronize_devices \/ Submit \/ Publish \/ Kick \/ Collect
              \/ AckInterrupt \/ SpuriousKick \/ Other \/ UNCHANGED vars
       PROVE queues' = queues
  BY <1>10, ZenonT(60) DEF process_one, NoNotification, QueueError, Unanswerable,
                       Completed, Undefined,
     synchronize_devices, Submit, Publish, Kick, Collect, AckInterrupt, SpuriousKick, Other,
     write_queue_notify, write_interrupt_ack, vars, mmioVars
<1> HIDE DEF Placed
<1>11. ASSUME Handshake PROVE Placed'
  <2>1. CASE \E ring \in Ring : PlaceRing(ring)
    BY <1>4, <2>1
  <2>2. CASE write_queue_num(RingSize) \/ write_queue_ready(TRUE)
    BY <1>5, <1>6, <2>2
  <2>3. CASE write_driver_features_sel(1) \/ write_driver_features({"VERSION_1"})
    BY <1>2, <1>9, <2>3
  <2>4. CASE \/ write_status_locked({"ACKNOWLEDGE"}) \/ write_status_locked(Base)
             \/ write_status_locked(Base \cup {"FEATURES_OK"})
             \/ write_status_locked(Base \cup {"FEATURES_OK", "DRIVER_OK"})
    <3>1. /\ {"ACKNOWLEDGE"} # {} /\ Base # {} /\ Base \cup {"FEATURES_OK"} # {}
          /\ Base \cup {"FEATURES_OK", "DRIVER_OK"} # {}
      BY DEF Base
    <3> QED BY <1>7, <2>4, <3>1, ZenonT(60)
  <2>5. "descriptor_table" \in Ring /\ "available_ring" \in Ring /\ "used_ring" \in Ring
    BY DEF Ring
  <2> QED BY <1>11, <2>1, <2>2, <2>3, <2>4, <2>5, ZenonT(60) DEF Handshake
<1>12. ASSUME Fail PROVE Placed'
  <2>1. status \cup {"FAILED"} # {}
    OBVIOUS
  <2> QED BY <1>7, <1>12, <2>1, ZenonT(60) DEF Fail
<1>13. Next \/ UNCHANGED vars
  OBVIOUS
<1>14. Placed'
  BY <1>2, <1>8, <1>10, <1>11, <1>12, <1>13, ZenonT(60) DEF Next
<1> QED BY <1>14 DEF Placed

(* Before the device's turn such a driver has published what it announces. *)
LEMMA NextDriven ==
  ASSUME RingInv, DrivenInv, ~Careless, \A r \in Request : WellFormed(r), [Next]_vars
  PROVE DrivenInv'
<1> DEFINE Ahead == driver \in {"batch", "kick"} \/ notifications # <<>> => used.idx # avail.idx
           Waiting == /\ driver \in {"publish", "batch", "kick"} => notifications = <<>>
                      /\ notifications # <<>> => queues[BlockQueue].ready
<1>1. SystemTyped /\ exit = "running" /\ NotificationTaken /\ Ahead /\ Waiting
  BY ZenonT(60) DEF RingInv, DrivenInv
<1>2. (\A q \in Queue, r \in Ring : queues[q].address[r] \in RamAddress \cup {NoAddress})'
  BY <1>1, AddressesKept, ZenonT(60)
<1>3. SUFFICES exit' = "running" /\ Ahead' /\ Waiting'
  BY <1>2, <1>3, ZenonT(60) DEF DrivenInv
<1>4. Len(notifications) \in Nat /\ notifications \in Seq(Queue)
  BY <1>1, LenProperties, ZenonT(60) DEF SystemTyped, MmioInv, MmioTypeOK
<1>5. phase # "device" => notifications = <<>>
  BY <1>1, <1>4, EmptySeq DEF NotificationTaken
<1>6. ASSUME process_one PROVE exit' = "running" /\ Ahead' /\ Waiting'
  <2>1. NoNotification \/ Completed
    BY <1>6, DrivenAnswers, ZenonT(60) DEF process_one
  <2>2. NotificationTaken' /\ phase' = "sync"
    BY <1>1, <1>6, NextNotification, ZenonT(60) DEF process_one
  <2>3. notifications' = <<>>
    <3>1. notifications' \in Seq(Queue)
      BY <1>1, NextTyped, ZenonT(60) DEF SystemTyped, MmioInv, MmioTypeOK
    <3>2. Len(notifications') \in Nat /\ Len(notifications') <= 0
      BY <2>2, <3>1, LenProperties DEF NotificationTaken
    <3> QED BY <3>1, <3>2, EmptySeq
  <2>4. exit' = "running" /\ driver' = driver
    BY <1>1, <1>6, <2>1, ZenonT(60) DEF process_one, NoNotification, Completed, hostVars, driverVars
  <2>5. ASSUME driver \in {"batch", "kick"} PROVE used' = used /\ avail' = avail
    <3>1. notifications = <<>>
      BY <1>1, <2>5
    <3> QED BY <2>1, <3>1, ZenonT(60) DEF NoNotification, Completed, pop_notification, queueVars
  <2> QED BY <1>1, <2>3, <2>4, <2>5, ZenonT(60)
<1>7. ASSUME Publish PROVE exit' = "running" /\ Ahead' /\ Waiting'
  <2>1. notifications' = notifications /\ notifications = <<>> /\ exit' = "running"
    BY <1>1, <1>5, <1>7 DEF Publish, Instruction, hostVars, mmioVars
  <2>2. PICK done \in Nat : RingsAt(done) /\ HeadsApart
    BY <1>1, ZenonT(60) DEF RingInv
  <2>3. RingsAt(done)' /\ HeadsApart' /\ SystemTyped'
    BY <1>1, <1>7, <2>2, PublishRings, NextTyped, ZenonT(60)
  <2> DEFINE S == Len(submitted)
             T == Len(submitted')
  <2>4. S \in Nat /\ Len(completed) \in Nat /\ S - Len(completed) < RingSize
    <3>1. driver = "publish"
      BY <1>7, ZenonT(60) DEF Publish
    <3> QED BY <1>1, <2>2, <3>1, Window, ZenonT(60)
  <2>5. T = S + 1
    <3>1. submitted \in Seq(Slot) /\ avail.ring[virtqueue_ring_slot(avail.idx)] \in Slot
      BY <1>1, IndexTyped, ZenonT(60) DEF SystemTyped, VirtqueueTypeOK, DriverTyped
    <3>2. submitted' = Append(submitted, avail.ring[virtqueue_ring_slot(avail.idx)])
      BY <1>7, ZenonT(60) DEF Publish
    <3> QED BY <3>1, <3>2, AppendProperties
  <2>6. /\ done <= S /\ Len(completed') = Len(completed) /\ Len(completed) <= done
        /\ used'.idx = done % IndexSpace /\ avail'.idx = T % IndexSpace
    <3>1. completed' = completed
      BY <1>7, ZenonT(60) DEF Publish
    <3> QED BY <2>2, <2>3, <3>1, ZenonT(60) DEF RingsAt
  <2>7. done < T /\ T - done < IndexSpace /\ IndexSpace \in Nat \ {0} /\ T \in Nat
    BY <2>4, <2>5, <2>6, VirtqueueAssumption, SMTT(60)
  <2>8. used'.idx # avail'.idx
    <3>1. done % IndexSpace # T % IndexSpace
      BY <2>2, <2>7, Apart, ZenonT(60)
    <3> QED BY <2>6, <3>1
  <2> QED BY <2>1, <2>8, ZenonT(60)
<1>8. ASSUME Kick PROVE exit' = "running" /\ Ahead' /\ Waiting'
  <2>1. /\ driver = "kick" /\ driver' = "run" /\ exit' = exit /\ write_queue_notify(BlockQueue)
        /\ avail' = avail /\ used' = used
    BY <1>8, ZenonT(60) DEF Kick, At, Instruction, hostVars, queueVars
  <2>2. queues' = queues
    BY <2>1, ZenonT(60) DEF write_queue_notify
  <2>3. notifications = <<>>
    BY <1>1, <2>1, ZenonT(60)
  <2>4. notifications' # <<>> => queues[BlockQueue].ready
    BY <2>1, <2>3 DEF write_queue_notify, NotifyAccepted
  <2> QED BY <1>1, <2>1, <2>2, <2>4, ZenonT(60)
<1>9. ASSUME exit' = exit, driver' \notin {"batch", "kick"}, notifications' = <<>>
      PROVE exit' = "running" /\ Ahead' /\ Waiting'
  BY <1>1, <1>9, ZenonT(60)
<1>10. ASSUME synchronize_devices \/ UNCHANGED vars
       PROVE exit' = "running" /\ Ahead' /\ Waiting'
  <2>1. UNCHANGED <<exit, driver, avail, used, notifications, queues>>
    BY <1>10, ZenonT(60) DEF synchronize_devices, vars, mmioVars, queueVars, hostVars, driverVars
  <2> QED BY <1>1, <2>1, ZenonT(60)
<1>11. ASSUME \/ Handshake \/ Submit \/ Collect \/ AckInterrupt \/ ResetDevice \/ Fail
              \/ SpuriousKick \/ Other
       PROVE exit' = exit /\ driver' \notin {"batch", "kick"} /\ notifications' = <<>>
  <2>1. Instruction
    BY <1>11, ZenonT(60) DEF Handshake, Submit, Collect, AckInterrupt, ResetDevice, Fail,
       SpuriousKick, Other
  <2>2. exit' = exit /\ notifications = <<>>
    BY <1>5, <2>1 DEF Instruction, hostVars
  <2>3. CASE Handshake
    BY <2>2, <2>3, HandshakeKeeps, ZenonT(60)
  <2>4. CASE Submit \/ Collect \/ Other
    <3>1. notifications' = notifications /\ (driver' = "publish" \/ driver' = "run")
      BY <2>4, ZenonT(60) DEF Submit, Collect, Other, At, mmioVars
    <3> QED BY <2>2, <3>1
  <2>5. CASE AckInterrupt
    <3>1. notifications' = notifications /\ driver' = "run"
      BY <2>5, ZenonT(60) DEF AckInterrupt, At, write_interrupt_ack
    <3> QED BY <2>2, <3>1
  <2>6. CASE ResetDevice
    <3>1. notifications' = <<>> /\ driver' = "acknowledge"
      BY <2>6, ZenonT(60) DEF ResetDevice, write_status_locked, reset_locked
    <3> QED BY <2>2, <3>1
  <2>7. CASE Fail
    <3>1. status \cup {"FAILED"} # {}
      OBVIOUS
    <3>2. notifications' = notifications /\ driver' = "run"
      BY <2>7, <3>1, StatusOnly, ZenonT(60) DEF Fail, At
    <3> QED BY <2>2, <3>2
  <2>8. CASE SpuriousKick
    BY <2>8, ZenonT(60) DEF SpuriousKick
  <2> QED BY <1>11, <2>3, <2>4, <2>5, <2>6, <2>7, <2>8
<1> HIDE DEF Ahead, Waiting
<1> QED BY <1>6, <1>7, <1>8, <1>9, <1>10, <1>11, ZenonT(60) DEF Next

(* The driver starts without a notification.                               *)
LEMMA InitDriven == Init => DrivenInv
<1> SUFFICES ASSUME Init PROVE DrivenInv
  OBVIOUS
<1>1. exit = "running" /\ driver = "acknowledge" /\ notifications = <<>>
  BY ZenonT(60) DEF Init, MmioInit
<1>2. queues = [q \in Queue |-> FreshQueue]
  BY ZenonT(60) DEF Init, MmioInit
<1>3. \A r \in Ring : FreshQueue.address[r] = NoAddress
  BY DEF FreshQueue
<1>4. \A q \in Queue, r \in Ring : queues[q].address[r] \in RamAddress \cup {NoAddress}
  BY <1>2, <1>3
<1> QED BY <1>1, <1>4, ZenonT(60) DEF DrivenInv

(* With a driver that keeps its rings in RAM, submits well-formed requests *)
(* and notifies only after it has published one, run_machine never ends    *)
(* with an error of the queue: every notification finds a request, for     *)
(* every ring size and index width, every batch size, and any resets.      *)
THEOREM BlockRingSound ==
  ASSUME ~Careless, \A r \in Request : WellFormed(r)
  PROVE BlockSpec => []RingSound
<1>1. Init => RingInv /\ DrivenInv
  BY InitRing, InitDriven
<1>2. RingInv /\ DrivenInv /\ [Next]_vars => RingInv' /\ DrivenInv'
  BY NextRing, NextDriven
<1>3. RingInv /\ DrivenInv => RingSound
  BY RingInvShows, ZenonT(60) DEF DrivenInv, NeverStopped, RingSound
<1> QED BY <1>1, <1>2, <1>3, PTL DEF BlockSpec

-----------------------------------------------------------------------------
(* What performing a request does.                                         *)

(* The sectors request r names.                                            *)
Target(r) == r.sector..(r.sector + Len(r.segments) - 1)

(* A write that is not hollow, with all its data on the disk.              *)
WriteDone(h) ==
  chains[h].request.type = "OUT" /\ ~Hollow(chains[h].request) =>
    /\ Target(chains[h].request) \subseteq Sector
    /\ \A s \in Target(chains[h].request) : disk'[s] = chains[h].tag

(* A read, with one sector of the disk per segment in the guest's buffer.  *)
ReadDone(h) ==
  chains[h].request.type = "IN" =>
    /\ Len(buffers'[h]) = Len(chains[h].request.segments)
    /\ DOMAIN buffers'[h] = 1..Len(chains[h].request.segments)
    /\ \A i \in 1..Len(chains[h].request.segments) :
         /\ chains[h].request.sector + i - 1 \in Sector
         /\ buffers'[h][i] = disk[chains[h].request.sector + i - 1]

(* Only a write whose directions were found valid changes the disk, and    *)
(* only to its own data in its own sectors.                                *)
DiskStep(h) ==
  \A s \in Sector : disk'[s] # disk[s] =>
    /\ chains[h].request.type = "OUT" /\ ~Refused(chains[h].request)
    /\ s \in Target(chains[h].request) /\ disk'[s] = chains[h].tag

Outcome(h) ==
  /\ DiskStep(h)
  /\ chains[h].request.answer /\ statuses'[h] = "OK" => WriteDone(h) /\ ReadDone(h)
  /\ \A g \in Slot \ {h} : statuses'[g] = statuses[g] /\ buffers'[g] = buffers[g]

(* The disk after a prefix of a write.                                     *)
LEMMA WrittenPrefix ==
  ASSUME RamTyped, NEW h \in Slot, NEW n \in 0..DataCount(chains[h].request),
         disk' = Written(chains[h], n), chains[h].request.type = "OUT"
  PROVE DiskStep(h)
<1> DEFINE r == chains[h].request
<1>1. r \in Request /\ disk \in [Sector -> 0..MaxRequest]
  BY DEF RamTyped, Image
<1>2. r.sector \in Nat /\ Len(r.segments) \in Nat /\ DataCount(r) \in 0..Len(r.segments)
  BY <1>1, RequestTyped, ZenonT(60)
<1> HIDE DEF r
<1>3. ASSUME NEW s \in Sector, disk'[s] # disk[s]
      PROVE s \in r.sector..(r.sector + n - 1) /\ disk'[s] = chains[h].tag
  BY <1>3, ZenonT(60) DEF Written, r
<1>4. n <= DataCount(r) /\ n \in Nat
  BY <1>2 DEF r
<1>5. ASSUME NEW s \in Sector, disk'[s] # disk[s]
      PROVE s \in Target(r) /\ DataCount(r) # 0
  BY <1>2, <1>3, <1>4, <1>5 DEF Sector, Target
<1>6. DataCount(r) # 0 => ~Refused(r)
  BY ZenonT(60) DEF DataCount
<1> QED BY <1>3, <1>5, <1>6, ZenonT(60) DEF DiskStep, r

(* A request that is not performed, or is a read, leaves the disk alone.   *)
LEMMA PerformOutcome ==
  ASSUME RamTyped, NEW h \in Slot, Perform(h)
  PROVE Outcome(h)
<1> DEFINE r == chains[h].request
<1>1. /\ r \in Request /\ disk \in [Sector -> 0..MaxRequest]
      /\ statuses \in [Slot -> Status] /\ buffers \in [Slot -> Data]
  BY DEF RamTyped, Image
<1>2. /\ r.sector \in Nat /\ Len(r.segments) \in Nat /\ DataCount(r) \in 0..Len(r.segments)
      /\ Delivered(r) \in 0..DataCount(r) /\ Capacity \in Nat
  BY <1>1, RequestTyped, BlockAssumption, ZenonT(60)
<1> HIDE DEF r
<1>3. ASSUME NEW b, NEW data, NEW new_disk, Answer(h, b, data, new_disk)
      PROVE /\ r.answer => statuses'[h] = b
            /\ buffers'[h] = data /\ disk' = new_disk
            /\ \A g \in Slot \ {h} : statuses'[g] = statuses[g] /\ buffers'[g] = buffers[g]
  BY <1>1, <1>3 DEF Answer, r
<1>4. disk' = disk => DiskStep(h)
  BY ZenonT(60) DEF DiskStep
<1>5. CASE Reject(h)
  <2>1. CASE r.type \in {"IN", "OUT"}
    <3>1. Answer(h, "IOERR", <<>>, disk)
      BY <1>5, <2>1, ZenonT(60) DEF Reject, r
    <3> QED BY <1>3, <1>4, <3>1 DEF Outcome, r
  <2>2. CASE r.type \notin {"IN", "OUT"}
    <3>1. Answer(h, "UNSUPP", <<>>, disk)
      BY <1>5, <2>2, ZenonT(60) DEF Reject, r
    <3> QED BY <1>3, <1>4, <3>1 DEF Outcome, r
  <2> QED BY <2>1, <2>2
<1>6. CASE Write(h)
  <2>1. r.type = "OUT" /\ Attempted(r)
    BY <1>6, ZenonT(60) DEF Write, r
  <2>2. CASE Answer(h, "OK", <<>>, Written(chains[h], DataCount(r)))
    <3>1. disk' = Written(chains[h], DataCount(r))
      BY <1>3, <2>2, ZenonT(60)
    <3>2. DiskStep(h)
      BY <1>2, <2>1, <3>1, WrittenPrefix DEF r
    <3>3. ASSUME ~Hollow(r)
          PROVE Target(r) \subseteq Sector /\ \A s \in Target(r) : disk'[s] = chains[h].tag
      <4>1. DataCount(r) = Len(r.segments) /\ r.sector + DataCount(r) <= Capacity
        BY <1>2, <2>1, <3>3 DEF Hollow, Attempted, DataCount, sector_range_valid
      <4>2. Target(r) \subseteq Sector
        BY <1>2, <4>1 DEF Target, Sector
      <4>3. \A s \in Target(r) : s \in r.sector..(r.sector + DataCount(r) - 1)
        BY <4>1, ZenonT(60) DEF Target
      <4> QED BY <3>1, <4>2, <4>3, ZenonT(60) DEF Written, r
    <3> QED BY <1>3, <2>1, <2>2, <3>2, <3>3, ZenonT(60) DEF Outcome, WriteDone, ReadDone, r
  <2>3. CASE \E n \in 0..(DataCount(r) - 1) : Answer(h, "IOERR", <<>>, Written(chains[h], n))
    <3>1. PICK n \in 0..(DataCount(r) - 1) : Answer(h, "IOERR", <<>>, Written(chains[h], n))
      BY <2>3, ZenonT(60)
    <3>2. n \in 0..DataCount(r) /\ disk' = Written(chains[h], n)
      BY <1>2, <1>3, <3>1
    <3>3. DiskStep(h)
      BY <2>1, <3>2, WrittenPrefix, ZenonT(60) DEF r
    <3> QED BY <1>3, <3>1, <3>3 DEF Outcome, r
  <2> QED BY <1>6, <2>2, <2>3, ZenonT(60) DEF Write, r
<1>7. CASE Read(h)
  <2> DEFINE whole == ~Refused(r) /\ Delivered(r) = DataCount(r)
             data == ReadBack(r, Delivered(r))
  <2>1. r.type = "IN" /\ Attempted(r)
    BY <1>7, ZenonT(60) DEF Read, r
  <2>2. CASE whole /\ Answer(h, "OK", data, disk)
    <3>1. Delivered(r) = Len(r.segments) /\ r.sector + Len(r.segments) <= Capacity
      BY <2>1, <2>2, ZenonT(60) DEF DataCount, Attempted, sector_range_valid
    <3>2. data = [i \in 1..Len(r.segments) |-> disk[r.sector + i - 1]]
      BY <3>1, ZenonT(60) DEF ReadBack
    <3> HIDE DEF data
    <3>3. /\ Len(data) = Len(r.segments) /\ DOMAIN data = 1..Len(r.segments)
          /\ \A i \in 1..Len(r.segments) : data[i] = disk[r.sector + i - 1]
      BY <1>2, <3>2
    <3>4. \A i \in 1..Len(r.segments) : r.sector + i - 1 \in Sector
      BY <1>2, <3>1 DEF Sector
    <3>5. buffers'[h] = data /\ disk' = disk
      BY <1>3, <2>2, ZenonT(60)
    <3>6. ReadDone(h) /\ WriteDone(h)
      BY <2>1, <3>3, <3>4, <3>5, ZenonT(60) DEF ReadDone, WriteDone, r
    <3> QED BY <1>3, <1>4, <2>2, <3>5, <3>6, ZenonT(60) DEF Outcome
  <2>3. CASE \E d : Answer(h, "IOERR", d, disk)
    BY <1>3, <1>4, <2>3 DEF Outcome, r
  <2> HIDE DEF data
  <2>4. (whole /\ Answer(h, "OK", data, disk)) \/ \E d : Answer(h, "IOERR", d, disk)
    <3>1. CASE whole
      BY <1>7, <3>1, ZenonT(60) DEF Read, r, data
    <3>2. CASE ~whole
      BY <1>7, <3>2, ZenonT(60) DEF Read, r, data
    <3> QED BY <3>1, <3>2, ZenonT(60)
  <2> QED BY <2>2, <2>3, <2>4, ZenonT(60)
<1> QED BY <1>5, <1>6, <1>7 DEF Perform

(* The used entry just written is in the slot before the used index.       *)
LEMMA PublishedSlot ==
  ASSUME NEW u \in Index
  PROVE virtqueue_ring_slot(NextIndex(u) + IndexSpace - 1) = virtqueue_ring_slot(u)
<1>1. /\ RingSize \in Nat \ {0} /\ IndexSpace \in Nat \ {0} /\ IndexSpace % RingSize = 0
      /\ u \in 0..(IndexSpace - 1)
  BY VirtqueueAssumption DEF Index
<1>2. CASE u + 1 < IndexSpace
  <2>1. NextIndex(u) = u + 1
    <3>1. u + 1 = IndexSpace * 0 + (u + 1) /\ u + 1 \in 0..(IndexSpace - 1) /\ u + 1 \in Nat
      BY <1>1, <1>2
    <3> QED BY <1>1, <3>1, RemainderIs DEF NextIndex
  <2> DEFINE a == u + IndexSpace
  <2>2. a \in Nat /\ NextIndex(u) + IndexSpace - 1 = a
    BY <1>1, <2>1
  <2>3. a % IndexSpace = u
    <3>1. a = IndexSpace * 1 + u
      BY <1>1
    <3> QED BY <1>1, <2>2, <3>1, RemainderIs
  <2> HIDE DEF a
  <2>4. (a % IndexSpace) % RingSize = a % RingSize
    BY <1>1, <2>2, CoarseRemainder, ZenonT(60)
  <2> QED BY <2>2, <2>3, <2>4, ZenonT(60) DEF virtqueue_ring_slot
<1>3. CASE u + 1 = IndexSpace
  <2>1. NextIndex(u) = 0
    <3>1. u + 1 = IndexSpace * 1 + 0 /\ 0 \in 0..(IndexSpace - 1) /\ u + 1 \in Nat
      BY <1>1, <1>3
    <3> QED BY <1>1, <3>1, RemainderIs DEF NextIndex
  <2>2. NextIndex(u) + IndexSpace - 1 = u
    BY <1>1, <1>3, <2>1
  <2> QED BY <2>2
<1> QED BY <1>1, <1>2, <1>3

(* A published answer says what was done.                                  *)
LEMMA CompletedHonest ==
  ASSUME SystemTyped, Completed
  PROVE StatusStep /\ ErrorStep
<1> DEFINE i == synchronize_queue_generation
           h == available_head(i.last)
           r == chains[h].request
<1>1. h \in Slot /\ i.used \in Index /\ RamTyped /\ VirtqueueTypeOK(UsedElement)
  BY SynchronizedTyped DEF SystemTyped
<1>2. exit' = exit /\ Perform(h) /\ r.answer
  BY ZenonT(60) DEF Completed, Answerable
<1>3. publish_used(i.used, [id |-> h, length |-> UsedLength(h)])
  BY ZenonT(60) DEF Completed
<1>4. Outcome(h)
  BY <1>1, <1>2, PerformOutcome
<1> HIDE DEF h, i
<1>5. virtqueue_ring_slot(i.used) \in Slot /\ used.ring \in [Slot -> UsedElement]
  BY <1>1, IndexTyped, ZenonT(60) DEF VirtqueueTypeOK
<1>6. used'.ring[virtqueue_ring_slot(i.used)].id = h /\ used_idx' = NextIndex(i.used)
  BY <1>3, <1>5, ZenonT(60) DEF publish_used
<1>7. used'.ring[virtqueue_ring_slot(used_idx' + IndexSpace - 1)].id = h
  BY <1>1, <1>6, PublishedSlot, ZenonT(60)
<1>8. disk \in [Sector -> 0..MaxRequest] /\ disk' \in [Sector -> 0..MaxRequest]
  BY <1>1, <1>2, PerformTyped, ZenonT(60) DEF RamTyped, Image
<1>9. Hollow(r) => disk' = disk
  BY <1>4, <1>8 DEF Outcome, DiskStep, Hollow
<1>10. \A s \in Sector : disk'[s] # disk[s] => r.type = "OUT" /\ s \in Target(r)
  BY <1>4, ZenonT(60) DEF Outcome, DiskStep
<1>11. r.type = "OUT" /\ ~Hollow(r) /\ statuses'[h] = "OK" =>
         Target(r) \subseteq Sector /\ \A s \in Target(r) : disk'[s] = chains[h].tag
  BY <1>2, <1>4, ZenonT(60) DEF Outcome, WriteDone
<1>12. StatusStep
  BY <1>7, <1>9, <1>10, <1>11, ZenonT(60) DEF StatusStep, Target
<1> QED BY <1>2, <1>12, ZenonT(60) DEF ErrorStep

(* An error of the queue announces nothing.                                *)
LEMMA ErrorHonest ==
  ASSUME SystemTyped, QueueError \/ Unanswerable \/ Undefined
  PROVE StatusStep /\ ErrorStep
<1> DEFINE h == available_head(synchronize_queue_generation.last)
           r == chains[h].request
<1>1. h \in Slot /\ RamTyped
  BY SynchronizedTyped, ZenonT(60) DEF SystemTyped
<1>2. UNCHANGED <<used, interrupt_status>>
  BY ZenonT(60) DEF QueueError, Unanswerable, Undefined, queueVars
<1>3. ASSUME disk' # disk PROVE Parses(h) /\ r.type = "OUT" /\ ~Refused(r)
  <2>1. Parses(h) /\ Perform(h)
    BY <1>3, ZenonT(60) DEF QueueError, Unanswerable, Undefined
  <2> HIDE DEF h
  <2>2. disk \in [Sector -> 0..MaxRequest] /\ disk' \in [Sector -> 0..MaxRequest]
    BY <1>1, <2>1, PerformTyped, ZenonT(60) DEF RamTyped, Image
  <2>3. \E s \in Sector : disk'[s] # disk[s]
    BY <1>3, <2>2
  <2>4. DiskStep(h)
    BY <1>1, <2>1, PerformOutcome, ZenonT(60) DEF Outcome
  <2> QED BY <2>1, <2>3, <2>4, ZenonT(60) DEF DiskStep
<1>4. StatusStep
  BY <1>2, ZenonT(60) DEF StatusStep
<1> QED BY <1>2, <1>3, <1>4, ZenonT(60) DEF ErrorStep

(* Every step reports outcomes as they are.                                *)
LEMMA NextHonest ==
  ASSUME SystemTyped, [Next]_vars
  PROVE [StatusStep /\ ErrorStep]_vars
<1>1. ASSUME process_one PROVE StatusStep /\ ErrorStep
  <2>1. CASE NoNotification
    <3>1. used' = used /\ exit' = exit
      BY <2>1, ZenonT(60) DEF NoNotification, queueVars, hostVars
    <3> QED BY <3>1, ZenonT(60) DEF StatusStep, ErrorStep
  <2> QED BY <1>1, <2>1, CompletedHonest, ErrorHonest, ZenonT(60) DEF process_one
<1>2. ASSUME \/ synchronize_devices
             \/ Handshake \/ Submit \/ Publish \/ Kick \/ Collect \/ AckInterrupt
             \/ ResetDevice \/ Fail \/ SpuriousKick \/ Other
      PROVE StatusStep /\ ErrorStep
  <2>1. exit' = exit /\ phase # "device"
    BY <1>2, ZenonT(60) DEF synchronize_devices, Handshake, Submit, Publish,
                        Kick, Collect, AckInterrupt,
       ResetDevice, Fail, SpuriousKick, Other, Instruction, hostVars
  <2> QED BY <2>1, ZenonT(60) DEF StatusStep, ErrorStep
<1> QED BY <1>1, <1>2, ZenonT(60) DEF Next

(* The device tells the driver the truth, whatever requests it is given,   *)
(* wherever the rings lie, and whichever host operation fails: status OK   *)
(* of a write means its sectors hold its data; no other sector changes; a  *)
(* request that ends in an error of the queue is not announced.            *)
THEOREM BlockRequestsHonest == BlockSpec => RequestsHonest
<1>1. RingInv /\ [Next]_vars => [StatusStep /\ ErrorStep]_vars
  BY NextHonest DEF RingInv
<1> QED BY <1>1, RingInvariant, PTL DEF BlockSpec, RequestsHonest

-----------------------------------------------------------------------------
(* The data.  A driver that has collected n requests knows what each of    *)
(* them may have left in a sector.                                         *)

RequestOf(n) == chains[submitted[n]].request
AnsweredOk(n) == statuses[submitted[n]] = "OK"

(* Request n writes sector s; if it was answered OK, it certainly did.     *)
WritesTo(n, s) ==
  RequestOf(n).type = "OUT" /\ ~Hollow(RequestOf(n)) /\ s \in Target(RequestOf(n))
Settles(n, s) == WritesTo(n, s) /\ AnsweredOk(n)

(* v may be in sector s after request n: it was there before the first     *)
(* uncollected request, or one of those wrote it, and no later one         *)
(* certainly overwrote it.                                                 *)
Possible(n, s, v) ==
  \/ v \in shadow[s] /\ \A k \in (Len(completed) + 1)..n : ~Settles(k, s)
  \/ \E k \in (Len(completed) + 1)..n :
       /\ WritesTo(k, s) /\ v = chains[submitted[k]].tag
       /\ \A j \in (k + 1)..n : ~Settles(j, s)

(* What an answered read has delivered was possible when it was answered.  *)
ReadHonest(n) ==
  RequestOf(n).type = "IN" /\ AnsweredOk(n) =>
    /\ Len(buffers[submitted[n]]) = Len(RequestOf(n).segments)
    /\ DOMAIN buffers[submitted[n]] = 1..Len(RequestOf(n).segments)
    /\ \A i \in 1..Len(RequestOf(n).segments) :
         /\ RequestOf(n).sector + i - 1 \in Sector
         /\ \A s, v : s = RequestOf(n).sector + i - 1 /\ v = buffers[submitted[n]][i] =>
              Possible(n - 1, s, v)

DataAt(done) ==
  /\ \A s \in Sector, v \in 0..MaxRequest : disk[s] = v => Possible(done, s, v)
  /\ \A n \in (Len(completed) + 1)..done : ReadHonest(n)

DataInv ==
  /\ RingInv
  /\ exit = "running" => \E done \in Nat : RingsAt(done) /\ DataAt(done)

(* A step that leaves request n, its status and its data alone.            *)
Kept(n) ==
  /\ submitted'[n] = submitted[n] /\ chains'[submitted[n]] = chains[submitted[n]]
  /\ statuses'[submitted[n]] = statuses[submitted[n]]
  /\ buffers'[submitted[n]] = buffers[submitted[n]]

(* Its meaning is then unchanged.                                          *)
LEMMA KeptMeaning ==
  ASSUME NEW n, Kept(n), NEW s
  PROVE /\ WritesTo(n, s)' <=> WritesTo(n, s)
        /\ Settles(n, s)' <=> Settles(n, s)
        /\ RequestOf(n)' = RequestOf(n)
        /\ AnsweredOk(n)' <=> AnsweredOk(n)
<1>1. RequestOf(n)' = RequestOf(n)
  BY ZenonT(60) DEF Kept, RequestOf
<1>2. AnsweredOk(n)' <=> AnsweredOk(n)
  BY ZenonT(60) DEF Kept, AnsweredOk
<1>3. WritesTo(n, s)' <=> WritesTo(n, s)
  BY <1>1, ZenonT(60) DEF WritesTo, Hollow, Refused, Target
<1>4. Settles(n, s)' <=> Settles(n, s)
  BY <1>2, <1>3 DEF Settles
<1> QED BY <1>1, <1>2, <1>3, <1>4, ZenonT(60)

(* What was possible remains possible.                                     *)
LEMMA PossibleKept ==
  ASSUME NEW n, NEW s, NEW v, Possible(n, s, v), UNCHANGED <<completed, shadow>>,
         \A k \in (Len(completed) + 1)..n : Kept(k), Len(completed) \in Nat, n \in Int
  PROVE Possible(n, s, v)'
<1>1. ASSUME NEW k \in (Len(completed) + 1)..n
      PROVE /\ WritesTo(k, s)' <=> WritesTo(k, s)
            /\ Settles(k, s)' <=> Settles(k, s)
            /\ chains'[submitted'[k]].tag = chains[submitted[k]].tag
  <2>1. Kept(k)
    OBVIOUS
  <2>2. chains'[submitted'[k]].tag = chains[submitted[k]].tag
    BY <2>1, ZenonT(60) DEF Kept
  <2> QED BY <2>1, <2>2, KeptMeaning, ZenonT(60)
<1>2. CASE v \in shadow[s] /\ \A k \in (Len(completed) + 1)..n : ~Settles(k, s)
  <2>1. \A k \in (Len(completed) + 1)..n : ~Settles(k, s)'
    BY <1>1, <1>2, ZenonT(60)
  <2>2. v \in shadow'[s] /\ completed' = completed
    BY <1>2, ZenonT(60)
  <2> QED BY <2>1, <2>2, ZenonT(60) DEF Possible
<1>3. ASSUME NEW k \in (Len(completed) + 1)..n, WritesTo(k, s), v = chains[submitted[k]].tag,
             \A j \in (k + 1)..n : ~Settles(j, s)
      PROVE Possible(n, s, v)'
  <2>1. \A j \in (k + 1)..n : j \in (Len(completed) + 1)..n
    OBVIOUS
  <2>2. WritesTo(k, s)' /\ v = chains'[submitted'[k]].tag /\ \A j \in (k + 1)..n : ~Settles(j, s)'
    BY <1>1, <1>3, <2>1, ZenonT(60)
  <2>3. completed' = completed
    OBVIOUS
  <2> QED BY <2>2, <2>3, ZenonT(60) DEF Possible
<1> QED BY <1>2, <1>3, ZenonT(60) DEF Possible

(* A delivered read stays what it was.                                     *)
LEMMA ReadKept ==
  ASSUME NEW n \in Int, ReadHonest(n), UNCHANGED <<completed, shadow>>, Len(completed) \in Nat,
         \A k \in (Len(completed) + 1)..n : Kept(k), n > Len(completed)
  PROVE ReadHonest(n)'
<1>1. Kept(n) /\ n - 1 \in Int /\ \A k \in (Len(completed) + 1)..(n - 1) : Kept(k)
  OBVIOUS
<1>2. RequestOf(n)' = RequestOf(n) /\ (AnsweredOk(n)' <=> AnsweredOk(n))
  BY <1>1, KeptMeaning, ZenonT(60)
<1>3. submitted'[n] = submitted[n] /\ buffers'[submitted'[n]] = buffers[submitted[n]]
  BY <1>1, ZenonT(60) DEF Kept
<1>4. \A s, v : Possible(n - 1, s, v) => Possible(n - 1, s, v)'
  BY <1>1, PossibleKept, ZenonT(60)
<1> QED BY <1>2, <1>3, <1>4, ZenonT(60) DEF ReadHonest

(* A step that leaves the disk and every answered request alone.           *)
LEMMA DataKept ==
  ASSUME NEW done \in Nat, DataAt(done), UNCHANGED <<completed, shadow, disk>>,
         Len(completed) \in Nat, \A n \in (Len(completed) + 1)..done : Kept(n)
  PROVE DataAt(done)'
<1>1. ASSUME NEW s \in Sector, NEW v \in 0..MaxRequest, disk'[s] = v PROVE Possible(done, s, v)'
  <2>1. Possible(done, s, v)
    BY <1>1 DEF DataAt
  <2> QED BY <2>1, PossibleKept
<1>2. ASSUME NEW n \in (Len(completed) + 1)..done PROVE ReadHonest(n)'
  <2>1. n \in Int /\ n > Len(completed) /\ \A k \in (Len(completed) + 1)..n : Kept(k)
    OBVIOUS
  <2>2. ReadHonest(n)
    BY DEF DataAt
  <2> QED BY <2>1, <2>2, ReadKept
<1>3. completed' = completed
  OBVIOUS
<1> QED BY <1>1, <1>2, <1>3, ZenonT(60) DEF DataAt

(* The steps that move neither rings nor counters touch no data.           *)
LEMMA QuiescentData ==
  ASSUME Quiescent
  PROVE UNCHANGED <<chains, statuses, buffers, disk, shadow, submitted, completed>>
<1>1. CASE process_one /\ NoNotification
  BY <1>1, ZenonT(60) DEF process_one, NoNotification, ramVars, hostVars, driverVars
<1>2. CASE synchronize_devices \/ UNCHANGED vars
  BY <1>2, ZenonT(60) DEF synchronize_devices, vars, ramVars, hostVars, driverVars
<1>3. CASE Handshake \/ Kick \/ AckInterrupt \/ Fail \/ SpuriousKick \/ Other
  BY <1>3, ZenonT(60) DEF Handshake, Kick, AckInterrupt, Fail, SpuriousKick, Other, Quiet,
     Instruction, ramVars, hostVars
<1> QED BY <1>1, <1>2, <1>3, ZenonT(60) DEF Quiescent

(* A new request uses a free chain.                                        *)
LEMMA SubmitData ==
  ASSUME SystemTyped, HeadsApart, NEW done \in Nat, RingsAt(done), DataAt(done), Submit
  PROVE DataAt(done)'
<1>1. Len(completed) \in Nat /\ Len(submitted) \in Nat /\ done <= Len(submitted)
  BY Window, ZenonT(60) DEF RingsAt
<1>2. UNCHANGED <<completed, shadow, disk, submitted>>
  BY ZenonT(60) DEF Submit, Instruction, hostVars
<1>3. PICK r \in Request, h \in Slot \ busy :
        /\ chains' = [chains EXCEPT ![h] = [request |-> r, tag |-> total + 1]]
        /\ statuses' = [statuses EXCEPT ![h] = "NONE"]
        /\ buffers' = [buffers EXCEPT ![h] = <<>>]
  BY ZenonT(60) DEF Submit
<1>4. /\ chains \in [Slot -> [request : Request, tag : 0..MaxRequest]] /\ busy \subseteq Slot
      /\ statuses \in [Slot -> Status] /\ buffers \in [Slot -> Data]
  BY ZenonT(60) DEF SystemTyped, RamTyped, DriverTyped
<1>5. ASSUME NEW n \in (Len(completed) + 1)..done PROVE Kept(n)
  <2>1. n \in InFlight
    BY <1>1 DEF InFlight
  <2>2. submitted[n] \in busy
    BY <2>1, ZenonT(60) DEF HeadsApart
  <2>3. submitted[n] # h /\ submitted[n] \in Slot
    BY <1>4, <2>2, ZenonT(60)
  <2> QED BY <1>2, <1>3, <1>4, <2>3, ZenonT(60) DEF Kept
<1> QED BY <1>1, <1>2, <1>5, DataKept, ZenonT(60)

(* Publishing only adds to the requests.                                   *)
LEMMA PublishData ==
  ASSUME SystemTyped, HeadsApart, NEW done \in Nat, RingsAt(done), DataAt(done), Publish
  PROVE DataAt(done)'
<1>1. Len(completed) \in Nat /\ Len(submitted) \in Nat /\ done <= Len(submitted)
  BY Window, ZenonT(60) DEF RingsAt
<1>2. UNCHANGED <<completed, shadow, disk, chains, statuses, buffers>>
  BY ZenonT(60) DEF Publish, Instruction, hostVars, ramVars
<1>3. submitted \in Seq(Slot) /\ avail.ring[virtqueue_ring_slot(avail.idx)] \in Slot
  BY IndexTyped, ZenonT(60) DEF SystemTyped, VirtqueueTypeOK, DriverTyped
<1>4. submitted' = Append(submitted, avail.ring[virtqueue_ring_slot(avail.idx)])
  BY ZenonT(60) DEF Publish
<1>5. ASSUME NEW n \in (Len(completed) + 1)..done PROVE Kept(n)
  <2>1. n \in 1..Len(submitted)
    BY <1>1
  <2>2. submitted'[n] = submitted[n]
    BY <1>3, <1>4, <2>1, AppendProperties, ZenonT(60)
  <2> QED BY <1>2, <2>2, ZenonT(60) DEF Kept
<1> QED BY <1>1, <1>2, <1>5, DataKept

(* What the driver learns from the request it collects.                    *)
LEMMA CollectedPossible ==
  ASSUME SystemTyped, NEW s \in Sector, NEW v, NEW n \in Int,
         Len(completed) \in Nat, Len(completed') = Len(completed) + 1, n > Len(completed),
         UNCHANGED <<submitted, chains, statuses>>,
         shadow' = Expected(submitted[Len(completed) + 1], TRUE), Possible(n, s, v)
  PROVE Possible(n, s, v)'
<1> DEFINE c == Len(completed) + 1
<1>1. \A k : /\ WritesTo(k, s)' <=> WritesTo(k, s)
             /\ Settles(k, s)' <=> Settles(k, s)
             /\ chains'[submitted'[k]].tag = chains[submitted[k]].tag
  <2>1. \A k : RequestOf(k)' = RequestOf(k) /\ (AnsweredOk(k)' <=> AnsweredOk(k))
    BY ZenonT(60) DEF RequestOf, AnsweredOk
  <2>2. \A k : WritesTo(k, s)' <=> WritesTo(k, s)
    BY <2>1, ZenonT(60) DEF WritesTo, Hollow, Refused, Target
  <2>3. \A k : Settles(k, s)' <=> Settles(k, s)
    BY <2>1, <2>2, ZenonT(60) DEF Settles
  <2> QED BY <2>2, <2>3, ZenonT(60)
<1>2. /\ Settles(c, s) => shadow'[s] = {chains[submitted[c]].tag}
      /\ WritesTo(c, s) /\ ~Settles(c, s) => shadow'[s] = shadow[s] \cup {chains[submitted[c]].tag}
      /\ ~WritesTo(c, s) => shadow'[s] = shadow[s]
  BY ZenonT(60) DEF Expected, Settles, WritesTo, AnsweredOk, RequestOf, Target
<1>3. c \in Int /\ Len(completed') = c
  OBVIOUS
<1>4. ASSUME v \in shadow'[s], \A j \in (c + 1)..n : ~Settles(j, s) PROVE Possible(n, s, v)'
  <2>1. \A j \in (Len(completed') + 1)..n : ~Settles(j, s)'
    BY <1>1, <1>3, <1>4, ZenonT(60)
  <2> QED BY <1>4, <2>1, ZenonT(60) DEF Possible
<1> HIDE DEF c
<1>5. CASE v \in shadow[s] /\ \A k \in c..n : ~Settles(k, s)
  <2>1. c \in c..n /\ \A j \in (c + 1)..n : j \in c..n
    BY <1>3 DEF c
  <2>2. ~Settles(c, s) /\ \A j \in (c + 1)..n : ~Settles(j, s)
    BY <1>5, <2>1, ZenonT(60)
  <2>3. v \in shadow'[s]
    BY <1>2, <1>5, <2>2, ZenonT(60)
  <2> QED BY <1>4, <2>2, <2>3, ZenonT(60)
<1>6. ASSUME NEW k \in c..n, WritesTo(k, s), v = chains[submitted[k]].tag,
             \A j \in (k + 1)..n : ~Settles(j, s)
      PROVE Possible(n, s, v)'
  <2>1. CASE k = c
    <3>1. v \in shadow'[s]
      BY <1>2, <1>6, <2>1, ZenonT(60)
    <3> QED BY <1>4, <1>6, <2>1, <3>1, ZenonT(60)
  <2>2. CASE k # c
    <3>1. k \in (Len(completed') + 1)..n
      BY <1>3, <2>2
    <3>2. WritesTo(k, s)' /\ v = chains'[submitted'[k]].tag /\ \A j \in (k + 1)..n : ~Settles(j, s)'
      BY <1>1, <1>6, ZenonT(60)
    <3> QED BY <3>1, <3>2, ZenonT(60) DEF Possible
  <2> QED BY <2>1, <2>2, ZenonT(60)
<1> QED BY <1>5, <1>6, ZenonT(60) DEF Possible, c

(* Collecting a request moves its effect from the data to the shadow.      *)
LEMMA CollectData ==
  ASSUME SystemTyped, HeadsApart, NEW done \in Nat, RingsAt(done), DataAt(done), Collect
  PROVE DataAt(done)'
<1> DEFINE C == Len(completed)
<1>1. C \in Nat /\ C < done /\ submitted[C + 1] \in Slot
  <2>1. C \in Nat /\ Len(submitted) \in Nat /\ done <= Len(submitted) /\ C < done
    BY Window, CollectsOldest, ZenonT(60) DEF RingsAt
  <2>2. submitted \in Seq(Slot) /\ C + 1 \in 1..Len(submitted)
    BY <2>1 DEF SystemTyped, DriverTyped
  <2> QED BY <2>1, <2>2, ElementOfSeq
<1>2. /\ completed' = Append(completed, submitted[C + 1]) /\ completed \in Seq(Slot)
      /\ shadow' = Expected(submitted[C + 1], TRUE) /\ submitted' = submitted
  BY CollectsOldest, ZenonT(60) DEF SystemTyped, DriverTyped
<1>3. Len(completed') = C + 1
  BY <1>1, <1>2, AppendProperties, ZenonT(60)
<1>4. UNCHANGED <<chains, statuses, buffers, disk>>
  BY ZenonT(60) DEF Collect, Instruction, ramVars, hostVars
<1>5. ASSUME NEW s \in Sector, NEW v, NEW n \in Int, n > C, Possible(n, s, v)
      PROVE Possible(n, s, v)'
  BY <1>1, <1>2, <1>3, <1>4, <1>5, CollectedPossible, ZenonT(60)
<1>6. ASSUME NEW s \in Sector, NEW v \in 0..MaxRequest, disk'[s] = v PROVE Possible(done, s, v)'
  <2>1. Possible(done, s, v) /\ done \in Int
    BY <1>4, <1>6 DEF DataAt
  <2> QED BY <1>1, <1>5, <2>1
<1>7. ASSUME NEW n \in (Len(completed') + 1)..done PROVE ReadHonest(n)'
  <2>1. n \in (C + 1)..done /\ n - 1 \in Int /\ n - 1 > C
    BY <1>1, <1>3
  <2>2. ReadHonest(n)
    BY <2>1 DEF DataAt
  <2>3. \A s \in Sector : \A v : Possible(n - 1, s, v) => Possible(n - 1, s, v)'
    BY <1>5, <2>1, ZenonT(60)
  <2>4. /\ RequestOf(n)' = RequestOf(n) /\ (AnsweredOk(n)' <=> AnsweredOk(n))
        /\ buffers'[submitted'[n]] = buffers[submitted[n]] /\ submitted'[n] = submitted[n]
    BY <1>2, <1>4, ZenonT(60) DEF RequestOf, AnsweredOk
  <2> QED BY <2>2, <2>3, <2>4, ZenonT(60) DEF ReadHonest
<1> QED BY <1>6, <1>7, ZenonT(60) DEF DataAt

(* What a read delivered is what the driver expects.                       *)
LEMMA CollectSees ==
  ASSUME SystemTyped, HeadsApart, NEW done \in Nat, RingsAt(done), DataAt(done), Collect
  PROVE ReadStep
<1> DEFINE C == Len(completed)
           h == submitted[C + 1]
<1>1. C \in Nat /\ C < done /\ h \in Slot
  <2>1. C \in Nat /\ Len(submitted) \in Nat /\ done <= Len(submitted) /\ C < done
    BY Window, CollectsOldest, ZenonT(60) DEF RingsAt
  <2>2. submitted \in Seq(Slot) /\ C + 1 \in 1..Len(submitted)
    BY <2>1 DEF SystemTyped, DriverTyped
  <2> QED BY <2>1, <2>2, ElementOfSeq
<1>2. completed' = Append(completed, h) /\ completed \in Seq(Slot)
  BY CollectsOldest, ZenonT(60) DEF SystemTyped, DriverTyped
<1>3. Len(completed') = C + 1 /\ completed'[C + 1] = h
  BY <1>1, <1>2, AppendProperties, ZenonT(60)
<1>4. ReadHonest(C + 1) /\ (C + 1) - 1 = C
  BY <1>1 DEF DataAt
<1>5. \A s, v : Possible(C, s, v) => v \in shadow[s]
  <2>1. \A k \in (C + 1)..C : FALSE
    BY <1>1
  <2> QED BY <2>1, ZenonT(60) DEF Possible
<1>6. ASSUME chains[h].request.type = "IN", statuses[h] = "OK"
      PROVE /\ Len(buffers[h]) = Len(chains[h].request.segments)
            /\ \A i \in DOMAIN buffers[h] :
                 buffers[h][i] \in shadow[chains[h].request.sector + i - 1]
  BY <1>4, <1>5, <1>6, ZenonT(60) DEF ReadHonest, RequestOf, AnsweredOk
<1> HIDE DEF h
<1> QED BY <1>3, <1>6, ZenonT(60) DEF ReadStep

(* A reset forgets the requests; the driver expects the effect of any.     *)
LEMMA ResetData ==
  ASSUME SystemTyped, HeadsApart, NEW done \in Nat, RingsAt(done), DataAt(done), ResetDevice
  PROVE DataAt(0)'
<1>1. disk' = disk /\ completed' = <<>>
  BY ZenonT(60) DEF ResetDevice, Instruction, hostVars
<1>2. shadow' = [s \in Sector |-> UNION ({shadow[s]} \cup {Expected(h, FALSE)[s] : h \in busy})]
  BY ZenonT(60) DEF ResetDevice
<1>3. Len(completed) \in Nat /\ Len(submitted) \in Nat /\ done <= Len(submitted)
  BY Window, ZenonT(60) DEF RingsAt
<1>4. ASSUME NEW s \in Sector, NEW v \in 0..MaxRequest, disk'[s] = v PROVE v \in shadow'[s]
  <2>1. Possible(done, s, v)
    BY <1>1, <1>4, ZenonT(60) DEF DataAt
  <2>2. shadow'[s] = UNION ({shadow[s]} \cup {Expected(h, FALSE)[s] : h \in busy})
    BY <1>2, ZenonT(60)
  <2>3. CASE v \in shadow[s]
    BY <2>2, <2>3, ZenonT(60)
  <2>4. ASSUME NEW k \in (Len(completed) + 1)..done, WritesTo(k, s), v = chains[submitted[k]].tag
        PROVE v \in shadow'[s]
    <3>1. submitted[k] \in busy
      BY <1>3 DEF HeadsApart, InFlight
    <3>2. v \in Expected(submitted[k], FALSE)[s]
      BY <2>4, ZenonT(60) DEF Expected, WritesTo, RequestOf, Target
    <3> QED BY <2>2, <3>1, <3>2, ZenonT(60)
  <2> QED BY <2>1, <2>3, <2>4, ZenonT(60) DEF Possible
<1>5. Len(completed') = 0 /\ \A n \in (Len(completed') + 1)..0 : FALSE
  BY <1>1
<1>6. ASSUME NEW s \in Sector, NEW v \in 0..MaxRequest, disk'[s] = v PROVE Possible(0, s, v)'
  BY <1>4, <1>5, <1>6, ZenonT(60) DEF Possible
<1> QED BY <1>5, <1>6, ZenonT(60) DEF DataAt

(* The device performs the oldest request it has not answered.             *)
LEMMA CompletedData ==
  ASSUME SystemTyped, HeadsApart, NEW done \in Nat, RingsAt(done), DataAt(done),
         process_one, Completed
  PROVE DataAt(done + 1)'
<1> DEFINE next == done + 1
           h == submitted[next]
<1>1. /\ Len(completed) \in Nat /\ Len(submitted) \in Nat /\ Len(completed) <= done
      /\ next \in InFlight /\ next \in 1..Len(submitted)
  BY Window, CompletedRings, SMTT(60) DEF RingsAt, InFlight
<1>2. /\ h \in Slot /\ RamTyped /\ Perform(h) /\ chains[h].request.answer
      /\ disk \in [Sector -> 0..MaxRequest] /\ chains[h].request \in Request
  <2>1. submitted \in Seq(Slot)
    BY ZenonT(60) DEF SystemTyped, DriverTyped
  <2>2. h \in Slot /\ RamTyped
    BY <1>1, <2>1, ElementOfSeq, ZenonT(60) DEF SystemTyped
  <2> QED BY <2>2, CompletedRings, ZenonT(60) DEF Answerable, RamTyped, Image
<1>3. Outcome(h)
  BY <1>2, PerformOutcome, ZenonT(60)
<1>4. UNCHANGED <<chains, submitted, completed, shadow>>
  BY ZenonT(60) DEF process_one, Completed, driverVars
<1>5. ASSUME NEW n \in (Len(completed) + 1)..done PROVE Kept(n)
  <2>1. n \in InFlight /\ n # next
    BY <1>1 DEF InFlight
  <2>2. submitted[n] # h /\ submitted[n] \in busy /\ busy \subseteq Slot
    BY <1>1, <2>1, ZenonT(60) DEF HeadsApart, SystemTyped, DriverTyped
  <2> QED BY <1>3, <1>4, <2>2, ZenonT(60) DEF Outcome, Kept
<1>6. /\ RequestOf(next)' = chains[h].request /\ RequestOf(next) = chains[h].request
      /\ AnsweredOk(next)' <=> statuses'[h] = "OK"
      /\ submitted'[next] = h
  BY <1>4, ZenonT(60) DEF RequestOf, AnsweredOk
<1>7. \A s : /\ WritesTo(next, s)' <=> WritesTo(next, s)
             /\ Settles(next, s)' <=> (WritesTo(next, s) /\ statuses'[h] = "OK")
  <2>1. \A s : WritesTo(next, s)' <=> WritesTo(next, s)
    BY <1>6, ZenonT(60) DEF WritesTo, Hollow, Refused, Target
  <2> QED BY <1>6, <2>1, ZenonT(60) DEF Settles
<1>8. ASSUME NEW s, NEW v, Possible(done, s, v) PROVE Possible(done, s, v)'
  BY <1>1, <1>4, <1>5, <1>8, PossibleKept
<1>9. ASSUME NEW s \in Sector, NEW v \in 0..MaxRequest, disk'[s] = v PROVE Possible(next, s, v)'
  <2>1. CASE WritesTo(next, s) /\ v = chains[h].tag
    <3>1. next \in (Len(completed') + 1)..next /\ \A j \in (next + 1)..next : FALSE
      BY <1>1, <1>4
    <3>2. WritesTo(next, s)' /\ v = chains'[submitted'[next]].tag
      BY <1>4, <1>7, <2>1, ZenonT(60)
    <3> HIDE DEF next
    <3> QED BY <3>1, <3>2, ZenonT(60) DEF Possible
  <2>2. CASE ~(WritesTo(next, s) /\ v = chains[h].tag)
    <3>1. disk[s] = v
      <4>1. disk'[s] # disk[s] => WritesTo(next, s) /\ disk'[s] = chains[h].tag
        BY <1>3, <1>6, ZenonT(60) DEF Outcome, DiskStep, WritesTo, Hollow
      <4> QED BY <1>9, <2>2, <4>1, ZenonT(60)
    <3>2. ~Settles(next, s)'
      <4>1. WritesTo(next, s) /\ statuses'[h] = "OK" => disk'[s] = chains[h].tag
        BY <1>2, <1>3, <1>6, ZenonT(60) DEF Outcome, WriteDone, WritesTo
      <4> QED BY <1>7, <1>9, <2>2, <4>1, ZenonT(60)
    <3>3. Possible(done, s, v)'
      BY <1>8, <3>1 DEF DataAt
    <3>4. \A j \in Int : j \in Int /\ j <= next => j <= done \/ j = next
      BY <1>1
    <3>5. CASE v \in shadow'[s] /\ \A k \in (Len(completed') + 1)..done : ~Settles(k, s)'
      <4>1. \A k \in (Len(completed') + 1)..next : ~Settles(k, s)'
        BY <1>1, <1>4, <3>2, <3>5
      <4> HIDE DEF next
      <4> QED BY <3>5, <4>1, ZenonT(60) DEF Possible
    <3>6. ASSUME NEW k \in (Len(completed') + 1)..done, WritesTo(k, s)',
                 v = chains'[submitted'[k]].tag, \A j \in (k + 1)..done : ~Settles(j, s)'
          PROVE Possible(next, s, v)'
      <4>1. k \in (Len(completed') + 1)..next /\ \A j \in (k + 1)..next : ~Settles(j, s)'
        BY <1>1, <1>4, <3>2, <3>6
      <4> HIDE DEF next
      <4> QED BY <3>6, <4>1, ZenonT(60) DEF Possible
    <3> HIDE DEF next
    <3> QED BY <3>3, <3>5, <3>6, ZenonT(60) DEF Possible
  <2> QED BY <2>1, <2>2, ZenonT(60)
<1>10. ReadHonest(next)'
  <2> SUFFICES ASSUME chains[h].request.type = "IN", statuses'[h] = "OK" PROVE ReadHonest(next)'
    BY <1>6, ZenonT(60) DEF ReadHonest
  <2>1. ReadDone(h)
    BY <1>2, <1>3, ZenonT(60) DEF Outcome
  <2>2. next - 1 = done /\ buffers'[submitted'[next]] = buffers'[h]
    BY <1>6
  <2> DEFINE r == chains[h].request
  <2>3. ASSUME NEW i \in 1..Len(r.segments), NEW s, NEW v, s = r.sector + i - 1, v = buffers'[h][i]
        PROVE s \in Sector /\ Possible(done, s, v)'
    <3>1. s \in Sector /\ v = disk[s]
      BY <2>1, <2>3, ZenonT(60) DEF ReadDone
    <3>2. v \in 0..MaxRequest
      BY <1>2, <3>1, ZenonT(60)
    <3> QED BY <1>8, <3>1, <3>2, ZenonT(60) DEF DataAt
  <2>4. Len(buffers'[h]) = Len(r.segments) /\ DOMAIN buffers'[h] = 1..Len(r.segments)
    BY <2>1, ZenonT(60) DEF ReadDone
  <2> HIDE DEF h, next, r
  <2>5. RequestOf(next)' = r
    BY <1>6, ZenonT(60) DEF r
  <2> QED BY <2>2, <2>3, <2>4, <2>5, ZenonT(60) DEF ReadHonest
<1>11. ASSUME NEW n \in (Len(completed') + 1)..next PROVE ReadHonest(n)'
  <2>1. CASE n = next
    BY <1>10, <2>1
  <2>2. CASE n # next
    <3>1. /\ n \in (Len(completed) + 1)..done /\ n \in Int /\ n > Len(completed)
          /\ \A k \in (Len(completed) + 1)..n : Kept(k)
      BY <1>1, <1>4, <1>5, <2>2
    <3>2. ReadHonest(n)
      BY <3>1, ZenonT(60) DEF DataAt
    <3> QED BY <1>1, <1>4, <3>1, <3>2, ReadKept, ZenonT(60)
  <2> QED BY <2>1, <2>2
<1> HIDE DEF next
<1>12. DataAt(next)'
  BY <1>9, <1>11, ZenonT(60) DEF DataAt
<1> QED BY <1>12 DEF next

(* The invariant of the data is inductive.                                 *)
LEMMA NextData ==
  ASSUME DataInv, [Next]_vars
  PROVE DataInv' /\ [ReadStep]_vars
<1>1. RingInv /\ RingInv' /\ SystemTyped
  BY NextRing, ZenonT(60) DEF DataInv, RingInv
<1>2. ASSUME exit = "running" PROVE HeadsApart /\ \E done \in Nat : RingsAt(done) /\ DataAt(done)
  BY <1>2 DEF DataInv, RingInv
<1> DEFINE Good == exit' = "running" => \E done \in Nat : RingsAt(done)' /\ DataAt(done)'
<1>3. ASSUME completed' = completed PROVE ReadStep
  <2>1. Len(completed) \in Nat
    BY <1>1, LenProperties DEF SystemTyped, DriverTyped
  <2>2. ~(Len(completed') > Len(completed))
    BY <1>3, <2>1
  <2> QED BY <2>2, ZenonT(60) DEF ReadStep
<1>4. ASSUME Quiescent PROVE Good /\ ReadStep
  <2>1. UNCHANGED <<chains, statuses, buffers, disk, shadow, submitted, completed, exit>>
    BY <1>4, QuiescentData, QuiescentKeeps, ZenonT(60)
  <2>2. ASSUME exit = "running" PROVE \E done \in Nat : RingsAt(done)' /\ DataAt(done)'
    <3>1. PICK done \in Nat : RingsAt(done) /\ DataAt(done) /\ HeadsApart
      BY <1>2, <2>2
    <3>2. RingsAt(done)'
      BY <1>4, <3>1, QuiescentKeeps, RingsKept, ZenonT(60)
    <3>3. Len(completed) \in Nat /\ \A n \in (Len(completed) + 1)..done : Kept(n)
      BY <1>1, <2>1, <3>1, Window, ZenonT(60) DEF Kept
    <3>4. DataAt(done)'
      BY <2>1, <3>1, <3>3, DataKept, ZenonT(60)
    <3> QED BY <3>2, <3>4
  <2> QED BY <1>3, <2>1, <2>2, ZenonT(60)
<1>5. ASSUME Submit \/ Publish \/ Collect \/ ResetDevice PROVE Good /\ ReadStep
  <2>1. exit = "running"
    BY <1>5, ZenonT(60) DEF Submit, Publish, Collect, ResetDevice, Instruction
  <2>2. PICK done \in Nat : RingsAt(done) /\ DataAt(done) /\ HeadsApart
    BY <1>2, <2>1
  <2>3. CASE Submit
    <3>1. completed' = completed
      BY <2>3, ZenonT(60) DEF Submit
    <3> QED BY <1>1, <1>3, <2>2, <2>3, <3>1, SubmitRings, SubmitData
  <2>4. CASE Publish
    <3>1. completed' = completed
      BY <2>4, ZenonT(60) DEF Publish
    <3> QED BY <1>1, <1>3, <2>2, <2>4, <3>1, PublishRings, PublishData, ZenonT(60)
  <2>5. CASE Collect
    BY <1>1, <2>2, <2>5, CollectRings, CollectData, CollectSees, ZenonT(60)
  <2>6. CASE ResetDevice
    <3>1. Len(completed') = 0 /\ Len(completed) \in Nat
      BY <1>1, <2>2, <2>6, Window DEF ResetDevice
    <3>2. ~(Len(completed') > Len(completed))
      BY <3>1
    <3>3. ReadStep
      BY <3>2, ZenonT(60) DEF ReadStep
    <3> QED BY <1>1, <2>2, <2>6, <3>3, ResetRings, ResetData
  <2> QED BY <1>5, <2>3, <2>4, <2>5, <2>6, ZenonT(60)
<1>6. ASSUME process_one, Completed PROVE Good
  <2>1. exit = "running"
    BY <1>6, ZenonT(60) DEF process_one
  <2>2. PICK done \in Nat : RingsAt(done) /\ DataAt(done) /\ HeadsApart
    BY <1>2, <2>1
  <2>3. RingsAt(done + 1)' /\ DataAt(done + 1)'
    BY <1>1, <1>6, <2>2, CompletedRings, CompletedData, ZenonT(60)
  <2> QED BY <2>3
<1>7. ASSUME process_one, QueueError \/ Unanswerable \/ Undefined PROVE exit' # "running"
  BY <1>7, Ends
<1>8. process_one => \/ (process_one /\ NoNotification) \/ Completed
                     \/ QueueError \/ Unanswerable \/ Undefined
  BY ZenonT(60) DEF process_one
<1>9. process_one => completed' = completed
  BY ZenonT(60) DEF process_one, driverVars
<1> HIDE DEF Good
<1>10. exit' # "running" => Good
  BY DEF Good
<1>11. Good /\ ReadStep
  BY <1>3, <1>4, <1>5, <1>6, <1>7, <1>8, <1>9, <1>10, ZenonT(60) DEF Next, Quiescent
<1> QED BY <1>1, <1>11, ZenonT(60) DEF DataInv, Good

(* The driver starts by expecting the image as it is.                      *)
LEMMA InitData == Init => DataInv
<1> SUFFICES ASSUME Init PROVE DataInv
  OBVIOUS
<1>1. completed = <<>> /\ disk = [s \in Sector |-> 0] /\ shadow = [s \in Sector |-> {0}]
  BY ZenonT(60) DEF Init
<1>2. Len(completed) = 0 /\ \A n \in (Len(completed) + 1)..0 : FALSE
  BY <1>1
<1>3. ASSUME NEW s \in Sector, NEW v \in 0..MaxRequest, disk[s] = v PROVE Possible(0, s, v)
  <2>1. v \in shadow[s]
    BY <1>1, <1>3
  <2> QED BY <1>2, <2>1, ZenonT(60) DEF Possible
<1>4. DataAt(0)
  BY <1>2, <1>3, ZenonT(60) DEF DataAt
<1>5. RingsAt(0)
  BY StartRings
<1> QED BY <1>4, <1>5, InitRing DEF DataInv

(* A read sees what the writes before it left: for every sequence of       *)
(* submissions, completions, failures of the host and resets, a read       *)
(* collected with status OK returns one sector per segment, each of them   *)
(* what the writes collected before it may have left there.                *)
THEOREM BlockReadSeesWrites == BlockSpec => ReadSeesWrites
<1>1. DataInv /\ [Next]_vars => DataInv' /\ [ReadStep]_vars
  BY NextData
<1> QED BY <1>1, InitData, PTL DEF BlockSpec, ReadSeesWrites

=============================================================================
