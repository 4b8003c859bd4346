---------------------------- MODULE VirtioBlock -----------------------------
(***************************************************************************)
(* The block device (src/devices/virtio_block.cpp) with its transport, its *)
(* queue, the disk image behind it, and the loop of src/runtime/runner.cpp *)
(* that gives it one process_one before every instruction of the hart.     *)
(*                                                                         *)
(* A request is a descriptor chain: a header (type, sector), one or more   *)
(* data segments of one sector each, a status byte.  A segment says        *)
(* whether the device writes it and whether it lies in RAM, a request      *)
(* whether its status byte does.  The data the n-th request writes is n.   *)
(* The host may fail any pread or pwrite; a failed pwrite may have written *)
(* a prefix.                                                               *)
(*                                                                         *)
(* The guest is a driver: it performs the status handshake, submits        *)
(* requests in three instructions (ring entry, index, notify), collects    *)
(* completions and may reset the device at any time.  It notifies after    *)
(* Batch requests; with Careless it also notifies without a new request    *)
(* and keeps working after it has set FAILED.                              *)
(***************************************************************************)
EXTENDS VirtioMmio, Virtqueue

CONSTANTS
  RamAddress,    \* the aligned addresses that are RAM
  Request,       \* the requests the driver submits
  Capacity,      \* sectors of the image
  Batch,         \* requests per notification
  Careless,      \* the driver misuses the transport
  MaxRequest     \* bound on requests

ASSUME BlockAssumption ==
  /\ Capacity \in Nat /\ Batch \in Nat \ {0} /\ MaxRequest \in Nat
  /\ Careless \in BOOLEAN /\ RamAddress \subseteq AlignedAddress
  /\ RingSize \in Size /\ Request # {}
  /\ Request \subseteq [type : {"IN", "OUT", "OTHER"}, sector : Nat, chain : BOOLEAN,
                        answer : BOOLEAN, segments : Seq([writes : BOOLEAN, mapped : BOOLEAN])]

VARIABLES
  phase,           \* "device", "sync" or "hart"
  exit,            \* how run_machine ended, or "running"
  observed_transport_generation,
  disk,            \* disk[s]: number of the request that wrote sector s
  block_level,     \* level of the device's interrupt source at the PLIC
  driver,          \* the driver's next instruction
  chains,          \* guest RAM: chains[h] = the request at descriptor head h
  statuses,        \* guest RAM: the status byte of chain h
  buffers,         \* guest RAM: what the device stored in chain h's data
  busy,            \* heads of submitted, uncollected requests
  unkicked,        \* requests published since the last notification
  seen,            \* driver's used index
  submitted,       \* heads published since the last reset
  completed,       \* heads collected since the last reset
  total,           \* requests submitted ever
  shadow           \* shadow[s]: values the driver may expect in sector s

hostVars == <<exit, observed_transport_generation, disk, block_level>>
ramVars == <<chains, statuses, buffers>>
driverVars == <<driver, busy, unkicked, seen, submitted, completed, total, shadow>>
vars == <<mmioVars, queueVars, phase, hostVars, ramVars, driverVars>>

BlockQueue == 0
Sector == 0..(Capacity - 1)
Status == {"NONE", "OK", "IOERR", "UNSUPP"}
Free == CHOOSE r \in Request : TRUE     \* contents of an unused chain
UsedElement == [id : Slot, length : Nat]

BlockTypeOK ==
  /\ MmioTypeOK /\ VirtqueueTypeOK(UsedElement)
  /\ phase \in {"device", "sync", "hart"} /\ exit \in {"running", "RuntimeIo", "undefined"}
  /\ observed_transport_generation \in 0..generation
  /\ disk \in [Sector -> 0..MaxRequest] /\ block_level \in BOOLEAN
  /\ \A h \in Slot : chains[h].request \in Request /\ chains[h].tag \in 0..MaxRequest
  /\ statuses \in [Slot -> Status] /\ buffers \in [Slot -> Seq(0..MaxRequest)]
  /\ busy \subseteq Slot /\ seen \in Index
  /\ shadow \in [Sector -> SUBSET (0..MaxRequest)]

Init ==
  /\ MmioInit
  /\ last_available_idx = 0 /\ used_idx = 0
  /\ avail = [idx |-> 0, ring |-> [s \in Slot |-> 0]]
  /\ used = [idx |-> 0, ring |-> [s \in Slot |-> [id |-> 0, length |-> 0]]]
  /\ phase = "device" /\ exit = "running" /\ observed_transport_generation = 0
  /\ disk = [s \in Sector |-> 0] /\ block_level = FALSE
  /\ chains = [h \in Slot |-> [request |-> Free, tag |-> 0]]
  /\ statuses = [h \in Slot |-> "NONE"] /\ buffers = [h \in Slot |-> <<>>]
  /\ driver = "acknowledge" /\ busy = {} /\ unkicked = 0 /\ seen = 0
  /\ submitted = <<>> /\ completed = <<>> /\ total = 0
  /\ shadow = [s \in Sector |-> {0}]

-----------------------------------------------------------------------------
(* process_one.                                                            *)

(* The indices process_one works with: fresh ones after a transport reset. *)
synchronize_queue_generation ==
  IF generation = observed_transport_generation
  THEN [last |-> last_available_idx, used |-> used_idx] ELSE reset

sector_range_valid(sector, count) == sector + count <= Capacity

(* A data segment that stops the collection of the request's data.         *)
Refused(r) ==
  \E i \in DOMAIN r.segments :
    \/ r.segments[i].writes # (r.type = "IN")
    \/ r.type = "OUT" /\ ~r.segments[i].mapped

(* Sectors of data collected: none once a segment was refused.             *)
DataCount(r) == IF Refused(r) THEN 0 ELSE Len(r.segments)

Attempted(r) ==
  /\ r.type \in {"IN", "OUT"}
  /\ DataCount(r) > 0 \/ Len(r.segments) = 1
  /\ sector_range_valid(r.sector, DataCount(r))

(* The disk after the first n sectors of chain c were written.             *)
Written(c, n) ==
  [s \in Sector |-> IF s \in c.request.sector..(c.request.sector + n - 1)
                    THEN c.tag ELSE disk[s]]

(* A status byte outside RAM cannot be stored, but that shows only after   *)
(* the request has been performed.                                         *)
Answer(h, status_byte, data, new_disk) ==
  /\ statuses' = IF chains[h].request.answer
                 THEN [statuses EXCEPT ![h] = status_byte] ELSE statuses
  /\ buffers' = [buffers EXCEPT ![h] = data]
  /\ disk' = new_disk

Reject(h) ==
  LET r == chains[h].request
  IN /\ ~Attempted(r)
     /\ Answer(h, IF r.type \in {"IN", "OUT"} THEN "IOERR" ELSE "UNSUPP", <<>>, disk)

mut_Write(h) ==
  LET r == chains[h].request
  IN /\ r.type = "OUT" /\ Attempted(r)
     /\ \E n \in 0..DataCount(r) : Answer(h, "OK", <<>>, Written(chains[h], n))

Write(h) ==
  LET r == chains[h].request
  IN /\ r.type = "OUT" /\ Attempted(r)
     /\ \/ Answer(h, "OK", <<>>, Written(chains[h], DataCount(r)))
        \/ \E n \in 0..(DataCount(r) - 1) :
             Answer(h, "IOERR", <<>>, Written(chains[h], n))

(* Segments before the first one outside RAM receive their sector.         *)
Delivered(r) ==
  LET bad == {i \in 1..DataCount(r) : ~r.segments[i].mapped}
  IN IF bad = {} THEN DataCount(r) ELSE (CHOOSE i \in bad : \A j \in bad : i <= j) - 1

mut_ReadBack(r, n) == [i \in 1..n |-> disk[r.sector]]

ReadBack(r, n) == [i \in 1..n |-> disk[r.sector + i - 1]]

(* If the only segment was refused, the copy to the guest reads past the   *)
(* end of an empty buffer: the build stops there, or the copy then finds   *)
(* the segment not writable.                                               *)
Overread(h) ==
  chains[h].request.type = "IN" /\ Attempted(chains[h].request) /\ Refused(chains[h].request)

Read(h) ==
  LET r == chains[h].request
      whole == ~Refused(r) /\ Delivered(r) = DataCount(r)
  IN /\ r.type = "IN" /\ Attempted(r)
     /\ \/ Answer(h, IF whole THEN "OK" ELSE "IOERR", ReadBack(r, Delivered(r)), disk)
        \/ Answer(h, "IOERR", <<>>, disk)

Perform(h) == Reject(h) \/ Write(h) \/ Read(h)

InRam(ring) == queues[BlockQueue].address[ring] \in RamAddress

Takes(last) == Consumable(queues[BlockQueue].ready /\ InRam("available_ring"), last)

Parses(h) == chains[h].request.chain /\ InRam("descriptor_table")

Answerable(h) == chains[h].request.answer /\ InRam("used_ring")

Undefined ==
  LET h == available_head(synchronize_queue_generation.last)
  IN /\ pop_notification
     /\ Takes(synchronize_queue_generation.last) /\ Parses(h) /\ Overread(h)
     /\ exit' = "undefined"
     /\ UNCHANGED <<status, driver_features, feature_selector, queue_selector, queues,
                    interrupt_status, generation, queueVars,
                    observed_transport_generation, disk, block_level, ramVars>>

UsedLength(h) ==
  IF statuses'[h] = "OK" THEN 1 + Len(buffers'[h]) ELSE 1

NoNotification ==
  /\ notifications = <<>>
  /\ UNCHANGED <<mmioVars, queueVars, hostVars, ramVars>>

(* The indices are synchronised even if nothing can be consumed; a head    *)
(* whose chain does not parse has been consumed.                           *)
QueueError ==
  LET i == synchronize_queue_generation
      taken == Takes(i.last)
  IN /\ pop_notification
     /\ taken => ~Parses(available_head(i.last))
     /\ observed_transport_generation' = generation
     /\ last_available_idx' = IF taken THEN NextIndex(i.last) ELSE i.last
     /\ used_idx' = i.used
     /\ exit' = "RuntimeIo"
     /\ UNCHANGED <<status, driver_features, feature_selector, queue_selector, queues,
                    interrupt_status, generation, avail, used, disk, block_level, ramVars>>

(* The request is performed before its status byte or its used entry turns *)
(* out not to be in RAM.                                                   *)
Unanswerable ==
  LET i == synchronize_queue_generation
      h == available_head(i.last)
  IN /\ pop_notification
     /\ Takes(i.last) /\ Parses(h) /\ ~Answerable(h)
     /\ observed_transport_generation' = generation
     /\ last_available_idx' = NextIndex(i.last) /\ used_idx' = i.used
     /\ Perform(h)
     /\ exit' = "RuntimeIo"
     /\ UNCHANGED <<status, driver_features, feature_selector, queue_selector, queues,
                    interrupt_status, generation, avail, used, block_level, chains>>

Completed ==
  LET i == synchronize_queue_generation
      h == available_head(i.last)
  IN /\ pop_notification
     /\ Takes(i.last) /\ Parses(h) /\ Answerable(h)
     /\ observed_transport_generation' = generation
     /\ last_available_idx' = NextIndex(i.last)
     /\ Perform(h)
     /\ publish_used(i.used, [id |-> h, length |-> UsedLength(h)])
     /\ raise_used_buffer_interrupt
     /\ UNCHANGED <<status, driver_features, feature_selector, queue_selector, queues,
                    generation, avail, exit, block_level, chains>>

process_one ==
  /\ phase = "device" /\ exit = "running"
  /\ phase' = "sync"
  /\ NoNotification \/ QueueError \/ Unanswerable \/ Completed \/ Undefined
  /\ UNCHANGED driverVars

(* EventLoop::synchronize_devices projects the CLINT, the UART and the     *)
(* PLIC; a transport outside this set keeps its level.                     *)
SynchronizedDevices == {"clint", "uart", "plic"}

synchronize_devices ==
  /\ phase = "sync" /\ exit = "running"
  /\ phase' = "hart"
  /\ block_level' = IF "block_transport" \in SynchronizedDevices
                    THEN interrupt_status ELSE block_level
  /\ UNCHANGED <<mmioVars, queueVars, exit, observed_transport_generation, disk,
                 ramVars, driverVars>>

-----------------------------------------------------------------------------
(* The driver: one instruction per loop iteration.                         *)

Instruction == phase = "hart" /\ exit = "running" /\ phase' = "device" /\ UNCHANGED hostVars

Quiet == UNCHANGED <<queueVars, ramVars, busy, unkicked, seen, submitted, completed,
                     total, shadow>>

At(point, next) == driver = point /\ driver' = next

Base == {"ACKNOWLEDGE", "DRIVER"}

PlaceRing(ring) ==
  \E a \in IF Careless THEN AlignedAddress ELSE RamAddress : write_queue_address(ring, a)

Handshake ==
  /\ Instruction /\ Quiet
  /\ \/ At("acknowledge", "driver") /\ write_status_locked({"ACKNOWLEDGE"})
     \/ At("driver", "page") /\ write_status_locked(Base)
     \/ At("page", "features") /\ write_driver_features_sel(1)
     \/ At("features", "features_ok") /\ write_driver_features({"VERSION_1"})
     \/ At("features_ok", "size") /\ write_status_locked(Base \cup {"FEATURES_OK"})
     \/ At("size", "descriptor_table") /\ write_queue_num(RingSize)
     \/ At("descriptor_table", "available_ring") /\ PlaceRing("descriptor_table")
     \/ At("available_ring", "used_ring") /\ PlaceRing("available_ring")
     \/ At("used_ring", "ready") /\ PlaceRing("used_ring")
     \/ At("ready", "driver_ok") /\ write_queue_ready(TRUE)
     \/ At("driver_ok", "run") /\ write_status_locked(Base \cup {"FEATURES_OK", "DRIVER_OK"})

Working == Careless \/ "FAILED" \notin status

(* Put request r in a free chain and its head in the available ring.       *)
Submit ==
  /\ Instruction /\ driver \in {"run", "batch"} /\ driver' = "publish"
  /\ Working /\ total < MaxRequest
  /\ \E r \in Request, h \in Slot \ busy :
       /\ h = CHOOSE x \in Slot \ busy : \A y \in Slot \ busy : x <= y
       /\ chains' = [chains EXCEPT ![h] = [request |-> r, tag |-> total + 1]]
       /\ statuses' = [statuses EXCEPT ![h] = "NONE"]
       /\ buffers' = [buffers EXCEPT ![h] = <<>>]
       /\ avail' = [avail EXCEPT !.ring[virtqueue_ring_slot(avail.idx)] = h]
       /\ busy' = busy \cup {h}
  /\ total' = total + 1
  /\ UNCHANGED <<mmioVars, last_available_idx, used_idx, used, unkicked, seen,
                 submitted, completed, shadow>>

(* Advance the available index, then submit another request of the batch   *)
(* or notify.                                                              *)
Publish ==
  /\ Instruction /\ driver = "publish"
  /\ avail' = [avail EXCEPT !.idx = NextIndex(avail.idx)]
  /\ submitted' = Append(submitted, avail.ring[virtqueue_ring_slot(avail.idx)])
  /\ unkicked' = unkicked + 1
  /\ driver' \in IF unkicked' < Batch /\ total < MaxRequest /\ busy # Slot
                THEN {"batch", "kick"} ELSE {"kick"}
  /\ UNCHANGED <<mmioVars, last_available_idx, used_idx, used, ramVars, busy, seen,
                 completed, total, shadow>>

Kick ==
  /\ Instruction /\ At("kick", "run")
  /\ write_queue_notify(BlockQueue)
  /\ unkicked' = 0
  /\ UNCHANGED <<queueVars, ramVars, busy, seen, submitted, completed, total, shadow>>

(* A write whose only data segment is refused: process_one takes it for a  *)
(* write of no data and answers OK.                                        *)
Hollow(r) == r.type = "OUT" /\ Len(r.segments) = 1 /\ Refused(r)

(* What the driver may expect on the disk once it knows the status of a    *)
(* write; without it (or after an error) old and new data are possible.    *)
Expected(h, known) ==
  LET r == chains[h].request
  IN [s \in Sector |->
       IF r.type = "OUT" /\ ~Hollow(r) /\ s \in r.sector..(r.sector + Len(r.segments) - 1)
       THEN IF known /\ statuses[h] = "OK" THEN {chains[h].tag}
            ELSE shadow[s] \cup {chains[h].tag}
       ELSE shadow[s]]

Collect ==
  /\ Instruction /\ At("run", "run")
  /\ seen # used.idx
  /\ LET h == used.ring[virtqueue_ring_slot(seen)].id
     IN /\ completed' = Append(completed, h) /\ busy' = busy \ {h}
        /\ shadow' = Expected(h, TRUE)
  /\ seen' = NextIndex(seen)
  /\ UNCHANGED <<mmioVars, queueVars, ramVars, unkicked, submitted, total>>

AckInterrupt ==
  /\ Instruction /\ At("run", "run") /\ interrupt_status
  /\ write_interrupt_ack /\ Quiet

(* Reset with at most one request in flight per chain; the driver forgets  *)
(* them and clears the rings.                                              *)
ResetDevice ==
  /\ Instruction /\ driver = "run" /\ driver' = "acknowledge"
  /\ generation < MaxReset
  /\ write_status_locked({})
  /\ shadow' = [s \in Sector |-> UNION ({shadow[s]} \cup {Expected(h, FALSE)[s] : h \in busy})]
  /\ avail' = [avail EXCEPT !.idx = 0] /\ used' = [used EXCEPT !.idx = 0]
  /\ busy' = {} /\ unkicked' = 0 /\ seen' = 0
  /\ submitted' = <<>> /\ completed' = <<>>
  /\ UNCHANGED <<last_available_idx, used_idx, ramVars, total>>

Fail ==
  /\ Instruction /\ At("run", "run") /\ "FAILED" \notin status
  /\ write_status_locked(status \cup {"FAILED"}) /\ Quiet

SpuriousKick ==
  /\ Instruction /\ At("run", "run") /\ Careless
  /\ write_queue_notify(BlockQueue) /\ Quiet

(* An instruction that has nothing to do with the device.                  *)
Other ==
  /\ Instruction /\ At("run", "run")
  /\ UNCHANGED mmioVars /\ Quiet

Next ==
  \/ process_one \/ synchronize_devices
  \/ Handshake \/ Submit \/ Publish \/ Kick \/ Collect \/ AckInterrupt
  \/ ResetDevice \/ Fail \/ SpuriousKick \/ Other

(* run_machine calls process_one and run_once in a loop, so a step is      *)
(* always taken; nothing is assumed about which instruction comes next.    *)
BlockSpec == Init /\ [][Next]_vars /\ WF_vars(Next)

-----------------------------------------------------------------------------
(* Every request the driver collects is the oldest one it submitted since  *)
(* the last reset and has not collected: consume_available and             *)
(* publish_used neither skip, repeat nor reorder chains, their indices     *)
(* wrap, and none survives a reset into the next generation.               *)
CompletedInOrder ==
  /\ Len(completed) <= Len(submitted)
  /\ completed = SubSeq(submitted, 1, Len(completed))

(* A driver that notifies once per request never makes run_machine end     *)
(* with a queue error: each notification finds exactly its own request     *)
(* in the ring, also across resets.                                        *)
NeverStopped == exit = "running"

(* The deque of notifications is unbounded in the code; because the loop   *)
(* takes one before every instruction, it never holds more than one, and   *)
(* none when the hart executes.                                            *)
NotificationTaken == Len(notifications) <= (IF phase = "device" THEN 1 ELSE 0)

(* The rings stay sound: requests complete once and in order, each         *)
(* notification finds its own request and none is left behind, while the   *)
(* indices wrap and the driver resets the device with requests in flight.  *)
RingSound == BlockTypeOK /\ CompletedInOrder /\ NeverStopped /\ NotificationTaken

(* When a used entry becomes visible, status OK of a write means that all  *)
(* its sectors hold the request's data, and no other sector changed; the   *)
(* exception is a Hollow write, which changes nothing and is answered OK.  *)
StatusStep ==
  used'.idx # used.idx /\ phase = "device" =>
    LET h == used'.ring[virtqueue_ring_slot(used_idx' + IndexSpace - 1)].id
        r == chains[h].request
        range == r.sector..(r.sector + Len(r.segments) - 1)
    IN /\ \A s \in Sector : disk'[s] # disk[s] => r.type = "OUT" /\ s \in range
       /\ Hollow(r) => disk' = disk
       /\ r.type = "OUT" /\ ~Hollow(r) /\ statuses'[h] = "OK" =>
            range \subseteq Sector /\ \A s \in range : disk'[s] = chains[h].tag

(* A read the driver collects with status OK returns one sector per        *)
(* segment, and each is what the writes collected before it left there:    *)
(* requests take effect in submission order, a failed write may or may     *)
(* not have happened, one cut off by a reset likewise.                     *)
ReadStep ==
  Len(completed') > Len(completed) =>
    LET h == completed'[Len(completed')]
        r == chains[h].request
    IN r.type = "IN" /\ statuses[h] = "OK" =>
         /\ Len(buffers[h]) = Len(r.segments)
         /\ \A i \in DOMAIN buffers[h] : buffers[h][i] \in shadow[r.sector + i - 1]

(* Every collected read satisfies ReadStep.                                *)
ReadSeesWrites == [][ReadStep]_vars

(* A notification that ends in an error announces nothing: the used ring   *)
(* and the interrupt status stay as they are, and the disk has changed at  *)
(* most by a write whose chain and directions were found valid.            *)
ErrorStep ==
  exit' # exit =>
    LET h == available_head(synchronize_queue_generation.last)
        r == chains[h].request
    IN /\ UNCHANGED <<used, interrupt_status>>
       /\ disk' # disk => Parses(h) /\ r.type = "OUT" /\ ~Refused(r)

(* Every outcome is reported as it is: OK only for what was done, and      *)
(* nothing at all for a request that ended in an error of the queue.       *)
RequestsHonest == [][StatusStep /\ ErrorStep]_vars

(* A published request is answered, unless the driver resets the device    *)
(* first: a request is never left waiting in the ring.                     *)
Answered(n) == Len(submitted) >= n /\ virtqueue_index_delta(avail.idx, last_available_idx) = 0
RequestAnswered ==
  \A n \in 1..MaxRequest :
    (Len(submitted) >= n) ~> (Answered(n) \/ Len(submitted) < n)

(* A used-buffer interrupt reaches the interrupt controller, unless the    *)
(* driver acknowledges it or resets the device first.                      *)
InterruptDelivered == interrupt_status ~> (block_level \/ ~interrupt_status)

=============================================================================
