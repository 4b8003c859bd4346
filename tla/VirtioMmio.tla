----------------------------- MODULE VirtioMmio -----------------------------
(***************************************************************************)
(* The VirtIO MMIO transport of src/devices/virtio_mmio.cpp: device        *)
(* status, feature negotiation, queue set-up, notifications and the        *)
(* used-buffer interrupt.                                                  *)
(*                                                                         *)
(* A status value is the set of its bits, a feature word a set of          *)
(* features; the two pages of the 64-bit feature word are Page(0) and      *)
(* Page(1).  A ring address is a model value and a write to its low or     *)
(* high half stores any address.  The device feature selector and the      *)
(* configuration generation only affect what reads return and are left     *)
(* out.  Definitions named mut_... are faulty variants for sensitivity     *)
(* analysis; no specification uses them.                                   *)
(***************************************************************************)
EXTENDS Naturals, Sequences

CONSTANTS
  Feature,          \* feature bits a driver may write
  OfferedFeature,   \* offered_features_, VERSION_1 included
  QueueCount,       \* config.queue_count
  QueueSizeMax,     \* config.queue_size_max
  Size,             \* values written to QueueNum
  Address,          \* ring addresses
  AlignedAddress,   \* the ones aligned() accepts
  NoAddress,        \* address 0
  MaxNotification,  \* bound on queued notifications
  MaxReset          \* bound on resets

ASSUME MmioAssumption ==
  /\ "VERSION_1" \in OfferedFeature /\ OfferedFeature \subseteq Feature
  /\ QueueCount \in Nat \ {0} /\ QueueSizeMax \in Nat \ {0}
  /\ Size \subseteq Nat /\ 0 \in Size
  /\ AlignedAddress \subseteq Address /\ NoAddress \in Address \ AlignedAddress
  /\ MaxNotification \in Nat /\ MaxReset \in Nat

VARIABLES
  status,              \* status bits
  driver_features,     \* features the driver wrote
  feature_selector,    \* driver_features_selector_
  queue_selector,
  queues,              \* queues[q]: size, ring addresses, ready
  notifications,       \* queue indices waiting for the device
  interrupt_status,    \* the used-buffer bit
  generation           \* number of resets

mmioVars == <<status, driver_features, feature_selector, queue_selector,
              queues, notifications, interrupt_status, generation>>

StatusBit == {"ACKNOWLEDGE", "DRIVER", "FEATURES_OK", "DRIVER_OK",
              "DEVICE_NEEDS_RESET", "FAILED"}
Queue == 0..(QueueCount - 1)
Ring == {"descriptor_table", "available_ring", "used_ring"}
QueueState == [size : Size, address : [Ring -> Address], ready : BOOLEAN]
FreshQueue == [size |-> 0, address |-> [r \in Ring |-> NoAddress], ready |-> FALSE]
Page(n) == IF n = 0 THEN Feature \ {"VERSION_1"}
           ELSE IF n = 1 THEN {"VERSION_1"} ELSE {}

MmioTypeOK ==
  /\ status \subseteq StatusBit
  /\ driver_features \subseteq Feature /\ feature_selector \in Nat
  /\ queue_selector \in Nat
  /\ queues \in [Queue -> QueueState]
  /\ notifications \in Seq(Queue)
  /\ interrupt_status \in BOOLEAN /\ generation \in Nat

MmioInit ==
  /\ status = {} /\ driver_features = {} /\ feature_selector = 0
  /\ queue_selector = 0 /\ queues = [q \in Queue |-> FreshQueue]
  /\ notifications = <<>> /\ interrupt_status = FALSE /\ generation = 0

-----------------------------------------------------------------------------
(* Register writes.                                                        *)

reset_locked ==
  /\ status' = {} /\ driver_features' = {} /\ feature_selector' = 0
  /\ queue_selector' = 0 /\ interrupt_status' = FALSE
  /\ notifications' = <<>> /\ generation' = generation + 1
  /\ queues' = [q \in Queue |-> FreshQueue]

BaseReady(requested) == {"ACKNOWLEDGE", "DRIVER"} \subseteq requested

FeaturesAccepted(requested) ==
  /\ BaseReady(requested)
  /\ driver_features \subseteq OfferedFeature
  /\ "VERSION_1" \in driver_features

(* The bits a driver gets when it asks for requested without FAILED.       *)
Granted(requested) ==
  LET featured == IF FeaturesAccepted(requested) THEN requested
                  ELSE requested \ {"FEATURES_OK"}
  IN IF "FEATURES_OK" \in featured THEN featured ELSE featured \ {"DRIVER_OK"}

(* Only the value 0 resets: unknown bits alone leave an empty status.      *)
write_status_locked(value) ==
  LET requested == value \cap StatusBit
  IN IF value = {} THEN reset_locked
     ELSE /\ status' = IF "FAILED" \in requested THEN requested ELSE Granted(requested)
          /\ UNCHANGED <<driver_features, feature_selector, queue_selector, queues,
                         notifications, interrupt_status, generation>>

write_driver_features_sel(n) ==
  /\ feature_selector' = n
  /\ UNCHANGED <<status, driver_features, queue_selector, queues, notifications,
                 interrupt_status, generation>>

write_driver_features(word) ==
  /\ driver_features' = (driver_features \ Page(feature_selector))
                          \cup (word \cap Page(feature_selector))
  /\ UNCHANGED <<status, feature_selector, queue_selector, queues, notifications,
                 interrupt_status, generation>>

write_queue_sel(q) ==
  /\ queue_selector' = q
  /\ UNCHANGED <<status, driver_features, feature_selector, queues, notifications,
                 interrupt_status, generation>>

PowerOfTwo(n) == \E k \in 0..15 : n = 2 ^ k

selected_queue_valid_locked ==
  LET queue == queues[queue_selector]
  IN /\ queue.size <= QueueSizeMax /\ PowerOfTwo(queue.size)
     /\ \A r \in Ring : queue.address[r] \in AlignedAddress

(* What a write to a queue register does to the selected queue.            *)
WriteQueue(queue) ==
  /\ queues' = IF queue_selector \in Queue
               THEN [queues EXCEPT ![queue_selector] = queue] ELSE queues
  /\ UNCHANGED <<status, driver_features, feature_selector, queue_selector,
                 notifications, interrupt_status, generation>>

Configurable == queue_selector \in Queue /\ ~queues[queue_selector].ready

mut_write_queue_num(size) ==
  IF queue_selector \in Queue
  THEN WriteQueue([queues[queue_selector] EXCEPT !.size = size])
  ELSE UNCHANGED mmioVars

write_queue_num(size) ==
  IF Configurable THEN WriteQueue([queues[queue_selector] EXCEPT !.size = size])
  ELSE UNCHANGED mmioVars

mut_write_queue_address(ring, address) ==
  IF queue_selector \in Queue
  THEN WriteQueue([queues[queue_selector] EXCEPT !.address[ring] = address])
  ELSE UNCHANGED mmioVars

write_queue_address(ring, address) ==
  IF Configurable THEN WriteQueue([queues[queue_selector] EXCEPT !.address[ring] = address])
  ELSE UNCHANGED mmioVars

write_queue_ready(on) ==
  IF queue_selector \in Queue
  THEN WriteQueue([queues[queue_selector] EXCEPT !.ready = (on /\ selected_queue_valid_locked)])
  ELSE UNCHANGED mmioVars

mut_NotifyAccepted(q) ==
  "DRIVER_OK" \in status /\ q \in Queue /\ queues[q].ready /\ ~interrupt_status

NotifyAccepted(q) == "DRIVER_OK" \in status /\ q \in Queue /\ queues[q].ready

write_queue_notify(q) ==
  /\ notifications' = IF NotifyAccepted(q) THEN Append(notifications, q) ELSE notifications
  /\ UNCHANGED <<status, driver_features, feature_selector, queue_selector, queues,
                 interrupt_status, generation>>

write_interrupt_ack ==
  /\ interrupt_status' = FALSE
  /\ UNCHANGED <<status, driver_features, feature_selector, queue_selector, queues,
                 notifications, generation>>

-----------------------------------------------------------------------------
(* The device side: process_one of the block device makes both calls in    *)
(* one step, so they only say what becomes of their own variable.          *)

pop_notification == notifications # <<>> /\ notifications' = Tail(notifications)

raise_used_buffer_interrupt == interrupt_status' = TRUE

(* Unknown status bits are masked off: they matter only when alone.        *)
RegisterWrite ==
  \/ \E value \in (SUBSET StatusBit) \cup {{"RESERVED"}} :
       (value = {} => generation < MaxReset) /\ write_status_locked(value)
  \/ \E n \in 0..2 : write_driver_features_sel(n)
  \/ \E word \in SUBSET Feature : write_driver_features(word)
  \/ \E q \in 0..QueueCount : write_queue_sel(q)
  \/ \E size \in Size : write_queue_num(size)
  \/ \E ring \in Ring, address \in Address : write_queue_address(ring, address)
  \/ \E on \in BOOLEAN : write_queue_ready(on)
  \/ \E q \in 0..QueueCount :
       Len(notifications) < MaxNotification /\ write_queue_notify(q)
  \/ write_interrupt_ack

DeviceStep ==
  /\ pop_notification
  /\ raise_used_buffer_interrupt \/ UNCHANGED interrupt_status
  /\ UNCHANGED <<status, driver_features, feature_selector, queue_selector, queues,
                 generation>>

(* Any driver, however it orders its register writes.                      *)
MmioNext == RegisterWrite \/ DeviceStep

MmioSpec == MmioInit /\ [][MmioNext]_mmioVars

-----------------------------------------------------------------------------
(* A ready queue has a power-of-two size within the device's maximum and   *)
(* three aligned rings, whatever order the driver writes selector, size,   *)
(* addresses, ready and status in: the device indexes rings with that size *)
(* (virtqueue.cpp) and checks it only when ready is written.               *)
ReadyValid ==
  \A q \in Queue : queues[q].ready =>
    /\ queues[q].size <= QueueSizeMax /\ PowerOfTwo(queues[q].size)
    /\ \A r \in Ring : queues[q].address[r] \in AlignedAddress

(* DRIVER_OK is never set without FEATURES_OK, nor FEATURES_OK without     *)
(* ACKNOWLEDGE and DRIVER, unless the driver has reported FAILED.          *)
HandshakeOrder ==
  "FAILED" \notin status =>
    /\ "DRIVER_OK" \in status => "FEATURES_OK" \in status
    /\ "FEATURES_OK" \in status => {"ACKNOWLEDGE", "DRIVER"} \subseteq status

(* Whatever the driver writes, in whatever order, the device finds valid   *)
(* rings behind every ready queue and a handshake without gaps.            *)
QueuesValid == ReadyValid /\ HandshakeOrder

(* While a queue stays ready no register write moves its rings or changes  *)
(* its size: the device reads the layout anew for every request.           *)
LayoutFrozen ==
  [][\A q \in Queue : queues[q].ready /\ queues'[q].ready => queues'[q] = queues[q]]_mmioVars

=============================================================================
