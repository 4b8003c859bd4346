----------------------------- MODULE Virtqueue ------------------------------
(***************************************************************************)
(* The device side of a split virtqueue (src/devices/virtqueue.cpp): the   *)
(* device's indices and the available and used rings it shares with the    *)
(* driver in guest RAM.  Ring indices are counters modulo IndexSpace (2^16 *)
(* in the code); a ring slot is the index modulo the queue size.           *)
(* Definitions named mut_... are faulty variants for sensitivity analysis; *)
(* no specification uses them.                                             *)
(***************************************************************************)
EXTENDS Naturals, Sequences

CONSTANTS IndexSpace, RingSize

ASSUME VirtqueueAssumption ==
  /\ RingSize \in Nat \ {0} /\ IndexSpace \in Nat
  /\ RingSize < IndexSpace /\ IndexSpace % RingSize = 0

VARIABLES
  last_available_idx,  \* next available entry the device takes
  used_idx,            \* next used entry the device writes
  avail,               \* guest RAM: the available ring
  used                 \* guest RAM: the used ring

queueVars == <<last_available_idx, used_idx, avail, used>>

Index == 0..(IndexSpace - 1)
Slot == 0..(RingSize - 1)

VirtqueueTypeOK(UsedElement) ==
  /\ last_available_idx \in Index /\ used_idx \in Index
  /\ avail \in [idx : Index, ring : [Slot -> Slot]]
  /\ used \in [idx : Index, ring : [Slot -> UsedElement]]

virtqueue_index_delta(newer, older) == (newer + IndexSpace - older) % IndexSpace
virtqueue_ring_slot(index) == index % RingSize
NextIndex(index) == (index + 1) % IndexSpace

(* The indices after VirtqueueRuntimeState::reset.                         *)
reset == [last |-> 0, used |-> 0]

Pending(last) == virtqueue_index_delta(avail.idx, last)

(* consume_available takes an entry only if ready, and only if the driver  *)
(* is between one and RingSize entries ahead of last.                      *)
Consumable(ready, last) == ready /\ Pending(last) \in 1..RingSize

available_head(last) == avail.ring[virtqueue_ring_slot(last)]

(* publish_used with the device's index at `index`: the element first,     *)
(* then the index that makes it visible.                                   *)
mut_publish_used(index, element) ==
  /\ used' = [idx |-> NextIndex(index),
              ring |-> [used.ring EXCEPT ![virtqueue_ring_slot(NextIndex(index))] = element]]
  /\ used_idx' = NextIndex(index)

publish_used(index, element) ==
  /\ used' = [idx |-> NextIndex(index),
              ring |-> [used.ring EXCEPT ![virtqueue_ring_slot(index)] = element]]
  /\ used_idx' = NextIndex(index)

=============================================================================
