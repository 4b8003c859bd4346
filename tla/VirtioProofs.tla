---------------------------- MODULE VirtioProofs ----------------------------
(***************************************************************************)
(* The block device and its transport, for any features, queues, sizes,    *)
(* addresses, requests and image, any ring size that divides the index     *)
(* space, any order of register writes, and any failures of the host.      *)
(*                                                                         *)
(* The transport: ReadyValid is inductive together with the type of the    *)
(* state, because every write to a queue register is either refused (the   *)
(* queue is ready) or leaves it not ready, and ready itself is granted     *)
(* only to a valid queue.                                                  *)
(*                                                                         *)
(* The rings: requests are numbered from the last reset.  RingInv says     *)
(* that some number `done' of them has been answered, that every index is  *)
(* its counter modulo the index space, and that the entries of the rings   *)
(* between two counters are the requests between them.  At most RingSize   *)
(* requests are in flight, with different heads, so that no two of them    *)
(* share a slot.                                                           *)
(***************************************************************************)
EXTENDS VirtioBlock, WellFoundedInduction, FiniteSetTheorems, SequenceTheorems, TLAPS

(* Time limits for the provers.                                            *)
USE SMTT(60), ZenonT(60)

-----------------------------------------------------------------------------
(* Natural numbers, and the remainders of counters that wrap.              *)

(* The order of the natural numbers, as a relation.                        *)
Less == {p \in Nat \X Nat : p[1] < p[2]}

(* A non-empty set of natural numbers has a least member.                  *)
LEMMA LeastMember ==
  ASSUME NEW S, S \subseteq Nat, S # {}
  PROVE \E m \in S : \A n \in S : m <= n
<1>1. IsWellFoundedOn(Less, Nat)
  BY NatLessThanWellFounded DEF OpToRel, Less
<1>2. PICK m \in S : \A n \in S : <<n, m>> \notin Less
  BY <1>1, WFMin, ZenonT(60)
<1>3. \A n \in S : ~(n < m)
  BY <1>2, ZenonT(60) DEF Less
<1> QED BY <1>3

(* Division with remainder.                                                *)
LEMMA Euclid ==
  ASSUME NEW n \in Nat \ {0}, NEW a \in Nat
  PROVE a % n \in 0..(n - 1) /\ a \div n \in Nat /\ a = n * (a \div n) + (a % n)
OBVIOUS

(* A remainder is unique.                                                  *)
LEMMA SameRemainder ==
  ASSUME NEW n \in Nat \ {0}, NEW q \in Int, NEW p \in Int,
         NEW r \in 0..(n - 1), NEW s \in 0..(n - 1), n * q + r = n * p + s
  PROVE r = s
<1>1. n * (q - p) = s - r
  OBVIOUS
<1>2. CASE q = p
  BY <1>2
<1>3. CASE q - p >= 1
  <2>1. n * (q - p) >= n
    BY <1>3
  <2> QED BY <1>1, <2>1
<1>4. CASE p - q >= 1
  <2>1. n * (p - q) >= n
    BY <1>4
  <2>2. n * (p - q) = r - s
    OBVIOUS
  <2> QED BY <2>1, <2>2
<1> QED BY <1>2, <1>3, <1>4

(* The remainder of a number written as a multiple plus a small number.    *)
LEMMA RemainderIs ==
  ASSUME NEW n \in Nat \ {0}, NEW a \in Nat, NEW q \in Int, NEW r \in 0..(n - 1), a = n * q + r
  PROVE a % n = r
<1> DEFINE s == a % n
           p == a \div n
<1>1. s \in 0..(n - 1) /\ p \in Nat /\ a = n * p + s
  BY Euclid, ZenonT(60)
<1> HIDE DEF s, p
<1>2. p \in Int /\ n * q + r = n * p + s
  BY <1>1
<1>3. r = s
  BY <1>1, <1>2, SameRemainder, ZenonT(60)
<1> QED BY <1>3 DEF s

(* Two numbers less than n apart have different remainders.                *)
LEMMA Apart ==
  ASSUME NEW n \in Nat \ {0}, NEW a \in Nat, NEW b \in Nat, a < b, b - a < n
  PROVE a % n # b % n
<1> DEFINE r == a % n
           q == a \div n
           s == b % n
           p == b \div n
<1>1. /\ r \in 0..(n - 1) /\ q \in Nat /\ a = n * q + r
      /\ s \in 0..(n - 1) /\ p \in Nat /\ b = n * p + s
  BY Euclid, ZenonT(60)
<1> HIDE DEF r, q, s, p
<1>2. ASSUME r = s PROVE FALSE
  <2>1. n * (p - q) = b - a
    BY <1>1, <1>2
  <2>2. CASE p - q >= 1
    <3>1. n * (p - q) >= n
      BY <1>1, <2>2
    <3> QED BY <2>1, <3>1
  <2>3. CASE p - q <= 0
    <3>1. n * (p - q) <= 0
      BY <1>1, <2>3
    <3> QED BY <2>1, <3>1
  <2> QED BY <1>1, <2>2, <2>3
<1> QED BY <1>2 DEF r, s

(* Counting on from a remainder.                                           *)
LEMMA NextRemainder ==
  ASSUME NEW n \in Nat \ {0}, NEW a \in Nat
  PROVE ((a % n) + 1) % n = (a + 1) % n
<1> DEFINE r == a % n
           q == a \div n
<1>1. r \in 0..(n - 1) /\ q \in Nat /\ a = n * q + r
  BY Euclid, ZenonT(60)
<1> HIDE DEF r, q
<1>2. CASE r + 1 < n
  <2>1. (a + 1) % n = r + 1
    <3>1. a + 1 = n * q + (r + 1)
      BY <1>1
    <3> QED BY <1>1, <1>2, <3>1, RemainderIs
  <2>2. (r + 1) % n = r + 1
    <3>1. r + 1 = n * 0 + (r + 1)
      BY <1>1
    <3> QED BY <1>1, <1>2, <3>1, RemainderIs
  <2> QED BY <2>1, <2>2 DEF r
<1>3. CASE r + 1 = n
  <2>1. (a + 1) % n = 0
    <3>1. a + 1 = n * (q + 1) + 0
      BY <1>1, <1>3
    <3> QED BY <1>1, <3>1, RemainderIs
  <2>2. (r + 1) % n = 0
    <3>1. r + 1 = n * 1 + 0
      BY <1>1, <1>3
    <3> QED BY <1>1, <3>1, RemainderIs
  <2> QED BY <2>1, <2>2 DEF r
<1> QED BY <1>1, <1>2, <1>3

(* Reducing first by a multiple of n changes nothing.                      *)
LEMMA CoarseRemainder ==
  ASSUME NEW n \in Nat \ {0}, NEW m \in Nat \ {0}, m % n = 0, NEW a \in Nat
  PROVE (a % m) % n = a % n
<1> DEFINE r == a % m
           q == a \div m
           s == r % n
           p == r \div n
           k == m \div n
<1>1. r \in 0..(m - 1) /\ q \in Nat /\ a = m * q + r
  BY Euclid, ZenonT(60)
<1>2. s \in 0..(n - 1) /\ p \in Nat /\ r = n * p + s
  <2>1. r \in Nat
    BY <1>1
  <2> HIDE DEF r
  <2> QED BY <2>1, Euclid, ZenonT(60)
<1>3. k \in Nat /\ m = n * k
  <2>1. k \in Nat /\ m = n * k + (m % n)
    BY Euclid, ZenonT(60)
  <2>2. n * k \in Nat
    BY <2>1
  <2> HIDE DEF k
  <2> QED BY <2>1, <2>2
<1> HIDE DEF r, q, s, p, k
<1>4. m * q = n * (k * q)
  BY <1>1, <1>3
<1>5. n * (k * q) + n * p = n * (k * q + p) /\ k * q + p \in Int
  BY <1>1, <1>2, <1>3
<1>6. a = n * (k * q + p) + s
  BY <1>1, <1>2, <1>4, <1>5
<1> DEFINE t == k * q + p
<1>7. t \in Int /\ a = n * t + s
  BY <1>5, <1>6
<1> HIDE DEF t
<1>8. a % n = s
  BY <1>2, <1>7, RemainderIs, ZenonT(60)
<1> QED BY <1>8 DEF s, r

(* The distance of two counters less than n apart, from their remainders.  *)
LEMMA RemainderDistance ==
  ASSUME NEW n \in Nat \ {0}, NEW a \in Nat, NEW b \in Nat, a <= b, b - a < n
  PROVE ((b % n) + n - (a % n)) % n = b - a
<1> DEFINE r == a % n
           q == a \div n
           s == b % n
           p == b \div n
           d == s + n - r
<1>1. /\ r \in 0..(n - 1) /\ q \in Nat /\ a = n * q + r
      /\ s \in 0..(n - 1) /\ p \in Nat /\ b = n * p + s
  BY Euclid, ZenonT(60)
<1> HIDE DEF r, q, s, p
<1>2. d \in Nat /\ 1 - (p - q) \in Int
  BY <1>1
<1>3. d = n * (1 - (p - q)) + (b - a)
  <2>1. n * (1 - (p - q)) = n - (n * p - n * q)
    BY <1>1
  <2> QED BY <1>1, <2>1
<1> DEFINE t == 1 - (p - q)
           e == b - a
<1>4. d \in Nat /\ t \in Int /\ e \in 0..(n - 1) /\ d = n * t + e
  BY <1>2, <1>3
<1> HIDE DEF d, t, e
<1>5. d % n = e
  BY <1>4, RemainderIs
<1> QED BY <1>5 DEF d, e, s, r

-----------------------------------------------------------------------------
(* The transport.                                                          *)

MmioInv == MmioTypeOK /\ ReadyValid /\ HandshakeOrder

Sizeable(queue) ==
  /\ queue.size <= QueueSizeMax /\ PowerOfTwo(queue.size)
  /\ \A r \in Ring : queue.address[r] \in AlignedAddress

(* The queues after a step: each one as before, not ready, or valid and    *)
(* not reconfigured.                                                       *)
QueueStep ==
  \A q \in Queue :
    \/ queues'[q] = queues[q]
    \/ ~queues'[q].ready
    \/ Sizeable(queues'[q]) /\ ~queues[q].ready

(* A queue after construction or reset is not ready.                       *)
LEMMA FreshTyped == FreshQueue \in QueueState /\ ~FreshQueue.ready
<1>1. [r \in Ring |-> NoAddress] \in [Ring -> Address]
  BY MmioAssumption
<1> QED
  BY <1>1, MmioAssumption DEF FreshQueue, QueueState

(* The initial state of the transport satisfies the invariant.             *)
LEMMA InitMmioInv == MmioInit => MmioInv
<1> SUFFICES ASSUME MmioInit PROVE MmioInv
  OBVIOUS
<1>1. queues \in [Queue -> QueueState] /\ \A q \in Queue : ~queues[q].ready
  BY FreshTyped DEF MmioInit
<1>2. notifications \in Seq(Queue)
  BY DEF MmioInit
<1>3. MmioTypeOK
  BY <1>1, <1>2, ZenonT(60) DEF MmioInit, MmioTypeOK
<1> QED
  BY <1>1, <1>3 DEF MmioInit, MmioInv, ReadyValid, HandshakeOrder

(* A status value the device grants keeps the order of the handshake.      *)
LEMMA GrantedOrder ==
  ASSUME NEW requested \in SUBSET StatusBit
  PROVE /\ Granted(requested) \subseteq StatusBit
        /\ "DRIVER_OK" \in Granted(requested) => "FEATURES_OK" \in Granted(requested)
        /\ "FEATURES_OK" \in Granted(requested) =>
             {"ACKNOWLEDGE", "DRIVER"} \subseteq Granted(requested)
BY DEF Granted, FeaturesAccepted, BaseReady, StatusBit

(* Writing the size, an address or ready of the selected queue.            *)
LEMMA QueueWrite ==
  ASSUME MmioInv, NEW queue \in QueueState, WriteQueue(queue),
         queue_selector \in Queue =>
           \/ queue = queues[queue_selector]
           \/ ~queue.ready
           \/ Sizeable(queue) /\ ~queues[queue_selector].ready
  PROVE MmioTypeOK' /\ QueueStep /\ UNCHANGED status
BY DEF MmioInv, MmioTypeOK, WriteQueue, QueueStep, Queue

(* A write to QueueReady grants ready only to a valid queue; for a queue   *)
(* that is ready already it changes nothing or clears ready.               *)
LEMMA ReadyWrite ==
  ASSUME MmioInv, NEW on \in BOOLEAN, write_queue_ready(on)
  PROVE MmioTypeOK' /\ QueueStep /\ UNCHANGED status
<1>1. CASE queue_selector \in Queue
  <2> DEFINE queue == [queues[queue_selector] EXCEPT
                         !.ready = (on /\ selected_queue_valid_locked)]
  <2>1. queues[queue_selector] \in QueueState
    BY <1>1 DEF MmioInv, MmioTypeOK
  <2>2. selected_queue_valid_locked \in BOOLEAN
    BY DEF selected_queue_valid_locked
  <2>3. queue \in QueueState
    BY <2>1, <2>2 DEF QueueState
  <2>4. WriteQueue(queue)
    BY <1>1 DEF write_queue_ready
  <2>5. queue.ready => Sizeable(queue)
    BY <2>1, ZenonT(60) DEF selected_queue_valid_locked, Sizeable, QueueState
  <2>6. queues[queue_selector].ready /\ queue.ready => queue = queues[queue_selector]
    BY <2>1, <2>3 DEF QueueState
  <2> QED
    BY <2>3, <2>4, <2>5, <2>6, QueueWrite, ZenonT(60)
<1>2. CASE queue_selector \notin Queue
  BY <1>2 DEF write_queue_ready, mmioVars, MmioInv, MmioTypeOK, QueueStep
<1> QED
  BY <1>1, <1>2

(* Writes to QueueNum and to the ring addresses only reach a queue that is *)
(* not ready.                                                              *)
LEMMA ConfigurationWrite ==
  ASSUME MmioInv,
         \/ \E size \in Size : write_queue_num(size)
         \/ \E ring \in Ring, address \in Address : write_queue_address(ring, address)
  PROVE MmioTypeOK' /\ QueueStep /\ UNCHANGED status
<1>1. CASE Configurable
  <2>1. queues[queue_selector] \in QueueState /\ ~queues[queue_selector].ready
    BY <1>1 DEF Configurable, MmioInv, MmioTypeOK
  <2>2. ASSUME NEW size \in Size, write_queue_num(size)
        PROVE MmioTypeOK' /\ QueueStep /\ UNCHANGED status
    <3> DEFINE queue == [queues[queue_selector] EXCEPT !.size = size]
    <3>1. queue \in QueueState /\ ~queue.ready
      BY <2>1 DEF QueueState
    <3>2. WriteQueue(queue)
      BY <1>1, <2>2 DEF write_queue_num
    <3> QED
      BY <3>1, <3>2, QueueWrite, ZenonT(60)
  <2>3. ASSUME NEW ring \in Ring, NEW address \in Address,
               write_queue_address(ring, address)
        PROVE MmioTypeOK' /\ QueueStep /\ UNCHANGED status
    <3> DEFINE queue == [queues[queue_selector] EXCEPT !.address[ring] = address]
    <3>1. queue \in QueueState /\ ~queue.ready
      BY <2>1 DEF QueueState
    <3>2. WriteQueue(queue)
      BY <1>1, <2>3 DEF write_queue_address
    <3> QED
      BY <3>1, <3>2, QueueWrite, ZenonT(60)
  <2> QED
    BY <2>2, <2>3
<1>2. CASE ~Configurable
  BY <1>2 DEF write_queue_num, write_queue_address, mmioVars, MmioInv, MmioTypeOK,
     QueueStep
<1> QED
  BY <1>1, <1>2

(* A status write keeps the order of the handshake and touches the queues  *)
(* only by resetting all of them.                                          *)
LEMMA StatusWrite ==
  ASSUME MmioInv, NEW value \in SUBSET (StatusBit \cup {"RESERVED"}),
         write_status_locked(value)
  PROVE MmioTypeOK' /\ HandshakeOrder' /\ QueueStep
<1>1. CASE value = {}
  <2>1. reset_locked
    BY <1>1 DEF write_status_locked
  <2>2. queues' \in [Queue -> QueueState] /\ QueueStep
    BY <2>1, FreshTyped DEF reset_locked, QueueStep
  <2>3. notifications' \in Seq(Queue)
    BY <2>1 DEF reset_locked
  <2>4. generation' \in Nat
    BY <2>1 DEF reset_locked, MmioInv, MmioTypeOK
  <2> QED
    BY <2>1, <2>2, <2>3, <2>4, ZenonT(60) DEF reset_locked, MmioTypeOK, HandshakeOrder
<1>2. CASE value # {}
  <2> DEFINE requested == value \cap StatusBit
  <2>1. requested \in SUBSET StatusBit
    OBVIOUS
  <2>2. /\ status' = IF "FAILED" \in requested THEN requested ELSE Granted(requested)
        /\ UNCHANGED <<driver_features, feature_selector, queue_selector, queues,
                       notifications, interrupt_status, generation>>
    BY <1>2 DEF write_status_locked
  <2> HIDE DEF requested
  <2>3. status' \subseteq StatusBit /\ HandshakeOrder'
    BY <2>1, <2>2, GrantedOrder DEF HandshakeOrder
  <2> QED
    BY <2>2, <2>3 DEF MmioInv, MmioTypeOK, QueueStep
<1> QED
  BY <1>1, <1>2

(* The remaining writes and the device's own steps leave queues and status *)
(* alone.                                                                  *)
LEMMA OtherWrite ==
  ASSUME MmioInv,
         \/ \E n \in 0..2 : write_driver_features_sel(n)
         \/ \E word \in SUBSET Feature : write_driver_features(word)
         \/ \E q \in 0..QueueCount : write_queue_sel(q)
         \/ \E q \in 0..QueueCount : write_queue_notify(q)
         \/ write_interrupt_ack
         \/ DeviceStep
         \/ UNCHANGED mmioVars
  PROVE MmioTypeOK' /\ QueueStep /\ UNCHANGED status
<1> USE DEF MmioInv, MmioTypeOK, QueueStep
<1>1. ASSUME NEW n \in 0..2, write_driver_features_sel(n)
      PROVE MmioTypeOK' /\ QueueStep /\ UNCHANGED status
  BY <1>1 DEF write_driver_features_sel
<1>2. ASSUME NEW word \in SUBSET Feature, write_driver_features(word)
      PROVE MmioTypeOK' /\ QueueStep /\ UNCHANGED status
  BY <1>2 DEF write_driver_features
<1>3. ASSUME NEW q \in 0..QueueCount, write_queue_sel(q)
      PROVE MmioTypeOK' /\ QueueStep /\ UNCHANGED status
  BY <1>3, MmioAssumption DEF write_queue_sel
<1>4. ASSUME NEW q \in 0..QueueCount, write_queue_notify(q)
      PROVE MmioTypeOK' /\ QueueStep /\ UNCHANGED status
  BY <1>4 DEF write_queue_notify, NotifyAccepted
<1>5. CASE write_interrupt_ack
  BY <1>5, ZenonT(60) DEF write_interrupt_ack
<1>6. CASE DeviceStep
  <2>1. notifications' \in Seq(Queue)
    BY <1>6 DEF DeviceStep, pop_notification
  <2>2. interrupt_status' \in BOOLEAN
    BY <1>6, ZenonT(60) DEF DeviceStep, raise_used_buffer_interrupt
  <2> QED
    BY <1>6, <2>1, <2>2 DEF DeviceStep
<1>7. CASE UNCHANGED mmioVars
  BY <1>7 DEF mmioVars
<1> QED
  BY <1>1, <1>2, <1>3, <1>4, <1>5, <1>6, <1>7, ZenonT(60)

(* Every step keeps type and handshake and treats each queue as QueueStep  *)
(* says.                                                                   *)
LEMMA NextMmio ==
  ASSUME MmioInv, [MmioNext]_mmioVars
  PROVE MmioTypeOK' /\ HandshakeOrder' /\ QueueStep
<1>1. ASSUME NEW value \in SUBSET (StatusBit \cup {"RESERVED"}), write_status_locked(value)
      PROVE MmioTypeOK' /\ HandshakeOrder' /\ QueueStep
  BY <1>1, StatusWrite
<1>2. ASSUME NEW on \in BOOLEAN, write_queue_ready(on)
      PROVE MmioTypeOK' /\ QueueStep /\ UNCHANGED status
  BY <1>2, ReadyWrite
<1>3. CASE \/ \E size \in Size : write_queue_num(size)
           \/ \E ring \in Ring, address \in Address : write_queue_address(ring, address)
  BY <1>3, ConfigurationWrite DEF MmioInv, HandshakeOrder
<1>4. CASE \/ \E n \in 0..2 : write_driver_features_sel(n)
           \/ \E word \in SUBSET Feature : write_driver_features(word)
           \/ \E q \in 0..QueueCount : write_queue_sel(q)
           \/ \E q \in 0..QueueCount : write_queue_notify(q)
           \/ write_interrupt_ack
           \/ DeviceStep
           \/ UNCHANGED mmioVars
  BY <1>4, OtherWrite DEF MmioInv, HandshakeOrder
<1>5. UNCHANGED status => HandshakeOrder'
  BY DEF MmioInv, HandshakeOrder
<1> QED
  BY <1>1, <1>2, <1>3, <1>4, <1>5, ZenonT(60) DEF MmioNext, RegisterWrite

(* QueueStep keeps ready queues valid.                                     *)
LEMMA ReadyKept ==
  ASSUME MmioInv, QueueStep
  PROVE ReadyValid'
BY ZenonT(60) DEF MmioInv, ReadyValid, QueueStep, Sizeable

(* Type correctness, valid ready queues and the order of the handshake     *)
(* hold in every reachable state of the transport.                         *)
THEOREM MmioInvariants == MmioSpec => [](MmioTypeOK /\ QueuesValid)
<1>1. MmioInit => MmioInv
  BY InitMmioInv
<1>2. MmioInv /\ [MmioNext]_mmioVars => MmioInv'
  BY NextMmio, ReadyKept DEF MmioInv
<1>3. MmioInv => MmioTypeOK /\ QueuesValid
  BY DEF MmioInv, QueuesValid
<1> QED
  BY <1>1, <1>2, <1>3, PTL DEF MmioSpec

(* No register write changes the layout of a queue that stays ready.       *)
THEOREM MmioLayoutFrozen == MmioSpec => LayoutFrozen
<1>1. MmioInit => MmioInv
  BY InitMmioInv
<1>2. MmioInv /\ [MmioNext]_mmioVars => MmioInv'
  BY NextMmio, ReadyKept DEF MmioInv
<1>3. MmioInv /\ [MmioNext]_mmioVars =>
        [\A q \in Queue : queues[q].ready /\ queues'[q].ready => queues'[q] = queues[q]]_mmioVars
  BY NextMmio DEF QueueStep
<1> QED
  BY <1>1, <1>2, <1>3, PTL DEF MmioSpec, LayoutFrozen

-----------------------------------------------------------------------------
(* The transport in the system.                                            *)

(* What any step of a driver or of the device does to the transport.       *)
TransportStep ==
  \/ \E value \in SUBSET (StatusBit \cup {"RESERVED"}) : write_status_locked(value)
  \/ \E on \in BOOLEAN : write_queue_ready(on)
  \/ \E size \in Size : write_queue_num(size)
  \/ \E ring \in Ring, address \in Address : write_queue_address(ring, address)
  \/ \E n \in 0..2 : write_driver_features_sel(n)
  \/ \E word \in SUBSET Feature : write_driver_features(word)
  \/ \E q \in 0..QueueCount : write_queue_sel(q)
  \/ \E q \in 0..QueueCount : write_queue_notify(q)
  \/ write_interrupt_ack \/ DeviceStep \/ UNCHANGED mmioVars

(* Every such step preserves the transport's invariant.                    *)
LEMMA TransportInv ==
  ASSUME MmioInv, TransportStep
  PROVE MmioInv'
<1>1. ASSUME MmioTypeOK', QueueStep, UNCHANGED status PROVE MmioInv'
  <2>1. HandshakeOrder'
    BY <1>1 DEF MmioInv, HandshakeOrder
  <2> QED BY <1>1, <2>1, ReadyKept DEF MmioInv
<1>2. ASSUME NEW value \in SUBSET (StatusBit \cup {"RESERVED"}), write_status_locked(value)
      PROVE MmioInv'
  BY <1>2, StatusWrite, ReadyKept DEF MmioInv
<1>3. ASSUME NEW on \in BOOLEAN, write_queue_ready(on)
      PROVE MmioInv'
  BY <1>1, <1>3, ReadyWrite
<1>4. CASE \/ \E size \in Size : write_queue_num(size)
           \/ \E ring \in Ring, address \in Address : write_queue_address(ring, address)
  BY <1>1, <1>4, ConfigurationWrite
<1>5. CASE \/ \E n \in 0..2 : write_driver_features_sel(n)
           \/ \E word \in SUBSET Feature : write_driver_features(word)
           \/ \E q \in 0..QueueCount : write_queue_sel(q)
           \/ \E q \in 0..QueueCount : write_queue_notify(q)
           \/ write_interrupt_ack \/ DeviceStep \/ UNCHANGED mmioVars
  BY <1>1, <1>5, OtherWrite
<1> QED BY <1>2, <1>3, <1>4, <1>5, ZenonT(60) DEF TransportStep

(* The handshake writes registers only.                                    *)
LEMMA HandshakeTransport ==
  ASSUME Handshake
  PROVE TransportStep
<1> USE DEF TransportStep
<1>1. ASSUME NEW v \in {{"ACKNOWLEDGE"}, Base, Base \cup {"FEATURES_OK"},
                        Base \cup {"FEATURES_OK", "DRIVER_OK"}}, write_status_locked(v)
      PROVE TransportStep
  <2>1. v \in SUBSET (StatusBit \cup {"RESERVED"})
    BY <1>1 DEF StatusBit, Base
  <2> QED BY <1>1, <2>1, ZenonT(60)
<1>2. ASSUME write_driver_features_sel(1) PROVE TransportStep
  <2>1. 1 \in 0..2
    OBVIOUS
  <2> QED BY <1>2, <2>1, ZenonT(60)
<1>3. ASSUME write_driver_features({"VERSION_1"}) PROVE TransportStep
  <2>1. {"VERSION_1"} \in SUBSET Feature
    BY MmioAssumption
  <2> QED BY <1>3, <2>1, ZenonT(60)
<1>4. ASSUME write_queue_num(RingSize) PROVE TransportStep
  BY <1>4, BlockAssumption, ZenonT(60)
<1>5. ASSUME NEW ring \in Ring, PlaceRing(ring) PROVE TransportStep
  <2>1. PICK a \in IF Careless THEN AlignedAddress ELSE RamAddress : write_queue_address(ring, a)
    BY <1>5, ZenonT(60) DEF PlaceRing
  <2>2. a \in Address
    BY <2>1, MmioAssumption, BlockAssumption
  <2> QED BY <2>1, <2>2, ZenonT(60)
<1>6. ASSUME write_queue_ready(TRUE) PROVE TransportStep
  BY <1>6, ZenonT(60)
<1> QED BY <1>1, <1>2, <1>3, <1>4, <1>5, <1>6, ZenonT(60) DEF Handshake, Ring

(* Every step of the system does one of these to the transport.            *)
LEMMA BlockTransport ==
  ASSUME MmioInv, [Next]_vars
  PROVE TransportStep
<1> USE DEF TransportStep
<1>1. ASSUME process_one PROVE TransportStep
  <2>1. UNCHANGED mmioVars \/ DeviceStep
    BY <1>1, ZenonT(60) DEF process_one, NoNotification, QueueError, Unanswerable,
                        Completed, Undefined,
       DeviceStep
  <2> QED BY <2>1, ZenonT(60)
<1>2. ASSUME Kick \/ SpuriousKick PROVE TransportStep
  <2>1. BlockQueue \in 0..QueueCount
    BY MmioAssumption DEF BlockQueue
  <2> QED BY <1>2, <2>1, ZenonT(60) DEF Kick, SpuriousKick
<1>3. ASSUME ResetDevice PROVE TransportStep
  <2>1. {} \in SUBSET (StatusBit \cup {"RESERVED"})
    OBVIOUS
  <2> QED BY <1>3, <2>1, ZenonT(60) DEF ResetDevice
<1>4. ASSUME Fail PROVE TransportStep
  <2>1. status \cup {"FAILED"} \in SUBSET (StatusBit \cup {"RESERVED"})
    BY DEF MmioInv, MmioTypeOK, StatusBit
  <2> QED BY <1>4, <2>1, ZenonT(60) DEF Fail
<1>5. ASSUME AckInterrupt PROVE TransportStep
  BY <1>5, ZenonT(60) DEF AckInterrupt
<1>6. ASSUME synchronize_devices \/ Submit \/ Publish \/ Collect \/ Other PROVE TransportStep
  BY <1>6, ZenonT(60) DEF synchronize_devices, Submit, Publish, Collect, Other
<1>7. ASSUME UNCHANGED vars PROVE TransportStep
  BY <1>7, ZenonT(60) DEF vars
<1> QED BY <1>1, <1>2, <1>3, <1>4, <1>5, <1>6, <1>7, HandshakeTransport, ZenonT(60) DEF Next

-----------------------------------------------------------------------------
(* Types.                                                                  *)

Data == Seq(0..MaxRequest)
Image == [Sector -> 0..MaxRequest]

LoopTyped ==
  /\ phase \in {"device", "sync", "hart"} /\ exit \in {"running", "RuntimeIo", "undefined"}
  /\ observed_transport_generation \in 0..generation /\ block_level \in BOOLEAN

RamTyped ==
  /\ disk \in Image
  /\ chains \in [Slot -> [request : Request, tag : 0..MaxRequest]]
  /\ statuses \in [Slot -> Status] /\ buffers \in [Slot -> Data]

DriverTyped ==
  /\ busy \subseteq Slot /\ seen \in Index /\ total \in 0..MaxRequest
  /\ submitted \in Seq(Slot) /\ completed \in Seq(Slot)
  /\ shadow \in [Sector -> SUBSET (0..MaxRequest)]

SystemTyped == MmioInv /\ VirtqueueTypeOK(UsedElement) /\ LoopTyped /\ RamTyped /\ DriverTyped

(* Ring indices and slots.                                                 *)
LEMMA IndexTyped ==
  /\ 0 \in Index /\ 0 \in Slot
  /\ \A i \in Nat : NextIndex(i) \in Index /\ virtqueue_ring_slot(i) \in Slot
  /\ Index \subseteq Nat /\ Slot \subseteq Nat
<1>1. RingSize \in Nat \ {0} /\ IndexSpace \in Nat \ {0}
  BY VirtqueueAssumption
<1>2. 0 \in Index /\ 0 \in Slot /\ Index \subseteq Nat /\ Slot \subseteq Nat
  BY <1>1 DEF Index, Slot
<1>3. ASSUME NEW i \in Nat PROVE NextIndex(i) \in Index /\ virtqueue_ring_slot(i) \in Slot
  <2>1. i + 1 \in Nat
    OBVIOUS
  <2>2. (i + 1) % IndexSpace \in 0..(IndexSpace - 1) /\ i % RingSize \in 0..(RingSize - 1)
    BY <1>1, <2>1, Euclid
  <2> QED BY <2>2 DEF NextIndex, virtqueue_ring_slot, Index, Slot
<1> QED BY <1>2, <1>3

(* The indices process_one works with.                                     *)
LEMMA SynchronizedTyped ==
  ASSUME VirtqueueTypeOK(UsedElement)
  PROVE /\ synchronize_queue_generation.last \in Index
        /\ synchronize_queue_generation.used \in Index
        /\ available_head(synchronize_queue_generation.last) \in Slot
<1>1. last_available_idx \in Index /\ used_idx \in Index /\ avail.ring \in [Slot -> Slot]
  BY DEF VirtqueueTypeOK
<1>2. /\ synchronize_queue_generation.last \in Index
      /\ synchronize_queue_generation.used \in Index
  BY <1>1, IndexTyped DEF synchronize_queue_generation, reset
<1>3. virtqueue_ring_slot(synchronize_queue_generation.last) \in Slot
  BY <1>2, IndexTyped, ZenonT(60)
<1> QED BY <1>1, <1>2, <1>3, ZenonT(60) DEF available_head

(* The fields of a request.                                                *)
LEMMA RequestTyped ==
  ASSUME NEW r \in Request
  PROVE /\ r.type \in {"IN", "OUT", "OTHER"} /\ r.sector \in Nat /\ Len(r.segments) \in Nat
        /\ DataCount(r) \in 0..Len(r.segments) /\ Delivered(r) \in 0..DataCount(r)
<1>1. /\ r.type \in {"IN", "OUT", "OTHER"} /\ r.sector \in Nat
      /\ r.segments \in Seq([writes : BOOLEAN, mapped : BOOLEAN])
  BY BlockAssumption
<1>2. Len(r.segments) \in Nat
  BY <1>1, LenProperties
<1>3. DataCount(r) \in 0..Len(r.segments)
  BY <1>2 DEF DataCount
<1>4. Delivered(r) \in 0..DataCount(r)
  <2> DEFINE bad == {i \in 1..DataCount(r) : ~r.segments[i].mapped}
  <2>1. CASE bad = {}
    <3>1. Delivered(r) = DataCount(r)
      BY <2>1, ZenonT(60) DEF Delivered
    <3> QED BY <1>2, <1>3, <3>1
  <2>2. CASE bad # {}
    <3>1. bad \in SUBSET Nat
      BY <1>2, <1>3
    <3> DEFINE least == CHOOSE i \in bad : \A j \in bad : i <= j
    <3>2. least \in bad
      BY <2>2, <3>1, LeastMember, ZenonT(60)
    <3>3. least \in 1..DataCount(r)
      BY <3>2, ZenonT(60)
    <3>4. Delivered(r) = least - 1
      BY <2>2 DEF Delivered
    <3> HIDE DEF least
    <3> QED BY <1>2, <1>3, <3>3, <3>4
  <2> QED BY <2>1, <2>2
<1> QED BY <1>1, <1>2, <1>3, <1>4

(* Performing a request stores a status, some sectors of the image in the  *)
(* guest's buffers, or the request's data on the disk.                     *)
LEMMA PerformTyped ==
  ASSUME RamTyped, NEW h \in Slot, Perform(h)
  PROVE statuses' \in [Slot -> Status] /\ buffers' \in [Slot -> Data] /\ disk' \in Image
<1> DEFINE r == chains[h].request
<1>1. /\ r \in Request /\ chains[h].tag \in 0..MaxRequest
      /\ disk \in Image /\ statuses \in [Slot -> Status] /\ buffers \in [Slot -> Data]
  BY DEF RamTyped
<1>2. ASSUME NEW status_byte \in Status, NEW data \in Data, NEW new_disk \in Image,
             Answer(h, status_byte, data, new_disk)
      PROVE statuses' \in [Slot -> Status] /\ buffers' \in [Slot -> Data] /\ disk' \in Image
  BY <1>1, <1>2, ZenonT(60) DEF Answer
<1>3. "OK" \in Status /\ "IOERR" \in Status /\ "UNSUPP" \in Status /\ <<>> \in Data
  BY DEF Status, Data
<1>4. ASSUME NEW n \in Int PROVE Written(chains[h], n) \in Image
  BY <1>1, ZenonT(60) DEF Written, Image
<1>5. Capacity \in Nat /\ MaxRequest \in Nat
  BY BlockAssumption
<1> HIDE DEF r
<1>6. CASE Reject(h)
  <2>1. PICK b \in Status : Answer(h, b, <<>>, disk)
    BY <1>3, <1>6, ZenonT(60) DEF Reject
  <2> QED BY <1>1, <1>2, <1>3, <2>1, ZenonT(60)
<1>7. CASE Write(h)
  <2>1. DataCount(r) \in Int
    BY <1>1, RequestTyped
  <2>2. PICK b \in Status, n \in Int : Answer(h, b, <<>>, Written(chains[h], n))
    <3>1. CASE Answer(h, "OK", <<>>, Written(chains[h], DataCount(r)))
      BY <1>3, <2>1, <3>1
    <3>2. CASE \E n \in 0..(DataCount(r) - 1) : Answer(h, "IOERR", <<>>, Written(chains[h], n))
      BY <1>3, <3>2
    <3> QED BY <1>7, <3>1, <3>2, ZenonT(60) DEF Write, r
  <2> QED BY <1>2, <1>3, <1>4, <2>2, ZenonT(60)
<1>8. CASE Read(h)
  <2> DEFINE n == Delivered(r)
             data == ReadBack(r, n)
  <2>1. r.sector \in Nat /\ DataCount(r) \in Nat /\ n \in Nat /\ n <= DataCount(r)
    BY <1>1, RequestTyped
  <2>2. r.sector + DataCount(r) <= Capacity
    BY <1>8, ZenonT(60) DEF Read, Attempted, sector_range_valid, r
  <2> HIDE DEF n
  <2>3. \A i \in 1..n : r.sector + i - 1 \in Sector
    BY <1>5, <2>1, <2>2 DEF Sector
  <2>4. \A i \in 1..n : disk[r.sector + i - 1] \in 0..MaxRequest
    BY <1>1, <2>3 DEF Image
  <2>5. data \in Data
    BY <2>1, <2>4 DEF ReadBack, Data
  <2> HIDE DEF data
  <2>6. PICK b \in Status, d \in Data : Answer(h, b, d, disk)
    BY <1>3, <1>8, <2>5, ZenonT(60) DEF Read, data, n, r
  <2> QED BY <1>1, <1>2, <2>6, ZenonT(60)
<1> QED BY <1>6, <1>7, <1>8 DEF Perform

(* The system starts typed.                                                *)
LEMMA InitTyped == Init => SystemTyped
<1> SUFFICES ASSUME Init PROVE SystemTyped
  OBVIOUS
<1>1. MmioInv
  BY InitMmioInv, ZenonT(60) DEF Init
<1>2. /\ last_available_idx = 0 /\ used_idx = 0
      /\ avail = [idx |-> 0, ring |-> [s \in Slot |-> 0]]
      /\ used = [idx |-> 0, ring |-> [s \in Slot |-> [id |-> 0, length |-> 0]]]
  BY ZenonT(60) DEF Init
<1>3. VirtqueueTypeOK(UsedElement)
  BY <1>2, IndexTyped, ZenonT(60) DEF VirtqueueTypeOK, UsedElement
<1>4. /\ phase = "device" /\ exit = "running" /\ observed_transport_generation = 0
      /\ block_level = FALSE /\ generation = 0
  BY ZenonT(60) DEF Init, MmioInit
<1>5. LoopTyped
  <2>1. observed_transport_generation \in 0..generation
    BY <1>4
  <2> QED BY <1>4, <2>1, ZenonT(60) DEF LoopTyped
<1>6. /\ disk = [s \in Sector |-> 0] /\ statuses = [h \in Slot |-> "NONE"]
      /\ buffers = [h \in Slot |-> <<>>] /\ chains = [h \in Slot |-> [request |-> Free, tag |-> 0]]
  BY ZenonT(60) DEF Init
<1>7. RamTyped
  <2>1. Free \in Request /\ MaxRequest \in Nat
    BY BlockAssumption, ZenonT(60) DEF Free
  <2> QED BY <1>6, <2>1 DEF RamTyped, Image, Data, Status
<1>8. /\ busy = {} /\ seen = 0 /\ submitted = <<>> /\ completed = <<>> /\ total = 0
      /\ shadow = [s \in Sector |-> {0}]
  BY ZenonT(60) DEF Init
<1>9. DriverTyped
  <2>1. MaxRequest \in Nat
    BY BlockAssumption
  <2> QED BY <1>8, <2>1, IndexTyped DEF DriverTyped
<1> QED BY <1>1, <1>3, <1>5, <1>7, <1>9 DEF SystemTyped

(* A step of the transport keeps or advances the generation.               *)
LEMMA GenerationGrows ==
  ASSUME MmioInv, TransportStep
  PROVE generation' \in Nat /\ (generation' = generation \/ generation' = generation + 1)
<1>1. generation' \in Nat
  BY TransportInv DEF MmioInv, MmioTypeOK
<1>2. generation' = generation \/ generation' = generation + 1
  BY ZenonT(60) DEF TransportStep, write_status_locked, reset_locked, write_queue_ready,
     write_queue_num, write_queue_address, WriteQueue, write_driver_features_sel,
     write_driver_features, write_queue_sel, write_queue_notify, write_interrupt_ack,
     DeviceStep, mmioVars
<1> QED BY <1>1, <1>2

(* The device takes a chain and puts one in the used ring.                 *)
LEMMA QueueTyped ==
  ASSUME SystemTyped, [Next]_vars
  PROVE VirtqueueTypeOK(UsedElement)'
<1> DEFINE i == synchronize_queue_generation
           h == available_head(i.last)
<1>1. /\ last_available_idx \in Index /\ used_idx \in Index
      /\ avail \in [idx : Index, ring : [Slot -> Slot]]
      /\ used \in [idx : Index, ring : [Slot -> UsedElement]]
  BY ZenonT(60) DEF SystemTyped, VirtqueueTypeOK
<1>2. i.last \in Index /\ i.used \in Index /\ h \in Slot
  BY SynchronizedTyped DEF SystemTyped
<1>3. NextIndex(i.last) \in Index /\ NextIndex(i.used) \in Index
  BY <1>2, IndexTyped, ZenonT(60)
<1> HIDE DEF i, h
<1>4. CASE UNCHANGED queueVars
  BY <1>1, <1>4 DEF queueVars, VirtqueueTypeOK
<1>5. ASSUME process_one PROVE VirtqueueTypeOK(UsedElement)'
  <2>1. CASE NoNotification \/ Undefined
    BY <1>4, <2>1, ZenonT(60) DEF NoNotification, Undefined
  <2>2. CASE QueueError \/ Unanswerable
    <3>1. /\ last_available_idx' = i.last \/ last_available_idx' = NextIndex(i.last)
          /\ used_idx' = i.used /\ avail' = avail /\ used' = used
      BY <2>2, ZenonT(60) DEF QueueError, Unanswerable, i
    <3> QED BY <1>1, <1>2, <1>3, <3>1, ZenonT(60) DEF VirtqueueTypeOK
  <2>3. CASE Completed
    <3>1. /\ last_available_idx' = NextIndex(i.last) /\ avail' = avail /\ Perform(h)
          /\ publish_used(i.used, [id |-> h, length |-> UsedLength(h)])
      BY <2>3, ZenonT(60) DEF Completed, i, h
    <3>2. buffers' \in [Slot -> Data]
      BY <1>2, <3>1, PerformTyped, ZenonT(60) DEF SystemTyped
    <3>3. Len(buffers'[h]) \in Nat
      BY <1>2, <3>2, LenProperties DEF Data
    <3>4. UsedLength(h) \in Nat
      BY <3>3 DEF UsedLength
    <3> DEFINE element == [id |-> h, length |-> UsedLength(h)]
    <3>5. element \in UsedElement
      BY <1>2, <3>4, ZenonT(60) DEF UsedElement
    <3> HIDE DEF element
    <3>6. /\ used_idx' = NextIndex(i.used)
          /\ used' = [idx |-> NextIndex(i.used),
                      ring |-> [used.ring EXCEPT ![virtqueue_ring_slot(i.used)] = element]]
      BY <3>1, ZenonT(60) DEF publish_used, element
    <3>7. used' \in [idx : Index, ring : [Slot -> UsedElement]]
      BY <1>1, <1>3, <3>5, <3>6, ZenonT(60)
    <3> QED BY <1>1, <1>3, <3>1, <3>6, <3>7, ZenonT(60) DEF VirtqueueTypeOK
  <2> QED BY <1>5, <2>1, <2>2, <2>3 DEF process_one
<1>6. ASSUME Submit PROVE VirtqueueTypeOK(UsedElement)'
  <2>1. PICK g \in Slot : avail' = [avail EXCEPT !.ring[virtqueue_ring_slot(avail.idx)] = g]
    BY <1>6, ZenonT(60) DEF Submit
  <2>2. last_available_idx' = last_available_idx /\ used_idx' = used_idx /\ used' = used
    BY <1>6, ZenonT(60) DEF Submit
  <2>3. avail' \in [idx : Index, ring : [Slot -> Slot]]
    BY <1>1, <2>1
  <2> QED BY <1>1, <2>2, <2>3 DEF VirtqueueTypeOK
<1>7. ASSUME Publish PROVE VirtqueueTypeOK(UsedElement)'
  <2>1. /\ avail' = [avail EXCEPT !.idx = NextIndex(avail.idx)]
        /\ last_available_idx' = last_available_idx /\ used_idx' = used_idx /\ used' = used
    BY <1>7, ZenonT(60) DEF Publish
  <2>2. NextIndex(avail.idx) \in Index
    BY <1>1, IndexTyped, ZenonT(60)
  <2>3. avail' \in [idx : Index, ring : [Slot -> Slot]]
    BY <1>1, <2>1, <2>2
  <2> QED BY <1>1, <2>1, <2>3 DEF VirtqueueTypeOK
<1>8. ASSUME ResetDevice PROVE VirtqueueTypeOK(UsedElement)'
  <2>1. /\ avail' = [avail EXCEPT !.idx = 0] /\ used' = [used EXCEPT !.idx = 0]
        /\ last_available_idx' = last_available_idx /\ used_idx' = used_idx
    BY <1>8, ZenonT(60) DEF ResetDevice
  <2>2. /\ avail' \in [idx : Index, ring : [Slot -> Slot]]
        /\ used' \in [idx : Index, ring : [Slot -> UsedElement]]
    BY <1>1, <2>1, IndexTyped, ZenonT(60)
  <2> QED BY <1>1, <2>1, <2>2 DEF VirtqueueTypeOK
<1>9. ASSUME \/ synchronize_devices \/ Handshake \/ Kick \/ Collect \/ AckInterrupt \/ Fail
             \/ SpuriousKick \/ Other \/ UNCHANGED vars
      PROVE UNCHANGED queueVars
  BY <1>9, ZenonT(60) DEF synchronize_devices, Handshake, Kick, Collect, AckInterrupt, Fail,
     SpuriousKick, Other, Quiet, vars
<1> QED BY <1>4, <1>5, <1>6, <1>7, <1>8, <1>9, ZenonT(60) DEF Next

(* The loop's own state.                                                   *)
LEMMA LoopStepTyped ==
  ASSUME SystemTyped, [Next]_vars
  PROVE LoopTyped'
<1>1. /\ phase \in {"device", "sync", "hart"} /\ exit \in {"running", "RuntimeIo", "undefined"}
      /\ observed_transport_generation \in 0..generation /\ block_level \in BOOLEAN
      /\ MmioInv
  BY ZenonT(60) DEF SystemTyped, LoopTyped
<1>2. generation \in Nat /\ generation' \in Nat
        /\ (generation' = generation \/ generation' = generation + 1)
  BY <1>1, BlockTransport, GenerationGrows, ZenonT(60) DEF MmioInv, MmioTypeOK
<1>3. observed_transport_generation \in 0..generation' /\ generation \in 0..generation'
  BY <1>1, <1>2
<1>4. ASSUME process_one PROVE LoopTyped'
  <2>1. phase' = "sync"
    BY <1>4, ZenonT(60) DEF process_one
  <2>2. CASE NoNotification
    <3>1. exit' = exit /\ observed_transport_generation' = observed_transport_generation
          /\ block_level' = block_level
      BY <2>2, ZenonT(60) DEF NoNotification, hostVars
    <3> QED BY <1>1, <1>3, <2>1, <3>1, ZenonT(60) DEF LoopTyped
  <2>3. CASE QueueError \/ Unanswerable \/ Completed \/ Undefined
    <3>1. /\ exit' = exit \/ exit' = "RuntimeIo" \/ exit' = "undefined"
          /\ \/ observed_transport_generation' = observed_transport_generation
             \/ observed_transport_generation' = generation
          /\ block_level' = block_level
      BY <2>3, ZenonT(60) DEF QueueError, Unanswerable, Completed, Undefined
    <3> QED BY <1>1, <1>3, <2>1, <3>1, ZenonT(60) DEF LoopTyped
  <2> QED BY <1>4, <2>2, <2>3, ZenonT(60) DEF process_one
<1>5. ASSUME synchronize_devices PROVE LoopTyped'
  <2>1. phase' = "hart" /\ exit' = exit
          /\ observed_transport_generation' = observed_transport_generation
    BY <1>5, ZenonT(60) DEF synchronize_devices
  <2>2. block_level' = block_level
    BY <1>5, ZenonT(60) DEF synchronize_devices, SynchronizedDevices
  <2> QED BY <1>1, <1>3, <2>1, <2>2, ZenonT(60) DEF LoopTyped
<1>6. ASSUME Instruction PROVE LoopTyped'
  <2>1. phase' = "device" /\ UNCHANGED hostVars
    BY <1>6, ZenonT(60) DEF Instruction
  <2> QED BY <1>1, <1>3, <2>1, ZenonT(60) DEF LoopTyped, hostVars
<1>7. ASSUME UNCHANGED vars PROVE LoopTyped'
  <2>1. phase' = phase /\ UNCHANGED hostVars
    BY <1>7, ZenonT(60) DEF vars
  <2> QED BY <1>1, <1>3, <2>1, ZenonT(60) DEF LoopTyped, hostVars
<1>8. ASSUME \/ Handshake \/ Submit \/ Publish \/ Kick \/ Collect \/ AckInterrupt
             \/ ResetDevice \/ Fail \/ SpuriousKick \/ Other
      PROVE Instruction
  BY <1>8, ZenonT(60) DEF Handshake, Submit, Publish, Kick, Collect, AckInterrupt, ResetDevice,
     Fail, SpuriousKick, Other
<1> QED BY <1>4, <1>5, <1>6, <1>7, <1>8, ZenonT(60) DEF Next

(* Disk and guest RAM.                                                     *)
LEMMA RamStepTyped ==
  ASSUME SystemTyped, [Next]_vars
  PROVE RamTyped'
<1> DEFINE h == available_head(synchronize_queue_generation.last)
<1>1. /\ disk \in Image /\ statuses \in [Slot -> Status] /\ buffers \in [Slot -> Data]
      /\ chains \in [Slot -> [request : Request, tag : 0..MaxRequest]] /\ RamTyped
  BY ZenonT(60) DEF SystemTyped, RamTyped
<1>2. h \in Slot
  BY SynchronizedTyped, ZenonT(60) DEF SystemTyped
<1> HIDE DEF h
<1>3. CASE UNCHANGED <<disk, ramVars>>
  BY <1>1, <1>3, ZenonT(60) DEF RamTyped, ramVars
<1>4. ASSUME process_one PROVE RamTyped'
  <2>1. CASE NoNotification \/ QueueError \/ Undefined
    BY <1>3, <2>1, ZenonT(60) DEF NoNotification, QueueError, Undefined, hostVars
  <2>2. CASE Unanswerable \/ Completed
    <3>1. Perform(h) /\ chains' = chains
      BY <2>2, ZenonT(60) DEF Unanswerable, Completed, h
    <3> QED BY <1>1, <1>2, <3>1, PerformTyped, ZenonT(60) DEF RamTyped
  <2> QED BY <1>4, <2>1, <2>2, ZenonT(60) DEF process_one
<1>5. ASSUME Submit PROVE RamTyped'
  <2>1. PICK r \in Request, g \in Slot :
          /\ chains' = [chains EXCEPT ![g] = [request |-> r, tag |-> total + 1]]
          /\ statuses' = [statuses EXCEPT ![g] = "NONE"]
          /\ buffers' = [buffers EXCEPT ![g] = <<>>]
    BY <1>5, ZenonT(60) DEF Submit
  <2>2. disk' = disk /\ total < MaxRequest
    BY <1>5, ZenonT(60) DEF Submit, Instruction, hostVars
  <2>3. total + 1 \in 0..MaxRequest
    BY <2>2, BlockAssumption DEF SystemTyped, DriverTyped
  <2>4. [request |-> r, tag |-> total + 1] \in [request : Request, tag : 0..MaxRequest]
    BY <2>3
  <2>5. <<>> \in Data /\ "NONE" \in Status
    BY DEF Data, Status
  <2> QED BY <1>1, <2>1, <2>2, <2>4, <2>5, ZenonT(60) DEF RamTyped
<1>6. ASSUME \/ synchronize_devices \/ Handshake \/ Publish \/ Kick \/ Collect \/ AckInterrupt
             \/ ResetDevice \/ Fail \/ SpuriousKick \/ Other \/ UNCHANGED vars
      PROVE UNCHANGED <<disk, ramVars>>
  <2>1. CASE synchronize_devices \/ UNCHANGED vars
    BY <2>1, ZenonT(60) DEF synchronize_devices, vars, hostVars
  <2>2. CASE \/ Handshake \/ Publish \/ Kick \/ Collect \/ AckInterrupt
             \/ ResetDevice \/ Fail \/ SpuriousKick \/ Other
    <3>1. Instruction /\ UNCHANGED ramVars
      BY <2>2, ZenonT(60) DEF Handshake, Publish, Kick, Collect, AckInterrupt, ResetDevice,
         Fail, SpuriousKick, Other, Quiet
    <3> QED BY <3>1, ZenonT(60) DEF Instruction, hostVars
  <2> QED BY <1>6, <2>1, <2>2, ZenonT(60)
<1> QED BY <1>3, <1>4, <1>5, <1>6, ZenonT(60) DEF Next

(* What the driver may expect on the disk.                                 *)
LEMMA ExpectedTyped ==
  ASSUME RamTyped, DriverTyped, NEW h \in Slot, NEW known \in BOOLEAN
  PROVE Expected(h, known) \in [Sector -> SUBSET (0..MaxRequest)]
<1>1. shadow \in [Sector -> SUBSET (0..MaxRequest)] /\ chains[h].tag \in 0..MaxRequest
  BY ZenonT(60) DEF RamTyped, DriverTyped
<1> QED BY <1>1, ZenonT(60) DEF Expected

(* The driver's own state.                                                 *)
LEMMA DriverStepTyped ==
  ASSUME SystemTyped, [Next]_vars
  PROVE DriverTyped'
<1>1. /\ busy \subseteq Slot /\ seen \in Index /\ total \in 0..MaxRequest
      /\ submitted \in Seq(Slot) /\ completed \in Seq(Slot)
      /\ shadow \in [Sector -> SUBSET (0..MaxRequest)]
      /\ RamTyped /\ DriverTyped
  BY ZenonT(60) DEF SystemTyped, DriverTyped
<1>2. /\ avail.idx \in Index /\ avail.ring \in [Slot -> Slot]
      /\ used.ring \in [Slot -> UsedElement]
  BY DEF SystemTyped, VirtqueueTypeOK
<1>3. CASE UNCHANGED <<busy, seen, total, submitted, completed, shadow>>
  BY <1>1, <1>3, ZenonT(60) DEF DriverTyped
<1>4. ASSUME Submit PROVE DriverTyped'
  <2>1. PICK g \in Slot : busy' = busy \cup {g}
    BY <1>4, ZenonT(60) DEF Submit
  <2>2. total < MaxRequest /\ total' = total + 1 /\ UNCHANGED <<seen, submitted, completed, shadow>>
    BY <1>4, ZenonT(60) DEF Submit
  <2>3. total' \in 0..MaxRequest
    BY <1>1, <2>2, BlockAssumption
  <2>4. busy' \subseteq Slot
    BY <1>1, <2>1
  <2> QED BY <1>1, <2>2, <2>3, <2>4, ZenonT(60) DEF DriverTyped
<1>5. ASSUME Publish PROVE DriverTyped'
  <2>1. /\ submitted' = Append(submitted, avail.ring[virtqueue_ring_slot(avail.idx)])
        /\ UNCHANGED <<busy, seen, total, completed, shadow>>
    BY <1>5, ZenonT(60) DEF Publish
  <2>2. avail.ring[virtqueue_ring_slot(avail.idx)] \in Slot
    BY <1>2, IndexTyped, ZenonT(60)
  <2>3. submitted' \in Seq(Slot)
    BY <1>1, <2>1, <2>2, AppendProperties, ZenonT(60)
  <2> QED BY <1>1, <2>1, <2>3, ZenonT(60) DEF DriverTyped
<1>6. ASSUME Collect PROVE DriverTyped'
  <2> DEFINE h == used.ring[virtqueue_ring_slot(seen)].id
  <2>1. h \in Slot
    <3>1. virtqueue_ring_slot(seen) \in Slot
      BY <1>1, IndexTyped
    <3> QED BY <1>2, <3>1, ZenonT(60) DEF UsedElement
  <2>2. /\ completed' = Append(completed, h) /\ busy' = busy \ {h} /\ shadow' = Expected(h, TRUE)
        /\ seen' = NextIndex(seen) /\ UNCHANGED <<submitted, total>>
    BY <1>6, ZenonT(60) DEF Collect
  <2> HIDE DEF h
  <2>3. completed' \in Seq(Slot)
    BY <1>1, <2>1, <2>2, AppendProperties, ZenonT(60)
  <2>4. seen' \in Index
    BY <1>1, <2>2, IndexTyped, ZenonT(60)
  <2>5. shadow' \in [Sector -> SUBSET (0..MaxRequest)]
    BY <1>1, <2>1, <2>2, ExpectedTyped, ZenonT(60)
  <2>6. busy' \subseteq Slot
    BY <1>1, <2>2, ZenonT(60)
  <2> QED BY <1>1, <2>2, <2>3, <2>4, <2>5, <2>6, ZenonT(60) DEF DriverTyped
<1>7. ASSUME ResetDevice PROVE DriverTyped'
  <2>1. /\ shadow' = [s \in Sector |->
             UNION ({shadow[s]} \cup {Expected(h, FALSE)[s] : h \in busy})]
        /\ busy' = {} /\ seen' = 0 /\ submitted' = <<>> /\ completed' = <<>> /\ total' = total
    BY <1>7, ZenonT(60) DEF ResetDevice
  <2>2. \A h \in busy : Expected(h, FALSE) \in [Sector -> SUBSET (0..MaxRequest)]
    BY <1>1, ExpectedTyped, ZenonT(60)
  <2>3. ASSUME NEW s \in Sector
        PROVE UNION ({shadow[s]} \cup {Expected(h, FALSE)[s] : h \in busy}) \subseteq 0..MaxRequest
    <3>1. shadow[s] \subseteq 0..MaxRequest
            /\ \A h \in busy : Expected(h, FALSE)[s] \subseteq 0..MaxRequest
      BY <1>1, <2>2, ZenonT(60)
    <3> QED BY <3>1, ZenonT(60)
  <2>4. shadow' \in [Sector -> SUBSET (0..MaxRequest)]
    BY <2>1, <2>3, ZenonT(60)
  <2>5. seen' \in Index /\ <<>> \in Seq(Slot)
    BY <2>1, IndexTyped
  <2> QED BY <1>1, <2>1, <2>4, <2>5, ZenonT(60) DEF DriverTyped
<1>8. ASSUME \/ process_one \/ synchronize_devices \/ Handshake \/ Kick \/ AckInterrupt \/ Fail
             \/ SpuriousKick \/ Other \/ UNCHANGED vars
      PROVE UNCHANGED <<busy, seen, total, submitted, completed, shadow>>
  BY <1>8, ZenonT(60) DEF process_one, synchronize_devices, Handshake, Kick, AckInterrupt, Fail,
     SpuriousKick, Other, Quiet, vars, driverVars
<1> QED BY <1>3, <1>4, <1>5, <1>6, <1>7, <1>8, ZenonT(60) DEF Next

(* Types are preserved.                                                    *)
LEMMA NextTyped ==
  ASSUME SystemTyped, [Next]_vars
  PROVE SystemTyped'
<1>1. MmioInv'
  BY BlockTransport, TransportInv DEF SystemTyped
<1> QED BY <1>1, QueueTyped, LoopStepTyped, RamStepTyped, DriverStepTyped, ZenonT(60)
           DEF SystemTyped

-----------------------------------------------------------------------------
(* The rings.  Requests are numbered from the last reset: the driver has   *)
(* published numbers 1..Len(submitted) and collected 1..Len(completed);    *)
(* the device has answered 1..done.                                        *)

InFlight == (Len(completed) + 1)..Len(submitted)

(* The rings and indices when the device has answered `done' requests.     *)
RingsAt(done) ==
  /\ Len(completed) <= done /\ done <= Len(submitted)
  /\ avail.idx = Len(submitted) % IndexSpace /\ seen = Len(completed) % IndexSpace
  /\ used.idx = done % IndexSpace
  /\ synchronize_queue_generation.last = done % IndexSpace
  /\ synchronize_queue_generation.used = done % IndexSpace
  /\ \A n \in done..(Len(submitted) - 1) : avail.ring[n % RingSize] = submitted[n + 1]
  /\ \A n \in Len(completed)..(done - 1) : used.ring[n % RingSize].id = submitted[n + 1]

(* The next request of a driver that has not yet published it.             *)
Prepared == avail.ring[Len(submitted) % RingSize]

(* Requests in flight have different heads, all of them busy.              *)
HeadsApart ==
  /\ \A n \in InFlight : submitted[n] \in busy
  /\ \A m, n \in InFlight : submitted[m] = submitted[n] => m = n
  /\ driver = "publish" => Prepared \in busy /\ \A n \in InFlight : submitted[n] # Prepared
  /\ Cardinality(busy) = Len(submitted) - Len(completed) + (IF driver = "publish" THEN 1 ELSE 0)

Prefix ==
  /\ Len(completed) <= Len(submitted)
  /\ \A n \in 1..Len(completed) : completed[n] = submitted[n]

RingInv ==
  /\ SystemTyped /\ Prefix /\ NotificationTaken
  /\ exit = "running" => HeadsApart /\ \E done \in Nat : RingsAt(done)

(* The counters are natural numbers, and at most RingSize requests are in  *)
(* flight.                                                                 *)
LEMMA Window ==
  ASSUME SystemTyped, HeadsApart
  PROVE /\ Len(submitted) \in Nat /\ Len(completed) \in Nat /\ IsFiniteSet(busy)
        /\ Len(submitted) - Len(completed) <= RingSize
        /\ driver = "publish" \/ busy # Slot => Len(submitted) - Len(completed) < RingSize
<1>1. Len(submitted) \in Nat /\ Len(completed) \in Nat /\ busy \in SUBSET Slot
  BY LenProperties, ZenonT(60) DEF SystemTyped, DriverTyped
<1>2. RingSize \in Nat \ {0}
  BY VirtqueueAssumption
<1>3. IsFiniteSet(Slot) /\ Cardinality(Slot) = RingSize
  <2>1. 0 \in Int /\ RingSize - 1 \in Int /\ ~(0 > RingSize - 1)
          /\ (RingSize - 1) - 0 + 1 = RingSize
    BY <1>2
  <2>2. IsFiniteSet(0..(RingSize - 1)) /\ Cardinality(0..(RingSize - 1)) = (RingSize - 1) - 0 + 1
    BY <2>1, FS_Interval, ZenonT(60)
  <2> QED BY <2>1, <2>2, ZenonT(60) DEF Slot
<1>4. /\ IsFiniteSet(busy) /\ Cardinality(busy) <= RingSize
      /\ RingSize = Cardinality(busy) => Slot = busy
  BY <1>1, <1>3, FS_Subset, ZenonT(60)
<1>5. Cardinality(busy) \in Nat
  BY <1>4, FS_CardinalityType, ZenonT(60)
<1>6. Cardinality(busy) = Len(submitted) - Len(completed) + (IF driver = "publish" THEN 1 ELSE 0)
  BY ZenonT(60) DEF HeadsApart
<1>7. CASE driver = "publish"
  BY <1>1, <1>2, <1>4, <1>5, <1>6, <1>7
<1>8. CASE driver # "publish"
  BY <1>1, <1>2, <1>4, <1>5, <1>6, <1>8
<1> QED BY <1>1, <1>4, <1>7, <1>8, ZenonT(60)

(* The slot of a counter is the slot of its index.                         *)
LEMMA SlotOfCounter ==
  ASSUME NEW n \in Nat
  PROVE /\ virtqueue_ring_slot(n % IndexSpace) = n % RingSize
        /\ NextIndex(n % IndexSpace) = (n + 1) % IndexSpace
        /\ n % RingSize \in Slot
<1>1. RingSize \in Nat \ {0} /\ IndexSpace \in Nat \ {0} /\ IndexSpace % RingSize = 0
  BY VirtqueueAssumption
<1>2. (n % IndexSpace) % RingSize = n % RingSize
  BY <1>1, CoarseRemainder, ZenonT(60)
<1>3. ((n % IndexSpace) + 1) % IndexSpace = (n + 1) % IndexSpace
  BY <1>1, NextRemainder, ZenonT(60)
<1>4. n % RingSize \in 0..(RingSize - 1)
  BY <1>1, Euclid, ZenonT(60)
<1> QED BY <1>2, <1>3, <1>4, ZenonT(60) DEF virtqueue_ring_slot, NextIndex, Slot

(* Counters less than a ring apart have different slots.                   *)
LEMMA SlotsApart ==
  ASSUME NEW m \in Nat, NEW n \in Nat, m < n, n - m < RingSize
  PROVE m % RingSize # n % RingSize
<1>1. RingSize \in Nat \ {0}
  BY VirtqueueAssumption
<1> QED BY <1>1, Apart, ZenonT(60)

(* A step that leaves rings, indices and the driver's counters alone.      *)
LEMMA RingsKept ==
  ASSUME NEW done, RingsAt(done),
         UNCHANGED <<queueVars, generation, observed_transport_generation,
                     seen, submitted, completed>>
  PROVE RingsAt(done)'
<1>1. UNCHANGED <<last_available_idx, used_idx, avail, used>>
  BY ZenonT(60) DEF queueVars
<1>2. synchronize_queue_generation' = synchronize_queue_generation
  BY <1>1, ZenonT(60) DEF synchronize_queue_generation
<1> QED BY <1>1, <1>2, ZenonT(60) DEF RingsAt

(* Heads stay apart in such a step.                                        *)
LEMMA HeadsKept ==
  ASSUME HeadsApart, UNCHANGED <<avail, busy, submitted, completed>>,
         driver' = "publish" <=> driver = "publish"
  PROVE HeadsApart'
BY ZenonT(60) DEF HeadsApart, InFlight, Prepared

(* The driver puts a free head into the ring.                              *)
LEMMA SubmitRings ==
  ASSUME SystemTyped, HeadsApart, NEW done \in Nat, RingsAt(done), Submit
  PROVE HeadsApart' /\ RingsAt(done)'
<1> DEFINE S == Len(submitted)
           C == Len(completed)
<1>1. PICK h \in Slot \ busy :
        /\ avail' = [avail EXCEPT !.ring[virtqueue_ring_slot(avail.idx)] = h]
        /\ busy' = busy \cup {h}
  BY ZenonT(60) DEF Submit
<1>2. /\ driver # "publish" /\ driver' = "publish"
      /\ UNCHANGED <<last_available_idx, used_idx, used, seen, submitted, completed,
                     generation, observed_transport_generation>>
  BY DEF Submit, Instruction, hostVars, mmioVars
<1>3. S \in Nat /\ C \in Nat /\ IsFiniteSet(busy) /\ S - C < RingSize /\ RingSize \in Nat
  BY <1>1, Window, VirtqueueAssumption
<1>4. C <= done /\ done <= S /\ avail.idx = S % IndexSpace
  BY ZenonT(60) DEF RingsAt
<1>5. virtqueue_ring_slot(avail.idx) = S % RingSize /\ S % RingSize \in Slot
  BY <1>3, <1>4, SlotOfCounter, ZenonT(60)
<1>6. avail \in [idx : Index, ring : [Slot -> Slot]]
  BY DEF SystemTyped, VirtqueueTypeOK
<1>7. /\ avail'.idx = avail.idx /\ avail'.ring[S % RingSize] = h
      /\ \A x \in Slot : x # S % RingSize => avail'.ring[x] = avail.ring[x]
  BY <1>1, <1>5, <1>6
<1>8. ASSUME NEW n \in done..(S - 1) PROVE avail'.ring[n % RingSize] = submitted[n + 1]
  <2>1. n \in Nat /\ n < S /\ S - n < RingSize
    BY <1>3, <1>4
  <2>2. n % RingSize # S % RingSize /\ n % RingSize \in Slot
    BY <1>3, <2>1, SlotsApart, SlotOfCounter, ZenonT(60)
  <2>3. avail.ring[n % RingSize] = submitted[n + 1]
    BY ZenonT(60) DEF RingsAt
  <2> QED BY <1>7, <2>2, <2>3, ZenonT(60)
<1>9. RingsAt(done)'
  <2>1. synchronize_queue_generation' = synchronize_queue_generation
    BY <1>2, ZenonT(60) DEF synchronize_queue_generation
  <2> QED BY <1>2, <1>7, <1>8, <2>1, ZenonT(60) DEF RingsAt
<1>10. Prepared' = h
  BY <1>2, <1>7, ZenonT(60) DEF Prepared
<1>11. Cardinality(busy') = Cardinality(busy) + 1
  BY <1>1, <1>3, FS_AddElement, ZenonT(60)
<1>12. Cardinality(busy) = S - C
  BY <1>2, <1>3 DEF HeadsApart
<1>13. HeadsApart'
  <2>1. /\ \A n \in InFlight : submitted[n] \in busy
        /\ \A m, n \in InFlight : submitted[m] = submitted[n] => m = n
    BY ZenonT(60) DEF HeadsApart
  <2>2. InFlight' = InFlight /\ submitted' = submitted /\ Len(submitted') = S /\ Len(completed') = C
    BY <1>2, ZenonT(60) DEF InFlight
  <2>3. \A n \in InFlight : submitted[n] \in busy' /\ submitted[n] # h
    BY <1>1, <2>1
  <2>4. Cardinality(busy') = Len(submitted') - Len(completed') + 1
    BY <1>3, <1>11, <1>12, <2>2
  <2> QED BY <1>1, <1>2, <1>10, <2>1, <2>2, <2>3, <2>4, ZenonT(60) DEF HeadsApart
<1> QED BY <1>9, <1>13

(* The driver advances the available index.                                *)
LEMMA PublishRings ==
  ASSUME SystemTyped, HeadsApart, NEW done \in Nat, RingsAt(done), Publish
  PROVE HeadsApart' /\ RingsAt(done)'
<1> DEFINE S == Len(submitted)
           C == Len(completed)
<1>1. S \in Nat /\ C \in Nat /\ submitted \in Seq(Slot)
  BY Window, ZenonT(60) DEF SystemTyped, DriverTyped
<1>2. C <= done /\ done <= S /\ avail.idx = S % IndexSpace
  BY ZenonT(60) DEF RingsAt
<1>3. virtqueue_ring_slot(avail.idx) = S % RingSize /\ NextIndex(avail.idx) = (S + 1) % IndexSpace
  BY <1>1, <1>2, SlotOfCounter, ZenonT(60)
<1>4. /\ avail' = [avail EXCEPT !.idx = NextIndex(avail.idx)]
      /\ submitted' = Append(submitted, Prepared)
  BY <1>3, ZenonT(60) DEF Publish, Prepared
<1>5. /\ driver = "publish" /\ driver' # "publish"
      /\ UNCHANGED <<last_available_idx, used_idx, used, seen, completed, busy,
                     generation, observed_transport_generation>>
  BY DEF Publish, Instruction, hostVars, mmioVars
<1>6. avail'.idx = (S + 1) % IndexSpace /\ avail'.ring = avail.ring
  BY <1>3, <1>4 DEF SystemTyped, VirtqueueTypeOK
<1>7. Prepared \in busy /\ busy \subseteq Slot /\ \A n \in InFlight : submitted[n] # Prepared
  BY <1>5, ZenonT(60) DEF HeadsApart, SystemTyped, DriverTyped
<1>8. /\ Len(submitted') = S + 1 /\ submitted'[S + 1] = Prepared
      /\ \A n \in 1..S : submitted'[n] = submitted[n]
  BY <1>1, <1>4, <1>7, AppendProperties
<1>9. ASSUME NEW n \in done..S PROVE avail.ring[n % RingSize] = submitted'[n + 1]
  <2>1. CASE n = S
    BY <1>8, <2>1, ZenonT(60) DEF Prepared
  <2>2. CASE n \in done..(S - 1)
    <3>1. n + 1 \in 1..S
      BY <1>1, <1>2, <2>2
    <3> QED BY <1>8, <2>2, <3>1, ZenonT(60) DEF RingsAt
  <2> QED BY <1>1, <1>2, <2>1, <2>2
<1>10. ASSUME NEW n \in C..(done - 1) PROVE used.ring[n % RingSize].id = submitted'[n + 1]
  <2>1. n + 1 \in 1..S
    BY <1>1, <1>2
  <2> QED BY <1>8, <2>1, ZenonT(60) DEF RingsAt
<1>11. RingsAt(done)'
  <2>1. synchronize_queue_generation' = synchronize_queue_generation
    BY <1>5, ZenonT(60) DEF synchronize_queue_generation
  <2>2. Len(submitted') - 1 = S /\ Len(completed') = C /\ done <= Len(submitted')
    BY <1>1, <1>2, <1>5, <1>8
  <2>3. (\A n \in done..(Len(submitted) - 1) : avail.ring[n % RingSize] = submitted[n + 1])'
    BY <1>6, <1>9, <2>2, ZenonT(60)
  <2>4. (\A n \in Len(completed)..(done - 1) : used.ring[n % RingSize].id = submitted[n + 1])'
    BY <1>5, <1>10, <2>2, ZenonT(60)
  <2> QED BY <1>2, <1>5, <1>6, <1>8, <2>1, <2>2, <2>3, <2>4, ZenonT(60) DEF RingsAt
<1>12. HeadsApart'
  <2>1. /\ \A n \in InFlight : submitted[n] \in busy
        /\ \A m, n \in InFlight : submitted[m] = submitted[n] => m = n
        /\ Cardinality(busy) = S - C + 1
    BY <1>5, ZenonT(60) DEF HeadsApart
  <2>2. /\ \A n \in InFlight' : n = S + 1 \/ n \in InFlight
        /\ \A n \in InFlight : submitted'[n] = submitted[n]
    BY <1>1, <1>5, <1>8 DEF InFlight
  <2>3. \A n \in InFlight' : submitted'[n] \in busy'
    BY <1>5, <1>7, <1>8, <2>1, <2>2, ZenonT(60)
  <2>4. \A m, n \in InFlight' : submitted'[m] = submitted'[n] => m = n
    BY <1>7, <1>8, <2>1, <2>2, ZenonT(60)
  <2>5. Cardinality(busy') = Len(submitted') - Len(completed') + 0
    BY <1>1, <1>5, <1>8, <2>1
  <2> QED BY <1>5, <2>3, <2>4, <2>5, ZenonT(60) DEF HeadsApart
<1> QED BY <1>11, <1>12

(* The driver collects the oldest request in flight.                       *)
LEMMA CollectsOldest ==
  ASSUME SystemTyped, HeadsApart, NEW done \in Nat, RingsAt(done), Collect
  PROVE /\ Len(completed) < done
        /\ completed' = Append(completed, submitted[Len(completed) + 1])
        /\ busy' = busy \ {submitted[Len(completed) + 1]}
        /\ submitted' = submitted /\ seen' = (Len(completed) + 1) % IndexSpace
        /\ shadow' = Expected(submitted[Len(completed) + 1], TRUE)
<1> DEFINE C == Len(completed)
<1>1. C \in Nat
  BY Window
<1>2. C <= done /\ seen = C % IndexSpace /\ used.idx = done % IndexSpace
  BY ZenonT(60) DEF RingsAt
<1>3. seen # used.idx
  BY ZenonT(60) DEF Collect
<1>4. C < done
  BY <1>1, <1>2, <1>3
<1>5. virtqueue_ring_slot(seen) = C % RingSize /\ NextIndex(seen) = (C + 1) % IndexSpace
  BY <1>1, <1>2, SlotOfCounter, ZenonT(60)
<1>6. used.ring[virtqueue_ring_slot(seen)].id = submitted[C + 1]
  BY <1>1, <1>4, <1>5 DEF RingsAt
<1>7. /\ completed' = Append(completed, submitted[C + 1]) /\ busy' = busy \ {submitted[C + 1]}
      /\ shadow' = Expected(submitted[C + 1], TRUE)
      /\ submitted' = submitted /\ seen' = NextIndex(seen)
  BY <1>6, ZenonT(60) DEF Collect
<1> QED BY <1>4, <1>5, <1>7, ZenonT(60)

(* Collecting moves one request out of flight.                             *)
LEMMA CollectRings ==
  ASSUME SystemTyped, HeadsApart, NEW done \in Nat, RingsAt(done), Collect
  PROVE HeadsApart' /\ RingsAt(done)'
<1> DEFINE S == Len(submitted)
           C == Len(completed)
           h == submitted[C + 1]
<1>1. S \in Nat /\ C \in Nat /\ completed \in Seq(Slot) /\ submitted \in Seq(Slot)
        /\ IsFiniteSet(busy)
  BY Window, ZenonT(60) DEF SystemTyped, DriverTyped
<1>2. done <= S
  BY ZenonT(60) DEF RingsAt
<1>3. /\ C < done /\ completed' = Append(completed, h) /\ busy' = busy \ {h}
      /\ submitted' = submitted /\ seen' = (C + 1) % IndexSpace
  BY CollectsOldest, ZenonT(60)
<1>4. /\ driver # "publish" /\ driver' # "publish"
      /\ UNCHANGED <<queueVars, generation, observed_transport_generation>>
  BY ZenonT(60) DEF Collect, At, Instruction, hostVars, mmioVars
<1>5. UNCHANGED <<last_available_idx, used_idx, avail, used>>
  BY <1>4, ZenonT(60) DEF queueVars
<1>6. C + 1 \in InFlight /\ C + 1 \in 1..S
  BY <1>1, <1>2, <1>3 DEF InFlight
<1>7. h \in Slot
  BY <1>1, <1>6, ElementOfSeq
<1> HIDE DEF h
<1>8. Len(completed') = C + 1
  BY <1>1, <1>3, <1>7, AppendProperties, ZenonT(60)
<1>9. RingsAt(done)'
  <2>1. synchronize_queue_generation' = synchronize_queue_generation
    BY <1>4, <1>5, ZenonT(60) DEF synchronize_queue_generation
  <2>2. (\A n \in Len(completed)..(done - 1) : used.ring[n % RingSize].id = submitted[n + 1])'
    BY <1>1, <1>3, <1>5, <1>8 DEF RingsAt
  <2>3. Len(completed') <= done
    BY <1>1, <1>3, <1>8
  <2> QED BY <1>3, <1>5, <1>8, <2>1, <2>2, <2>3, ZenonT(60) DEF RingsAt
<1>10. HeadsApart'
  <2>1. /\ \A n \in InFlight : submitted[n] \in busy
        /\ \A m, n \in InFlight : submitted[m] = submitted[n] => m = n
        /\ Cardinality(busy) = S - C
    BY <1>1, <1>4 DEF HeadsApart
  <2>2. \A n \in InFlight' : n \in InFlight /\ n # C + 1
    BY <1>1, <1>3, <1>8 DEF InFlight
  <2>3. h \in busy /\ \A n \in InFlight' : submitted[n] # h
    BY <1>6, <2>1, <2>2, ZenonT(60) DEF h
  <2>4. Cardinality(busy') = Cardinality(busy) - 1
    BY <1>1, <1>3, <2>3, FS_RemoveElement, ZenonT(60)
  <2>5. Cardinality(busy') = Len(submitted') - Len(completed') + 0
    BY <1>1, <1>3, <1>8, <2>1, <2>4
  <2>6. \A n \in InFlight' : submitted'[n] \in busy'
    BY <1>3, <2>1, <2>2, <2>3, ZenonT(60)
  <2>7. \A m, n \in InFlight' : submitted'[m] = submitted'[n] => m = n
    BY <1>3, <2>1, <2>2, ZenonT(60)
  <2> QED BY <1>4, <2>5, <2>6, <2>7, ZenonT(60) DEF HeadsApart
<1> QED BY <1>9, <1>10

(* A reset leaves nothing in flight and makes the device start afresh.     *)
LEMMA ResetRings ==
  ASSUME SystemTyped, ResetDevice
  PROVE HeadsApart' /\ RingsAt(0)'
<1>1. /\ avail' = [avail EXCEPT !.idx = 0] /\ used' = [used EXCEPT !.idx = 0]
      /\ busy' = {} /\ seen' = 0 /\ submitted' = <<>> /\ completed' = <<>>
      /\ driver' = "acknowledge" /\ write_status_locked({}) /\ UNCHANGED hostVars
  BY ZenonT(60) DEF ResetDevice, Instruction
<1>2. generation' = generation + 1 /\ observed_transport_generation' = observed_transport_generation
  BY <1>1, ZenonT(60) DEF write_status_locked, reset_locked, hostVars
<1>3. observed_transport_generation \in 0..generation /\ generation \in Nat
  BY ZenonT(60) DEF SystemTyped, LoopTyped, MmioInv, MmioTypeOK
<1>4. generation' # observed_transport_generation'
  BY <1>2, <1>3
<1>5. synchronize_queue_generation'.last = 0 /\ synchronize_queue_generation'.used = 0
  BY <1>4, ZenonT(60) DEF synchronize_queue_generation, reset
<1>6. avail'.idx = 0 /\ used'.idx = 0 /\ Len(submitted') = 0 /\ Len(completed') = 0
  BY <1>1 DEF SystemTyped, VirtqueueTypeOK
<1>7. 0 % IndexSpace = 0
  BY VirtqueueAssumption
<1>8. RingsAt(0)'
  BY <1>1, <1>5, <1>6, <1>7 DEF RingsAt
<1>9. HeadsApart'
  <2>1. InFlight' = {}
    BY <1>6 DEF InFlight
  <2>2. Cardinality(busy') = 0
    BY <1>1, FS_EmptySet
  <2>3. Cardinality(busy') = Len(submitted') - Len(completed') + 0
    BY <1>6, <2>2
  <2> QED BY <1>1, <2>1, <2>3 DEF HeadsApart
<1> QED BY <1>8, <1>9

(* The device takes a chain only if the driver is ahead of it, and then    *)
(* the oldest unanswered one.                                              *)
LEMMA TakesOldest ==
  ASSUME SystemTyped, HeadsApart, NEW done \in Nat, RingsAt(done)
  PROVE /\ Pending(synchronize_queue_generation.last) = Len(submitted) - done
        /\ Pending(synchronize_queue_generation.last) <= RingSize
        /\ done < Len(submitted) =>
             available_head(synchronize_queue_generation.last) = submitted[done + 1]
<1> DEFINE S == Len(submitted)
           C == Len(completed)
<1>1. S \in Nat /\ C \in Nat /\ S - C <= RingSize
  BY Window
<1>2. IndexSpace \in Nat \ {0} /\ RingSize < IndexSpace /\ RingSize \in Nat
  BY VirtqueueAssumption
<1>3. /\ C <= done /\ done <= S /\ avail.idx = S % IndexSpace
      /\ synchronize_queue_generation.last = done % IndexSpace
  BY ZenonT(60) DEF RingsAt
<1>4. S - done < IndexSpace /\ S - done <= RingSize
  BY <1>1, <1>2, <1>3
<1>5. ((S % IndexSpace) + IndexSpace - (done % IndexSpace)) % IndexSpace = S - done
  BY <1>1, <1>2, <1>3, <1>4, RemainderDistance, ZenonT(60)
<1>6. Pending(synchronize_queue_generation.last) = S - done
  BY <1>3, <1>5 DEF Pending, virtqueue_index_delta
<1>7. virtqueue_ring_slot(synchronize_queue_generation.last) = done % RingSize
  BY <1>3, SlotOfCounter, ZenonT(60)
<1>8. ASSUME done < S PROVE avail.ring[done % RingSize] = submitted[done + 1]
  BY <1>1, <1>8 DEF RingsAt
<1> QED BY <1>4, <1>6, <1>7, <1>8, ZenonT(60) DEF available_head

(* The device answers a request.                                           *)
LEMMA CompletedRings ==
  ASSUME SystemTyped, HeadsApart, NEW done \in Nat, RingsAt(done), process_one, Completed
  PROVE /\ HeadsApart' /\ RingsAt(done + 1)' /\ done < Len(submitted)
        /\ Perform(submitted[done + 1]) /\ Answerable(submitted[done + 1])
<1> DEFINE S == Len(submitted)
           C == Len(completed)
           i == synchronize_queue_generation
           h == available_head(i.last)
<1>1. S \in Nat /\ C \in Nat /\ S - C <= RingSize /\ RingSize \in Nat
  BY Window, VirtqueueAssumption
<1>2. /\ C <= done /\ avail.idx = S % IndexSpace
      /\ i.last = done % IndexSpace /\ i.used = done % IndexSpace
  BY ZenonT(60) DEF RingsAt
<1>3. /\ Takes(i.last) /\ last_available_idx' = NextIndex(i.last) /\ avail' = avail
      /\ observed_transport_generation' = generation /\ generation' = generation
      /\ publish_used(i.used, [id |-> h, length |-> UsedLength(h)])
      /\ Perform(h) /\ Answerable(h)
  BY ZenonT(60) DEF Completed
<1>4. UNCHANGED driverVars
  BY ZenonT(60) DEF process_one
<1>5. UNCHANGED <<driver, busy, seen, submitted, completed>>
  BY <1>4, ZenonT(60) DEF driverVars
<1>6. Pending(i.last) \in 1..RingSize
  BY <1>3, ZenonT(60) DEF Takes, Consumable
<1>7. done < S /\ h = submitted[done + 1]
  BY <1>1, <1>6, TakesOldest
<1> DEFINE element == [id |-> h, length |-> UsedLength(h)]
<1>8. element.id = h
  OBVIOUS
<1> HIDE DEF element
<1>9. /\ used' = [idx |-> NextIndex(i.used),
                  ring |-> [used.ring EXCEPT ![virtqueue_ring_slot(i.used)] = element]]
      /\ used_idx' = NextIndex(i.used)
  BY <1>3, ZenonT(60) DEF publish_used, element
<1>10. /\ virtqueue_ring_slot(i.used) = done % RingSize /\ done % RingSize \in Slot
       /\ NextIndex(i.used) = (done + 1) % IndexSpace /\ NextIndex(i.last) = (done + 1) % IndexSpace
  BY <1>2, SlotOfCounter
<1>11. used.ring \in [Slot -> UsedElement]
  BY DEF SystemTyped, VirtqueueTypeOK
<1> HIDE DEF h, i
<1>12. /\ used'.idx = (done + 1) % IndexSpace
            /\ used'.ring[done % RingSize].id = submitted[done + 1]
       /\ \A x \in Slot : x # done % RingSize => used'.ring[x] = used.ring[x]
  BY <1>7, <1>8, <1>9, <1>10, <1>11, ZenonT(60)
<1>13. ASSUME NEW n \in C..done PROVE used'.ring[n % RingSize].id = submitted[n + 1]
  <2>1. CASE n = done
    BY <1>12, <2>1, ZenonT(60)
  <2>2. CASE n \in C..(done - 1)
    <3>1. n \in Nat /\ n < done /\ done - n < RingSize
      BY <1>1, <1>2, <1>7, <2>2
    <3>2. n % RingSize # done % RingSize /\ n % RingSize \in Slot
      BY <3>1, SlotsApart, SlotOfCounter, ZenonT(60)
    <3>3. used.ring[n % RingSize].id = submitted[n + 1]
      BY <2>2, ZenonT(60) DEF RingsAt
    <3> QED BY <1>12, <3>2, <3>3, ZenonT(60)
  <2> QED BY <1>1, <2>1, <2>2
<1>14. RingsAt(done + 1)'
  <2>1. /\ synchronize_queue_generation'.last = (done + 1) % IndexSpace
        /\ synchronize_queue_generation'.used = (done + 1) % IndexSpace
    BY <1>3, <1>9, <1>10, ZenonT(60) DEF synchronize_queue_generation
  <2>2. Len(completed') <= done + 1 /\ done + 1 <= Len(submitted') /\ (done + 1) - 1 = done
    BY <1>1, <1>2, <1>5, <1>7
  <2>3. (\A n \in (done + 1)..(Len(submitted) - 1) : avail.ring[n % RingSize] = submitted[n + 1])'
    <3>1. \A n \in (done + 1)..(S - 1) : n \in done..(S - 1)
      BY <1>1
    <3> QED BY <1>3, <1>5, <3>1, ZenonT(60) DEF RingsAt
  <2>4. (\A n \in Len(completed)..done : used.ring[n % RingSize].id = submitted[n + 1])'
    BY <1>5, <1>13, ZenonT(60)
  <2>5. (avail.idx = Len(submitted) % IndexSpace /\ seen = Len(completed) % IndexSpace)'
    BY <1>2, <1>3, <1>5, ZenonT(60) DEF RingsAt
  <2> QED BY <1>12, <2>1, <2>2, <2>3, <2>4, <2>5, ZenonT(60) DEF RingsAt
<1>15. HeadsApart'
  BY <1>3, <1>5, HeadsKept, ZenonT(60)
<1> QED BY <1>3, <1>7, <1>14, <1>15, ZenonT(60)

(* A status write other than the reset touches nothing but the status.     *)
LEMMA StatusOnly ==
  ASSUME NEW value, value # {}, write_status_locked(value)
  PROVE UNCHANGED <<generation, notifications, queues, queue_selector>>
BY ZenonT(60) DEF write_status_locked

(* A write to a queue register leaves generation and notifications alone.  *)
LEMMA RegisterOnly ==
  ASSUME \/ \E size : write_queue_num(size)
         \/ \E ring, address : write_queue_address(ring, address)
         \/ \E on : write_queue_ready(on)
         \/ \E n : write_driver_features_sel(n)
         \/ \E word : write_driver_features(word)
         \/ write_interrupt_ack
  PROVE UNCHANGED <<generation, notifications>>
BY ZenonT(60) DEF write_queue_num, write_queue_address, write_queue_ready, WriteQueue,
   write_driver_features_sel, write_driver_features, write_interrupt_ack, mmioVars

(* The handshake moves neither rings nor counters.                         *)
LEMMA HandshakeKeeps ==
  ASSUME Handshake
  PROVE /\ UNCHANGED <<generation, notifications>> /\ Quiet /\ Instruction
        /\ driver # "publish" /\ driver' \notin {"publish", "batch", "kick"}
<1>1. ASSUME NEW v \in {{"ACKNOWLEDGE"}, Base, Base \cup {"FEATURES_OK"},
                        Base \cup {"FEATURES_OK", "DRIVER_OK"}}, write_status_locked(v)
      PROVE UNCHANGED <<generation, notifications>>
  <2>1. v # {}
    BY <1>1 DEF Base
  <2> QED BY <1>1, <2>1, StatusOnly, ZenonT(60)
<1>2. ASSUME NEW ring, PlaceRing(ring) PROVE UNCHANGED <<generation, notifications>>
  BY <1>2, RegisterOnly, ZenonT(60) DEF PlaceRing
<1>3. UNCHANGED <<generation, notifications>>
  BY <1>1, <1>2, RegisterOnly, ZenonT(60) DEF Handshake
<1>4. driver # "publish" /\ driver' \notin {"publish", "batch", "kick"}
  BY ZenonT(60) DEF Handshake, At
<1>5. Quiet /\ Instruction
  BY ZenonT(60) DEF Handshake
<1> QED BY <1>3, <1>4, <1>5

Quiescent ==
  \/ process_one /\ NoNotification
  \/ synchronize_devices \/ Handshake \/ Kick \/ AckInterrupt \/ Fail \/ SpuriousKick \/ Other
  \/ UNCHANGED vars

(* The steps that move neither rings nor counters.                         *)
LEMMA QuiescentKeeps ==
  ASSUME Quiescent
  PROVE /\ UNCHANGED <<queueVars, generation, observed_transport_generation, seen, submitted,
                       completed, busy, exit>>
        /\ driver' = "publish" <=> driver = "publish"
<1>1. CASE process_one /\ NoNotification
  BY <1>1, ZenonT(60) DEF process_one, NoNotification, mmioVars, hostVars, driverVars
<1>2. CASE synchronize_devices \/ UNCHANGED vars
  BY <1>2, ZenonT(60) DEF synchronize_devices, vars, mmioVars, hostVars, driverVars
<1>3. CASE Handshake
  BY <1>3, HandshakeKeeps, ZenonT(60) DEF Quiet, Instruction, hostVars
<1>4. CASE Kick \/ AckInterrupt \/ Fail \/ SpuriousKick \/ Other
  <2>1. generation' = generation
    <3>1. ASSUME Fail PROVE generation' = generation
      <4>1. status \cup {"FAILED"} # {}
        OBVIOUS
      <4> QED BY <3>1, <4>1, StatusOnly, ZenonT(60) DEF Fail
    <3> QED BY <1>4, <3>1, ZenonT(60) DEF Kick, AckInterrupt, SpuriousKick,
               Other, write_queue_notify,
           write_interrupt_ack, mmioVars
  <2>2. /\ UNCHANGED <<queueVars, seen, submitted, completed, busy>> /\ Instruction
        /\ driver' = "run" /\ driver \in {"run", "kick"}
    BY <1>4, ZenonT(60) DEF Kick, AckInterrupt, Fail, SpuriousKick, Other, Quiet, At
  <2>3. driver' = "publish" <=> driver = "publish"
    BY <2>2
  <2> QED BY <2>1, <2>2, <2>3, ZenonT(60) DEF Instruction, hostVars
<1> QED BY <1>1, <1>2, <1>3, <1>4, ZenonT(60) DEF Quiescent

(* One notification at most, and only until the device's turn.             *)
LEMMA NextNotification ==
  ASSUME SystemTyped, NotificationTaken, [Next]_vars
  PROVE NotificationTaken'
<1>1. notifications \in Seq(Queue) /\ Len(notifications) \in Nat
  BY LenProperties, ZenonT(60) DEF SystemTyped, MmioInv, MmioTypeOK
<1>2. ASSUME process_one PROVE NotificationTaken'
  <2>1. phase = "device" /\ phase' = "sync"
    BY <1>2, ZenonT(60) DEF process_one
  <2>2. Len(notifications) <= 1
    BY <2>1 DEF NotificationTaken
  <2>3. \/ notifications = <<>> /\ notifications' = notifications
        \/ notifications # <<>> /\ notifications' = Tail(notifications)
    BY <1>2, ZenonT(60) DEF process_one, NoNotification, QueueError, Unanswerable, Completed,
       Undefined, pop_notification, mmioVars
  <2>4. Len(notifications') <= 0
    BY <1>1, <2>2, <2>3, HeadTailProperties, EmptySeq
  <2> QED BY <2>1, <2>4 DEF NotificationTaken
<1>3. ASSUME synchronize_devices PROVE NotificationTaken'
  <2>1. phase = "sync" /\ phase' = "hart" /\ notifications' = notifications
    BY <1>3, ZenonT(60) DEF synchronize_devices, mmioVars
  <2> QED BY <2>1 DEF NotificationTaken
<1>4. ASSUME Instruction,
             \/ notifications' = notifications \/ notifications' = <<>>
             \/ notifications' = Append(notifications, BlockQueue)
      PROVE NotificationTaken'
  <2>1. phase = "hart" /\ phase' = "device"
    BY <1>4, ZenonT(60) DEF Instruction
  <2>2. notifications = <<>>
    BY <1>1, <2>1, EmptySeq DEF NotificationTaken
  <2>3. BlockQueue \in Queue /\ Len(<<>>) = 0
    BY MmioAssumption DEF BlockQueue, Queue
  <2>4. Len(Append(notifications, BlockQueue)) = Len(notifications) + 1
    BY <1>1, <2>3, AppendProperties, ZenonT(60)
  <2>5. Len(notifications') <= 1
    <3>1. CASE notifications' = notifications
      BY <2>2, <2>3, <3>1
    <3>2. CASE notifications' = <<>>
      BY <2>3, <3>2
    <3>3. CASE notifications' = Append(notifications, BlockQueue)
      BY <2>2, <2>3, <2>4, <3>3
    <3> QED BY <1>4, <3>1, <3>2, <3>3
  <2> QED BY <2>1, <2>5 DEF NotificationTaken
<1>5. ASSUME \/ Submit \/ Publish \/ Kick \/ Collect \/ AckInterrupt \/ ResetDevice \/ SpuriousKick
             \/ Other
      PROVE /\ Instruction
            /\ \/ notifications' = notifications \/ notifications' = <<>>
               \/ notifications' = Append(notifications, BlockQueue)
  <2>1. Instruction
    BY <1>5, ZenonT(60) DEF Submit, Publish, Kick, Collect, AckInterrupt, ResetDevice,
       SpuriousKick, Other
  <2>2. CASE Submit \/ Publish \/ Collect \/ Other \/ AckInterrupt
    BY <2>1, <2>2, ZenonT(60) DEF Submit, Publish, Collect, Other, AckInterrupt,
       write_interrupt_ack, mmioVars
  <2>3. CASE Kick \/ SpuriousKick
    <3>1. write_queue_notify(BlockQueue)
      BY <2>3, ZenonT(60) DEF Kick, SpuriousKick
    <3> QED BY <2>1, <3>1 DEF write_queue_notify
  <2>4. CASE ResetDevice
    BY <2>1, <2>4, ZenonT(60) DEF ResetDevice, write_status_locked, reset_locked
  <2> QED BY <1>5, <2>2, <2>3, <2>4
<1>6. ASSUME Handshake \/ Fail PROVE Instruction /\ notifications' = notifications
  <2>1. CASE Handshake
    BY <2>1, HandshakeKeeps, ZenonT(60)
  <2>2. CASE Fail
    <3>1. status \cup {"FAILED"} # {}
      OBVIOUS
    <3> QED BY <2>2, <3>1, StatusOnly, ZenonT(60) DEF Fail
  <2> QED BY <1>6, <2>1, <2>2
<1>7. ASSUME UNCHANGED vars PROVE NotificationTaken'
  BY <1>7, ZenonT(60) DEF vars, mmioVars, NotificationTaken
<1> QED BY <1>2, <1>3, <1>4, <1>5, <1>6, <1>7, ZenonT(60) DEF Next

(* A failed request ends the run and moves no counter.                     *)
LEMMA Ends ==
  ASSUME process_one, QueueError \/ Unanswerable \/ Undefined
  PROVE exit' # "running" /\ UNCHANGED <<submitted, completed>>
<1>1. UNCHANGED driverVars
  BY ZenonT(60) DEF process_one
<1>2. exit' = "RuntimeIo" \/ exit' = "undefined"
  BY ZenonT(60) DEF QueueError, Unanswerable, Undefined
<1>3. exit' # "running"
  BY <1>2
<1> QED BY <1>1, <1>3, ZenonT(60) DEF driverVars

(* What is collected stays a prefix of what was submitted.                 *)
LEMMA PrefixKept ==
  ASSUME RingInv, [Next]_vars
  PROVE Prefix'
<1>1. /\ submitted \in Seq(Slot) /\ completed \in Seq(Slot)
      /\ Len(submitted) \in Nat /\ Len(completed) \in Nat /\ Prefix /\ SystemTyped
  BY LenProperties, ZenonT(60) DEF RingInv, SystemTyped, DriverTyped
<1>2. CASE UNCHANGED <<submitted, completed>>
  BY <1>1, <1>2, ZenonT(60) DEF Prefix
<1>3. ASSUME Publish PROVE Prefix'
  <2> DEFINE h == avail.ring[virtqueue_ring_slot(avail.idx)]
  <2>1. submitted' = Append(submitted, h) /\ completed' = completed
    BY <1>3, ZenonT(60) DEF Publish
  <2>2. h \in Slot
    BY <1>1, IndexTyped, ZenonT(60) DEF SystemTyped, VirtqueueTypeOK
  <2> HIDE DEF h
  <2>3. Len(submitted') = Len(submitted) + 1
          /\ \A n \in 1..Len(submitted) : submitted'[n] = submitted[n]
    BY <1>1, <2>1, <2>2, AppendProperties, ZenonT(60)
  <2> QED BY <1>1, <2>1, <2>3 DEF Prefix
<1>4. ASSUME Collect PROVE Prefix'
  <2> DEFINE C == Len(completed)
             h == submitted[C + 1]
  <2>1. exit = "running"
    BY <1>4, ZenonT(60) DEF Collect, Instruction
  <2>2. PICK done \in Nat : RingsAt(done) /\ HeadsApart
    BY <2>1, ZenonT(60) DEF RingInv
  <2>3. C < done /\ completed' = Append(completed, h) /\ submitted' = submitted
    BY <1>1, <1>4, <2>2, CollectsOldest, ZenonT(60)
  <2>4. done <= Len(submitted)
    BY <2>2, ZenonT(60) DEF RingsAt
  <2>5. C + 1 \in 1..Len(submitted)
    BY <1>1, <2>3, <2>4
  <2>6. h \in Slot
    BY <1>1, <2>5, ElementOfSeq
  <2> HIDE DEF h
  <2>7. /\ Len(completed') = C + 1 /\ completed'[C + 1] = h
        /\ \A n \in 1..C : completed'[n] = completed[n]
    BY <1>1, <2>3, <2>6, AppendProperties, ZenonT(60)
  <2> QED BY <1>1, <2>3, <2>5, <2>7 DEF Prefix, h
<1>5. ASSUME ResetDevice PROVE Prefix'
  <2>1. submitted' = <<>> /\ completed' = <<>>
    BY <1>5, ZenonT(60) DEF ResetDevice
  <2> QED BY <2>1 DEF Prefix
<1>6. ASSUME process_one \/ Submit PROVE UNCHANGED <<submitted, completed>>
  BY <1>6, ZenonT(60) DEF process_one, Submit, driverVars
<1>7. ASSUME Quiescent PROVE UNCHANGED <<submitted, completed>>
  BY <1>7, QuiescentKeeps, ZenonT(60)
<1> QED BY <1>2, <1>3, <1>4, <1>5, <1>6, <1>7, ZenonT(60) DEF Next, Quiescent

(* The invariant of the rings is inductive.                                *)
LEMMA NextRing ==
  ASSUME RingInv, [Next]_vars
  PROVE RingInv'
<1>1. SystemTyped' /\ Prefix' /\ NotificationTaken'
  BY NextTyped, PrefixKept, NextNotification DEF RingInv
<1> SUFFICES ASSUME exit' = "running" PROVE HeadsApart' /\ \E done \in Nat : RingsAt(done)'
  BY <1>1, ZenonT(60) DEF RingInv
<1>2. SystemTyped
  BY DEF RingInv
<1>3. ASSUME exit = "running" PROVE HeadsApart /\ \E done \in Nat : RingsAt(done)
  BY <1>3 DEF RingInv
<1>4. ASSUME Quiescent PROVE HeadsApart' /\ \E done \in Nat : RingsAt(done)'
  <2>1. exit = "running"
    BY <1>4, QuiescentKeeps
  <2>2. PICK done \in Nat : RingsAt(done) /\ HeadsApart
    BY <1>3, <2>1
  <2>3. UNCHANGED <<avail, busy, submitted, completed>>
    BY <1>4, QuiescentKeeps, ZenonT(60) DEF queueVars
  <2>4. HeadsApart'
    BY <1>4, <2>2, <2>3, QuiescentKeeps, HeadsKept, ZenonT(60)
  <2>5. RingsAt(done)'
    BY <1>4, <2>2, QuiescentKeeps, RingsKept, ZenonT(60)
  <2> QED BY <2>4, <2>5
<1>5. ASSUME Submit \/ Publish \/ Collect \/ ResetDevice
      PROVE HeadsApart' /\ \E done \in Nat : RingsAt(done)'
  <2>1. exit = "running"
    BY <1>5, ZenonT(60) DEF Submit, Publish, Collect, ResetDevice, Instruction
  <2>2. PICK done \in Nat : RingsAt(done) /\ HeadsApart
    BY <1>3, <2>1
  <2> QED BY <1>2, <1>5, <2>2, SubmitRings, PublishRings, CollectRings, ResetRings, ZenonT(60)
<1>6. ASSUME process_one, Completed PROVE HeadsApart' /\ \E done \in Nat : RingsAt(done)'
  <2>1. exit = "running"
    BY <1>6, ZenonT(60) DEF process_one
  <2>2. PICK done \in Nat : RingsAt(done) /\ HeadsApart
    BY <1>3, <2>1
  <2>3. HeadsApart' /\ RingsAt(done + 1)'
    BY <1>2, <1>6, <2>2, CompletedRings, ZenonT(60)
  <2> QED BY <2>3
<1>7. ASSUME process_one, QueueError \/ Unanswerable \/ Undefined PROVE FALSE
  BY <1>7, Ends
<1>8. process_one => \/ (process_one /\ NoNotification) \/ Completed
                     \/ QueueError \/ Unanswerable \/ Undefined
  BY ZenonT(60) DEF process_one
<1> QED BY <1>4, <1>5, <1>6, <1>7, <1>8, ZenonT(60) DEF Next, Quiescent

(* The rings start empty.                                                  *)
LEMMA StartRings == Init => RingInv /\ RingsAt(0)
<1> SUFFICES ASSUME Init PROVE RingInv /\ RingsAt(0)
  OBVIOUS
<1>1. /\ last_available_idx = 0 /\ used_idx = 0 /\ avail = [idx |-> 0, ring |-> [s \in Slot |-> 0]]
      /\ used = [idx |-> 0, ring |-> [s \in Slot |-> [id |-> 0, length |-> 0]]]
      /\ phase = "device" /\ driver = "acknowledge" /\ busy = {} /\ seen = 0
      /\ submitted = <<>> /\ completed = <<>>
  BY ZenonT(60) DEF Init
<1>2. notifications = <<>>
  BY ZenonT(60) DEF Init, MmioInit
<1>3. /\ avail.idx = 0 /\ used.idx = 0 /\ Len(submitted) = 0 /\ Len(completed) = 0
      /\ synchronize_queue_generation.last = 0 /\ synchronize_queue_generation.used = 0
  BY <1>1, ZenonT(60) DEF synchronize_queue_generation, reset
<1>4. 0 % IndexSpace = 0
  BY VirtqueueAssumption
<1>5. RingsAt(0)
  BY <1>1, <1>3, <1>4 DEF RingsAt
<1>6. HeadsApart
  <2>1. InFlight = {} /\ Cardinality(busy) = 0
    BY <1>1, <1>3, FS_EmptySet DEF InFlight
  <2> QED BY <1>1, <1>3, <2>1 DEF HeadsApart
<1>7. NotificationTaken /\ Prefix
  BY <1>1, <1>2, <1>3 DEF NotificationTaken, Prefix
<1> QED BY <1>5, <1>6, <1>7, InitTyped DEF RingInv

(* So the invariant holds at first.                                        *)
LEMMA InitRing == Init => RingInv
BY StartRings

(* A prefix, element by element, is a prefix.                              *)
LEMMA PrefixIs ==
  ASSUME NEW S, NEW s \in Seq(S), NEW t \in Seq(S), Len(t) <= Len(s),
         \A n \in 1..Len(t) : t[n] = s[n]
  PROVE t = SubSeq(s, 1, Len(t))
<1>1. Len(s) \in Nat /\ Len(t) \in Nat /\ 1 \in Int /\ Len(t) \in Int
  BY LenProperties
<1>2. \A i \in 1..Len(t) : s[i] \in S
  BY <1>1, ElementOfSeq, ZenonT(60)
<1> DEFINE u == SubSeq(s, 1, Len(t))
<1>3. /\ u \in Seq(S) /\ Len(u) = (IF 1 <= Len(t) THEN Len(t) - 1 + 1 ELSE 0)
      /\ \A i \in 1..(Len(t) - 1 + 1) : u[i] = s[1 + i - 1]
  BY <1>1, <1>2, SubSeqProperties
<1> HIDE DEF u
<1>4. Len(u) = Len(t) /\ \A i \in 1..Len(t) : u[i] = t[i]
  BY <1>1, <1>3
<1>5. t = u
  BY <1>3, <1>4, SeqEqual, ZenonT(60)
<1> QED BY <1>5, ZenonT(60) DEF u

(* What the invariant says of the properties.                              *)
LEMMA RingInvShows == RingInv => BlockTypeOK /\ CompletedInOrder /\ NotificationTaken
<1> SUFFICES ASSUME RingInv PROVE BlockTypeOK /\ CompletedInOrder /\ NotificationTaken
  OBVIOUS
<1>1. SystemTyped /\ Prefix /\ NotificationTaken
  BY ZenonT(60) DEF RingInv
<1>2. submitted \in Seq(Slot) /\ completed \in Seq(Slot)
  BY <1>1, ZenonT(60) DEF SystemTyped, DriverTyped
<1>3. CompletedInOrder
  BY <1>1, <1>2, PrefixIs, ZenonT(60) DEF Prefix, CompletedInOrder
<1>4. \A h \in Slot : chains[h].request \in Request /\ chains[h].tag \in 0..MaxRequest
  BY <1>1, ZenonT(60) DEF SystemTyped, RamTyped
<1>5. BlockTypeOK
  BY <1>1, <1>4, ZenonT(60) DEF SystemTyped, MmioInv, LoopTyped, RamTyped, DriverTyped, BlockTypeOK,
     Image, Data
<1> QED BY <1>1, <1>3, <1>5

(* The inductive invariant of the block device and its driver.             *)
THEOREM RingInvariant == BlockSpec => []RingInv
BY InitRing, NextRing, PTL DEF BlockSpec

(* Whatever the driver submits and the host does - chains that do not      *)
(* parse, spurious notifications, rings outside RAM, batches, resets with  *)
(* requests in flight, any number of wraps of the ring indices - requests  *)
(* complete once and in the order of submission, and no notification is    *)
(* left when the hart executes.                                            *)
THEOREM BlockOrder == BlockSpec => [](BlockTypeOK /\ CompletedInOrder /\ NotificationTaken)
BY RingInvariant, RingInvShows, PTL

=============================================================================
