-------------------------- MODULE DescriptorChain ---------------------------
(***************************************************************************)
(* How the device turns a descriptor head into data segments, and when it  *)
(* would interrupt the driver (src/devices/virtqueue.cpp).  Guest RAM is a *)
(* function from the addresses where a descriptor can be read to the       *)
(* descriptor there; the driver may rewrite any of them between two        *)
(* requests.  A descriptor's flags are the set of its flag names.          *)
(***************************************************************************)
EXTENDS Naturals, Sequences

CONSTANTS
  AddressSpace,      \* 2^64 in the code
  IndexMax,          \* largest 16-bit index
  kDescriptorSize,   \* bytes between two descriptors (16 in the code)
  TableAddress,      \* address of the queue's descriptor table
  TableSize,         \* entries of that table
  DirectDescriptor,  \* descriptors the driver writes into the table
  OtherAddress,      \* readable addresses outside the table
  OtherDescriptor,   \* descriptors the driver writes there
  Expectation        \* request layouts a device may ask for

Flag == {"NEXT", "WRITE", "INDIRECT"}
Descriptor == [address : 0..(AddressSpace - 1), length : Nat, flags : SUBSET Flag, next : 0..IndexMax]

ASSUME ChainAssumption ==
  /\ AddressSpace \in Nat \ {0} /\ IndexMax \in Nat /\ kDescriptorSize \in Nat \ {0}
  /\ TableAddress \in Nat /\ TableSize \in 1..IndexMax
  /\ DirectDescriptor \cup OtherDescriptor \subseteq Descriptor
  /\ \A d \in DirectDescriptor \cup OtherDescriptor :
       "INDIRECT" \notin d.flags => d.length * IndexMax < AddressSpace
  /\ OtherAddress \subseteq Nat
  /\ Expectation \subseteq Seq({"Any", "DeviceReads", "DeviceWrites"})

VARIABLE ram     \* the descriptors in guest RAM

descriptor_address(table, index) == (table + index * kDescriptorSize) % AddressSpace

TableSlots == {descriptor_address(TableAddress, i) : i \in 0..(TableSize - 1)}

ChainInit ==
  ram = [a \in TableSlots \cup OtherAddress |->
           [address |-> 0, length |-> 0, flags |-> {}, next |-> 0]]

(* The driver writes a descriptor.                                         *)
WriteDescriptor ==
  \/ \E a \in TableSlots, d \in DirectDescriptor : ram' = [ram EXCEPT ![a] = d]
  \/ \E a \in OtherAddress, d \in OtherDescriptor : ram' = [ram EXCEPT ![a] = d]

-----------------------------------------------------------------------------
(* parse_table.                                                            *)

add_overflows(lhs, rhs) == lhs + rhs >= AddressSpace

direction_matches(writes, expected) ==
  \/ expected = "Any"
  \/ expected = "DeviceReads" /\ ~writes
  \/ expected = "DeviceWrites" /\ writes

mut_index_out_of_range(index, table_size) == index > table_size

index_out_of_range(index, table_size) == index >= table_size

Segment(d) == [address |-> d.address, length |-> d.length, device_writes |-> "WRITE" \in d.flags]

LengthOf(segments) ==
  LET Sum[i \in 0..Len(segments)] == IF i = 0 THEN 0 ELSE Sum[i - 1] + segments[i].length
  IN  Sum[Len(segments)]

failure(w, code) == [w EXCEPT !.code = code, !.segments = <<>>]

(* One pass of the loop, with the walk w standing at w.index.  The code    *)
(* "Indirect" passes the descriptor on to parse_indirect_descriptor.       *)
read_raw_descriptor(w, table) == descriptor_address(table, w.index)

visit(w, table, table_size, allow_indirect, expected) ==
  LET a == read_raw_descriptor(w, table)
      d == ram[a]
      n == Len(w.segments)
      seen == [w EXCEPT !.visited = @ \cup {w.index}, !.read = @ \cup {a}]
      longer == [seen EXCEPT !.segments = Append(@, Segment(d)), !.index = d.next]
      mismatch == failure(seen, "DirectionMismatch")
  IN  IF index_out_of_range(w.index, table_size) THEN failure(w, "IndexOutOfRange")
      ELSE IF w.index \in w.visited THEN failure(w, "ChainLoop")
      ELSE IF a \notin DOMAIN ram THEN failure(seen, "DmaReadFailure")
      ELSE IF "INDIRECT" \in d.flags
           THEN IF ~allow_indirect \/ n > 0 THEN failure(seen, "IndirectUnsupported")
                ELSE [seen EXCEPT !.code = "Indirect"]
      ELSE IF \/ expected # <<>> /\ n >= Len(expected)
              \/ expected # <<>> /\ ~direction_matches("WRITE" \in d.flags, expected[n + 1])
           THEN mismatch
      ELSE IF \/ d.length # 0 /\ add_overflows(d.address, d.length - 1)
              \/ add_overflows(LengthOf(w.segments), d.length)
           THEN failure(seen, "AddressOverflow")
      ELSE IF "NEXT" \in d.flags THEN longer
      ELSE IF expected # <<>> /\ n + 1 # Len(expected) THEN mismatch
      ELSE [longer EXCEPT !.code = "None"]

(* The whole loop: at most table_size passes.                              *)
walk(table, table_size, head, allow_indirect, expected) ==
  LET start == [index |-> head, visited |-> {}, segments |-> <<>>, read |-> {}, code |-> "walking"]
      After[count \in 0..table_size] ==
        IF count = 0 THEN start
        ELSE LET w == After[count - 1] IN
             IF w.code = "walking" THEN visit(w, table, table_size, allow_indirect, expected) ELSE w
      last == After[table_size]
  IN  IF head >= table_size THEN failure(start, "IndexOutOfRange")
      ELSE IF last.code = "walking" THEN failure(last, "ChainTooLong") ELSE last

parse_indirect_descriptor(w, d, expected) ==
  LET count == d.length \div kDescriptorSize IN
  IF "WRITE" \in d.flags \/ "NEXT" \in d.flags \/ d.length = 0 \/ d.length % kDescriptorSize # 0
  THEN failure(w, "IndirectUnsupported")
  ELSE IF count > IndexMax THEN failure(w, "ChainTooLong")
  ELSE walk(d.address, count, 0, FALSE, expected)

parse_table(table, table_size, head, allow_indirect, expected) ==
  LET w == walk(table, table_size, head, allow_indirect, expected)
  IN  IF w.code = "Indirect"
      THEN parse_indirect_descriptor(w, ram[read_raw_descriptor(w, table)], expected)
      ELSE w

parse_descriptor_chain(ready, head, indirect_enabled, expected) ==
  IF ~ready THEN [code |-> "QueueNotReady", segments |-> <<>>, read |-> {}]
  ELSE parse_table(TableAddress, TableSize, head, indirect_enabled, expected)

-----------------------------------------------------------------------------
(* Used-buffer notifications.  Ring indices count modulo IndexMax + 1.     *)

virtqueue_event_needed(event_index, new_index, old_index) ==
  (new_index - event_index + IndexMax) % (IndexMax + 1) < (new_index - old_index) % (IndexMax + 1)

(* used_event is the driver's threshold; no_interrupt its flag.            *)
driver_notification_needed(used_idx, event_idx_enabled, no_interrupt, used_event) ==
  IF event_idx_enabled
  THEN virtqueue_event_needed(used_event, used_idx, (used_idx + IndexMax) % (IndexMax + 1))
  ELSE ~no_interrupt

-----------------------------------------------------------------------------
(* What a chain is: a path of distinct table entries, each but the last    *)
(* naming the next one.                                                    *)

Paths(table_size) ==
  UNION {{p \in [1..k -> 0..(table_size - 1)] : \A i, j \in 1..k : p[i] = p[j] => i = j} :
           k \in 1..table_size}

LegalPath(p, table, head, expected) ==
  LET Entry(i) == descriptor_address(table, p[i])
      Fits(i) == LET d == ram[Entry(i)] IN
                 /\ "INDIRECT" \notin d.flags
                 /\ d.address + d.length <= AddressSpace
                 /\ ("NEXT" \in d.flags) = (i < Len(p))
                 /\ i < Len(p) => p[i + 1] = d.next
                 /\ expected # <<>> =>
                      CASE expected[i] = "Any" -> TRUE
                        [] expected[i] = "DeviceReads" -> "WRITE" \notin d.flags
                        [] expected[i] = "DeviceWrites" -> "WRITE" \in d.flags
  IN  /\ p[1] = head
      /\ expected # <<>> => Len(p) = Len(expected)
      /\ \A i \in 1..Len(p) : Entry(i) \in DOMAIN ram /\ Fits(i)

Span(table, table_size) == {descriptor_address(table, i) : i \in 0..(table_size - 1)}

(* The segments a request is made of, as the empty set or the set of one   *)
(* sequence, and the addresses the device may read to find out.            *)
Chain(table, table_size, head, expected) ==
  [reads |-> Span(table, table_size),
   found |-> {[i \in 1..Len(p) |-> Segment(ram[descriptor_address(table, p[i])])] :
                p \in {q \in Paths(table_size) : LegalPath(q, table, head, expected)}}]

RequestAt(head, indirect_enabled, expected) ==
  LET a == descriptor_address(TableAddress, head)
      d == ram[a]
      indirect == /\ indirect_enabled /\ head < TableSize
                  /\ d.flags = {"INDIRECT"} /\ d.length > 0
                  /\ d.length % kDescriptorSize = 0
                  /\ d.length \div kDescriptorSize <= IndexMax
  IN  IF indirect THEN Chain(d.address, d.length \div kDescriptorSize, 0, expected)
      ELSE Chain(TableAddress, TableSize, head, expected)

(* Whatever the driver leaves in guest RAM - links that loop or leave the  *)
(* table, indirect tables that are nested, empty, unreadable or too long,  *)
(* buffers that run over the end of the address space - parsing succeeds   *)
(* exactly for a well-formed chain, gives exactly its segments, gives none *)
(* on failure, and reads no descriptor outside the table it walks.  The    *)
(* event-index test interrupts exactly when the used index passes the      *)
(* driver's threshold, across the wrap of the 16-bit index.                *)
ChainSound ==
  /\ \A head \in 0..IndexMax, indirect_enabled \in BOOLEAN, expected \in Expectation :
       LET result == parse_descriptor_chain(TRUE, head, indirect_enabled, expected)
           request == RequestAt(head, indirect_enabled, expected)
       IN  /\ result.code = "None" => request.found = {result.segments}
           /\ result.code # "None" => request.found = {} /\ result.segments = <<>>
           /\ result.read \subseteq TableSlots \cup request.reads
  /\ \A i, event \in 0..IndexMax :
       driver_notification_needed((i + 1) % (IndexMax + 1), TRUE, FALSE, event) = (event = i)

=============================================================================
