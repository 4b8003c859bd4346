------------------------- MODULE MCVirtioTransport --------------------------
(***************************************************************************)
(* What the device makes of a driver that may do anything: registers       *)
(* written in any order (one queue, two feature pages, sizes a queue may   *)
(* not have), and descriptor tables with any contents.  A behaviour        *)
(* exercises one of the two.                                               *)
(***************************************************************************)
EXTENDS VirtioMmio, DescriptorChain

VARIABLE side

transportVars == <<side, mmioVars, ram>>

TransportInit == side \in {"registers", "descriptors"} /\ MmioInit /\ ChainInit

RegisterStep == side = "registers" /\ MmioNext /\ UNCHANGED <<side, ram>>

DescriptorStep == side = "descriptors" /\ WriteDescriptor /\ UNCHANGED <<side, mmioVars>>

TransportSpec == TransportInit /\ [][RegisterStep \/ DescriptorStep]_transportVars

(* Every chain the queue parses is the one the table spells, or is         *)
(* refused (ChainSound), whatever the driver left in the descriptor table. *)
DescriptorsSound == side = "descriptors" => ChainSound

-----------------------------------------------------------------------------
(* A table of three descriptors at 0, 2 and 4 and room for two more at 6   *)
(* and 8, in an address space of 16.                                       *)

Entry(address, length, flags, next) ==
  [address |-> address, length |-> length, flags |-> flags, next |-> next]

(* A buffer that ends the address space and one that leaves it; links to   *)
(* every entry, the entry itself included, and one past the table; an      *)
(* indirect table, one with a broken length, one that is not the whole     *)
(* request, one that cannot be read, one that is too long.                 *)
DirectEntries ==
  { Entry(15, 1, {"WRITE"}, 0), Entry(15, 2, {}, 0),
    Entry(0, 1, {"NEXT"}, 0), Entry(0, 1, {"NEXT"}, 1), Entry(0, 0, {"NEXT", "WRITE"}, 2),
    Entry(0, 1, {"NEXT"}, 3), Entry(6, 4, {"INDIRECT"}, 0), Entry(6, 3, {"INDIRECT"}, 0),
    Entry(6, 2, {"INDIRECT", "NEXT"}, 1), Entry(10, 2, {"INDIRECT"}, 0),
    Entry(6, 8, {"INDIRECT"}, 0) }

IndirectEntries ==
  { Entry(2, 1, {"NEXT"}, 1), Entry(2, 1, {"NEXT"}, 2), Entry(6, 2, {"INDIRECT"}, 0) }

Expectations == {<<>>, <<"DeviceReads", "DeviceWrites">>}

=============================================================================
