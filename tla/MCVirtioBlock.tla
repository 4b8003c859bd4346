---------------------------- MODULE MCVirtioBlock ---------------------------
(* Requests for an image of two sectors.                                   *)
EXTENDS VirtioBlock

Readable == [writes |-> FALSE, mapped |-> TRUE]
Writable == [writes |-> TRUE, mapped |-> TRUE]
Unmapped == [writes |-> TRUE, mapped |-> FALSE]

Chain(type, sector, segments) ==
  [type |-> type, sector |-> sector, chain |-> TRUE, answer |-> TRUE,
   segments |-> segments]

(* One write, for long sequences of requests.                              *)
FewRequests == { Chain("OUT", 0, <<Readable>>) }

(* Reads and writes of one and two sectors; writes past the end of the     *)
(* image and with a wrong direction, a read into no RAM, a request type    *)
(* the device does not know; a chain that does not parse, a read and a     *)
(* write of one segment with the wrong direction, a write whose status     *)
(* byte is not in RAM.                                                     *)
AllRequests ==
  { Chain("OUT", 0, <<Readable, Readable>>), Chain("OUT", 1, <<Readable>>),
    Chain("IN", 0, <<Writable, Writable>>),
    Chain("OUT", 1, <<Readable, Readable>>), Chain("OUT", 0, <<Readable, Writable>>),
    Chain("IN", 0, <<Writable, Unmapped>>), Chain("OTHER", 0, <<Writable>>),
    [Chain("OUT", 0, <<Readable>>) EXCEPT !.chain = FALSE],
    [Chain("OUT", 0, <<Readable, Readable>>) EXCEPT !.answer = FALSE],
    Chain("IN", 0, <<Readable>>), Chain("OUT", 0, <<Writable>>) }

=============================================================================
