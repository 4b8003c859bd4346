------------------------------- MODULE MCHost -------------------------------
(***************************************************************************)
(* The two programs of the repository as the host sees them: the emulator  *)
(* process from its command line to its exit code, the console inside its  *)
(* loop, and the conformance runner.  A behaviour exercises one of them;   *)
(* the state of the others does not move.                                  *)
(***************************************************************************)
EXTENDS EventLoop, Lifecycle, Conformance

VARIABLE part

hostParts == <<part, vars, lifecycleVars, conformanceVars>>

HostInit ==
  /\ part \in {"console", "process", "conformance"}
  /\ Init /\ LifecycleInit /\ ConformanceInit

ConsoleStep == part = "console" /\ Next /\ UNCHANGED <<part, lifecycleVars, conformanceVars>>

ProcessStep == part = "process" /\ LifecycleNext /\ UNCHANGED <<part, vars, conformanceVars>>

ConformanceStep ==
  part = "conformance" /\ ConformanceNext /\ UNCHANGED <<part, vars, lifecycleVars>>

(* A process that has ended stays ended.                                   *)
Ended == (exit # "running" \/ stage = "ended") /\ UNCHANGED hostParts

HostNext == ConsoleStep \/ ProcessStep \/ ConformanceStep \/ Ended

(* The loop turns and the terminal goes on accepting output, as in         *)
(* EventLoopSpec; the host answers every call main makes, an interrupted   *)
(* one too.                                                                *)
HostFairness ==
  /\ WF_hostParts(ConsoleStep)
  /\ SF_hostParts(ConsoleStep /\ Accepted)
  /\ WF_hostParts(part = "process" /\ HostCalls /\ UNCHANGED <<part, vars, conformanceVars>>)

HostSpec == HostInit /\ [][HostNext]_hostParts /\ HostFairness

-----------------------------------------------------------------------------
(* RAM at 8..15, a device below it, one that would lie inside.             *)
Devices == {[base |-> 2, size |-> 2], [base |-> 5, size |-> 3]}

Ram == [base |-> 8, size |-> 8]

At3(ram, bios, kernel, fdt, reserved) ==
  [ram |-> ram, bios |-> bios, kernel |-> kernel, fdt |-> fdt, reserved |-> reserved]

(* Every placement of the kernel and the device tree around a BIOS at the  *)
(* start of RAM or just before it, at the end of RAM and of the address    *)
(* space; RAM on top of a device.                                          *)
Layouts ==
  {At3(Ram, bios, kernel, fdt, reserved) :
     bios \in {7, 8, 11}, kernel \in {8, 9, 10, 13, 15, 30}, fdt \in {10, 12, 14, 15}, reserved \in {0, 2}}
  \cup {At3([base |-> 6, size |-> 9], 6, 9, 12, 2)}

Images == [bios : {Unreadable, 0, 1, 3}, kernel : {0, 1, 2}, fdt : {1, 2, 3}]

Bios == <<"--bios", "b">>
Kernel == <<"--kernel", "k">>
Disk == <<"--disk", "d">>

CommandLines ==
  { Bios \o Kernel \o Disk, Disk \o Kernel \o Bios \o <<"--net", "none", "--kernel-format", "raw">>,
    Bios \o Kernel \o Disk \o <<"--net", "tap0">>, Bios \o <<"-h">>, <<"--bios", "--help">>,
    Bios \o Bios, Bios \o Kernel \o Disk \o <<"--bios-format", "elf">>, <<"--disk">>, <<>>,
    <<"--kernel", "">>, <<"--other", "x">>, <<"b">>, Kernel \o Disk }

-----------------------------------------------------------------------------
ElfRam == [base |-> 8, size |-> 12]

Load1(offset, virtual, physical, file_size, memory_size) ==
  [type |-> "LOAD", offset |-> offset, virtual |-> virtual, physical |-> physical,
   file_size |-> file_size, memory_size |-> memory_size]

SegmentChoice ==
  { Load1(0, 8, 0, 3, 3), Load1(2, 0, 10, 2, 12), Load1(0, 0, 8, 1, 11), Load1(4, 0, 19, 1, 1),
    Load1(4, 0, 20, 1, 1), Load1(5, 0, 9, 2, 2), Load1(1, 0, 9, 3, 2), Load1(6, 0, 9, 0, 0),
    [Load1(9, 0, 0, 9, 9) EXCEPT !.type = "NOTE"] }

Symbol(name, value) == [name |-> name, value |-> value]
Table(usable, symbols) == [usable |-> usable, symbols |-> symbols]

Tables ==
  { <<>>, <<Table(FALSE, <<Symbol("tohost", 8)>>), Table(TRUE, <<Symbol("x", 9), Symbol("tohost", 12)>>)>>,
    <<Table(TRUE, <<Symbol("tohost", 14), Symbol("tohost", 8)>>)>> }

(* Files of eight bytes; the words 1, 3, a console command and one that is *)
(* none of them, for images that hold them at tohost.                      *)
File(b0, b6, b7) ==
  [i \in 0..7 |-> CASE i = 0 -> b0 [] i = 6 -> b6 [] i = 7 -> b7 [] OTHER -> 0]

(* Images that place segments around one another, and images with eight    *)
(* or four bytes of the file at tohost.                                    *)
Elfs ==
  [header : BOOLEAN, size : {6}, data : {[i \in 0..5 |-> 0]}, entry : {8, 18, 19}, tables : Tables,
   segments : {<<a>> : a \in SegmentChoice} \cup {<<a, b>> : a, b \in SegmentChoice}]
  \cup
  [header : {TRUE}, size : {8}, entry : {8}, tables : Tables,
   data : {File(1, 0, 0), File(3, 0, 0), File(98, 1, 1), File(1, 1, 1), File(1, 1, 0)},
   segments : {<<Load1(0, 0, 12, n, 8)>> : n \in {4, 8}}]

Characters == {1, 3, 97}

Numerals == [n \in {"1", "3"} |-> IF n = "1" THEN 1 ELSE 3]

Argvs ==
  { <<>>, <<"t">>, <<"t", "--max-instructions">>, <<"t", "--max-instructions", "0">>,
    <<"t", "--max-instructions", "3">>, <<"t", "--max-instructions", "3", "--max-instructions", "1">>,
    <<"t", "--limit", "3">> }

=============================================================================
