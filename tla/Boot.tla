-------------------------------- MODULE Boot --------------------------------
(***************************************************************************)
(* Building the machine and loading it: address ranges, the region table   *)
(* of the bus (src/bus), build_machine (src/runtime/machine.cpp) and       *)
(* load_boot_images (src/runtime/boot.cpp).  Memory is a function on the   *)
(* RAM addresses; a byte is <<image, offset in the image>>, so what was    *)
(* loaded where can be told.  Files are their sizes: 0 is an empty file,   *)
(* Unreadable one that cannot be read.                                     *)
(***************************************************************************)
EXTENDS Integers

CONSTANTS
  AddressMax,      \* largest address (2^64 - 1 in the code)
  Device,          \* address ranges of the MMIO devices
  Layout,          \* boot layouts
  Image            \* the image files: sizes of BIOS, kernel and device tree

Unreadable == -1

(* AddressRange.                                                           *)
create(base, size) == size # 0 /\ base <= AddressMax - size

contains_address(range, a) == a >= range.base /\ a < range.base + range.size

contains_span(range, a, length) ==
  length # 0 /\ contains_address(range, a) /\ length <= range.base + range.size - a

mut_overlaps(range, other) == range.base >= other.base /\ range.base < other.base + other.size

overlaps(range, other) ==
  range.base < other.base + other.size /\ other.base < range.base + range.size

(* Addresses and sizes are unsigned; a file that cannot be read has size   *)
(* Unreadable.  The PhysicalMemory constructor rejects a range create      *)
(* refuses.                                                                *)
ASSUME BootAssumption ==
  /\ AddressMax \in Nat
  /\ \A d \in Device : d.base \in Nat /\ d.size \in Nat /\ create(d.base, d.size)
  /\ \A l \in Layout :
       /\ l.ram.base \in Nat /\ l.ram.size \in Nat /\ create(l.ram.base, l.ram.size)
       /\ l.bios \in Nat /\ l.kernel \in Nat /\ l.fdt \in Nat /\ l.reserved \in Nat
  /\ \A i \in Image : i.bios \in Int /\ i.kernel \in Int /\ i.fdt \in Nat

Blank(ram) == [a \in ram.base..(ram.base + ram.size - 1) |-> <<"zero", 0>>]

(* register_region for RAM and the devices, in any order.                  *)
RegionsAccepted(ram) ==
  /\ \A d \in Device : ~overlaps(d, ram)
  /\ \A d, e \in Device : d # e => ~overlaps(d, e)

(* locate: a region that holds the whole access, or none.                  *)
locate(ram, a, length) == {r \in Device \cup {ram} : contains_span(r, a, length)}

-----------------------------------------------------------------------------
(* load_boot_images.                                                       *)

FdtAccepted(layout) ==
  /\ create(layout.fdt, layout.reserved)
  /\ layout.fdt >= layout.ram.base
  /\ layout.fdt + layout.reserved <= layout.ram.base + layout.ram.size

(* The byte at a after size bytes of an image were written at address.     *)
write_bytes(byte, a, name, address, size) ==
  IF a \in address..(address + size - 1) THEN <<name, a - address>> ELSE byte

Placed(layout, image) ==
  [bios |-> [base |-> layout.bios, size |-> image.bios],
   kernel |-> [base |-> layout.kernel, size |-> image.kernel],
   fdt |-> [base |-> layout.fdt, size |-> image.fdt]]

Placeable(layout, image) ==
  LET p == Placed(layout, image)
      Inside(r) == r.base >= layout.ram.base /\ r.base + r.size <= layout.ram.base + layout.ram.size
  IN  /\ \A n \in DOMAIN p : create(p[n].base, p[n].size)
      /\ \A n \in DOMAIN p : Inside(p[n])
      /\ ~overlaps(p.bios, p.kernel) /\ ~overlaps(p.bios, p.fdt) /\ ~overlaps(p.kernel, p.fdt)

read_binary(size) == size > 0

Unloaded(layout) == [ok |-> FALSE, memory |-> Blank(layout.ram), pc |-> 0, a0 |-> 0, a1 |-> 0]

(* The bytes of the three images reach RAM only once every check passed;   *)
(* then the hart is reset at the BIOS with a0 = 0 and a1 = the device      *)
(* tree.                                                                   *)
load_boot_images(layout, image) ==
  LET bios(a) == write_bytes(Blank(layout.ram)[a], a, "bios", layout.bios, image.bios)
      kernel(a) == write_bytes(bios(a), a, "kernel", layout.kernel, image.kernel)
      fdt(a) == write_bytes(kernel(a), a, "fdt", layout.fdt, image.fdt)
  IN  IF /\ read_binary(image.bios) /\ read_binary(image.kernel)
         /\ FdtAccepted(layout) /\ image.fdt <= layout.reserved
         /\ Placeable(layout, image)
      THEN [ok |-> TRUE, memory |-> [a \in DOMAIN Blank(layout.ram) |-> fdt(a)],
            pc |-> layout.bios, a0 |-> 0, a1 |-> layout.fdt]
      ELSE Unloaded(layout)

(* build_machine: the exit code, and the loaded machine if it is Success.  *)
build_machine(net, layout, disk_opens, image) ==
  LET loaded == load_boot_images(layout, image)
      Result(code, boot) == [code |-> code, layout |-> layout, image |-> image, boot |-> boot]
  IN  CASE net # "none" -> Result("Resource", Unloaded(layout))
        [] ~RegionsAccepted(layout.ram) -> Result("Internal", Unloaded(layout))
        [] ~disk_opens -> Result("Resource", Unloaded(layout))
        [] OTHER -> Result(IF loaded.ok THEN "Success" ELSE "ImageFormat", loaded)

-----------------------------------------------------------------------------
(* What the firmware may rely on.                                          *)

(* Every byte of an image is where its address says.                       *)
Loaded(m, name, address, size) ==
  \A i \in 0..(size - 1) :
    address + i \in DOMAIN m.boot.memory /\ m.boot.memory[address + i] = <<name, i>>

(* An access to RAM reaches RAM, as a whole, and no device answers it.     *)
RamReached(m) ==
  \A a \in DOMAIN m.boot.memory :
    locate(m.layout.ram, a, 1) = {m.layout.ram} /\ \A d \in Device : ~contains_address(d, a)

MachineLoaded(m) ==
  IF m.code = "Success"
  THEN /\ Loaded(m, "bios", m.layout.bios, m.image.bios)
       /\ Loaded(m, "kernel", m.layout.kernel, m.image.kernel)
       /\ Loaded(m, "fdt", m.layout.fdt, m.image.fdt)
       /\ \A a \in DOMAIN m.boot.memory :
            m.boot.memory[a][1] = "zero" \/ m.boot.memory[a] \in
              {<<"bios", a - m.layout.bios>>, <<"kernel", a - m.layout.kernel>>,
               <<"fdt", a - m.layout.fdt>>}
       /\ m.boot.memory[m.boot.pc] = <<"bios", 0>> /\ m.boot.a0 = 0
       /\ m.boot.memory[m.boot.a1] = <<"fdt", 0>>
       /\ RamReached(m)
  ELSE \A a \in DOMAIN m.boot.memory : m.boot.memory[a][1] = "zero"
=============================================================================
