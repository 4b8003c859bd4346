# Verification of the RV64GCV emulator

TLA+ models, TLC configurations and TLAPS proofs for the emulator in `src/`.
Paths below are relative to the repository root; `specs/...` are its documents.

## 1. The system

`main` parses its command line, builds the machine (bus, RAM, devices, images),
installs the signal handlers, makes the terminal raw and calls `run_machine`
(`src/runtime/runner.cpp`). One host thread emulates one hart; the loop is:

1. `VirtioBlockDevice::process_one` takes at most one queue notification;
2. `EventLoop::run_once` (`src/runtime/event_loop.cpp`) moves terminal input into
   the UART, moves UART output to the terminal, advances the CLINT, projects the
   device levels (CLINT, UART, then PLIC) into `mip`, and lets the hart take one
   interrupt or else execute one instruction.

There is no thread-level race. What makes the code hard is that everything outside
the hart happens *between two instructions* (or, for DMA, between two bus
transactions, `specs/05-memory-mmu-sv39.md:86`) of guest software in the middle of
a protocol of many instructions; that signals and failing host calls meet the
process anywhere; and that instruction semantics have many corners that no test
enumerates. A second program, `src/conformance`, loads a test image and looks
at a word of its memory after every instruction for characters and the verdict.

### Inventory

| Component | Source | State | Hard behaviours | Module |
|---|---|---|---|---|
| PLIC | `devices/plic.cpp` | level, pending, claimed_by, priority, enable, threshold | level changes while claimed; completion by the wrong context | `Plic`, `Gateway` |
| CLINT | `devices/clint.cpp` | mtime, mtimecmp, msip | updates and reads in halves, carry, wrap | `Clint` |
| Traps, privilege, interrupt CSRs | `core/csr.cpp`, `core/cpu.cpp` | privilege, mstatus, mie, mip, delegation, epc | nesting across levels, masked windows | `Trap` |
| UART 16550 | `devices/uart16550.cpp` | two FIFOs, IER, LCR, overrun | FIFOs at their limits | `Uart16550` |
| Event loop | `runtime/event_loop.cpp` | refused byte | order of the projections, refused output | `EventLoop` |
| VirtIO transport | `devices/virtio_mmio.cpp` | status, features, queues, notifications, interrupt status, generation | any order of writes, reset at any time | `VirtioMmio` |
| Virtqueue | `devices/virtqueue.cpp` | device indices, rings and descriptors in RAM | 16-bit wrap, reset in flight, malformed chains | `Virtqueue`, `DescriptorChain` |
| Block device, disk | `devices/virtio_block.cpp`, `platform/disk_backend.cpp` | observed generation, image | each step may fail after earlier ones took effect | `VirtioBlock` |
| LR/SC monitor, AMO | `bus/bus.cpp`, `core/cpu.cpp` | reservation, token counter | DMA between LR and SC, token wrap, traps | `Reservation` |
| MMU, TLB | `memory/mmu.cpp` | 64 TLB slots with ages, A/D bits in memory | stale entries, page table writes between read and update | `Mmu` |
| Bus regions, machine, boot images | `bus/address_range.cpp`, `bus/bus.cpp`, `runtime/machine.cpp`, `runtime/boot.cpp` | regions, RAM, reset state | ranges at their limits, one failure of several | `Boot` |
| Process: CLI, signals, terminal, run loop, main | `runtime/cli.cpp`, `runtime/host_signal.cpp`, `platform/terminal.cpp`, `runtime/runner.cpp`, `main.cpp` | terminal mode, dispositions, stop request, exit code | partial activation, signals between any two calls | `Lifecycle` |
| Conformance runner, ELF loader | `conformance/*.cpp` | RAM with the tohost word, verdict | half-loaded images, a word polled between the two stores that write it | `Conformance` |
| Integer instructions, fetch | `core/cpu.cpp`, `core/integer_m.cpp`, `core/integer_a.cpp` | operands, pc | products from half words, division corners | `IntegerCore`, `IntegerM` |
| Compressed instructions | `core/compressed_decoder.cpp`, `core/decoder.cpp` | none | scattered immediates, reserved encodings | `Compressed` |
| Floating point | `core/soft_float_*.cpp`, `core/cpu_floating.cpp`, `core/floating_state.cpp` | f registers, fcsr, FS | rounding, tininess, boxing, lazy context saving | `SoftFloat`, `WideUnsigned`, `FloatingUnit` |
| Vector | `vector/*.cpp`, `core/cpu.cpp` | v registers, vl, vtype, vstart, VS | fault in the middle and restart, keep-vl forms | `VectorGroup`, `Vector` |
| VirtIO network | none | | | described in `specs/11`, no source |

`PROJECT.json` lists the hazards of each at its line, with the properties that
would notice them.

## 2. Modules and the code

One action is one call, register access or loop phase, whole: what the code does
after the main effect (latch again on completion, recompute a line, reset a queue)
is in the same action. Definitions keep the code's names. The type invariants are
proved where the module has proofs; names `mut_...` are deliberately faulty
variants that show a property can fail, and no specification uses them.

**Plic** — registers as functions over sources, enable words as sets. A claim is a
read with an effect. **Gateway** is the abstract promise about one source (idle,
waiting, in service at a context); `Plic!GatewaySpec` instantiates it with
`gate[s]` computed from pending and claimed_by.

**Trap** — one action per thing `step_cpu` can do: take an interrupt, execute an
instruction that traps, returns, waits or writes a CSR. `mframe`/`sframe` are
history: the context the last trap to that level saved and nobody has taken over.
CSR masks (WARL fields, delegated windows) are modelled by what they do. Causes
are codes, addresses count modulo `AddressSpace`.

**Clint** — 64-bit registers as pairs of halves modulo `Base`. The guest sets the
timer with one store or with the three-store sequence, reads it with the
high-low-high loop, sends itself software interrupts and waits.

**Uart16550**, **EventLoop** — the port alone has actions only; `EventLoop`
composes it with `Plic`, a terminal that decides at each call, and a driver: a main
program and an S-mode handler. Bytes are numbered, so loss, duplication and
reordering show.

**VirtioMmio**, **Virtqueue**, **VirtioBlock** — transport, ring indices, and the
device that joins them with the disk, `run_machine` and a driver. The driver does
the handshake, submits in three instructions (entry, index, notify), collects and
may reset at any time. A request is what `process_one` tells apart: type, sector,
direction and mapping of each segment, whether the chain parses and whether the
status byte can be stored. The host may fail any transfer, a failed write may leave
a prefix. Where the code copies from an empty buffer (a read whose only segment has
the wrong direction), the outcome is undefined behaviour: a choice between what the
copy then reports and the `undefined` exit.

**DescriptorChain** — the parser behind that verdict: `parse_table` with its visited
set, direction checks, overflow checks and the switch to an indirect table, on a
descriptor table the driver rewrites at will, and the event-index formula. The
reference (`Chain`) is a set of paths through the table, without a loop.

**Reservation** — LR, SC and AMO as the bus transactions they consist of, with DMA
writes between any two; the granule is a double word, as in the code.

**Mmu** — virtual pages and page numbers as three index parts, so that superpage
alignment, tags and composition are the code's. `translate` does lookup and walk;
the compare-and-exchange of the A and D bits is a step of its own
(`commit_update`, `retry_update`, `refuse_update`), with page table writes before
it. `legal` is history: the mappings the tables held since the last fence that
covers them, by the architecture's rule (`Fenced`), not by the code's (`Flushed`).
The reads of one walk are one step; page offsets and the software bits of an entry
are left out.

**Boot**, **Lifecycle** — `Boot` has address ranges, the region table, the checks of
`load_boot_images` and the RAM and reset state `build_machine` returns; a byte is
named by its image and offset, a file by its size. `Lifecycle` extends it with
`main`: one action per host call, each of which may fail, and a signal between any
two; before the handlers are installed and after they are removed a signal ends the
process. The machine inside the loop is abstract there (an iteration may end in a
queue or terminal error); `EventLoop` and `VirtioBlock` have its inside.

**Conformance** — options, the loader (validation first, then the bus writes by
`best_width`) and the loop. The headers of a file are a verdict, its segments and
symbol tables are records; a byte of RAM is kept with its origin (file, guest,
cleared, or as RAM began, so that a byte the loader fails to clear shows). The tohost
word is the eight bytes of RAM at the symbol: what the image put there, then what the
guest stores and the loop clears. The guest writes it as the macros of
`tests/conformance/act4/rvmodel_macros.h` do, the low half and then the high half, with
a poll after each store and after any number of other instructions between them
(`StoreLow`, `StoreHighChar`, `StoreHighHalt`, `OtherInstruction`); `said` and `halted`
are the history of what it has written. A test that stores to tohost in another way,
and the guest's stores elsewhere in RAM, are outside the model.

**IntegerM**, **IntegerCore**, **Compressed**, **WideUnsigned** — pure algorithms as
operators. A register is a natural number below `2^XLEN` with `XLEN = 2 * WordBits`;
products are built from half-width limbs, signed division from magnitudes, wide
carries from wrapped comparisons, as in the code. `Compressed` keeps all 16 bits of
the encoding and the true immediates. The references (`DividesTo`, `AluExact`,
`Manual`, `ValueOf`) are integer equations and the manual's table, not algorithms.

**SoftFloat**, **FloatReference**, **FloatingUnit** — `SoftFloat` is the code's core
(unpack, exact magnitude, `round_and_pack`) with the field widths of the two formats
as constants. `FloatReference` says what IEEE 754 demands by choosing between the two
representable neighbours of an exact rational or square root, and shares no
definition with `SoftFloat`. `FloatingUnit` has the FS gate, `frm` and static rounding
modes, NaN boxing, accrued flags and the Dirty marking, with an operating system
that saves the context lazily. Writes of `fflags`, `frm` and `fcsr` are one action,
`WriteFcsr`, that sets both fields: all three mark FS Dirty in the same way.

**VectorGroup**, **Vector** — `vtype` decoding, `vl` selection, element placement and
arithmetic; then the execution loops of `cpu.cpp` with masks, agnostic fill, page
faults in the middle of a transfer, restart at `vstart`, and the scalar forms. Vector
floating point uses `SoftFloat`. An instruction is the record of its decoded fields.


## 3. Runs

Run with `tlc -config <cfg> <module>`; state counts are distinct states. Where a run
covers several components (`interrupts`, `virtio_transport`, `host`, `hart`), a
selector chosen in the initial state says which of them a behaviour exercises, and
the others do not move.

| Run | Instance | States | What it shows |
|---|---|---|---|
| `interrupts` | PLIC: 2 sources, 2 contexts, priorities 0..2; CLINT: halves of 4 values, tick 1 | 188,252 | ScanSelects: the scan picks the highest priority, then the smallest id, above the threshold. NoLostLevel: a high level is pending or in service. GatewaySpec: refinement of the gateway, so nothing is served twice. NoTransient: a split update of mtimecmp raises nothing in between. InterruptGenuine. ReadConsistent: the read loop returns a time within its interval. WaitEnds: a waiting hart wakes. |
| `trap` | MTI and SSI, one delegatable exception and the M-mode ECALL | 445,376 | ContextKept: saved contexts survive nested traps and supervisor CSR writes, handlers run masked, MPRV is set in M only. RoundTrip: a return restores what was interrupted. PrivilegeGate: levels rise only through handlers. NoReentry: a handler is not re-entered until it says so. |
| `host` | console: FIFOs of 2, 4 bytes typed, 3 written; process: 13 command lines, 145 layouts, 36 sets of images; conformance: 1650 images (30 of them with a word of the file at tohost), 7 argument vectors, 8 instructions, character codes 1, 3 and 97 | 124,315 | OutputConserved, InputConserved: order kept, every byte accounted for, losses visible until read. InterruptFresh: pending bits are the devices' now and a taken interrupt finds something to claim. BootPlaced: a started machine has exactly its images in RAM, a refused one none. TerminalRestored, ExitHonest: whatever fails and whenever a signal comes. ConformanceHonest: image in RAM byte for byte or not at all; characters written in two stores printed once and in order; exit code 0 or 1 only in the guest's halt macro, by a status the image holds, or at the low half of a character 1 or 3; a completed halt always seen. ConsoleServed: input is served and output drained. StopHonoured: an accepted stop signal ends the process. |
| `virtio_transport` | registers: 1 queue, 2 features, sizes 0, 2, 4; descriptors: table of 3, indirect tables of 1 to 4, address space of 16 | 238,848 | QueuesValid: a ready queue has been validated and status bits come in order. LayoutFrozen: it is not reconfigured while ready. DescriptorsSound: a table is parsed to the chain it spells or refused, nothing outside it is read; the event index test is right across the wrap. |
| `virtio_ring` | ring of 2, indices modulo 4, 6 requests, 2 resets | 190,914 | RingSound: completions in order across wrap and reset, no queue error with a correct driver, at most one notification waiting. RequestAnswered: liveness. |
| `virtio_requests` | 11 kinds of request, rings in and outside RAM, host failures, stray notifications, 3 requests | 1,606,638 | RequestsHonest: OK means written, and an error publishes nothing. ReadSeesWrites: reads return what earlier writes left. |
| `mmu` | 2 values per index, 4 tables (1 read-only), 2 address spaces, 2 TLB slots, 1 page table write | 368,885 | TlbCoherent: no entry outlives a fence that covers it. TranslationSound, FaultGenuine: results are those the tables justify. PteExact: A and D are updated in memory first and nowhere else, and cached as stored. AccessEnds: the retry loop terminates. |
| `hart` | floating point in 5- and 7-bit formats, registers of 8 bits, 3 limbs of 2 bits, all 16-bit encodings, vector registers of 8 two-bit bytes, 3 token values | 327,412 | FloatExact: every F and D operation is correctly rounded, flags and special values included. CleanMeansSaved: lazy saving loses nothing. IntegerExact, InstructionExact: results and expansions are the manual's. VectorRestart: a vector instruction has the effect its elements declare, however often it faults. LengthFits. ScExact: SC stores exactly if its LR still stands. AmoAtomic. |
| `console_drop` | FIFO of 1 | violation | NoSilentDrop, see section 6 |
| `virtio_batch` | 2 requests per notification | violation | RequestAnswered, see section 6 |
| `virtio_irq` | 1 request | violation | InterruptDelivered, see section 6 |
| `vector_immediate` | elements of 2 to 16 bits | violation | ImmediateExtended, see section 6 |

**Why the bounds are enough.** FIFO, ring and TLB bounds are above one so that order
matters, and the input exceeds them so that they fill. The index space is twice the
ring, and there are more requests than index values, so both wrap. `Base = 4` lets
a read start anywhere between two carries. The token space of 3 leaves two tokens,
so one is reused at the second LR after it. In `mmu` the tables hold a global
superpage, a private page, an unmapped and a read-only path, and the write in
question comes at any point of an access; the proofs remove the bound. `MaxWrite`,
`MaxReset`, `MaxRequest`, `MaxRx`, `MaxTx` and `MaxNotification` only bound the
environment. `Batch = 1` is a driver that notifies once per request.

The reduced formats have subnormals, at least one binade of normals, infinities and
both kinds of NaN. Unary operations run over every pattern and rounding mode. Binary
operations take every first operand with about 25 of the second: in both formats the
zeros, the ends of the subnormal and normal ranges, one, infinities and NaNs. Fused
operations have four addends, and run in the smaller format only; their code is the
same for both.
The constants `SecondOperand` and `FusedAddend` name these cuts. In 8-bit registers
every first operand meets 17 second ones (zero, one, the sign boundaries of word and
double word, the all-ones values); three limbs are the least in which a carry is
both produced and passed on. Vector registers have eight bytes of two bits: elements
of 2, 4 and 8 bits, LMUL 1/2 to 2, transfers that cross a page and strides that
wrap around the address space. Layouts and images in `host` put each range
before, at, across and after each limit and each other range. The eight instructions
of a conformance run are two characters and the first store of a halt, or a
character and a complete halt; the words of the images are a pass, a fail, two console
commands and one with a high half that is neither zero nor a command.

Deadlock checks are off in `virtio_requests` (`run_machine` ends on a queue error)
and in `hart` and `vector_immediate` (the pure units have no step, and an
instruction that retires ends its case).

**Fairness.** The loop in `run_machine` always takes its next step: weak fairness of
the whole next-state relation in `Clint`, `EventLoop` and `VirtioBlock`, which says
nothing about which instruction the guest executes. `EventLoop` also has strong
fairness for the terminal accepting an offered byte: a terminal that never takes
output leaves it in the port, and no code could do otherwise. In `Lifecycle` the
host answers every call `main` makes; signals have no fairness. `Mmu` has weak
fairness of the steps inside one `translate`, a C++ loop that runs to its end; no
fairness for page table writes, which are bounded, so AccessEnds says the loop ends
once they stop.

## 4. Proofs

`tlapm <module>` checks each module; all obligations go to SMT, Zenon or LS4. The
theorems hold for every value of the constants that satisfies the named assumptions
of the component's module. Between them they cover every safety property of the
runs except four (see the end of this section).

The prover has no induction scheme that takes a predicate. Induction over the
iterations of a loop is derived instead from the well-foundedness of `<` on `Nat`:
a non-empty set of numbers has a least member (`LeastMember`), so a set that holds 0
and is closed under successor is `Nat` (`Induction`), and a loop written as a
recursive function has a run (`LoopRuns`). Each module that needs these lemmas
states the few it uses.

- **MachineProofs** — interrupt devices and process.
  *PLIC* (`PlicAssumption`: at least one source and one priority). `PlicInv` = types,
  NoLostLevel, ServedOnce (nothing is latched during service). `ImplementsGateway`
  maps every step to a gateway step or a stutter; the completion case needs
  ServedOnce. `ScanArbitrates`: the loop of `Plic::select`, by induction over the
  sources, keeps the best source among those it has passed.
  *CLINT* (`ClintAssumption`: a tick smaller than a half). `Fresh` (pending bits equal
  the device's while the hart runs), `SplitShape` (mtimecmp between the three stores)
  and `ReadShape` (a half-read time was a past value) strengthen NoTransient;
  InterruptGenuine and ReadConsistent follow.
  *Process* (`BootAssumption`: ranges and sizes are numbers, device regions are
  ranges). `ProcessInv` says for each call `main` may make next which handlers are
  installed and what of the terminal is changed and saved; TerminalRestored and
  ExitHonest follow. For BootPlaced, the checks of `load_boot_images` are shown to
  place the images apart and inside RAM, and each byte of RAM to come from exactly
  the image that covers it.
- **MemoryProofs** — `MmuAssumption`, `ReservationAssumption` (at least two tokens
  besides 0). TlbCoherent and TranslationSound alone are not inductive, because an
  entry is filled from a walk that may be older than the tables. `MmuInv` adds that
  everything the tables hold now is legal, that cached entries have A, and (`Pending`)
  what a walk had checked before its compare-and-exchange: the entry permits the
  access and its mapping is legal still. Key lemmas: an update of A and D leads every
  walk the same way (`WalkSimilar`); pages with one prefix share the walk
  (`SamePath`); `permission_allows` is the rule of the specification
  (`PermissionRule`). `MmuAdExact` and `MmuCachedAsStored` are action properties on
  top, `MmuPteExact` their conjunction. `Standing` relates the hart's token, the
  monitor's record and the last LR, which is why reuse of token numbers is harmless;
  `AmoOnRam` types an AMO in flight.
- **HartProofs** (`FormatAssumption`, `LengthAssumption`). CleanMeansSaved holds for
  formats of every width: each instruction that writes a floating-point register, the
  rounding mode or a flag makes FS Dirty, and an integer result that raises no flag
  leaves the context alone (`FloatingResultDirty`, `IntegerResultTracked`). LengthFits
  holds for every register and element length; with `vtype` and `vl` natural it is
  inductive: the form that keeps `vl` requires an equal VLMAX, every other form
  selects at most VLMAX, an accepted type decodes again to itself
  (`DecodeWellFormed`), and no other step touches either.
- **GuestProofs** — what a guest program meets.
  *Traps* (`TrapAssumption`: implemented causes, even addresses). `TrapInv` = types and
  ContextKept, whose three parts depend on each other: SPP is one bit, so keeping the
  frame needs that no trap goes from M to S. Action properties RoundTrip, NoReentry,
  PrivilegeGate follow.
  *Conformance runner* (`ConformanceAssumption`: headers are numbers, files are bytes,
  limits positive, characters not NUL). By induction over the iterations, the bus writes
  of decreasing width cover a segment exactly once and the segments overwrite one
  another in their order. ConformanceHonest says nothing about the word between two
  polls, so `RunnerInv` adds it: none the loop acts on; its high half zero, or the
  image's and no command as long as nothing has cleared it; its low half the macro's
  code between the macro's two stores. `RunnerHonest` is ConformanceHonest, for a guest
  that writes tohost through the macros.
- **EventLoopProofs** (`UartAssumption`, `LoopAssumption`, `PlicAssumption`).
  `LoopInv` adds to OutputConserved, InputConserved and InterruptFresh how the driver
  programmed the controller, that the port is in service exactly while the handler
  serves it, that a handler at its data read has something to read, and that *any* two
  bytes kept are in typing order (the property compares neighbours, but a flush splits
  the sequence anywhere). Every step is one of few operations on the port, each of
  which is shown once to conserve the bytes.
- **VirtioProofs** (`MmioAssumption`, `VirtqueueAssumption`: the ring size divides the
  index space and is smaller, `BlockAssumption`). QueuesValid is inductive with
  types; `QueueStep` summarises what any write does to a queue, and LayoutFrozen
  follows. For the rings, `RingInv` counts requests from the last reset: some number
  `done` of them has been answered, every 16-bit index is its counter modulo the index
  space, and the ring entries between two counters are the requests between them. At
  most `RingSize` are in flight with different heads, so no two share a slot
  (`Apart`, `CoarseRemainder`: remainders of counters). `BlockOrder` needs no
  assumption on the driver.
- **BlockProofs**, on VirtioProofs. `BlockRingSound` adds to `RingInv` that a driver
  with well-formed requests that notifies only after publishing (`~Careless`) leaves a
  request in the ring for every notification; both hypotheses are in the theorem, and
  without them the queue really fails. `BlockRequestsHonest` and
  `BlockReadSeesWrites` hold for all requests and host failures: `DataInv` says that
  what is on the disk, and what every answered read delivered, is among the values the
  driver may expect once it has collected the requests answered before.
- **DescriptorProofs** (`ChainAssumption`). The loop of `parse_table` follows a trail:
  after c passes it stands at the end of the one path of c links from the head, and
  every legal chain begins with that path. So the pass that ends the loop either ends
  the only legal chain or meets what no legal chain contains; the switch to an
  indirect table starts a second trail. The assumption on lengths is that of the
  field's width: as many 32-bit lengths as a table has entries do not add up to the
  64-bit address space. The event-index test is proved from remainders.

Only model-checked:

- liveness (ConsoleServed, WaitEnds, RequestAnswered, AccessEnds, StopHonoured), which
  is beyond the prover;
- FloatExact, IntegerExact, InstructionExact and VectorRestart: rounding of exact
  rationals, powers of two with a variable exponent and sixteen-bit case tables, for
  which the installed provers have no theory.

## 5. Not modelled

- The content of the device tree (`runtime/fdt.cpp` beyond its range check): a byte
  layout without behaviour. `memory/boot_rom.cpp` is not part of the machine
  `build_machine` assembles.
- In `core/csr.cpp`: counters, PMP registers and the table of access checks, which is
  a list of addresses and masks rather than a protocol; the CSRs that traps, floating
  point and vector depend on are in `Trap`, `FloatingUnit` and `Vector`.
- Extraction of the fields of 32-bit and vector encodings (`Vector` starts from
  decoded fields; the immediates of base instructions are in `Compressed`).
- Full register and format widths: 64-bit operands and IEEE single and double are out
  of TLC's reach, and what the algorithms compute for every width is out of the
  prover's; the widths are constants of the models.
- The execution units are not composed into one hart running a program, and the
  machine inside `Lifecycle` is abstract: the parts interact through the interfaces
  modelled in `EventLoop`, `VirtioBlock` and `Trap`.
- Opening and closing of the disk image beyond whether it succeeds; traces and the
  wording of diagnostics; VirtIO network, which has documents and no source.

## 6. Where code and documents differ

Four are shown by runs and described in `PROJECT.json`:

- a byte written to a full transmit FIFO disappears while LSR says the transmitter is
  empty (`uart16550.cpp:186`, against `specs/08-uart-console.md:20,23`);
- one chain is taken per notification, so a second request behind the same notify
  waits for ever (`virtio_block.cpp:107`, against `specs/10-virtio-block.md:48`);
- the used-buffer interrupt never reaches the PLIC, as nothing calls
  `VirtioMmioTransport::synchronize` (`event_loop.cpp:66`, against
  `specs/10-virtio-block.md:46`);
- a negative immediate of a `.vi` instruction is sign-extended to 8 bits only, so
  `vadd.vi` with -1 adds 255 to wider elements (`vector_integer.cpp:118`, against the
  comment at `include/rvemu/vector/vector_integer.hpp:39`).

Others are in the models as the code has them, and no run states the requirement:

- interrupts are selected by cause only, so a supervisor interrupt taken to M may
  precede one of higher level (`csr.cpp:689`, `specs/07-interrupt-clint-plic.md:53`);
- requests are still served after FAILED (`virtio_mmio.cpp:320`,
  `specs/09-virtio-common.md:27`);
- a write whose only data segment has the wrong direction is answered OK without
  writing (`virtio_block.cpp:153`, comment at line 4): `Hollow` in `VirtioBlock`,
  which RequestsHonest names as its exception;
- ordinary stores of the hart leave its reservation standing (`bus.cpp:121`,
  `specs/06-bus-mmio.md:65`), and the granule is 8 bytes (line 66);
- the loop reads tohost between the two stores of a character, so that the low half of
  a character 1 or 3, stored over a zero word, ends the run with a verdict, and so does a
  1 or 3 the image itself holds there (`conformance/main.cpp:111,115`; the comment at
  lines 122-123 says that clearing the word keeps diagnostic output from being taken for
  an end status, which holds for all other characters): `Mistaken` in `Conformance`,
  which ConformanceHonest names as its exceptions;
- the rings of a queue may overlap one another: neither the code nor QueuesValid compares
  their areas (`virtio_mmio.cpp:187`, against `specs/09-virtio-common.md:44`);
- a fence for one ASID also removes global entries, which is allowed and more than
  needed (`mmu.cpp:311`, `specs/05-memory-mmu-sv39.md:107`).
