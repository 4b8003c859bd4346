---------------------------- MODULE Conformance -----------------------------
(***************************************************************************)
(* The conformance runner (src/conformance): the ELF loader and the loop   *)
(* that steps the hart and polls the tohost word, with a guest that writes *)
(* the word as the macros of tests/conformance/act4 do, one half at a      *)
(* time.  An image says whether its headers and header tables are well     *)
(* formed, what its program headers hold, what its symbol tables name and  *)
(* which bytes the file has.  A byte of RAM is kept with its origin:       *)
(* <<"file", i>> is byte i of the file, <<"guest", b>> was stored by the   *)
(* guest, <<"zero", 0>> cleared, and <<"stale", 0>> is as RAM began, so    *)
(* that a byte the loader should clear and does not can be seen.           *)
(***************************************************************************)
EXTENDS Boot, Sequences, FiniteSetsExt

CONSTANTS
  TestRam,         \* range of the RAM
  Elf,             \* the images offered
  Arguments,       \* argument vectors, argv[0] left out
  Numeral,         \* the positive numbers among the arguments
  kDefaultLimit,   \* instruction limit without --max-instructions
  Character        \* character codes in the strings the guest prints

(* Fields of an image are unsigned, a file is made of bytes, limits are    *)
(* positive and a string ends at its first zero byte.                      *)
ASSUME ConformanceAssumption ==
  /\ kDefaultLimit \in Nat \ {0}
  /\ Character \subseteq 1..255
  /\ TestRam \in [base : Nat, size : Nat]
  /\ \A image \in Elf :
       /\ image.entry \in Nat /\ image.size \in Nat /\ image.data \in [0..(image.size - 1) -> 0..255]
       /\ image.segments \in Seq([type : STRING, offset : Nat, virtual : Nat, physical : Nat,
                                  file_size : Nat, memory_size : Nat])
       /\ image.tables \in Seq([usable : BOOLEAN, symbols : Seq([name : STRING, value : Nat])])

VARIABLES
  stage,       \* "options", "load", "running" or "ended"
  elf,         \* the image, once loaded
  memory,      \* RAM, the guest's stores outside tohost left out
  limit,       \* instruction limit
  steps,       \* instructions executed
  guest,       \* where the guest is in a macro that writes tohost
  said,        \* characters the guest has written with both stores
  halted,      \* the guest has written its end status with both stores
  printed,     \* characters put on stdout
  verdict      \* exit code

conformanceVars == <<stage, elf, memory, limit, steps, guest, said, halted, printed, verdict>>

NoElf == [size |-> -1]

(* The test's own instructions; the macros, before their first store.      *)
TestCode == [next |-> "test", halt |-> FALSE, code |-> 0]

Macros ==
  [next : {"low"}, halt : {TRUE}, code : {1, 3}] \cup [next : {"low"}, halt : {FALSE}, code : Character]
Stale(range) == [a \in range.base..(range.base + range.size - 1) |-> <<"stale", 0>>]

ConformanceInit ==
  /\ stage = "options" /\ elf = NoElf /\ memory = Stale(TestRam)
  /\ limit = kDefaultLimit /\ steps = 0
  /\ guest = TestCode /\ said = <<>> /\ halted = FALSE /\ printed = <<>> /\ verdict = -1

-----------------------------------------------------------------------------
(* parse_options.  The last --max-instructions counts.                     *)

parse_options(argv) ==
  LET Parsed[n \in 0..(Len(argv) \div 2)] ==
        IF n = 0 THEN kDefaultLimit
        ELSE LET before == Parsed[n - 1] IN
             IF before = 0 \/ 2 * n + 1 > Len(argv) THEN before
             ELSE IF argv[2 * n] = "--max-instructions" /\ argv[2 * n + 1] \in DOMAIN Numeral
                  THEN Numeral[argv[2 * n + 1]] ELSE 0
  IN  IF argv = <<>> \/ Len(argv) % 2 = 0 THEN 0 ELSE Parsed[Len(argv) \div 2]

ParseOptions ==
  /\ stage = "options"
  /\ \E argv \in Arguments :
       IF parse_options(argv) = 0
       THEN stage' = "ended" /\ verdict' = 2 /\ UNCHANGED limit
       ELSE stage' = "load" /\ limit' = parse_options(argv) /\ UNCHANGED verdict
  /\ UNCHANGED <<elf, memory, steps, guest, said, halted, printed>>

-----------------------------------------------------------------------------
(* load_elf64_riscv.                                                       *)

range_fits(offset, length, total) == offset <= total /\ length <= total - offset

(* The first symbol named tohost in a usable symbol table.                 *)
Named(symbols) == {i \in DOMAIN symbols : symbols[i].name = "tohost"}

TohostTables(image) ==
  {t \in DOMAIN image.tables : image.tables[t].usable /\ Named(image.tables[t].symbols) # {}}

FirstNamed(symbols) == symbols[Min(Named(symbols))].value

find_tohost_symbol(image) ==
  IF TohostTables(image) = {} THEN -1 ELSE FirstNamed(image.tables[Min(TohostTables(image))].symbols)

SegmentValid(image, s) ==
  s.file_size <= s.memory_size /\ range_fits(s.offset, s.file_size, image.size)

destination(s) == IF s.physical = 0 THEN s.virtual ELSE s.physical

LoadSegments(image) == {i \in DOMAIN image.segments : image.segments[i].type = "LOAD"}

Segments(image) == {i \in LoadSegments(image) : image.segments[i].memory_size # 0}

Valid(image) ==
  /\ image.header
  /\ \A i \in LoadSegments(image) : SegmentValid(image, image.segments[i])
  /\ \A i \in Segments(image) :
       LET s == image.segments[i] IN contains_span(TestRam, destination(s), s.memory_size)
  /\ Segments(image) # {}
  /\ contains_span(TestRam, image.entry, 2)
  /\ contains_span(TestRam, find_tohost_symbol(image), 8)

best_width(remaining) ==
  IF remaining >= 8 THEN 8 ELSE IF remaining >= 4 THEN 4 ELSE IF remaining >= 2 THEN 2 ELSE 1

(* The bytes one bus write of the segment stores: file data, then zeros.   *)
mut_SegmentByte(s, i) == <<"file", s.offset + i>>

SegmentByte(s, i) == IF i < s.file_size THEN <<"file", s.offset + i>> ELSE <<"zero", 0>>

(* The offsets at which the segment's bus writes start, and their bytes.   *)
WriteOffsets(s) ==
  LET Completed[n \in 0..s.memory_size] ==
        IF n = 0 THEN 0
        ELSE LET c == Completed[n - 1] IN
             IF c = s.memory_size THEN c ELSE c + best_width(s.memory_size - c)
      offsets == {Completed[n] : n \in 0..s.memory_size}
  IN  offsets \ {s.memory_size}

(* The byte at a after the segment was written.                            *)
write_segment(byte, a, s) ==
  LET i == a - destination(s)
      written == UNION {c..(c + best_width(s.memory_size - c) - 1) : c \in WriteOffsets(s)}
  IN  IF i \in written THEN SegmentByte(s, i) ELSE byte

WriteSegments(byte, a, image) ==
  LET After[i \in 0..Len(image.segments)] ==
        IF i = 0 THEN byte
        ELSE IF i \in Segments(image) THEN write_segment(After[i - 1], a, image.segments[i])
        ELSE After[i - 1]
  IN  After[Len(image.segments)]

Load ==
  /\ stage = "load"
  /\ \E image \in Elf :
       /\ elf' = image
       /\ IF Valid(image)
          THEN /\ memory' = [a \in DOMAIN memory |-> WriteSegments(memory[a], a, image)]
               /\ stage' = "running" /\ UNCHANGED verdict
          ELSE stage' = "ended" /\ verdict' = 2 /\ UNCHANGED memory
  /\ UNCHANGED <<limit, steps, guest, said, halted, printed>>

-----------------------------------------------------------------------------
(* The loop.  The word is the eight bytes of RAM at the symbol, least      *)
(* significant first: whatever the image put there, until it is written.   *)

Value(image, byte) ==
  IF byte[1] = "file" THEN image.data[byte[2]] ELSE IF byte[1] = "guest" THEN byte[2] ELSE 0

Word(image, ram) == [i \in 0..7 |-> Value(image, ram[find_tohost_symbol(image) + i])]

(* The word 1 says passed, 3 says failed; 0x01010000 in the high half says *)
(* that the low byte is a character.                                       *)
EndStatus(code) == [i \in 0..7 |-> IF i = 0 THEN code ELSE 0]

kHtifConsoleCommand == [i \in 0..7 |-> IF i \in {6, 7} THEN 1 ELSE 0]

HtifConsole(word) == \A i \in 4..7 : word[i] = kHtifConsoleCommand[i]

(* A command taken is cleared, with one write of eight bytes.              *)
mut_Cleared(ram, at) == [a \in DOMAIN ram |-> IF a \in at..(at + 3) THEN <<"zero", 0>> ELSE ram[a]]

Cleared(ram, at) == [a \in DOMAIN ram |-> IF a \in at..(at + 7) THEN <<"zero", 0>> ELSE ram[a]]

(* What the loop does after an instruction that left RAM as ram.           *)
Poll(ram) ==
  LET word == Word(elf, ram) IN
  CASE word = EndStatus(1) -> verdict' = 0 /\ stage' = "ended" /\ memory' = ram /\ UNCHANGED printed
    [] word = EndStatus(3) -> verdict' = 1 /\ stage' = "ended" /\ memory' = ram /\ UNCHANGED printed
    [] HtifConsole(word) -> printed' = Append(printed, word[0])
                            /\ memory' = Cleared(ram, find_tohost_symbol(elf)) /\ UNCHANGED <<verdict, stage>>
    [] OTHER -> memory' = ram /\ UNCHANGED <<printed, verdict, stage>>

(* sw: the bytes first..first + 3 of tohost become those of word.          *)
StoreWord(first, word) ==
  [a \in DOMAIN memory |->
     LET i == a - find_tohost_symbol(elf)
     IN  IF i \in first..(first + 3) THEN <<"guest", word[i]>> ELSE memory[a]]

(* An instruction that leaves tohost alone: the test's, a trap handler's   *)
(* or one of a macro; the last before a macro's first store computes the   *)
(* address.  A trap it raises is taken at once and does not end the loop.  *)
OtherInstruction ==
  /\ Poll(memory)
  /\ \/ UNCHANGED guest
     \/ guest.next = "test" /\ guest' \in Macros
  /\ UNCHANGED <<said, halted>>

StoreLow ==
  /\ guest.next = "low"
  /\ Poll(StoreWord(0, EndStatus(guest.code)))
  /\ guest' = [guest EXCEPT !.next = "high"]
  /\ UNCHANGED <<said, halted>>

(* A character is followed by the next or by the test; a halt is repeated. *)
StoreHighChar ==
  /\ guest.next = "high" /\ ~guest.halt
  /\ Poll(StoreWord(4, kHtifConsoleCommand))
  /\ guest' = TestCode /\ said' = Append(said, guest.code)
  /\ UNCHANGED halted

StoreHighHalt ==
  /\ guest.next = "high" /\ guest.halt
  /\ Poll(StoreWord(4, EndStatus(0)))
  /\ guest' = [guest EXCEPT !.next = "low"] /\ halted' = TRUE
  /\ UNCHANGED said

Step ==
  /\ stage = "running" /\ steps < limit
  /\ steps' = steps + 1
  /\ OtherInstruction \/ StoreLow \/ StoreHighChar \/ StoreHighHalt
  /\ UNCHANGED <<elf, limit>>

Timeout ==
  /\ stage = "running" /\ steps = limit
  /\ stage' = "ended" /\ verdict' = 2
  /\ UNCHANGED <<elf, memory, limit, steps, guest, said, halted, printed>>

ConformanceNext == ParseOptions \/ Load \/ Step \/ Timeout

ConformanceSpec == ConformanceInit /\ [][ConformanceNext]_conformanceVars

-----------------------------------------------------------------------------
(* The byte a loaded image puts at address a: that of the last segment     *)
(* that covers a, zero past the segment's file data.                       *)
Expect(image, a) ==
  LET over == {i \in Segments(image) :
                 LET s == image.segments[i]
                 IN  a \in destination(s)..(destination(s) + s.memory_size - 1)}
      last == image.segments[Max(over)]
      at == a - destination(last)
  IN  IF over = {} THEN <<"stale", 0>>
      ELSE IF at < last.file_size THEN <<"file", last.offset + at>> ELSE <<"zero", 0>>

(* The word the loaded image holds at tohost.                              *)
Preset(image) == [i \in 0..7 |-> Value(image, Expect(image, find_tohost_symbol(image) + i))]

(* A refused image leaves RAM untouched; an accepted one is in RAM byte    *)
(* for byte when the hart starts, the tail of every segment cleared, with  *)
(* entry and tohost in RAM.                                                *)
ImageLoaded ==
  /\ stage \in {"options", "load"} \/ (stage = "ended" /\ steps = 0)
       => \A a \in DOMAIN memory : memory[a] = <<"stale", 0>>
  /\ stage = "running" /\ steps = 0 =>
       /\ \A a \in DOMAIN memory : memory[a] = Expect(elf, a)
       /\ {elf.entry, elf.entry + 1} \subseteq DOMAIN memory
       /\ \A i \in 0..7 : find_tohost_symbol(elf) + i \in DOMAIN memory

(* The characters printed are those the guest has written, once each and   *)
(* in order; before them that of a command the image itself holds.         *)
OutputHonest ==
  printed = (IF steps > 0 /\ HtifConsole(Preset(elf)) THEN <<Preset(elf)[0]>> ELSE <<>>) \o said

(* The guest's halt macro has stored code, at least in the low half.       *)
Halting(code) == guest.halt /\ guest.code = code /\ (guest.next = "high" \/ halted)

(* The two ways a word that is no end status of the guest's is taken for   *)
(* one: the image holds it at tohost, or the low half of a character with  *)
(* that code is stored and the high half, still zero, is not.              *)
Mistaken(code) ==
  \/ steps = 1 /\ Preset(elf) = EndStatus(code)
  \/ ~guest.halt /\ guest.code = code /\ guest.next = "high"

(* The exit code is 0 or 1 only in the guest's halt macro for it, or by    *)
(* one of the two mistakes; it is 2 only without a run or at the limit; a  *)
(* guest that has stored its status is not run on, and one that has stored *)
(* the low half of it only when the image holds a high half that is        *)
(* neither zero nor the console's and no character has cleared it.         *)
VerdictHonest ==
  /\ verdict = 0 => Halting(1) \/ Mistaken(1)
  /\ verdict = 1 => Halting(3) \/ Mistaken(3)
  /\ verdict = 2 => steps \in {0, limit}
  /\ verdict \notin {0, 1} =>
       /\ ~halted
       /\ guest.halt /\ guest.next = "high" =>
            said = <<>> /\ ~HtifConsole(Preset(elf)) /\ \E i \in 4..7 : Preset(elf)[i] # 0

(* The runner: the image is loaded as its headers say, every character the *)
(* guest writes to tohost in two stores is printed once and in order, and  *)
(* the exit code is the guest's end status, but for the two mistakes a     *)
(* word polled after every instruction allows.                             *)
ConformanceHonest == ImageLoaded /\ OutputHonest /\ VerdictHonest

=============================================================================
