-------------------------------- MODULE Mmu ---------------------------------
(***************************************************************************)
(* Sv39 translation (src/memory/mmu.cpp) as the hart uses it               *)
(* (src/core/cpu.cpp): TLB lookup, page table walk, atomic update of the A *)
(* and D bits, SFENCE.VMA and writes of satp.                              *)
(*                                                                         *)
(* A virtual page has three 9-bit indices and the bits above them, which   *)
(* are all 0, all 1 or mixed; a physical page number has three index parts *)
(* as well.  A PTE is a set of flags and a page number.  Pages in Table    *)
(* can be read as page tables, those in ReadOnly not be updated.  A PTE    *)
(* may be written by a device (or, when no access is in progress, by the   *)
(* guest) between any two bus transactions of the MMU, except that the     *)
(* reads of one walk are one step.                                         *)
(*                                                                         *)
(* legal is history: the mappings the hart may still use, that is, those   *)
(* the page tables held at some time since the last fence that covers      *)
(* them, without their A and D bits.                                       *)
(*                                                                         *)
(* Definitions named mut_... are faulty variants for sensitivity analysis; *)
(* no specification uses them.                                             *)
(***************************************************************************)
EXTENDS Naturals

CONSTANTS
  Index,        \* values of a 9-bit page table index
  UpperHalf,    \* the ones with the top bit set
  VirtualPage,  \* virtual pages the guest accesses
  Asid,
  Table,        \* physical pages that can be read as page tables
  ReadOnly,     \* the ones whose memory refuses a compare-and-exchange
  PteWrite,     \* writes of page table entries, by address and value
  InitialPtes,  \* page tables at the start
  Satp,         \* values written to satp
  Access,       \* kinds of access, with privilege and mstatus fields
  TlbSize,      \* 64 in the code
  MaxWrite      \* bound on writes of page table entries

Level == 0..2
Ppn == [Level -> Index]
Flag == {"V", "R", "W", "X", "U", "G", "A", "D"}
Kind == {"InstructionFetch", "Load", "Store", "Atomic"}
Privilege == {"U", "S", "M"}
High == {"zeros", "ones", "mixed"}
AnyPte == [flags : SUBSET Flag, ppn : Ppn]
AnySatp == [mode : {"Bare", "Sv39"}, asid : Asid, root : Ppn]

ASSUME MmuAssumption ==
  /\ 0 \in Index /\ UpperHalf \subseteq Index
  /\ VirtualPage \subseteq [high : High, index : Ppn]
  /\ Table \subseteq Ppn /\ ReadOnly \subseteq Table
  /\ PteWrite \subseteq [at : (Table \ ReadOnly) \X Index, pte : AnyPte]
  /\ InitialPtes \in [Table \X Index -> AnyPte]
  /\ Satp \subseteq [mode : {"Bare", "Sv39", "Reserved"}, asid : Asid, root : Ppn]
  /\ Access \subseteq [kind : Kind, privilege : Privilege, mprv : BOOLEAN, mpp : Privilege,
                       sum : BOOLEAN, mxr : BOOLEAN]
  /\ TlbSize \in Nat \ {0} /\ MaxWrite \in Nat

VARIABLES
  ptes,      \* page tables in memory
  satp,
  tlb,       \* entry of each slot, or NoEntry
  rank,      \* order of the slots by age, the oldest first
  access,    \* the access in progress
  legal,     \* history of mappings
  written    \* writes of page table entries so far

mmuVars == <<ptes, satp, tlb, rank, access, legal, written>>

Slot == 1..TlbSize
Request == [page : VirtualPage, kind : Kind, privilege : Privilege,
            sum : BOOLEAN, mxr : BOOLEAN]
Prefix == UNION {[high : High, index : [l..2 -> Index]] : l \in Level}
Entry == [page : Prefix, asid : Asid, level : Level, ppn : Ppn, flags : SUBSET Flag]
NoEntry == [level |-> "none"]
Physical == [high : High, ppn : Ppn]

Idle == [stage |-> "idle"]
Walking(r) == [stage |-> "walk", request |-> r]
Updating(r, at, level, pte) ==
  [stage |-> "update", request |-> r, at |-> at, level |-> level, pte |-> pte]
Translated(r, physical) == [stage |-> "ok", request |-> r, physical |-> physical]
Faulted(r) == [stage |-> "fault", request |-> r]

MmuTypeOK ==
  /\ ptes \in [Table \X Index -> AnyPte]
  /\ satp \in AnySatp
  /\ tlb \in [Slot -> Entry \cup {NoEntry}]
  /\ rank \in [Slot -> Slot] /\ \A s, t \in Slot : rank[s] = rank[t] => s = t
  /\ access.stage \in {"idle", "walk", "update", "ok", "fault"}
  /\ access.stage # "idle" => access.request \in Request
  /\ access.stage = "ok" => access.physical \in Physical
  /\ access.stage = "update" =>
       access.at \in Table \X Index /\ access.level \in Level /\ access.pte \in AnyPte
  /\ legal \subseteq Entry
  /\ written \in 0..MaxWrite

-----------------------------------------------------------------------------
(* Page table entries and virtual pages.                                   *)

canonical_sv39(v) == v.high = IF v.index[2] \in UpperHalf THEN "ones" ELSE "zeros"

virtual_page_for_level(v, level) ==
  [high |-> v.high, index |-> [l \in level..2 |-> v.index[l]]]

pte_valid(flags) == "V" \in flags /\ ("W" \in flags => "R" \in flags)
pte_leaf(flags) == "R" \in flags \/ "X" \in flags

superpage_aligned(ppn, level) == \A l \in Level : l < level => ppn[l] = 0

compose_physical_address(v, ppn, level) ==
  [l \in Level |-> IF l < level THEN v.index[l] ELSE ppn[l]]

permission_allows(flags, r) ==
  /\ r.privilege = "U" => "U" \in flags
  /\ r.privilege = "S" /\ "U" \in flags => r.kind # "InstructionFetch" /\ r.sum
  /\ r.kind = "InstructionFetch" => "X" \in flags
  /\ r.kind = "Load" => "R" \in flags \/ (r.mxr /\ "X" \in flags)
  /\ r.kind = "Store" => "W" \in flags
  /\ r.kind = "Atomic" => "R" \in flags /\ "W" \in flags

Writes(r) == r.kind \in {"Store", "Atomic"}

(* The flags, and the entry, desired after an access.                      *)
Desired(flags, r) == flags \cup {"A"} \cup IF Writes(r) THEN {"D"} ELSE {}
desired_pte(pte, r) == [flags |-> Desired(pte.flags, r), ppn |-> pte.ppn]

Read(table, i) ==
  IF table \in Table THEN ptes[<<table, i>>] ELSE [flags |-> {}, ppn |-> [l \in Level |-> 0]]

(* The table and the entry a walk for v looks at on a level, if it gets    *)
(* there.                                                                  *)
TableAt(v, level) ==
  LET first == Read(satp.root, v.index[2]).ppn
  IN IF level = 2 THEN satp.root
     ELSE IF level = 1 THEN first ELSE Read(first, v.index[1]).ppn

PteAt(v, level) == Read(TableAt(v, level), v.index[level])

Points(pte) == pte_valid(pte.flags) /\ ~pte_leaf(pte.flags)

(* The walk for v ends in a leaf on this level.                            *)
Found(v, level) ==
  /\ \A l \in Level : l > level => Points(PteAt(v, l))
  /\ pte_valid(PteAt(v, level).flags) /\ pte_leaf(PteAt(v, level).flags)
  /\ superpage_aligned(PteAt(v, level).ppn, level)

EntryFor(v, level, pte) ==
  [page |-> virtual_page_for_level(v, level), asid |-> satp.asid, level |-> level,
   ppn |-> pte.ppn, flags |-> pte.flags]

(* An entry without its A and D bits.                                      *)
Mapping(e) ==
  [page |-> e.page, asid |-> e.asid, level |-> e.level, ppn |-> e.ppn,
   flags |-> e.flags \ {"A", "D"}]

(* The mappings the page tables hold now.                                  *)
Current ==
  IF satp.mode = "Bare" THEN {}
  ELSE UNION {{Mapping(EntryFor(v, l, PteAt(v, l))) : l \in {k \in Level : Found(v, k)}} :
                v \in VirtualPage}

MmuInit ==
  /\ ptes = InitialPtes
  /\ satp \in {s \in Satp : s.mode = "Bare"}
  /\ tlb = [s \in Slot |-> NoEntry]
  /\ rank = [s \in Slot |-> s]
  /\ access = Idle /\ legal = {} /\ written = 0

-----------------------------------------------------------------------------
(* The TLB.                                                                *)

Matches(e, v, asid) ==
  /\ e # NoEntry
  /\ "G" \in e.flags \/ e.asid = asid
  /\ e.page = virtual_page_for_level(v, e.level)

(* The slot lookup_tlb stops at.                                           *)
FirstMatch(s, v) ==
  /\ Matches(tlb[s], v, satp.asid)
  /\ \A t \in Slot : t < s => ~Matches(tlb[t], v, satp.asid)

mut_Usable(e, r) == permission_allows(e.flags, r)

Usable(e, r) == permission_allows(e.flags, r) /\ (Writes(r) => "D" \in e.flags)

Hits(r) == {s \in Slot : FirstMatch(s, r.page) /\ Usable(tlb[s], r)}

(* The slot becomes the youngest.                                          *)
Renew(s) ==
  rank' = [t \in Slot |-> IF t = s THEN TlbSize
                          ELSE IF rank[t] > rank[s] THEN rank[t] - 1 ELSE rank[t]]

(* The first free slot, or else the oldest.                                *)
Victim(s) ==
  IF \E t \in Slot : tlb[t] = NoEntry
  THEN tlb[s] = NoEntry /\ \A t \in Slot : tlb[t] = NoEntry => s <= t
  ELSE \A t \in Slot : rank[s] <= rank[t]

fill_tlb(e) ==
  \E s \in Slot : Victim(s) /\ tlb' = [tlb EXCEPT ![s] = e] /\ Renew(s)

-----------------------------------------------------------------------------
(* Mmu::translate.                                                         *)

Bare(r) == r.privilege = "M" \/ satp.mode = "Bare"

(* Cpu::data_context                                                       *)
data_privilege(a) == IF a.privilege = "M" /\ a.mprv THEN a.mpp ELSE a.privilege

RequestOf(v, a) ==
  [page |-> v, kind |-> a.kind, sum |-> a.sum, mxr |-> a.mxr,
   privilege |-> IF a.kind = "InstructionFetch" THEN a.privilege ELSE data_privilege(a)]

Hit(r) ==
  /\ \E s \in Hits(r) :
       /\ access' = Translated(r, [high |-> "zeros",
            ppn |-> compose_physical_address(r.page, tlb[s].ppn, tlb[s].level)])
       /\ Renew(s)
  /\ UNCHANGED tlb

(* The end of Mmu::walk_page_table.                                        *)
Complete(r, level, pte) ==
  /\ access' = Translated(r, [high |-> "zeros",
                              ppn |-> compose_physical_address(r.page, pte.ppn, level)])
  /\ fill_tlb(EntryFor(r.page, level, desired_pte(pte, r)))

Leaf(r, level) == Found(r.page, level) /\ permission_allows(PteAt(r.page, level).flags, r)

(* Mmu::walk_page_table, up to the update of the leaf.                     *)
walk_page_table(r) ==
  \/ /\ \A l \in Level : ~Leaf(r, l)
     /\ access' = Faulted(r) /\ UNCHANGED <<tlb, rank>>
  \/ \E l \in Level :
       LET pte == PteAt(r.page, l)
       IN /\ Leaf(r, l)
          /\ \/ /\ Desired(pte.flags, r) # pte.flags
                /\ access' = Updating(r, <<TableAt(r.page, l), r.page.index[l]>>, l, pte)
                /\ UNCHANGED <<tlb, rank>>
             \/ Desired(pte.flags, r) = pte.flags /\ Complete(r, l, pte)

mut_Miss(r) ==
  IF \E s \in Slot : FirstMatch(s, r.page)
  THEN Hits(r) = {} /\ access' = Faulted(r) /\ UNCHANGED <<tlb, rank>>
  ELSE walk_page_table(r)

(* An entry that does not permit the access sends it to the page tables.   *)
Miss(r) == Hits(r) = {} /\ walk_page_table(r)

Untranslated(r) ==
  \/ /\ Bare(r)
     /\ access' = Translated(r, [high |-> r.page.high, ppn |-> r.page.index])
     /\ UNCHANGED <<tlb, rank>>
  \/ /\ ~Bare(r) /\ ~canonical_sv39(r.page)
     /\ access' = Faulted(r) /\ UNCHANGED <<tlb, rank>>

translate ==
  /\ access = Idle
  /\ \E v \in VirtualPage, a \in Access :
       LET r == RequestOf(v, a)
       IN \/ Untranslated(r)
          \/ ~Bare(r) /\ canonical_sv39(v) /\ (Hit(r) \/ Miss(r))
  /\ UNCHANGED <<ptes, satp, legal, written>>

(* The walk after a failed compare-and-exchange.                           *)
walk_again ==
  /\ access.stage = "walk"
  /\ walk_page_table(access.request)
  /\ UNCHANGED <<ptes, satp, legal, written>>

mut_Exchange(at, expected) == TRUE

(* The comparison of the compare-and-exchange.                             *)
Exchange(at, expected) == ptes[at] = expected

commit_update ==
  /\ access.stage = "update"
  /\ access.at[1] \notin ReadOnly /\ Exchange(access.at, access.pte)
  /\ ptes' = [ptes EXCEPT ![access.at] = desired_pte(access.pte, access.request)]
  /\ Complete(access.request, access.level, access.pte)
  /\ UNCHANGED <<satp, legal, written>>

mut_retry == access' = access

(* The walk starts again.                                                  *)
retry == access' = Walking(access.request)

retry_update ==
  /\ access.stage = "update"
  /\ access.at[1] \notin ReadOnly /\ ~Exchange(access.at, access.pte)
  /\ retry
  /\ UNCHANGED <<ptes, satp, tlb, rank, legal, written>>

refuse_update ==
  /\ access.stage = "update" /\ access.at[1] \in ReadOnly
  /\ access' = Faulted(access.request)
  /\ UNCHANGED <<ptes, satp, tlb, rank, legal, written>>

(* The hart performs its bus access or takes the page fault.               *)
finish ==
  /\ access.stage \in {"ok", "fault"}
  /\ access' = Idle
  /\ UNCHANGED <<ptes, satp, tlb, rank, legal, written>>

-----------------------------------------------------------------------------
mut_Flushed(e, v, asid) ==
  /\ asid = {} \/ e.asid \in asid \/ "G" \in e.flags
  /\ v = {} \/ \E x \in v : e.page = virtual_page_for_level(x, 0)

(* What sfence_vma removes; an absent operand is the empty set.            *)
Flushed(e, v, asid) ==
  /\ asid = {} \/ e.asid \in asid \/ "G" \in e.flags
  /\ v = {} \/ \E x \in v : e.page = virtual_page_for_level(x, e.level)

(* What the architecture makes it remove: a fence for an address space     *)
(* leaves global mappings alone.                                           *)
Fenced(e, v, asid) ==
  /\ asid = {} \/ (e.asid \in asid /\ "G" \notin e.flags)
  /\ v = {} \/ \E x \in v : e.page = virtual_page_for_level(x, e.level)

sfence_vma ==
  /\ access = Idle
  /\ \E v \in {{}} \cup {{x} : x \in VirtualPage}, asid \in {{}} \cup {{a} : a \in Asid} :
       /\ tlb' = [s \in Slot |-> IF tlb[s] # NoEntry /\ Flushed(tlb[s], v, asid)
                                 THEN NoEntry ELSE tlb[s]]
       /\ legal' = Current \cup {m \in legal : ~Fenced(m, v, asid)}
  /\ UNCHANGED <<ptes, satp, rank, access, written>>

(* A mode other than Bare and Sv39 is ignored.                             *)
write_satp ==
  /\ access = Idle
  /\ \E value \in Satp : satp' = IF value.mode = "Reserved" THEN satp ELSE value
  /\ UNCHANGED <<ptes, tlb, rank, access, written>>
  /\ legal' = legal \cup Current'

(* The guest or a device writes a page table entry.                        *)
write_pte ==
  /\ access.stage \in {"idle", "walk", "update"} /\ written < MaxWrite
  /\ \E w \in PteWrite : ptes' = [ptes EXCEPT ![w.at] = w.pte]
  /\ written' = written + 1
  /\ UNCHANGED <<satp, tlb, rank, access>>
  /\ legal' = legal \cup Current'

MmuNext ==
  \/ translate \/ walk_again \/ commit_update \/ retry_update \/ refuse_update
  \/ finish \/ sfence_vma \/ write_satp \/ write_pte

(* Mmu::translate runs to its end once called.                             *)
MmuFairness == WF_mmuVars(walk_again \/ commit_update \/ retry_update \/ refuse_update)

MmuSpec == MmuInit /\ [][MmuNext]_mmuVars /\ MmuFairness

-----------------------------------------------------------------------------
(* Every TLB entry is a mapping the page tables held since the last fence  *)
(* that covers it: sfence_vma removes at least what it has to, whatever    *)
(* mixture of levels, address spaces and global pages the TLB holds.       *)
TlbCoherent == \A s \in Slot : tlb[s] # NoEntry => Mapping(tlb[s]) \in legal

(* An entry enters the TLB only as it is in memory at that moment, A and D *)
(* bits included: they are never set in the TLB alone.                     *)
CachedAsStored ==
  [][\A s \in Slot : tlb'[s] \notin {tlb[s], NoEntry} =>
       \E at \in Table \X Index : ptes'[at] = [flags |-> tlb'[s].flags, ppn |-> tlb'[s].ppn]
    ]_mmuVars

(* Whether flags permit the access, by the rules of specs/05, MMU-REQ-005  *)
(* to 007: who may use the page, then what the access needs.               *)
Permitted(flags, r) ==
  /\ r.privilege \in (IF "U" \in flags
                      THEN {"U"} \cup (IF r.sum /\ r.kind # "InstructionFetch" THEN {"S"} ELSE {})
                      ELSE {"S"})
  /\ CASE r.kind = "InstructionFetch" -> {"X"} \subseteq flags
       [] r.kind = "Load" -> (IF r.mxr THEN {"R", "X"} ELSE {"R"}) \cap flags # {}
       [] r.kind = "Store" -> {"W"} \subseteq flags
       [] OTHER -> {"R", "W"} \subseteq flags

(* A translation that succeeds follows a mapping the hart may still use,   *)
(* of its address space or global, which permits the access and is cached  *)
(* with A and (for a write) D, to the page this mapping gives; without     *)
(* translation it is the identity.                                         *)
TranslationSound ==
  access.stage = "ok" =>
    LET r == access.request
    IN IF Bare(r) THEN access.physical = [high |-> r.page.high, ppn |-> r.page.index]
       ELSE \E s \in Slot :
              /\ canonical_sv39(r.page) /\ Matches(tlb[s], r.page, satp.asid)
              /\ Mapping(tlb[s]) \in legal /\ Permitted(tlb[s].flags, r)
              /\ {"A"} \cup (IF Writes(r) THEN {"D"} ELSE {}) \subseteq tlb[s].flags
              /\ access.physical.high = "zeros"
              /\ \A l \in Level : access.physical.ppn[l] =
                   IF l \in DOMAIN tlb[s].page.index THEN tlb[s].ppn[l] ELSE r.page.index[l]

(* An access faults only if the page tables themselves refuse it or their  *)
(* memory refuses the update: a stale TLB entry never makes an access      *)
(* fault, whatever was written to the tables without a fence.              *)
FaultGenuine ==
  access.stage = "fault" =>
    LET r == access.request
    IN /\ ~Bare(r)
       /\ \/ ~canonical_sv39(r.page)
          \/ \A m \in Current : Matches(m, r.page, satp.asid) => ~Permitted(m.flags, r)
          \/ \E m \in legal, at \in ReadOnly \X Index :
               /\ Matches(m, r.page, satp.asid) /\ Permitted(m.flags, r)
               /\ ptes[at].ppn = m.ppn /\ ptes[at].flags \ {"A", "D"} = m.flags
               /\ Desired(ptes[at].flags, r) # ptes[at].flags

(* The MMU changes page tables only by adding A, and D for a write, to the *)
(* entry an access permitted by this entry uses: a write that comes        *)
(* between the walk and the compare-and-exchange is never overwritten.     *)
AdExact ==
  [][ptes' # ptes /\ written' = written =>
       \E at \in Table \X Index :
         /\ ptes' = [ptes EXCEPT ![at].flags = Desired(@, access.request)]
         /\ Permitted(ptes[at].flags, access.request)]_mmuVars

(* The tables and the TLB agree on A and D: a walk that updates an entry,  *)
(* in whatever race with writers of the tables, changes only those bits in *)
(* memory and caches what memory then holds.                               *)
PteExact == AdExact /\ CachedAsStored

(* A translation ends, however often its compare-and-exchange fails, once  *)
(* the page tables are no longer written.                                  *)
AccessEnds == (access.stage \in {"walk", "update"}) ~> (access.stage \in {"ok", "fault"})

=============================================================================
