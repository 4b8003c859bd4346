---------------------------- MODULE MemoryProofs ----------------------------
(***************************************************************************)
(* The hart's way to memory.  For any page tables, address spaces,         *)
(* accesses and TLB size: a translation is one the tables allowed.  For    *)
(* any RAM, any values and any token space: SC succeeds exactly when its   *)
(* LR still stands, and an AMO is atomic.                                  *)
(*                                                                         *)
(* TlbCoherent and TranslationSound are not inductive: an entry is filled  *)
(* from a walk that may be older than the tables.  MmuInv adds that what   *)
(* the tables hold is legal, and what is known of an access between its    *)
(* walk and its compare-and-exchange.                                      *)
(*                                                                         *)
(* Standing relates the hart's token, the monitor's record and the last    *)
(* LR: while a link exists the record is exactly that LR's, or it has been *)
(* dropped because the granule was disturbed.  No record but the latest is *)
(* ever compared with, so reusing token numbers is harmless.               *)
(***************************************************************************)
EXTENDS Mmu, Reservation, TLAPS

(* Time limits for the provers.                                            *)
USE SMTT(60), ZenonT(60)

-----------------------------------------------------------------------------
(* Translation.                                                            *)

(* What the code has checked before it waits for the compare-and-exchange. *)
Pending ==
  /\ access.stage \in {"walk", "update"} =>
       ~Bare(access.request) /\ canonical_sv39(access.request.page)
  /\ access.stage = "update" =>
       /\ permission_allows(access.pte.flags, access.request)
       /\ Desired(access.pte.flags, access.request) # access.pte.flags
       /\ Mapping(EntryFor(access.request.page, access.level, access.pte)) \in legal
       /\ access.at[1] \in ReadOnly => ptes[access.at] = access.pte

(* Every cached entry has its A bit.                                       *)
Accessed == \A s \in Slot : tlb[s] # NoEntry => "A" \in tlb[s].flags

(* The part of the type invariant a walk depends on.                       *)
TablesTyped == ptes \in [Table \X Index -> AnyPte] /\ satp \in AnySatp

(* The part of the type invariant about the access.                        *)
AccessTyped ==
  /\ access.stage \in {"idle", "walk", "update", "ok", "fault"}
  /\ access.stage # "idle" => access.request \in Request
  /\ access.stage = "ok" => access.physical \in Physical
  /\ access.stage = "update" =>
       access.at \in Table \X Index /\ access.level \in Level /\ access.pte \in AnyPte

(* The slots are totally ordered by age.                                   *)
RankTyped == rank \in [Slot -> Slot] /\ \A s, t \in Slot : rank[s] = rank[t] => s = t

(* The part about the TLB, and the part about the history variables.       *)
TlbTyped == tlb \in [Slot -> Entry \cup {NoEntry}]
HistoryTyped == legal \subseteq Entry /\ written \in 0..MaxWrite

(* The hart may use what the page tables hold.                             *)
CurrentLegal == Current \subseteq legal

(* The inductive invariant.                                                *)
MmuInv ==
  /\ MmuTypeOK /\ CurrentLegal /\ TlbCoherent /\ Accessed
  /\ Pending /\ TranslationSound /\ FaultGenuine

-----------------------------------------------------------------------------
(* The invariant by its parts.                                             *)

(* The parts of the invariant in the current state.                        *)
LEMMA InvParts ==
  MmuInv => /\ CurrentLegal /\ TlbCoherent /\ Accessed
            /\ Pending /\ TranslationSound /\ FaultGenuine
            /\ TablesTyped /\ RankTyped /\ AccessTyped /\ TlbTyped /\ HistoryTyped
BY DEF MmuInv, MmuTypeOK, TablesTyped, RankTyped, AccessTyped, TlbTyped, HistoryTyped

(* The type invariant after a step, by the variables it is about.          *)
LEMMA TypePartsNext ==
  TablesTyped' /\ RankTyped' /\ AccessTyped' /\ TlbTyped' /\ HistoryTyped' => MmuTypeOK'
BY DEF MmuTypeOK, TablesTyped, RankTyped, AccessTyped, TlbTyped, HistoryTyped

(* The invariant after a step.                                             *)
LEMMA InvNext ==
  MmuTypeOK' /\ CurrentLegal' /\ TlbCoherent' /\ Accessed' /\ Pending'
    /\ TranslationSound' /\ FaultGenuine' => MmuInv'
BY DEF MmuInv

(* Variables keep their types if they do not change.                       *)
LEMMA TypedKept ==
  /\ TablesTyped /\ UNCHANGED <<ptes, satp>> => TablesTyped'
  /\ RankTyped /\ UNCHANGED rank => RankTyped'
  /\ AccessTyped /\ UNCHANGED access => AccessTyped'
  /\ TlbTyped /\ UNCHANGED tlb => TlbTyped'
  /\ HistoryTyped /\ UNCHANGED <<legal, written>> => HistoryTyped'
BY DEF TablesTyped, RankTyped, AccessTyped, TlbTyped, HistoryTyped

(* What the TLB holds stays legal if it is not changed.                    *)
LEMMA TlbKept ==
  ASSUME TlbCoherent, Accessed, tlb' = tlb, legal \subseteq legal'
  PROVE TlbCoherent' /\ Accessed'
BY DEF TlbCoherent, Accessed

(* Outside its stage each claim about the access is void.                  *)
LEMMA OtherStage ==
  /\ access'.stage \notin {"walk", "update"} => Pending'
  /\ access'.stage # "ok" => TranslationSound'
  /\ access'.stage # "fault" => FaultGenuine'
BY DEF Pending, TranslationSound, FaultGenuine

-----------------------------------------------------------------------------
(* Operators.                                                              *)

(* The three levels of Sv39.                                               *)
LEMMA LevelFacts ==
  Level = {0, 1, 2}
BY DEF Level

(* The parts of a virtual page.                                            *)
LEMMA PageIndex ==
  ASSUME NEW v \in VirtualPage
  PROVE v.high \in High /\ v.index \in Ppn /\ \A l \in Level : v.index[l] \in Index
BY MmuAssumption DEF Ppn

(* The fields of a request.                                                *)
LEMMA RequestFields ==
  ASSUME NEW r \in Request
  PROVE /\ r.page \in VirtualPage /\ r.kind \in Kind /\ r.privilege \in Privilege
        /\ r.sum \in BOOLEAN /\ r.mxr \in BOOLEAN
BY DEF Request

(* The fields of a TLB entry.                                              *)
LEMMA EntryFields ==
  ASSUME NEW e \in Entry
  PROVE /\ e.page \in Prefix /\ e.asid \in Asid /\ e.level \in Level
        /\ e.ppn \in Ppn /\ e.flags \in SUBSET Flag
BY DEF Entry

(* The fields of a page table entry.                                       *)
LEMMA PteFields ==
  ASSUME NEW pte \in AnyPte
  PROVE pte.flags \in SUBSET Flag /\ pte.ppn \in Ppn
BY DEF AnyPte

(* The fields of an access in each of its stages.                          *)
LEMMA AccessFields ==
  /\ \A r, physical : /\ Translated(r, physical).stage = "ok"
                      /\ Translated(r, physical).request = r
                      /\ Translated(r, physical).physical = physical
  /\ \A r : Faulted(r).stage = "fault" /\ Faulted(r).request = r
  /\ \A r : Walking(r).stage = "walk" /\ Walking(r).request = r
  /\ \A r, at, l, pte : /\ Updating(r, at, l, pte).stage = "update"
                        /\ Updating(r, at, l, pte).request = r
                        /\ Updating(r, at, l, pte).at = at
                        /\ Updating(r, at, l, pte).level = l
                        /\ Updating(r, at, l, pte).pte = pte
BY DEF Translated, Faulted, Walking, Updating

(* The fields of the access after a step that sets it to wait for its      *)
(* compare-and-exchange.                                                   *)
LEMMA UpdatingNext ==
  ASSUME NEW r, NEW at, NEW l, NEW pte, access' = Updating(r, at, l, pte)
  PROVE /\ access'.stage = "update" /\ access'.request = r /\ access'.at = at
        /\ access'.level = l /\ access'.pte = pte
BY AccessFields

(* The fields of the access after a step that completes it.                *)
LEMMA TranslatedNext ==
  ASSUME NEW r, NEW p, access' = Translated(r, p)
  PROVE access'.stage = "ok" /\ access'.request = r /\ access'.physical = p
BY AccessFields

(* A translated address below 2^56.                                        *)
LEMMA PhysicalFields ==
  ASSUME NEW ppn \in Ppn, NEW p, p = [high |-> "zeros", ppn |-> ppn]
  PROVE p \in Physical /\ p.high = "zeros" /\ p.ppn = ppn
BY DEF Physical, High

(* The place of a page-table entry.                                        *)
LEMMA PlaceTyped ==
  ASSUME NEW t \in Table, NEW i \in Index
  PROVE <<t, i>> \in Table \X Index
OBVIOUS

(* The fields of what fill_tlb caches.                                     *)
LEMMA EntryForFields ==
  ASSUME NEW v, NEW l, NEW pte
  PROVE /\ EntryFor(v, l, pte).page = virtual_page_for_level(v, l)
        /\ EntryFor(v, l, pte).asid = satp.asid
        /\ EntryFor(v, l, pte).level = l
        /\ EntryFor(v, l, pte).ppn = pte.ppn
        /\ EntryFor(v, l, pte).flags = pte.flags
BY DEF EntryFor

(* Entries that differ in A and D only have the same mapping.              *)
LEMMA MappingSame ==
  ASSUME NEW e, NEW d, e.page = d.page, e.asid = d.asid, e.level = d.level, e.ppn = d.ppn,
         e.flags \ {"A", "D"} = d.flags \ {"A", "D"}
  PROVE Mapping(e) = Mapping(d)
BY DEF Mapping

(* Whether an access is translated depends on it and on satp.              *)
LEMMA BareKept ==
  satp' = satp => \A r : Bare(r)' <=> Bare(r)
BY DEF Bare

(* virtual_page_for_level yields a TLB tag.                                *)
LEMMA PrefixTyped ==
  ASSUME NEW v \in VirtualPage, NEW l \in Level
  PROVE virtual_page_for_level(v, l) \in Prefix
<1>1. \A k \in l..2 : k \in Level
  BY DEF Level
<1>2. [k \in l..2 |-> v.index[k]] \in [l..2 -> Index]
  BY <1>1, PageIndex
<1>3. virtual_page_for_level(v, l) \in [high : High, index : [l..2 -> Index]]
  BY <1>2, PageIndex DEF virtual_page_for_level
<1> QED BY <1>3 DEF Prefix

(* An entry is not an empty slot.                                          *)
LEMMA EntryNotNone ==
  ASSUME NEW e \in Entry
  PROVE e # NoEntry
<1>1. DOMAIN e = {"page", "asid", "level", "ppn", "flags"}
  BY DEF Entry
<1>2. DOMAIN NoEntry = {"level"}
  BY DEF NoEntry
<1> QED BY <1>1, <1>2

(* A walk reads a page table entry, outside the tables an invalid one.     *)
LEMMA ReadTyped ==
  ASSUME TablesTyped, NEW t, NEW i \in Index
  PROVE Read(t, i) \in AnyPte
<1>1. CASE t \in Table
  BY <1>1 DEF TablesTyped, Read
<1>2. CASE t \notin Table
  <2>1. [l \in Level |-> 0] \in Ppn
    BY MmuAssumption DEF Ppn
  <2> QED BY <1>2, <2>1 DEF Read, AnyPte
<1> QED BY <1>1, <1>2

(* The entry a walk looks at is one.                                       *)
LEMMA PteTyped ==
  ASSUME TablesTyped, NEW v \in VirtualPage, NEW l \in Level
  PROVE PteAt(v, l) \in AnyPte
BY ReadTyped, PageIndex DEF PteAt

(* What fill_tlb caches is a TLB entry.                                    *)
LEMMA EntryTyped ==
  ASSUME TablesTyped, NEW v \in VirtualPage, NEW l \in Level, NEW pte \in AnyPte
  PROVE EntryFor(v, l, pte) \in Entry
<1>1. satp.asid \in Asid
  BY DEF TablesTyped, AnySatp
<1> QED BY <1>1, PrefixTyped DEF EntryFor, Entry, AnyPte

(* Without A and D it still is.                                            *)
LEMMA MappingTyped ==
  ASSUME NEW e \in Entry
  PROVE Mapping(e) \in Entry
BY DEF Mapping, Entry

(* The update of a leaf adds A, and D for a write, and nothing else.       *)
LEMMA DesiredFacts ==
  ASSUME NEW flags \in SUBSET Flag, NEW r
  PROVE /\ Desired(flags, r) \in SUBSET Flag
        /\ Desired(flags, r) \ {"A", "D"} = flags \ {"A", "D"}
        /\ "A" \in Desired(flags, r) /\ (Writes(r) => "D" \in Desired(flags, r))
BY DEF Desired, Flag

(* The A and D bits take no part in the permission.                        *)
LEMMA PermissionAD ==
  ASSUME NEW before, NEW after, NEW r, before \ {"A", "D"} = after \ {"A", "D"}
  PROVE permission_allows(before, r) = permission_allows(after, r)
<1>1. \A flag \in {"U", "X", "R", "W"} : flag \in before <=> flag \in after
  OBVIOUS
<1> QED BY <1>1 DEF permission_allows

(* permission_allows is the rule of the specification.                     *)
LEMMA PermissionRule ==
  ASSUME NEW flags \in SUBSET Flag, NEW r \in Request, r.privilege # "M"
  PROVE permission_allows(flags, r) <=> Permitted(flags, r)
<1>1. r.privilege \in {"U", "S"} /\ r.kind \in Kind /\ r.sum \in BOOLEAN /\ r.mxr \in BOOLEAN
  BY DEF Request, Privilege
<1>2. CASE r.kind = "InstructionFetch"
  BY <1>1, <1>2 DEF permission_allows, Permitted
<1>3. CASE r.kind = "Load"
  BY <1>1, <1>3 DEF permission_allows, Permitted
<1>4. CASE r.kind = "Store"
  BY <1>1, <1>4 DEF permission_allows, Permitted
<1>5. CASE r.kind = "Atomic"
  BY <1>1, <1>5 DEF permission_allows, Permitted
<1> QED BY <1>1, <1>2, <1>3, <1>4, <1>5 DEF Kind

(* The updated leaf is a page table entry.                                 *)
LEMMA DesiredPte ==
  ASSUME NEW pte \in AnyPte, NEW r
  PROVE /\ desired_pte(pte, r) \in AnyPte /\ desired_pte(pte, r).ppn = pte.ppn
        /\ desired_pte(pte, r).flags = Desired(pte.flags, r)
<1>1. Desired(pte.flags, r) \in SUBSET Flag /\ pte.ppn \in Ppn
  BY PteFields, DesiredFacts
<1> QED BY <1>1 DEF desired_pte, AnyPte

(* It has the mapping of the leaf before the update.                       *)
LEMMA DesiredMapping ==
  ASSUME NEW pte \in AnyPte, NEW r, NEW v, NEW l
  PROVE Mapping(EntryFor(v, l, desired_pte(pte, r))) = Mapping(EntryFor(v, l, pte))
<1>1. desired_pte(pte, r).flags \ {"A", "D"} = pte.flags \ {"A", "D"}
      /\ desired_pte(pte, r).ppn = pte.ppn
  BY PteFields, DesiredPte, DesiredFacts
<1> DEFINE e == EntryFor(v, l, desired_pte(pte, r))
           d == EntryFor(v, l, pte)
<1>2. /\ e.page = d.page /\ e.asid = d.asid /\ e.level = d.level /\ e.ppn = d.ppn
      /\ e.flags \ {"A", "D"} = d.flags \ {"A", "D"}
  BY <1>1, EntryForFields
<1> HIDE DEF e, d
<1>3. Mapping(e) = Mapping(d)
  BY <1>2, MappingSame
<1> QED BY <1>3 DEF e, d

(* A TLB entry with the updated flags serves the access.                   *)
LEMMA DesiredUsable ==
  ASSUME NEW flags \in SUBSET Flag, NEW r, permission_allows(flags, r),
         NEW e, e.flags = Desired(flags, r)
  PROVE "A" \in e.flags /\ Usable(e, r)
<1>1. /\ Desired(flags, r) \ {"A", "D"} = flags \ {"A", "D"}
      /\ "A" \in Desired(flags, r) /\ (Writes(r) => "D" \in Desired(flags, r))
  BY DesiredFacts
<1>2. permission_allows(Desired(flags, r), r)
  BY <1>1, PermissionAD
<1> QED BY <1>1, <1>2 DEF Usable

(* Renewing a slot keeps the order of the slots total.                     *)
LEMMA RenewTyped ==
  ASSUME RankTyped, NEW s \in Slot, Renew(s)
  PROVE RankTyped'
<1>1. \A t \in Slot : rank[t] \in 1..TlbSize /\ (rank[t] = rank[s] => t = s)
  BY DEF RankTyped, Slot
<1>2. TlbSize \in Nat \ {0}
  BY MmuAssumption
<1>3. \A t \in Slot : rank'[t] = IF t = s THEN TlbSize
                               ELSE IF rank[t] > rank[s] THEN rank[t] - 1 ELSE rank[t]
  BY DEF Renew
<1>4. \A t \in Slot : rank'[t] \in Slot
  BY <1>1, <1>2, <1>3 DEF Slot
<1>5. \A t, u \in Slot : rank[t] = rank[u] => t = u
  BY DEF RankTyped
<1>6. \A t \in Slot : t # s => rank'[t] < TlbSize
  BY <1>1, <1>2, <1>3
<1>7. ASSUME NEW t \in Slot, NEW u \in Slot, rank'[t] = rank'[u]
      PROVE t = u
  <2>1. CASE t = s \/ u = s
    BY <1>3, <1>6, <1>7, <2>1, <1>2
  <2>2. CASE t # s /\ u # s
    BY <1>1, <1>2, <1>3, <1>5, <1>7, <2>2
  <2> QED BY <2>1, <2>2
<1>8. rank' \in [Slot -> Slot]
  BY <1>4 DEF Renew
<1> QED BY <1>7, <1>8 DEF RankTyped

(* Membership in Current, now and after a step.                            *)
LEMMA CurrentMember ==
  /\ \A m : m \in Current <=>
       /\ satp.mode # "Bare"
       /\ \E v \in VirtualPage, l \in Level :
            Found(v, l) /\ m = Mapping(EntryFor(v, l, PteAt(v, l)))
  /\ \A m : m \in Current' <=>
       /\ satp'.mode # "Bare"
       /\ \E v \in VirtualPage, l \in Level :
            Found(v, l)' /\ m = Mapping(EntryFor(v, l, PteAt(v, l)))'
BY DEF Current

(* The page tables hold well-formed mappings.                              *)
LEMMA CurrentTyped ==
  TablesTyped => Current \subseteq Entry
BY CurrentMember, PteTyped, EntryTyped, MappingTyped

(* So they do after any step.                                              *)
LEMMA CurrentTypedNext ==
  TablesTyped' => (Current \subseteq Entry)'
BY CurrentTyped, PTL

(* Entries that differ in A and D only lead every walk the same way.       *)
LEMMA WalkSimilar ==
  ASSUME satp' = satp,
         \A t, i : i \in Index =>
           /\ Read(t, i)'.ppn = Read(t, i).ppn
           /\ Read(t, i)'.flags \ {"A", "D"} = Read(t, i).flags \ {"A", "D"}
  PROVE Current' = Current
<1>1. ASSUME NEW v \in VirtualPage, NEW l \in Level
      PROVE TableAt(v, l)' = TableAt(v, l)
  BY PageIndex, LevelFacts DEF TableAt
<1>2. ASSUME NEW v \in VirtualPage, NEW l \in Level
      PROVE /\ PteAt(v, l)'.ppn = PteAt(v, l).ppn
            /\ PteAt(v, l)'.flags \ {"A", "D"} = PteAt(v, l).flags \ {"A", "D"}
  BY <1>1, PageIndex DEF PteAt
<1>3. ASSUME NEW v \in VirtualPage, NEW l \in Level
      PROVE /\ pte_valid(PteAt(v, l)'.flags) <=> pte_valid(PteAt(v, l).flags)
            /\ pte_leaf(PteAt(v, l)'.flags) <=> pte_leaf(PteAt(v, l).flags)
  <2>1. \A flag \in {"V", "X", "R", "W"} :
          flag \in PteAt(v, l)'.flags <=> flag \in PteAt(v, l).flags
    BY <1>2
  <2> QED BY <2>1 DEF pte_valid, pte_leaf
<1>4. ASSUME NEW v \in VirtualPage, NEW l \in Level
      PROVE Found(v, l)' <=> Found(v, l)
  BY <1>2, <1>3 DEF Found, Points, superpage_aligned
<1>5. ASSUME NEW v \in VirtualPage, NEW l \in Level
      PROVE Mapping(EntryFor(v, l, PteAt(v, l)))' = Mapping(EntryFor(v, l, PteAt(v, l)))
  <2>1. Mapping(EntryFor(v, l, PteAt(v, l)))' =
          [page |-> virtual_page_for_level(v, l), asid |-> satp.asid, level |-> l,
           ppn |-> PteAt(v, l)'.ppn, flags |-> PteAt(v, l)'.flags \ {"A", "D"}]
    BY ZenonT(60) DEF Mapping, EntryFor
  <2>2. Mapping(EntryFor(v, l, PteAt(v, l))) =
          [page |-> virtual_page_for_level(v, l), asid |-> satp.asid, level |-> l,
           ppn |-> PteAt(v, l).ppn, flags |-> PteAt(v, l).flags \ {"A", "D"}]
    BY ZenonT(60) DEF Mapping, EntryFor
  <2> QED BY <1>2, <2>1, <2>2, ZenonT(60)
<1>6. \A m : m \in Current' <=> m \in Current
  BY <1>4, <1>5, CurrentMember
<1> QED BY <1>6

(* compose_physical_address takes the untranslated parts from the page.    *)
LEMMA ComposeFacts ==
  ASSUME NEW v \in VirtualPage, NEW ppn \in Ppn, NEW l \in Level
  PROVE /\ compose_physical_address(v, ppn, l) \in Ppn
        /\ \A k \in Level :
             IF k \in DOMAIN virtual_page_for_level(v, l).index
             THEN compose_physical_address(v, ppn, l)[k] = ppn[k]
             ELSE compose_physical_address(v, ppn, l)[k] = v.index[k]
<1>1. compose_physical_address(v, ppn, l) \in Ppn
  BY PageIndex DEF compose_physical_address, Ppn
<1>2. DOMAIN virtual_page_for_level(v, l).index = l..2
  BY DEF virtual_page_for_level
<1>3. ASSUME NEW k \in Level
      PROVE compose_physical_address(v, ppn, l)[k] = IF k \in l..2 THEN ppn[k] ELSE v.index[k]
  BY DEF compose_physical_address, Level
<1> QED BY <1>1, <1>2, <1>3

(* A translation through a usable TLB entry is sound.                      *)
LEMMA SoundThroughEntry ==
  ASSUME NEW r \in Request, NEW s \in Slot, NEW e \in Entry, e = tlb'[s],
         access' = Translated(r, [high |-> "zeros",
                     ppn |-> compose_physical_address(r.page, e.ppn, e.level)]),
         satp' = satp, ~Bare(r), canonical_sv39(r.page),
         Matches(e, r.page, satp.asid), Mapping(e) \in legal',
         Usable(e, r), "A" \in e.flags
  PROVE TranslationSound' /\ access'.stage = "ok" /\ access'.request \in Request
        /\ access'.physical \in Physical
<1>1. /\ e.page \in Prefix /\ e.level \in Level /\ e.ppn \in Ppn /\ e.flags \in SUBSET Flag
      /\ r.page \in VirtualPage /\ r.privilege # "M"
  BY RequestFields, EntryFields, ZenonT(60) DEF Bare
<1> DEFINE ppn == compose_physical_address(r.page, e.ppn, e.level)
<1>2. /\ access'.stage = "ok" /\ access'.request = r
      /\ access'.physical = [high |-> "zeros", ppn |-> ppn]
  BY TranslatedNext, ZenonT(60)
<1>9. ppn \in Ppn /\ \A k \in Level :
        IF k \in DOMAIN virtual_page_for_level(r.page, e.level).index
        THEN ppn[k] = e.ppn[k] ELSE ppn[k] = r.page.index[k]
  BY <1>1, ComposeFacts, ZenonT(60)
<1> HIDE DEF ppn
<1>10. access'.physical.high = "zeros" /\ access'.physical.ppn = ppn
  BY <1>2, <1>9, PhysicalFields, ZenonT(60)
<1>3. access'.physical \in Physical
  BY <1>2, <1>9, PhysicalFields, ZenonT(60)
<1>4. Permitted(e.flags, r) /\ {"A"} \cup (IF Writes(r) THEN {"D"} ELSE {}) \subseteq e.flags
  BY <1>1, PermissionRule, ZenonT(60) DEF Usable
<1>5. e.page = virtual_page_for_level(r.page, e.level)
  BY ZenonT(60) DEF Matches
<1>6. \A k \in Level : access'.physical.ppn[k] =
         IF k \in DOMAIN e.page.index THEN e.ppn[k] ELSE r.page.index[k]
  BY <1>5, <1>9, <1>10, ZenonT(60)
<1>7. ~Bare(r)'
  BY BareKept, ZenonT(60)
<1>8. TranslationSound'
  BY <1>2, <1>4, <1>6, <1>7, <1>10, ZenonT(60) DEF TranslationSound
<1> QED BY <1>2, <1>3, <1>8, ZenonT(60)

(* The entry fill_tlb caches for a leaf that permits the access.           *)
LEMMA FilledEntry ==
  ASSUME TablesTyped, NEW r \in Request, NEW l \in Level, NEW pte \in AnyPte,
         permission_allows(pte.flags, r),
         NEW e, e = EntryFor(r.page, l, desired_pte(pte, r))
  PROVE /\ e \in Entry /\ e.level = l /\ e.ppn = pte.ppn
        /\ Mapping(e) = Mapping(EntryFor(r.page, l, pte))
        /\ "A" \in e.flags /\ Usable(e, r) /\ Matches(e, r.page, satp.asid)
<1>1. r.page \in VirtualPage /\ pte.flags \in SUBSET Flag /\ pte.ppn \in Ppn
  BY RequestFields, PteFields, ZenonT(60)
<1>2. desired_pte(pte, r) \in AnyPte /\ desired_pte(pte, r).ppn = pte.ppn
      /\ desired_pte(pte, r).flags = Desired(pte.flags, r)
  BY DesiredPte
<1>3. e \in Entry
  BY <1>1, <1>2, EntryTyped
<1>4. /\ e.page = virtual_page_for_level(r.page, l) /\ e.level = l /\ e.asid = satp.asid
      /\ e.ppn = pte.ppn /\ e.flags = Desired(pte.flags, r)
  BY <1>2, EntryForFields
<1>5. Mapping(e) = Mapping(EntryFor(r.page, l, pte))
  BY DesiredMapping, ZenonT(60)
<1>6. "A" \in e.flags /\ Usable(e, r)
  BY <1>1, <1>4, DesiredUsable, ZenonT(60)
<1>7. Matches(e, r.page, satp.asid)
  BY <1>3, <1>4, EntryNotNone, ZenonT(60) DEF Matches
<1> QED BY <1>3, <1>4, <1>5, <1>6, <1>7, ZenonT(60)

(* What the TLB holds after fill_tlb.                                      *)
LEMMA CompleteKeeps ==
  ASSUME TablesTyped, RankTyped, TlbTyped, TlbCoherent, Accessed,
         NEW r \in Request, NEW l \in Level,
         NEW pte \in AnyPte, ~Bare(r), canonical_sv39(r.page), permission_allows(pte.flags, r),
         Mapping(EntryFor(r.page, l, pte)) \in legal,
         Complete(r, l, pte), satp' = satp, legal' = legal
  PROVE /\ TlbTyped' /\ RankTyped'
        /\ access'.stage = "ok" /\ access'.request \in Request /\ access'.physical \in Physical
        /\ TlbCoherent' /\ Accessed' /\ TranslationSound'
<1> DEFINE e == EntryFor(r.page, l, desired_pte(pte, r))
<1>1. PICK s \in Slot : tlb' = [tlb EXCEPT ![s] = e] /\ Renew(s)
  BY ZenonT(60) DEF Complete, fill_tlb
<1>4. /\ e \in Entry /\ e.level = l /\ e.ppn = pte.ppn
      /\ Mapping(e) = Mapping(EntryFor(r.page, l, pte))
      /\ "A" \in e.flags /\ Usable(e, r) /\ Matches(e, r.page, satp.asid)
  BY FilledEntry, ZenonT(60)
<1> HIDE DEF e
<1>9. TlbTyped'
  BY <1>1, <1>4, ZenonT(60) DEF TlbTyped
<1>10. e = tlb'[s] /\ \A t \in Slot : t # s => tlb'[t] = tlb[t]
  BY <1>1 DEF TlbTyped
<1>11. TlbCoherent'
  BY <1>4, <1>10, ZenonT(60) DEF TlbCoherent
<1>12. Accessed'
  BY <1>4, <1>10, ZenonT(60) DEF Accessed
<1>13. access' = Translated(r, [high |-> "zeros",
                   ppn |-> compose_physical_address(r.page, e.ppn, e.level)])
  BY <1>4, ZenonT(60) DEF Complete
<1>14. Mapping(e) \in legal'
  BY <1>4, ZenonT(60)
<1> QED BY <1>1, <1>4, <1>9, <1>10, <1>11, <1>12, <1>13, <1>14, RenewTyped,
           SoundThroughEntry, ZenonT(60)

(* Pages with the same prefix share the walk down to that level.           *)
LEMMA SamePath ==
  ASSUME NEW v \in VirtualPage, NEW w \in VirtualPage, NEW l \in Level,
         virtual_page_for_level(v, l) = virtual_page_for_level(w, l)
  PROVE PteAt(v, l) = PteAt(w, l) /\ (Found(v, l) <=> Found(w, l))
<1>1. \A k \in l..2 : v.index[k] = w.index[k]
  <2>1. [k \in l..2 |-> v.index[k]] = [k \in l..2 |-> w.index[k]]
    BY DEF virtual_page_for_level
  <2> QED BY <2>1
<1>2. \A k \in Level : k >= l => v.index[k] = w.index[k]
  BY <1>1 DEF Level
<1>3. \A k \in Level : k >= l => TableAt(v, k) = TableAt(w, k)
  BY <1>2, LevelFacts DEF TableAt
<1>4. \A k \in Level : k >= l => PteAt(v, k) = PteAt(w, k)
  BY <1>2, <1>3 DEF PteAt
<1>5. l \in Level /\ l >= l /\ \A k \in Level : k > l => k >= l
  BY DEF Level
<1> QED BY <1>4, <1>5 DEF Found

(* Mappings depend on the tables and satp only.                            *)
LEMMA CurrentSame ==
  ASSUME UNCHANGED <<ptes, satp>>
  PROVE Current' = Current
BY WalkSimilar DEF Read

(* A step that changes the access only.                                    *)
LEMMA AccessStep ==
  ASSUME MmuInv, AccessTyped', UNCHANGED <<ptes, satp, tlb, rank, legal, written>>
  PROVE MmuTypeOK' /\ CurrentLegal' /\ TlbCoherent' /\ Accessed'
<1>1. MmuTypeOK'
  BY InvParts, TypedKept, TypePartsNext
<1>2. CurrentLegal'
  BY InvParts, CurrentSame DEF CurrentLegal
<1>3. TlbCoherent' /\ Accessed'
  BY InvParts, TlbKept
<1> QED BY <1>1, <1>2, <1>3

(* A leaf the walk finds lies in a table.                                  *)
LEMMA LeafInTable ==
  ASSUME NEW v \in VirtualPage, NEW l \in Level, Found(v, l)
  PROVE TableAt(v, l) \in Table /\ PteAt(v, l) = ptes[<<TableAt(v, l), v.index[l]>>]
<1>1. "V" \in PteAt(v, l).flags
  BY ZenonT(60) DEF Found, pte_valid
<1> QED BY <1>1, ZenonT(60) DEF PteAt, Read

(* What is known of an access that waits for its compare-and-exchange.     *)
LEMMA PendingNext ==
  ASSUME NEW r, NEW at, NEW l, NEW pte, access' = Updating(r, at, l, pte),
         UNCHANGED <<ptes, satp, legal>>, ~Bare(r), canonical_sv39(r.page),
         permission_allows(pte.flags, r), Desired(pte.flags, r) # pte.flags,
         Mapping(EntryFor(r.page, l, pte)) \in legal, ptes[at] = pte
  PROVE Pending'
<1>1. /\ access'.stage = "update" /\ access'.request = r /\ access'.level = l
      /\ access'.at = at /\ access'.pte = pte
  BY UpdatingNext, ZenonT(60)
<1>2. Mapping(EntryFor(access.request.page, access.level, access.pte))'
        = Mapping(EntryFor(r.page, l, pte))
  BY <1>1, ZenonT(60) DEF EntryFor, Mapping
<1>3. ~Bare(access.request)'
  BY <1>1, ZenonT(60) DEF Bare
<1> QED BY <1>1, <1>2, <1>3, ZenonT(60) DEF Pending

(* A step of the walk preserves the invariant.                             *)
LEMMA WalkKeeps ==
  ASSUME MmuInv, NEW r \in Request, ~Bare(r), canonical_sv39(r.page), walk_page_table(r),
         UNCHANGED <<ptes, satp, legal, written>>
  PROVE MmuInv'
<1>1. r.page \in VirtualPage /\ r.privilege # "M" /\ satp.mode # "Bare"
  BY RequestFields DEF Bare
<1>2. Current' = Current
  BY CurrentSame
<1>3. CASE /\ \A l \in Level : ~Leaf(r, l)
           /\ access' = Faulted(r) /\ UNCHANGED <<tlb, rank>>
  <2>1. access'.stage = "fault" /\ access'.request = r
    BY <1>3, AccessFields
  <2>2. ASSUME NEW m \in Current, Matches(m, r.page, satp.asid)
        PROVE ~Permitted(m.flags, r)
    <3>1. PICK v \in VirtualPage, l \in Level :
            Found(v, l) /\ m = Mapping(EntryFor(v, l, PteAt(v, l)))
      BY CurrentMember
    <3>2. /\ m.page = virtual_page_for_level(v, l) /\ m.level = l
          /\ m.flags = PteAt(v, l).flags \ {"A", "D"}
      BY <3>1, ZenonT(60) DEF Mapping, EntryFor
    <3>3. virtual_page_for_level(v, l) = virtual_page_for_level(r.page, l)
      BY <2>2, <3>2, ZenonT(60) DEF Matches
    <3>4. Found(r.page, l) /\ PteAt(r.page, l) = PteAt(v, l)
      BY <1>1, <3>1, <3>3, SamePath
    <3>5. ~permission_allows(PteAt(v, l).flags, r)
      BY <1>3, <3>4 DEF Leaf
    <3>6. PteAt(v, l).flags \in SUBSET Flag
      BY PteTyped, InvParts DEF AnyPte
    <3>7. m.flags \in SUBSET Flag /\ m.flags \ {"A", "D"} = PteAt(v, l).flags \ {"A", "D"}
      BY <3>2, <3>6, ZenonT(60)
    <3>8. ~permission_allows(m.flags, r)
      BY <3>5, <3>7, PermissionAD
    <3> QED BY <1>1, <3>7, <3>8, PermissionRule, ZenonT(60)
  <2>3. FaultGenuine'
    BY <1>2, <2>1, <2>2, ZenonT(60) DEF FaultGenuine, Bare
  <2>4. AccessTyped'
    BY <2>1 DEF AccessTyped
  <2>5. Pending' /\ TranslationSound'
    BY <2>1, OtherStage
  <2> QED BY <1>3, <2>3, <2>4, <2>5, AccessStep, InvNext
<1>4. ASSUME NEW l \in Level, Leaf(r, l)
      PROVE /\ PteAt(r.page, l) \in AnyPte /\ permission_allows(PteAt(r.page, l).flags, r)
            /\ Mapping(EntryFor(r.page, l, PteAt(r.page, l))) \in legal
            /\ TableAt(r.page, l) \in Table
            /\ PteAt(r.page, l) = ptes[<<TableAt(r.page, l), r.page.index[l]>>]
  <2>1. Found(r.page, l) /\ permission_allows(PteAt(r.page, l).flags, r)
    BY <1>4 DEF Leaf
  <2>2. Mapping(EntryFor(r.page, l, PteAt(r.page, l))) \in Current
    BY <1>1, <2>1, CurrentMember
  <2>3. Mapping(EntryFor(r.page, l, PteAt(r.page, l))) \in legal
    BY <2>2, InvParts DEF CurrentLegal
  <2>4. PteAt(r.page, l) \in AnyPte
    BY <1>1, PteTyped, InvParts
  <2> QED BY <1>1, <2>1, <2>3, <2>4, LeafInTable, ZenonT(60)
<1>5. ASSUME NEW l \in Level, Leaf(r, l),
             Desired(PteAt(r.page, l).flags, r) # PteAt(r.page, l).flags,
             access' = Updating(r, <<TableAt(r.page, l), r.page.index[l]>>, l, PteAt(r.page, l)),
             UNCHANGED <<tlb, rank>>
      PROVE MmuInv'
  <2>0. /\ PteAt(r.page, l) \in AnyPte
        /\ Mapping(EntryFor(r.page, l, PteAt(r.page, l))) \in legal
        /\ PteAt(r.page, l) = ptes[<<TableAt(r.page, l), r.page.index[l]>>]
        /\ permission_allows(PteAt(r.page, l).flags, r)
    BY <1>4, <1>5, ZenonT(60)
  <2>1. /\ access'.stage = "update" /\ access'.request = r /\ access'.level = l
        /\ access'.at = <<TableAt(r.page, l), r.page.index[l]>>
        /\ access'.pte = PteAt(r.page, l)
    BY <1>5, UpdatingNext, ZenonT(60)
  <2>2. access'.at \in Table \X Index
    <3>1. TableAt(r.page, l) \in Table /\ r.page.index[l] \in Index
      BY <1>1, <1>4, <1>5, PageIndex, ZenonT(60)
    <3> QED BY <2>1, <3>1, PlaceTyped, ZenonT(60)
  <2>3. AccessTyped'
    <3>1. access'.pte \in AnyPte
      BY <2>0, <2>1, ZenonT(60)
    <3> QED BY <2>1, <2>2, <3>1, ZenonT(60) DEF AccessTyped
  <2>8. Pending'
    BY <1>5, <2>0, PendingNext, ZenonT(60)
  <2>6. TranslationSound' /\ FaultGenuine'
    BY <2>1, OtherStage, ZenonT(60)
  <2> QED BY <1>5, <2>3, <2>6, <2>8, AccessStep, InvNext
<1>6. ASSUME NEW l \in Level, Leaf(r, l), Complete(r, l, PteAt(r.page, l))
      PROVE MmuInv'
  <2>1. /\ TlbTyped' /\ RankTyped'
        /\ access'.stage = "ok" /\ access'.request \in Request /\ access'.physical \in Physical
        /\ TlbCoherent' /\ Accessed' /\ TranslationSound'
    BY <1>4, <1>6, CompleteKeeps, InvParts, ZenonT(60)
  <2>2. AccessTyped'
    BY <2>1 DEF AccessTyped
  <2>3. MmuTypeOK'
    BY <2>1, <2>2, InvParts, TypePartsNext, TypedKept
  <2>4. Pending' /\ FaultGenuine'
    BY <2>1, OtherStage
  <2>5. CurrentLegal'
    BY <1>2, InvParts DEF CurrentLegal
  <2> QED BY <2>1, <2>3, <2>4, <2>5, InvNext
<1> QED BY <1>3, <1>5, <1>6, ZenonT(60) DEF walk_page_table

-----------------------------------------------------------------------------
(* Every step preserves the invariant.                                     *)

(* The invariant holds at reset.                                           *)
LEMMA InitInv ==
  MmuInit => MmuInv
<1> SUFFICES ASSUME MmuInit PROVE MmuInv
  OBVIOUS
<1>1. satp \in AnySatp /\ satp.mode = "Bare"
  BY MmuAssumption DEF MmuInit, AnySatp
<1>2. Current = {}
  BY <1>1 DEF Current
<1>3. access.stage = "idle"
  BY DEF MmuInit, Idle
<1>4. MmuTypeOK
  BY <1>1, <1>3, MmuAssumption DEF MmuInit, MmuTypeOK, Slot
<1>5. TlbCoherent /\ Accessed /\ Pending /\ TranslationSound /\ FaultGenuine
  BY <1>3, ZenonT(60) DEF MmuInit, TlbCoherent, Accessed, Pending, TranslationSound, FaultGenuine
<1> QED BY <1>2, <1>4, <1>5 DEF MmuInv, CurrentLegal, MmuInit

(* Mmu::translate up to the update of the leaf.                            *)
LEMMA TranslateKeeps ==
  ASSUME MmuInv, translate
  PROVE MmuInv'
<1>1. PICK v \in VirtualPage, a \in Access :
        \/ Untranslated(RequestOf(v, a))
        \/ /\ ~Bare(RequestOf(v, a)) /\ canonical_sv39(v)
           /\ Hit(RequestOf(v, a)) \/ Miss(RequestOf(v, a))
  BY DEF translate
<1> DEFINE r == RequestOf(v, a)
<1>2. r \in Request /\ r.page = v
  BY MmuAssumption, ZenonT(60) DEF RequestOf, Request, data_privilege
<1> HIDE DEF r
<1>3. UNCHANGED <<ptes, satp, legal, written>>
  BY DEF translate
<1>4. CurrentLegal'
  BY <1>3, CurrentSame, InvParts DEF CurrentLegal
<1>5. CASE /\ Bare(r) /\ UNCHANGED <<tlb, rank>>
           /\ access' = Translated(r, [high |-> r.page.high, ppn |-> r.page.index])
  <2>1. /\ access'.stage = "ok" /\ access'.request = r
        /\ access'.physical = [high |-> r.page.high, ppn |-> r.page.index]
    BY <1>5 DEF Translated
  <2>2. access'.physical \in Physical
    BY <1>2, <2>1, PageIndex DEF Physical
  <2>3. Bare(r)'
    BY <1>3, <1>5 DEF Bare
  <2>4. TranslationSound'
    BY <2>1, <2>3, ZenonT(60) DEF TranslationSound
  <2>5. AccessTyped'
    BY <1>2, <2>1, <2>2, ZenonT(60) DEF AccessTyped
  <2>6. Pending' /\ FaultGenuine'
    BY <2>1, OtherStage, ZenonT(60)
  <2> QED BY <1>3, <1>5, <2>4, <2>5, <2>6, AccessStep, InvNext, ZenonT(60)
<1>6. CASE /\ ~Bare(r) /\ ~canonical_sv39(r.page)
           /\ access' = Faulted(r) /\ UNCHANGED <<tlb, rank>>
  <2>1. access'.stage = "fault" /\ access'.request = r
    BY <1>6 DEF Faulted
  <2>2. FaultGenuine'
    BY <1>3, <1>6, <2>1, ZenonT(60) DEF FaultGenuine, Bare
  <2>3. AccessTyped'
    BY <1>2, <2>1, ZenonT(60) DEF AccessTyped
  <2>4. Pending' /\ TranslationSound'
    BY <2>1, OtherStage
  <2> QED BY <1>3, <1>6, <2>2, <2>3, <2>4, AccessStep, InvNext
<1>7. CASE ~Bare(r) /\ canonical_sv39(r.page) /\ Hit(r)
  <2>1. PICK s \in Hits(r) :
          /\ access' = Translated(r, [high |-> "zeros",
               ppn |-> compose_physical_address(r.page, tlb[s].ppn, tlb[s].level)])
          /\ Renew(s) /\ tlb' = tlb
    BY <1>7 DEF Hit
  <2>2. s \in Slot /\ Matches(tlb[s], r.page, satp.asid) /\ Usable(tlb[s], r)
    BY DEF Hits, FirstMatch
  <2>3. tlb[s] \in Entry /\ Mapping(tlb[s]) \in legal /\ "A" \in tlb[s].flags
    BY <2>2, InvParts, ZenonT(60) DEF Matches, TlbTyped, TlbCoherent, Accessed
  <2>4. TranslationSound' /\ access'.stage = "ok" /\ access'.request \in Request
        /\ access'.physical \in Physical
    BY <1>2, <1>3, <1>7, <2>1, <2>2, <2>3, SoundThroughEntry, ZenonT(60)
  <2>5. RankTyped'
    BY <2>1, <2>2, RenewTyped, InvParts
  <2>6. MmuTypeOK'
    <3>1. AccessTyped'
      BY <2>4 DEF AccessTyped
    <3> QED BY <3>1, <1>3, <2>1, <2>5, InvParts, TypePartsNext, TypedKept, ZenonT(60)
  <2>7. TlbCoherent' /\ Accessed'
    BY <1>3, <2>1, InvParts, TlbKept, ZenonT(60)
  <2>8. Pending' /\ FaultGenuine'
    BY <2>4, OtherStage
  <2> QED BY <1>4, <2>4, <2>6, <2>7, <2>8, InvNext
<1>8. CASE ~Bare(r) /\ canonical_sv39(r.page) /\ Miss(r)
  BY <1>2, <1>3, <1>8, WalkKeeps DEF Miss
<1> QED BY <1>1, <1>2, <1>5, <1>6, <1>7, <1>8, ZenonT(60) DEF Untranslated, r

(* The walk after a failed compare-and-exchange.                           *)
LEMMA WalkAgainKeeps ==
  ASSUME MmuInv, walk_again
  PROVE MmuInv'
<1>1. access.request \in Request
  BY InvParts DEF AccessTyped, walk_again
<1>2. ~Bare(access.request) /\ canonical_sv39(access.request.page)
  BY InvParts, ZenonT(60) DEF Pending, walk_again
<1> QED BY <1>1, <1>2, WalkKeeps DEF walk_again

(* The compare-and-exchange that succeeds.                                 *)
LEMMA CommitKeeps ==
  ASSUME MmuInv, commit_update
  PROVE MmuInv'
<1> DEFINE r == access.request
           pte == access.pte
           at == access.at
<1>1. /\ r \in Request /\ at \in Table \X Index /\ access.level \in Level /\ pte \in AnyPte
      /\ ~Bare(r) /\ canonical_sv39(r.page) /\ permission_allows(pte.flags, r)
      /\ Mapping(EntryFor(r.page, access.level, pte)) \in legal
  BY InvParts, ZenonT(60) DEF AccessTyped, Pending, commit_update
<1>2. /\ ptes[at] = pte /\ ptes' = [ptes EXCEPT ![at] = desired_pte(pte, r)]
      /\ Complete(r, access.level, pte) /\ UNCHANGED <<satp, legal, written>>
  BY ZenonT(60) DEF commit_update, Exchange
<1> HIDE DEF r, pte, at
<1>3. /\ TlbTyped' /\ RankTyped'
      /\ access'.stage = "ok" /\ access'.request \in Request /\ access'.physical \in Physical
      /\ TlbCoherent' /\ Accessed' /\ TranslationSound'
  BY <1>1, <1>2, CompleteKeeps, InvParts, ZenonT(60)
<1>4. /\ desired_pte(pte, r) \in AnyPte /\ desired_pte(pte, r).ppn = pte.ppn
      /\ desired_pte(pte, r).flags \ {"A", "D"} = pte.flags \ {"A", "D"}
  BY <1>1, DesiredFacts, ZenonT(60) DEF desired_pte, AnyPte
<1>5. ptes \in [Table \X Index -> AnyPte] /\ satp \in AnySatp
  BY InvParts DEF TablesTyped
<1>6. ptes' \in [Table \X Index -> AnyPte]
  BY <1>1, <1>2, <1>4, <1>5, ZenonT(60)
<1>7. ASSUME NEW t, NEW i \in Index
      PROVE /\ Read(t, i)'.ppn = Read(t, i).ppn
            /\ Read(t, i)'.flags \ {"A", "D"} = Read(t, i).flags \ {"A", "D"}
  <2>1. CASE t \notin Table
    BY <2>1, ZenonT(60) DEF Read
  <2>2. CASE t \in Table
    <3>1. CASE <<t, i>> = at
      <4>1. ptes'[<<t, i>>] = desired_pte(pte, r) /\ ptes[<<t, i>>] = pte
        BY <1>1, <1>2, <1>5, <3>1
      <4> QED BY <1>4, <2>2, <4>1, ZenonT(60) DEF Read
    <3>2. CASE <<t, i>> # at
      <4>1. ptes'[<<t, i>>] = ptes[<<t, i>>]
        BY <1>2, <1>5, <2>2, <3>2
      <4> QED BY <2>2, <4>1, ZenonT(60) DEF Read
    <3> QED BY <3>1, <3>2, ZenonT(60)
  <2> QED BY <2>1, <2>2, ZenonT(60)
<1>8. CurrentLegal'
  BY <1>2, <1>7, WalkSimilar, InvParts, ZenonT(60) DEF CurrentLegal
<1>9. MmuTypeOK'
  <2>1. AccessTyped'
    BY <1>3, ZenonT(60) DEF AccessTyped
  <2>2. TablesTyped'
    BY <1>2, <1>5, <1>6 DEF TablesTyped
  <2> QED BY <1>2, <1>3, <2>1, <2>2, InvParts, TypedKept, TypePartsNext, ZenonT(60)
<1>10. Pending' /\ FaultGenuine'
  BY <1>3, OtherStage
<1> QED BY <1>3, <1>8, <1>9, <1>10, InvNext

(* The compare-and-exchange that fails or is refused, and the hart's use   *)
(* of the result.                                                          *)
LEMMA OutcomeKeeps ==
  ASSUME MmuInv, retry_update \/ refuse_update \/ finish
  PROVE MmuInv'
<1>1. UNCHANGED <<ptes, satp, tlb, rank, legal, written>>
  BY ZenonT(60) DEF retry_update, refuse_update, finish
<1>4. CASE retry_update
  <2>1. access'.stage = "walk" /\ access'.request = access.request
    BY <1>4, ZenonT(60) DEF retry_update, retry, Walking
  <2>2. access.request \in Request /\ ~Bare(access.request)
        /\ canonical_sv39(access.request.page)
    BY <1>4, InvParts, ZenonT(60) DEF AccessTyped, Pending, retry_update
  <2>3. AccessTyped'
    BY <2>1, <2>2 DEF AccessTyped
  <2>4. TranslationSound' /\ FaultGenuine'
    BY <2>1, OtherStage
  <2>5. Pending'
    BY <1>1, <2>1, <2>2, ZenonT(60) DEF Pending, Bare
  <2> QED BY <1>1, <2>3, <2>4, <2>5, AccessStep, InvNext
<1>5. CASE refuse_update
  <2> DEFINE r == access.request
             m == Mapping(EntryFor(r.page, access.level, access.pte))
  <2>1. access'.stage = "fault" /\ access'.request = r
    BY <1>5, ZenonT(60) DEF refuse_update, Faulted
  <2>2. /\ r \in Request /\ r.page \in VirtualPage /\ access.level \in Level
        /\ access.pte \in AnyPte /\ access.at \in ReadOnly \X Index
        /\ ~Bare(r) /\ permission_allows(access.pte.flags, r)
        /\ Desired(access.pte.flags, r) # access.pte.flags
        /\ m \in legal /\ ptes[access.at] = access.pte
    BY <1>5, InvParts, ZenonT(60) DEF AccessTyped, Pending, refuse_update, Request
  <2>3. /\ m.page = virtual_page_for_level(r.page, access.level) /\ m.level = access.level
        /\ m.asid = satp.asid /\ m.ppn = access.pte.ppn
        /\ m.flags = access.pte.flags \ {"A", "D"}
    BY ZenonT(60) DEF Mapping, EntryFor
  <2>4. m \in Entry
    BY <2>2, InvParts, ZenonT(60) DEF HistoryTyped
  <2> HIDE DEF m
  <2>5. Matches(m, r.page, satp.asid)
    BY <2>3, <2>4, EntryNotNone, ZenonT(60) DEF Matches
  <2>6. r.privilege # "M" /\ access.pte.flags \in SUBSET Flag
    BY <2>2, ZenonT(60) DEF Bare, AnyPte
  <2>7. Permitted(m.flags, r)
    <3>1. m.flags \ {"A", "D"} = access.pte.flags \ {"A", "D"} /\ m.flags \in SUBSET Flag
      BY <2>3, <2>6, ZenonT(60)
    <3> QED BY <2>2, <2>6, <3>1, PermissionAD, PermissionRule
  <2>8. FaultGenuine'
    <3>1. ~Bare(access.request)'
      BY <1>1, <2>1, <2>2, ZenonT(60) DEF Bare
    <3>2. /\ ptes[access.at].ppn = m.ppn /\ ptes[access.at].flags \ {"A", "D"} = m.flags
          /\ Desired(ptes[access.at].flags, r) # ptes[access.at].flags
      BY <2>2, <2>3, ZenonT(60)
    <3>3. \E n \in legal, at \in ReadOnly \X Index :
            /\ Matches(n, r.page, satp.asid) /\ Permitted(n.flags, r)
            /\ ptes[at].ppn = n.ppn /\ ptes[at].flags \ {"A", "D"} = n.flags
            /\ Desired(ptes[at].flags, r) # ptes[at].flags
      BY <2>2, <2>5, <2>7, <3>2, ZenonT(60)
    <3> QED BY <1>1, <2>1, <3>1, <3>3, ZenonT(60) DEF FaultGenuine
  <2>9. AccessTyped'
    BY <2>1, <2>2, ZenonT(60) DEF AccessTyped
  <2>10. Pending' /\ TranslationSound'
    BY <2>1, OtherStage, ZenonT(60)
  <2> QED BY <1>1, <2>8, <2>9, <2>10, AccessStep, InvNext
<1>6. CASE finish
  <2>1. access'.stage = "idle"
    BY <1>6 DEF finish, Idle
  <2>2. AccessTyped'
    BY <2>1 DEF AccessTyped
  <2>3. Pending' /\ TranslationSound' /\ FaultGenuine'
    BY <2>1, OtherStage
  <2> QED BY <1>1, <2>2, <2>3, AccessStep, InvNext
<1> QED BY <1>4, <1>5, <1>6

(* SFENCE.VMA removes from the TLB whatever the fence ends the use of.     *)
LEMMA FenceKeeps ==
  ASSUME MmuInv, sfence_vma
  PROVE MmuInv'
<1>1. PICK v \in {{}} \cup {{page} : page \in VirtualPage}, asid \in {{}} \cup {{a} : a \in Asid} :
        /\ tlb' = [s \in Slot |-> IF tlb[s] # NoEntry /\ Flushed(tlb[s], v, asid)
                                  THEN NoEntry ELSE tlb[s]]
        /\ legal' = Current \cup {m \in legal : ~Fenced(m, v, asid)}
  BY ZenonT(60) DEF sfence_vma
<1>2. access.stage = "idle" /\ UNCHANGED <<ptes, satp, rank, access, written>>
  BY ZenonT(60) DEF sfence_vma, Idle
<1>3. CurrentLegal'
  BY <1>1, <1>2, CurrentSame DEF CurrentLegal
<1>4. \A s \in Slot : tlb'[s] # NoEntry => tlb'[s] = tlb[s] /\ ~Flushed(tlb[s], v, asid)
  BY <1>1
<1>5. ASSUME NEW s \in Slot, tlb'[s] # NoEntry
      PROVE Mapping(tlb'[s]) \in legal'
  <2>1. tlb'[s] = tlb[s] /\ ~Flushed(tlb[s], v, asid) /\ Mapping(tlb[s]) \in legal
    BY <1>4, <1>5, InvParts, ZenonT(60) DEF TlbCoherent
  <2>2. ~Fenced(Mapping(tlb[s]), v, asid)
    BY <2>1, ZenonT(60) DEF Fenced, Flushed, Mapping
  <2> QED BY <1>1, <2>1, <2>2, ZenonT(60)
<1>6. TlbCoherent'
  BY <1>5 DEF TlbCoherent
<1>7. Accessed'
  BY <1>4, InvParts, ZenonT(60) DEF Accessed
<1>8. HistoryTyped'
  <2>1. Current \subseteq Entry /\ legal \subseteq Entry
    BY InvParts, CurrentTyped DEF HistoryTyped
  <2>2. legal' \subseteq Entry
    BY <1>1, <2>1
  <2> QED BY <1>2, <2>2, InvParts DEF HistoryTyped
<1>9. TlbTyped'
  BY <1>1, InvParts DEF TlbTyped
<1>10. MmuTypeOK'
  BY <1>2, <1>8, <1>9, InvParts, TypedKept, TypePartsNext, ZenonT(60)
<1>11. Pending' /\ TranslationSound' /\ FaultGenuine'
  BY <1>2, OtherStage
<1> QED BY <1>3, <1>6, <1>7, <1>10, <1>11, InvNext

(* A write of satp or of a page table entry changes what the tables hold,  *)
(* never what the TLB holds or an access in progress has read.             *)
LEMMA WriteKeeps ==
  ASSUME MmuInv, write_satp \/ write_pte
  PROVE MmuInv'
<1>1. UNCHANGED <<tlb, rank, access>> /\ legal' = legal \cup Current'
  BY DEF write_satp, write_pte
<1>2. access.stage \in {"idle", "walk", "update"}
  BY DEF write_satp, write_pte, Idle
<1>3. satp' \in AnySatp /\ written' \in 0..MaxWrite
  <2>1. CASE write_satp
    BY <2>1, MmuAssumption, InvParts, ZenonT(60) DEF write_satp, TablesTyped, HistoryTyped, AnySatp
  <2>2. CASE write_pte
    <3>1. satp \in AnySatp /\ written \in 0..MaxWrite
      BY InvParts DEF TablesTyped, HistoryTyped
    <3>2. satp' = satp /\ written < MaxWrite /\ written' = written + 1
      BY <2>2, ZenonT(60) DEF write_pte
    <3>3. MaxWrite \in Nat
      BY MmuAssumption
    <3> QED BY <3>1, <3>2, <3>3
  <2> QED BY <2>1, <2>2
<1>4. /\ ptes' \in [Table \X Index -> AnyPte]
      /\ \A at \in ReadOnly \X Index : ptes'[at] = ptes[at]
  <2>1. CASE write_satp
    BY <2>1, InvParts, ZenonT(60) DEF write_satp, TablesTyped
  <2>2. CASE write_pte
    <3>1. PICK w \in PteWrite : ptes' = [ptes EXCEPT ![w.at] = w.pte]
      BY <2>2, ZenonT(60) DEF write_pte
    <3>2. w.at \in (Table \ ReadOnly) \X Index /\ w.pte \in AnyPte /\ ReadOnly \subseteq Table
      BY MmuAssumption
    <3> QED BY <3>1, <3>2, InvParts, ZenonT(60) DEF TablesTyped
  <2> QED BY <2>1, <2>2, ZenonT(60)
<1>5. Current' \subseteq Entry
  <2>1. TablesTyped'
    BY <1>3, <1>4, ZenonT(60) DEF TablesTyped
  <2>2. (Current \subseteq Entry)'
    BY <2>1, CurrentTypedNext
  <2>3. Entry' = Entry
    BY ZenonT(60) DEF Entry, Prefix
  <2> QED BY <2>2, <2>3
<1>6. MmuTypeOK'
  <2>1. TablesTyped'
    BY <1>3, <1>4 DEF TablesTyped
  <2>2. HistoryTyped'
    BY <1>1, <1>3, <1>5, InvParts DEF HistoryTyped
  <2> QED BY <1>1, <2>1, <2>2, InvParts, TypedKept, TypePartsNext, ZenonT(60)
<1>7. TlbCoherent' /\ Accessed' /\ CurrentLegal'
  BY <1>1, InvParts, TlbKept DEF CurrentLegal
<1>8. TranslationSound' /\ FaultGenuine'
  BY <1>1, <1>2, OtherStage
<1>9. Pending'
  <2>1. CASE access.stage = "idle"
    BY <1>1, <2>1, OtherStage
  <2>2. CASE access.stage # "idle"
    <3>1. satp' = satp
      BY <2>2 DEF write_satp, write_pte, Idle
    <3>2. Mapping(EntryFor(access.request.page, access.level, access.pte))'
            = Mapping(EntryFor(access.request.page, access.level, access.pte))
      BY <1>1, <3>1, ZenonT(60) DEF EntryFor, Mapping
    <3>3. Bare(access.request)' = Bare(access.request)
      BY <1>1, <3>1, ZenonT(60) DEF Bare
    <3>4. access.stage = "update" /\ access.at[1] \in ReadOnly => ptes'[access.at] = access.pte
      <4> SUFFICES ASSUME access.stage = "update", access.at[1] \in ReadOnly
                   PROVE ptes'[access.at] = access.pte
        OBVIOUS
      <4>1. access.at \in ReadOnly \X Index /\ ptes[access.at] = access.pte
        BY InvParts, ZenonT(60) DEF AccessTyped, Pending
      <4> QED BY <1>4, <4>1, ZenonT(60)
    <3> QED BY <1>1, <3>2, <3>3, <3>4, InvParts, ZenonT(60) DEF Pending
  <2> QED BY <2>1, <2>2
<1> QED BY <1>6, <1>7, <1>8, <1>9, InvNext

(* A step that leaves the state alone.                                     *)
LEMMA StutterKeeps ==
  ASSUME MmuInv, UNCHANGED mmuVars
  PROVE MmuInv'
<1>1. UNCHANGED <<ptes, satp, tlb, rank, access, legal, written>>
  BY DEF mmuVars
<1>2. Current' = Current
  BY <1>1, CurrentSame
<1>3. AccessTyped'
  BY <1>1, InvParts, TypedKept
<1>4. Bare(access.request)' = Bare(access.request)
  BY <1>1, ZenonT(60) DEF Bare
<1>5. Mapping(EntryFor(access.request.page, access.level, access.pte))'
        = Mapping(EntryFor(access.request.page, access.level, access.pte))
  BY <1>1, ZenonT(60) DEF EntryFor, Mapping
<1>6. Pending'
  BY <1>1, <1>4, <1>5, InvParts, ZenonT(60) DEF Pending
<1>7. TranslationSound'
  BY <1>1, <1>4, InvParts, ZenonT(60) DEF TranslationSound
<1>8. FaultGenuine'
  BY <1>1, <1>2, <1>4, InvParts, ZenonT(60) DEF FaultGenuine
<1> QED BY <1>1, <1>3, <1>6, <1>7, <1>8, AccessStep, InvNext, ZenonT(60)

(* MmuInv is inductive.                                                    *)
LEMMA MmuInvariance ==
  MmuSpec => []MmuInv
<1>1. MmuInv /\ [MmuNext]_mmuVars => MmuInv'
  BY TranslateKeeps, WalkAgainKeeps, CommitKeeps, OutcomeKeeps, FenceKeeps, WriteKeeps,
     StutterKeeps DEF MmuNext
<1> QED BY InitInv, <1>1, PTL DEF MmuSpec

-----------------------------------------------------------------------------
(* Types, with the order of the TLB slots total, so that fill_tlb always   *)
(* finds a slot.                                                           *)
THEOREM MmuTypes ==
  MmuSpec => []MmuTypeOK
<1>1. MmuInv => MmuTypeOK
  BY DEF MmuInv
<1> QED BY <1>1, MmuInvariance, PTL

(* The TLB never keeps a mapping past a fence that covers it, for any TLB  *)
(* size and any page tables.                                               *)
THEOREM MmuTlbCoherent ==
  MmuSpec => []TlbCoherent
<1>1. MmuInv => TlbCoherent
  BY DEF MmuInv
<1> QED BY <1>1, MmuInvariance, PTL

(* Every translation Mmu::translate returns is one the page tables and the *)
(* permission rules of the specification allow.                            *)
THEOREM MmuTranslationSound ==
  MmuSpec => []TranslationSound
<1>1. MmuInv => TranslationSound
  BY DEF MmuInv
<1> QED BY <1>1, MmuInvariance, PTL

(* Every page fault Mmu::translate returns comes from the page tables, not *)
(* from a stale TLB entry.                                                 *)
THEOREM MmuFaultGenuine ==
  MmuSpec => []FaultGenuine
<1>1. MmuInv => FaultGenuine
  BY DEF MmuInv
<1> QED BY <1>1, MmuInvariance, PTL

(* The MMU writes page tables only to add A and D to the entry it uses.    *)
THEOREM MmuAdExact ==
  MmuSpec => AdExact
<1> DEFINE Exact ==
      ptes' # ptes /\ written' = written =>
        \E at \in Table \X Index :
          /\ ptes' = [ptes EXCEPT ![at].flags = Desired(@, access.request)]
          /\ Permitted(ptes[at].flags, access.request)
<1>1. MmuInv /\ [MmuNext]_mmuVars => [Exact]_mmuVars
  <2> SUFFICES ASSUME MmuInv, MmuNext, ptes' # ptes, written' = written
               PROVE Exact
    OBVIOUS
  <2>1. commit_update
    <3>1. written \in Nat
      BY MmuAssumption, InvParts DEF HistoryTyped
    <3>2. write_pte => written' = written + 1
      BY DEF write_pte
    <3>3. ~write_pte
      BY <3>1, <3>2
    <3> QED BY <3>3, ZenonT(60)
      DEF MmuNext, translate, walk_again, retry_update, refuse_update, finish,
          sfence_vma, write_satp
  <2>2. /\ access.at \in Table \X Index /\ ptes[access.at] = access.pte
        /\ ptes' = [ptes EXCEPT ![access.at] = desired_pte(access.pte, access.request)]
        /\ access.request \in Request /\ access.pte \in AnyPte
        /\ ~Bare(access.request) /\ permission_allows(access.pte.flags, access.request)
    BY <2>1, InvParts, ZenonT(60) DEF commit_update, Exchange, AccessTyped, TablesTyped, Pending
  <2>3. Permitted(ptes[access.at].flags, access.request)
    BY <2>2, PermissionRule, ZenonT(60) DEF Bare, AnyPte
  <2>4. [access.pte EXCEPT !.flags = Desired(@, access.request)]
          = desired_pte(access.pte, access.request)
    BY <2>2 DEF AnyPte, desired_pte
  <2>5. ptes' = [ptes EXCEPT ![access.at].flags = Desired(@, access.request)]
    BY <2>2, <2>4, ZenonT(60)
  <2> QED BY <2>2, <2>3, <2>5, ZenonT(60)
<1> QED BY <1>1, MmuInvariance, PTL DEF MmuSpec, AdExact

(* A and D are in the TLB only if they are in memory when it is filled.    *)
THEOREM MmuCachedAsStored ==
  MmuSpec => CachedAsStored
<1> DEFINE Stored(s) ==
      \E at \in Table \X Index : ptes'[at] = [flags |-> tlb'[s].flags, ppn |-> tlb'[s].ppn]
    Cached == \A s \in Slot : tlb'[s] \notin {tlb[s], NoEntry} => Stored(s)
<1>1. ASSUME MmuInv, NEW r \in Request, NEW l \in Level, NEW pte \in AnyPte,
             Complete(r, l, pte), NEW at \in Table \X Index, ptes'[at] = desired_pte(pte, r)
      PROVE Cached
  <2>1. PICK s \in Slot : tlb' = [tlb EXCEPT ![s] = EntryFor(r.page, l, desired_pte(pte, r))]
    BY <1>1, ZenonT(60) DEF Complete, fill_tlb
  <2> DEFINE e == EntryFor(r.page, l, desired_pte(pte, r))
  <2>6. e.flags = desired_pte(pte, r).flags /\ e.ppn = desired_pte(pte, r).ppn
    BY ZenonT(60) DEF EntryFor
  <2> HIDE DEF e
  <2>7. tlb \in [Slot -> Entry \cup {NoEntry}]
    BY <1>1, InvParts, ZenonT(60) DEF TlbTyped
  <2>2. tlb'[s] = e /\ \A t \in Slot : t # s => tlb'[t] = tlb[t]
    BY <2>1, <2>7, ZenonT(60) DEF e
  <2>3. tlb'[s].flags = desired_pte(pte, r).flags /\ tlb'[s].ppn = desired_pte(pte, r).ppn
    BY <2>2, <2>6, ZenonT(60)
  <2>4. desired_pte(pte, r) = [flags |-> tlb'[s].flags, ppn |-> tlb'[s].ppn]
    BY <2>3, ZenonT(60) DEF desired_pte
  <2>5. Stored(s)
    BY <1>1, <2>4, ZenonT(60)
  <2> QED BY <2>2, <2>5, ZenonT(60)
<1>2. ASSUME MmuInv, NEW r \in Request, walk_page_table(r), ptes' = ptes
      PROVE Cached
  <2>1. CASE UNCHANGED <<tlb, rank>>
    BY <2>1, ZenonT(60)
  <2>2. ASSUME NEW l \in Level, Leaf(r, l), Complete(r, l, PteAt(r.page, l)),
               Desired(PteAt(r.page, l).flags, r) = PteAt(r.page, l).flags
        PROVE Cached
    <3>1. r.page \in VirtualPage /\ Found(r.page, l)
      BY <2>2, ZenonT(60) DEF Request, Leaf
    <3> DEFINE pte == PteAt(r.page, l)
               at == <<TableAt(r.page, l), r.page.index[l]>>
    <3>2. at \in Table \X Index /\ pte = ptes[at] /\ pte \in AnyPte
      BY <1>2, <3>1, LeafInTable, PageIndex, PteTyped, InvParts, ZenonT(60)
    <3>3. desired_pte(pte, r) = pte
      BY <2>2, <3>2, ZenonT(60) DEF desired_pte, AnyPte
    <3>4. ptes'[at] = desired_pte(pte, r)
      BY <1>2, <3>2, <3>3, ZenonT(60)
    <3> HIDE DEF pte, at
    <3>5. Complete(r, l, pte)
      BY <2>2 DEF pte
    <3> QED BY <1>1, <1>2, <3>2, <3>4, <3>5, ZenonT(60)
  <2> QED BY <1>2, <2>1, <2>2, ZenonT(60) DEF walk_page_table
<1>3. MmuInv /\ [MmuNext]_mmuVars => [Cached]_mmuVars
  <2> SUFFICES ASSUME MmuInv, MmuNext PROVE Cached
    OBVIOUS
  <2>1. CASE translate
    <3>1. PICK v \in VirtualPage, a \in Access :
            \/ tlb' = tlb
            \/ walk_page_table(RequestOf(v, a))
      BY <2>1, ZenonT(60) DEF translate, Untranslated, Hit, Miss
    <3>2. RequestOf(v, a) \in Request
      BY MmuAssumption, ZenonT(60) DEF RequestOf, Request, data_privilege
    <3>3. ptes' = ptes
      BY <2>1 DEF translate
    <3>4. CASE tlb' = tlb
      BY <3>4, ZenonT(60)
    <3>5. CASE walk_page_table(RequestOf(v, a))
      BY <1>2, <3>2, <3>3, <3>5, ZenonT(60)
    <3> QED BY <3>1, <3>4, <3>5, ZenonT(60)
  <2>2. CASE walk_again
    <3>1. access.request \in Request /\ walk_page_table(access.request) /\ ptes' = ptes
      BY <2>2, InvParts, ZenonT(60) DEF walk_again, AccessTyped
    <3> QED BY <1>2, <3>1
  <2>3. CASE commit_update
    <3>1. /\ access.request \in Request /\ access.level \in Level /\ access.pte \in AnyPte
          /\ access.at \in Table \X Index
          /\ Complete(access.request, access.level, access.pte)
          /\ ptes'[access.at] = desired_pte(access.pte, access.request)
      BY <2>3, InvParts, ZenonT(60) DEF commit_update, AccessTyped, TablesTyped
    <3> QED BY <1>1, <3>1, ZenonT(60)
  <2>4. CASE sfence_vma
    <3>1. \A s \in Slot : tlb'[s] \in {tlb[s], NoEntry}
      BY <2>4, ZenonT(60) DEF sfence_vma
    <3> QED BY <3>1, ZenonT(60)
  <2>5. CASE retry_update \/ refuse_update \/ finish \/ write_satp \/ write_pte
    BY <2>5, ZenonT(60) DEF retry_update, refuse_update, finish, write_satp, write_pte
  <2> QED BY <2>1, <2>2, <2>3, <2>4, <2>5, ZenonT(60) DEF MmuNext
<1> QED BY <1>3, MmuInvariance, PTL DEF MmuSpec, CachedAsStored

(* A and D change in memory exactly as the walk decided, and the TLB has   *)
(* what memory has, for any tables, address spaces and TLB size.           *)
THEOREM MmuPteExact ==
  MmuSpec => PteExact
BY MmuAdExact, MmuCachedAsStored DEF PteExact

-----------------------------------------------------------------------------
(* LR, SC and AMO.                                                         *)

Standing ==
  /\ linked <=> token # 0
  /\ linked => reservation = IF disturbed THEN NoReservation
                             ELSE [token |-> token, address |-> link]

(* An AMO in flight is on RAM.                                             *)
IsAmo(r) ==
  \E a \in Word, width \in Width, operation \in [Value -> Value] : \E original :
    r = [address |-> a, width |-> width, operation |-> operation, original |-> original]

AmoOnRam ==
  amo # NoAmo => IsAmo(amo) /\ Words(amo.address, amo.width) \subseteq Mapped

ReservationInv == ReservationTypeOK /\ Standing /\ ScExact

(* A token handed out is a valid one, and so is the counter after it.      *)
LEMMA TokenFacts ==
  ASSUME ReservationTypeOK
  PROVE /\ next_reservation_token_locked \in Token \ {0}
        /\ NextToken(next_reservation_token_locked) \in Token
BY ReservationAssumption DEF ReservationTypeOK, next_reservation_token_locked, NextToken, Token

(* Storing values of the right type keeps RAM well typed.                  *)
LEMMA StoreTyped ==
  ASSUME ReservationTypeOK, NEW a, NEW width, NEW value \in [Words(a, width) -> Value]
  PROVE Store(a, width, value) \in [Mapped -> Value]
BY DEF ReservationTypeOK, Store

(* Dropping the reservation and noting the disturbance go together.        *)
LEMMA DisturbStanding ==
  ASSUME ReservationTypeOK, Standing, NEW a, NEW width,
         invalidate_reservation_locked(a, width), Disturb(a, width),
         UNCHANGED <<token, linked, link>>
  PROVE /\ Standing' /\ disturbed' \in BOOLEAN
        /\ reservation' \in [token : Token, address : Word \cup {0}]
<1>1. NoReservation \in [token : Token, address : Word \cup {0}]
  BY ReservationAssumption DEF NoReservation, Token
<1>2. reservation' \in [token : Token, address : Word \cup {0}]
  BY <1>1, ZenonT(60) DEF ReservationTypeOK, invalidate_reservation_locked
<1>3. disturbed' \in BOOLEAN
  BY DEF ReservationTypeOK, Disturb, Overlap
<1>4. /\ linked \in BOOLEAN /\ disturbed \in BOOLEAN
      /\ linked' = linked /\ token' = token /\ link' = link
  BY DEF ReservationTypeOK
<1>5. (linked <=> token # 0)'
  BY <1>4 DEF Standing
<1>6. ASSUME linked
      PROVE reservation' = IF disturbed' THEN NoReservation
                           ELSE [token |-> token, address |-> link]
  <2>1. CASE disturbed
    <3>1. disturbed'
      BY <2>1, <1>4, ZenonT(60) DEF Disturb
    <3>2. reservation = NoReservation /\ reservation.token = 0
      BY <1>6, <2>1 DEF Standing, NoReservation
    <3>3. reservation' = NoReservation
      BY <3>2 DEF invalidate_reservation_locked
    <3> QED
      BY <3>1, <3>3, ZenonT(60)
  <2>2. CASE ~disturbed
    <3>1. reservation = [token |-> token, address |-> link] /\ token # 0
      BY <1>4, <1>6, <2>2, ZenonT(60) DEF Standing
    <3>2. disturbed' <=> Overlap(a, width, link)
      BY <1>4, <1>6, <2>2, ZenonT(60) DEF Disturb
    <3>3. reservation' = IF Overlap(a, width, link) THEN NoReservation ELSE reservation
      BY <3>1, ZenonT(60) DEF invalidate_reservation_locked
    <3> QED
      BY <1>3, <3>1, <3>2, <3>3, ZenonT(60)
  <2> QED
    BY <1>4, <2>1, <2>2, ZenonT(60)
<1> QED
  BY <1>2, <1>3, <1>4, <1>5, <1>6, ZenonT(60) DEF Standing, NoReservation

(* The initial state satisfies the invariant.                              *)
LEMMA InitReservation == ReservationInit => ReservationInv /\ AmoOnRam
<1> SUFFICES ASSUME ReservationInit PROVE ReservationInv /\ AmoOnRam
  OBVIOUS
<1>1. NoReservation \in [token : Token, address : Word \cup {0}] /\ 1 \in Token /\ 0 \in Token
  BY ReservationAssumption DEF NoReservation, Token
<1>2. memory \in [Mapped -> Value]
  BY ZenonT(60) DEF ReservationInit
<1>3. ReservationTypeOK
  BY <1>1, <1>2, ZenonT(60) DEF ReservationInit, ReservationTypeOK, NoLink, NoResult
<1> QED
  BY <1>3, ZenonT(60) DEF ReservationInit, ReservationInv, Standing, ScExact, NoResult, AmoOnRam

(* LR makes the record, the token and the link agree.                      *)
LEMMA LoadReservedInv ==
  ASSUME ReservationInv, NEW a \in Word, NEW width \in Width, LoadReserved(a, width)
  PROVE ReservationInv'
<1>1. ReservationTypeOK
  BY DEF ReservationInv
<1> DEFINE t == next_reservation_token_locked
<1>2. t \in Token \ {0} /\ NextToken(t) \in Token
  BY <1>1, TokenFacts
<1>3. /\ reservation' = [token |-> t, address |-> a] /\ next_token' = NextToken(t)
      /\ token' = t /\ linked' = TRUE /\ link' = a /\ disturbed' = FALSE
      /\ result' = NoResult /\ memory' = memory
  BY ZenonT(60) DEF LoadReserved, load_reserved
<1> HIDE DEF t
<1>4. ReservationTypeOK'
  BY <1>1, <1>2, <1>3, ZenonT(60) DEF ReservationTypeOK, NoResult
<1> QED
  BY <1>2, <1>3, <1>4, ZenonT(60) DEF ReservationInv, Standing, ScExact, NoResult

(* SC succeeds exactly if the link stands, and ends it.                    *)
LEMMA StoreConditionalInv ==
  ASSUME ReservationInv, NEW a \in Word, NEW width \in Width,
         \/ \E value \in Data(a, width) : StoreConditional(a, width, value)
         \/ StoreConditionalTrap(a, width)
  PROVE ReservationInv'
<1>0. ReservationTypeOK /\ Standing
  BY DEF ReservationInv
<1>1. NoReservation \in [token : Token, address : Word \cup {0}] /\ 0 \in Token
  BY ReservationAssumption DEF NoReservation, Token
<1>2. TokenMatches(a) <=> linked /\ ~disturbed /\ link = a
  BY <1>0 DEF TokenMatches, Standing, ReservationTypeOK, NoReservation
<1>3. /\ token' = 0 /\ linked' = FALSE /\ link' = NoLink /\ disturbed' = FALSE
      /\ UNCHANGED <<next_token, amo>>
  BY ZenonT(60) DEF StoreConditional, StoreConditionalTrap, Conclude
<1>4. reservation' \in [token : Token, address : Word \cup {0}]
  BY <1>0, <1>1, ZenonT(60) DEF StoreConditional, StoreConditionalTrap, ReservationTypeOK
<1>5. memory' \in [Mapped -> Value]
  BY <1>0, StoreTyped DEF StoreConditional, StoreConditionalTrap, ReservationTypeOK, Data
<1>6. \E outcome \in {"success", "failure", "trap"} :
        /\ result' = [outcome |-> outcome, intact |-> linked /\ ~disturbed /\ link = a]
        /\ outcome # "trap" => (outcome = "success" <=> TokenMatches(a))
  <2>1. CASE \E value \in Data(a, width) : StoreConditional(a, width, value)
    <3>1. \E outcome : /\ outcome = IF TokenMatches(a) THEN "success" ELSE "failure"
                       /\ Conclude(outcome, a)
      BY <2>1, ZenonT(60) DEF StoreConditional
    <3>2. PICK outcome : /\ outcome = IF TokenMatches(a) THEN "success" ELSE "failure"
                         /\ Conclude(outcome, a)
      BY <3>1, ZenonT(60)
    <3>3. result' = [outcome |-> outcome, intact |-> linked /\ ~disturbed /\ link = a]
      BY <3>2, ZenonT(60) DEF Conclude
    <3> QED BY <3>2, <3>3, ZenonT(60)
  <2>2. CASE StoreConditionalTrap(a, width)
    BY <2>2, ZenonT(60) DEF StoreConditionalTrap, Conclude
  <2> QED
    BY <2>1, <2>2, ZenonT(60)
<1>7. PICK outcome \in {"success", "failure", "trap"} :
        /\ result' = [outcome |-> outcome, intact |-> linked /\ ~disturbed /\ link = a]
        /\ outcome # "trap" => (outcome = "success" <=> TokenMatches(a))
  BY <1>6, ZenonT(60)
<1>8. (linked /\ ~disturbed /\ link = a) \in BOOLEAN
  OBVIOUS
<1>9. result' \in [outcome : {"none", "success", "failure", "trap"}, intact : BOOLEAN]
  BY <1>7, <1>8, ZenonT(60)
<1>10. ScExact'
  <2>1. result'.outcome = outcome /\ (result'.intact <=> (linked /\ ~disturbed /\ link = a))
    BY <1>7, ZenonT(60)
  <2> QED
    BY <1>2, <1>7, <2>1, ZenonT(60) DEF ScExact
<1>11. ReservationTypeOK'
  BY <1>0, <1>1, <1>3, <1>4, <1>5, <1>9, ZenonT(60) DEF ReservationTypeOK, NoLink
<1> QED
  BY <1>3, <1>10, <1>11 DEF ReservationInv, Standing

(* The steps that are neither LR nor SC.                                   *)
LEMMA OtherInv ==
  ASSUME ReservationInv, AmoOnRam,
         \/ \E a \in Word, width \in Width :
              \/ \E value \in Data(a, width) :
                   HartStore(a, width, value) \/ DmaWrite(a, width, value)
              \/ \E operation \in [Value -> Value] : AmoRead(a, width, operation)
         \/ AmoCommit \/ AmoRetry \/ UNCHANGED reservationVars
  PROVE ReservationInv'
<1>0. ReservationTypeOK /\ Standing /\ ScExact
  BY DEF ReservationInv
<1>n. NoResult \in [outcome : {"none", "success", "failure", "trap"}, intact : BOOLEAN]
      /\ NoResult.outcome = "none"
  BY ZenonT(60) DEF NoResult
<1>1. ASSUME NEW a \in Word, NEW width \in Width, NEW value \in Data(a, width),
             HartStore(a, width, value)
      PROVE ReservationInv'
  <2>1. memory' \in [Mapped -> Value]
    BY <1>0, <1>1, StoreTyped, ZenonT(60) DEF HartStore, Data
  <2>2. ReservationTypeOK' /\ Standing' /\ ScExact'
    BY <1>0, <1>n, <1>1, <2>1, ZenonT(60) DEF HartStore, ReservationTypeOK, Standing, ScExact
  <2> QED
    BY <2>2, ZenonT(60) DEF ReservationInv
<1>2. ASSUME NEW a \in Word, NEW width \in Width, NEW value \in Data(a, width),
             DmaWrite(a, width, value)
      PROVE ReservationInv'
  <2>1. memory' \in [Mapped -> Value]
    BY <1>0, <1>2, StoreTyped, ZenonT(60) DEF DmaWrite, Data
  <2>2. /\ Standing' /\ disturbed' \in BOOLEAN
        /\ reservation' \in [token : Token, address : Word \cup {0}]
    BY <1>0, <1>2, DisturbStanding, ZenonT(60) DEF DmaWrite
  <2>3. ReservationTypeOK' /\ ScExact'
    BY <1>0, <1>n, <1>2, <2>1, <2>2, ZenonT(60) DEF DmaWrite, ReservationTypeOK, ScExact
  <2> QED
    BY <2>2, <2>3, ZenonT(60) DEF ReservationInv
<1>3. ASSUME NEW a \in Word, NEW width \in Width, NEW operation \in [Value -> Value],
             AmoRead(a, width, operation)
      PROVE ReservationInv'
  <2>1. ReservationTypeOK' /\ Standing' /\ ScExact'
    BY <1>0, <1>n, <1>3, ZenonT(60) DEF AmoRead, ReservationTypeOK, Standing, ScExact
  <2> QED
    BY <2>1, ZenonT(60) DEF ReservationInv
<1>4. CASE AmoCommit
  <2>0. IsAmo(amo)
    BY <1>4, ZenonT(60) DEF AmoCommit, AmoOnRam
  <2>1. PICK a, width, operation, original :
          /\ a \in Word /\ width \in Width /\ operation \in [Value -> Value]
          /\ amo = [address |-> a, width |-> width, operation |-> operation,
                    original |-> original]
    BY <2>0, ZenonT(60) DEF IsAmo
  <2>2. original = [x \in Words(a, width) |-> memory[x]] /\ Words(a, width) \subseteq Mapped
    BY <1>4, <2>1, ZenonT(60) DEF AmoCommit, Unchanged, Observed, AmoOnRam
  <2>o. original \in [Words(a, width) -> Value]
    BY <1>0, <2>2, ZenonT(60) DEF ReservationTypeOK
  <2>3. execute_atomic_operation(operation, original) \in [Words(a, width) -> Value]
    BY <2>1, <2>o, ZenonT(60) DEF execute_atomic_operation
  <2>4. memory' \in [Mapped -> Value]
    BY <1>0, <1>4, <2>1, <2>3, StoreTyped, ZenonT(60) DEF AmoCommit
  <2>5. /\ Standing' /\ disturbed' \in BOOLEAN
        /\ reservation' \in [token : Token, address : Word \cup {0}]
    BY <1>0, <1>4, DisturbStanding, ZenonT(60) DEF AmoCommit
  <2>6. ReservationTypeOK' /\ ScExact'
    BY <1>0, <1>4, <2>4, <2>5, ZenonT(60) DEF AmoCommit, ReservationTypeOK, ScExact
  <2> QED
    BY <2>5, <2>6, ZenonT(60) DEF ReservationInv
<1>5. CASE AmoRetry \/ UNCHANGED reservationVars
  <2>1. UNCHANGED <<memory, reservation, next_token, token, linked, link, disturbed, result>>
    BY <1>5 DEF AmoRetry, reservationVars
  <2> QED
    BY <1>0, <2>1, ZenonT(60) DEF ReservationInv, ReservationTypeOK, Standing, ScExact
<1> QED
  BY <1>1, <1>2, <1>3, <1>4, <1>5, ZenonT(60)

(* What an AMO in flight is on does not change under it.                   *)
LEMMA AmoStep ==
  ASSUME AmoOnRam, [ReservationNext]_reservationVars
  PROVE AmoOnRam'
<1>1. CASE amo' = amo
  BY <1>1 DEF AmoOnRam
<1>2. CASE AmoCommit
  BY <1>2, ZenonT(60) DEF AmoCommit, AmoOnRam
<1>3. ASSUME NEW a \in Word, NEW width \in Width, NEW operation \in [Value -> Value],
             AmoRead(a, width, operation)
      PROVE AmoOnRam'
  <2>1. IsAmo(amo')
    BY <1>3, ZenonT(60) DEF AmoRead, IsAmo
  <2>2. Words(amo'.address, amo'.width) \subseteq Mapped
    BY <1>3, ZenonT(60) DEF AmoRead, Located
  <2> QED
    BY <2>1, <2>2, ZenonT(60) DEF AmoOnRam
<1>4. CASE AmoRetry
  <2>1. IsAmo(amo) /\ Words(amo.address, amo.width) \subseteq Mapped
    BY <1>4 DEF AmoRetry, AmoOnRam
  <2>2. PICK a, width, operation, original :
          /\ a \in Word /\ width \in Width /\ operation \in [Value -> Value]
          /\ amo = [address |-> a, width |-> width, operation |-> operation,
                    original |-> original]
    BY <2>1, ZenonT(60) DEF IsAmo
  <2>3. amo' = [address |-> a, width |-> width, operation |-> operation,
                original |-> Observed(a, width)]
    BY <1>4, <2>2 DEF AmoRetry
  <2>4. IsAmo(amo')
    BY <2>2, <2>3, ZenonT(60) DEF IsAmo
  <2> QED
    <3>1. amo.address = a /\ amo.width = width
      BY <2>2, ZenonT(60)
    <3>2. amo'.address = a /\ amo'.width = width
      BY <2>3, ZenonT(60)
    <3>3. Words(amo'.address, amo'.width) \subseteq Mapped
      BY <2>1, <3>1, <3>2, ZenonT(60)
    <3> QED BY <2>4, <3>3, ZenonT(60) DEF AmoOnRam
<1> QED
  BY <1>1, <1>2, <1>3, <1>4, ZenonT(60)
     DEF ReservationNext, reservationVars, LoadReserved, StoreConditional,
         StoreConditionalTrap, Conclude, HartStore, DmaWrite

(* Every step keeps the invariant.                                         *)
LEMMA NextReservation ==
  ReservationInv /\ AmoOnRam /\ [ReservationNext]_reservationVars
    => (ReservationInv /\ AmoOnRam)'
<1> SUFFICES ASSUME ReservationInv, AmoOnRam, [ReservationNext]_reservationVars
             PROVE (ReservationInv /\ AmoOnRam)'
  OBVIOUS
<1>1. AmoOnRam'
  BY AmoStep
<1>2. ReservationInv'
  BY LoadReservedInv, StoreConditionalInv, OtherInv, ZenonT(60) DEF ReservationNext
<1> QED
  BY <1>1, <1>2

(* An AMO leaves flight only by the commit, which finds the memory it      *)
(* computed with.                                                          *)
LEMMA CommitAtomic ==
  ASSUME AmoOnRam, [ReservationNext]_reservationVars, amo # NoAmo, amo' = NoAmo,
         NEW x \in Words(amo.address, amo.width)
  PROVE memory'[x] = amo.operation[memory[x]]
<1>0. IsAmo(amo) /\ Words(amo.address, amo.width) \subseteq Mapped
  BY ZenonT(60) DEF AmoOnRam
<1>1. PICK a, width, operation, original :
          /\ a \in Word /\ width \in Width /\ operation \in [Value -> Value]
          /\ amo = [address |-> a, width |-> width, operation |-> operation,
                    original |-> original]
  BY <1>0, ZenonT(60) DEF IsAmo
<1>2. ~AmoRetry
  BY <1>1 DEF AmoRetry, NoAmo, Width
<1>3. AmoCommit
  BY <1>2, ZenonT(60) DEF ReservationNext, reservationVars, LoadReserved, StoreConditional,
              StoreConditionalTrap, Conclude, HartStore, DmaWrite, AmoRead
<1>4. original = [y \in Words(a, width) |-> memory[y]]
  BY <1>1, <1>3, ZenonT(60) DEF AmoCommit, Unchanged, Observed
<1>5. memory'[x] = execute_atomic_operation(operation, original)[x]
  BY <1>0, <1>1, <1>3, ZenonT(60) DEF AmoCommit, Store
<1>6. execute_atomic_operation(operation, original)[x] = operation[memory[x]]
  BY <1>1, <1>4, ZenonT(60) DEF execute_atomic_operation
<1> QED
  BY <1>1, <1>5, <1>6, ZenonT(60)

(* The monitor and the hart stay well typed, and SC succeeds exactly when  *)
(* the LR it belongs to still stands.                                      *)
THEOREM ReservationInvariants == ReservationSpec => [](ReservationTypeOK /\ ScExact)
<1>1. ReservationInv /\ AmoOnRam /\ [ReservationNext]_reservationVars
        => (ReservationInv /\ AmoOnRam)'
  BY NextReservation
<1>2. ReservationInit => ReservationInv /\ AmoOnRam
  BY InitReservation
<1>3. ReservationInv => ReservationTypeOK /\ ScExact
  BY DEF ReservationInv
<1> QED
  BY <1>1, <1>2, <1>3, PTL DEF ReservationSpec

(* An AMO is atomic: it replaces what memory holds when it commits.        *)
THEOREM ReservationAmoAtomic == ReservationSpec => AmoAtomic
<1>1. ReservationInv /\ AmoOnRam /\ [ReservationNext]_reservationVars
        => (ReservationInv /\ AmoOnRam)'
  BY NextReservation
<1>2. ReservationInit => ReservationInv /\ AmoOnRam
  BY InitReservation
<1>3. AmoOnRam /\ [ReservationNext]_reservationVars =>
        [amo # NoAmo /\ amo' = NoAmo =>
           \A x \in Words(amo.address, amo.width) :
             memory'[x] = amo.operation[memory[x]]]_reservationVars
  BY CommitAtomic, ZenonT(60)
<1> QED
  BY <1>1, <1>2, <1>3, PTL DEF ReservationSpec, AmoAtomic

=============================================================================
