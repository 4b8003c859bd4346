------------------------------- MODULE MCMmu --------------------------------
(* Two values per index.  In address space 0 one page goes through Root,   *)
(* Middle and Low, the other is a global superpage; in address space 1,    *)
(* with Middle as root, the pages go through the read-only Rom and through *)
(* Low, whose entry is shared.                                             *)
EXTENDS Mmu

Parts(i2, i1, i0) == [l \in Level |-> CASE l = 2 -> i2 [] l = 1 -> i1 [] l = 0 -> i0]
Page(high, i2, i1, i0) == [high |-> high, index |-> Parts(i2, i1, i0)]
Valid(flags, ppn) == [flags |-> {"V"} \cup flags, ppn |-> ppn]

Root == Parts(0, 0, 0)
Middle == Parts(0, 0, 1)
Low == Parts(0, 1, 0)
Rom == Parts(0, 1, 1)
Data == Parts(1, 0, 0)
OddData == Parts(1, 0, 1)

MCVirtualPage == {Page("zeros", 0, 1, 0), Page("ones", 1, 0, 1), Page("mixed", 0, 1, 0)}

MCTable == {Root, Middle, Low, Rom}
MCReadOnly == {Rom}

MCInitialPtes ==
  [at \in MCTable \X Index |->
     CASE at = <<Root, 0>> -> Valid({}, Middle)
       [] at = <<Root, 1>> -> Valid({"R", "W", "X", "G", "A", "D"}, Data)
       [] at = <<Middle, 0>> -> Valid({}, Rom)
       [] at = <<Middle, 1>> -> Valid({}, Low)
       [] at[1] = Low -> Valid({"R", "W", "U"}, Data)
       [] OTHER -> Valid({"X", "U"}, Data)]

(* A pointer with an invalid combination of flags; a global page that is   *)
(* not aligned as a superpage; a superpage that is no longer global.       *)
MCPteWrite ==
  {[at |-> <<Root, 0>>, pte |-> Valid({"W"}, Middle)],
   [at |-> <<Low, 0>>, pte |-> Valid({"R", "W", "A", "U", "G"}, OddData)],
   [at |-> <<Root, 1>>, pte |-> Valid({"R", "A"}, Data)]}

MCSatp ==
  {[mode |-> "Bare", asid |-> 0, root |-> Root], [mode |-> "Sv39", asid |-> 0, root |-> Root],
   [mode |-> "Sv39", asid |-> 1, root |-> Middle], [mode |-> "Reserved", asid |-> 0, root |-> Low]}

By(kind, privilege, mprv, mpp, sum, mxr) ==
  [kind |-> kind, privilege |-> privilege, mprv |-> mprv, mpp |-> mpp, sum |-> sum, mxr |-> mxr]

MCAccess ==
  {By("InstructionFetch", "S", FALSE, "U", TRUE, FALSE), By("Load", "U", FALSE, "U", FALSE, TRUE),
   By("InstructionFetch", "M", TRUE, "S", FALSE, FALSE), By("Store", "S", FALSE, "U", TRUE, FALSE),
   By("Atomic", "M", TRUE, "S", FALSE, FALSE)}

=============================================================================
