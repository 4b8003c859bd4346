-------------------------- MODULE DescriptorProofs --------------------------
(***************************************************************************)
(* Descriptor chains for any tables, descriptors and request layouts: the  *)
(* queue parses a chain exactly when the table spells one.                 *)
(*                                                                         *)
(* The loop of parse_table is shown to follow a trail: after c passes it   *)
(* stands at the end of the one path of c links that starts at the head,   *)
(* and every legal chain begins with that path (Follows).  So the pass     *)
(* that ends the loop either ends the only legal chain or meets what no    *)
(* legal chain contains.  That the lengths of a chain never add up to the  *)
(* size of the address space is the assumption on lengths: 65535 lengths   *)
(* of 32 bits stay below 2^64.                                             *)
(***************************************************************************)
EXTENDS MCVirtioTransport, WellFoundedInduction, SequenceTheorems, TLAPS

(* Time limits for the provers.                                            *)
USE SMTT(60), ZenonT(60)

-----------------------------------------------------------------------------
(* Induction, from the well-foundedness of <, loops written as recursive   *)
(* functions, and remainders.                                              *)

(* The order of the natural numbers, as a relation.                        *)
Less == {p \in Nat \X Nat : p[1] < p[2]}

(* A non-empty set of natural numbers has a least member.                  *)
LEMMA LeastMember ==
  ASSUME NEW S, S \subseteq Nat, S # {}
  PROVE \E m \in S : \A n \in S : m <= n
<1>1. IsWellFoundedOn(Less, Nat)
  BY NatLessThanWellFounded DEF OpToRel, Less
<1>2. PICK m \in S : \A n \in S : <<n, m>> \notin Less
  BY <1>1, WFMin, ZenonT(60)
<1>3. \A n \in S : ~(n < m)
  BY <1>2, ZenonT(60) DEF Less
<1> QED BY <1>3

(* Induction over a set of natural numbers.                                *)
LEMMA Induction ==
  ASSUME NEW S, 0 \in S, \A n \in Nat : n \in S => n + 1 \in S
  PROVE Nat \subseteq S
<1> SUFFICES ASSUME Nat \ S # {} PROVE FALSE
  OBVIOUS
<1>1. PICK m \in Nat \ S : \A n \in Nat \ S : m <= n
  BY LeastMember, ZenonT(60)
<1>2. m # 0 /\ m - 1 \in Nat /\ ~(m <= m - 1) /\ (m - 1) + 1 = m
  OBVIOUS
<1>3. m - 1 \in S
  BY <1>1, <1>2
<1> QED BY <1>2, <1>3

(* f starts at base and applies F[n] in iteration n.                       *)
Iterates(f, k, base, F) == \A n \in 0..k : f[n] = IF n = 0 THEN base ELSE F[n][f[n - 1]]

(* A loop of k iterations over values in V can be run.                     *)
LEMMA LoopRuns ==
  ASSUME NEW V, NEW base \in V, NEW k \in Nat, NEW F \in [1..k -> [V -> V]]
  PROVE \E f \in [0..k -> V] : Iterates(f, k, base, F)
<1> DEFINE S == {j \in Nat : j <= k => \E f \in [0..j -> V] : Iterates(f, j, base, F)}
<1>1. 0 \in S
  <2> DEFINE g == [n \in 0..0 |-> base]
  <2>1. g \in [0..0 -> V] /\ Iterates(g, 0, base, F)
    BY DEF Iterates
  <2> QED BY <2>1
<1>2. ASSUME NEW j \in Nat, j \in S PROVE j + 1 \in S
  <2> SUFFICES ASSUME j + 1 <= k PROVE \E f \in [0..j + 1 -> V] : Iterates(f, j + 1, base, F)
    OBVIOUS
  <2>1. PICK f \in [0..j -> V] : Iterates(f, j, base, F)
    BY <1>2
  <2> DEFINE g == [n \in 0..j + 1 |-> IF n = j + 1 THEN F[n][f[j]] ELSE f[n]]
  <2>2. f[j] \in V /\ F[j + 1] \in [V -> V]
    BY <2>1
  <2>3. F[j + 1][f[j]] \in V
    BY <2>2
  <2>4. g \in [0..j + 1 -> V]
    BY <2>1, <2>3
  <2>5. ASSUME NEW n \in 0..j + 1 PROVE g[n] = IF n = 0 THEN base ELSE F[n][g[n - 1]]
    <3>1. CASE n = j + 1
      BY <3>1
    <3>2. CASE n # j + 1
      <4>1. n \in 0..j /\ g[n] = f[n] /\ (n # 0 => g[n - 1] = f[n - 1])
        BY <3>2
      <4>2. f[n] = IF n = 0 THEN base ELSE F[n][f[n - 1]]
        BY <2>1, <4>1 DEF Iterates
      <4> HIDE DEF g
      <4> QED BY <4>1, <4>2
    <3> QED BY <3>1, <3>2, ZenonT(60)
  <2> HIDE DEF g
  <2> QED BY <2>4, <2>5 DEF Iterates
<1> HIDE DEF S
<1>3. k \in S
  BY <1>1, <1>2, Induction
<1> QED BY <1>3 DEF S

(* Division with remainder.                                                *)
LEMMA Euclid ==
  ASSUME NEW n \in Nat \ {0}, NEW a \in Nat
  PROVE a % n \in 0..(n - 1) /\ a \div n \in Nat /\ a = n * (a \div n) + (a % n)
OBVIOUS

(* A remainder is unique.                                                  *)
LEMMA SameRemainder ==
  ASSUME NEW n \in Nat \ {0}, NEW q \in Int, NEW p \in Int,
         NEW r \in 0..(n - 1), NEW s \in 0..(n - 1), n * q + r = n * p + s
  PROVE r = s
<1>1. n * (q - p) = s - r
  OBVIOUS
<1>2. CASE q = p
  BY <1>2
<1>3. CASE q - p >= 1
  <2>1. n * (q - p) >= n
    BY <1>3
  <2> QED BY <1>1, <2>1
<1>4. CASE p - q >= 1
  <2>1. n * (p - q) >= n
    BY <1>4
  <2>2. n * (p - q) = r - s
    OBVIOUS
  <2> QED BY <2>1, <2>2
<1> QED BY <1>2, <1>3, <1>4

(* The remainder of a number written as a multiple plus a small number.    *)
LEMMA RemainderIs ==
  ASSUME NEW n \in Nat \ {0}, NEW a \in Nat, NEW q \in Int, NEW r \in 0..(n - 1), a = n * q + r
  PROVE a % n = r
<1> DEFINE s == a % n
           p == a \div n
<1>1. s \in 0..(n - 1) /\ p \in Nat /\ a = n * p + s
  BY Euclid, ZenonT(60)
<1> HIDE DEF s, p
<1>2. p \in Int /\ n * q + r = n * p + s
  BY <1>1
<1>3. r = s
  BY <1>1, <1>2, SameRemainder, ZenonT(60)
<1> QED BY <1>3 DEF s

-----------------------------------------------------------------------------
Direction == {"Any", "DeviceReads", "DeviceWrites"}

(* What guest RAM holds, whatever the driver wrote.                        *)
RamTyped ==
  /\ TableSlots \subseteq DOMAIN ram
  /\ \A a \in DOMAIN ram :
       /\ ram[a] \in Descriptor
       /\ "INDIRECT" \notin ram[a].flags => ram[a].length * IndexMax < AddressSpace

(* The loop passes the entry with this index as the i-th of a chain.       *)
Passes(index, i, table, table_size, expected) ==
  LET d == ram[descriptor_address(table, index)] IN
  /\ index \in 0..(table_size - 1) /\ descriptor_address(table, index) \in DOMAIN ram
  /\ "INDIRECT" \notin d.flags /\ d.address + d.length <= AddressSpace
  /\ expected # <<>> => i <= Len(expected) /\ direction_matches("WRITE" \in d.flags, expected[i])

(* p is the path of c links from the head.                                 *)
Trail(p, c, table, table_size, head, expected) ==
  /\ p \in [1..(c + 1) -> 0..IndexMax] /\ p[1] = head
  /\ \A i, j \in 1..c : p[i] = p[j] => i = j
  /\ \A i \in 1..c : /\ Passes(p[i], i, table, table_size, expected)
                     /\ "NEXT" \in ram[descriptor_address(table, p[i])].flags
                     /\ p[i + 1] = ram[descriptor_address(table, p[i])].next

(* q is a chain, in the terms of the loop.                                 *)
Chained(q, table, table_size, head, expected) ==
  /\ q[1] = head
  /\ expected # <<>> => Len(q) = Len(expected)
  /\ \A i \in 1..Len(q) : /\ Passes(q[i], i, table, table_size, expected)
                          /\ "NEXT" \in ram[descriptor_address(table, q[i])].flags <=> i < Len(q)
                          /\ i < Len(q) => q[i + 1] = ram[descriptor_address(table, q[i])].next

(* q begins with p.                                                        *)
Begins(q, p, c) == c + 1 <= Len(q) /\ \A i \in 1..(c + 1) : q[i] = p[i]

SegmentsOf(p, c, table) == [i \in 1..c |-> Segment(ram[descriptor_address(table, p[i])])]

Walk(index, visited, segments, read, code) ==
  [index |-> index, visited |-> visited, segments |-> segments, read |-> read, code |-> code]

(* The walk w stands at the end of p.                                      *)
StandsAt(w, p, c, table, table_size) ==
  /\ w = Walk(p[c + 1], {p[i] : i \in 1..c}, SegmentsOf(p, c, table), w.read, "walking")
  /\ w.read \subseteq Span(table, table_size)

(* The walk w has followed c links from the head.                          *)
Standing(w, c, table, table_size, head, expected) ==
  \E p \in [1..(c + 1) -> 0..IndexMax] :
    Trail(p, c, table, table_size, head, expected) /\ StandsAt(w, p, c, table, table_size)

Found(table, table_size, head, expected) == Chain(table, table_size, head, expected).found

(* s is the one list of segments the table spells.                         *)
Spelt(s, table, table_size, head, expected) == Found(table, table_size, head, expected) = {s}

(* The head is an indirect descriptor that the walk may use.               *)
IndirectHead(table, table_size, head, allow_indirect) ==
  LET a == descriptor_address(table, head) IN
  allow_indirect /\ head < table_size /\ a \in DOMAIN ram /\ "INDIRECT" \in ram[a].flags

(* The walk w has ended, and how.                                          *)
Settled(w, table, table_size, head, allow_indirect, expected) ==
  /\ w.code # "walking"
  /\ w.read \subseteq Span(table, table_size)
  /\ w.code = "None" => Found(table, table_size, head, expected) = {w.segments}
  /\ w.code # "None" => Found(table, table_size, head, expected) = {}
  /\ w.code \notin {"None", "Indirect"} => w.segments = <<>>
  /\ w.code = "Indirect" <=> IndirectHead(table, table_size, head, allow_indirect)
  /\ w.code = "Indirect" => \E V, s : w = Walk(head, V, s, w.read, "Indirect")

(* Guest RAM starts as RamTyped says and stays so.                         *)
LEMMA RamStart == ChainInit => RamTyped
<1> SUFFICES ASSUME ChainInit PROVE RamTyped
  OBVIOUS
<1> DEFINE blank == [address |-> 0, length |-> 0, flags |-> {}, next |-> 0]
<1>1. ram = [a \in TableSlots \cup OtherAddress |-> blank]
  BY DEF ChainInit
<1>2. blank \in Descriptor /\ blank.length * IndexMax = 0
  BY ChainAssumption DEF Descriptor
<1> HIDE DEF blank
<1> QED BY <1>1, <1>2, ChainAssumption DEF RamTyped

(* The driver writes only descriptors.                                     *)
LEMMA RamKept == RamTyped /\ WriteDescriptor => RamTyped'
<1> SUFFICES ASSUME RamTyped, NEW a, NEW d \in DirectDescriptor \cup OtherDescriptor,
                    ram' = [ram EXCEPT ![a] = d]
             PROVE RamTyped'
  BY ZenonT(60) DEF WriteDescriptor
<1>1. d \in Descriptor /\ ("INDIRECT" \notin d.flags => d.length * IndexMax < AddressSpace)
  BY ChainAssumption
<1>2. DOMAIN ram' = DOMAIN ram
  OBVIOUS
<1>3. ASSUME NEW b \in DOMAIN ram'
      PROVE /\ ram'[b] \in Descriptor
            /\ "INDIRECT" \notin ram'[b].flags => ram'[b].length * IndexMax < AddressSpace
  <2>1. CASE b = a
    BY <1>1, <1>2, <2>1
  <2>2. CASE b # a
    BY <1>2, <2>2 DEF RamTyped
  <2> QED BY <2>1, <2>2
<1>4. TableSlots' = TableSlots
  BY DEF TableSlots, descriptor_address
<1> QED BY <1>2, <1>3, <1>4 DEF RamTyped

(* It depends on RAM alone.                                                *)
LEMMA RamSame == RamTyped /\ UNCHANGED ram => RamTyped'
BY DEF RamTyped, TableSlots, descriptor_address

-----------------------------------------------------------------------------
(* Legal chains.                                                           *)

(* A path is a sequence of distinct entries, no longer than the table.     *)
LEMMA PathFacts ==
  ASSUME NEW table_size \in Nat \ {0}, NEW q \in Paths(table_size)
  PROVE /\ Len(q) \in 1..table_size /\ DOMAIN q = 1..Len(q)
        /\ q \in [1..Len(q) -> 0..(table_size - 1)]
        /\ \A i, j \in 1..Len(q) : q[i] = q[j] => i = j
<1>1. PICK k \in 1..table_size :
        q \in [1..k -> 0..(table_size - 1)] /\ \A i, j \in 1..k : q[i] = q[j] => i = j
  BY ZenonT(60) DEF Paths
<1>2. q \in Seq(0..(table_size - 1)) /\ Len(q) = k
  BY <1>1
<1> QED BY <1>1, <1>2

(* The reference rule for directions is the one of direction_matches.      *)
LEMMA DirectionRule ==
  ASSUME NEW direction \in Direction, NEW flags
  PROVE direction_matches("WRITE" \in flags, direction) <=>
          CASE direction = "Any" -> TRUE
            [] direction = "DeviceReads" -> "WRITE" \notin flags
            [] direction = "DeviceWrites" -> "WRITE" \in flags
BY ZenonT(60) DEF Direction, direction_matches

(* What a legal chain is, in the terms of the loop.                        *)
LEMMA LegalMeans ==
  ASSUME NEW table \in Nat, NEW table_size \in Nat \ {0}, NEW head \in Nat,
         NEW expected \in Seq(Direction),
         NEW q \in Paths(table_size)
  PROVE LegalPath(q, table, head, expected) <=> Chained(q, table, table_size, head, expected)
<1>1. Len(q) \in 1..table_size /\ \A i \in 1..Len(q) : q[i] \in 0..(table_size - 1)
  BY PathFacts
<1>2. ASSUME expected # <<>> => Len(q) = Len(expected), NEW i \in 1..Len(q)
      PROVE expected # <<>> => i <= Len(expected) /\ expected[i] \in Direction
  <2>1. ASSUME expected # <<>> PROVE i \in 1..Len(expected)
    BY <1>1, <1>2, <2>1
  <2> QED BY <2>1, ElementOfSeq
<1>3. ASSUME expected # <<>> => Len(q) = Len(expected), NEW i \in 1..Len(q)
      PROVE LET d == ram[descriptor_address(table, q[i])] IN
            Passes(q[i], i, table, table_size, expected) <=>
              /\ descriptor_address(table, q[i]) \in DOMAIN ram
              /\ "INDIRECT" \notin d.flags
              /\ d.address + d.length <= AddressSpace
              /\ expected # <<>> => CASE expected[i] = "Any" -> TRUE
                                      [] expected[i] = "DeviceReads" -> "WRITE" \notin d.flags
                                      [] expected[i] = "DeviceWrites" -> "WRITE" \in d.flags
  <2>1. expected # <<>> => i <= Len(expected) /\ expected[i] \in Direction
    BY <1>2, <1>3
  <2>2. q[i] \in 0..(table_size - 1)
    BY <1>1
  <2> QED BY <2>1, <2>2, DirectionRule, ZenonT(60) DEF Passes
<1>4. \A i \in 1..Len(q) :
        LET flags == ram[descriptor_address(table, q[i])].flags IN
        (("NEXT" \in flags) = (i < Len(q))) <=> ("NEXT" \in flags <=> i < Len(q))
  OBVIOUS
<1>5. ASSUME expected # <<>> => Len(q) = Len(expected)
      PROVE LegalPath(q, table, head, expected) <=> Chained(q, table, table_size, head, expected)
  BY <1>3, <1>4, <1>5, ZenonT(60) DEF LegalPath, Chained
<1>6. ASSUME ~(expected # <<>> => Len(q) = Len(expected))
      PROVE LegalPath(q, table, head, expected) <=> Chained(q, table, table_size, head, expected)
  BY <1>6, ZenonT(60) DEF LegalPath, Chained
<1> QED BY <1>5, <1>6, ZenonT(60)

(* Every legal chain begins with the path the loop has followed.           *)
LEMMA Follows ==
  ASSUME NEW table \in Nat, NEW table_size \in Nat \ {0}, NEW head \in Nat,
         NEW expected \in Seq(Direction),
         NEW q \in Paths(table_size), LegalPath(q, table, head, expected),
         NEW c \in Nat, NEW p \in [1..(c + 1) -> 0..IndexMax],
         Trail(p, c, table, table_size, head, expected)
  PROVE Begins(q, p, c)
<1>1. Len(q) \in Nat \ {0}
  BY PathFacts
<1>2. /\ q[1] = p[1]
      /\ \A i \in 1..Len(q) :
           /\ "NEXT" \in ram[descriptor_address(table, q[i])].flags <=> i < Len(q)
           /\ i < Len(q) => q[i + 1] = ram[descriptor_address(table, q[i])].next
  <2>1. Chained(q, table, table_size, head, expected)
    BY LegalMeans, ZenonT(60)
  <2>2. p[1] = head
    BY DEF Trail
  <2> QED BY <2>1, <2>2, ZenonT(60) DEF Chained
<1>3. \A i \in 1..c : /\ "NEXT" \in ram[descriptor_address(table, p[i])].flags
                      /\ p[i + 1] = ram[descriptor_address(table, p[i])].next
  BY ZenonT(60) DEF Trail
<1> DEFINE S == {n \in Nat : n <= c => n + 1 <= Len(q) /\ q[n + 1] = p[n + 1]}
<1>4. 0 \in S
  BY <1>1, <1>2
<1>5. ASSUME NEW n \in Nat, n \in S PROVE n + 1 \in S
  <2> SUFFICES ASSUME n + 1 <= c PROVE (n + 1) + 1 <= Len(q) /\ q[(n + 1) + 1] = p[(n + 1) + 1]
    OBVIOUS
  <2>1. n + 1 \in 1..c /\ n + 1 \in 1..Len(q) /\ q[n + 1] = p[n + 1]
    BY <1>1, <1>5
  <2>2. n + 1 < Len(q)
    BY <1>2, <1>3, <2>1, ZenonT(60)
  <2>3. q[(n + 1) + 1] = p[(n + 1) + 1]
    BY <1>2, <1>3, <2>1, <2>2, ZenonT(60)
  <2> QED BY <1>1, <2>2, <2>3
<1> HIDE DEF S
<1>6. Nat \subseteq S
  BY <1>4, <1>5, Induction, ZenonT(60)
<1>7. ASSUME NEW n \in 0..c PROVE n + 1 <= Len(q) /\ q[n + 1] = p[n + 1]
  BY <1>6 DEF S
<1>8. ASSUME NEW i \in 1..(c + 1) PROVE q[i] = p[i]
  <2>1. i - 1 \in 0..c /\ (i - 1) + 1 = i
    OBVIOUS
  <2> QED BY <1>7, <2>1, ZenonT(60)
<1> QED BY <1>7, <1>8 DEF Begins

(* So the entry at the end of that path is one of the chain.               *)
LEMMA EndInChain ==
  ASSUME NEW table \in Nat, NEW table_size \in Nat \ {0}, NEW head \in Nat,
         NEW expected \in Seq(Direction),
         NEW q \in Paths(table_size), LegalPath(q, table, head, expected),
         NEW c \in Nat, NEW p \in [1..(c + 1) -> 0..IndexMax],
         Trail(p, c, table, table_size, head, expected)
  PROVE /\ Passes(p[c + 1], c + 1, table, table_size, expected)
        /\ expected # <<>> => Len(q) = Len(expected)
        /\ "NEXT" \in ram[descriptor_address(table, p[c + 1])].flags <=> c + 1 < Len(q)
<1>1. c + 1 <= Len(q) /\ \A i \in 1..(c + 1) : q[i] = p[i]
  <2>1. Begins(q, p, c)
    BY Follows, ZenonT(60)
  <2> QED BY <2>1 DEF Begins
<1>2. Len(q) \in Nat
  BY PathFacts
<1>3. c + 1 \in 1..Len(q) /\ q[c + 1] = p[c + 1]
  BY <1>1, <1>2
<1>4. Chained(q, table, table_size, head, expected)
  BY LegalMeans, ZenonT(60)
<1> HIDE DEF Passes
<1> QED BY <1>3, <1>4, SMTT(60) DEF Chained

(* A trail that ends where no chain can go on belongs to no chain.         *)
LEMMA NoChain ==
  ASSUME NEW table \in Nat, NEW table_size \in Nat \ {0}, NEW head \in Nat,
         NEW expected \in Seq(Direction),
         NEW c \in Nat, NEW p \in [1..(c + 1) -> 0..IndexMax],
         Trail(p, c, table, table_size, head, expected)
  PROVE \/ ~Passes(p[c + 1], c + 1, table, table_size, expected)
        \/ p[c + 1] \in {p[i] : i \in 1..c}
        \/ /\ "NEXT" \notin ram[descriptor_address(table, p[c + 1])].flags
           /\ expected # <<>> /\ c + 1 # Len(expected)
        \/ c >= table_size
        => Found(table, table_size, head, expected) = {}
<1> SUFFICES ASSUME NEW q \in Paths(table_size), LegalPath(q, table, head, expected)
             PROVE /\ Passes(p[c + 1], c + 1, table, table_size, expected)
                   /\ p[c + 1] \notin {p[i] : i \in 1..c}
                   /\ \/ "NEXT" \in ram[descriptor_address(table, p[c + 1])].flags
                      \/ expected = <<>> \/ c + 1 = Len(expected)
                   /\ c < table_size
  BY DEF Found, Chain
<1>1. /\ Len(q) \in 1..table_size
      /\ \A i, j \in 1..Len(q) : q[i] = q[j] => i = j
  BY PathFacts
<1>2. c + 1 <= Len(q) /\ \A i \in 1..(c + 1) : q[i] = p[i]
  <2>1. Begins(q, p, c)
    BY Follows, ZenonT(60)
  <2> QED BY <2>1 DEF Begins
<1>3. /\ Passes(p[c + 1], c + 1, table, table_size, expected)
      /\ expected # <<>> => Len(q) = Len(expected)
      /\ "NEXT" \in ram[descriptor_address(table, p[c + 1])].flags <=> c + 1 < Len(q)
  BY EndInChain, ZenonT(60)
<1>4. ASSUME NEW i \in 1..c, p[c + 1] = p[i] PROVE FALSE
  <2>1. i \in 1..(c + 1) /\ c + 1 \in 1..(c + 1) /\ i \in 1..Len(q) /\ c + 1 \in 1..Len(q)
        /\ i # c + 1
    BY <1>1, <1>2
  <2> QED BY <1>1, <1>2, <1>4, <2>1, ZenonT(60)
<1>5. c < table_size
  BY <1>1, <1>2
<1>6. \/ "NEXT" \in ram[descriptor_address(table, p[c + 1])].flags
      \/ expected = <<>> \/ c + 1 = Len(expected)
  BY <1>1, <1>2, <1>3
<1> QED BY <1>3, <1>4, <1>5, <1>6

(* A trail that can end where it stands is the only chain.                 *)
LEMMA OneChain ==
  ASSUME NEW table \in Nat, NEW table_size \in Nat \ {0}, NEW head \in Nat,
         NEW expected \in Seq(Direction),
         NEW c \in Nat, c < table_size, NEW p \in [1..(c + 1) -> 0..IndexMax],
         Trail(p, c, table, table_size, head, expected),
         Passes(p[c + 1], c + 1, table, table_size, expected),
         p[c + 1] \notin {p[i] : i \in 1..c},
         "NEXT" \notin ram[descriptor_address(table, p[c + 1])].flags,
         expected # <<>> => c + 1 = Len(expected)
  PROVE Spelt(SegmentsOf(p, c + 1, table), table, table_size, head, expected)
<1> SUFFICES Found(table, table_size, head, expected) = {SegmentsOf(p, c + 1, table)}
  BY DEF Spelt
<1>1. ASSUME NEW i \in 1..(c + 1)
      PROVE /\ Passes(p[i], i, table, table_size, expected)
            /\ "NEXT" \in ram[descriptor_address(table, p[i])].flags <=> i < c + 1
            /\ i < c + 1 => p[i + 1] = ram[descriptor_address(table, p[i])].next
  <2>1. CASE i = c + 1
    BY <2>1
  <2>2. CASE i # c + 1
    <3>1. i \in 1..c /\ i < c + 1
      BY <2>2
    <3> QED BY <3>1, ZenonT(60) DEF Trail
  <2> QED BY <2>1, <2>2
<1>2. \A i, j \in 1..(c + 1) : p[i] = p[j] => i = j
  <2>1. \A i \in 1..(c + 1) : i \in 1..c \/ i = c + 1
    OBVIOUS
  <2>2. \A i, j \in 1..c : p[i] = p[j] => i = j
    BY DEF Trail
  <2>3. \A i \in 1..c : p[i] # p[c + 1]
    OBVIOUS
  <2> QED BY <2>1, <2>2, <2>3
<1>3. \A i \in 1..(c + 1) : p[i] \in 0..(table_size - 1)
  BY <1>1, ZenonT(60) DEF Passes
<1>4. p \in [1..(c + 1) -> 0..(table_size - 1)]
  BY <1>3
<1>5. p \in Paths(table_size)
  <2>1. c + 1 \in 1..table_size
    OBVIOUS
  <2> QED BY <1>2, <1>4, <2>1 DEF Paths
<1>6. Len(p) = c + 1
  <2>1. p \in Seq(0..(table_size - 1))
    BY <1>4, SMTT(60)
  <2> QED BY <1>4, <2>1
<1>7. LegalPath(p, table, head, expected)
  <2>1. p[1] = head
    BY DEF Trail
  <2>2. Chained(p, table, table_size, head, expected)
    BY <1>1, <1>6, <2>1, ZenonT(60) DEF Chained
  <2> QED BY <1>5, <2>2, LegalMeans, ZenonT(60)
<1>8. ASSUME NEW q \in Paths(table_size), LegalPath(q, table, head, expected)
      PROVE Len(q) = c + 1 /\ \A i \in 1..(c + 1) : q[i] = p[i]
  <2>1. Begins(q, p, c)
    BY <1>8, Follows, ZenonT(60)
  <2>2. "NEXT" \in ram[descriptor_address(table, p[c + 1])].flags <=> c + 1 < Len(q)
    BY <1>8, EndInChain, ZenonT(60)
  <2>3. Len(q) \in Nat
    BY PathFacts
  <2> QED BY <2>1, <2>2, <2>3 DEF Begins
<1> DEFINE Legal == {q \in Paths(table_size) : LegalPath(q, table, head, expected)}
           Shape(q) == [i \in 1..Len(q) |-> Segment(ram[descriptor_address(table, q[i])])]
<1>9. Found(table, table_size, head, expected) = {Shape(q) : q \in Legal}
  BY DEF Found, Chain
<1>10. \A q \in Legal : Shape(q) = SegmentsOf(p, c + 1, table)
  <2> SUFFICES ASSUME NEW q \in Legal PROVE Shape(q) = SegmentsOf(p, c + 1, table)
    BY SMTT(60)
  <2>1. Len(q) = c + 1 /\ \A i \in 1..(c + 1) : q[i] = p[i]
    BY <1>8, ZenonT(60)
  <2> QED BY <2>1, ZenonT(60) DEF SegmentsOf
<1>11. p \in Legal
  BY <1>5, <1>7
<1> HIDE DEF Legal, Shape
<1> QED BY <1>9, <1>10, <1>11, ZenonT(60)

-----------------------------------------------------------------------------
(* The lengths of a chain.                                                 *)

LengthMax == (AddressSpace - 1) \div IndexMax

(* As many lengths as an index can count fit the address space.            *)
LEMMA LengthMaxFits ==
  /\ LengthMax \in Nat /\ IndexMax \in Nat \ {0} /\ IndexMax * LengthMax < AddressSpace
  /\ \A l \in Nat : l * IndexMax < AddressSpace => l <= LengthMax
<1>1. IndexMax \in Nat \ {0} /\ AddressSpace - 1 \in Nat /\ AddressSpace \in Nat
  BY ChainAssumption
<1> DEFINE r == (AddressSpace - 1) % IndexMax
<1>2. /\ r \in 0..(IndexMax - 1) /\ LengthMax \in Nat
      /\ AddressSpace - 1 = IndexMax * LengthMax + r
  BY <1>1, Euclid, ZenonT(60) DEF LengthMax
<1> HIDE DEF r
<1>3. IndexMax * LengthMax \in Nat
  BY <1>1, <1>2
<1>4. ASSUME NEW l \in Nat, l * IndexMax < AddressSpace PROVE l <= LengthMax
  <2> SUFFICES ASSUME l >= LengthMax + 1 PROVE FALSE
    BY <1>2
  <2>1. l * IndexMax >= (LengthMax + 1) * IndexMax
    BY <1>1, <1>2
  <2>2. (LengthMax + 1) * IndexMax = IndexMax * LengthMax + IndexMax
    BY <1>1, <1>2
  <2>3. l * IndexMax \in Nat
    BY <1>1
  <2> QED BY <1>1, <1>2, <1>3, <1>4, <2>1, <2>2, <2>3
<1> QED BY <1>1, <1>2, <1>3, <1>4

(* The sum of the lengths of c segments.                                   *)
LEMMA LengthBounded ==
  ASSUME NEW c \in Nat, NEW segments, Len(segments) = c,
         \A n \in 1..c : segments[n].length \in 0..LengthMax
  PROVE LengthOf(segments) \in 0..(c * LengthMax)
<1>1. LengthMax \in Nat
  BY LengthMaxFits
<1>2. \A n \in 1..c : segments[n].length \in 0..LengthMax
  OBVIOUS
<1> DEFINE F == [n \in 1..c |-> [total \in Nat |-> total + segments[n].length]]
<1>3. F \in [1..c -> [Nat -> Nat]]
  BY <1>1, <1>2
<1>4. PICK f \in [0..c -> Nat] : Iterates(f, c, 0, F)
  <2> HIDE DEF F
  <2> QED BY <1>3, LoopRuns, ZenonT(60)
<1>5. ASSUME NEW n \in 0..c PROVE f[n] = IF n = 0 THEN 0 ELSE f[n - 1] + segments[n].length
  <2>1. f[n] = IF n = 0 THEN 0 ELSE F[n][f[n - 1]]
    BY <1>4, ZenonT(60) DEF Iterates
  <2>2. ASSUME n # 0 PROVE F[n][f[n - 1]] = f[n - 1] + segments[n].length
    <3>1. n \in 1..c /\ n - 1 \in 0..c
      BY <2>2
    <3>2. f[n - 1] \in Nat
      BY <1>4, <3>1
    <3> QED BY <3>1, <3>2
  <2> HIDE DEF F
  <2> QED BY <2>1, <2>2, ZenonT(60)
<1> HIDE DEF F
<1>6. f = [n \in 0..Len(segments) |-> IF n = 0 THEN 0 ELSE f[n - 1] + segments[n].length]
  BY <1>4, <1>5
<1>7. PICK g : /\ g = [n \in 0..Len(segments) |->
                            IF n = 0 THEN 0 ELSE g[n - 1] + segments[n].length]
               /\ LengthOf(segments) = g[Len(segments)]
  BY <1>6, ZenonT(60) DEF LengthOf
<1>8. \A n \in 0..c : g[n] = IF n = 0 THEN 0 ELSE g[n - 1] + segments[n].length
  BY <1>7, ZenonT(60)
<1> DEFINE S == {n \in Nat : n <= c => g[n] \in 0..(n * LengthMax)}
<1>9. 0 \in S
  BY <1>1, <1>8
<1>10. ASSUME NEW n \in Nat, n \in S PROVE n + 1 \in S
  <2> SUFFICES ASSUME n + 1 <= c PROVE g[n + 1] \in 0..((n + 1) * LengthMax)
    OBVIOUS
  <2>1. n + 1 \in 1..c /\ n + 1 \in 0..c /\ n + 1 # 0 /\ (n + 1) - 1 = n
    OBVIOUS
  <2>2. g[n + 1] = g[n] + segments[n + 1].length
    BY <1>8, <2>1
  <2>3. g[n] \in 0..(n * LengthMax) /\ segments[n + 1].length \in 0..LengthMax
    BY <1>2, <1>10, <2>1
  <2>4. (n + 1) * LengthMax = n * LengthMax + LengthMax /\ n * LengthMax \in Nat
    BY <1>1
  <2> QED BY <1>1, <2>2, <2>3, <2>4, SMTT(60)
<1> HIDE DEF S
<1>11. c \in S
  BY <1>9, <1>10, Induction, ZenonT(60)
<1> QED BY <1>7, <1>11 DEF S

(* The lengths on a trail, with one more, stay below the address space.    *)
LEMMA NoTotalOverflow ==
  ASSUME RamTyped, NEW table \in Nat, NEW table_size \in 1..IndexMax, NEW head \in Nat,
         NEW expected \in Seq(Direction),
         NEW c \in Nat, c < table_size, NEW p \in [1..(c + 1) -> 0..IndexMax],
         Trail(p, c, table, table_size, head, expected),
         NEW a \in DOMAIN ram, "INDIRECT" \notin ram[a].flags
  PROVE ~add_overflows(LengthOf(SegmentsOf(p, c, table)), ram[a].length)
<1> DEFINE segments == SegmentsOf(p, c, table)
<1>1. ASSUME NEW b \in DOMAIN ram, "INDIRECT" \notin ram[b].flags
      PROVE ram[b].length \in 0..LengthMax
  <2>1. ram[b].length \in Nat /\ ram[b].length * IndexMax < AddressSpace
    BY <1>1, SMTT(60) DEF RamTyped, Descriptor
  <2> QED BY <2>1, LengthMaxFits
<1>2. ASSUME NEW n \in 1..c PROVE segments[n].length \in 0..LengthMax
  <2>1. segments[n].length = ram[descriptor_address(table, p[n])].length
    BY ZenonT(60) DEF SegmentsOf, Segment
  <2>2. Passes(p[n], n, table, table_size, expected)
    BY ZenonT(60) DEF Trail
  <2>3. /\ descriptor_address(table, p[n]) \in DOMAIN ram
        /\ "INDIRECT" \notin ram[descriptor_address(table, p[n])].flags
    BY <2>2, ZenonT(60) DEF Passes
  <2> QED BY <1>1, <2>1, <2>3
<1>3. Len(segments) = c
  BY DEF SegmentsOf
<1> DEFINE total == LengthOf(segments)
<1> HIDE DEF segments
<1>4. total \in 0..(c * LengthMax)
  BY <1>2, <1>3, LengthBounded, ZenonT(60)
<1>5. ram[a].length \in 0..LengthMax
  BY <1>1
<1> HIDE DEF total
<1>6. LengthMax \in Nat /\ IndexMax \in Nat \ {0} /\ IndexMax * LengthMax < AddressSpace
  BY LengthMaxFits
<1>7. c + 1 <= IndexMax
  BY <1>6
<1>8. (c + 1) * LengthMax <= IndexMax * LengthMax
  <2>1. (c + 1) * LengthMax \in Nat /\ (IndexMax - (c + 1)) * LengthMax \in Nat
    BY <1>6, <1>7
  <2>2. IndexMax * LengthMax = (c + 1) * LengthMax + (IndexMax - (c + 1)) * LengthMax
    BY <1>6
  <2> QED BY <2>1, <2>2
<1>9. c * LengthMax + LengthMax = (c + 1) * LengthMax /\ c * LengthMax \in Nat
  BY <1>6
<1>10. IndexMax * LengthMax \in Nat /\ AddressSpace \in Nat
  BY <1>6, ChainAssumption
<1> DEFINE most == c * LengthMax
           more == IndexMax * LengthMax
           length == ram[a].length
<1>11. /\ total \in 0..most /\ length \in 0..LengthMax /\ most \in Nat /\ more \in Nat
       /\ most + LengthMax <= more /\ more < AddressSpace
  BY <1>4, <1>5, <1>6, <1>8, <1>9, <1>10
<1> HIDE DEF most, more, length
<1>12. ~(total + length >= AddressSpace)
  BY <1>6, <1>10, <1>11
<1> QED BY <1>12 DEF add_overflows, length, total, segments

-----------------------------------------------------------------------------
(* One pass of the loop.                                                   *)

(* The loop ended with an error.                                           *)
Refused(w, table, table_size) ==
  /\ w.code \notin {"walking", "None", "Indirect"} /\ w.segments = <<>>
  /\ w.read \subseteq Span(table, table_size)

(* What failure returns.                                                   *)
LEMMA FailureIs ==
  ASSUME NEW index, NEW visited, NEW segments, NEW read, NEW code, NEW reason
  PROVE failure(Walk(index, visited, segments, read, code), reason)
          = Walk(index, visited, <<>>, read, reason)
<1> DEFINE w == Walk(index, visited, segments, read, code)
<1>1. failure(w, reason) = [[w EXCEPT !.code = reason] EXCEPT !.segments = <<>>]
  BY DEF failure
<1>2. [w EXCEPT !.code = reason] = Walk(index, visited, segments, read, reason)
  BY DEF Walk
<1>3. [Walk(index, visited, segments, read, reason) EXCEPT !.segments = <<>>]
        = Walk(index, visited, <<>>, read, reason)
  BY DEF Walk
<1> QED BY <1>1, <1>2, <1>3, ZenonT(60)

(* A failure for one of the reasons of the loop is a refusal.              *)
LEMMA FailureRefuses ==
  ASSUME NEW index, NEW visited, NEW segments, NEW read, NEW code,
         NEW reason \in {"IndexOutOfRange", "ChainLoop", "DmaReadFailure", "IndirectUnsupported",
                         "DirectionMismatch", "AddressOverflow", "ChainTooLong"},
         NEW table, NEW table_size, read \subseteq Span(table, table_size)
  PROVE Refused(failure(Walk(index, visited, segments, read, code), reason), table, table_size)
<1>1. failure(Walk(index, visited, segments, read, code), reason)
        = Walk(index, visited, <<>>, read, reason)
  BY FailureIs
<1>2. /\ Walk(index, visited, <<>>, read, reason).code = reason
      /\ Walk(index, visited, <<>>, read, reason).segments = <<>>
      /\ Walk(index, visited, <<>>, read, reason).read = read
  BY DEF Walk
<1>3. reason \notin {"walking", "None", "Indirect"}
  OBVIOUS
<1> QED BY <1>1, <1>2, <1>3, ZenonT(60) DEF Refused

(* The outcomes r of a pass over the entry x, after n others.              *)
Passed(r, n, x, V, s, R, table, table_size, allow_indirect, expected) ==
  LET a == descriptor_address(table, x)
      d == ram[a]
      passes == Passes(x, n + 1, table, table_size, expected)
      last == expected # <<>> => n + 1 = Len(expected)
      more(code) == Walk(d.next, V \cup {x}, Append(s, Segment(d)), R \cup {a}, code)
  IN  \/ /\ Refused(r, table, table_size)
         /\ \/ ~passes \/ x \in V \/ add_overflows(LengthOf(s), d.length)
            \/ "NEXT" \notin d.flags /\ ~last
         /\ n # 0 \/ x \in V \/ ~IndirectHead(table, table_size, x, allow_indirect)
      \/ /\ r = Walk(x, V \cup {x}, s, R \cup {a}, "Indirect")
         /\ IndirectHead(table, table_size, x, allow_indirect) /\ n = 0
         /\ R \cup {a} \subseteq Span(table, table_size)
      \/ /\ r = more("walking") /\ passes /\ x \notin V /\ "NEXT" \in d.flags
         /\ R \cup {a} \subseteq Span(table, table_size)
      \/ /\ r = more("None") /\ passes /\ x \notin V /\ "NEXT" \notin d.flags /\ last
         /\ R \cup {a} \subseteq Span(table, table_size)

(* The four ways a pass can end.                                           *)
LEMMA VisitCases ==
  ASSUME RamTyped, NEW table \in Nat, NEW table_size \in Nat \ {0},
         NEW allow_indirect \in BOOLEAN, NEW expected \in Seq(Direction),
         NEW x \in 0..IndexMax, NEW V, NEW s, Len(s) \in Nat,
         NEW R, R \subseteq Span(table, table_size)
  PROVE Passed(visit(Walk(x, V, s, R, "walking"), table, table_size, allow_indirect, expected),
               Len(s), x, V, s, R, table, table_size, allow_indirect, expected)
<1> DEFINE w == Walk(x, V, s, R, "walking")
           r == visit(w, table, table_size, allow_indirect, expected)
           a == descriptor_address(table, x)
           d == ram[a]
           passes == Passes(x, Len(s) + 1, table, table_size, expected)
           last == expected # <<>> => Len(s) + 1 = Len(expected)
           V1 == V \cup {x}
           R1 == R \cup {a}
           s1 == Append(s, Segment(d))
           next == d.next
           seen == Walk(x, V1, s, R1, "walking")
           more(code) == Walk(next, V1, s1, R1, code)
           length == LengthOf(s)
           matches == direction_matches("WRITE" \in d.flags, expected[Len(s) + 1])
           calls == IndirectHead(table, table_size, x, allow_indirect)
<1> SUFFICES \/ /\ Refused(r, table, table_size)
                /\ \/ ~passes \/ x \in V \/ add_overflows(length, d.length)
                   \/ "NEXT" \notin d.flags /\ ~last
                /\ Len(s) # 0 \/ x \in V \/ ~calls
             \/ /\ r = Walk(x, V \cup {x}, s, R \cup {a}, "Indirect") /\ calls /\ Len(s) = 0
                /\ R \cup {a} \subseteq Span(table, table_size)
             \/ /\ r = more("walking") /\ passes /\ x \notin V /\ "NEXT" \in d.flags
                /\ R \cup {a} \subseteq Span(table, table_size)
             \/ /\ r = more("None") /\ passes /\ x \notin V /\ "NEXT" \notin d.flags /\ last
                /\ R \cup {a} \subseteq Span(table, table_size)
  BY ZenonT(60) DEF Passed
<1>1. /\ w.index = x /\ w.visited = V /\ w.segments = s
      /\ [w EXCEPT !.visited = @ \cup {w.index}, !.read = @ \cup {a}] = seen
      /\ [seen EXCEPT !.segments = Append(@, Segment(d)), !.index = d.next] = more("walking")
      /\ [seen EXCEPT !.code = "Indirect"] = Walk(x, V1, s, R1, "Indirect")
      /\ [more("walking") EXCEPT !.code = "None"] = more("None")
  <2> HIDE DEF a, d
  <2>1. w.index = x /\ w.visited = V /\ w.segments = s /\ w.read = R /\ seen.segments = s
    BY DEF Walk
  <2>2. [w EXCEPT !.visited = @ \cup {w.index}, !.read = @ \cup {a}]
          = [[w EXCEPT !.visited = V1] EXCEPT !.read = R1]
    BY DEF Walk
  <2>3. [seen EXCEPT !.segments = Append(@, Segment(d)), !.index = d.next]
          = [[seen EXCEPT !.segments = s1] EXCEPT !.index = next]
    BY <2>1, ZenonT(60)
  <2> HIDE DEF V1, R1, s1, next
  <2>4. [w EXCEPT !.visited = V1] = Walk(x, V1, s, R, "walking")
    BY DEF Walk
  <2>5. [Walk(x, V1, s, R, "walking") EXCEPT !.read = R1] = seen
    BY DEF Walk
  <2>6. [seen EXCEPT !.segments = s1] = Walk(x, V1, s1, R1, "walking")
    BY DEF Walk
  <2>7. [Walk(x, V1, s1, R1, "walking") EXCEPT !.index = next] = more("walking")
    BY DEF Walk
  <2>8. [seen EXCEPT !.code = "Indirect"] = Walk(x, V1, s, R1, "Indirect")
    BY DEF Walk
  <2>9. [more("walking") EXCEPT !.code = "None"] = more("None")
    BY DEF Walk
  <2> HIDE DEF w, seen, more
  <2> QED BY <2>1, <2>2, <2>3, <2>4, <2>5, <2>6, <2>7, <2>8, <2>9, ZenonT(60)
<1>2. r = IF index_out_of_range(x, table_size) THEN failure(w, "IndexOutOfRange")
          ELSE IF x \in V THEN failure(w, "ChainLoop")
          ELSE IF a \notin DOMAIN ram THEN failure(seen, "DmaReadFailure")
          ELSE IF "INDIRECT" \in d.flags
               THEN IF ~allow_indirect \/ Len(s) > 0 THEN failure(seen, "IndirectUnsupported")
                    ELSE Walk(x, V \cup {x}, s, R \cup {a}, "Indirect")
          ELSE IF \/ expected # <<>> /\ Len(s) >= Len(expected)
                  \/ expected # <<>> /\ ~matches
               THEN failure(seen, "DirectionMismatch")
          ELSE IF \/ d.length # 0 /\ add_overflows(d.address, d.length - 1)
                  \/ add_overflows(length, d.length)
               THEN failure(seen, "AddressOverflow")
          ELSE IF "NEXT" \in d.flags THEN more("walking")
          ELSE IF expected # <<>> /\ Len(s) + 1 # Len(expected)
               THEN failure(seen, "DirectionMismatch")
          ELSE more("None")
  <2> HIDE DEF w, seen, more
  <2> QED BY <1>1, ZenonT(60) DEF visit, read_raw_descriptor
<1>3. /\ Refused(failure(w, "IndexOutOfRange"), table, table_size)
      /\ Refused(failure(w, "ChainLoop"), table, table_size)
  BY FailureRefuses, ZenonT(60)
<1>4. index_out_of_range(x, table_size) <=> x \notin 0..(table_size - 1)
  BY ChainAssumption DEF index_out_of_range
<1>5. ASSUME x \in 0..(table_size - 1)
      PROVE R \cup {a} \subseteq Span(table, table_size) /\ x < table_size
  BY <1>5 DEF Span
<1>6. ASSUME R \cup {a} \subseteq Span(table, table_size)
      PROVE /\ Refused(failure(seen, "DmaReadFailure"), table, table_size)
            /\ Refused(failure(seen, "IndirectUnsupported"), table, table_size)
            /\ Refused(failure(seen, "DirectionMismatch"), table, table_size)
            /\ Refused(failure(seen, "AddressOverflow"), table, table_size)
  BY <1>6, FailureRefuses, ZenonT(60)
<1>7. ASSUME a \in DOMAIN ram
      PROVE d.length # 0 /\ add_overflows(d.address, d.length - 1)
              <=> ~(d.address + d.length <= AddressSpace)
  <2>1. d.address \in 0..(AddressSpace - 1) /\ d.length \in Nat
    BY <1>7 DEF RamTyped, Descriptor
  <2> HIDE DEF d
  <2> QED BY <2>1, ChainAssumption DEF add_overflows
<1>8. expected # <<>> => (Len(s) + 1 <= Len(expected) <=> ~(Len(s) >= Len(expected)))
  BY LenProperties
<1>9. passes <=> /\ x \in 0..(table_size - 1) /\ a \in DOMAIN ram
                 /\ "INDIRECT" \notin d.flags /\ d.address + d.length <= AddressSpace
                 /\ expected # <<>> => Len(s) + 1 <= Len(expected) /\ matches
  BY DEF Passes
<1>10. /\ ~(Len(s) > 0) <=> Len(s) = 0
       /\ x \notin 0..(table_size - 1) => ~(x < table_size)
  BY ChainAssumption
<1>15. calls <=> allow_indirect /\ x < table_size /\ a \in DOMAIN ram /\ "INDIRECT" \in d.flags
  BY ZenonT(60) DEF IndirectHead
<1> HIDE DEF w, r, a, d, passes, seen, more, length, matches, calls
<1>11. CASE x \notin 0..(table_size - 1) \/ x \in V
  <2>1. r = failure(w, "IndexOutOfRange") \/ r = failure(w, "ChainLoop")
    BY <1>2, <1>4, <1>11, ZenonT(60)
  <2>2. Refused(r, table, table_size)
    BY <1>3, <2>1, ZenonT(60)
  <2>3. (~passes \/ x \in V) /\ (x \in V \/ ~calls)
    BY <1>9, <1>10, <1>11, <1>15, ZenonT(60)
  <2> QED BY <2>2, <2>3, ZenonT(60)
<1>12. ASSUME x \in 0..(table_size - 1), x \notin V, a \notin DOMAIN ram \/ "INDIRECT" \in d.flags
       PROVE \/ Refused(r, table, table_size) /\ ~passes /\ (Len(s) # 0 \/ ~calls)
             \/ /\ r = Walk(x, V \cup {x}, s, R \cup {a}, "Indirect") /\ calls /\ Len(s) = 0
                /\ R \cup {a} \subseteq Span(table, table_size)
  BY <1>2, <1>4, <1>5, <1>6, <1>9, <1>10, <1>12, <1>15, ZenonT(60)
<1>13. ASSUME x \in 0..(table_size - 1), x \notin V, a \in DOMAIN ram,
              "INDIRECT" \notin d.flags, ~passes
       PROVE Refused(r, table, table_size)
  BY <1>2, <1>4, <1>5, <1>6, <1>7, <1>8, <1>9, <1>13, ZenonT(60)
<1>14. ASSUME x \notin V, passes
       PROVE \/ /\ Refused(r, table, table_size)
                /\ add_overflows(length, d.length) \/ ("NEXT" \notin d.flags /\ ~last)
             \/ r = more("walking") /\ "NEXT" \in d.flags
             \/ r = more("None") /\ "NEXT" \notin d.flags /\ last
  BY <1>2, <1>4, <1>5, <1>6, <1>7, <1>8, <1>9, <1>14, ZenonT(60)
<1> QED BY <1>5, <1>9, <1>11, <1>12, <1>13, <1>14, <1>15, ZenonT(60)
        DEF w, r, a, d, passes, seen, more, length, V1, R1, s1, next

(* A head that the loop passed is not an indirect descriptor.              *)
LEMMA DirectHead ==
  ASSUME NEW table, NEW table_size, NEW head, NEW allow_indirect, NEW expected,
         NEW c \in Nat, NEW p, Trail(p, c, table, table_size, head, expected),
         c # 0 \/ Passes(p[c + 1], c + 1, table, table_size, expected)
  PROVE ~IndirectHead(table, table_size, head, allow_indirect)
<1>1. Passes(p[1], 1, table, table_size, expected)
  <2>1. CASE c # 0
    <3>1. 1 \in 1..c
      BY <2>1
    <3> QED BY <3>1, ZenonT(60) DEF Trail
  <2>2. CASE c = 0
    BY <2>2
  <2> QED BY <2>1, <2>2
<1>2. p[1] = head
  BY ZenonT(60) DEF Trail
<1> QED BY <1>1, <1>2, ZenonT(60) DEF Passes, IndirectHead

(* A pass that refuses the chain has met what no chain contains.           *)
LEMMA RefusedSettles ==
  ASSUME RamTyped, NEW table \in Nat, NEW table_size \in 1..IndexMax, NEW head \in Nat,
         NEW allow_indirect, NEW expected \in Seq(Direction),
         NEW c \in Nat, c < table_size, NEW p \in [1..(c + 1) -> 0..IndexMax],
         Trail(p, c, table, table_size, head, expected),
         NEW r, Refused(r, table, table_size),
         \/ ~Passes(p[c + 1], c + 1, table, table_size, expected)
         \/ p[c + 1] \in {p[i] : i \in 1..c}
         \/ add_overflows(LengthOf(SegmentsOf(p, c, table)),
                          ram[descriptor_address(table, p[c + 1])].length)
         \/ /\ "NEXT" \notin ram[descriptor_address(table, p[c + 1])].flags
            /\ ~(expected # <<>> => c + 1 = Len(expected)),
         c # 0 \/ p[c + 1] \in {p[i] : i \in 1..c}
           \/ ~IndirectHead(table, table_size, p[c + 1], allow_indirect)
  PROVE Settled(r, table, table_size, head, allow_indirect, expected)
<1> DEFINE passes == Passes(p[c + 1], c + 1, table, table_size, expected)
           loops == p[c + 1] \in {p[i] : i \in 1..c}
           overflows == add_overflows(LengthOf(SegmentsOf(p, c, table)),
                                      ram[descriptor_address(table, p[c + 1])].length)
           short == /\ "NEXT" \notin ram[descriptor_address(table, p[c + 1])].flags
                    /\ expected # <<>> /\ c + 1 # Len(expected)
           found == Found(table, table_size, head, expected)
<1>1. ~passes \/ loops \/ overflows \/ short
  OBVIOUS
<1>2. table_size \in Nat \ {0}
  BY ChainAssumption
<1>3. ~passes \/ loops \/ short => found = {}
  BY <1>2, NoChain, ZenonT(60)
<1>4. passes => ~overflows
  <2> SUFFICES ASSUME passes PROVE ~overflows
    OBVIOUS
  <2>1. /\ descriptor_address(table, p[c + 1]) \in DOMAIN ram
        /\ "INDIRECT" \notin ram[descriptor_address(table, p[c + 1])].flags
    BY ZenonT(60) DEF Passes
  <2> QED BY <2>1, NoTotalOverflow, ZenonT(60)
<1> HIDE DEF passes, loops, overflows, short
<1>5. found = {}
  BY <1>1, <1>3, <1>4, ZenonT(60)
<1>6. ~IndirectHead(table, table_size, head, allow_indirect)
  <2>1. CASE c # 0
    BY <2>1, DirectHead, ZenonT(60)
  <2>2. CASE c = 0
    <3>1. 1..c = {} /\ c + 1 = 1
      BY <2>2
    <3>2. p[c + 1] \notin {p[i] : i \in 1..c}
      BY <3>1, ZenonT(60)
    <3>3. p[c + 1] = head
      BY <3>1, ZenonT(60) DEF Trail
    <3> QED BY <2>2, <3>2, <3>3, ZenonT(60)
  <2> QED BY <2>1, <2>2, ZenonT(60)
<1>7. r.code # "Indirect" /\ r.code # "walking" /\ r.code # "None"
  BY ZenonT(60) DEF Refused
<1> QED BY <1>5, <1>6, <1>7, ZenonT(60) DEF Settled, Refused

(* A pass that finds an indirect descriptor stands at the head.            *)
LEMMA IndirectSettles ==
  ASSUME NEW table \in Nat, NEW table_size \in 1..IndexMax, NEW head \in Nat,
         NEW allow_indirect \in BOOLEAN, NEW expected \in Seq(Direction),
         NEW c \in Nat, NEW p \in [1..(c + 1) -> 0..IndexMax],
         Trail(p, c, table, table_size, head, expected), c = 0,
         IndirectHead(table, table_size, p[c + 1], allow_indirect),
         NEW V, NEW s, NEW R, R \subseteq Span(table, table_size)
  PROVE Settled(Walk(p[c + 1], V, s, R, "Indirect"),
                table, table_size, head, allow_indirect, expected)
<1> DEFINE r == Walk(p[c + 1], V, s, R, "Indirect")
<1>1. r.index = p[c + 1] /\ r.code = "Indirect" /\ r.read = R
  BY DEF Walk
<1>2. p[c + 1] = head
  BY DEF Trail
<1>3. table_size \in Nat \ {0}
  BY ChainAssumption
<1>4. ~Passes(p[c + 1], c + 1, table, table_size, expected)
  BY ZenonT(60) DEF Passes, IndirectHead
<1>5. Found(table, table_size, head, expected) = {}
  BY <1>3, <1>4, NoChain, ZenonT(60)
<1> HIDE DEF r
<1>6. r.code \notin {"walking", "None"}
  BY <1>1
<1>7. Settled(r, table, table_size, head, allow_indirect, expected)
  <2>1. r = Walk(head, V, s, r.read, "Indirect")
    BY <1>1, <1>2, ZenonT(60) DEF r
  <2>2. \E V1, s1 : r = Walk(head, V1, s1, r.read, "Indirect")
    BY <2>1, ZenonT(60)
  <2> QED BY <1>1, <1>2, <1>5, <1>6, <2>2, ZenonT(60) DEF Settled
<1> QED BY <1>7 DEF r

(* A pass that ends the chain has found the only one.                      *)
LEMMA EndSettles ==
  ASSUME NEW table \in Nat, NEW table_size \in 1..IndexMax, NEW head \in Nat,
         NEW allow_indirect, NEW expected \in Seq(Direction),
         NEW c \in Nat, c < table_size, NEW p \in [1..(c + 1) -> 0..IndexMax],
         Trail(p, c, table, table_size, head, expected),
         Passes(p[c + 1], c + 1, table, table_size, expected),
         p[c + 1] \notin {p[i] : i \in 1..c},
         "NEXT" \notin ram[descriptor_address(table, p[c + 1])].flags,
         expected # <<>> => c + 1 = Len(expected),
         NEW index, NEW V, NEW R, R \subseteq Span(table, table_size)
  PROVE Settled(Walk(index, V, SegmentsOf(p, c + 1, table), R, "None"),
                table, table_size, head, allow_indirect, expected)
<1> DEFINE segments == SegmentsOf(p, c + 1, table)
<1>1. table_size \in Nat \ {0}
  BY ChainAssumption
<1>2. Spelt(segments, table, table_size, head, expected)
  BY <1>1, OneChain, ZenonT(60)
<1> HIDE DEF segments
<1> DEFINE r == Walk(index, V, segments, R, "None")
<1>3. r.code = "None" /\ r.read = R /\ r.segments = segments
  BY ZenonT(60) DEF Walk
<1> HIDE DEF r
<1>4. r.code \notin {"walking", "Indirect"}
  BY <1>3, ZenonT(60)
<1>6. ~IndirectHead(table, table_size, head, allow_indirect)
  BY DirectHead, ZenonT(60)
<1>5. Settled(r, table, table_size, head, allow_indirect, expected)
  BY <1>2, <1>3, <1>4, <1>6, ZenonT(60) DEF Settled, Spelt
<1> QED BY <1>5, ZenonT(60) DEF r, segments

(* One more segment.                                                       *)
LEMMA SegmentsNext ==
  ASSUME NEW table, NEW c \in Nat, NEW p, NEW q, \A i \in 1..(c + 1) : q[i] = p[i]
  PROVE Append(SegmentsOf(p, c, table), Segment(ram[descriptor_address(table, p[c + 1])]))
          = SegmentsOf(q, c + 1, table)
<1> DEFINE last == Segment(ram[descriptor_address(table, p[c + 1])])
           s == SegmentsOf(p, c, table)
           t == SegmentsOf(q, c + 1, table)
<1>1. Len(s) = c /\ DOMAIN s = 1..c
  BY DEF SegmentsOf
<1>2. Append(s, last) = [i \in 1..(c + 1) |-> IF i = c + 1 THEN last ELSE s[i]]
  <2> DEFINE S == {s[i] : i \in 1..c} \cup {last}
             t2 == Append(s, last)
  <2>1. s = [i \in 1..c |-> s[i]]
    BY DEF SegmentsOf
  <2> HIDE DEF s, last
  <2>2. s \in Seq(S) /\ last \in S
    BY <2>1
  <2> HIDE DEF S
  <2>3. /\ t2 \in Seq(S) /\ Len(t2) = c + 1
        /\ \A i \in 1..c : t2[i] = s[i]
        /\ t2[c + 1] = last
    BY <1>1, <2>2, AppendProperties
  <2> HIDE DEF t2
  <2>4. t2 = [i \in 1..(c + 1) |-> t2[i]]
    BY <2>3
  <2>5. ASSUME NEW i \in 1..(c + 1) PROVE t2[i] = IF i = c + 1 THEN last ELSE s[i]
    <3>1. CASE i = c + 1
      BY <2>3, <3>1, ZenonT(60)
    <3>2. CASE i # c + 1
      BY <2>3, <3>2
    <3> QED BY <3>1, <3>2, ZenonT(60)
  <2>6. t2 = [i \in 1..(c + 1) |-> IF i = c + 1 THEN last ELSE s[i]]
    BY <2>4, <2>5, ZenonT(60)
  <2> QED BY <2>6 DEF t2
<1>3. ASSUME NEW i \in 1..(c + 1) PROVE t[i] = IF i = c + 1 THEN last ELSE s[i]
  <2>1. t[i] = Segment(ram[descriptor_address(table, p[i])])
    BY ZenonT(60) DEF SegmentsOf
  <2>2. CASE i = c + 1
    BY <2>1, <2>2
  <2>3. CASE i # c + 1
    <3>1. i \in 1..c
      BY <2>3
    <3>2. s[i] = Segment(ram[descriptor_address(table, p[i])])
      BY <3>1 DEF SegmentsOf
    <3> QED BY <2>1, <2>3, <3>2
  <2> QED BY <2>2, <2>3, ZenonT(60)
<1>4. t = [i \in 1..(c + 1) |-> t[i]]
  BY DEF SegmentsOf
<1> HIDE DEF s, t, last
<1>5. t = [i \in 1..(c + 1) |-> IF i = c + 1 THEN last ELSE s[i]]
  BY <1>3, <1>4, ZenonT(60)
<1> QED BY <1>2, <1>5 DEF s, t, last

(* A pass that goes on follows one more link.                              *)
LEMMA NextStands ==
  ASSUME RamTyped, NEW table \in Nat, NEW table_size \in 1..IndexMax, NEW head \in Nat,
         NEW expected \in Seq(Direction),
         NEW c \in Nat, NEW p \in [1..(c + 1) -> 0..IndexMax],
         Trail(p, c, table, table_size, head, expected),
         Passes(p[c + 1], c + 1, table, table_size, expected),
         p[c + 1] \notin {p[i] : i \in 1..c},
         "NEXT" \in ram[descriptor_address(table, p[c + 1])].flags,
         NEW R, R \subseteq Span(table, table_size)
  PROVE Standing(Walk(ram[descriptor_address(table, p[c + 1])].next,
                      {p[i] : i \in 1..c} \cup {p[c + 1]},
                      Append(SegmentsOf(p, c, table),
                             Segment(ram[descriptor_address(table, p[c + 1])])), R, "walking"),
                 c + 1, table, table_size, head, expected)
<1> DEFINE next == ram[descriptor_address(table, p[c + 1])].next
           q == [i \in 1..((c + 1) + 1) |-> IF i = c + 2 THEN next ELSE p[i]]
           V == {p[i] : i \in 1..c} \cup {p[c + 1]}
           s == Append(SegmentsOf(p, c, table), Segment(ram[descriptor_address(table, p[c + 1])]))
           w == Walk(next, V, s, R, "walking")
<1>1. next \in 0..IndexMax
  <2>1. descriptor_address(table, p[c + 1]) \in DOMAIN ram
    BY ZenonT(60) DEF Passes
  <2>2. ram[descriptor_address(table, p[c + 1])] \in Descriptor
    BY <2>1, ZenonT(60) DEF RamTyped
  <2> QED BY <2>2, ZenonT(60) DEF Descriptor
<1> HIDE DEF next
<1>2. /\ q \in [1..((c + 1) + 1) -> 0..IndexMax]
      /\ q[(c + 1) + 1] = next
      /\ \A i \in 1..(c + 1) : q[i] = p[i]
  BY <1>1
<1> HIDE DEF q
<1>3. Trail(q, c + 1, table, table_size, head, expected)
  <2>1. q[1] = head
    BY <1>2 DEF Trail
  <2>2. ASSUME NEW i \in 1..(c + 1), NEW j \in 1..(c + 1), q[i] = q[j] PROVE i = j
    <3>1. p[i] = p[j]
      BY <1>2, <2>2, ZenonT(60)
    <3>2. i \in 1..c \/ i = c + 1
      OBVIOUS
    <3>3. j \in 1..c \/ j = c + 1
      OBVIOUS
    <3> QED BY <3>1, <3>2, <3>3, ZenonT(60) DEF Trail
  <2>3. ASSUME NEW i \in 1..(c + 1)
        PROVE /\ Passes(q[i], i, table, table_size, expected)
              /\ "NEXT" \in ram[descriptor_address(table, q[i])].flags
              /\ q[i + 1] = ram[descriptor_address(table, q[i])].next
    <3>1. q[i] = p[i]
      BY <1>2, ZenonT(60)
    <3>2. CASE i = c + 1
      BY <1>2, <3>1, <3>2, ZenonT(60) DEF next
    <3>3. CASE i # c + 1
      <4>1. i \in 1..c /\ i + 1 \in 1..(c + 1)
        BY <3>3
      <4>2. q[i + 1] = p[i + 1]
        BY <1>2, <4>1, ZenonT(60)
      <4> QED BY <3>1, <4>1, <4>2, ZenonT(60) DEF Trail
    <3> QED BY <3>2, <3>3, ZenonT(60)
  <2> QED BY <1>2, <2>1, <2>2, <2>3, ZenonT(60) DEF Trail
<1>4. StandsAt(w, q, c + 1, table, table_size)
  <2>1. w.read = R
    BY ZenonT(60) DEF Walk
  <2>2. V = {q[i] : i \in 1..(c + 1)}
    <3>1. ASSUME NEW y PROVE y \in V <=> y \in {q[i] : i \in 1..(c + 1)}
      <4>1. c + 1 \in 1..(c + 1) /\ \A i \in 1..c : i \in 1..(c + 1)
        OBVIOUS
      <4>2. \A i \in 1..(c + 1) : i = c + 1 \/ i \in 1..c
        OBVIOUS
      <4> QED BY <1>2, <4>1, <4>2, ZenonT(60)
    <3> QED BY <3>1, ZenonT(60)
  <2>3. s = SegmentsOf(q, c + 1, table)
    BY <1>2, SegmentsNext, ZenonT(60)
  <2> HIDE DEF s, V
  <2>4. w = Walk(q[(c + 1) + 1], {q[i] : i \in 1..(c + 1)}, SegmentsOf(q, c + 1, table), w.read,
                 "walking")
    BY <1>2, <2>1, <2>2, <2>3, ZenonT(60)
  <2> QED BY <2>1, <2>4, ZenonT(60) DEF StandsAt
<1> HIDE DEF w
<1>5. Standing(w, c + 1, table, table_size, head, expected)
  BY <1>2, <1>3, <1>4, ZenonT(60) DEF Standing
<1> QED BY <1>5, ZenonT(60) DEF w, s, V, next

(* One pass follows one more link or ends the walk.                        *)
LEMMA PassAdvances ==
  ASSUME RamTyped, NEW table \in Nat, NEW table_size \in 1..IndexMax, NEW head \in Nat,
         NEW allow_indirect \in BOOLEAN, NEW expected \in Seq(Direction),
         NEW c \in Nat, c < table_size, NEW w,
         Standing(w, c, table, table_size, head, expected)
  PROVE LET r == visit(w, table, table_size, allow_indirect, expected) IN
        \/ Settled(r, table, table_size, head, allow_indirect, expected)
        \/ Standing(r, c + 1, table, table_size, head, expected)
<1> DEFINE r == visit(w, table, table_size, allow_indirect, expected)
<1> SUFFICES \/ Settled(r, table, table_size, head, allow_indirect, expected)
             \/ Standing(r, c + 1, table, table_size, head, expected)
  OBVIOUS
<1>1. PICK p \in [1..(c + 1) -> 0..IndexMax] :
        Trail(p, c, table, table_size, head, expected) /\ StandsAt(w, p, c, table, table_size)
  BY ZenonT(60) DEF Standing
<1> DEFINE x == p[c + 1]
           V == {p[i] : i \in 1..c}
           s == SegmentsOf(p, c, table)
           R == w.read
           a == descriptor_address(table, x)
           d == ram[a]
           passes == Passes(x, c + 1, table, table_size, expected)
           last == expected # <<>> => c + 1 = Len(expected)
           more(code) == Walk(d.next, V \cup {x}, Append(s, Segment(d)), R \cup {a}, code)
           calls == IndirectHead(table, table_size, x, allow_indirect)
<1>2. w = Walk(x, V, s, R, "walking") /\ R \subseteq Span(table, table_size)
  BY <1>1, ZenonT(60) DEF StandsAt
<1>3. Len(s) = c
  BY DEF SegmentsOf
<1>4. x \in 0..IndexMax /\ table_size \in Nat \ {0}
  BY ChainAssumption
<1>5. \/ /\ Refused(r, table, table_size)
         /\ \/ ~passes \/ x \in V \/ add_overflows(LengthOf(s), d.length)
            \/ "NEXT" \notin d.flags /\ ~last
         /\ c # 0 \/ x \in V \/ ~calls
      \/ /\ r = Walk(x, V \cup {x}, s, R \cup {a}, "Indirect") /\ calls /\ c = 0
         /\ R \cup {a} \subseteq Span(table, table_size)
      \/ /\ r = more("walking") /\ passes /\ x \notin V /\ "NEXT" \in d.flags
         /\ R \cup {a} \subseteq Span(table, table_size)
      \/ /\ r = more("None") /\ passes /\ x \notin V /\ "NEXT" \notin d.flags /\ last
         /\ R \cup {a} \subseteq Span(table, table_size)
  <2> HIDE DEF x, V, s, R
  <2> DEFINE w2 == Walk(x, V, s, R, "walking")
  <2>1. Passed(visit(w2, table, table_size, allow_indirect, expected),
               Len(s), x, V, s, R, table, table_size, allow_indirect, expected)
    BY <1>2, <1>3, <1>4, VisitCases, ZenonT(60)
  <2>2. Passed(r, c, x, V, s, R, table, table_size, allow_indirect, expected)
    BY <1>2, <1>3, <2>1, ZenonT(60)
  <2> HIDE DEF r
  <2> QED BY <2>2, ZenonT(60) DEF Passed
<1>6. CASE Refused(r, table, table_size) /\ (\/ ~passes \/ x \in V
                                             \/ add_overflows(LengthOf(s), d.length)
                                             \/ "NEXT" \notin d.flags /\ ~last)
                                         /\ (c # 0 \/ x \in V \/ ~calls)
  <2> HIDE DEF r
  <2> QED BY <1>1, <1>6, RefusedSettles, ZenonT(60)
<1>7. CASE /\ r = Walk(x, V \cup {x}, s, R \cup {a}, "Indirect") /\ calls /\ c = 0
           /\ R \cup {a} \subseteq Span(table, table_size)
  <2> HIDE DEF r
  <2>1. Settled(Walk(x, V \cup {x}, s, R \cup {a}, "Indirect"), table, table_size, head,
                allow_indirect, expected)
    BY <1>1, <1>7, IndirectSettles, ZenonT(60)
  <2> QED BY <1>7, <2>1, ZenonT(60)
<1>8. CASE /\ r = more("walking") /\ passes /\ x \notin V /\ "NEXT" \in d.flags
           /\ R \cup {a} \subseteq Span(table, table_size)
  <2> HIDE DEF r
  <2>1. Standing(more("walking"), c + 1, table, table_size, head, expected)
    BY <1>1, <1>8, NextStands, ZenonT(60)
  <2> QED BY <1>8, <2>1, ZenonT(60)
<1>9. CASE /\ r = more("None") /\ passes /\ x \notin V /\ "NEXT" \notin d.flags /\ last
           /\ R \cup {a} \subseteq Span(table, table_size)
  <2> HIDE DEF r
  <2>1. Append(s, Segment(d)) = SegmentsOf(p, c + 1, table)
    BY SegmentsNext, ZenonT(60)
  <2>2. Settled(Walk(d.next, V \cup {x}, SegmentsOf(p, c + 1, table), R \cup {a}, "None"),
                table, table_size, head, allow_indirect, expected)
    BY <1>1, <1>9, EndSettles, ZenonT(60)
  <2>3. r = Walk(d.next, V \cup {x}, SegmentsOf(p, c + 1, table), R \cup {a}, "None")
    BY <1>9, <2>1, ZenonT(60)
  <2> QED BY <2>2, <2>3, ZenonT(60)
<1> HIDE DEF r, passes, last, x, V, s, R, a, d, calls
<1> QED BY <1>5, <1>6, <1>7, <1>8, <1>9, ZenonT(60)

-----------------------------------------------------------------------------
(* The loop.                                                               *)

Start(head) == Walk(head, {}, <<>>, {}, "walking")

(* What the loop does with the walk w in one pass.                         *)
Pass(w, table, table_size, allow_indirect, expected) ==
  IF w.code = "walking" THEN visit(w, table, table_size, allow_indirect, expected) ELSE w

(* f lists the walks after 0, 1, ... k passes.                             *)
Loops(f, k, table, table_size, head, allow_indirect, expected) ==
  f = [count \in 0..k |->
         IF count = 0 THEN Start(head)
         ELSE Pass(f[count - 1], table, table_size, allow_indirect, expected)]

(* The loop can make any number of passes.                                 *)
LEMMA LoopExists ==
  ASSUME NEW table, NEW table_size, NEW head, NEW allow_indirect, NEW expected
  PROVE \A k \in Nat : \E f : Loops(f, k, table, table_size, head, allow_indirect, expected)
<1> DEFINE Good(f, k) == Loops(f, k, table, table_size, head, allow_indirect, expected)
           Step(w) == Pass(w, table, table_size, allow_indirect, expected)
           S == {k \in Nat : \E f : Good(f, k)}
<1>1. 0 \in S
  <2>1. Good([count \in 0..0 |-> Start(head)], 0)
    BY DEF Loops
  <2> QED BY <2>1
<1>2. ASSUME NEW k \in Nat, k \in S PROVE k + 1 \in S
  <2>1. PICK f : Good(f, k)
    BY <1>2
  <2> DEFINE g == [n \in 0..(k + 1) |-> IF n = k + 1 THEN Step(f[k]) ELSE f[n]]
  <2> HIDE DEF Step
  <2>2. ASSUME NEW n \in 0..(k + 1)
        PROVE g[n] = IF n = 0 THEN Start(head) ELSE Step(g[n - 1])
    <3>1. CASE n = k + 1
      BY <3>1
    <3>2. CASE n # k + 1
      <4>1. n \in 0..k /\ g[n] = f[n] /\ (n # 0 => g[n - 1] = f[n - 1])
        BY <3>2
      <4>2. f[n] = IF n = 0 THEN Start(head) ELSE Step(f[n - 1])
        BY <2>1, <4>1, ZenonT(60) DEF Loops, Step
      <4> HIDE DEF g
      <4> QED BY <4>1, <4>2, ZenonT(60)
    <3> QED BY <3>1, <3>2, ZenonT(60)
  <2>3. Good(g, k + 1)
    <3>1. g = [n \in 0..(k + 1) |-> g[n]]
      OBVIOUS
    <3> HIDE DEF g
    <3> QED BY <2>2, <3>1, ZenonT(60) DEF Loops, Step
  <2> QED BY <2>3
<1> HIDE DEF S
<1>3. Nat \subseteq S
  BY <1>1, <1>2, Induction
<1> QED BY <1>3 DEF S

(* What parse_table makes of the walks f.                                  *)
Outcome(f, table_size, head) ==
  IF head >= table_size THEN failure(Start(head), "IndexOutOfRange")
  ELSE IF f[table_size].code = "walking" THEN failure(f[table_size], "ChainTooLong")
  ELSE f[table_size]

(* r is the outcome of the loop.                                           *)
Runs(r, table, table_size, head, allow_indirect, expected) ==
  \E f : /\ Loops(f, table_size, table, table_size, head, allow_indirect, expected)
         /\ r = Outcome(f, table_size, head)

(* walk is the outcome of the loop.                                       *)
LEMMA WalkRuns ==
  ASSUME NEW table \in Nat, NEW table_size \in Nat, NEW head \in Nat,
         NEW allow_indirect \in BOOLEAN, NEW expected \in Seq(Direction)
  PROVE Runs(walk(table, table_size, head, allow_indirect, expected),
             table, table_size, head, allow_indirect, expected)
<1>1. \E f : Loops(f, table_size, table, table_size, head, allow_indirect, expected)
  BY LoopExists, ZenonT(60)
<1> DEFINE start == [index |-> head, visited |-> {}, segments |-> <<>>,
                     read |-> {}, code |-> "walking"]
           f == CHOOSE h : h = [count \in 0..table_size |->
                  IF count = 0 THEN start
                  ELSE IF h[count - 1].code = "walking"
                       THEN visit(h[count - 1], table, table_size, allow_indirect, expected)
                       ELSE h[count - 1]]
<1>2. Start(head) = start
  BY ZenonT(60) DEF Start, Walk
<1>3. Loops(f, table_size, table, table_size, head, allow_indirect, expected)
  BY <1>1, <1>2, ZenonT(60) DEF Loops, Pass
<1>4. walk(table, table_size, head, allow_indirect, expected) =
        IF head >= table_size THEN failure(start, "IndexOutOfRange")
        ELSE IF f[table_size].code = "walking"
             THEN failure(f[table_size], "ChainTooLong") ELSE f[table_size]
  BY ZenonT(60) DEF walk
<1> HIDE DEF f, start
<1>5. walk(table, table_size, head, allow_indirect, expected) = Outcome(f, table_size, head)
  BY <1>2, <1>4, ZenonT(60) DEF Outcome
<1> QED BY <1>3, <1>5, ZenonT(60) DEF Runs

(* Before the first pass the walk stands at the head.                      *)
LEMMA StartStands ==
  ASSUME NEW table, NEW table_size, NEW head \in 0..IndexMax, NEW expected
  PROVE /\ Standing(Start(head), 0, table, table_size, head, expected)
        /\ Trail([i \in 1..(0 + 1) |-> head], 0, table, table_size, head, expected)
<1> DEFINE p == [i \in 1..(0 + 1) |-> head]
<1>1. p \in [1..(0 + 1) -> 0..IndexMax] /\ p[1] = head /\ p[0 + 1] = head
  OBVIOUS
<1>2. 1..0 = {}
  OBVIOUS
<1> HIDE DEF p
<1>3. Trail(p, 0, table, table_size, head, expected)
  BY <1>1, <1>2, ZenonT(60) DEF Trail
<1>4. StandsAt(Start(head), p, 0, table, table_size)
  <2>1. Start(head).read = {}
    BY DEF Start, Walk
  <2>2. {p[i] : i \in 1..0} = {}
    BY <1>2, ZenonT(60)
  <2>3. SegmentsOf(p, 0, table) = <<>>
    BY <1>2 DEF SegmentsOf
  <2>4. Start(head) = Walk(p[0 + 1], {p[i] : i \in 1..0}, SegmentsOf(p, 0, table), Start(head).read,
                           "walking")
    BY <1>1, <2>1, <2>2, <2>3, ZenonT(60) DEF Start
  <2> QED BY <2>1, <2>4, ZenonT(60) DEF StandsAt
<1> QED BY <1>1, <1>3, <1>4, ZenonT(60) DEF Standing, p

(* A walk that stands has the code "walking".                              *)
LEMMA StandingWalks ==
  ASSUME NEW w, NEW c, NEW table, NEW table_size, NEW head, NEW expected,
         Standing(w, c, table, table_size, head, expected)
  PROVE w.code = "walking"
<1>1. PICK p : StandsAt(w, p, c, table, table_size)
  BY ZenonT(60) DEF Standing
<1> DEFINE V == {p[i] : i \in 1..c}
           s == SegmentsOf(p, c, table)
           x == p[c + 1]
<1>2. w = Walk(x, V, s, w.read, "walking")
  BY <1>1, ZenonT(60) DEF StandsAt
<1> HIDE DEF x, V, s
<1> QED BY <1>2 DEF Walk

(* After every pass the walk has ended or followed one more link.          *)
LEMMA LoopAdvances ==
  ASSUME RamTyped, NEW table \in Nat, NEW table_size \in 1..IndexMax, NEW head \in 0..IndexMax,
         NEW allow_indirect \in BOOLEAN, NEW expected \in Seq(Direction), NEW f,
         Loops(f, table_size, table, table_size, head, allow_indirect, expected),
         NEW c \in Nat, c <= table_size
  PROVE \/ Settled(f[c], table, table_size, head, allow_indirect, expected)
        \/ Standing(f[c], c, table, table_size, head, expected)
<1> DEFINE ended(w) == Settled(w, table, table_size, head, allow_indirect, expected)
           stands(w, k) == Standing(w, k, table, table_size, head, expected)
           S == {k \in Nat : k <= table_size => ended(f[k]) \/ stands(f[k], k)}
<1>0. table_size \in Nat /\ head \in Nat
  BY ChainAssumption
<1>1. 0 \in S
  <2>1. f[0] = Start(head)
    BY <1>0 DEF Loops
  <2>2. stands(f[0], 0)
    BY <2>1, StartStands, ZenonT(60)
  <2> HIDE DEF ended, stands
  <2> QED BY <2>2
<1>2. ASSUME NEW k \in Nat, k \in S PROVE k + 1 \in S
  <2> SUFFICES ASSUME k + 1 <= table_size PROVE ended(f[k + 1]) \/ stands(f[k + 1], k + 1)
    <3> HIDE DEF ended, stands
    <3> QED OBVIOUS
  <2>1. k < table_size /\ k <= table_size /\ k + 1 \in 0..table_size /\ (k + 1) - 1 = k /\ k + 1 # 0
    BY <1>0
  <2>2. f[k + 1] = Pass(f[k], table, table_size, allow_indirect, expected)
    BY <2>1 DEF Loops
  <2>3. CASE ended(f[k])
    <3>1. f[k].code # "walking"
      BY <2>3, ZenonT(60) DEF Settled
    <3> QED BY <2>2, <2>3, <3>1, ZenonT(60) DEF Pass
  <2>4. CASE stands(f[k], k)
    <3>1. f[k].code = "walking"
      BY <2>4, StandingWalks, ZenonT(60)
    <3>2. f[k + 1] = visit(f[k], table, table_size, allow_indirect, expected)
      BY <2>2, <3>1, ZenonT(60) DEF Pass
    <3>3. \/ ended(visit(f[k], table, table_size, allow_indirect, expected))
          \/ stands(visit(f[k], table, table_size, allow_indirect, expected), k + 1)
      BY <1>0, <2>1, <2>4, PassAdvances, ZenonT(60)
    <3> QED BY <3>2, <3>3, ZenonT(60)
  <2> HIDE DEF ended, stands
  <2> QED BY <1>2, <2>1, <2>3, <2>4, ZenonT(60)
<1> HIDE DEF S
<1>3. c \in S
  BY <1>1, <1>2, Induction, ZenonT(60)
<1> HIDE DEF ended, stands
<1>4. ended(f[c]) \/ stands(f[c], c)
  BY <1>3 DEF S
<1> QED BY <1>4 DEF ended, stands

(* The whole loop: it ends the one chain there is, calls for an indirect   *)
(* table, or refuses a head from which no chain starts.                    *)
LEMMA WalkSettles ==
  ASSUME RamTyped, NEW table \in Nat, NEW table_size \in 1..IndexMax, NEW head \in 0..IndexMax,
         NEW allow_indirect \in BOOLEAN, NEW expected \in Seq(Direction)
  PROVE Settled(walk(table, table_size, head, allow_indirect, expected),
                table, table_size, head, allow_indirect, expected)
<1> DEFINE r == walk(table, table_size, head, allow_indirect, expected)
           found == Found(table, table_size, head, expected)
           ended(w) == Settled(w, table, table_size, head, allow_indirect, expected)
           calls == IndirectHead(table, table_size, head, allow_indirect)
<1>1. table_size \in Nat /\ table_size \in Nat \ {0} /\ head \in Nat
  BY ChainAssumption
<1>2. PICK f : /\ Loops(f, table_size, table, table_size, head, allow_indirect, expected)
               /\ r = Outcome(f, table_size, head)
  <2>1. Runs(r, table, table_size, head, allow_indirect, expected)
    BY <1>1, WalkRuns, ZenonT(60)
  <2> QED BY <2>1, ZenonT(60) DEF Runs
<1> DEFINE last == f[table_size]
<1>3. ended(last) \/ Standing(last, table_size, table, table_size, head, expected)
  <2>1. table_size <= table_size
    BY <1>1
  <2> QED BY <1>1, <1>2, <2>1, LoopAdvances, ZenonT(60)
<1>4. ASSUME NEW w, Refused(w, table, table_size), found = {}, ~calls PROVE ended(w)
  <2>1. w.code # "Indirect" /\ w.code # "walking" /\ w.code # "None"
    BY <1>4 DEF Refused
  <2> QED BY <1>4, <2>1, ZenonT(60) DEF Settled, Refused
<1>5. CASE head >= table_size
  <2> DEFINE p == [i \in 1..(0 + 1) |-> head]
  <2>1. p \in [1..(0 + 1) -> 0..IndexMax] /\ p[0 + 1] = head /\ 0 \in Nat
    OBVIOUS
  <2>2. Trail(p, 0, table, table_size, head, expected)
    BY StartStands, ZenonT(60)
  <2>3. head \notin 0..(table_size - 1) /\ ~(head < table_size)
    BY <1>1, <1>5
  <2> HIDE DEF p
  <2>4. ~Passes(p[0 + 1], 0 + 1, table, table_size, expected)
    BY <2>1, <2>3, ZenonT(60) DEF Passes
  <2>5. found = {}
    BY <1>1, <2>1, <2>2, <2>4, NoChain, ZenonT(60)
  <2>6. {} \subseteq Span(table, table_size)
    BY ZenonT(60)
  <2>7. Refused(failure(Walk(head, {}, <<>>, {}, "walking"), "IndexOutOfRange"), table, table_size)
    BY <2>6, FailureRefuses, ZenonT(60)
  <2>8. Refused(r, table, table_size)
    BY <1>2, <1>5, <2>7, ZenonT(60) DEF Start, Outcome
  <2>9. ~calls
    BY <2>3, ZenonT(60) DEF IndirectHead
  <2> HIDE DEF r, found, calls, ended
  <2>10. ended(r)
    BY <1>4, <2>5, <2>8, <2>9, ZenonT(60)
  <2> QED BY <2>10 DEF ended, r
<1>6. CASE ~(head >= table_size) /\ last.code = "walking"
  <2>1. ~ended(last)
    BY <1>6, ZenonT(60) DEF Settled
  <2>2. Standing(last, table_size, table, table_size, head, expected)
    BY <1>3, <2>1, ZenonT(60)
  <2>3. PICK p \in [1..(table_size + 1) -> 0..IndexMax] :
          /\ Trail(p, table_size, table, table_size, head, expected)
          /\ StandsAt(last, p, table_size, table, table_size)
    BY <2>2, ZenonT(60) DEF Standing
  <2>4. table_size >= table_size /\ table_size # 0
    BY <1>1
  <2>5. found = {}
    BY <1>1, <2>3, <2>4, NoChain, ZenonT(60)
  <2>6. ~calls
    BY <1>1, <2>3, <2>4, DirectHead, ZenonT(60)
  <2> DEFINE V == {p[i] : i \in 1..table_size}
             s == SegmentsOf(p, table_size, table)
             x == p[table_size + 1]
  <2>7. last = Walk(x, V, s, last.read, "walking") /\ last.read \subseteq Span(table, table_size)
    BY <2>3, ZenonT(60) DEF StandsAt
  <2> HIDE DEF V, s, x, last
  <2>8. Refused(failure(Walk(x, V, s, last.read, "walking"), "ChainTooLong"), table, table_size)
    BY <2>7, FailureRefuses, ZenonT(60)
  <2>9. r = failure(last, "ChainTooLong")
    BY <1>2, <1>6, ZenonT(60) DEF last, Outcome
  <2>10. Refused(r, table, table_size)
    BY <2>7, <2>8, <2>9, ZenonT(60)
  <2> HIDE DEF r, found, calls, ended
  <2>11. ended(r)
    BY <1>4, <2>5, <2>6, <2>10, ZenonT(60)
  <2> QED BY <2>11 DEF ended, r
<1>7. CASE ~(head >= table_size) /\ last.code # "walking"
  <2>1. r = last
    BY <1>2, <1>7, ZenonT(60) DEF Outcome
  <2>2. ~Standing(last, table_size, table, table_size, head, expected)
    BY <1>7, StandingWalks, ZenonT(60)
  <2> HIDE DEF r, last
  <2> QED BY <1>3, <2>1, <2>2, ZenonT(60) DEF r
<1> HIDE DEF last, r, ended
<1> QED BY <1>5, <1>6, <1>7, ZenonT(60)

-----------------------------------------------------------------------------
(* Requests.                                                               *)

(* The result of parsing agrees with the request that the table spells.    *)
Answers(result, request) ==
  /\ result.code = "None" => request.found = {result.segments}
  /\ result.code # "None" => request.found = {} /\ result.segments = <<>>
  /\ result.read \subseteq TableSlots \cup request.reads

(* A walk that ends without calling for an indirect table does so.         *)
LEMMA WalkAnswers ==
  ASSUME NEW w, NEW table, NEW table_size, NEW head, NEW allow_indirect, NEW expected,
         Settled(w, table, table_size, head, allow_indirect, expected), w.code # "Indirect"
  PROVE Answers(w, Chain(table, table_size, head, expected))
<1> DEFINE request == Chain(table, table_size, head, expected)
<1>1. request.reads = Span(table, table_size)
  BY ZenonT(60) DEF Chain
<1>2. w.code \in {"None", "Indirect"} => w.code = "None"
  OBVIOUS
<1>3. /\ w.read \subseteq Span(table, table_size)
      /\ w.code = "None" => request.found = {w.segments}
      /\ w.code # "None" => request.found = {}
      /\ w.code # "None" => w.segments = <<>>
  BY <1>2, ZenonT(60) DEF Settled, Found
<1> HIDE DEF request
<1>4. w.read \subseteq TableSlots \cup request.reads
  BY <1>1, <1>3, ZenonT(60)
<1>5. Answers(w, request)
  BY <1>3, <1>4, ZenonT(60) DEF Answers
<1> QED BY <1>5 DEF request

(* The device finds the chain of a request, in the queue's table or in the *)
(* indirect table its head names, exactly when there is one.               *)
LEMMA ParseSound ==
  ASSUME RamTyped, NEW head \in 0..IndexMax, NEW indirect_enabled \in BOOLEAN,
         NEW expected \in Seq(Direction)
  PROVE Answers(parse_descriptor_chain(TRUE, head, indirect_enabled, expected),
                RequestAt(head, indirect_enabled, expected))
<1> DEFINE a == descriptor_address(TableAddress, head)
           d == ram[a]
           count == d.length \div kDescriptorSize
           w == walk(TableAddress, TableSize, head, indirect_enabled, expected)
           result == parse_descriptor_chain(TRUE, head, indirect_enabled, expected)
           request == RequestAt(head, indirect_enabled, expected)
           direct == Chain(TableAddress, TableSize, head, expected)
           other == Chain(d.address, count, 0, expected)
           calls == IndirectHead(TableAddress, TableSize, head, indirect_enabled)
           proper == /\ d.flags = {"INDIRECT"} /\ d.length > 0
                     /\ d.length % kDescriptorSize = 0 /\ count <= IndexMax
<1>1. Settled(w, TableAddress, TableSize, head, indirect_enabled, expected)
  BY ChainAssumption, WalkSettles, ZenonT(60)
<1>2. head < TableSize => a \in DOMAIN ram
  <2>1. ASSUME head < TableSize PROVE head \in 0..(TableSize - 1)
    BY <2>1, ChainAssumption
  <2> QED BY <2>1, ZenonT(60) DEF RamTyped, TableSlots
<1>3. (calls /\ proper => request = other) /\ (~(calls /\ proper) => request = direct)
  <2>1. RequestAt(head, indirect_enabled, expected)
          = IF indirect_enabled /\ head < TableSize /\ proper THEN other ELSE direct
    BY ZenonT(60) DEF RequestAt
  <2>2. calls <=> indirect_enabled /\ head < TableSize /\ a \in DOMAIN ram /\ "INDIRECT" \in d.flags
    BY ZenonT(60) DEF IndirectHead
  <2>3. proper => "INDIRECT" \in d.flags
    BY ZenonT(60)
  <2> HIDE DEF proper, calls, other, direct, a, d
  <2> QED BY <1>2, <2>1, <2>2, <2>3, ZenonT(60)
<1>4. CASE ~calls
  <2>1. w.code # "Indirect"
    BY <1>1, <1>4, ZenonT(60) DEF Settled
  <2>2. result = w
    BY <2>1, ZenonT(60) DEF parse_descriptor_chain, parse_table
  <2>3. Answers(w, direct)
    BY <1>1, <2>1, WalkAnswers, ZenonT(60)
  <2>4. request = direct
    BY <1>3, <1>4, ZenonT(60)
  <2> HIDE DEF w, direct, result, request
  <2>5. Answers(result, request)
    BY <2>2, <2>3, <2>4, ZenonT(60)
  <2> QED BY <2>5, ZenonT(60) DEF result, request
<1>5. CASE calls
  <2>1. w.code = "Indirect" /\ Found(TableAddress, TableSize, head, expected) = {}
    <3>1. w.code = "Indirect"
      BY <1>1, <1>5, ZenonT(60) DEF Settled
    <3>2. w.code # "None"
      BY <3>1
    <3> QED BY <1>1, <3>1, <3>2, ZenonT(60) DEF Settled
  <2>2. PICK V, s : w = Walk(head, V, s, w.read, "Indirect")
    BY <1>1, <2>1, ZenonT(60) DEF Settled
  <2>3. w.index = head
    <3> HIDE DEF w
    <3> QED BY <2>2 DEF Walk
  <2>4. result = parse_indirect_descriptor(w, d, expected)
    BY <2>1, <2>3, ZenonT(60) DEF parse_descriptor_chain, parse_table, read_raw_descriptor
  <2>5. a \in DOMAIN ram /\ "INDIRECT" \in d.flags
    BY <1>5, ZenonT(60) DEF IndirectHead
  <2>6. d \in Descriptor
    BY <2>5, ZenonT(60) DEF RamTyped
  <2>7. /\ d.flags \subseteq Flag /\ d.length \in Nat /\ d.address \in Nat /\ count \in Nat
        /\ kDescriptorSize \in Nat \ {0}
    <3>1. d.flags \subseteq Flag /\ d.length \in Nat /\ d.address \in Nat
      <4> HIDE DEF d
      <4> QED BY <2>6, ChainAssumption DEF Descriptor
    <3>2. kDescriptorSize \in Nat \ {0}
      BY ChainAssumption
    <3> HIDE DEF d
    <3> QED BY <3>1, <3>2, Euclid, ZenonT(60)
  <2> HIDE DEF d
  <2>8. CASE proper
    <3>1. count \in 1..IndexMax
      <4>1. d.length = kDescriptorSize * count + (d.length % kDescriptorSize)
        BY <2>7, Euclid, ZenonT(60)
      <4> HIDE DEF count
      <4>2. count # 0
        <5> SUFFICES ASSUME count = 0 PROVE FALSE
          OBVIOUS
        <5>1. kDescriptorSize * count = 0
          BY <2>7
        <5>2. d.length = 0
          BY <2>7, <2>8, <4>1, <5>1
        <5> QED BY <2>8, <5>2
      <4> QED BY <2>7, <2>8, <4>2, ChainAssumption
    <3>2. ~("WRITE" \in d.flags \/ "NEXT" \in d.flags \/ d.length = 0
            \/ d.length % kDescriptorSize # 0) /\ ~(count > IndexMax)
      <4>1. "WRITE" \notin d.flags /\ "NEXT" \notin d.flags
        BY <2>8
      <4>2. d.length # 0 /\ d.length % kDescriptorSize = 0
        BY <2>7, <2>8
      <4> HIDE DEF count
      <4>3. ~(count > IndexMax)
        BY <3>1, ChainAssumption
      <4> QED BY <4>1, <4>2, <4>3, ZenonT(60)
    <3>3. result = walk(d.address, count, 0, FALSE, expected)
      BY <2>4, <3>2, ZenonT(60) DEF parse_indirect_descriptor
    <3> HIDE DEF count
    <3> DEFINE v == walk(d.address, count, 0, FALSE, expected)
    <3>4. Settled(v, d.address, count, 0, FALSE, expected)
      <4>1. 0 \in 0..IndexMax
        BY ChainAssumption
      <4> QED BY <2>7, <3>1, <4>1, WalkSettles, ZenonT(60)
    <3>5. v.code # "Indirect"
      BY <3>4, ZenonT(60) DEF Settled, IndirectHead
    <3>6. Answers(v, other)
      BY <3>4, <3>5, WalkAnswers, ZenonT(60)
    <3>7. request = other
      BY <1>3, <1>5, <2>8, ZenonT(60)
    <3> HIDE DEF v, other, result, request
    <3>8. Answers(result, request)
      BY <3>3, <3>6, <3>7, ZenonT(60) DEF v
    <3> QED BY <3>8, ZenonT(60) DEF result, request
  <2>9. CASE ~proper
    <3>1. \/ "WRITE" \in d.flags \/ "NEXT" \in d.flags \/ d.length = 0
          \/ d.length % kDescriptorSize # 0
          \/ count > IndexMax
      <4> SUFFICES ASSUME "WRITE" \notin d.flags, "NEXT" \notin d.flags
                   PROVE d.length = 0 \/ d.length % kDescriptorSize # 0 \/ count > IndexMax
        BY ZenonT(60)
      <4>1. d.flags = {"INDIRECT"}
        BY <2>5, <2>7 DEF Flag
      <4>2. count > IndexMax \/ count <= IndexMax
        <5> HIDE DEF count
        <5> QED BY <2>7, ChainAssumption
      <4>3. d.length = 0 \/ d.length > 0
        BY <2>7
      <4> QED BY <2>9, <4>1, <4>2, <4>3, ZenonT(60)
    <3>2. \/ result = failure(w, "IndirectUnsupported")
          \/ result = failure(w, "ChainTooLong")
      BY <2>4, <3>1, ZenonT(60) DEF parse_indirect_descriptor
    <3>3. w.read \subseteq Span(TableAddress, TableSize)
      BY <1>1, ZenonT(60) DEF Settled
    <3> HIDE DEF w
    <3>4. Refused(result, TableAddress, TableSize)
      <4> DEFINE u == Walk(head, V, s, w.read, "Indirect")
      <4>1. /\ Refused(failure(u, "IndirectUnsupported"), TableAddress, TableSize)
            /\ Refused(failure(u, "ChainTooLong"), TableAddress, TableSize)
        BY <3>3, FailureRefuses, ZenonT(60)
      <4> HIDE DEF u
      <4>2. w = u
        BY <2>2, ZenonT(60) DEF u
      <4> QED BY <3>2, <4>1, <4>2, ZenonT(60)
    <3>5. request = direct
      BY <1>3, <2>9, ZenonT(60)
    <3>6. direct.found = {} /\ TableSlots = Span(TableAddress, TableSize)
      BY <2>1, ZenonT(60) DEF Found, TableSlots, Span
    <3>7. result.code # "None" /\ result.segments = <<>> /\ result.read \subseteq TableSlots
      <4> HIDE DEF result
      <4>1. result.code # "None"
        BY <3>4, ZenonT(60) DEF Refused
      <4> QED BY <3>4, <3>6, <4>1, ZenonT(60) DEF Refused
    <3> HIDE DEF result, request, direct
    <3>8. Answers(result, request)
      BY <3>5, <3>6, <3>7, ZenonT(60) DEF Answers
    <3> QED BY <3>8, ZenonT(60) DEF result, request
  <2> QED BY <2>8, <2>9, ZenonT(60)
<1> HIDE DEF result, request, calls
<1> QED BY <1>4, <1>5, ZenonT(60)

-----------------------------------------------------------------------------
(* Used-buffer notifications.                                              *)

(* The event-index test is exact across the wrap of the used index.        *)
LEMMA EventExact ==
  ASSUME NEW i \in 0..IndexMax, NEW event \in 0..IndexMax
  PROVE driver_notification_needed((i + 1) % (IndexMax + 1), TRUE, FALSE, event) = (event = i)
<1> DEFINE n == IndexMax + 1
           used == (i + 1) % n
           old == (used + IndexMax) % n
           passed == (used - event + IndexMax) % n
<1>1. n \in Nat \ {0} /\ IndexMax \in Nat /\ IndexMax >= 1 /\ n = IndexMax + 1
  BY ChainAssumption
<1>2. driver_notification_needed(used, TRUE, FALSE, event) = (passed < (used - old) % n)
  BY DEF driver_notification_needed, virtqueue_event_needed
<1> HIDE DEF n
<1>3. used = IF i = IndexMax THEN 0 ELSE i + 1
  <2>1. CASE i = IndexMax
    <3>1. i + 1 = n * 1 + 0 /\ 0 \in 0..(n - 1)
      BY <1>1, <2>1
    <3> QED BY <1>1, <2>1, <3>1, RemainderIs
  <2>2. CASE i # IndexMax
    <3>1. i + 1 = n * 0 + (i + 1) /\ i + 1 \in 0..(n - 1)
      BY <1>1, <2>2
    <3> QED BY <1>1, <2>2, <3>1, RemainderIs
  <2> QED BY <2>1, <2>2
<1>4. old = i
  <2>1. CASE i = IndexMax
    <3>1. used + IndexMax = n * 0 + i /\ i \in 0..(n - 1)
      BY <1>1, <1>3, <2>1
    <3> QED BY <1>1, <3>1, RemainderIs
  <2>2. CASE i # IndexMax
    <3>1. used + IndexMax = n * 1 + i /\ i \in 0..(n - 1)
      BY <1>1, <1>3, <2>2
    <3> QED BY <1>1, <3>1, RemainderIs
  <2> QED BY <2>1, <2>2
<1> HIDE DEF used, old
<1>5. (used - old) % n = 1
  <2>1. CASE i = IndexMax
    <3>1. used - old = n * (-1) + 1 /\ 1 \in 0..(n - 1)
      BY <1>1, <1>3, <1>4, <2>1
    <3> QED BY <1>1, <3>1, RemainderIs
  <2>2. CASE i # IndexMax
    <3>1. used - old = n * 0 + 1 /\ 1 \in 0..(n - 1)
      BY <1>1, <1>3, <1>4, <2>2
    <3> QED BY <1>1, <3>1, RemainderIs
  <2> QED BY <2>1, <2>2
<1>6. passed \in Nat /\ (passed = 0 <=> event = i)
  <2> DEFINE gap == used - event + IndexMax
  <2>1. gap \in 0..(n + n - 2) /\ (gap = 0 \/ gap = n <=> event = i)
    BY <1>1, <1>3
  <2> HIDE DEF gap
  <2>2. CASE gap < n
    <3>1. gap = n * 0 + gap /\ gap \in 0..(n - 1)
      BY <1>1, <2>1, <2>2
    <3>2. gap % n = gap
      BY <1>1, <3>1, RemainderIs
    <3> QED BY <1>1, <2>1, <2>2, <3>2 DEF gap
  <2>3. CASE gap >= n
    <3>1. gap = n * 1 + (gap - n) /\ gap - n \in 0..(n - 1)
      BY <1>1, <2>1, <2>3
    <3>2. gap % n = gap - n
      BY <1>1, <3>1, RemainderIs
    <3> QED BY <1>1, <2>1, <2>3, <3>2 DEF gap
  <2> QED BY <1>1, <2>1, <2>2, <2>3
<1> HIDE DEF passed
<1>7. (passed < 1) <=> (event = i)
  BY <1>6
<1>8. driver_notification_needed(used, TRUE, FALSE, event) = (event = i)
  <2>1. driver_notification_needed(used, TRUE, FALSE, event) = (passed < 1)
    BY <1>2, <1>5, ZenonT(60)
  <2>2. (passed < 1) = (event = i)
    BY <1>7
  <2> QED BY <2>1, <2>2, ZenonT(60)
<1> QED BY <1>8, ZenonT(60) DEF used, n

-----------------------------------------------------------------------------
(* The theorem.                                                            *)

(* In any RAM the parser and the event-index test are right.               *)
LEMMA SoundInRam == RamTyped => ChainSound
<1> SUFFICES ASSUME RamTyped PROVE ChainSound
  OBVIOUS
<1>1. ASSUME NEW head \in 0..IndexMax, NEW indirect_enabled \in BOOLEAN,
             NEW expected \in Expectation
      PROVE Answers(parse_descriptor_chain(TRUE, head, indirect_enabled, expected),
                    RequestAt(head, indirect_enabled, expected))
  <2>1. expected \in Seq(Direction)
    BY ChainAssumption, ZenonT(60) DEF Direction
  <2> QED BY <2>1, ParseSound, ZenonT(60)
<1> QED BY <1>1, EventExact, ZenonT(60) DEF ChainSound, Answers

(* Guest RAM holds descriptors in every state.                             *)
THEOREM TransportRamTyped == TransportSpec => []RamTyped
<1>1. TransportInit => RamTyped
  BY RamStart, ZenonT(60) DEF TransportInit
<1>2. RamTyped /\ [RegisterStep \/ DescriptorStep]_transportVars => RamTyped'
  <2> SUFFICES ASSUME RamTyped, [RegisterStep \/ DescriptorStep]_transportVars PROVE RamTyped'
    OBVIOUS
  <2>1. CASE RegisterStep
    BY <2>1, RamSame, ZenonT(60) DEF RegisterStep
  <2>2. CASE DescriptorStep
    BY <2>2, RamKept, ZenonT(60) DEF DescriptorStep
  <2>3. CASE UNCHANGED transportVars
    BY <2>3, RamSame, ZenonT(60) DEF transportVars
  <2> QED BY <2>1, <2>2, <2>3, ZenonT(60)
<1> QED BY <1>1, <1>2, PTL DEF TransportSpec

(* For any table and any descriptors the driver writes into guest RAM,     *)
(* direct or indirect, parse_descriptor_chain finds the chain that starts  *)
(* at a head exactly when there is one, returns its segments, none when it *)
(* fails, and reads only the table it walks; the event-index test holds    *)
(* across the wrap of the index.                                           *)
THEOREM TransportDescriptorsSound == TransportSpec => []DescriptorsSound
<1>1. RamTyped => DescriptorsSound
  BY SoundInRam, ZenonT(60) DEF DescriptorsSound
<1> QED BY <1>1, TransportRamTyped, PTL

=============================================================================
