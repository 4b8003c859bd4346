---------------------------- MODULE GuestProofs -----------------------------
(***************************************************************************)
(* What a guest program meets: the runner that loads it and judges it, and *)
(* the traps it takes.                                                     *)
(*                                                                         *)
(* The conformance runner, for any ELF images and a guest that writes      *)
(* tohost through the macros of the tests.  The loops that write a segment *)
(* in bus writes of decreasing width and write the segments one over the   *)
(* other are shown to compute what their closed forms say, by induction    *)
(* over their iterations; RunnerInv then follows the word at tohost        *)
(* through the two stores of a macro and the polls between them.           *)
(*                                                                         *)
(* The trap machinery, for any set of interrupts, exceptions and mstatus   *)
(* values and any address space.  TrapInv is inductive.  Its conjuncts     *)
(* lean on one another: FrameKept at an S trap needs that no trap goes     *)
(* from M to S (SPP has one bit), at any trap that the program counter is  *)
(* even (epc drops bit 0), and MprvOnlyInMachine at an S trap that the     *)
(* hart was below M.                                                       *)
(***************************************************************************)
EXTENDS Trap, Conformance, WellFoundedInduction, SequenceTheorems, TLAPS

(* Time limits for the provers.                                            *)
USE SMTT(60), ZenonT(60)

-----------------------------------------------------------------------------
(* Induction, from the well-foundedness of <, and loops written as         *)
(* recursive functions.                                                    *)

(* The order of the natural numbers, as a relation.                        *)
Less == {p \in Nat \X Nat : p[1] < p[2]}

(* A non-empty set of natural numbers has a least member.                  *)
LEMMA LeastMember ==
  ASSUME NEW Set, Set \subseteq Nat, Set # {}
  PROVE \E m \in Set : \A n \in Set : m <= n
<1>1. IsWellFoundedOn(Less, Nat)
  BY NatLessThanWellFounded DEF OpToRel, Less
<1>2. PICK m \in Set : \A n \in Set : <<n, m>> \notin Less
  BY <1>1, WFMin, ZenonT(60)
<1>3. \A n \in Set : ~(n < m)
  BY <1>2, ZenonT(60) DEF Less
<1> QED BY <1>3

(* Induction over a set of natural numbers.                                *)
LEMMA Induction ==
  ASSUME NEW Set, 0 \in Set, \A n \in Nat : n \in Set => n + 1 \in Set
  PROVE Nat \subseteq Set
<1> SUFFICES ASSUME Nat \ Set # {} PROVE FALSE
  OBVIOUS
<1>1. PICK m \in Nat \ Set : \A n \in Nat \ Set : m <= n
  BY LeastMember, ZenonT(60)
<1>2. m # 0 /\ m - 1 \in Nat /\ ~(m <= m - 1) /\ (m - 1) + 1 = m
  OBVIOUS
<1>3. m - 1 \in Set
  BY <1>1, <1>2
<1> QED BY <1>2, <1>3

(* f starts at base and applies F[n] in iteration n.                       *)
Iterates(f, k, base, F) == \A n \in 0..k : f[n] = IF n = 0 THEN base ELSE F[n][f[n - 1]]

(* A loop of k iterations over values in V can be run.                     *)
LEMMA LoopRuns ==
  ASSUME NEW V, NEW base \in V, NEW k \in Nat, NEW F \in [1..k -> [V -> V]]
  PROVE \E f \in [0..k -> V] : Iterates(f, k, base, F)
<1> DEFINE Set == {j \in Nat : j <= k => \E f \in [0..j -> V] : Iterates(f, j, base, F)}
<1>1. 0 \in Set
  <2> DEFINE g == [n \in 0..0 |-> base]
  <2>1. g \in [0..0 -> V] /\ Iterates(g, 0, base, F)
    BY DEF Iterates
  <2> QED BY <2>1
<1>2. ASSUME NEW j \in Nat, j \in Set PROVE j + 1 \in Set
  <2> SUFFICES ASSUME j + 1 <= k PROVE \E f \in [0..j + 1 -> V] : Iterates(f, j + 1, base, F)
    OBVIOUS
  <2>1. PICK f \in [0..j -> V] : Iterates(f, j, base, F)
    BY <1>2
  <2> DEFINE g == [n \in 0..j + 1 |-> IF n = j + 1 THEN F[n][f[j]] ELSE f[n]]
  <2>2. f[j] \in V /\ F[j + 1] \in [V -> V]
    BY <2>1
  <2>3. F[j + 1][f[j]] \in V
    BY <2>2
  <2>4. g \in [0..j + 1 -> V]
    BY <2>1, <2>3
  <2>5. ASSUME NEW n \in 0..j + 1 PROVE g[n] = IF n = 0 THEN base ELSE F[n][g[n - 1]]
    <3>1. CASE n = j + 1
      BY <3>1
    <3>2. CASE n # j + 1
      <4>1. n \in 0..j /\ g[n] = f[n] /\ (n # 0 => g[n - 1] = f[n - 1])
        BY <3>2
      <4>2. f[n] = IF n = 0 THEN base ELSE F[n][f[n - 1]]
        BY <2>1, <4>1 DEF Iterates
      <4> HIDE DEF g
      <4> QED BY <4>1, <4>2
    <3> QED BY <3>1, <3>2, ZenonT(60)
  <2> HIDE DEF g
  <2> QED BY <2>4, <2>5 DEF Iterates
<1> HIDE DEF Set
<1>3. k \in Set
  BY <1>1, <1>2, Induction
<1> QED BY <1>3 DEF Set

-----------------------------------------------------------------------------
(* The bus writes of a segment.                                            *)

(* The width of a write is positive and at most what remains.              *)
LEMMA WidthFits ==
  ASSUME NEW remaining \in Nat \ {0}
  PROVE best_width(remaining) \in 1..remaining
BY DEF best_width

(* f[n] bytes of s are complete after n writes.                            *)
Completes(s, f) ==
  f = [n \in 0..s.memory_size |->
         IF n = 0 THEN 0
         ELSE LET c == f[n - 1] IN
              IF c = s.memory_size THEN c ELSE c + best_width(s.memory_size - c)]

(* The loop of write_segment runs, and starts a write where f says.        *)
LEMMA WritesRun ==
  ASSUME NEW s, s.memory_size \in Nat
  PROVE \E f : Completes(s, f)
    /\ WriteOffsets(s) = {f[n] : n \in 0..s.memory_size} \ {s.memory_size}
<1> DEFINE size == s.memory_size
           V == 0..size
           G == [c \in V |-> IF c = size THEN c ELSE c + best_width(size - c)]
           F == [n \in 1..size |-> G]
<1>1. G \in [V -> V]
  <2>1. ASSUME NEW c \in V PROVE (IF c = size THEN c ELSE c + best_width(size - c)) \in V
    <3>1. CASE c = size
      BY <3>1
    <3>2. CASE c # size
      <4>1. size - c \in Nat \ {0}
        BY <3>2
      <4>2. best_width(size - c) \in 1..(size - c)
        BY <4>1, WidthFits
      <4> QED BY <3>2, <4>2
    <3> QED BY <3>1, <3>2
  <2> QED BY <2>1
<1>2. F \in [1..size -> [V -> V]]
  BY <1>1
<1>3. PICK f \in [0..size -> V] : Iterates(f, size, 0, F)
  <2>1. 0 \in V
    OBVIOUS
  <2> HIDE DEF F, V
  <2> QED BY <1>2, <2>1, LoopRuns, ZenonT(60)
<1>4. ASSUME NEW n \in 0..size, n # 0
      PROVE F[n][f[n - 1]] = IF f[n - 1] = size THEN f[n - 1]
        ELSE f[n - 1] + best_width(size - f[n - 1])
  <2>1. n \in 1..size /\ n - 1 \in 0..size
    BY <1>4
  <2>2. F[n] = G
    BY <2>1
  <2>3. f[n - 1] \in V
    BY <1>3, <2>1, ZenonT(60)
  <2> QED BY <2>2, <2>3
<1>5. Completes(s, f)
  BY <1>3, <1>4, ZenonT(60) DEF Completes, Iterates
<1>6. \E g : g = [n \in 0..s.memory_size |->
                    IF n = 0 THEN 0
                    ELSE LET c == g[n - 1] IN
                         IF c = s.memory_size THEN c ELSE c + best_width(s.memory_size - c)]
  BY <1>5, ZenonT(60) DEF Completes
<1> QED BY <1>6, ZenonT(60) DEF WriteOffsets, Completes
(* Each write starts where the one before it ended, and after as many      *)
(* writes as there are bytes the segment is complete.                      *)
LEMMA WritesAdvance ==
  ASSUME NEW s, s.memory_size \in Nat, NEW f, Completes(s, f)
  PROVE \A n \in 0..s.memory_size :
          f[n] \in 0..s.memory_size /\ (f[n] = s.memory_size \/ f[n] >= n)
<1> DEFINE size == s.memory_size
           Set == {n \in Nat : n <= size => f[n] \in 0..size /\ (f[n] = size \/ f[n] >= n)}
<1>1. 0 \in Set
  BY DEF Completes
<1>2. ASSUME NEW n \in Nat, n \in Set PROVE n + 1 \in Set
  <2> SUFFICES ASSUME n + 1 <= size
               PROVE f[n + 1] \in 0..size /\ (f[n + 1] = size \/ f[n + 1] >= n + 1)
    OBVIOUS
  <2>1. f[n] \in 0..size /\ (f[n] = size \/ f[n] >= n)
    BY <1>2
  <2>2. f[n + 1] = IF f[n] = size THEN f[n] ELSE f[n] + best_width(size - f[n])
    <3>1. n + 1 \in 0..size /\ n + 1 # 0 /\ (n + 1) - 1 = n
      OBVIOUS
    <3> QED BY <3>1 DEF Completes
  <2>3. CASE f[n] = size
    BY <2>1, <2>2, <2>3
  <2>4. CASE f[n] # size
    <3>1. size - f[n] \in Nat \ {0}
      BY <2>1, <2>4
    <3>2. best_width(size - f[n]) \in 1..(size - f[n])
      BY <3>1, WidthFits
    <3> QED BY <2>1, <2>2, <2>4, <3>2
  <2> QED BY <2>3, <2>4
<1> HIDE DEF Set
<1>3. Nat \subseteq Set
  BY <1>1, <1>2, Induction
<1> QED BY <1>3 DEF Set

(* The writes of a segment cover each of its bytes and no other.           *)
LEMMA WritesCover ==
  ASSUME NEW s, s.memory_size \in Nat
  PROVE UNION {c..(c + best_width(s.memory_size - c) - 1) : c \in WriteOffsets(s)}
          = 0..(s.memory_size - 1)
<1> DEFINE size == s.memory_size
           W(c) == c..(c + best_width(size - c) - 1)
<1>1. PICK f : Completes(s, f) /\ WriteOffsets(s) = {f[n] : n \in 0..size} \ {size}
  BY WritesRun
<1>2. \A n \in 0..size : f[n] \in 0..size /\ (f[n] = size \/ f[n] >= n)
  BY <1>1, WritesAdvance
<1>3. ASSUME NEW c \in WriteOffsets(s) PROVE W(c) \subseteq 0..(size - 1)
  <2>1. c \in 0..size /\ c # size
    BY <1>1, <1>2
  <2>2. best_width(size - c) \in 1..(size - c)
    <3>1. size - c \in Nat \ {0}
      BY <2>1
    <3> QED BY <3>1, WidthFits
  <2> QED BY <2>1, <2>2
<1>4. ASSUME NEW i \in 0..(size - 1) PROVE \E c \in WriteOffsets(s) : i \in W(c)
  <2> DEFINE Set == {n \in Nat : n <= size /\ i < f[n] => \E c \in WriteOffsets(s) : i \in W(c)}
  <2>1. 0 \in Set
    BY <1>1 DEF Completes
  <2>2. ASSUME NEW n \in Nat, n \in Set PROVE n + 1 \in Set
    <3> SUFFICES ASSUME n + 1 <= size, i < f[n + 1] PROVE \E c \in WriteOffsets(s) : i \in W(c)
      OBVIOUS
    <3>1. f[n + 1] = IF f[n] = size THEN f[n] ELSE f[n] + best_width(size - f[n])
      <4>1. n + 1 \in 0..size /\ n + 1 # 0 /\ (n + 1) - 1 = n
        OBVIOUS
      <4> QED BY <1>1, <4>1 DEF Completes
    <3>2. n \in 0..size /\ f[n] \in 0..size
      BY <1>2
    <3>3. CASE i < f[n]
      BY <2>2, <3>2, <3>3
    <3>4. CASE ~(i < f[n])
      <4>1. f[n] # size
        BY <3>2, <3>4
      <4>2. f[n] \in WriteOffsets(s)
        BY <1>1, <3>2, <4>1
      <4>3. size - f[n] \in Nat \ {0}
        BY <3>2, <4>1
      <4>4. best_width(size - f[n]) \in 1..(size - f[n])
        BY <4>3, WidthFits
      <4>5. i \in W(f[n])
        BY <3>1, <3>2, <3>4, <4>1, <4>4
      <4> QED BY <4>2, <4>5
    <3> QED BY <3>3, <3>4
  <2> HIDE DEF Set
  <2>3. size \in Set
    BY <2>1, <2>2, Induction
  <2>4. i < f[size]
    BY <1>2
  <2> QED BY <2>3, <2>4 DEF Set
<1> QED BY <1>3, <1>4

(* What a segment leaves at address a.                                     *)
LEMMA SegmentWritten ==
  ASSUME NEW byte, NEW a \in Nat, NEW s, s.memory_size \in Nat, destination(s) \in Nat
  PROVE write_segment(byte, a, s) =
          IF a \in destination(s)..(destination(s) + s.memory_size - 1)
          THEN SegmentByte(s, a - destination(s)) ELSE byte
<1>1. a - destination(s) \in 0..(s.memory_size - 1)
        <=> a \in destination(s)..(destination(s) + s.memory_size - 1)
  OBVIOUS
<1> QED BY <1>1, WritesCover DEF write_segment

-----------------------------------------------------------------------------
(* The segments of an image.                                               *)

(* The fields of a segment.                                                *)
LEMMA SegmentFields ==
  ASSUME NEW image \in Elf
  PROVE /\ Len(image.segments) \in Nat /\ DOMAIN image.segments = 1..Len(image.segments)
        /\ Segments(image) \subseteq 1..Len(image.segments)
        /\ \A i \in 1..Len(image.segments) :
             image.segments[i].memory_size \in Nat /\ destination(image.segments[i]) \in Nat
<1>1. image.segments \in Seq([type : STRING, offset : Nat, virtual : Nat, physical : Nat,
                              file_size : Nat, memory_size : Nat])
  BY ConformanceAssumption
<1>2. /\ Len(image.segments) \in Nat /\ DOMAIN image.segments = 1..Len(image.segments)
      /\ \A i \in 1..Len(image.segments) :
           image.segments[i] \in [type : STRING, offset : Nat, virtual : Nat, physical : Nat,
                                  file_size : Nat, memory_size : Nat]
  BY <1>1, LenProperties, ElementOfSeq, ZenonT(60)
<1> QED BY <1>2 DEF Segments, LoadSegments, destination

Covers(s, a) == a \in destination(s)..(destination(s) + s.memory_size - 1)

(* The segments up to k that put a byte at address a.                      *)
Over(image, a, k) == {i \in Segments(image) : i <= k /\ Covers(image.segments[i], a)}

ByteOf(image, a, i) == SegmentByte(image.segments[i], a - destination(image.segments[i]))

(* The byte at a after the segments up to k.                               *)
ByteUpTo(byte, image, a, k) ==
  IF Over(image, a, k) = {} THEN byte ELSE ByteOf(image, a, Max(Over(image, a, k)))

(* The largest member of a set of numbers.                                 *)
LEMMA MaxIs ==
  ASSUME NEW Set, Set \subseteq Nat, NEW m \in Set, \A n \in Set : n <= m
  PROVE Max(Set) = m
<1>1. \E x \in Set : \A y \in Set : x >= y
  BY SMTT(60)
<1>2. Max(Set) \in Set /\ \A y \in Set : Max(Set) >= y
  BY <1>1, ZenonT(60) DEF Max
<1> DEFINE x == Max(Set)
<1> HIDE DEF x
<1>3. x \in Nat /\ x >= m /\ x <= m
  BY <1>2, ZenonT(60) DEF x
<1>4. x = m
  BY <1>3
<1> QED BY <1>4 DEF x

(* What one more iteration of the loop over the segments does.             *)
LEMMA ByteNext ==
  ASSUME NEW byte, NEW image \in Elf, NEW a \in Nat, NEW k \in 1..Len(image.segments)
  PROVE /\ k \in Segments(image) /\ Covers(image.segments[k], a) =>
             ByteUpTo(byte, image, a, k) = ByteOf(image, a, k)
        /\ ~(k \in Segments(image) /\ Covers(image.segments[k], a)) =>
             ByteUpTo(byte, image, a, k) = ByteUpTo(byte, image, a, k - 1)
<1>1. Segments(image) \subseteq Nat
  BY SegmentFields
<1>2. ASSUME k \in Segments(image), Covers(image.segments[k], a)
      PROVE ByteUpTo(byte, image, a, k) = ByteOf(image, a, k)
  <2>1. /\ k \in Over(image, a, k) /\ \A n \in Over(image, a, k) : n <= k
        /\ Over(image, a, k) \subseteq Nat
    BY <1>1, <1>2 DEF Over
  <2>2. Max(Over(image, a, k)) = k
    BY <2>1, MaxIs
  <2> QED BY <2>1, <2>2 DEF ByteUpTo
<1>3. ASSUME ~(k \in Segments(image) /\ Covers(image.segments[k], a))
      PROVE ByteUpTo(byte, image, a, k) = ByteUpTo(byte, image, a, k - 1)
  <2>1. \A i \in Segments(image) : i <= k /\ i # k <=> i <= k - 1
    BY <1>1
  <2>2. Over(image, a, k) = Over(image, a, k - 1)
    BY <1>3, <2>1 DEF Over
  <2> QED BY <2>2 DEF ByteUpTo
<1> QED BY <1>2, <1>3

(* One iteration of the loop.                                              *)
SegmentStep(before, image, a, i) ==
  IF i \in Segments(image) THEN write_segment(before, a, image.segments[i]) ELSE before

(* It leaves the segment's byte, if the segment covers the address.        *)
LEMMA StepWrites ==
  ASSUME NEW before, NEW image \in Elf, NEW a \in Nat, NEW i \in 1..Len(image.segments)
  PROVE SegmentStep(before, image, a, i) =
          IF i \in Segments(image) /\ Covers(image.segments[i], a) THEN ByteOf(image, a, i)
          ELSE before
<1>1. write_segment(before, a, image.segments[i]) =
        IF Covers(image.segments[i], a) THEN ByteOf(image, a, i) ELSE before
  BY SegmentFields, SegmentWritten DEF Covers, ByteOf
<1> QED BY <1>1 DEF SegmentStep

(* The loop over the segments writes each segment in turn.                 *)
LEMMA SegmentsRun ==
  ASSUME NEW byte, NEW image \in Elf, NEW a \in Nat
  PROVE \E f : /\ \A i \in 0..Len(image.segments) :
                    f[i] = IF i = 0 THEN byte ELSE SegmentStep(f[i - 1], image, a, i)
               /\ WriteSegments(byte, a, image) = f[Len(image.segments)]
<1> DEFINE k == Len(image.segments)
           V == {byte} \cup {ByteOf(image, a, i) : i \in 1..k}
           F == [i \in 1..k |-> [v \in V |-> SegmentStep(v, image, a, i)]]
<1>1. k \in Nat
  BY SegmentFields
<1>2. \A i \in 1..k : \A v \in V : SegmentStep(v, image, a, i) \in V
  BY StepWrites
<1>3. F \in [1..k -> [V -> V]]
  BY <1>2
<1>4. PICK f \in [0..k -> V] : Iterates(f, k, byte, F)
  <2>1. byte \in V
    OBVIOUS
  <2> HIDE DEF F, V
  <2> QED BY <1>1, <1>3, <2>1, LoopRuns, ZenonT(60)
<1>5. ASSUME NEW i \in 0..k
      PROVE f[i] = IF i = 0 THEN byte ELSE SegmentStep(f[i - 1], image, a, i)
  <2>1. f[i] = IF i = 0 THEN byte ELSE F[i][f[i - 1]]
    BY <1>4, <1>5, ZenonT(60) DEF Iterates
  <2>2. ASSUME i # 0 PROVE F[i][f[i - 1]] = SegmentStep(f[i - 1], image, a, i)
    <3>1. i \in 1..k /\ i - 1 \in 0..k
      BY <1>1, <1>5, <2>2
    <3>2. f[i - 1] \in V
      BY <1>4, <3>1
    <3> QED BY <3>1, <3>2
  <2> HIDE DEF F
  <2> QED BY <2>1, <2>2
<1> HIDE DEF F, V
<1>6. f = [i \in 0..Len(image.segments) |->
             IF i = 0 THEN byte
             ELSE IF i \in Segments(image) THEN write_segment(f[i - 1], a, image.segments[i])
             ELSE f[i - 1]]
  BY <1>4, <1>5 DEF SegmentStep
<1>7. \E g : g = [i \in 0..Len(image.segments) |->
                    IF i = 0 THEN byte
                    ELSE IF i \in Segments(image) THEN write_segment(g[i - 1], a, image.segments[i])
                    ELSE g[i - 1]]
  BY <1>6
<1>8. PICK g : /\ g = [i \in 0..Len(image.segments) |->
                         IF i = 0 THEN byte
                         ELSE IF i \in Segments(image) THEN
                           write_segment(g[i - 1], a, image.segments[i])
                         ELSE g[i - 1]]
               /\ WriteSegments(byte, a, image) = g[Len(image.segments)]
  BY <1>7, ZenonT(60) DEF WriteSegments
<1>9. \A i \in 0..k : g[i] = IF i = 0 THEN byte ELSE SegmentStep(g[i - 1], image, a, i)
  BY <1>8, ZenonT(60) DEF SegmentStep
<1> QED BY <1>8, <1>9, ZenonT(60)

(* Its result is the byte of the last segment that covers the address.     *)
LEMMA SegmentsWritten ==
  ASSUME NEW byte, NEW image \in Elf, NEW a \in Nat
  PROVE WriteSegments(byte, a, image) = ByteUpTo(byte, image, a, Len(image.segments))
<1> DEFINE k == Len(image.segments)
<1>1. k \in Nat
  BY SegmentFields
<1>2. PICK f : /\ \A i \in 0..k : f[i] = IF i = 0 THEN byte ELSE SegmentStep(f[i - 1], image, a, i)
               /\ WriteSegments(byte, a, image) = f[k]
  BY SegmentsRun, ZenonT(60)
<1> DEFINE Set == {i \in Nat : i <= k => f[i] = ByteUpTo(byte, image, a, i)}
<1>3. 0 \in Set
  <2>1. Over(image, a, 0) = {}
    BY SegmentFields DEF Over
  <2> QED BY <1>1, <1>2, <2>1 DEF ByteUpTo
<1>4. ASSUME NEW i \in Nat, i \in Set PROVE i + 1 \in Set
  <2> SUFFICES ASSUME i + 1 <= k PROVE f[i + 1] = ByteUpTo(byte, image, a, i + 1)
    OBVIOUS
  <2>1. i + 1 \in 1..k /\ i + 1 \in 0..k /\ (i + 1) - 1 = i /\ i + 1 # 0
    BY <1>1
  <2>2. f[i] = ByteUpTo(byte, image, a, i)
    BY <1>1, <1>4
  <2>3. f[i + 1] = SegmentStep(f[i], image, a, i + 1)
    BY <1>2, <2>1
  <2> HIDE DEF k
  <2> QED BY <2>1, <2>2, <2>3, StepWrites, ByteNext DEF k
<1> HIDE DEF Set
<1>5. k \in Set
  BY <1>1, <1>3, <1>4, Induction
<1> QED BY <1>1, <1>2, <1>5 DEF Set

(* A loaded image is in memory byte for byte.                              *)
LEMMA LoadedByte ==
  ASSUME NEW image \in Elf, NEW a \in Nat
  PROVE WriteSegments(<<"stale", 0>>, a, image) = Expect(image, a)
<1>1. Over(image, a, Len(image.segments)) =
        {i \in Segments(image) :
           LET s == image.segments[i]
           IN  a \in destination(s)..(destination(s) + s.memory_size - 1)}
  BY SegmentFields DEF Over, Covers
<1> QED BY <1>1, SegmentsWritten, ZenonT(60) DEF ByteUpTo, ByteOf, SegmentByte, Expect

-----------------------------------------------------------------------------
(* The tohost word.                                                        *)

(* w has the low, the high half of v.                                      *)
Low(w, v) == \A i \in 0..3 : w[i] = v[i]

High(w, v) == \A i \in 4..7 : w[i] = v[i]

IsWord(w) == w = [i \in 0..7 |-> w[i]]

(* A word is its two halves.                                               *)
LEMMA TwoHalves ==
  ASSUME NEW v, NEW w, IsWord(v), IsWord(w), Low(w, v), High(w, v)
  PROVE w = v
<1>1. \A i \in 0..7 : i \in 0..3 \/ i \in 4..7
  OBVIOUS
<1>2. \A i \in 0..7 : w[i] = v[i]
  BY <1>1, ZenonT(60) DEF Low, High
<1>3. [i \in 0..7 |-> w[i]] = [i \in 0..7 |-> v[i]]
  BY <1>2, ZenonT(60)
<1> QED BY <1>3, ZenonT(60) DEF IsWord

(* An end status is its code and a zero high half.                         *)
LEMMA EndStatusWord ==
  ASSUME NEW code
  PROVE /\ IsWord(EndStatus(code)) /\ EndStatus(code)[0] = code
        /\ High(EndStatus(code), EndStatus(0)) /\ \A i \in 4..7 : EndStatus(code)[i] = 0
BY DEF EndStatus, IsWord, High

(* An end status is no console command.                                    *)
LEMMA StatusNoCommand ==
  ASSUME NEW code
  PROVE ~HtifConsole(EndStatus(code))
<1>1. 6 \in 4..7 /\ EndStatus(code)[6] = 0 /\ kHtifConsoleCommand[6] = 1
  BY DEF EndStatus, kHtifConsoleCommand
<1> QED BY <1>1 DEF HtifConsole

(* A word with the high half of no command is no command.                  *)
LEMMA NoCommand ==
  ASSUME NEW v, NEW w, High(w, v), ~HtifConsole(v)
  PROVE ~HtifConsole(w)
BY ZenonT(60) DEF High, HtifConsole

(* The RAM, and an image in it.                                            *)
RamAddresses == TestRam.base..(TestRam.base + TestRam.size - 1)

(* The field of an element of a sequence of records has the field's type.  *)
LEMMA TableField ==
  ASSUME NEW Set, NEW B, NEW tables \in Seq([usable : B, symbols : Set]), NEW t \in DOMAIN tables
  PROVE tables[t].symbols \in Set
<1>1. t \in 1..Len(tables)
  BY LenProperties
<1>2. tables[t] \in [usable : B, symbols : Set]
  BY <1>1, ElementOfSeq, ZenonT(60)
<1> QED BY <1>2

(* A symbol of a table of typed symbols has a natural value.               *)
LEMMA SymbolValue ==
  ASSUME NEW Set, NEW symbols \in Seq([name : Set, value : Nat]), NEW i \in DOMAIN symbols
  PROVE symbols[i].value \in Nat
<1>1. i \in 1..Len(symbols)
  BY LenProperties
<1>2. symbols[i] \in [name : Set, value : Nat]
  BY <1>1, ElementOfSeq, ZenonT(60)
<1> QED BY <1>2

(* An image that loads has its entry and its tohost word in RAM.           *)
LEMMA EntryInRam ==
  ASSUME NEW image \in Elf, Valid(image)
  PROVE /\ {image.entry, image.entry + 1} \subseteq RamAddresses
        /\ find_tohost_symbol(image) \in Int
        /\ \A i \in 0..7 : find_tohost_symbol(image) + i \in RamAddresses
<1>1. /\ TestRam.base \in Nat /\ TestRam.size \in Nat /\ image.entry \in Nat
      /\ contains_span(TestRam, image.entry, 2)
      /\ contains_span(TestRam, find_tohost_symbol(image), 8)
  BY ConformanceAssumption, ZenonT(60) DEF Valid
<1>2. find_tohost_symbol(image) \in Int
  <2> DEFINE hits == TohostTables(image)
             t == Min(hits)
             symbols == image.tables[t].symbols
             i == Min(Named(symbols))
  <2>1. CASE hits = {}
    BY <2>1 DEF find_tohost_symbol
  <2>2. CASE hits # {}
    <3>1. image.tables \in Seq([usable : BOOLEAN, symbols : Seq([name : STRING, value : Nat])])
      BY ConformanceAssumption
    <3>2. hits \subseteq Nat
      BY <3>1 DEF TohostTables
    <3>3. t \in hits
      BY <2>2, <3>2, LeastMember DEF Min
    <3>4. t \in DOMAIN image.tables /\ Named(symbols) # {}
      BY <3>3, ZenonT(60) DEF TohostTables
    <3> HIDE DEF t, hits
    <3>5. symbols \in Seq([name : STRING, value : Nat])
      BY <3>1, <3>4, TableField, ZenonT(60)
    <3> HIDE DEF symbols
    <3>6. Named(symbols) \subseteq Nat
      BY <3>5 DEF Named
    <3>7. i \in Named(symbols)
      BY <3>4, <3>6, LeastMember DEF Min
    <3>8. i \in DOMAIN symbols
      BY <3>7 DEF Named
    <3> HIDE DEF i
    <3>9. symbols[i].value \in Nat
      BY <3>5, <3>8, SymbolValue, ZenonT(60)
    <3>10. find_tohost_symbol(image) = FirstNamed(symbols)
      BY <2>2 DEF find_tohost_symbol, symbols, t, hits
    <3> QED BY <3>9, <3>10 DEF FirstNamed, i
  <2> QED BY <2>1, <2>2
<1> DEFINE t == find_tohost_symbol(image)
<1> HIDE DEF t
<1>3. \A i \in 0..7 : t + i \in RamAddresses
  BY <1>1, <1>2 DEF contains_span, contains_address, RamAddresses, t
<1>4. {image.entry, image.entry + 1} \subseteq RamAddresses
  BY <1>1 DEF contains_span, contains_address, RamAddresses
<1> QED BY <1>2, <1>3, <1>4 DEF t

(* The word after a store of one of its halves.                            *)
LEMMA WordStored ==
  ASSUME elf \in Elf, Valid(elf), DOMAIN memory = RamAddresses, NEW word, NEW first \in {0, 4}
  PROVE /\ IsWord(Word(elf, StoreWord(first, word)))
        /\ \A i \in 0..7 : Word(elf, StoreWord(first, word))[i] =
             IF i \in first..(first + 3) THEN word[i] ELSE Word(elf, memory)[i]
<1> DEFINE t == find_tohost_symbol(elf)
           ram == StoreWord(first, word)
<1>1. t \in Int /\ \A i \in 0..7 : t + i \in DOMAIN memory
  BY EntryInRam, ZenonT(60)
<1>2. ram = [a \in DOMAIN memory |->
               IF a - t \in first..(first + 3) THEN <<"guest", word[a - t]>> ELSE memory[a]]
  BY ZenonT(60) DEF StoreWord
<1>3. \A i \in 0..7 : Word(elf, ram)[i] = Value(elf, ram[t + i])
  BY ZenonT(60) DEF Word
<1>4. \A i \in 0..7 : Word(elf, memory)[i] = Value(elf, memory[t + i])
  BY ZenonT(60) DEF Word
<1>5. IsWord(Word(elf, ram))
  BY DEF Word, IsWord
<1> HIDE DEF ram, t
<1>6. ASSUME NEW i \in 0..7
      PROVE Word(elf, ram)[i] = IF i \in first..(first + 3) THEN word[i] ELSE Word(elf, memory)[i]
  <2>1. (t + i) - t = i /\ t + i \in DOMAIN memory
    BY <1>1
  <2>2. ram[t + i] = IF i \in first..(first + 3) THEN <<"guest", word[i]>> ELSE memory[t + i]
    BY <1>2, <2>1, ZenonT(60)
  <2>3. Value(elf, <<"guest", word[i]>>) = word[i]
    BY DEF Value
  <2> QED BY <1>3, <1>4, <2>2, <2>3, ZenonT(60)
<1> QED BY <1>5, <1>6, ZenonT(60) DEF ram

(* The two halves after each of the stores.                                *)
LEMMA HalvesStored ==
  ASSUME elf \in Elf, Valid(elf), DOMAIN memory = RamAddresses, NEW word
  PROVE /\ Low(Word(elf, StoreWord(0, word)), word)
        /\ High(Word(elf, StoreWord(0, word)), Word(elf, memory))
        /\ Low(Word(elf, StoreWord(4, word)), Word(elf, memory))
        /\ High(Word(elf, StoreWord(4, word)), word)
<1>1. /\ \A i \in 0..3 : i \in 0..7 /\ i \in 0..(0 + 3) /\ i \notin 4..(4 + 3)
      /\ \A i \in 4..7 : i \in 0..7 /\ i \notin 0..(0 + 3) /\ i \in 4..(4 + 3)
  OBVIOUS
<1>2. \A i \in 0..7 : Word(elf, StoreWord(0, word))[i] =
        IF i \in 0..(0 + 3) THEN word[i] ELSE Word(elf, memory)[i]
  BY WordStored, ZenonT(60)
<1>3. \A i \in 0..7 : Word(elf, StoreWord(4, word))[i] =
        IF i \in 4..(4 + 3) THEN word[i] ELSE Word(elf, memory)[i]
  BY WordStored, ZenonT(60)
<1> QED BY <1>1, <1>2, <1>3, ZenonT(60) DEF Low, High

(* The word after the loop cleared it.                                     *)
LEMMA WordCleared ==
  ASSUME NEW image \in Elf, Valid(image), NEW ram, DOMAIN ram = RamAddresses
  PROVE Word(image, Cleared(ram, find_tohost_symbol(image))) = EndStatus(0)
<1> DEFINE t == find_tohost_symbol(image)
           after == Cleared(ram, t)
<1>1. t \in Int /\ \A i \in 0..7 : t + i \in DOMAIN ram
  BY EntryInRam, ZenonT(60)
<1>2. after = [a \in DOMAIN ram |-> IF a \in t..(t + 7) THEN <<"zero", 0>> ELSE ram[a]]
  BY ZenonT(60) DEF Cleared
<1>3. Word(image, after) = [i \in 0..7 |-> Value(image, after[t + i])]
  BY ZenonT(60) DEF Word
<1> HIDE DEF after, t
<1>4. ASSUME NEW i \in 0..7 PROVE Value(image, after[t + i]) = 0
  <2>1. t + i \in t..(t + 7) /\ t + i \in DOMAIN ram
    BY <1>1
  <2>2. after[t + i] = <<"zero", 0>>
    BY <1>2, <2>1, ZenonT(60)
  <2> QED BY <2>2 DEF Value
<1>5. EndStatus(0) = [i \in 0..7 |-> 0]
  BY DEF EndStatus
<1> QED BY <1>3, <1>4, <1>5, ZenonT(60) DEF after, t

-----------------------------------------------------------------------------
(* The runner.                                                             *)

(* The guest is in the test, or in a macro before its store of the low or  *)
(* of the high half; the halt macros store 1 or 3.                         *)
GuestAt(g) ==
  /\ g \in [next : {"test", "low", "high"}, halt : BOOLEAN, code : Nat]
  /\ g.halt => g.code \in {1, 3}

(* The test is a place of the guest, and so is the start of a macro.       *)
LEMMA StartPlace ==
  /\ GuestAt(TestCode) /\ TestCode.next = "test" /\ TestCode.halt = FALSE
  /\ \A m \in Macros : GuestAt(m) /\ m.next = "low"
<1>1. GuestAt(TestCode) /\ TestCode.next = "test" /\ TestCode.halt = FALSE
  BY DEF GuestAt, TestCode
<1>2. ASSUME NEW m \in Macros PROVE GuestAt(m) /\ m.next = "low"
  <2>1. CASE m \in [next : {"low"}, halt : {TRUE}, code : {1, 3}]
    <3>1. /\ m.next = "low" /\ m.halt = TRUE /\ m.code \in {1, 3}
          /\ m = [next |-> m.next, halt |-> m.halt, code |-> m.code]
      BY <2>1, ZenonT(60)
    <3>2. m.code \in Nat
      BY <3>1
    <3>3. [next |-> "low", halt |-> TRUE, code |-> m.code]
            \in [next : {"test", "low", "high"}, halt : BOOLEAN, code : Nat]
      BY <3>2
    <3> QED BY <3>1, <3>3, ZenonT(60) DEF GuestAt
  <2>2. CASE m \in [next : {"low"}, halt : {FALSE}, code : Character]
    <3>1. \A c \in Character : c \in Nat
      BY ConformanceAssumption
    <3>2. m \in [next : {"low"}, halt : {FALSE}, code : Nat]
      BY <2>2, <3>1, ZenonT(60)
    <3>3. /\ m.next = "low" /\ m.halt = FALSE /\ m.code \in Nat
          /\ m = [next |-> m.next, halt |-> m.halt, code |-> m.code]
      BY <3>2, ZenonT(60)
    <3> QED BY <3>3, ZenonT(60) DEF GuestAt
  <2> QED BY <1>2, <2>1, <2>2, ZenonT(60) DEF Macros
<1> QED BY <1>1, <1>2

(* A step inside a macro.                                                  *)
LEMMA MacroStep ==
  ASSUME NEW g, GuestAt(g), NEW n \in {"low", "high"}
  PROVE /\ GuestAt([g EXCEPT !.next = n]) /\ [g EXCEPT !.next = n].next = n
        /\ [g EXCEPT !.next = n].halt = g.halt /\ [g EXCEPT !.next = n].code = g.code
BY DEF GuestAt

RunnerTypeOK ==
  /\ stage \in {"options", "load", "running", "ended"} /\ elf \in Elf \cup {NoElf}
  /\ limit # 0 /\ steps \in Nat
  /\ GuestAt(guest) /\ said \in Seq(Nat) /\ halted \in BOOLEAN
  /\ DOMAIN memory = RamAddresses

(* A word the loop has looked at: none it acts on; its high half is zero,  *)
(* or the image's and no command; and between the two stores of a macro    *)
(* its low half is the code the macro stored.                              *)
Quiet(word) == word # EndStatus(1) /\ word # EndStatus(3) /\ ~HtifConsole(word)

HighExplained(word) ==
  \/ High(word, EndStatus(0))
  \/ said = <<>> /\ ~HtifConsole(Preset(elf)) /\ High(word, Preset(elf))

Polled ==
  /\ Quiet(Word(elf, memory)) /\ HighExplained(Word(elf, memory))
  /\ guest.next = "high" => Low(Word(elf, memory), EndStatus(guest.code))

(* The guest runs only after the load, and starts in the test.             *)
RunnerShape ==
  /\ stage # "ended" => verdict = -1 /\ ~halted
  /\ stage \in {"options", "load"} => steps = 0
  /\ steps = 0 => guest = TestCode /\ said = <<>> /\ ~halted
  /\ stage = "running" => elf \in Elf /\ Valid(elf) /\ (steps # 0 => Polled)

RunnerInv == RunnerTypeOK /\ RunnerShape /\ ConformanceHonest

(* The program starts with blank RAM and nothing written or printed.       *)
LEMMA InitRunner == ConformanceInit => RunnerInv
<1> SUFFICES ASSUME ConformanceInit PROVE RunnerInv
  OBVIOUS
<1>1. /\ stage = "options" /\ elf = NoElf /\ memory = Stale(TestRam) /\ limit = kDefaultLimit
      /\ steps = 0 /\ guest = TestCode /\ said = <<>> /\ halted = FALSE /\ printed = <<>>
      /\ verdict = -1
  BY ZenonT(60) DEF ConformanceInit
<1>2. RunnerTypeOK
  <2>1. GuestAt(guest)
    BY <1>1, StartPlace
  <2>2. DOMAIN memory = RamAddresses
    BY <1>1, ZenonT(60) DEF Stale, RamAddresses
  <2>3. kDefaultLimit # 0 /\ 0 \in Nat /\ <<>> \in Seq(Nat)
    BY ConformanceAssumption
  <2> QED BY <1>1, <2>1, <2>2, <2>3, ZenonT(60) DEF RunnerTypeOK
<1>3. RunnerShape
  BY <1>1 DEF RunnerShape
<1>4. ImageLoaded
  <2>1. \A a \in DOMAIN memory : memory[a] = <<"stale", 0>>
    BY <1>1 DEF Stale
  <2> QED BY <1>1, <2>1 DEF ImageLoaded
<1>5. OutputHonest
  BY <1>1 DEF OutputHonest
<1>6. VerdictHonest
  BY <1>1 DEF VerdictHonest, TestCode
<1> QED BY <1>2, <1>3, <1>4, <1>5, <1>6 DEF RunnerInv, ConformanceHonest

(* The command line sets the limit or ends the program.                    *)
LEMMA ParseOptionsRunner == RunnerInv /\ ParseOptions => RunnerInv'
<1> SUFFICES ASSUME RunnerInv, ParseOptions PROVE RunnerInv'
  OBVIOUS
<1>1. /\ stage = "options"
      /\ UNCHANGED <<elf, memory, steps, guest, said, halted, printed>>
      /\ \/ stage' = "ended" /\ verdict' = 2 /\ limit' = limit
         \/ stage' = "load" /\ limit' # 0 /\ verdict' = verdict
  <2>1. PICK argv \in Arguments :
          IF parse_options(argv) = 0
          THEN stage' = "ended" /\ verdict' = 2 /\ UNCHANGED limit
          ELSE stage' = "load" /\ limit' = parse_options(argv) /\ UNCHANGED verdict
    BY ZenonT(60) DEF ParseOptions
  <2> QED BY <2>1 DEF ParseOptions
<1>2. RunnerTypeOK'
  BY <1>1 DEF RunnerInv, RunnerTypeOK
<1>3. steps = 0 /\ verdict = -1 /\ guest = TestCode /\ said = <<>> /\ ~halted
  BY <1>1 DEF RunnerInv, RunnerShape
<1>4. RunnerShape'
  BY <1>1, <1>3 DEF RunnerShape
<1>5. ImageLoaded'
  BY <1>1, <1>3, ZenonT(60) DEF RunnerInv, ConformanceHonest, ImageLoaded
<1>6. OutputHonest'
  BY <1>1, <1>3 DEF RunnerInv, ConformanceHonest, OutputHonest
<1>7. VerdictHonest'
  BY <1>1, <1>3 DEF VerdictHonest, TestCode
<1> QED BY <1>2, <1>4, <1>5, <1>6, <1>7 DEF RunnerInv, ConformanceHonest

(* A valid image is put into blank RAM; a refused one leaves it blank.     *)
LEMMA LoadRunner == RunnerInv /\ Load => RunnerInv'
<1> SUFFICES ASSUME RunnerInv, Load PROVE RunnerInv'
  OBVIOUS
<1>1. stage = "load" /\ UNCHANGED <<limit, steps, guest, said, halted, printed>>
  BY DEF Load
<1>2. PICK image \in Elf :
        /\ elf' = image
        /\ IF Valid(image)
           THEN /\ memory' = [a \in DOMAIN memory |-> WriteSegments(memory[a], a, image)]
                /\ stage' = "running" /\ UNCHANGED verdict
           ELSE stage' = "ended" /\ verdict' = 2 /\ UNCHANGED memory
  BY ZenonT(60) DEF Load
<1>3. /\ steps = 0 /\ verdict = -1 /\ guest = TestCode /\ said = <<>> /\ ~halted
      /\ \A a \in DOMAIN memory : memory[a] = <<"stale", 0>>
      /\ DOMAIN memory = RamAddresses
  BY <1>1, ZenonT(60) DEF RunnerInv, RunnerShape, ConformanceHonest, ImageLoaded, RunnerTypeOK
<1>4. OutputHonest'
  BY <1>1, <1>3 DEF RunnerInv, ConformanceHonest, OutputHonest
<1>5. CASE Valid(image)
  <2>1. /\ memory' = [a \in DOMAIN memory |-> WriteSegments(memory[a], a, image)]
        /\ stage' = "running" /\ verdict' = verdict
    BY <1>2, <1>5
  <2>2. DOMAIN memory' = DOMAIN memory
    BY <2>1
  <2>3. ASSUME NEW a \in DOMAIN memory' PROVE memory'[a] = Expect(elf', a)
    <3>1. memory'[a] = WriteSegments(<<"stale", 0>>, a, image)
      BY <1>3, <2>1, <2>2, ZenonT(60)
    <3>2. a \in Nat
      BY <1>3, <2>2, ConformanceAssumption DEF RamAddresses
    <3> QED BY <1>2, <1>5, <3>1, <3>2, LoadedByte
  <2>4. /\ {elf'.entry, elf'.entry + 1} \subseteq DOMAIN memory'
        /\ \A i \in 0..7 : find_tohost_symbol(elf') + i \in DOMAIN memory'
    BY <1>2, <1>3, <1>5, <2>2, EntryInRam, ZenonT(60)
  <2>5. RunnerTypeOK'
    BY <1>1, <1>2, <2>1, <2>2 DEF RunnerInv, RunnerTypeOK
  <2>6. RunnerShape'
    BY <1>1, <1>2, <1>3, <1>5, <2>1, ZenonT(60) DEF RunnerShape
  <2>7. ImageLoaded'
    <3>1. (\A a \in DOMAIN memory : memory[a] = Expect(elf, a))'
      BY <2>3
    <3> QED BY <2>1, <2>4, <3>1 DEF ImageLoaded
  <2>8. VerdictHonest'
    BY <1>1, <1>3, <2>1 DEF VerdictHonest, TestCode
  <2> QED BY <1>4, <2>5, <2>6, <2>7, <2>8 DEF RunnerInv, ConformanceHonest
<1>6. CASE ~Valid(image)
  <2>1. stage' = "ended" /\ verdict' = 2 /\ memory' = memory
    BY <1>2, <1>6
  <2>2. RunnerTypeOK'
    BY <1>1, <1>2, <2>1, ZenonT(60) DEF RunnerInv, RunnerTypeOK
  <2>3. RunnerShape'
    BY <1>1, <1>3, <2>1 DEF RunnerShape
  <2>4. ImageLoaded'
    BY <1>3, <2>1, ZenonT(60) DEF ImageLoaded
  <2>5. VerdictHonest'
    BY <1>1, <1>3, <2>1 DEF VerdictHonest, TestCode
  <2> QED BY <1>4, <2>2, <2>3, <2>4, <2>5 DEF RunnerInv, ConformanceHonest
<1> QED BY <1>5, <1>6

(* What the loop does with a word: the four cases of the poll.             *)
LEMMA PollOutcome ==
  ASSUME NEW ram, Poll(ram)
  PROVE \/ /\ Word(elf, ram) = EndStatus(1)
           /\ verdict' = 0 /\ stage' = "ended" /\ memory' = ram /\ printed' = printed
        \/ /\ Word(elf, ram) = EndStatus(3)
           /\ verdict' = 1 /\ stage' = "ended" /\ memory' = ram /\ printed' = printed
        \/ /\ HtifConsole(Word(elf, ram)) /\ printed' = Append(printed, Word(elf, ram)[0])
           /\ memory' = Cleared(ram, find_tohost_symbol(elf)) /\ verdict' = verdict /\ stage' = stage
        \/ /\ Quiet(Word(elf, ram))
           /\ memory' = ram /\ printed' = printed /\ verdict' = verdict /\ stage' = stage
<1> DEFINE w == Word(elf, ram)
<1>1. CASE w = EndStatus(1) \/ w = EndStatus(3)
  <2>1. EndStatus(1) # EndStatus(3)
    BY EndStatusWord
  <2>2. ~HtifConsole(w)
    BY <1>1, StatusNoCommand, ZenonT(60)
  <2> HIDE DEF w
  <2> QED BY <1>1, <2>1, <2>2 DEF Poll, w
<1>2. CASE w # EndStatus(1) /\ w # EndStatus(3) /\ HtifConsole(w)
  <2> HIDE DEF w
  <2> QED BY <1>2 DEF Poll, w
<1>3. CASE Quiet(w)
  <2>1. w # EndStatus(1) /\ w # EndStatus(3) /\ ~HtifConsole(w)
    BY <1>3, ZenonT(60) DEF Quiet
  <2> HIDE DEF w
  <2> QED BY <1>3, <2>1 DEF Poll, w
<1> QED BY <1>1, <1>2, <1>3, ZenonT(60) DEF Quiet

(* What an instruction and the poll after it leave in any case.            *)
LEMMA PollFrame ==
  ASSUME RunnerInv, stage = "running", NEW ram, DOMAIN ram = RamAddresses, Poll(ram),
         steps' = steps + 1, elf' = elf, limit' = limit,
         GuestAt(guest'), said' \in Seq(Nat), halted' \in BOOLEAN
  PROVE /\ RunnerTypeOK' /\ ImageLoaded' /\ steps' # 0 /\ steps' > 0
        /\ elf \in Elf /\ Valid(elf) /\ verdict = -1
        /\ stage' = "ended" \/ (stage' = "running" /\ verdict' = -1)
<1>1. /\ steps \in Nat /\ limit # 0 /\ elf \in Elf /\ Valid(elf) /\ verdict = -1
  BY DEF RunnerInv, RunnerTypeOK, RunnerShape
<1>2. DOMAIN memory' = RamAddresses /\ (stage' = "ended" \/ (stage' = "running" /\ verdict' = -1))
  <2>1. memory' = ram \/ memory' = Cleared(ram, find_tohost_symbol(elf))
    BY PollOutcome, ZenonT(60)
  <2>2. DOMAIN memory' = RamAddresses
    BY <2>1 DEF Cleared
  <2> QED BY <1>1, <2>2, PollOutcome, ZenonT(60)
<1>3. steps' \in Nat /\ steps' # 0 /\ steps' > 0
  BY <1>1
<1>4. RunnerTypeOK'
  BY <1>1, <1>2, <1>3, ZenonT(60) DEF RunnerTypeOK
<1>5. ImageLoaded'
  <2>1. stage' # "options" /\ stage' # "load"
    BY <1>2
  <2> QED BY <1>3, <2>1 DEF ImageLoaded
<1> QED BY <1>1, <1>2, <1>3, <1>4, <1>5

(* A running program keeps its shape when the word it is left with is one  *)
(* the loop has looked at.                                                 *)
LEMMA ShapeKept ==
  ASSUME steps' # 0, elf' = elf, elf \in Elf, Valid(elf),
         stage' = "ended" \/ (stage' = "running" /\ verdict' = -1 /\ ~halted' /\ Polled')
  PROVE RunnerShape'
BY ZenonT(60) DEF RunnerShape

(* One more character after the text and what came before it.              *)
LEMMA AppendAfter ==
  ASSUME NEW first, NEW text \in Seq(Nat), NEW code \in Nat
  PROVE /\ Append(<<first>> \o text, code) = <<first>> \o Append(text, code)
        /\ Append(<<>> \o text, code) = <<>> \o Append(text, code)
<1> DEFINE Any == Nat \cup {first}
<1>1. /\ text \in Seq(Any) /\ <<first>> \in Seq(Any) /\ <<>> \in Seq(Any)
      /\ code \in Any /\ <<code>> \in Seq(Any)
  <2>1. text \in Seq(Any)
    BY SeqMonotonic, ZenonT(60)
  <2> QED BY <2>1
<1> HIDE DEF Any
<1>2. ASSUME NEW s \in Seq(Any) PROVE Append(s \o text, code) = s \o Append(text, code)
  <2>1. s \o text \in Seq(Any)
    BY <1>1, <1>2, ConcatProperties, ZenonT(60)
  <2>2. Append(s \o text, code) = (s \o text) \o <<code>>
    BY <1>1, <2>1, AppendIsConcat, ZenonT(60)
  <2>3. Append(text, code) = text \o <<code>>
    BY <1>1, AppendIsConcat, ZenonT(60)
  <2>4. (s \o text) \o <<code>> = s \o (text \o <<code>>)
    BY <1>1, <1>2, ConcatAssociative
  <2> QED BY <2>2, <2>3, <2>4
<1> QED BY <1>1, <1>2, ZenonT(60)

(* The first instruction does not touch tohost: the loop acts on the       *)
(* word the image holds.                                                   *)
LEMMA FirstRunner ==
  ASSUME RunnerInv, Step, OtherInstruction, steps = 0
  PROVE RunnerInv'
<1> DEFINE w == Word(elf, memory)
<1>1. /\ stage = "running" /\ steps' = steps + 1 /\ elf' = elf /\ limit' = limit
      /\ Poll(memory) /\ said' = said /\ halted' = halted
      /\ guest' = guest \/ guest' \in Macros
      /\ guest = TestCode /\ said = <<>> /\ halted = FALSE
      /\ elf \in Elf /\ Valid(elf) /\ DOMAIN memory = RamAddresses
  BY DEF Step, OtherInstruction, RunnerInv, RunnerShape, RunnerTypeOK
<1>2. printed = <<>> /\ steps' = 1 /\ steps' > 0
  BY <1>1 DEF RunnerInv, ConformanceHonest, OutputHonest
<1>3. w = Preset(elf)
  <2>1. /\ \A a \in DOMAIN memory : memory[a] = Expect(elf, a)
        /\ \A i \in 0..7 : find_tohost_symbol(elf) + i \in DOMAIN memory
    BY <1>1, ZenonT(60) DEF RunnerInv, ConformanceHonest, ImageLoaded
  <2> QED BY <2>1, ZenonT(60) DEF Word, Preset
<1>4. GuestAt(guest') /\ guest'.next # "high" /\ said' = <<>> /\ halted' = FALSE
  <2>1. GuestAt(guest') /\ (guest'.next = "test" \/ guest'.next = "low")
    BY <1>1, StartPlace, ZenonT(60)
  <2> QED BY <1>1, <2>1
<1>5. said' \in Seq(Nat) /\ halted' \in BOOLEAN
  <2>1. <<>> \in Seq(Nat) /\ FALSE \in BOOLEAN
    OBVIOUS
  <2> QED BY <1>4, <2>1, ZenonT(60)
<1>6. /\ RunnerTypeOK' /\ ImageLoaded' /\ steps' # 0 /\ verdict = -1
      /\ stage' = "ended" \/ (stage' = "running" /\ verdict' = -1)
  BY <1>1, <1>4, <1>5, PollFrame, ZenonT(60)
<1> HIDE DEF w
<1>7. CASE w = EndStatus(1) \/ w = EndStatus(3)
  <2>1. EndStatus(1) # EndStatus(3)
    BY EndStatusWord
  <2>2. ~HtifConsole(w)
    BY <1>7, StatusNoCommand, ZenonT(60)
  <2>3. /\ stage' = "ended" /\ printed' = printed
        /\ \/ verdict' = 0 /\ w = EndStatus(1)
           \/ verdict' = 1 /\ w = EndStatus(3)
    <3>1. \/ w = EndStatus(1) /\ stage' = "ended" /\ verdict' = 0 /\ printed' = printed
          \/ w = EndStatus(3) /\ stage' = "ended" /\ verdict' = 1 /\ printed' = printed
          \/ Quiet(w)
      BY <1>1, <2>2, PollOutcome, ZenonT(60) DEF w
    <3> QED BY <1>7, <3>1, ZenonT(60) DEF Quiet
  <2>4. RunnerShape'
    BY <1>1, <1>6, <2>3, ShapeKept, ZenonT(60)
  <2>5. OutputHonest'
    BY <1>1, <1>2, <1>3, <2>2, <2>3 DEF OutputHonest
  <2>6. VerdictHonest'
    BY <1>1, <1>2, <1>3, <1>7, <2>3 DEF VerdictHonest, Mistaken
  <2> QED BY <1>6, <2>4, <2>5, <2>6, ZenonT(60) DEF RunnerInv, ConformanceHonest
<1>8. CASE HtifConsole(w) /\ w # EndStatus(1) /\ w # EndStatus(3)
  <2>1. /\ stage' = "running" /\ printed' = Append(printed, w[0]) /\ verdict' = -1
        /\ memory' = Cleared(memory, find_tohost_symbol(elf))
    BY <1>1, <1>6, <1>8, PollOutcome, ZenonT(60) DEF Quiet, w
  <2>2. Word(elf', memory') = EndStatus(0)
    BY <1>1, <2>1, WordCleared, ZenonT(60)
  <2>3. Polled'
    <3>1. EndStatus(0) # EndStatus(1) /\ EndStatus(0) # EndStatus(3)
      BY EndStatusWord
    <3>2. Quiet(EndStatus(0)) /\ High(EndStatus(0), EndStatus(0))
      BY <3>1, StatusNoCommand, EndStatusWord, ZenonT(60) DEF Quiet
    <3> QED BY <1>4, <2>2, <3>2, ZenonT(60) DEF Polled, HighExplained
  <2>4. RunnerShape'
    BY <1>1, <1>4, <1>6, <2>1, <2>3, ShapeKept, ZenonT(60)
  <2>5. OutputHonest'
    BY <1>1, <1>2, <1>3, <1>4, <1>8, <2>1 DEF OutputHonest
  <2>6. VerdictHonest'
    BY <1>4, <2>1 DEF VerdictHonest
  <2> QED BY <1>6, <2>4, <2>5, <2>6, ZenonT(60) DEF RunnerInv, ConformanceHonest
<1>9. CASE Quiet(w)
  <2>1. w # EndStatus(1) /\ w # EndStatus(3) /\ ~HtifConsole(w)
    BY <1>9, ZenonT(60) DEF Quiet
  <2>2. stage' = "running" /\ printed' = printed /\ verdict' = -1 /\ memory' = memory
    BY <1>1, <1>6, <2>1, PollOutcome, ZenonT(60) DEF w
  <2>3. Word(elf', memory') = w /\ High(w, Preset(elf))
    BY <1>1, <1>3, <2>2, ZenonT(60) DEF w, High
  <2>4. Polled'
    BY <1>1, <1>3, <1>4, <1>9, <2>1, <2>3, ZenonT(60) DEF Polled, HighExplained
  <2>5. RunnerShape'
    BY <1>1, <1>4, <1>6, <2>2, <2>4, ShapeKept, ZenonT(60)
  <2>6. OutputHonest'
    BY <1>1, <1>2, <1>3, <1>4, <2>1, <2>2 DEF OutputHonest
  <2>7. VerdictHonest'
    BY <1>4, <2>2 DEF VerdictHonest
  <2> QED BY <1>6, <2>5, <2>6, <2>7, ZenonT(60) DEF RunnerInv, ConformanceHonest
<1> QED BY <1>7, <1>8, <1>9, ZenonT(60) DEF Quiet

(* A later one finds the word as the loop left it.                         *)
LEMMA OtherRunner ==
  ASSUME RunnerInv, Step, OtherInstruction, steps # 0
  PROVE RunnerInv'
<1>1. /\ stage = "running" /\ steps' = steps + 1 /\ elf' = elf /\ limit' = limit
      /\ Poll(memory) /\ said' = said /\ halted' = halted /\ halted = FALSE
      /\ guest' = guest \/ guest' \in Macros
      /\ GuestAt(guest) /\ said \in Seq(Nat) /\ DOMAIN memory = RamAddresses /\ Polled
      /\ steps \in Nat
  BY DEF Step, OtherInstruction, RunnerInv, RunnerShape, RunnerTypeOK
<1>2. guest' \in Macros => GuestAt(guest') /\ guest'.next = "low"
  BY StartPlace, ZenonT(60)
<1>3. /\ GuestAt(guest') /\ said' \in Seq(Nat) /\ halted' \in BOOLEAN
      /\ guest'.next = "high" => guest' = guest
  BY <1>1, <1>2, ZenonT(60)
<1>4. /\ RunnerTypeOK' /\ ImageLoaded' /\ steps' # 0 /\ steps' > 0 /\ elf \in Elf /\ Valid(elf)
      /\ verdict = -1
  BY <1>1, <1>3, PollFrame, ZenonT(60)
<1>5. memory' = memory /\ printed' = printed /\ verdict' = -1 /\ stage' = "running"
  BY <1>1, <1>4, PollOutcome, ZenonT(60) DEF Polled, Quiet
<1>6. Polled'
  BY <1>1, <1>3, <1>5, ZenonT(60) DEF Polled, HighExplained
<1>7. RunnerShape'
  BY <1>1, <1>4, <1>5, <1>6, ShapeKept, ZenonT(60)
<1>8. OutputHonest'
  <2>1. steps > 0
    BY <1>1
  <2> QED BY <1>1, <1>4, <1>5, <2>1, ZenonT(60) DEF RunnerInv, ConformanceHonest, OutputHonest
<1>9. VerdictHonest'
  BY <1>1, <1>3, <1>4, <1>5 DEF RunnerInv, ConformanceHonest, VerdictHonest
<1> QED BY <1>4, <1>7, <1>8, <1>9, ZenonT(60) DEF RunnerInv, ConformanceHonest

(* The guest in a macro.                                                   *)
LEMMA InMacro ==
  ASSUME RunnerInv, stage = "running", guest.next # "test"
  PROVE /\ steps \in Nat /\ steps # 0 /\ steps > 0 /\ steps + 1 > 0
        /\ Polled /\ elf \in Elf /\ Valid(elf) /\ DOMAIN memory = RamAddresses
        /\ said \in Seq(Nat) /\ halted = FALSE /\ verdict = -1
        /\ guest.code \in Nat /\ (guest.halt => guest.code \in {1, 3})
        /\ guest.halt \in BOOLEAN /\ GuestAt(guest)
<1>1. guest # TestCode
  BY DEF TestCode
<1>2. /\ steps \in Nat /\ steps # 0 /\ Polled /\ elf \in Elf /\ Valid(elf)
      /\ DOMAIN memory = RamAddresses /\ said \in Seq(Nat) /\ halted = FALSE /\ verdict = -1
      /\ GuestAt(guest)
  BY <1>1 DEF RunnerInv, RunnerTypeOK, RunnerShape
<1>3. guest.code \in Nat /\ (guest.halt => guest.code \in {1, 3}) /\ guest.halt \in BOOLEAN
  BY <1>2 DEF GuestAt
<1>4. steps > 0 /\ steps + 1 > 0
  BY <1>2
<1> QED BY <1>2, <1>3, <1>4, ZenonT(60)

(* The low half stored: with a zero high half the code 1 or 3 ends the     *)
(* run, whoever stored it.                                                 *)
LEMMA StoreLowRunner ==
  ASSUME RunnerInv, Step, StoreLow
  PROVE RunnerInv'
<1> DEFINE ram == StoreWord(0, EndStatus(guest.code))
           w == Word(elf, ram)
<1>1. /\ stage = "running" /\ steps' = steps + 1 /\ elf' = elf /\ limit' = limit
      /\ guest.next = "low" /\ Poll(ram) /\ guest' = [guest EXCEPT !.next = "high"]
      /\ said' = said /\ halted' = halted
  BY DEF Step, StoreLow
<1>2. /\ steps \in Nat /\ steps # 0 /\ steps > 0 /\ steps + 1 > 0
      /\ Polled /\ elf \in Elf /\ Valid(elf) /\ DOMAIN memory = RamAddresses
      /\ said \in Seq(Nat) /\ halted = FALSE /\ verdict = -1
      /\ guest.code \in Nat /\ (guest.halt => guest.code \in {1, 3}) /\ guest.halt \in BOOLEAN
      /\ GuestAt(guest) /\ guest.next # "test"
  <2>1. guest.next # "test"
    BY <1>1
  <2> QED BY <1>1, <2>1, InMacro, ZenonT(60)
<1>3. /\ GuestAt(guest') /\ guest'.next = "high" /\ guest'.halt = guest.halt /\ guest'.code = guest.code
  BY <1>1, <1>2, MacroStep, ZenonT(60)
<1>4. DOMAIN ram = RamAddresses
  BY <1>2 DEF StoreWord
<1>5. /\ IsWord(w) /\ Low(w, EndStatus(guest.code)) /\ High(w, Word(elf, memory))
      /\ IsWord(EndStatus(guest.code)) /\ w[0] = guest.code
  <2>1. Low(w, EndStatus(guest.code)) /\ High(w, Word(elf, memory))
    BY <1>2, HalvesStored, ZenonT(60)
  <2>2. 0 \in 0..3
    OBVIOUS
  <2>3. w[0] = EndStatus(guest.code)[0]
    BY <2>1, <2>2, ZenonT(60) DEF Low
  <2>4. IsWord(w)
    BY DEF Word, IsWord
  <2> QED BY <2>1, <2>3, <2>4, EndStatusWord, ZenonT(60)
<1> HIDE DEF ram, w
<1>6. ~HtifConsole(w) /\ HighExplained(w)
  <2>1. ~HtifConsole(w)
    BY <1>2, <1>5, NoCommand, ZenonT(60) DEF Polled, Quiet
  <2>2. HighExplained(w)
    BY <1>2, <1>5, ZenonT(60) DEF Polled, HighExplained, High
  <2> QED BY <2>1, <2>2
<1>7. /\ RunnerTypeOK' /\ ImageLoaded' /\ steps' # 0 /\ steps' > 0
      /\ stage' = "ended" \/ (stage' = "running" /\ verdict' = -1)
  <2>1. halted' \in BOOLEAN
    BY <1>1, <1>2, ZenonT(60)
  <2> QED BY <1>1, <1>2, <1>3, <1>4, <2>1, PollFrame, ZenonT(60)
<1>8. printed' = printed
  BY <1>1, <1>6, PollOutcome, ZenonT(60) DEF w
<1>9. OutputHonest'
  BY <1>1, <1>2, <1>7, <1>8, ZenonT(60) DEF RunnerInv, ConformanceHonest, OutputHonest
<1>10. CASE w = EndStatus(1) \/ w = EndStatus(3)
  <2>1. EndStatus(1)[0] = 1 /\ EndStatus(3)[0] = 3
    BY EndStatusWord
  <2>2. /\ stage' = "ended"
        /\ \/ verdict' = 0 /\ guest.code = 1
           \/ verdict' = 1 /\ guest.code = 3
    <3>1. \/ w = EndStatus(1) /\ guest.code = 1 /\ stage' = "ended" /\ verdict' = 0
          \/ w = EndStatus(3) /\ guest.code = 3 /\ stage' = "ended" /\ verdict' = 1
          \/ Quiet(w)
      <4>1. \/ w = EndStatus(1) /\ stage' = "ended" /\ verdict' = 0
            \/ w = EndStatus(3) /\ stage' = "ended" /\ verdict' = 1
            \/ Quiet(w)
        BY <1>1, <1>6, PollOutcome, ZenonT(60) DEF w
      <4> QED BY <1>5, <2>1, <4>1
    <3> QED BY <1>10, <3>1, ZenonT(60) DEF Quiet
  <2>3. RunnerShape'
    BY <1>1, <1>2, <1>7, <2>2, ShapeKept, ZenonT(60)
  <2>4. VerdictHonest'
    BY <1>2, <1>3, <2>2 DEF VerdictHonest, Halting, Mistaken
  <2> QED BY <1>7, <1>9, <2>3, <2>4, ZenonT(60) DEF RunnerInv, ConformanceHonest
<1>11. CASE w # EndStatus(1) /\ w # EndStatus(3)
  <2>1. memory' = ram /\ verdict' = -1 /\ stage' = "running"
    BY <1>1, <1>2, <1>6, <1>11, PollOutcome, ZenonT(60) DEF w
  <2>2. Word(elf', memory') = w
    BY <1>1, <2>1, ZenonT(60) DEF w
  <2>3. Polled'
    <3>1. Quiet(w)
      BY <1>6, <1>11 DEF Quiet
    <3> QED BY <1>1, <1>3, <1>5, <1>6, <2>2, <3>1, ZenonT(60) DEF Polled, HighExplained
  <2>4. RunnerShape'
    BY <1>1, <1>2, <1>7, <2>1, <2>3, ShapeKept, ZenonT(60)
  <2>5. ASSUME guest.halt
        PROVE said = <<>> /\ ~HtifConsole(Preset(elf)) /\ \E i \in 4..7 : Preset(elf)[i] # 0
    <3>1. w # EndStatus(guest.code)
      BY <1>2, <1>11, <2>5, ZenonT(60)
    <3>2. ~High(w, EndStatus(guest.code))
      BY <1>5, <3>1, TwoHalves, ZenonT(60)
    <3>3. \A i \in 4..7 : EndStatus(guest.code)[i] = 0 /\ EndStatus(0)[i] = 0
      BY EndStatusWord, ZenonT(60)
    <3>4. ~High(w, EndStatus(0)) /\ \E i \in 4..7 : w[i] # 0
      <4>1. PICK i \in 4..7 : w[i] # EndStatus(guest.code)[i]
        BY <3>2, ZenonT(60) DEF High
      <4>2. w[i] # 0 /\ w[i] # EndStatus(0)[i]
        BY <3>3, <4>1
      <4> QED BY <4>2, ZenonT(60) DEF High
    <3>5. said = <<>> /\ ~HtifConsole(Preset(elf)) /\ High(w, Preset(elf))
      BY <1>6, <3>4, ZenonT(60) DEF HighExplained
    <3> QED BY <3>4, <3>5, ZenonT(60) DEF High
  <2>6. VerdictHonest'
    <3>1. guest'.halt => said' = <<>> /\ ~HtifConsole(Preset(elf')) /\ \E i \in 4..7 : Preset(elf')[i] # 0
      BY <1>1, <1>3, <2>5, ZenonT(60)
    <3> QED BY <1>1, <1>2, <2>1, <3>1 DEF VerdictHonest
  <2> QED BY <1>7, <1>9, <2>4, <2>6, ZenonT(60) DEF RunnerInv, ConformanceHonest
<1> QED BY <1>10, <1>11, ZenonT(60)

(* The high half of a character stored: the character is printed and the   *)
(* word cleared.                                                           *)
LEMMA StoreHighCharRunner ==
  ASSUME RunnerInv, Step, StoreHighChar
  PROVE RunnerInv'
<1> DEFINE ram == StoreWord(4, kHtifConsoleCommand)
           w == Word(elf, ram)
<1>1. /\ stage = "running" /\ steps' = steps + 1 /\ elf' = elf /\ limit' = limit
      /\ guest.next = "high" /\ Poll(ram) /\ guest' = TestCode
      /\ said' = Append(said, guest.code) /\ halted' = halted
  BY DEF Step, StoreHighChar
<1>2. /\ steps \in Nat /\ steps # 0 /\ steps > 0 /\ steps + 1 > 0
      /\ Polled /\ elf \in Elf /\ Valid(elf) /\ DOMAIN memory = RamAddresses
      /\ said \in Seq(Nat) /\ halted = FALSE /\ verdict = -1 /\ guest.code \in Nat
  <2>1. guest.next # "test"
    BY <1>1
  <2> QED BY <1>1, <2>1, InMacro, ZenonT(60)
<1>3. /\ GuestAt(guest') /\ guest'.next = "test" /\ guest'.halt = FALSE
      /\ said' \in Seq(Nat) /\ halted' = FALSE /\ halted' \in BOOLEAN
  <2>1. Append(said, guest.code) \in Seq(Nat)
    BY <1>2, AppendProperties, ZenonT(60)
  <2> QED BY <1>1, <1>2, <2>1, StartPlace, ZenonT(60)
<1>4. DOMAIN ram = RamAddresses
  BY <1>2 DEF StoreWord
<1>5. w[0] = guest.code /\ HtifConsole(w)
  <2>1. Low(w, Word(elf, memory)) /\ High(w, kHtifConsoleCommand)
    BY <1>2, HalvesStored, ZenonT(60)
  <2>2. Low(Word(elf, memory), EndStatus(guest.code))
    BY <1>1, <1>2, ZenonT(60) DEF Polled
  <2>3. 0 \in 0..3 /\ EndStatus(guest.code)[0] = guest.code
    BY EndStatusWord
  <2>4. w[0] = guest.code
    BY <2>1, <2>2, <2>3, ZenonT(60) DEF Low
  <2>5. HtifConsole(w)
    BY <2>1, ZenonT(60) DEF High, HtifConsole
  <2> QED BY <2>4, <2>5
<1> HIDE DEF ram, w
<1>6. /\ RunnerTypeOK' /\ ImageLoaded' /\ steps' # 0 /\ steps' > 0
  BY <1>1, <1>2, <1>3, <1>4, PollFrame, ZenonT(60)
<1>7. /\ printed' = Append(printed, guest.code) /\ verdict' = -1 /\ stage' = "running"
      /\ memory' = Cleared(ram, find_tohost_symbol(elf))
  <2>1. w # EndStatus(1) /\ w # EndStatus(3)
    BY <1>5, StatusNoCommand, ZenonT(60)
  <2> QED BY <1>1, <1>2, <1>5, <2>1, PollOutcome, ZenonT(60) DEF w, Quiet
<1>8. Polled'
  <2>1. Word(elf', memory') = EndStatus(0)
    BY <1>1, <1>2, <1>4, <1>7, WordCleared, ZenonT(60)
  <2>2. EndStatus(0) # EndStatus(1) /\ EndStatus(0) # EndStatus(3)
    BY EndStatusWord
  <2>3. Quiet(EndStatus(0)) /\ High(EndStatus(0), EndStatus(0))
    BY <2>2, StatusNoCommand, EndStatusWord, ZenonT(60) DEF Quiet
  <2>4. guest'.next # "high"
    BY <1>3
  <2> QED BY <2>1, <2>3, <2>4, ZenonT(60) DEF Polled, HighExplained
<1>9. RunnerShape'
  BY <1>1, <1>2, <1>3, <1>6, <1>7, <1>8, ShapeKept, ZenonT(60)
<1>10. OutputHonest'
  <2> DEFINE before == IF HtifConsole(Preset(elf)) THEN <<Preset(elf)[0]>> ELSE <<>>
  <2>1. printed = before \o said
    BY <1>2, ZenonT(60) DEF RunnerInv, ConformanceHonest, OutputHonest
  <2>2. Append(before \o said, guest.code) = before \o Append(said, guest.code)
    BY <1>2, AppendAfter, ZenonT(60)
  <2>3. printed' = before \o said'
    BY <1>1, <1>7, <2>1, <2>2, ZenonT(60)
  <2> QED BY <1>1, <1>6, <2>3, ZenonT(60) DEF OutputHonest
<1>11. VerdictHonest'
  BY <1>3, <1>7 DEF VerdictHonest
<1> QED BY <1>6, <1>9, <1>10, <1>11, ZenonT(60) DEF RunnerInv, ConformanceHonest

(* The high half of a halt stored: whatever was there before, the word is  *)
(* now the status and ends the run.                                        *)
LEMMA StoreHighHaltRunner ==
  ASSUME RunnerInv, Step, StoreHighHalt
  PROVE RunnerInv'
<1> DEFINE ram == StoreWord(4, EndStatus(0))
           w == Word(elf, ram)
<1>1. /\ stage = "running" /\ steps' = steps + 1 /\ elf' = elf /\ limit' = limit
      /\ guest.next = "high" /\ guest.halt /\ Poll(ram) /\ guest' = [guest EXCEPT !.next = "low"]
      /\ said' = said /\ halted' = TRUE
  BY DEF Step, StoreHighHalt
<1>2. /\ steps \in Nat /\ steps # 0 /\ steps > 0 /\ steps + 1 > 0
      /\ Polled /\ elf \in Elf /\ Valid(elf) /\ DOMAIN memory = RamAddresses
      /\ said \in Seq(Nat) /\ verdict = -1 /\ guest.code \in {1, 3}
      /\ GuestAt(guest) /\ halted' \in BOOLEAN
  <2>1. guest.next # "test"
    BY <1>1
  <2> QED BY <1>1, <2>1, InMacro
<1>3. GuestAt(guest') /\ guest'.halt = guest.halt /\ guest'.code = guest.code
  BY <1>1, <1>2, MacroStep, ZenonT(60)
<1>4. DOMAIN ram = RamAddresses
  BY <1>2 DEF StoreWord
<1>5. w = EndStatus(guest.code)
  <2>1. Low(w, Word(elf, memory)) /\ High(w, EndStatus(0))
    BY <1>2, HalvesStored, ZenonT(60)
  <2>2. Low(Word(elf, memory), EndStatus(guest.code))
    BY <1>1, <1>2, ZenonT(60) DEF Polled
  <2>3. /\ IsWord(EndStatus(guest.code))
        /\ \A i \in 4..7 : EndStatus(guest.code)[i] = 0 /\ EndStatus(0)[i] = 0
    BY EndStatusWord, ZenonT(60)
  <2>4. Low(w, EndStatus(guest.code)) /\ High(w, EndStatus(guest.code))
    BY <2>1, <2>2, <2>3, ZenonT(60) DEF Low, High
  <2>5. IsWord(w)
    BY DEF Word, IsWord
  <2> QED BY <2>3, <2>4, <2>5, TwoHalves, ZenonT(60)
<1> HIDE DEF ram, w
<1>6. /\ RunnerTypeOK' /\ ImageLoaded' /\ steps' # 0 /\ steps' > 0
  BY <1>1, <1>2, <1>3, <1>4, PollFrame, ZenonT(60)
<1>7. /\ stage' = "ended" /\ printed' = printed
      /\ \/ verdict' = 0 /\ guest.code = 1
         \/ verdict' = 1 /\ guest.code = 3
  <2>1. EndStatus(1) # EndStatus(3) /\ ~HtifConsole(w)
    <3>1. EndStatus(1)[0] = 1 /\ EndStatus(3)[0] = 3
      BY EndStatusWord
    <3>2. ~HtifConsole(w)
      BY <1>5, StatusNoCommand, ZenonT(60)
    <3> QED BY <3>1, <3>2
  <2>2. (w = EndStatus(1) /\ guest.code = 1) \/ (w = EndStatus(3) /\ guest.code = 3)
    <3>1. guest.code = 1 \/ guest.code = 3
      BY <1>2
    <3> QED BY <1>5, <3>1
  <2>3. \/ w = EndStatus(1) /\ stage' = "ended" /\ verdict' = 0 /\ printed' = printed
        \/ w = EndStatus(3) /\ stage' = "ended" /\ verdict' = 1 /\ printed' = printed
        \/ Quiet(w)
    BY <1>1, <2>1, PollOutcome, ZenonT(60) DEF w
  <2>4. ~Quiet(w)
    BY <2>2, ZenonT(60) DEF Quiet
  <2> QED BY <2>1, <2>2, <2>3, <2>4
<1>8. RunnerShape'
  BY <1>1, <1>2, <1>6, <1>7, ShapeKept, ZenonT(60)
<1>9. OutputHonest'
  BY <1>1, <1>2, <1>6, <1>7, ZenonT(60) DEF RunnerInv, ConformanceHonest, OutputHonest
<1>10. VerdictHonest'
  BY <1>1, <1>3, <1>7 DEF VerdictHonest, Halting
<1> QED BY <1>6, <1>8, <1>9, <1>10, ZenonT(60) DEF RunnerInv, ConformanceHonest

(* One instruction and the poll after it.                                  *)
LEMMA StepRunner == RunnerInv /\ Step => RunnerInv'
<1> SUFFICES ASSUME RunnerInv, Step PROVE RunnerInv'
  OBVIOUS
<1>1. OtherInstruction \/ StoreLow \/ StoreHighChar \/ StoreHighHalt
  BY ZenonT(60) DEF Step
<1> QED BY <1>1, FirstRunner, OtherRunner, StoreLowRunner, StoreHighCharRunner, StoreHighHaltRunner,
           ZenonT(60)

(* The limit ends a run that decided nothing.                              *)
LEMMA TimeoutRunner == RunnerInv /\ Timeout => RunnerInv'
<1> SUFFICES ASSUME RunnerInv, Timeout PROVE RunnerInv'
  OBVIOUS
<1>1. /\ stage = "running" /\ steps = limit /\ stage' = "ended" /\ verdict' = 2
      /\ UNCHANGED <<elf, memory, limit, steps, guest, said, halted, printed>>
  BY ZenonT(60) DEF Timeout
<1>2. limit # 0 /\ verdict = -1
  BY <1>1, ZenonT(60) DEF RunnerInv, RunnerTypeOK, RunnerShape
<1>3. RunnerTypeOK'
  BY <1>1 DEF RunnerInv, RunnerTypeOK
<1>4. RunnerShape'
  BY <1>1, <1>2, ZenonT(60) DEF RunnerInv, RunnerShape
<1>5. ImageLoaded'
  BY <1>1, <1>2, ZenonT(60) DEF ImageLoaded
<1>6. OutputHonest'
  BY <1>1, ZenonT(60) DEF RunnerInv, ConformanceHonest, OutputHonest
<1>7. VerdictHonest'
  BY <1>1, <1>2 DEF RunnerInv, ConformanceHonest, VerdictHonest
<1> QED BY <1>3, <1>4, <1>5, <1>6, <1>7 DEF RunnerInv, ConformanceHonest

(* Every step of the runner preserves its invariant.                       *)
LEMMA NextRunner == RunnerInv /\ [ConformanceNext]_conformanceVars => RunnerInv'
<1> SUFFICES ASSUME RunnerInv, [ConformanceNext]_conformanceVars PROVE RunnerInv'
  OBVIOUS
<1>1. CASE UNCHANGED conformanceVars
  <2>1. UNCHANGED <<stage, elf, memory, limit, steps, guest, said, halted, printed, verdict>>
    BY <1>1 DEF conformanceVars
  <2>2. RunnerTypeOK'
    BY <2>1 DEF RunnerInv, RunnerTypeOK
  <2>3. RunnerShape'
    BY <2>1, ZenonT(60) DEF RunnerInv, RunnerShape, Polled, HighExplained
  <2>4. ImageLoaded'
    BY <2>1, ZenonT(60) DEF RunnerInv, ConformanceHonest, ImageLoaded
  <2>5. OutputHonest'
    BY <2>1, ZenonT(60) DEF RunnerInv, ConformanceHonest, OutputHonest
  <2>6. VerdictHonest'
    BY <2>1, ZenonT(60) DEF RunnerInv, ConformanceHonest, VerdictHonest, Halting, Mistaken
  <2> QED BY <2>2, <2>3, <2>4, <2>5, <2>6 DEF RunnerInv, ConformanceHonest
<1> QED BY <1>1, ParseOptionsRunner, LoadRunner, StepRunner, TimeoutRunner DEF ConformanceNext

(* The runner's inductive invariant.  Between two instructions of a run    *)
(* the word at tohost is none the loop acts on; its high half is zero, or  *)
(* still the image's and no command; and between a macro's two stores its  *)
(* low half is the macro's code.                                           *)
THEOREM RunnerInvariant == ConformanceSpec => []RunnerInv
BY InitRunner, NextRunner, PTL DEF ConformanceSpec

(* The conformance runner loads an image exactly as its headers say or     *)
(* refuses it without touching RAM; prints every character the guest       *)
(* writes in two stores once and in order, with the loop looking at the    *)
(* word in between; and exits with 0 or 1 only in the guest's own halt     *)
(* macro, by a status the image holds at tohost, or at the low half of a   *)
(* character 1 or 3.  For every RAM range, image, command line, limit and  *)
(* set of characters.                                                      *)
THEOREM RunnerHonest == ConformanceSpec => []ConformanceHonest
<1>1. RunnerInv => ConformanceHonest
  BY DEF RunnerInv
<1> QED BY <1>1, RunnerInvariant, PTL

-----------------------------------------------------------------------------
(* Traps.                                                                  *)

TrapInv == TrapTypeOK /\ FrameKept /\ HandlerMasked /\ MprvOnlyInMachine

USE DEF U, S, M

(* Program counters stay even and in range.                                *)
LEMMA EvenFacts ==
  /\ 0 \in EvenAddress
  /\ trap_vector \subseteq EvenAddress
  /\ \A a \in Address : Aligned(a) \in EvenAddress
  /\ \A a \in EvenAddress : Aligned(a) = a
  /\ \A a \in EvenAddress : sequential(a) \in EvenAddress
<1> USE TrapAssumption
<1>1. 0 \in EvenAddress /\ trap_vector \subseteq EvenAddress
  BY DEF EvenAddress, Address, trap_vector
<1>2. \A a \in Address : Aligned(a) \in EvenAddress
  BY DEF EvenAddress, Address, Aligned
<1>3. \A a \in EvenAddress : Aligned(a) = a
  BY DEF EvenAddress, Address, Aligned
<1>4. \A a \in EvenAddress : sequential(a) \in EvenAddress
  BY DEF EvenAddress, Address, sequential
<1> QED BY <1>1, <1>2, <1>3, <1>4, ZenonT(60)

(* Reset satisfies the invariant.                                          *)
LEMMA InitTrapInv == TrapInit => TrapInv
<1> SUFFICES ASSUME TrapInit PROVE TrapInv
  OBVIOUS
<1>1. mstatus \in Mstatus /\ mstatus.MPP # 2 /\ ~mstatus.MPRV
  BY DEF TrapInit, Mstatus
<1>2. TrapTypeOK
  BY <1>1, EvenFacts, ZenonT(60) DEF TrapInit, TrapTypeOK
<1> QED BY <1>1, <1>2, ZenonT(60) DEF TrapInit, TrapInv, FrameKept, HandlerMasked, MprvOnlyInMachine

(* No trap goes from M to S.                                               *)
LEMMA TrapNotDownwards ==
  /\ \A i \in select_pending_interrupt : Target(i) \in {S, M} /\ (Target(i) = S => privilege # M)
  /\ \A cause : exception_delegated(cause) => privilege # M
BY DEF select_pending_interrupt, Takeable, Target, exception_delegated

(* Trap entry saves the interrupted context in the frame of its level and  *)
(* leaves the other level's frame alone.                                   *)
LEMMA EnterTrapInv ==
  ASSUME TrapInv, NEW target \in {S, M}, target = S => privilege # M, EnterTrap(target)
  PROVE TrapInv'
<1> USE DEF TrapInv, TrapTypeOK
<1>1. CASE target = M
  <2>1. /\ mstatus' = [mstatus EXCEPT !.MPIE = mstatus.MIE, !.MIE = FALSE, !.MPP = privilege]
        /\ mepc' = pc
        /\ mframe' = {[priv |-> privilege, ie |-> mstatus.MIE, at |-> pc]}
        /\ UNCHANGED <<sepc, sframe, medeleg, mideleg, mie, mip>>
        /\ privilege' = M /\ pc' \in EvenAddress /\ waiting' = FALSE
    BY <1>1, EvenFacts DEF EnterTrap, enter_machine_trap, deviceVars
  <2>2. TrapTypeOK'
    <3>1. privilege \in {0, 1, 2, 3} /\ privilege # 2
      OBVIOUS
    <3>2. mstatus' \in Mstatus /\ mstatus'.MPP # 2
      BY <2>1, <3>1, ZenonT(60) DEF Mstatus
    <3>3. [priv |-> privilege, ie |-> mstatus.MIE, at |-> pc] \in Frame
      BY ZenonT(60) DEF Mstatus, Frame
    <3> QED BY <2>1, <3>2, <3>3, ZenonT(60)
  <2>3. FrameKept'
    BY <2>1 DEF Mstatus, FrameKept
  <2>4. HandlerMasked' /\ MprvOnlyInMachine'
    BY <2>1 DEF Mstatus, HandlerMasked, MprvOnlyInMachine
  <2> QED BY <2>2, <2>3, <2>4, ZenonT(60)
<1>2. CASE target = S
  <2>1. /\ mstatus' = [mstatus EXCEPT !.SPIE = mstatus.SIE, !.SIE = FALSE, !.SPP = privilege]
        /\ sepc' = pc
        /\ sframe' = {[priv |-> privilege, ie |-> mstatus.SIE, at |-> pc]}
        /\ UNCHANGED <<mepc, mframe, medeleg, mideleg, mie, mip>>
        /\ privilege' = S /\ pc' \in EvenAddress /\ waiting' = FALSE
        /\ privilege \in {U, S}
    BY <1>2, EvenFacts, ZenonT(60) DEF EnterTrap, enter_supervisor_trap, deviceVars
  <2>2. TrapTypeOK'
    <3>1. mstatus' \in Mstatus /\ mstatus'.MPP # 2
      BY <2>1, ZenonT(60) DEF Mstatus
    <3>2. [priv |-> privilege, ie |-> mstatus.SIE, at |-> pc] \in Frame
      BY ZenonT(60) DEF Mstatus, Frame
    <3> QED BY <2>1, <3>1, <3>2, ZenonT(60)
  <2>3. FrameKept'
    BY <2>1 DEF Mstatus, FrameKept
  <2>4. HandlerMasked' /\ MprvOnlyInMachine'
    BY <2>1 DEF Mstatus, HandlerMasked, MprvOnlyInMachine
  <2> QED BY <2>2, <2>3, <2>4, ZenonT(60)
<1> QED BY <1>1, <1>2, ZenonT(60)

(* What MRET does to mstatus.                                              *)
LEMMA MretStatus ==
  ASSUME NEW m \in Mstatus, NEW ie \in BOOLEAN, NEW mprv \in BOOLEAN
  PROVE /\ [m EXCEPT !.MIE = ie, !.MPIE = TRUE, !.MPP = U, !.MPRV = mprv] \in Mstatus
        /\ [m EXCEPT !.MIE = ie, !.MPIE = TRUE, !.MPP = U, !.MPRV = mprv].MPP = U
<1>1. [m EXCEPT !.MIE = ie, !.MPIE = TRUE, !.MPP = U, !.MPRV = mprv] \in Mstatus
  BY ZenonT(60) DEF Mstatus
<1>2. [m EXCEPT !.MIE = ie, !.MPIE = TRUE, !.MPP = U, !.MPRV = mprv].MPP = U
  BY DEF Mstatus
<1> QED BY <1>1, <1>2

(* MRET preserves the invariant.                                           *)
LEMMA MretInv ==
  ASSUME TrapInv, mret
  PROVE TrapInv'
<1> USE DEF TrapInv, TrapTypeOK, mret, return_from_machine, deviceVars
<1>1. TrapTypeOK'
  <2> DEFINE mprv == mstatus.MPRV /\ mstatus.MPP = M
  <2>0. mprv \in BOOLEAN
    OBVIOUS
  <2>1. mstatus' \in Mstatus /\ mstatus'.MPP # 2
    <3>1. mstatus' = [mstatus EXCEPT !.MIE = mstatus.MPIE, !.MPIE = TRUE, !.MPP = U,
                                     !.MPRV = mprv]
      OBVIOUS
    <3>2. mstatus.MPIE \in BOOLEAN
      BY DEF Mstatus
    <3>3. mstatus \in Mstatus
      OBVIOUS
    <3> HIDE DEF mprv, mret, TrapInv
    <3>4. mstatus' \in Mstatus /\ mstatus'.MPP = U
      BY <2>0, <3>1, <3>2, <3>3, MretStatus, ZenonT(60)
    <3> QED BY <3>4
  <2>2. privilege' \in {U, S, M}
    BY DEF Mstatus
  <2> QED BY <2>1, <2>2, ZenonT(60)
<1>2. FrameKept'
  BY DEF Mstatus, FrameKept
<1>3. HandlerMasked' /\ MprvOnlyInMachine'
  BY ZenonT(60) DEF Mstatus, HandlerMasked, MprvOnlyInMachine
<1> QED BY <1>1, <1>2, <1>3

(* SRET preserves the invariant.                                           *)
LEMMA SretInv ==
  ASSUME TrapInv, sret
  PROVE TrapInv'
<1> USE DEF TrapInv, TrapTypeOK, sret, return_from_supervisor, deviceVars
<1>1. TrapTypeOK'
  <2>1. mstatus' \in Mstatus /\ mstatus'.MPP # 2
    BY ZenonT(60) DEF Mstatus
  <2>2. privilege' \in {U, S, M}
    BY DEF Mstatus
  <2> QED BY <2>1, <2>2, ZenonT(60)
<1>2. FrameKept'
  BY DEF Mstatus, FrameKept
<1>3. HandlerMasked' /\ MprvOnlyInMachine'
  BY DEF Mstatus, HandlerMasked, MprvOnlyInMachine
<1> QED BY <1>1, <1>2, <1>3

(* Writes of mstatus and sstatus preserve the invariant.                   *)
LEMMA StatusWriteInv ==
  ASSUME TrapInv, NEW desired \in Desired,
         write_mstatus(desired) \/ write_sstatus(desired)
  PROVE TrapInv'
<1> desired \in Mstatus
  BY TrapAssumption
<1> USE DEF TrapInv, TrapTypeOK, CsrWrite, deviceVars
<1>1. CASE write_mstatus(desired)
  <2>1. mstatus' \in Mstatus /\ mstatus'.MPP # 2
    BY <1>1 DEF write_mstatus, Mstatus
  <2>2. TrapTypeOK'
    BY <1>1, <2>1, EvenFacts, ZenonT(60) DEF write_mstatus
  <2>3. privilege' = M
    BY <1>1 DEF write_mstatus
  <2> QED BY <1>1, <2>2, <2>3 DEF write_mstatus, FrameKept, HandlerMasked, MprvOnlyInMachine
<1>2. CASE write_sstatus(desired)
  <2>1. TrapTypeOK'
    <3>1. mstatus' \in Mstatus /\ mstatus'.MPP # 2
      BY <1>2, ZenonT(60) DEF write_sstatus, Mstatus
    <3> QED BY <1>2, <3>1, EvenFacts, ZenonT(60) DEF write_sstatus
  <2>2. FrameKept' /\ HandlerMasked' /\ MprvOnlyInMachine'
    BY <1>2 DEF write_sstatus, Mstatus, FrameKept, HandlerMasked, MprvOnlyInMachine
  <2> QED BY <2>1, <2>2, ZenonT(60)
<1> QED BY <1>1, <1>2, ZenonT(60)

(* Steps that leave mstatus and the saved contexts alone.                  *)
LEMMA QuietInv ==
  ASSUME TrapInv, UNCHANGED <<privilege, mstatus, mepc, sepc, mframe, sframe>>,
         pc' \in EvenAddress, waiting' \in BOOLEAN,
         medeleg' \in SUBSET DelegatableException, mideleg' \in SUBSET SupervisorInterrupt,
         mie' \in SUBSET Interrupt, mip' \in SUBSET Interrupt
  PROVE TrapInv'
BY ZenonT(60) DEF TrapInv, TrapTypeOK, FrameKept, HandlerMasked, MprvOnlyInMachine

(* Software writes to an epc register.                                     *)
LEMMA EpcWriteInv ==
  ASSUME TrapInv, NEW a \in Address, write_mepc(a) \/ write_sepc(a)
  PROVE TrapInv'
<1> USE EvenFacts DEF TrapInv, TrapTypeOK, FrameKept, HandlerMasked, MprvOnlyInMachine,
        CsrWrite, deviceVars
<1>1. CASE write_mepc(a)
  BY <1>1, ZenonT(60) DEF write_mepc
<1>2. CASE write_sepc(a)
  BY <1>2, ZenonT(60) DEF write_sepc
<1> QED BY <1>1, <1>2, ZenonT(60)

(* Software writes to the delegation and interrupt registers.              *)
LEMMA DeviceWriteInv ==
  ASSUME TrapInv, NEW bits \in SUBSET Interrupt,
         \/ write_mideleg(bits) \/ write_mie(bits) \/ write_sie(bits)
         \/ write_mip(bits) \/ write_sip(bits)
  PROVE TrapInv'
<1>t. TrapTypeOK
  BY DEF TrapInv
<1>p. /\ pc' \in EvenAddress /\ waiting' \in BOOLEAN
      /\ UNCHANGED <<privilege, mstatus, mepc, sepc, mframe, sframe, medeleg>>
  BY <1>t, EvenFacts, ZenonT(60)
     DEF TrapTypeOK, CsrWrite, write_mideleg, write_mie, write_sie, write_mip, write_sip
<1>1. mideleg' \in SUBSET SupervisorInterrupt
  BY <1>t, ZenonT(60) DEF TrapTypeOK, write_mideleg, write_mie, write_sie, write_mip, write_sip
<1>2. mideleg \subseteq Interrupt /\ SoftwareWritablePending \subseteq Interrupt
  BY <1>t DEF TrapTypeOK, SupervisorInterrupt, SoftwareWritablePending
<1>3. mie' \in SUBSET Interrupt
  BY <1>t, <1>2, ZenonT(60)
     DEF TrapTypeOK, write_mideleg, write_mie, write_sie, write_mip, write_sip
<1>4. mip' \in SUBSET Interrupt
  BY <1>t, <1>2, ZenonT(60)
     DEF TrapTypeOK, write_mideleg, write_mie, write_sie, write_mip, write_sip
<1>5. medeleg' \in SUBSET DelegatableException
  BY <1>t, <1>p, ZenonT(60) DEF TrapTypeOK
<1> QED BY <1>p, <1>1, <1>3, <1>4, <1>5, QuietInv

(* Every step of the hart and of the devices preserves TrapInv.            *)
LEMMA NextTrapInv == TrapInv /\ [TrapNext]_trapVars => TrapInv'
<1> SUFFICES ASSUME TrapInv, [TrapNext]_trapVars
             PROVE TrapInv'
  OBVIOUS
<1>t. TrapTypeOK
  BY DEF TrapInv
<1>1. ASSUME NEW i \in DeviceInterrupt, NEW asserted \in BOOLEAN,
             set_interrupt_pending(i, asserted)
      PROVE TrapInv'
  <2>1. mip' \in SUBSET Interrupt
    BY <1>1, <1>t, ZenonT(60) DEF set_interrupt_pending, DeviceInterrupt, TrapTypeOK
  <2> QED BY <1>1, <1>t, <2>1, QuietInv, ZenonT(60) DEF set_interrupt_pending, hartVars, TrapTypeOK
<1>2. CASE take_pending_interrupt
  BY <1>2, TrapNotDownwards, EnterTrapInv DEF take_pending_interrupt
<1>3. ASSUME NEW cause \in Exception, Fault(cause)
      PROVE TrapInv'
  BY <1>3, TrapNotDownwards, EnterTrapInv DEF Fault, take_trap
<1>4. ASSUME NEW a \in EvenAddress, Execute(a)
      PROVE TrapInv'
  BY <1>4, <1>t, QuietInv, ZenonT(60) DEF Execute, deviceVars, TrapTypeOK
<1>5. CASE wfi
  BY <1>5, <1>t, QuietInv, EvenFacts, ZenonT(60) DEF wfi, deviceVars, TrapTypeOK
<1>6. ASSUME NEW causes \in SUBSET Exception, write_medeleg(causes)
      PROVE TrapInv'
  <2>1. medeleg' \in SUBSET DelegatableException
    BY <1>6, ZenonT(60) DEF write_medeleg
  <2> QED BY <1>6, <1>t, <2>1, QuietInv, EvenFacts, ZenonT(60)
           DEF write_medeleg, CsrWrite, TrapTypeOK
<1>7. CASE Stall \/ UNCHANGED trapVars
  BY <1>7, <1>t, QuietInv, ZenonT(60) DEF Stall, trapVars, TrapTypeOK
<1> QED
  BY <1>1, <1>2, <1>3, <1>4, <1>5, <1>6, <1>7, MretInv, SretInv, StatusWriteInv, EpcWriteInv,
     DeviceWriteInv, ZenonT(60) DEF TrapNext

(* The contexts saved by traps survive, handlers run masked, and MPRV is   *)
(* never in force below M.                                                 *)
THEOREM TrapInvariants ==
  TrapSpec => [](TrapTypeOK /\ ContextKept)
<1>1. TrapInv => TrapTypeOK /\ ContextKept
  BY DEF TrapInv, ContextKept
<1>2. QED
  BY <1>1, InitTrapInv, NextTrapInv, PTL DEF TrapSpec

(* MRET and SRET give back exactly the interrupted context.                *)
THEOREM TrapRoundTrip == TrapSpec => RoundTrip
<1>1. TrapInv /\ [TrapNext]_trapVars =>
        [/\ mret => \A f \in mframe :
                     privilege' = f.priv /\ pc' = f.at /\ mstatus'.MIE = f.ie
         /\ sret => \A f \in sframe :
                     privilege' = f.priv /\ pc' = f.at /\ mstatus'.SIE = f.ie]_trapVars
  <2> SUFFICES ASSUME TrapInv
               PROVE /\ mret => \A f \in mframe :
                          privilege' = f.priv /\ pc' = f.at /\ mstatus'.MIE = f.ie
                     /\ sret => \A f \in sframe :
                          privilege' = f.priv /\ pc' = f.at /\ mstatus'.SIE = f.ie
    OBVIOUS
  <2>1. mstatus \in Mstatus /\ FrameKept
    BY DEF TrapInv, TrapTypeOK
  <2>2. mret => \A f \in mframe :
                  privilege' = f.priv /\ pc' = f.at /\ mstatus'.MIE = f.ie
    BY <2>1 DEF mret, return_from_machine, FrameKept, Mstatus
  <2>3. sret => \A f \in sframe :
                  privilege' = f.priv /\ pc' = f.at /\ mstatus'.SIE = f.ie
    BY <2>1 DEF sret, return_from_supervisor, FrameKept, Mstatus
  <2> QED BY <2>2, <2>3
<1> QED BY <1>1, InitTrapInv, NextTrapInv, PTL DEF TrapSpec, RoundTrip

(* No interrupt re-enters a level whose handler still runs masked.         *)
THEOREM TrapNoReentry == TrapSpec => NoReentry
<1>1. TrapInv =>
        [take_pending_interrupt =>
           /\ ~(privilege = M /\ mframe # {})
           /\ privilege = S /\ sframe # {} => privilege' = M]_trapVars
  <2> SUFFICES ASSUME TrapInv, NEW i \in select_pending_interrupt, EnterTrap(Target(i))
               PROVE /\ ~(privilege = M /\ mframe # {})
                     /\ privilege = S /\ sframe # {} => privilege' = M
    BY DEF take_pending_interrupt
  <2>1. Takeable(i)
    BY DEF select_pending_interrupt
  <2>2. HandlerMasked
    BY DEF TrapInv
  <2> QED BY <2>1, <2>2 DEF Takeable, HandlerMasked, EnterTrap, Target
<1> QED BY <1>1, InitTrapInv, NextTrapInv, PTL DEF TrapSpec, NoReentry

(* The level rises only through a trap that saves where it came from, and  *)
(* falls only through MRET and SRET.                                       *)
THEOREM TrapPrivilegeGate == TrapSpec => PrivilegeGate
<1> DEFINE Rise == privilege' > privilege =>
                     /\ pc' \in trap_vector
                     /\ \E f \in IF privilege' = M THEN mframe' ELSE sframe' :
                          f.priv = privilege /\ f.at = pc
           Fall == privilege' < privilege => mret \/ sret
<1>1. TrapInv /\ [TrapNext]_trapVars => [Rise /\ Fall]_trapVars
  <2> SUFFICES ASSUME TrapInv, TrapNext
               PROVE Rise /\ Fall
    OBVIOUS
  <2>t. privilege \in {U, S, M} /\ mstatus \in Mstatus
    BY DEF TrapInv, TrapTypeOK
  <2>1. ASSUME NEW target \in {S, M}, target = S => privilege # M, EnterTrap(target)
        PROVE Rise /\ Fall
    <3>1. CASE target = M
      <4> DEFINE f == [priv |-> privilege, ie |-> mstatus.MIE, at |-> pc]
      <4>1. f \in mframe' /\ f.priv = privilege /\ f.at = pc
        BY <2>1, <3>1 DEF EnterTrap, enter_machine_trap
      <4>2. privilege' = M /\ pc' \in trap_vector
        BY <2>1, <3>1 DEF EnterTrap
      <4> HIDE DEF f
      <4>3. Rise
        BY <4>1, <4>2
      <4>4. Fall
        BY <2>1, <2>t, <3>1, <4>2
      <4> QED BY <4>3, <4>4
    <3>2. CASE target = S
      <4> DEFINE f == [priv |-> privilege, ie |-> mstatus.SIE, at |-> pc]
      <4>1. f \in sframe' /\ f.priv = privilege /\ f.at = pc
        BY <2>1, <3>2 DEF EnterTrap, enter_supervisor_trap
      <4>2. privilege' = S /\ pc' \in trap_vector
        BY <2>1, <3>2 DEF EnterTrap
      <4> HIDE DEF f
      <4>3. Rise
        BY <4>1, <4>2
      <4>4. Fall
        BY <2>1, <2>t, <3>2, <4>2
      <4> QED BY <4>3, <4>4
    <3> QED BY <3>1, <3>2, ZenonT(60)
  <2>2. CASE take_pending_interrupt
    BY <2>1, <2>2, TrapNotDownwards, ZenonT(60) DEF take_pending_interrupt
  <2>3. ASSUME NEW cause \in Exception, Fault(cause)
        PROVE Rise /\ Fall
    BY <2>1, <2>3, TrapNotDownwards DEF Fault, take_trap
  <2>4. CASE mret
    BY <2>4, <2>t DEF mret, return_from_machine, Mstatus
  <2>5. CASE sret
    BY <2>5, <2>t DEF sret, return_from_supervisor, supervisor_return_allowed, Mstatus
  <2>6. CASE UNCHANGED privilege
    BY <2>6, <2>t
  <2> QED
    BY <2>2, <2>3, <2>4, <2>5, <2>6, ZenonT(60)
       DEF TrapNext, set_interrupt_pending, hartVars, Stall, trapVars, Execute, wfi, CsrWrite,
           write_mstatus, write_sstatus, write_mepc, write_sepc, write_medeleg, write_mideleg,
           write_mie, write_sie, write_mip, write_sip
<1> QED BY <1>1, InitTrapInv, NextTrapInv, PTL DEF TrapSpec, PrivilegeGate

=============================================================================
