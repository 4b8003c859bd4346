------------------------- MODULE MCVectorImmediate --------------------------
(* vadd.vi on elements of 16 bits (bytes of two bits, as in MCHart).       *)
EXTENDS Vector

ZeroMemory == [a \in 0..15 |-> 0]

CountingFile == {[r \in 0..3 |-> [b \in 0..7 |-> b % 4]]}

AddImmediates ==
  {[kind |-> "integer", operation |-> "Add", form |-> "vi", masked |-> FALSE,
    vd |-> 2, vs2 |-> 2, vs1 |-> 0, scalar |-> immediate] : immediate \in {1, 15, 16, 31}}

=============================================================================
