------------------------------- MODULE BitSet -------------------------------
(***************************************************************************)
(* What a bitmap promises: a set of bit numbers below BitCount, with no    *)
(* byte, mask or padding in sight.                                         *)
(***************************************************************************)
EXTENDS Naturals

CONSTANT BitCount
VARIABLE bits

Bit == 0 .. BitCount - 1

Init == bits = {}

Insert(b)  == bits' = bits \cup {b}
Delete(b)  == bits' = bits \ {b}
Toggle(b)  == bits' = IF b \in bits THEN bits \ {b} ELSE bits \cup {b}
Complement == bits' = Bit \ bits
Clear      == bits' = {}
Fill       == bits' = Bit

Next ==
  \/ \E b \in Bit : Insert(b) \/ Delete(b) \/ Toggle(b)
  \/ Complement
  \/ Clear
  \/ Fill

Spec == Init /\ [][Next]_bits
=============================================================================
