---------------------------- MODULE BitmapProofs ----------------------------
(***************************************************************************)
(* Proofs about Bitmap, for every number of bits, every size of a byte and *)
(* every interleaving of a walk with the calls its callback makes.         *)
(***************************************************************************)
EXTENDS Bitmap, BitmapOpsProofs

-----------------------------------------------------------------------------
(* The two patterns the code formats with clear and set whole bytes. *)
LEMMA FormatFills ==
  /\ bitmap_format({}) = {}
  /\ bitmap_format(0 .. ByteBits - 1) = Cell
<1>1. ByteBits \in Nat \ {0} /\ byte_count \in Nat
  BY BitmapConstants DEF byte_count, leftover_bits
<1>2. \A c \in Cell : c % ByteBits \in 0 .. ByteBits - 1
  BY <1>1 DEF Cell
<1> QED BY <1>2 DEF bitmap_format

(* bitmap_ffs: the counterpart of FirstZero and NoZero for set bits. *)
LEMMA FirstOne ==
  ASSUME NEW bytes
  PROVE  LET s == bitmap_ffs(bytes)
         IN  IF bytes \cap Bit = {} THEN s = SIZE_MAX
             ELSE s \in bytes \cap Bit /\ \A b \in bytes \cap Bit : s <= b
<1> DEFINE stops == {r \in 0 .. BitCount : r = BitCount \/ r \in bytes}
           result == Min(stops)
<1>1. BitCount \in Nat /\ SIZE_MAX \in Nat /\ SIZE_MAX > BitCount
  BY BitmapConstants
<1>2. bitmap_ffs(bytes) = IF result = BitCount THEN SIZE_MAX ELSE result
  <2>1. stops = {r \in 0 .. BitCount : r = BitCount \/ bitmap_test(bytes, r) = TRUE}
    BY DEF bitmap_test
  <2> QED BY <2>1 DEF bitmap_ffs, ScanTo
<1>3. stops \subseteq Nat /\ BitCount \in stops /\ bytes \cap Bit \subseteq stops
  BY <1>1 DEF Bit
<1>4. result \in stops /\ \A y \in stops : result <= y
  <2> HIDE DEF stops
  <2> QED BY <1>3, MinOfNaturals
<1>5. CASE result = BitCount
  <2>1. \A b \in bytes \cap Bit : FALSE
    BY <1>1, <1>3, <1>4, <1>5 DEF Bit
  <2> QED BY <1>2, <1>5, <2>1
<1>6. CASE result # BitCount
  <2>1. result \in bytes \cap Bit
    BY <1>1, <1>4, <1>6 DEF Bit
  <2> QED BY <1>2, <1>3, <1>4, <1>6, <2>1
<1> QED BY <1>5, <1>6

-----------------------------------------------------------------------------
(* What every call of the interface stores: the cells of the bitmap, as    *)
(* some step of the plain set leaves its bits.                             *)
LEMMA StoreIsASetStep ==
  ASSUME TypeOK,
         \/ \E bit \in Bit : Set(bit) \/ Reset(bit) \/ Flip(bit)
         \/ Invert
         \/ \E pattern \in {{}, 0 .. ByteBits - 1} : Format(pattern)
  PROVE  /\ data' \subseteq Cell
         /\ Store(data')
         /\ Abstract!Next
<1> DEFINE bits == data \cap Bit
<1>0. data \subseteq Cell /\ Bit \subseteq Cell
  BY BitsFit DEF TypeOK
<1>1. ASSUME NEW bit \in Bit, Set(bit)
      PROVE  data' \subseteq Cell /\ Store(data') /\ (data \cap Bit)' = bits \cup {bit}
  BY <1>0, <1>1 DEF Set, Store, bitmap_set, Bit
<1>2. ASSUME NEW bit \in Bit, Reset(bit)
      PROVE  data' \subseteq Cell /\ Store(data') /\ (data \cap Bit)' = bits \ {bit}
  BY <1>0, <1>2 DEF Reset, Store, bitmap_reset, Bit
<1>3. ASSUME NEW bit \in Bit, Flip(bit)
      PROVE  /\ data' \subseteq Cell /\ Store(data')
             /\ (data \cap Bit)' = IF bit \in bits THEN bits \ {bit} ELSE bits \cup {bit}
  BY <1>0, <1>3 DEF Flip, Store, bitmap_flip, SymDiff, Bit
<1>4. ASSUME Invert
      PROVE  data' \subseteq Cell /\ Store(data') /\ (data \cap Bit)' = Bit \ bits
  BY <1>0, <1>4 DEF Invert, Store, bitmap_invert, Bit
<1>5. ASSUME NEW pattern \in {{}, 0 .. ByteBits - 1}, Format(pattern)
      PROVE  data' \subseteq Cell /\ Store(data') /\ (data \cap Bit)' \in {{}, Bit}
  BY <1>0, <1>5, FormatFills DEF Format, Store, Bit
<1>6. Bit = Abstract!Bit
  BY DEF Bit, Abstract!Bit
<1> QED
  BY <1>1, <1>2, <1>3, <1>4, <1>5, <1>6
  DEF Abstract!Next, Abstract!Insert, Abstract!Delete, Abstract!Toggle,
      Abstract!Complement, Abstract!Clear, Abstract!Fill

-----------------------------------------------------------------------------
(* The inductive invariant.  That a walk visits what was set throughout is *)
(* not inductive alone: the step at bit idx must know that such a bit is   *)
(* still set, and that a bit it finds set was set during the walk.         *)
WalkKnows ==
  /\ steady \subseteq data
  /\ idx < BitCount => data \cap Bit \subseteq seen

Inv == TypeOK /\ WalkKnows /\ ForEachVisits

LEMMA InitInv == Init => Inv
BY BitmapConstants DEF Init, Inv, TypeOK, WalkKnows, ForEachVisits

(* A call that comes between two visits. *)
LEMMA StoreInv ==
  ASSUME Inv, data' \subseteq Cell, Store(data')
  PROVE  Inv'
<1> USE DEF Inv, Store
<1>1. TypeOK'
  BY DEF TypeOK
<1>2. WalkKnows'
  BY DEF WalkKnows
<1>3. ForEachVisits'
  BY DEF ForEachVisits
<1> QED BY <1>1, <1>2, <1>3

(* A walk begins: nothing is below idx yet. *)
LEMMA ForEachInv == Inv /\ ForEach => Inv'
<1> SUFFICES ASSUME Inv, ForEach PROVE Inv'
  OBVIOUS
<1> USE DEF Inv, ForEach
<1>1. TypeOK'
  BY BitmapConstants DEF TypeOK
<1>2. WalkKnows'
  BY DEF WalkKnows
<1>3. ForEachVisits'
  <2>1. 0 .. idx' - 1 = {}
    OBVIOUS
  <2> QED BY <2>1 DEF ForEachVisits
<1> QED BY <1>1, <1>2, <1>3

(* The walk looks at one bit more. *)
LEMMA ForEachStepInv == Inv /\ ForEachStep => Inv'
<1> SUFFICES ASSUME Inv, ForEachStep PROVE Inv'
  OBVIOUS
<1> USE DEF Inv, ForEachStep
<1>1. BitCount \in Nat /\ idx \in Bit /\ idx' = idx + 1
  BY BitmapConstants DEF TypeOK, Bit
<1>2. TypeOK'
  BY <1>1 DEF TypeOK, Bit
<1>3. WalkKnows'
  BY <1>1 DEF WalkKnows, Bit
<1>4. ForEachVisits'
  <2>1. ASSUME NEW b \in steady, b \in 0 .. idx
        PROVE  b \in visited'
    <3>1. CASE b = idx
      BY <3>1 DEF WalkKnows, bitmap_test
    <3>2. CASE b # idx
      <4>1. b \in 0 .. idx - 1
        BY <1>1, <2>1, <3>2 DEF Bit
      <4> QED BY <4>1 DEF ForEachVisits
    <3> QED BY <3>1, <3>2
  <2>2. visited' \subseteq seen'
    BY <1>1 DEF WalkKnows, ForEachVisits, bitmap_test, Bit
  <2>3. 0 .. idx' - 1 = 0 .. idx
    BY <1>1 DEF Bit
  <2> QED BY <2>1, <2>2, <2>3 DEF ForEachVisits
<1> QED BY <1>2, <1>3, <1>4

LEMMA NextInv == Inv /\ [Next]_vars => Inv'
<1> SUFFICES ASSUME Inv, [Next]_vars PROVE Inv'
  OBVIOUS
<1>1. CASE ForEach
  BY <1>1, ForEachInv
<1>2. CASE ForEachStep
  BY <1>2, ForEachStepInv
<1>3. CASE \/ \E bit \in Bit : Set(bit) \/ Reset(bit) \/ Flip(bit)
           \/ Invert
           \/ \E pattern \in {{}, 0 .. ByteBits - 1} : Format(pattern)
  <2>1. data' \subseteq Cell /\ Store(data')
    BY <1>3, StoreIsASetStep DEF Inv
  <2> QED BY <2>1, StoreInv
<1>4. CASE UNCHANGED vars
  BY <1>4 DEF vars, Inv, TypeOK, WalkKnows, ForEachVisits
<1> QED BY <1>1, <1>2, <1>3, <1>4 DEF Next

LEMMA Invariance == Spec => []Inv
BY InitInv, NextInv, PTL DEF Spec

-----------------------------------------------------------------------------
(* No call writes a byte that bitmap_create did not allocate, and a walk   *)
(* stays within the bits.                                                  *)
THEOREM TypeCorrect == Spec => []TypeOK
<1>1. Inv => TypeOK
  BY DEF Inv
<1> QED BY <1>1, Invariance, PTL

(* bitmap_for_each reaches every bit that was set throughout the walk and  *)
(* no bit that was never set during it, whatever its callback does.        *)
THEOREM WalkIsComplete == Spec => []ForEachVisits
<1>1. Inv => ForEachVisits
  BY DEF Inv
<1> QED BY <1>1, Invariance, PTL

(* bitmap_ffs and bitmap_ffz answer the lowest bit of the kind they look   *)
(* for, and SIZE_MAX exactly when the bitmap has none.                     *)
THEOREM FirstFound == Spec => []FirstFoundIsLowest
<1>1. FirstFoundIsLowest
  <2>1. LET z == bitmap_ffz(data)
        IN  IF Bit \subseteq data THEN z = SIZE_MAX
            ELSE z \in Bit \ data /\ \A b \in Bit \ data : z <= b
    <3>1. CASE bitmap_ffz(data) = SIZE_MAX
      BY <3>1, NoZero
    <3>2. CASE bitmap_ffz(data) # SIZE_MAX
      BY <3>2, FirstZero
    <3> QED BY <3>1, <3>2
  <2> QED BY <2>1, FirstOne DEF FirstFoundIsLowest
<1> QED BY <1>1, PTL

(* bitmap_total_set counts the bits that are 1 and nothing else, whatever   *)
(* invert and format left in the padding of the last byte.                 *)
THEOREM TotalIsExact == Spec => []TotalSetExact
<1>1. Inv => TotalSetExact
  <2> SUFFICES ASSUME Inv PROVE TotalSetExact
    OBVIOUS
  <2>1. data \in SUBSET Nat
    <3>1. \A c \in Cell : c \in Nat
      BY DEF Cell
    <3> QED BY <3>1 DEF Inv, TypeOK
  <2>2. bitmap_total_set(data) = Cardinality(data \cap Bit)
    BY ONLY <2>1, TotalCounts
  <2> QED BY <2>2 DEF TotalSetExact
<1> QED BY <1>1, Invariance, PTL

(* The bytes implement a plain set of bits: whatever invert and format     *)
(* leave in the padding, no later answer about a bit depends on it.        *)
THEOREM BytesAreABitSet == Spec => IsBitSet
<1>1. Init => Abstract!Init
  BY DEF Init, Abstract!Init
<1>2. Inv /\ [Next]_vars => [Abstract!Next]_(data \cap Bit)
  <2> SUFFICES ASSUME Inv, [Next]_vars
               PROVE  Abstract!Next \/ (data \cap Bit)' = data \cap Bit
    OBVIOUS
  <2>1. CASE ForEach \/ ForEachStep \/ UNCHANGED vars
    BY <2>1 DEF ForEach, ForEachStep, vars, Bit
  <2>2. CASE \/ \E bit \in Bit : Set(bit) \/ Reset(bit) \/ Flip(bit)
             \/ Invert
             \/ \E pattern \in {{}, 0 .. ByteBits - 1} : Format(pattern)
    BY <2>2, StoreIsASetStep DEF Inv
  <2> QED BY <2>1, <2>2 DEF Next
<1> QED BY <1>1, <1>2, Invariance, PTL DEF Spec, IsBitSet, Abstract!Spec
=============================================================================
