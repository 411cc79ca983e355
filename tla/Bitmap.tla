------------------------------- MODULE Bitmap -------------------------------
(***************************************************************************)
(* A bitmap_t of a4_block_store/src/bitmap.c and its one caller.  Besides  *)
(* the calls that change the bytes, bitmap_for_each walks the bitmap and   *)
(* runs a callback at every set bit; the callback has the bitmap too, so   *)
(* any of those calls may come between two visits of the walk.             *)
(***************************************************************************)
EXTENDS BitmapOps

VARIABLES
  data,     \* the bytes: the positions that are 1
  idx,      \* idx of bitmap_for_each; BitCount when no walk is under way
  visited,  \* bits the walk has called func on
  steady,   \* history: bits that were 1 ever since the walk began
  seen      \* history: bits that were 1 at some time since it began

vars == <<data, idx, visited, steady, seen>>

TypeOK ==
  /\ data \subseteq Cell
  /\ idx \in 0 .. BitCount
  /\ visited \subseteq Bit /\ steady \subseteq Bit /\ seen \subseteq Bit

(* bitmap_create: calloc, so every bit and the padding are 0. *)
Init ==
  /\ data = {}
  /\ idx = BitCount
  /\ visited = {} /\ steady = {} /\ seen = {}

Store(bytes) ==
  /\ data' = bytes
  /\ steady' = steady \cap bytes
  /\ seen' = IF idx < BitCount THEN seen \cup (bytes \cap Bit) ELSE seen
  /\ UNCHANGED <<idx, visited>>

Set(bit)   == Store(bitmap_set(data, bit))
Reset(bit) == Store(bitmap_reset(data, bit))
Flip(bit)  == Store(bitmap_flip(data, bit))
Invert     == Store(bitmap_invert(data))
Format(pattern) == Store(bitmap_format(pattern))

(* bitmap_for_each is entered, and then looks at one bit at a time.  The   *)
(* test is made when the walk gets there, not when it starts.              *)
ForEachFromOne ==    \* Mutation: the walk starts at bit 1
  /\ idx = BitCount
  /\ idx' = 1
  /\ visited' = {}
  /\ steady' = data \cap Bit
  /\ seen' = data \cap Bit
  /\ UNCHANGED data

ForEach ==
  /\ idx = BitCount
  /\ idx' = 0
  /\ visited' = {}
  /\ steady' = data \cap Bit
  /\ seen' = data \cap Bit
  /\ UNCHANGED data

ForEachStep ==
  /\ idx < BitCount
  /\ idx' = idx + 1
  /\ visited' = IF bitmap_test(data, idx) THEN visited \cup {idx} ELSE visited
  /\ UNCHANGED <<data, steady, seen>>

Next ==
  \/ \E bit \in Bit : Set(bit) \/ Reset(bit) \/ Flip(bit)
  \/ Invert
  \/ \E pattern \in {{}, 0 .. ByteBits - 1} : Format(pattern)   \* memset 0x00, 0xFF
  \/ ForEach
  \/ ForEachStep

Spec == Init /\ [][Next]_vars

-----------------------------------------------------------------------------
(* bitmap_total_set counts exactly the bits that are 1, whatever invert,   *)
(* format or a byte-wide store left in the padding of the last byte.       *)
TotalSetExact == bitmap_total_set(data) = Cardinality(data \cap Bit)

(* bitmap_ffs and bitmap_ffz answer the lowest set and the lowest clear    *)
(* bit, and SIZE_MAX exactly when there is none: a 1 or a 0 in the padding *)
(* is never offered to a caller.                                           *)
FirstFoundIsLowest ==
  /\ LET s == bitmap_ffs(data) IN
       IF data \cap Bit = {} THEN s = SIZE_MAX
       ELSE s \in data \cap Bit /\ \A b \in data \cap Bit : s <= b
  /\ LET z == bitmap_ffz(data) IN
       IF Bit \subseteq data THEN z = SIZE_MAX
       ELSE z \in Bit \ data /\ \A b \in Bit \ data : z <= b

(* Whatever the callback does to the bitmap, bitmap_for_each has called it *)
(* for each bit below idx that was set throughout the walk, and for none   *)
(* that was clear throughout.                                              *)
ForEachVisits ==
  /\ steady \cap (0 .. idx - 1) \subseteq visited
  /\ visited \subseteq seen

(* The bytes with their padding implement a plain set of bits. *)
Abstract == INSTANCE BitSet WITH bits <- data \cap Bit
IsBitSet == Abstract!Spec
=============================================================================
