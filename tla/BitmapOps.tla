------------------------------ MODULE BitmapOps ------------------------------
(***************************************************************************)
(* The operations of a4_block_store/src/bitmap.c as operators.  The byte   *)
(* array `data` of a bitmap_t is the set of the positions whose bit is 1;  *)
(* position 8*byte + k of the code is data[byte] & mask[k].                *)
(***************************************************************************)
EXTENDS Naturals, FiniteSets, FiniteSetsExt

CONSTANTS
  BitCount,  (* bit_count: the bits the caller asked for               *)
  ByteBits,  (* the bits of a byte: 8 in the code                      *)
  SIZE_MAX   (* the largest size_t, what ffs and ffz answer on failure *)

ASSUME BitmapConstants ==
  /\ BitCount \in Nat \ {0}
  /\ ByteBits \in Nat \ {0}
  /\ SIZE_MAX \in Nat /\ SIZE_MAX > BitCount

(* bitmap_initialize: whole bytes are allocated, the last may be padded. *)
leftover_bits == BitCount % ByteBits
byte_count == BitCount \div ByteBits + (IF leftover_bits # 0 THEN 1 ELSE 0)

Bit  == 0 .. BitCount - 1                  \* the bits of the bitmap
Cell == 0 .. byte_count * ByteBits - 1     \* those bits and the padding

bitmap_test(data, bit)  == bit \in data

(* Mutation: "=" for "|=" clears the other bits of the byte. *)
StoreOnlyBit(data, bit) ==
  {c \in data : c \div ByteBits # bit \div ByteBits} \cup {bit}

bitmap_set(data, bit)   == data \cup {bit}
bitmap_reset(data, bit) == data \ {bit}
bitmap_flip(data, bit)  == SymDiff(data, {bit})

(* Mutation: the memset of format is one byte too long. *)
FormatOneMore(pattern) ==
  {c \in 0 .. (byte_count + 1) * ByteBits - 1 : c % ByteBits \in pattern}

(* Both work on whole bytes: they change the padding too. *)
bitmap_invert(data)     == Cell \ data
bitmap_format(pattern)  == {c \in Cell : c % ByteBits \in pattern}

(* Mutation: the scan looks at the padding too. *)
ScanWholeBytes(data, value) ==
  LET stops == {r \in Cell : bitmap_test(data, r) = value}
  IN  IF stops = {} THEN SIZE_MAX ELSE Min(stops)

(* The scan of bitmap_ffs and bitmap_ffz: the loop runs while result is    *)
(* below bit_count and the bit at result is not yet the one looked for.    *)
ScanTo(data, value) ==
  LET stops  == {r \in 0 .. BitCount : r = BitCount \/ bitmap_test(data, r) = value}
      result == Min(stops)
  IN  IF result = BitCount THEN SIZE_MAX ELSE result

bitmap_ffs(data) == ScanTo(data, TRUE)
bitmap_ffz(data) == ScanTo(data, FALSE)

(* bit_totals[data[byte]] counts the first `width` bits of a byte. *)
BitTotal(data, byte, width) ==
  Cardinality({c \in data : c >= byte * ByteBits /\ c < byte * ByteBits + width})

(* Mutation: the last byte is not masked. *)
TotalUnmasked(data) ==
  MapThenSumSet(LAMBDA byte : BitTotal(data, byte, ByteBits), 0 .. byte_count - 1)

(* bitmap_total_set: the whole bytes, then the last one masked by          *)
(* mask_down_inclusive[leftover_bits - 1] when the bitmap is padded.       *)
bitmap_total_set(data) ==
  LET stop == IF leftover_bits # 0 THEN byte_count - 1 ELSE byte_count
  IN  MapThenSumSet(LAMBDA byte : BitTotal(data, byte, ByteBits), 0 .. stop - 1)
      + (IF leftover_bits # 0 THEN BitTotal(data, byte_count - 1, leftover_bits) ELSE 0)
=============================================================================
