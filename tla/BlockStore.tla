----------------------------- MODULE BlockStore -----------------------------
(***************************************************************************)
(* The block device of a4_block_store/src/block_store.c: BitCount blocks   *)
(* of BlockBits bits in one piece of memory.  The free block map is itself *)
(* kept in the device, in the reserved blocks from BITMAP_START_BLOCK on:  *)
(* a created device lays its bitmap over them, a device read from a file   *)
(* works on a private copy of them (module BlockStoreFile).                *)
(*                                                                         *)
(* Clients stand for the callers.  They follow the protocol of the header: *)
(* a client releases and writes the blocks it was given.                   *)
(***************************************************************************)
EXTENDS BitmapOps

CONSTANTS
  BlockBits,           (* BLOCK_SIZE_BYTES * 8                              *)
  BITMAP_START_BLOCK,  (* first of the blocks the free block map is kept in *)
  Client,              (* the callers                                       *)
  Values               (* what clients write: sets of bits of a block       *)

BLOCK_STORE_NUM_BLOCKS == BitCount
BITMAP_NUM_BLOCKS == BitCount \div BlockBits

Block    == 0 .. BLOCK_STORE_NUM_BLOCKS - 1
Offset   == 0 .. BlockBits - 1
Reserved == BITMAP_START_BLOCK .. BITMAP_START_BLOCK + BITMAP_NUM_BLOCKS - 1
Memory   == Block \X Offset

(* The map fills its blocks exactly, and it is inside the device. *)
ASSUME StoreConstants ==
  /\ BlockBits \in Nat \ {0}
  /\ BITMAP_START_BLOCK \in Nat
  /\ BitCount = BITMAP_NUM_BLOCKS * BlockBits
  /\ Reserved \subseteq Block
  /\ Values \subseteq SUBSET Offset

VARIABLES
  kind,   \* "none" (no device), "overlay" (created) or "import" (read from a file)
  mem,    \* num_blocks: the bits of the device that are 1, as <<block, offset>>
  copy,   \* the private map of an imported device
  owned,  \* history: the blocks each client was given and has not released
  wrote   \* history: {v} when the holder of a block last wrote v to it, else {}

vars == <<kind, mem, copy, owned, wrote>>

TypeOK ==
  /\ kind \in {"none", "overlay", "import"}
  /\ mem \subseteq Memory
  /\ copy \subseteq Block
  /\ owned \in [Client -> SUBSET Block]
  /\ wrote \in [Block -> SUBSET (SUBSET Offset)]

(* Mutations: the overlay lies one block too low, or one bit too high. *)
MapCellBlockLow(block) ==
  <<BITMAP_START_BLOCK - 1 + block \div BlockBits, block % BlockBits>>
MapCellBitHigh(block) ==
  <<BITMAP_START_BLOCK + block \div BlockBits, (block % BlockBits) + 1>>

(* Where the map keeps the bit of a block: byte bit/8 of the overlay.      *)
MapCell(block) ==
  <<BITMAP_START_BLOCK + block \div BlockBits, block % BlockBits>>

StoredMap(memory) == {b \in Block : MapCell(b) \in memory}
fbm == IF kind = "import" THEN copy ELSE StoredMap(mem)

(* A bitmap operation stores its result where the map of this device is.   *)
PutMap(map) ==
  IF kind = "import"
  THEN copy' = map /\ UNCHANGED mem
  ELSE /\ mem' = (mem \ (Reserved \X Offset)) \cup {MapCell(b) : b \in map}
       /\ UNCHANGED copy

Contents(block) == {i \in Offset : <<block, i>> \in mem}
Held == UNION {owned[c] : c \in Client}

-----------------------------------------------------------------------------
NoOwner == [c \in Client |-> {}]
NothingWritten == [b \in Block |-> {}]

Init ==
  /\ kind = "none" /\ mem = {} /\ copy = {}
  /\ owned = NoOwner
  /\ wrote = NothingWritten

(* calloc, overlay, then the two bitmap_set calls for the map's own blocks. *)
block_store_create ==
  /\ kind = "none"
  /\ kind' = "overlay"
  /\ mem' = {MapCell(b) : b \in Reserved}
  /\ copy' = {}
  /\ owned' = NoOwner
  /\ wrote' = NothingWritten

block_store_destroy ==
  /\ kind # "none"
  /\ kind' = "none" /\ mem' = {} /\ copy' = {}
  /\ owned' = NoOwner
  /\ wrote' = NothingWritten

Grant(c, block) ==
  /\ PutMap(bitmap_set(fbm, block))
  /\ owned' = [owned EXCEPT ![c] = @ \cup {block}]
  /\ wrote' = [wrote EXCEPT ![block] = {}]
  /\ UNCHANGED kind

block_store_allocate(c) ==
  /\ kind # "none"
  /\ LET ffz == bitmap_ffz(fbm) IN
       /\ ~ (ffz >= SIZE_MAX \/ ffz > BLOCK_STORE_NUM_BLOCKS)
       /\ Grant(c, ffz)

RequestUntested(c, block_id) ==    \* Mutation: the block may be in use
  /\ kind # "none"
  /\ block_id > 0 /\ block_id < BLOCK_STORE_NUM_BLOCKS
  /\ Grant(c, block_id)

block_store_request(c, block_id) ==
  /\ kind # "none"
  /\ block_id > 0 /\ block_id < BLOCK_STORE_NUM_BLOCKS
  /\ ~ bitmap_test(fbm, block_id)
  /\ Grant(c, block_id)

(* Releasing a block the map has as free changes nothing but the caller's  *)
(* own view of what it holds.                                              *)
block_store_release(c, block_id) ==
  /\ kind # "none"
  /\ block_id \in owned[c]
  /\ block_id < BLOCK_STORE_NUM_BLOCKS
  /\ IF bitmap_test(fbm, block_id)
     THEN PutMap(bitmap_reset(fbm, block_id))
     ELSE UNCHANGED <<mem, copy>>
  /\ owned' = [owned EXCEPT ![c] = @ \ {block_id}]
  /\ wrote' = [wrote EXCEPT ![block_id] = {}]
  /\ UNCHANGED kind

(* The guard of the code compares the block number with the device's size  *)
(* in BYTES; for a block of the device it is always true.                  *)
block_store_write(c, block_id, value) ==
  /\ kind # "none"
  /\ block_id \in owned[c]
  /\ mem' = (mem \ ({block_id} \X Offset)) \cup ({block_id} \X value)
  /\ wrote' = [wrote EXCEPT ![block_id] = {value}]
  /\ UNCHANGED <<kind, copy, owned>>

block_store_read(block_id) == Contents(block_id)

block_store_get_used_blocks == bitmap_total_set(fbm)
FreeWithoutMap ==    \* Mutation: the map's blocks are subtracted once more
  bitmap_total_set(bitmap_invert(fbm)) - BITMAP_NUM_BLOCKS
block_store_get_free_blocks == bitmap_total_set(bitmap_invert(fbm))
block_store_get_total_blocks == BLOCK_STORE_NUM_BLOCKS

ClientCall(c) ==
  \/ block_store_allocate(c)
  \/ \E b \in Block : block_store_request(c, b)
  \/ \E b \in Block : block_store_release(c, b)
  \/ \E b \in Block, v \in Values : block_store_write(c, b, v)

Next ==
  \/ block_store_create
  \/ block_store_destroy
  \/ \E c \in Client : ClientCall(c)

Spec == Init /\ [][Next]_vars

-----------------------------------------------------------------------------
(* Seen from its clients, the device is an allocator of the other blocks.  *)
Allocator == INSTANCE BlockAllocator WITH
  UserBlock <- Block \ Reserved,
  open      <- kind # "none",
  holds     <- owned,
  stored    <- [b \in Block \ Reserved |->
                  IF wrote[b] = {} THEN {} ELSE {Contents(b)}]
ImplementsAllocator == Allocator!Spec

(* The free block map marks exactly the blocks that clients hold and the   *)
(* blocks it is kept in: no call loses a grant, keeps a released block, or *)
(* disturbs the map's own two bits.                                        *)
MapIsExact == kind # "none" => fbm = Held \cup Reserved

(* No block is ever in the hands of two clients. *)
NoDoubleGrant ==
  \A c, d \in Client : c # d => owned[c] \cap owned[d] = {}

(* The map and the data never meet: no client holds a block the map is     *)
(* kept in, so no write of a client reaches the map.                       *)
MapIsSafe == Held \cap Reserved = {}

(* What is granted belongs to one client, and never to a client and the    *)
(* map, whatever the others allocate, request and release in between.      *)
GrantsAreExclusive == NoDoubleGrant /\ MapIsSafe

(* A block reads back what its holder last wrote, whatever was allocated,  *)
(* released or written in between.                                         *)
ReadsLastWrite ==
  \A b \in Held : \A v \in wrote[b] : block_store_read(b) = v

(* The two counters add up, and the used count is what the clients hold    *)
(* plus the reserved blocks.                                               *)
CountsAddUp ==
  kind # "none" =>
    /\ block_store_get_used_blocks = Cardinality(Held) + BITMAP_NUM_BLOCKS
    /\ block_store_get_free_blocks
         = block_store_get_total_blocks - block_store_get_used_blocks
=============================================================================
