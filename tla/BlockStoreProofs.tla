-------------------------- MODULE BlockStoreProofs --------------------------
(***************************************************************************)
(* Proofs about BlockStore, for every number and size of blocks, every     *)
(* place of the map and every set of clients; and, behind them, about      *)
(* BlockStoreFile, for every place of the map that the file reaches, every *)
(* answer of write(2) and every memory that malloc may return.             *)
(***************************************************************************)
EXTENDS BlockStoreFile, BitmapOpsProofs

USE DEF BLOCK_STORE_NUM_BLOCKS

-----------------------------------------------------------------------------
(* The bit of every block of the device has a cell in the map's blocks...  *)
LEMMA MapCellInReserved ==
  ASSUME NEW b \in Block
  PROVE  MapCell(b) \in Reserved \X Offset
<1>1. /\ BitCount \in Nat /\ BlockBits \in Nat \ {0} /\ BITMAP_START_BLOCK \in Nat
      /\ BITMAP_NUM_BLOCKS \in Nat
      /\ BitCount = BITMAP_NUM_BLOCKS * BlockBits
  BY BitmapConstants, StoreConstants DEF BITMAP_NUM_BLOCKS
<1>2. /\ b \div BlockBits \in Nat /\ b % BlockBits \in Offset
      /\ b = BlockBits * (b \div BlockBits) + (b % BlockBits)
  BY <1>1 DEF Block, Offset
<1>3. b \div BlockBits < BITMAP_NUM_BLOCKS
  <2> DEFINE q == b \div BlockBits
  <2>1. q \in Nat /\ BlockBits * q <= b /\ b < BITMAP_NUM_BLOCKS * BlockBits
    BY <1>1, <1>2 DEF Block, Offset
  <2> HIDE DEF q
  <2>2. SUFFICES ASSUME q >= BITMAP_NUM_BLOCKS PROVE FALSE
    BY <1>1, <2>1 DEF q
  <2>3. BlockBits * q >= BlockBits * BITMAP_NUM_BLOCKS
    BY <1>1, <2>1, <2>2
  <2> QED BY <1>1, <2>1, <2>3 DEF Block
<1> QED BY <1>1, <1>2, <1>3 DEF MapCell, Reserved

(* ... and no two blocks share one. *)
LEMMA MapCellInjective ==
  ASSUME NEW a \in Block, NEW b \in Block, MapCell(a) = MapCell(b)
  PROVE  a = b
<1>1. BlockBits \in Nat \ {0} /\ BITMAP_START_BLOCK \in Nat /\ BitCount \in Nat
  BY BitmapConstants, StoreConstants
<1>2. /\ a = BlockBits * (a \div BlockBits) + (a % BlockBits)
      /\ b = BlockBits * (b \div BlockBits) + (b % BlockBits)
      /\ a \div BlockBits \in Nat /\ b \div BlockBits \in Nat
  BY <1>1 DEF Block
<1>3. a \div BlockBits = b \div BlockBits /\ a % BlockBits = b % BlockBits
  BY <1>1, <1>2 DEF MapCell
<1> QED BY <1>2, <1>3

(* Storing a map in its blocks and reading it back gives the same map. *)
LEMMA StoredMapReadsBack ==
  ASSUME NEW memory, NEW map, map \subseteq Block
  PROVE  StoredMap((memory \ (Reserved \X Offset)) \cup {MapCell(b) : b \in map}) = map
BY MapCellInReserved, MapCellInjective DEF StoredMap

(* What PutMap leaves behind: the new map where this kind of device keeps  *)
(* it, and every other block as it was.                                    *)
LEMMA PutMapEffect ==
  ASSUME TypeOK, NEW map, map \subseteq Block, PutMap(map), kind' = kind
  PROVE  /\ mem' \subseteq Memory /\ copy' \subseteq Block
         /\ fbm' = map
         /\ \A b \in Block \ Reserved : Contents(b)' = Contents(b)
<1>1. CASE kind = "import"
  BY <1>1 DEF TypeOK, PutMap, fbm, Contents
<1>2. CASE kind # "import"
  <2>1. /\ mem' = (mem \ (Reserved \X Offset)) \cup {MapCell(b) : b \in map}
        /\ copy' = copy
    BY <1>2 DEF PutMap
  <2>2. fbm' = map
    BY <1>2, <2>1, StoredMapReadsBack DEF fbm
  <2>3. \A b \in map : MapCell(b) \in Reserved \X Offset
    BY MapCellInReserved
  <2>4. mem' \subseteq Memory
    BY <2>1, <2>3, StoreConstants DEF TypeOK, Memory
  <2>5. \A b \in Block \ Reserved : Contents(b)' = Contents(b)
    BY <2>1, <2>3 DEF Contents
  <2> QED BY <2>1, <2>2, <2>4, <2>5 DEF TypeOK
<1> QED BY <1>1, <1>2

(* A client that writes a block outside the map's blocks changes that      *)
(* block and nothing else: not the map, not another block.                 *)
LEMMA WriteEffect ==
  ASSUME TypeOK, NEW block \in Block \ Reserved, NEW value \in SUBSET Offset,
         mem' = (mem \ ({block} \X Offset)) \cup ({block} \X value),
         kind' = kind, copy' = copy
  PROVE  /\ mem' \subseteq Memory
         /\ fbm' = fbm
         /\ Contents(block)' = value
         /\ \A b \in Block \ {block} : Contents(b)' = Contents(b)
<1>1. \A b \in Block : MapCell(b) \in mem' <=> MapCell(b) \in mem
  <2>1. SUFFICES ASSUME NEW b \in Block
                 PROVE  MapCell(b) \in mem' <=> MapCell(b) \in mem
    OBVIOUS
  <2>2. MapCell(b) \notin {block} \X Offset
    BY MapCellInReserved
  <2> QED BY <2>2
<1>2. StoredMap(mem') = StoredMap(mem)
  BY <1>1 DEF StoredMap
<1>3. mem' \subseteq Memory
  BY DEF TypeOK, Memory
<1>4. Contents(block)' = value /\ \A b \in Block \ {block} : Contents(b)' = Contents(b)
  BY DEF Contents
<1> QED BY <1>2, <1>3, <1>4 DEF fbm

-----------------------------------------------------------------------------
(* The inductive invariant: the map marks what is held, blocks are held by *)
(* one client and outside the map, and they read as last written.  None of *)
(* the parts is inductive without the others: that a granted block is not  *)
(* held is known from the map, that a write does not reach the map is      *)
(* known from what is held.                                                *)
Inv == TypeOK /\ MapIsExact /\ NoDoubleGrant /\ MapIsSafe /\ ReadsLastWrite

LEMMA InitInv == Init => Inv
BY DEF Init, Inv, TypeOK, MapIsExact, NoDoubleGrant, MapIsSafe, ReadsLastWrite,
       Held, NoOwner, NothingWritten

LEMMA CreateInv == Inv /\ block_store_create => Inv'
<1> SUFFICES ASSUME Inv, block_store_create PROVE Inv'
  OBVIOUS
<1> USE DEF block_store_create
<1>1. Held' = {} /\ Reserved \subseteq Block
  BY StoreConstants DEF Held, NoOwner
<1>2. TypeOK'
  BY <1>1, MapCellInReserved DEF TypeOK, Memory, NoOwner, NothingWritten
<1>3. fbm' = Reserved
  <2>1. mem' = ({} \ (Reserved \X Offset)) \cup {MapCell(b) : b \in Reserved}
    OBVIOUS
  <2>2. StoredMap(mem') = Reserved
    BY <2>1, <1>1, StoredMapReadsBack
  <2> QED BY <2>2 DEF fbm
<1> QED BY <1>1, <1>2, <1>3
        DEF Inv, MapIsExact, NoDoubleGrant, MapIsSafe, ReadsLastWrite, NoOwner

LEMMA DestroyInv == Inv /\ block_store_destroy => Inv'
BY DEF block_store_destroy, Inv, TypeOK, MapIsExact, NoDoubleGrant, MapIsSafe,
       ReadsLastWrite, Held, NoOwner, NothingWritten

(* A block that the map has as free may be granted: nobody holds it. *)
LEMMA GrantInv ==
  ASSUME Inv, NEW c \in Client, NEW block \in Block,
         kind # "none", block \notin fbm, Grant(c, block)
  PROVE  Inv'
<1> USE DEF Inv, Grant
<1>1. fbm = Held \cup Reserved /\ block \notin Held /\ block \notin Reserved
  BY DEF MapIsExact
<1>2. bitmap_set(fbm, block) = fbm \cup {block} /\ fbm \subseteq Block
  BY DEF bitmap_set, fbm, StoredMap, TypeOK
<1>3. /\ mem' \subseteq Memory /\ copy' \subseteq Block
      /\ fbm' = fbm \cup {block}
      /\ \A b \in Block \ Reserved : Contents(b)' = Contents(b)
  <2>1. PutMap(fbm \cup {block}) /\ kind' = kind
    BY <1>2
  <2> QED BY <2>1, <1>2, PutMapEffect
<1>4. TypeOK'
  BY <1>3 DEF TypeOK
<1>5. Held' = Held \cup {block}
  BY DEF TypeOK, Held
<1>6. MapIsExact' /\ MapIsSafe'
  BY <1>1, <1>3, <1>5 DEF MapIsExact, MapIsSafe
<1>7. NoDoubleGrant'
  BY <1>1 DEF TypeOK, NoDoubleGrant, Held
<1>8. ReadsLastWrite'
  <2>1. SUFFICES ASSUME NEW b \in Held', NEW v \in wrote'[b]
                 PROVE  Contents(b)' = v
    BY DEF ReadsLastWrite, block_store_read
  <2>2. b # block /\ b \in Held /\ v \in wrote[b]
    BY <2>1, <1>5 DEF TypeOK, Held
  <2>3. b \in Block \ Reserved
    BY <2>2, <1>1 DEF MapIsSafe, Held, TypeOK
  <2> QED BY <2>2, <2>3, <1>3 DEF ReadsLastWrite, block_store_read
<1> QED BY <1>4, <1>6, <1>7, <1>8

LEMMA AllocateInv ==
  ASSUME Inv, NEW c \in Client, block_store_allocate(c)
  PROVE  Inv'
<1> DEFINE ffz == bitmap_ffz(fbm)
<1>1. ffz # SIZE_MAX /\ Grant(c, ffz) /\ kind # "none"
  BY BitmapConstants DEF block_store_allocate
<1>2. ffz \in Block \ fbm
  BY <1>1, FirstZero DEF Block, Bit
<1> QED BY <1>1, <1>2, GrantInv

LEMMA RequestInv ==
  ASSUME Inv, NEW c \in Client, NEW b \in Block, block_store_request(c, b)
  PROVE  Inv'
BY GrantInv DEF block_store_request, bitmap_test

LEMMA ReleaseInv ==
  ASSUME Inv, NEW c \in Client, NEW block \in Block, block_store_release(c, block)
  PROVE  Inv'
<1> USE DEF Inv, block_store_release
<1>1. /\ block \in Held /\ block \in fbm /\ fbm = Held \cup Reserved
      /\ block \notin Reserved
  BY DEF Held, MapIsExact, MapIsSafe
<1>2. bitmap_reset(fbm, block) = fbm \ {block} /\ fbm \subseteq Block
  BY DEF bitmap_reset, fbm, StoredMap, TypeOK
<1>3. /\ mem' \subseteq Memory /\ copy' \subseteq Block
      /\ fbm' = fbm \ {block}
      /\ \A b \in Block \ Reserved : Contents(b)' = Contents(b)
  <2>1. PutMap(fbm \ {block}) /\ kind' = kind
    BY <1>1, <1>2 DEF bitmap_test
  <2> QED BY <2>1, <1>2, PutMapEffect
<1>4. TypeOK'
  BY <1>3 DEF TypeOK
<1>5. Held' = Held \ {block}
  BY DEF TypeOK, Held, NoDoubleGrant
<1>6. MapIsExact' /\ MapIsSafe'
  BY <1>1, <1>3, <1>5 DEF MapIsExact, MapIsSafe
<1>7. NoDoubleGrant'
  BY DEF TypeOK, NoDoubleGrant
<1>8. ReadsLastWrite'
  <2>1. SUFFICES ASSUME NEW b \in Held', NEW v \in wrote'[b]
                 PROVE  Contents(b)' = v
    BY DEF ReadsLastWrite, block_store_read
  <2>2. b \in Held /\ v \in wrote[b] /\ b \in Block \ Reserved
    BY <2>1, <1>5 DEF TypeOK, Held, MapIsSafe
  <2> QED BY <2>2, <1>3 DEF ReadsLastWrite, block_store_read
<1> QED BY <1>4, <1>6, <1>7, <1>8

LEMMA WriteInv ==
  ASSUME Inv, NEW c \in Client, NEW block \in Block, NEW value \in Values,
         block_store_write(c, block, value)
  PROVE  Inv'
<1> USE DEF Inv, block_store_write
<1>1. block \in Held /\ block \in Block \ Reserved /\ value \in SUBSET Offset
  BY StoreConstants DEF Held, MapIsSafe
<1>2. /\ mem' \subseteq Memory
      /\ fbm' = fbm
      /\ Contents(block)' = value
      /\ \A b \in Block \ {block} : Contents(b)' = Contents(b)
  BY <1>1, WriteEffect
<1>3. TypeOK'
  BY <1>1, <1>2 DEF TypeOK
<1>4. Held' = Held
  BY DEF Held
<1>5. MapIsExact' /\ MapIsSafe' /\ NoDoubleGrant'
  BY <1>2, <1>4 DEF MapIsExact, MapIsSafe, NoDoubleGrant
<1>6. ReadsLastWrite'
  <2>1. SUFFICES ASSUME NEW b \in Held, NEW v \in wrote'[b]
                 PROVE  Contents(b)' = v
    BY <1>4 DEF ReadsLastWrite, block_store_read
  <2>2. b \in Block
    BY DEF Held, TypeOK
  <2>3. CASE b = block
    BY <2>1, <2>3, <1>2 DEF TypeOK
  <2>4. CASE b # block
    BY <2>1, <2>2, <2>4, <1>2 DEF TypeOK, ReadsLastWrite, block_store_read
  <2> QED BY <2>3, <2>4
<1> QED BY <1>3, <1>5, <1>6

LEMMA NextInv == Inv /\ [Next]_vars => Inv'
<1> SUFFICES ASSUME Inv, [Next]_vars PROVE Inv'
  OBVIOUS
<1>1. CASE block_store_create
  BY <1>1, CreateInv
<1>2. CASE block_store_destroy
  BY <1>2, DestroyInv
<1>3. ASSUME NEW c \in Client, ClientCall(c) PROVE Inv'
  BY <1>3, AllocateInv, RequestInv, ReleaseInv, WriteInv DEF ClientCall
<1>4. CASE UNCHANGED vars
  BY <1>4 DEF vars, Inv, TypeOK, MapIsExact, NoDoubleGrant, MapIsSafe,
              ReadsLastWrite, block_store_read, Held, fbm, Contents
<1> QED BY <1>1, <1>2, <1>3, <1>4 DEF Next

LEMMA Invariance == Spec => []Inv
<1>1. Init => Inv
  BY InitInv
<1>2. Inv /\ [Next]_vars => Inv'
  BY NextInv
<1> QED BY <1>1, <1>2, PTL DEF Spec

(* The state of the device is always well formed. *)
THEOREM TypeCorrect == Spec => []TypeOK
<1>1. Inv => TypeOK
  BY DEF Inv
<1> QED BY <1>1, Invariance, PTL

(* Whatever is allocated, requested, released and written, in whatever     *)
(* order, the map kept inside the device marks exactly the blocks that are *)
(* held and its own.                                                       *)
THEOREM MapExactness == Spec => []MapIsExact
<1>1. Inv => MapIsExact
  BY DEF Inv
<1> QED BY <1>1, Invariance, PTL

(* block_store_allocate and block_store_request never give a block that    *)
(* another client holds, nor a block of the map.                           *)
THEOREM ExclusiveGrants == Spec => []GrantsAreExclusive
<1>1. Inv => GrantsAreExclusive
  BY DEF Inv, GrantsAreExclusive
<1> QED BY <1>1, Invariance, PTL

(* A held block reads as its holder last wrote it. *)
THEOREM ReadYourWrites == Spec => []ReadsLastWrite
<1>1. Inv => ReadsLastWrite
  BY DEF Inv
<1> QED BY <1>1, Invariance, PTL

(* The two counters, from the map: what bitmap_total_set counts in it is   *)
(* the blocks held and the map's own, and what it counts in the inverted   *)
(* map is the rest of the device.                                          *)
LEMMA CountsFromMap ==
  ASSUME NEW map \in SUBSET Block, NEW held \in SUBSET Block,
         map = held \cup Reserved, held \cap Reserved = {}
  PROVE  /\ bitmap_total_set(map) = Cardinality(held) + BITMAP_NUM_BLOCKS
         /\ bitmap_total_set(bitmap_invert(map)) = BitCount - bitmap_total_set(map)
<1>1. /\ BitCount \in Nat /\ BlockBits \in Nat \ {0} /\ BITMAP_START_BLOCK \in Nat
      /\ BITMAP_NUM_BLOCKS \in Nat /\ Reserved \subseteq Block /\ Block = Bit
  BY BitmapConstants, StoreConstants DEF BITMAP_NUM_BLOCKS, Block, Bit
<1>2. /\ IsFiniteSet(Block) /\ Cardinality(Block) = BitCount
      /\ IsFiniteSet(Reserved) /\ Cardinality(Reserved) = BITMAP_NUM_BLOCKS
  <2>1. ASSUME NEW a \in Nat, NEW n \in Nat
        PROVE  IsFiniteSet(a .. a + n - 1) /\ Cardinality(a .. a + n - 1) = n
    <3>1. a \in Int /\ a + n - 1 \in Int
      OBVIOUS
    <3>2. /\ IsFiniteSet(a .. a + n - 1)
          /\ Cardinality(a .. a + n - 1)
               = IF a > a + n - 1 THEN 0 ELSE (a + n - 1) - a + 1
      BY ONLY <3>1, FS_Interval
    <3> QED BY <3>2
  <2>2. IsFiniteSet(Reserved) /\ Cardinality(Reserved) = BITMAP_NUM_BLOCKS
    BY <1>1, <2>1 DEF Reserved
  <2>3. Block = 0 .. 0 + BitCount - 1
    BY <1>1 DEF Block
  <2> QED BY <1>1, <2>1, <2>2, <2>3
<1>3. /\ IsFiniteSet(held) /\ IsFiniteSet(map) /\ IsFiniteSet(Block \ map)
      /\ Cardinality(held) \in Nat /\ Cardinality(map) \in Nat
      /\ Cardinality(Block \ map) \in Nat
  BY <1>2, FS_Subset, FS_CardinalityType
<1>4. Cardinality(map) = Cardinality(held) + BITMAP_NUM_BLOCKS
  <2>1. Cardinality(held \cup Reserved)
          = Cardinality(held) + Cardinality(Reserved) - Cardinality(held \cap Reserved)
    BY ONLY <1>2, <1>3, FS_Union
  <2>2. Cardinality(held \cap Reserved) = 0
    BY FS_EmptySet
  <2> QED BY <1>1, <1>2, <1>3, <2>1, <2>2
<1>5. Cardinality(Block \ map) = BitCount - Cardinality(map)
  <2>1. Cardinality(map \cup (Block \ map))
          = Cardinality(map) + Cardinality(Block \ map) - Cardinality(map \cap (Block \ map))
    BY ONLY <1>3, FS_Union
  <2>2. map \cup (Block \ map) = Block /\ map \cap (Block \ map) = {}
    OBVIOUS
  <2>3. Cardinality(map \cap (Block \ map)) = 0
    BY <2>2, FS_EmptySet
  <2>4. Cardinality(Block) = Cardinality(map) + Cardinality(Block \ map)
    BY <2>1, <2>2, <2>3, <1>3
  <2> QED BY <1>1, <1>2, <1>3, <2>4
<1>6. \A c \in Cell : c \in Nat
  BY DEF Cell
<1>7. map \in SUBSET Nat /\ Cell \ map \in SUBSET Nat
  BY <1>1, <1>6, BitsFit
<1>8. bitmap_total_set(map) = Cardinality(map \cap Bit)
  BY ONLY <1>7, TotalCounts
<1>9. bitmap_total_set(Cell \ map) = Cardinality((Cell \ map) \cap Bit)
  BY ONLY <1>7, TotalCounts
<1>10. map \cap Bit = map /\ (Cell \ map) \cap Bit = Block \ map
  BY <1>1, BitsFit
<1> QED BY <1>4, <1>5, <1>8, <1>9, <1>10 DEF bitmap_invert

(* block_store_get_used_blocks and block_store_get_free_blocks add up to   *)
(* the size of the device, and the used count is what the clients hold     *)
(* and the blocks of the map.                                              *)
THEOREM CountersAgree == Spec => []CountsAddUp
<1>1. Inv => CountsAddUp
  <2> SUFFICES ASSUME Inv, kind # "none"
               PROVE  /\ block_store_get_used_blocks = Cardinality(Held) + BITMAP_NUM_BLOCKS
                      /\ block_store_get_free_blocks
                           = block_store_get_total_blocks - block_store_get_used_blocks
    BY DEF CountsAddUp
  <2>1. /\ fbm \in SUBSET Block /\ Held \in SUBSET Block
        /\ fbm = Held \cup Reserved /\ Held \cap Reserved = {}
    BY DEF Inv, TypeOK, MapIsExact, MapIsSafe, Held, fbm, StoredMap
  <2>2. /\ bitmap_total_set(fbm) = Cardinality(Held) + BITMAP_NUM_BLOCKS
        /\ bitmap_total_set(bitmap_invert(fbm)) = BitCount - bitmap_total_set(fbm)
    BY ONLY <2>1, CountsFromMap
  <2> QED BY <2>2 DEF block_store_get_used_blocks, block_store_get_free_blocks,
                      block_store_get_total_blocks
<1> QED BY <1>1, Invariance, PTL

-----------------------------------------------------------------------------
(* The refinement: what an allocator keeps for a block is the block's      *)
(* contents once its holder has written it, and nothing before.            *)
UserBlock == Block \ Reserved
Kept(b) == IF wrote[b] = {} THEN {} ELSE {Contents(b)}

(* The map may be stored anew, but while the contents of the user blocks   *)
(* do not change only the block whose history changed is kept differently. *)
LEMMA KeptAfter ==
  ASSUME NEW block \in UserBlock,
         \A b \in UserBlock \ {block} :
           Contents(b)' = Contents(b) /\ wrote'[b] = wrote[b]
  PROVE  [b \in UserBlock |-> Kept(b)]'
           = [[b \in UserBlock |-> Kept(b)] EXCEPT ![block] = Kept(block)']
BY DEF Kept, UserBlock

LEMMA GrantRefines ==
  ASSUME Inv, NEW c \in Client, NEW block \in Block,
         kind # "none", block \notin fbm, Grant(c, block)
  PROVE  Allocator!Take(c, block) /\ block \in UserBlock
<1> USE DEF Inv, Grant
<1>1. fbm = Held \cup Reserved /\ block \in UserBlock /\ block \notin Held
  BY DEF MapIsExact, UserBlock
<1>2. \A b \in Block \ Reserved : Contents(b)' = Contents(b)
  <2>1. fbm \cup {block} \subseteq Block /\ PutMap(fbm \cup {block})
    BY DEF fbm, StoredMap, TypeOK, bitmap_set
  <2> QED BY <2>1, PutMapEffect
<1>3. wrote'[block] = {} /\ \A b \in UserBlock \ {block} : wrote'[b] = wrote[b]
  BY DEF TypeOK, UserBlock
<1>4. [b \in UserBlock |-> Kept(b)]'
        = [[b \in UserBlock |-> Kept(b)] EXCEPT ![block] = {}]
  BY <1>1, <1>2, <1>3, KeptAfter DEF Kept, UserBlock
<1> QED BY <1>1, <1>4 DEF Allocator!Take, Allocator!Free, Held, UserBlock, Kept

LEMMA ReleaseRefines ==
  ASSUME Inv, NEW c \in Client, NEW block \in Block, block_store_release(c, block)
  PROVE  Allocator!GiveBack(c, block) /\ block \in UserBlock
<1> USE DEF Inv, block_store_release
<1>1. block \in fbm /\ block \in UserBlock
  BY DEF MapIsExact, MapIsSafe, Held, UserBlock
<1>2. \A b \in Block \ Reserved : Contents(b)' = Contents(b)
  <2>1. fbm \ {block} \subseteq Block /\ PutMap(fbm \ {block})
    BY <1>1 DEF fbm, StoredMap, TypeOK, bitmap_test, bitmap_reset
  <2> QED BY <2>1, PutMapEffect
<1>3. wrote'[block] = {} /\ \A b \in UserBlock \ {block} : wrote'[b] = wrote[b]
  BY <1>1 DEF TypeOK, UserBlock
<1>4. [b \in UserBlock |-> Kept(b)]'
        = [[b \in UserBlock |-> Kept(b)] EXCEPT ![block] = {}]
  BY <1>1, <1>2, <1>3, KeptAfter DEF Kept, UserBlock
<1> QED BY <1>1, <1>4 DEF Allocator!GiveBack, UserBlock, Kept

LEMMA WriteRefines ==
  ASSUME Inv, NEW c \in Client, NEW block \in Block, NEW value \in Values,
         block_store_write(c, block, value)
  PROVE  Allocator!Put(c, block, value) /\ block \in UserBlock
<1> USE DEF Inv, block_store_write
<1>1. block \in UserBlock /\ value \in SUBSET Offset
  BY StoreConstants DEF Held, MapIsSafe, UserBlock
<1>2. /\ Contents(block)' = value
      /\ \A b \in Block \ {block} : Contents(b)' = Contents(b)
  BY <1>1, WriteEffect DEF UserBlock
<1>3. /\ wrote'[block] = {value}
      /\ \A b \in UserBlock \ {block} : wrote'[b] = wrote[b]
  BY <1>1 DEF TypeOK, UserBlock
<1>4. [b \in UserBlock |-> Kept(b)]'
        = [[b \in UserBlock |-> Kept(b)] EXCEPT ![block] = {value}]
  <2>1. Kept(block)' = {value}
    BY <1>2, <1>3 DEF Kept
  <2> QED BY <2>1, <1>1, <1>2, <1>3, KeptAfter DEF UserBlock
<1> QED BY <1>1, <1>4 DEF Allocator!Put, UserBlock, Kept

LEMMA CallRefines ==
  ASSUME Inv, NEW c \in Client, ClientCall(c)
  PROVE  Allocator!Next
<1>1. CASE block_store_allocate(c)
  <2>1. PICK b \in Block : b \notin fbm /\ kind # "none" /\ Grant(c, b)
    BY <1>1, BitmapConstants, FirstZero DEF block_store_allocate, Block, Bit
  <2>2. Allocator!Take(c, b) /\ b \in UserBlock
    BY <2>1, GrantRefines
  <2> QED BY <2>2 DEF Allocator!Next, UserBlock
<1>2. ASSUME NEW b \in Block, block_store_request(c, b) PROVE Allocator!Next
  <2>1. Allocator!Take(c, b) /\ b \in UserBlock
    BY <1>2, GrantRefines DEF block_store_request, bitmap_test
  <2> QED BY <2>1 DEF Allocator!Next, UserBlock
<1>3. ASSUME NEW b \in Block, block_store_release(c, b) PROVE Allocator!Next
  BY <1>3, ReleaseRefines DEF Allocator!Next, UserBlock
<1>4. ASSUME NEW b \in Block, NEW v \in Values, block_store_write(c, b, v)
      PROVE  Allocator!Next
  BY <1>4, WriteRefines DEF Allocator!Next, UserBlock
<1> QED BY <1>1, <1>2, <1>3, <1>4 DEF ClientCall

(* Every client of a device created by block_store_create sees a plain     *)
(* allocator of the blocks outside the map: each call is one step of it.   *)
THEOREM DeviceIsAllocator == Spec => ImplementsAllocator
<1>1. Init => Allocator!Init
  BY DEF Init, Allocator!Init, NoOwner, NothingWritten
<1>2. Inv /\ [Next]_vars => [Allocator!Next]_(Allocator!vars)
  <2> SUFFICES ASSUME Inv, [Next]_vars
               PROVE  [Allocator!Next]_(Allocator!vars)
    OBVIOUS
  <2>1. CASE block_store_create \/ block_store_destroy
    <3>1. Allocator!OpenOrClose
      BY <2>1 DEF block_store_create, block_store_destroy, Allocator!OpenOrClose,
                  NoOwner, NothingWritten
    <3> QED BY <3>1 DEF Allocator!Next
  <2>2. ASSUME NEW c \in Client, ClientCall(c) PROVE Allocator!Next
    BY <2>2, CallRefines
  <2>3. CASE UNCHANGED vars
    BY <2>3 DEF vars, Allocator!vars, Contents
  <2> QED BY <2>1, <2>2, <2>3 DEF Next
<1> QED BY <1>1, <1>2, Invariance, PTL DEF Spec, ImplementsAllocator, Allocator!Spec

-----------------------------------------------------------------------------
(* The device and its file.                                                *)
HeldBy(grants) == UNION {grants[c] : c \in Client}

(* A memory in which the saved bits of the blocks in these hands are those *)
(* last written.                                                           *)
KeepsSaved(memory, grants, writes) ==
  \A b \in HeldBy(grants) : \A v \in writes[b] : \A i \in Offset :
    Saved(<<b, i>>) => (<<b, i>> \in memory <=> i \in v)

(* What a device of quality q is, in memory and in a whole file. *)
GoodMemory(memory, grants, writes, q) ==
  /\ q \in {"exact", "stale"} =>
       /\ Reserved \subseteq StoredMap(memory)
       /\ HeldBy(grants) \cap Reserved = {}
       /\ KeepsSaved(memory, grants, writes)
  /\ q = "exact" =>
       /\ StoredMap(memory) = HeldBy(grants) \cup Reserved
       /\ \A c, d \in Client : c # d => grants[c] \cap grants[d] = {}

FileTypeOK ==
  /\ file \in [exists : BOOLEAN, size : 0 .. StoreBits, bits : SUBSET Memory,
               owned : [Client -> SUBSET Block], wrote : [Block -> SUBSET (SUBSET Offset)],
               quality : {"none", "exact", "stale", "torn"}]
  /\ file.exists => file.quality # "none"
  /\ saving \in BOOLEAN
  /\ origin \in {"none", "created", "exact", "stale", "torn"}
  /\ kind = "none" <=> origin = "none"
  /\ saving => kind # "none"

(* The device, the file, and what ties the two while a save is under way. *)
DeviceGood ==
  /\ origin \in {"created", "exact", "stale"} =>
       /\ Reserved \subseteq fbm /\ Reserved \subseteq StoredMap(mem)
       /\ MapIsSafe
       /\ KeepsSaved(mem, owned, wrote)
  /\ origin \in {"created", "exact"} => MapIsExact /\ NoDoubleGrant

FileGood ==
  (file.size = StoreBits /\ ~ saving)
    => GoodMemory(file.bits, file.owned, file.wrote, file.quality)

SavingMatches ==
  saving => /\ file.size = 0
            /\ file.owned = owned /\ file.wrote = wrote /\ file.quality = Quality

FileInv == TypeOK /\ FileTypeOK /\ DeviceGood /\ FileGood /\ SavingMatches

-----------------------------------------------------------------------------
(* The file reaches the cell of every block in the map. *)
LEMMA MapIsSaved ==
  ASSUME NEW b \in Block
  PROVE  Saved(MapCell(b))
<1> DEFINE r == MapCell(b)[1]
           i == MapCell(b)[2]
           N == BITMAP_START_BLOCK + BITMAP_NUM_BLOCKS
<1>1. r \in Reserved /\ i \in Offset
  BY MapCellInReserved
<1>2. /\ BlockBits \in Nat /\ PointerBits \in Nat /\ N \in Nat /\ StoreBits \in Nat
      /\ r \in Nat /\ r <= N - 1 /\ i \in Nat /\ i < BlockBits
      /\ PointerBits + N * BlockBits <= StoreBits
  <2>1. BITMAP_NUM_BLOCKS \in Nat /\ BlockBits \in Nat /\ BitCount \in Nat
    BY BitmapConstants, StoreConstants DEF BITMAP_NUM_BLOCKS
  <2>2. StoreBits \in Nat
    BY <2>1 DEF StoreBits, BLOCK_STORE_NUM_BLOCKS
  <2> QED BY <1>1, <2>1, <2>2, StoreConstants, FileConstants, MapReachesFile DEF Reserved, Offset
<1>3. Position(MapCell(b)) = PointerBits + r * BlockBits + i
  BY DEF Position
<1> HIDE DEF r, i, N
<1>4. r * BlockBits <= (N - 1) * BlockBits /\ (N - 1) * BlockBits = N * BlockBits - BlockBits
  BY <1>2
<1>5. r * BlockBits \in Nat /\ N * BlockBits \in Nat /\ (N - 1) * BlockBits \in Int
  BY <1>2
<1> QED BY <1>2, <1>3, <1>4, <1>5 DEF Saved

(* Two memories that agree on what is saved are equally good. *)
LEMMA SavedDecides ==
  ASSUME NEW memory, NEW copied,
         \A cell \in Memory : Saved(cell) => (cell \in copied <=> cell \in memory),
         NEW grants \in [Client -> SUBSET Block], NEW writes, NEW q,
         GoodMemory(memory, grants, writes, q)
  PROVE  GoodMemory(copied, grants, writes, q)
<1>1. \A b \in Block : MapCell(b) \in Memory /\ Saved(MapCell(b))
  BY MapCellInReserved, MapIsSaved, StoreConstants DEF Memory
<1>2. StoredMap(copied) = StoredMap(memory)
  BY <1>1 DEF StoredMap
<1>3. \A b \in HeldBy(grants), i \in Offset : <<b, i>> \in Memory
  BY DEF HeldBy, Memory
<1>4. KeepsSaved(memory, grants, writes) => KeepsSaved(copied, grants, writes)
  BY <1>3 DEF KeepsSaved
<1> QED BY <1>2, <1>4 DEF GoodMemory

LEMMA SaveGood ==
  ASSUME TypeOK, FileTypeOK, DeviceGood, kind # "none"
  PROVE  GoodMemory(mem, owned, wrote, Quality)
<1>1. HeldBy(owned) = Held
  BY DEF HeldBy, Held
<1>2. Quality \in {"exact", "stale"} => origin \in {"created", "exact", "stale"}
  BY DEF Quality, FileTypeOK
<1>3. Quality = "exact" => origin \in {"created", "exact"} /\ StoredMap(mem) = fbm
  BY DEF Quality
<1> QED BY <1>1, <1>2, <1>3 DEF GoodMemory, DeviceGood, MapIsExact, MapIsSafe, NoDoubleGrant

-----------------------------------------------------------------------------
(* The calls of the clients, on a device of any origin. *)
LEMMA GrantKeeps ==
  ASSUME TypeOK, DeviceGood, NEW c \in Client, NEW block \in Block,
         kind # "none", block \notin fbm, Grant(c, block), origin' = origin
  PROVE  TypeOK' /\ DeviceGood'
<1> USE DEF Grant
<1>1. fbm \subseteq Block /\ PutMap(fbm \cup {block}) /\ kind' = kind
  BY DEF fbm, StoredMap, TypeOK, bitmap_set
<1>2. /\ mem' \subseteq Memory /\ copy' \subseteq Block
      /\ fbm' = fbm \cup {block}
      /\ \A b \in Block \ Reserved : Contents(b)' = Contents(b)
  BY <1>1, PutMapEffect
<1>3. TypeOK'
  BY <1>2 DEF TypeOK
<1>4. Held' = Held \cup {block} /\ Held \subseteq Block
  BY DEF TypeOK, Held
<1>5. /\ wrote'[block] = {} /\ \A b \in Block \ {block} : wrote'[b] = wrote[b]
      /\ HeldBy(owned)' = Held \cup {block} /\ HeldBy(owned) = Held
  BY <1>4 DEF TypeOK, HeldBy, Held
<1>6. ASSUME origin \in {"created", "exact", "stale"}
      PROVE  /\ Reserved \subseteq fbm' /\ Reserved \subseteq StoredMap(mem')
             /\ MapIsSafe'
             /\ KeepsSaved(mem', owned', wrote')
  <2>1. /\ Reserved \subseteq fbm /\ Reserved \subseteq StoredMap(mem)
        /\ MapIsSafe /\ KeepsSaved(mem, owned, wrote)
    BY <1>6 DEF DeviceGood
  <2>2. Reserved \subseteq StoredMap(mem')
    BY <1>1, <1>2, <2>1 DEF PutMap, fbm
  <2>3. MapIsSafe'
    BY <1>4, <2>1 DEF MapIsSafe
  <2>4. KeepsSaved(mem', owned', wrote')
    <3>1. SUFFICES ASSUME NEW b \in HeldBy(owned)', NEW v \in wrote'[b], NEW i \in Offset,
                          Saved(<<b, i>>)
                   PROVE  <<b, i>> \in mem' <=> i \in v
      BY DEF KeepsSaved, HeldBy
    <3>2. b \in Held /\ b \in Block \ Reserved /\ v \in wrote[b]
      BY <1>4, <1>5, <2>1, <3>1 DEF MapIsSafe
    <3>3. <<b, i>> \in mem' <=> <<b, i>> \in mem
      BY <1>2, <3>2 DEF Contents
    <3> QED BY <1>5, <2>1, <3>1, <3>2, <3>3 DEF KeepsSaved
  <2> QED BY <1>2, <2>1, <2>2, <2>3, <2>4
<1>7. ASSUME origin \in {"created", "exact"}
      PROVE  MapIsExact' /\ NoDoubleGrant'
  <2>1. fbm = Held \cup Reserved /\ NoDoubleGrant
    BY <1>7 DEF DeviceGood, MapIsExact
  <2>2. MapIsExact'
    BY <1>2, <1>4, <2>1 DEF MapIsExact
  <2>3. NoDoubleGrant'
    BY <2>1 DEF TypeOK, NoDoubleGrant, Held
  <2> QED BY <2>2, <2>3
<1> QED BY <1>3, <1>6, <1>7 DEF DeviceGood

LEMMA ReleaseKeeps ==
  ASSUME TypeOK, DeviceGood, NEW c \in Client, NEW block \in Block,
         block_store_release(c, block), origin' = origin
  PROVE  TypeOK' /\ DeviceGood'
<1> USE DEF block_store_release
<1>1. /\ mem' \subseteq Memory /\ copy' \subseteq Block
      /\ fbm' = fbm \ {block}
      /\ \A b \in Block \ Reserved : Contents(b)' = Contents(b)
      /\ kind = "import" => mem' = mem
  <2>1. CASE block \in fbm
    <3>1. fbm \ {block} \subseteq Block /\ PutMap(fbm \ {block}) /\ kind' = kind
      BY <2>1 DEF fbm, StoredMap, TypeOK, bitmap_reset, bitmap_test
    <3> QED BY <3>1, PutMapEffect DEF PutMap
  <2>2. CASE block \notin fbm
    BY <2>2 DEF bitmap_test, TypeOK, fbm, Contents
  <2> QED BY <2>1, <2>2
<1>2. TypeOK'
  BY <1>1 DEF TypeOK
<1>3. /\ Held' \subseteq Held /\ Held \subseteq Block /\ block \in Held
      /\ HeldBy(owned)' = Held' /\ HeldBy(owned) = Held
  BY DEF TypeOK, Held, HeldBy
<1>4. wrote'[block] = {} /\ \A b \in Block \ {block} : wrote'[b] = wrote[b]
  BY DEF TypeOK
<1>5. ASSUME origin \in {"created", "exact", "stale"}
      PROVE  /\ Reserved \subseteq fbm' /\ Reserved \subseteq StoredMap(mem')
             /\ MapIsSafe'
             /\ KeepsSaved(mem', owned', wrote')
  <2>1. /\ Reserved \subseteq fbm /\ Reserved \subseteq StoredMap(mem)
        /\ MapIsSafe /\ KeepsSaved(mem, owned, wrote)
    BY <1>5 DEF DeviceGood
  <2>2. Reserved \subseteq fbm'
    BY <1>1, <1>3, <2>1 DEF MapIsSafe
  <2>3. Reserved \subseteq StoredMap(mem')
    BY <1>1, <2>1, <2>2 DEF fbm
  <2>4. MapIsSafe'
    BY <1>3, <2>1 DEF MapIsSafe
  <2>5. KeepsSaved(mem', owned', wrote')
    <3>1. SUFFICES ASSUME NEW b \in HeldBy(owned)', NEW v \in wrote'[b], NEW i \in Offset,
                          Saved(<<b, i>>)
                   PROVE  <<b, i>> \in mem' <=> i \in v
      BY DEF KeepsSaved, HeldBy
    <3>2. b \in Held /\ b \in Block \ Reserved /\ v \in wrote[b]
      BY <1>3, <1>4, <2>1, <3>1 DEF MapIsSafe
    <3>3. <<b, i>> \in mem' <=> <<b, i>> \in mem
      BY <1>1, <3>2 DEF Contents
    <3> QED BY <1>3, <2>1, <3>1, <3>2, <3>3 DEF KeepsSaved
  <2> QED BY <2>2, <2>3, <2>4, <2>5
<1>6. ASSUME origin \in {"created", "exact"}
      PROVE  MapIsExact' /\ NoDoubleGrant'
  <2>1. fbm = Held \cup Reserved /\ NoDoubleGrant /\ MapIsSafe
    BY <1>6 DEF DeviceGood, MapIsExact
  <2>2. Held' = Held \ {block}
    BY <2>1 DEF TypeOK, Held, NoDoubleGrant
  <2>3. MapIsExact'
    BY <1>1, <1>3, <2>1, <2>2 DEF MapIsExact, MapIsSafe
  <2>4. NoDoubleGrant'
    BY <2>1 DEF TypeOK, NoDoubleGrant
  <2> QED BY <2>3, <2>4
<1> QED BY <1>2, <1>5, <1>6 DEF DeviceGood

LEMMA WriteKeeps ==
  ASSUME TypeOK, DeviceGood, NEW c \in Client, NEW block \in Block, NEW value \in Values,
         block_store_write(c, block, value), origin' = origin
  PROVE  TypeOK' /\ DeviceGood'
<1> USE DEF block_store_write
<1>1. block \in Held /\ value \in SUBSET Offset /\ Held' = Held
  BY StoreConstants DEF Held
<1>2. TypeOK'
  BY <1>1 DEF TypeOK, Memory
<1>3. /\ Held \subseteq Block /\ HeldBy(owned) = Held /\ HeldBy(owned)' = Held
      /\ wrote'[block] = {value} /\ \A b \in Block \ {block} : wrote'[b] = wrote[b]
  BY DEF TypeOK, Held, HeldBy
<1>4. ASSUME block \notin Reserved
      PROVE  StoredMap(mem') = StoredMap(mem) /\ fbm' = fbm
  <2>1. \A b \in Block : MapCell(b) \notin {block} \X Offset
    BY <1>4, MapCellInReserved
  <2>2. StoredMap(mem') = StoredMap(mem)
    BY <1>1, <2>1 DEF StoredMap
  <2> QED BY <2>2 DEF fbm
<1>5. ASSUME origin \in {"created", "exact", "stale"}
      PROVE  /\ Reserved \subseteq fbm' /\ Reserved \subseteq StoredMap(mem')
             /\ MapIsSafe'
             /\ KeepsSaved(mem', owned', wrote')
  <2>1. /\ Reserved \subseteq fbm /\ Reserved \subseteq StoredMap(mem)
        /\ MapIsSafe /\ KeepsSaved(mem, owned, wrote)
    BY <1>5 DEF DeviceGood
  <2>2. StoredMap(mem') = StoredMap(mem) /\ fbm' = fbm
    BY <1>1, <1>4, <2>1 DEF MapIsSafe
  <2>3. KeepsSaved(mem', owned', wrote')
    <3>1. SUFFICES ASSUME NEW b \in Held, NEW v \in wrote'[b], NEW i \in Offset,
                          Saved(<<b, i>>)
                   PROVE  <<b, i>> \in mem' <=> i \in v
      BY <1>3 DEF KeepsSaved, HeldBy
    <3>2. CASE b = block
      BY <1>1, <1>3, <3>1, <3>2
    <3>3. CASE b # block
      <4>1. v \in wrote[b] /\ (<<b, i>> \in mem' <=> <<b, i>> \in mem)
        BY <1>3, <3>1, <3>3
      <4> QED BY <1>3, <2>1, <3>1, <4>1 DEF KeepsSaved
    <3> QED BY <3>2, <3>3
  <2> QED BY <1>1, <2>1, <2>2, <2>3 DEF MapIsSafe
<1>6. ASSUME origin \in {"created", "exact"}
      PROVE  MapIsExact' /\ NoDoubleGrant'
  <2>1. fbm = Held \cup Reserved /\ NoDoubleGrant /\ MapIsSafe
    BY <1>6 DEF DeviceGood, MapIsExact
  <2>2. fbm' = fbm
    BY <1>1, <1>4, <2>1 DEF MapIsSafe
  <2> QED BY <1>1, <2>1, <2>2 DEF MapIsExact, NoDoubleGrant
<1> QED BY <1>2, <1>5, <1>6 DEF DeviceGood

LEMMA CallKeeps ==
  ASSUME TypeOK, DeviceGood, NEW c \in Client, ClientCall(c), origin' = origin
  PROVE  TypeOK' /\ DeviceGood'
<1>1. CASE block_store_allocate(c)
  <2>1. PICK b \in Block : b \notin fbm /\ kind # "none" /\ Grant(c, b)
    BY <1>1, BitmapConstants, FirstZero
       DEF block_store_allocate, Block, Bit, BLOCK_STORE_NUM_BLOCKS
  <2> QED BY <2>1, GrantKeeps
<1>2. ASSUME NEW b \in Block, block_store_request(c, b) PROVE TypeOK' /\ DeviceGood'
  BY <1>2, GrantKeeps DEF block_store_request, bitmap_test
<1>3. ASSUME NEW b \in Block, block_store_release(c, b) PROVE TypeOK' /\ DeviceGood'
  BY <1>3, ReleaseKeeps
<1>4. ASSUME NEW b \in Block, NEW v \in Values, block_store_write(c, b, v)
      PROVE  TypeOK' /\ DeviceGood'
  BY <1>4, WriteKeeps
<1> QED BY <1>1, <1>2, <1>3, <1>4 DEF ClientCall

-----------------------------------------------------------------------------
LEMMA StoreBitsPositive == StoreBits \in Nat \ {0}
BY BitmapConstants, StoreConstants DEF StoreBits, BLOCK_STORE_NUM_BLOCKS

(* A device that is gone, or one that was just created. *)
LEMMA NoDevice ==
  ASSUME kind' = "none", mem' = {}, copy' = {}, owned' = NoOwner, wrote' = NothingWritten,
         origin' = "none"
  PROVE  TypeOK' /\ DeviceGood'
BY DEF TypeOK, DeviceGood, NoOwner, NothingWritten

LEMMA CreateKeeps ==
  ASSUME block_store_create, origin' = "created"
  PROVE  TypeOK' /\ DeviceGood'
<1> USE DEF block_store_create
<1>1. Held' = {} /\ HeldBy(owned)' = {} /\ Reserved \subseteq Block
  BY StoreConstants DEF Held, HeldBy, NoOwner
<1>2. TypeOK'
  BY <1>1, MapCellInReserved DEF TypeOK, Memory, NoOwner, NothingWritten
<1>3. StoredMap(mem') = Reserved
  <2> DEFINE stored == ({} \ (Reserved \X Offset)) \cup {MapCell(b) : b \in Reserved}
  <2>1. mem' = stored
    OBVIOUS
  <2>2. StoredMap(stored) = Reserved
    BY <1>1, StoredMapReadsBack
  <2> QED BY <2>1, <2>2
<1>4. fbm' = Reserved
  BY <1>3 DEF fbm
<1>5. KeepsSaved(mem', owned', wrote') /\ MapIsSafe' /\ MapIsExact' /\ NoDoubleGrant'
  BY <1>1, <1>4 DEF KeepsSaved, HeldBy, MapIsSafe, MapIsExact, NoDoubleGrant, NoOwner
<1> QED BY <1>2, <1>3, <1>4, <1>5 DEF DeviceGood

LEMMA FileInitInv == FileInit => FileInv
<1> SUFFICES ASSUME FileInit PROVE FileInv
  OBVIOUS
<1> USE DEF FileInit, Init, NoFile
<1>1. TypeOK /\ DeviceGood
  BY DEF TypeOK, DeviceGood, NoOwner, NothingWritten
<1>2. FileTypeOK
  <2>1. /\ NoOwner \in [Client -> SUBSET Block]
        /\ NothingWritten \in [Block -> SUBSET (SUBSET Offset)]
        /\ 0 \in 0 .. StoreBits
    BY StoreBitsPositive DEF NoOwner, NothingWritten
  <2> QED BY <2>1 DEF FileTypeOK
<1>3. FileGood /\ SavingMatches
  BY StoreBitsPositive DEF FileGood, SavingMatches
<1> QED BY <1>1, <1>2, <1>3 DEF FileInv

(* A step that leaves the file alone outside of a save. *)
LEMMA FileStays ==
  ASSUME FileInv, UNCHANGED file, saving' = FALSE, TypeOK', DeviceGood',
         origin' \in {"none", "created", "exact", "stale", "torn"},
         kind' = "none" <=> origin' = "none"
  PROVE  FileInv'
<1>1. FileTypeOK'
  BY DEF FileInv, FileTypeOK
<1>2. file.size = StoreBits => ~ saving
  BY StoreBitsPositive DEF FileInv, SavingMatches
<1>3. FileGood' /\ SavingMatches'
  BY <1>2 DEF FileInv, FileGood, SavingMatches
<1> QED BY <1>1, <1>3 DEF FileInv

LEMMA CallInv ==
  ASSUME FileInv, NEW c \in Client, Call(c)
  PROVE  FileInv'
<1>1. ~ saving /\ ClientCall(c) /\ UNCHANGED fileVars
  BY DEF Call
<1>2. TypeOK' /\ DeviceGood'
  BY <1>1, CallKeeps DEF FileInv, fileVars
<1>3. kind' = kind
  BY <1>1 DEF ClientCall, block_store_allocate, block_store_request, block_store_release,
              block_store_write, Grant
<1>4. saving' = FALSE
  BY <1>1 DEF FileInv, FileTypeOK, fileVars
<1> QED BY <1>1, <1>2, <1>3, <1>4, FileStays DEF FileInv, FileTypeOK, fileVars

LEMMA SerializeOpenInv == FileInv /\ SerializeOpen => FileInv'
<1> SUFFICES ASSUME FileInv, SerializeOpen PROVE FileInv'
  OBVIOUS
<1> USE DEF FileInv
<1>1. UNCHANGED <<kind, mem, copy, owned, wrote, origin>> /\ saving' = TRUE /\ kind # "none"
  BY DEF SerializeOpen, vars
<1>2. file' = [exists |-> TRUE, size |-> 0, bits |-> {},
               owned |-> owned, wrote |-> wrote, quality |-> Quality]
  BY DEF SerializeOpen
<1>3. Quality \in {"exact", "stale", "torn"} /\ Quality' = Quality
  BY <1>1 DEF Quality, fbm
<1>4. TypeOK' /\ DeviceGood'
  BY <1>1 DEF TypeOK, DeviceGood, fbm, MapIsSafe, MapIsExact, NoDoubleGrant, Held
<1>5. FileTypeOK'
  BY <1>1, <1>2, <1>3, StoreBitsPositive DEF TypeOK, FileTypeOK
<1>6. FileGood' /\ SavingMatches'
  BY <1>1, <1>2, <1>3 DEF FileGood, SavingMatches
<1> QED BY <1>4, <1>5, <1>6

LEMMA SerializeWriteInv ==
  ASSUME FileInv, NEW size \in WriteSizes, SerializeWrite(size)
  PROVE  FileInv'
<1> USE DEF FileInv
<1>1. /\ UNCHANGED <<kind, mem, copy, owned, wrote, origin>>
      /\ saving /\ saving' = FALSE /\ kind # "none"
      /\ size \in 0 .. StoreBits
  BY FileConstants DEF SerializeWrite, vars, FileTypeOK
<1>2. /\ file' = [file EXCEPT !.size = size,
                              !.bits = {cell \in mem : Position(cell) < size}]
      /\ file.owned = owned /\ file.wrote = wrote /\ file.quality = Quality
  BY <1>1 DEF SerializeWrite, SavingMatches
<1>3. TypeOK' /\ DeviceGood'
  BY <1>1 DEF TypeOK, DeviceGood, fbm, MapIsSafe, MapIsExact, NoDoubleGrant, Held
<1>4. /\ FileTypeOK'
      /\ file'.size = size /\ file'.bits = {cell \in mem : Position(cell) < size}
      /\ file'.owned = owned /\ file'.wrote = wrote /\ file'.quality = Quality
  BY <1>1, <1>2 DEF TypeOK, FileTypeOK
<1>5. ASSUME size = StoreBits
      PROVE  GoodMemory(file'.bits, owned, wrote, Quality)
  <2>1. GoodMemory(mem, owned, wrote, Quality)
    BY <1>1, SaveGood
  <2>2. \A cell \in Memory : Saved(cell) => (cell \in file'.bits <=> cell \in mem)
    BY <1>4, <1>5 DEF Saved
  <2> QED BY <2>1, <2>2, SavedDecides DEF TypeOK
<1>6. FileGood' /\ SavingMatches'
  BY <1>1, <1>4, <1>5 DEF FileGood, SavingMatches
<1> QED BY <1>3, <1>4, <1>6

LEMMA DeserializeInv ==
  ASSUME FileInv, NEW heap \in Garbage, block_store_deserialize(heap)
  PROVE  FileInv'
<1> USE DEF FileInv
<1>1. /\ kind = "none" /\ file.exists /\ UNCHANGED <<file, saving>>
      /\ kind' = "import" /\ mem' = ReadFile(heap) /\ copy' = StoredMap(mem')
      /\ owned' = file.owned /\ wrote' = file.wrote
      /\ origin' = IF file.size < StoreBits THEN "torn" ELSE file.quality
      /\ ~ saving
  BY DEF block_store_deserialize, bitmap_import, FileTypeOK
<1>2. /\ heap \subseteq Memory /\ file.bits \subseteq Memory
      /\ file.size \in 0 .. StoreBits /\ file.quality \in {"exact", "stale", "torn"}
      /\ owned' \in [Client -> SUBSET Block] /\ wrote' \in [Block -> SUBSET (SUBSET Offset)]
  BY <1>1, FileConstants DEF FileTypeOK
<1>3. TypeOK'
  BY <1>1, <1>2 DEF TypeOK, ReadFile, StoredMap
<1>4. fbm' = StoredMap(mem') /\ HeldBy(owned)' = Held'
  BY <1>1 DEF fbm, HeldBy, Held
<1>5. origin' \in {"exact", "stale", "torn"}
  BY <1>1, <1>2
<1>6. ASSUME origin' # "torn"
      PROVE  GoodMemory(mem', owned', wrote', origin')
  <2>1. file.size = StoreBits /\ origin' = file.quality
    BY <1>1, <1>2, <1>6, StoreBitsPositive
  <2>2. GoodMemory(file.bits, owned', wrote', origin')
    BY <1>1, <2>1 DEF FileGood
  <2>3. \A cell \in Memory : Saved(cell) => (cell \in mem' <=> cell \in file.bits)
    <3>1. SUFFICES ASSUME NEW cell \in Memory, Saved(cell)
                   PROVE  cell \in mem' <=> cell \in file.bits
      OBVIOUS
    <3>2. Position(cell) \in Int
      BY BitmapConstants, StoreConstants, FileConstants
         DEF Position, Memory, Block, Offset, BLOCK_STORE_NUM_BLOCKS
    <3> QED BY <1>1, <2>1, <3>1, <3>2, StoreBitsPositive DEF ReadFile, Saved
  <2> QED BY <1>2, <2>2, <2>3, SavedDecides
<1>7. DeviceGood'
  BY <1>4, <1>5, <1>6 DEF DeviceGood, GoodMemory, MapIsSafe, MapIsExact, NoDoubleGrant, HeldBy
<1>8. saving' = FALSE
  BY <1>1 DEF FileTypeOK
<1> QED BY <1>1, <1>3, <1>5, <1>7, <1>8, FileStays

LEMMA FileNextInv == FileInv /\ [FileNext]_allVars => FileInv'
<1> SUFFICES ASSUME FileInv, [FileNext]_allVars PROVE FileInv'
  OBVIOUS
<1>1. CASE Create
  <2>1. kind' = "overlay" /\ origin' = "created" /\ UNCHANGED file /\ saving' = FALSE
    BY <1>1 DEF Create, block_store_create, FileInv, FileTypeOK
  <2>2. TypeOK' /\ DeviceGood'
    BY <1>1, CreateKeeps DEF Create
  <2> QED BY <2>1, <2>2, FileStays
<1>2. CASE Destroy
  <2>1. kind' = "none" /\ origin' = "none" /\ UNCHANGED file /\ saving' = FALSE
    BY <1>2 DEF Destroy, block_store_destroy, FileInv, FileTypeOK
  <2>2. TypeOK' /\ DeviceGood'
    BY <1>2, NoDevice DEF Destroy, block_store_destroy
  <2> QED BY <2>1, <2>2, FileStays
<1>3. CASE Crash
  <2>1. TypeOK' /\ DeviceGood'
    BY <1>3, NoDevice DEF Crash
  <2> QED BY <1>3, <2>1, FileStays DEF Crash
<1>4. ASSUME NEW c \in Client, Call(c) PROVE FileInv'
  BY <1>4, CallInv
<1>5. CASE SerializeOpen
  BY <1>5, SerializeOpenInv
<1>6. ASSUME NEW size \in WriteSizes, SerializeWrite(size) PROVE FileInv'
  BY <1>6, SerializeWriteInv
<1>7. ASSUME NEW heap \in Garbage, block_store_deserialize(heap) PROVE FileInv'
  BY <1>7, DeserializeInv
<1>8. CASE UNCHANGED allVars
  <2>1. UNCHANGED <<kind, mem, copy, owned, wrote, file, saving, origin>>
    BY <1>8 DEF allVars
  <2>2. TypeOK' /\ DeviceGood' /\ FileTypeOK' /\ Quality' = Quality
    BY <2>1 DEF FileInv, TypeOK, FileTypeOK, DeviceGood, fbm, MapIsSafe, MapIsExact,
                NoDoubleGrant, Held, Quality
  <2> QED BY <2>1, <2>2 DEF FileInv, FileGood, SavingMatches
<1> QED BY <1>1, <1>2, <1>3, <1>4, <1>5, <1>6, <1>7, <1>8 DEF FileNext

LEMMA FileInvariance == FileSpec => []FileInv
<1>1. FileInit => FileInv
  BY FileInitInv
<1>2. FileInv /\ [FileNext]_allVars => FileInv'
  BY FileNextInv
<1> QED BY <1>1, <1>2, PTL DEF FileSpec

-----------------------------------------------------------------------------
(* Through any saves, short writes, crashes and loads, a device from a     *)
(* whole file whose stored map was in use marks exactly what is held, and  *)
(* a device from any whole file keeps the blocks of its map.               *)
THEOREM ReloadExactness == FileSpec => []ReloadIsExact
<1>1. FileInv => ReloadIsExact
  BY DEF FileInv, DeviceGood, ReloadIsExact
<1> QED BY <1>1, FileInvariance, PTL

(* block_store_serialize and block_store_deserialize bring back every bit  *)
(* that reaches the file, as its holder last wrote it.                     *)
THEOREM ReloadedWrites == FileSpec => []ReloadKeepsWrites
<1>1. FileInv => ReloadKeepsWrites
  BY DEF FileInv, DeviceGood, ReloadKeepsWrites, KeepsSaved, HeldBy, Held,
         block_store_read, Contents
<1> QED BY <1>1, FileInvariance, PTL
=============================================================================
