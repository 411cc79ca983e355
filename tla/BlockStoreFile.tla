--------------------------- MODULE BlockStoreFile ---------------------------
(***************************************************************************)
(* block_store_serialize and block_store_deserialize: the device of module *)
(* BlockStore, the file it is saved to, and the death of the process       *)
(* between any two system calls.                                           *)
(*                                                                         *)
(* Both calls move BLOCK_STORE_NUM_BYTES bytes from the start of the       *)
(* struct, which begins with the pointer fbm: the last PointerBits bits of *)
(* the last block never reach the file.  And the loaded device gets its    *)
(* map from bitmap_import, a copy: from then on allocate and release no    *)
(* longer change the blocks that the next serialize will save.             *)
(***************************************************************************)
EXTENDS BlockStore

CONSTANTS
  PointerBits,  (* the size of the pointer fbm                               *)
  WriteSizes,   (* bound: the answers of write(2), in bits                  *)
  Garbage       (* bound: what the memory from malloc may hold              *)

StoreBits == BLOCK_STORE_NUM_BLOCKS * BlockBits    \* BLOCK_STORE_NUM_BYTES * 8

ASSUME FileConstants ==
  /\ PointerBits \in Nat
  /\ WriteSizes \subseteq 0 .. StoreBits
  /\ Garbage \subseteq SUBSET Memory

(* The end of the device that the pointer pushes out of the file is behind *)
(* the map: blocks 127 and 128 of 512.                                     *)
ASSUME MapReachesFile ==
  PointerBits + (BITMAP_START_BLOCK + BITMAP_NUM_BLOCKS) * BlockBits <= StoreBits

VARIABLES
  file,    \* the saved file; see NoFile for its parts
  saving,  \* serialize has truncated the file and not yet written it
  origin   \* history: where the device comes from

fileVars == <<file, saving, origin>>
allVars == <<kind, mem, copy, owned, wrote, file, saving, origin>>

(* Where a bit of a block is in the struct, and so in the file. *)
Position(cell) == PointerBits + cell[1] * BlockBits + cell[2]

(* size and bits are the file; the rest is history: what the callers held  *)
(* and had written when it was saved, and how good the saved device was.   *)
NoFile == [exists |-> FALSE, size |-> 0, bits |-> {},
           owned |-> NoOwner, wrote |-> NothingWritten, quality |-> "none"]

(* How good the device is as the source of a file: the map in its blocks   *)
(* is the map it works with ("exact"), or has missed calls ("stale"), or   *)
(* the device comes from a file that was cut short ("torn").               *)
Quality ==
  CASE origin = "torn" -> "torn"
    [] origin \in {"created", "exact"} /\ StoredMap(mem) = fbm -> "exact"
    [] OTHER -> "stale"

FileInit ==
  /\ Init
  /\ file = NoFile
  /\ saving = FALSE
  /\ origin = "none"

Create ==
  /\ block_store_create
  /\ origin' = "created"
  /\ UNCHANGED <<file, saving>>

Destroy ==
  /\ ~ saving
  /\ block_store_destroy
  /\ origin' = "none"
  /\ UNCHANGED <<file, saving>>

Call(c) ==
  /\ ~ saving
  /\ ClientCall(c)
  /\ UNCHANGED fileVars

(* open(O_WRONLY | O_CREAT | O_TRUNC). *)
SerializeOpen ==
  /\ kind # "none" /\ ~ saving
  /\ saving' = TRUE
  /\ file' = [exists |-> TRUE, size |-> 0, bits |-> {},
              owned |-> owned, wrote |-> wrote, quality |-> Quality]
  /\ UNCHANGED <<vars, origin>>

(* write(2) may answer less than it was asked for; serialize returns that  *)
(* count, and never retries.  size 0 is also the outcome of a failed write.*)
SerializeWrite(size) ==
  /\ saving
  /\ saving' = FALSE
  /\ file' = [file EXCEPT !.size = size,
                          !.bits = {cell \in mem : Position(cell) < size}]
  /\ UNCHANGED <<vars, origin>>

(* The process dies; only the file is left. *)
Crash ==
  /\ kind # "none"
  /\ kind' = "none" /\ mem' = {} /\ copy' = {}
  /\ owned' = NoOwner /\ wrote' = NothingWritten
  /\ saving' = FALSE
  /\ origin' = "none"
  /\ UNCHANGED file

(* Mutation: a new bitmap instead of the stored one. *)
FreshMap(memory) == {}

(* The private copy of the stored map. *)
bitmap_import(memory) == StoredMap(memory)

(* Mutation: the file is read to the first block, behind the pointer. *)
ReadBehindPointer(heap) ==
  {cell \in Memory : \E c \in file.bits : Position(cell) = PointerBits + Position(c)}

(* What the file does not cover stays what malloc returned. *)
ReadFile(heap) == file.bits \cup {cell \in heap : Position(cell) >= file.size}

(* malloc, read, bitmap_import.  A read of fewer bytes than the device has *)
(* is not an error.                                                        *)
block_store_deserialize(heap) ==
  /\ kind = "none" /\ file.exists
  /\ kind' = "import"
  /\ mem' = ReadFile(heap)
  /\ copy' = bitmap_import(mem')
  /\ owned' = file.owned
  /\ wrote' = file.wrote
  /\ origin' = IF file.size < StoreBits THEN "torn" ELSE file.quality
  /\ UNCHANGED <<file, saving>>

FileNext ==
  \/ Create
  \/ Destroy
  \/ \E c \in Client : Call(c)
  \/ SerializeOpen
  \/ \E size \in WriteSizes : SerializeWrite(size)
  \/ Crash
  \/ \E heap \in Garbage : block_store_deserialize(heap)

FileSpec == FileInit /\ [][FileNext]_allVars

-----------------------------------------------------------------------------
(* A device read back from a whole file, saved while its stored map was    *)
(* the map in use, is as good as a created one: the map marks exactly what *)
(* the callers held at the save and took since, and no block is given out  *)
(* twice, whichever crashes, saves and loads came before.  Any whole file  *)
(* brings the map's own blocks back as taken, so that they are never       *)
(* handed out and no client write reaches the map.                         *)
ReloadIsExact ==
  /\ origin \in {"created", "exact"} => MapIsExact /\ NoDoubleGrant
  /\ origin \in {"created", "exact", "stale"} => Reserved \subseteq fbm /\ MapIsSafe

(* Does this bit of the device reach the file? *)
Saved(cell) == Position(cell) < StoreBits

(* From a whole file every bit that was saved reads back as last written.  *)
(* The last PointerBits bits of the device are not saved, against "Writes  *)
(* the entirety of the BS device to file" of block_store.h.                *)
ReloadKeepsWrites ==
  origin \in {"created", "exact", "stale"} =>
    \A b \in Held : \A v \in wrote[b] : \A i \in Offset :
      Saved(<<b, i>>) => (i \in block_store_read(b) <=> i \in v)

-----------------------------------------------------------------------------
(* tests.cpp on a loaded device: "we can't reallocate a block that should  *)
(* be already marked as in use".                                           *)
LoadedBlocksStayInUse == origin # "torn" => Held \subseteq fbm
=============================================================================
