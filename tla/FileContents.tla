---------------------------- MODULE FileContents ----------------------------
(***************************************************************************)
(* The bytes of regular files in a5_fs2021/src/FS.c: fs_write, fs_read and *)
(* fs_seek on descriptors that fs_open made, several of them perhaps on    *)
(* one file, and the death of the process between and inside of calls.     *)
(*                                                                         *)
(* The device is a file mapped into memory and shared, so a killed process *)
(* leaves every block it stored, while its descriptors are gone.  A write  *)
(* stores data blocks first and the inode last.                            *)
(*                                                                         *)
(* A byte is its place in the buffer of the call that wrote it: byte k of  *)
(* a write to a file is <<file, k>>.  Two calls of the code have           *)
(* no defined outcome and are left out: a write at an offset beyond the    *)
(* block, which only reads leave behind, and the bytes of a read beyond    *)
(* the pointers of the inode.                                              *)
(***************************************************************************)
EXTENDS Integers

CONSTANTS
  BLOCK_SIZE_BYTES,  (* 4096                                                *)
  Turn,              (* 1024, where update_order_offset goes to a new block *)
  fd_size,           (* 6: the direct pointers of an inode                  *)
  number_pointers,   (* 2048: the pointers in an indirect block             *)
  MaxBlocks,         (* 63472: the blocks a position may span               *)
  Word,              (* 2^16: order and offset are of type uint16_t         *)
  Fd,                (* the numbers of the descriptors, 0 to 255            *)
  DataBlock,         (* the numbers of the blocks for data; 0 is no pointer *)
  Overflow,          (* 65535: SIZE_MAX, from a full device, as uint16_t    *)
  File,              (* the inodes of the regular files                     *)
  Requests,          (* bound: the numbers of bytes callers ask for         *)
  Offsets,           (* bound: the offsets callers seek to                  *)
  MaxWrites          (* bound: the writes of a run                          *)

ASSUME ContentConstants ==
  /\ BLOCK_SIZE_BYTES \in Nat \ {0} /\ Turn \in 1 .. BLOCK_SIZE_BYTES - 1
  /\ fd_size \in Nat \ {0} /\ number_pointers \in Nat \ {0}
  /\ MaxBlocks \in Nat \ {0} /\ Word \in Nat
  /\ Word > BLOCK_SIZE_BYTES /\ Word > MaxBlocks /\ Word > fd_size
  /\ DataBlock \subseteq Nat \ {0} /\ Overflow \in Nat \ (DataBlock \cup {0})
  /\ Requests \subseteq Nat /\ Offsets \subseteq Int /\ MaxWrites \in Nat

VARIABLES
  used,     \* the data blocks that are marked in the free block map
  block,    \* their bytes
  inode,    \* fileSize and the pointers of each file
  fd,       \* the descriptors in use
  wrote,    \* history: the byte each position of a file was given last
  stream,   \* history: the descriptors that only append; see fs_open
  killed,   \* history: a process died inside of a write
  writes    \* the number of writes, for the bound

vars == <<used, block, inode, fd, wrote, stream, killed, writes>>

fd_used == DOMAIN fd

Order  == 0 .. fd_size - 1
Offset == 0 .. BLOCK_SIZE_BYTES - 1
Pos    == 0 .. fd_size * BLOCK_SIZE_BYTES - 1    \* behind the direct pointers

(* What is in a buffer beyond the bytes given, in a zeroed block, and for  *)
(* a position about which nothing is claimed.                              *)
Junk == <<0, -1>>
Zero == <<0, -2>>
None == <<0, -3>>
Byte == (File \X Nat) \cup {Junk, Zero, None}

Least(a, b) == IF a <= b THEN a ELSE b
U16(x) == x % Word

(* fileDescriptor and inode of FS.h, as far as they matter here. *)
Descriptor ==
  [inodeNum : File, locate_order : 0 .. Word - 1, locate_offset : 0 .. Word - 1]
Inode ==
  [fileSize : Nat, directPointer : [Order -> DataBlock \cup {0, Overflow}],
   indirectPointer : DataBlock \cup {0}]

MaxOffset == MaxBlocks * BLOCK_SIZE_BYTES - 1

TypeOK ==
  /\ used \subseteq DataBlock
  /\ block \in [DataBlock -> [Offset -> Byte]]
  /\ inode \in [File -> Inode]
  /\ fd_used \subseteq Fd /\ fd \in [fd_used -> Descriptor]
  /\ wrote \in [File -> [Pos -> Byte]]
  /\ stream \subseteq fd_used
  /\ killed \in BOOLEAN
  /\ writes \in 0 .. MaxWrites

(* directPointer is followed in the inode by the indirect pointer. *)
Slot == 0 .. fd_size
PointerAt(file, o) ==
  IF o = fd_size THEN inode[file].indirectPointer ELSE inode[file].directPointer[o]

NewFile == [fileSize |-> 0, directPointer |-> [o \in Order |-> 0], indirectPointer |-> 0]
Cursor(file, order, offset) ==
  [inodeNum |-> file, locate_order |-> order, locate_offset |-> offset]

NoDescriptor == [f \in {} |-> Cursor(CHOOSE file \in File : TRUE, 0, 0)]

(* Files as fs_create leaves them. *)
Init ==
  /\ used = {}
  /\ block = [b \in DataBlock |-> [j \in Offset |-> Junk]]
  /\ inode = [file \in File |-> NewFile]
  /\ fd = NoDescriptor
  /\ wrote = [file \in File |-> [p \in Pos |-> None]]
  /\ stream = {}
  /\ killed = FALSE
  /\ writes = 0

(* Where a descriptor stands, as FS.h describes its two members. *)
Position(d) == d.locate_order * BLOCK_SIZE_BYTES + d.locate_offset

-----------------------------------------------------------------------------
(* fs_open: some free descriptor (module FileSystem says which), at the    *)
(* start of the file.  It is a stream until it seeks, reads, comes to a    *)
(* turn, is cut short, or another descriptor writes to its file.           *)
fs_open(file) ==
  \E f \in Fd \ fd_used :
    /\ fd' = [g \in fd_used \cup {f} |-> IF g = f THEN Cursor(file, 0, 0) ELSE fd[g]]
    /\ stream' = IF inode[file].fileSize = 0 THEN stream \cup {f} ELSE stream
    /\ UNCHANGED <<used, block, inode, wrote, killed, writes>>

(* The closed descriptor keeps its members, which fs_open resets.  fs_read *)
(* does not ask if a descriptor is in use and may move a closed one, with  *)
(* no effect on anything else; such reads are left out.                    *)
fs_close(f) ==
  /\ f \in fd_used
  /\ fd' = [g \in fd_used \ {f} |-> fd[g]]
  /\ stream' = stream \ {f}
  /\ UNCHANGED <<used, block, inode, wrote, killed, writes>>

(* Unmounting, or the death of the process between two calls, and a mount. *)
Remount ==
  /\ fd_used # {}
  /\ fd' = NoDescriptor /\ stream' = {}
  /\ UNCHANGED <<used, block, inode, wrote, killed, writes>>

-----------------------------------------------------------------------------
(* The position an offset is split into; a whole block stays in the block  *)
(* before it.                                                              *)
Split(file, offset) ==
  IF BLOCK_SIZE_BYTES < offset
  THEN Cursor(file, U16(offset \div BLOCK_SIZE_BYTES), offset % BLOCK_SIZE_BYTES)
  ELSE Cursor(file, 0, offset)

(* FS_SEEK_CUR takes the start of a block for the start of the file. *)
SeekTarget(d, offset, whence) ==
  LET size == inode[d.inodeNum].fileSize
      prev_offset == IF d.locate_offset # 0 THEN Position(d) ELSE 0
  IN  IF whence = "FS_SEEK_SET" THEN offset
      ELSE IF offset > size THEN size ELSE offset + prev_offset

(* A negative offset changes nothing; one beyond the largest ends on the   *)
(* last byte of the first block.                                           *)
fs_seek(f, offset, whence) ==
  LET d == fd[f] IN
  /\ f \in fd_used
  /\ offset >= 0
  /\ fd' = [fd EXCEPT ![f] =
              IF offset > MaxOffset
              THEN Cursor(d.inodeNum, 0, MaxOffset % BLOCK_SIZE_BYTES)
              ELSE Split(d.inodeNum, SeekTarget(d, offset, whence))]
  /\ stream' = stream \ {f}
  /\ UNCHANGED <<used, block, inode, wrote, killed, writes>>

-----------------------------------------------------------------------------
(* Where fs_read takes the descriptor to stand: inside of a later block,   *)
(* it is one block short.                                                  *)
PrevOffset(d) ==
  IF d.locate_order # 0 /\ d.locate_offset # 0
  THEN (d.locate_order - 1) * BLOCK_SIZE_BYTES + d.locate_offset
  ELSE Position(d)

(* The bytes fs_read copies; below zero it is a size_t that wraps around.  *)
ReadCount(d, nbyte) ==
  LET rest == inode[d.inodeNum].fileSize - PrevOffset(d)
  IN  IF nbyte > rest THEN rest ELSE nbyte

BlockOf(d) == IF d.locate_order <= fd_size THEN PointerAt(d.inodeNum, d.locate_order) ELSE 0

ReadFromStart(d, j) ==    \* Mutation: the offset is not added
  IF j < BLOCK_SIZE_BYTES /\ BlockOf(d) \in DataBlock THEN block[BlockOf(d)][j] ELSE Junk

(* Byte j of the answer: only one block is read, and what lies behind it   *)
(* on the stack, or in the buffer when the block cannot be read, is Junk.  *)
ReadByte(d, j) ==
  IF d.locate_offset + j < BLOCK_SIZE_BYTES /\ BlockOf(d) \in DataBlock
  THEN block[BlockOf(d)][d.locate_offset + j]
  ELSE Junk

(* The position goes to byte n of the block, or beyond the block.  A copy  *)
(* of a wrapped count ends the process: that is a Remount.                 *)
fs_read(f, nbyte) ==
  LET d == fd[f]
      n == ReadCount(d, nbyte)
  IN
  /\ f \in fd_used
  /\ n >= 0
  /\ fd' = [fd EXCEPT ![f] =
              IF BLOCK_SIZE_BYTES - d.locate_offset > n
              THEN Cursor(d.inodeNum, U16(d.locate_order + n \div BLOCK_SIZE_BYTES),
                          n % BLOCK_SIZE_BYTES)
              ELSE [d EXCEPT !.locate_offset = U16(@ + n)]]
  /\ stream' = stream \ {f}
  /\ UNCHANGED <<used, block, inode, wrote, killed, writes>>

-----------------------------------------------------------------------------
(* The arithmetic of write_direct_ptr's recursion, in closed form: a write *)
(* of nbyte bytes at d touches the orders up to the last direct pointer.   *)
(* In order o it stores available_space bytes from byte From on, taken     *)
(* from byte Consumed of the buffer on.                                    *)
From(d, o) == IF o = d.locate_order THEN d.locate_offset ELSE 0

ConsumedWhole(d, o) ==    \* Mutation: the first block is taken to be filled
  (o - d.locate_order) * BLOCK_SIZE_BYTES

Consumed(d, o) ==
  IF o = d.locate_order THEN 0
  ELSE (o - d.locate_order) * BLOCK_SIZE_BYTES - d.locate_offset

Touched(d, nbyte) ==
  {o \in Order : o = d.locate_order \/ (o > d.locate_order /\ Consumed(d, o) < nbyte)}

available_space(d, nbyte, o) ==
  Least(BLOCK_SIZE_BYTES - From(d, o), nbyte - Consumed(d, o))

DirectCount(d, nbyte) ==
  Least(nbyte, (fd_size - d.locate_order) * BLOCK_SIZE_BYTES - d.locate_offset)

(* The orders that bring a new block. *)
Fresh(d, orders) == {o \in orders : inode[d.inodeNum].directPointer[o] = 0}

AllocatedBlind(fresh, new) == TRUE    \* Mutation: the map is not looked at

(* block_store_allocate in each of these orders: the lowest free blocks,   *)
(* and Overflow when there are none.                                       *)
Allocated(fresh, new) ==
  /\ \A o \in fresh : new[o] # Overflow => new[o] \notin used
  /\ \A o, u \in fresh : (o < u /\ new[u] # Overflow) => new[o] < new[u] /\ new[o] # Overflow
  /\ \A o \in fresh : \A b \in DataBlock \ used :
       (new[o] = Overflow \/ b < new[o]) => \E u \in fresh : u < o /\ new[u] = b

Pointer(d, fresh, new) ==
  [o \in Order |-> IF o \in fresh THEN new[o] ELSE inode[d.inodeNum].directPointer[o]]

(* A new block is a copy of the buffer from its first byte to its last,    *)
(* whatever the offset and the number of bytes.                            *)
FreshBlock(d, nbyte, o) ==
  [j \in Offset |-> IF Consumed(d, o) + j < nbyte THEN <<d.inodeNum, Consumed(d, o) + j>> ELSE Junk]

OldBlock(d, nbyte, o, old) ==
  [j \in Offset |->
     IF j \in From(d, o) .. From(d, o) + available_space(d, nbyte, o) - 1
     THEN <<d.inodeNum, Consumed(d, o) + j - From(d, o)>> ELSE old[j]]

(* block_store_write in the orders given; the library refuses Overflow. *)
Store(d, nbyte, orders, fresh, pointer) ==
  [b \in DataBlock |->
     IF \E o \in orders : pointer[o] = b
     THEN LET o == CHOOSE u \in orders : pointer[u] = b
          IN  IF o \in fresh THEN FreshBlock(d, nbyte, o)
                             ELSE OldBlock(d, nbyte, o, block[b])
     ELSE block[b]]

(* What a caller may expect of these orders: the bytes of its buffer one   *)
(* after the other from Position on, except where they are known to be     *)
(* lost, in a new block that was not begun at its start and in Overflow.   *)
Lost(d, o, fresh, pointer) ==
  pointer[o] = Overflow \/ (o \in fresh /\ From(d, o) # 0)

Expected(d, nbyte, orders, fresh, pointer) ==
  [p \in Pos |->
     LET o == p \div BLOCK_SIZE_BYTES IN
       IF o \in orders /\ p - Position(d) \in 0 .. nbyte - 1
       THEN IF Lost(d, o, fresh, pointer) THEN None ELSE <<d.inodeNum, p - Position(d)>>
       ELSE wrote[d.inodeNum][p]]

(* Mutation: the order has no width. *)
AdvancedWide(d, nbyte) ==
  IF BLOCK_SIZE_BYTES - d.locate_offset < nbyte
  THEN Cursor(d.inodeNum, (Position(d) + nbyte) \div BLOCK_SIZE_BYTES,
              (Position(d) + nbyte) % BLOCK_SIZE_BYTES)
  ELSE Cursor(d.inodeNum, d.locate_order, d.locate_offset + nbyte)

(* Mutation: what the first block takes is not subtracted. *)
AdvancedTooFar(d, nbyte) ==
  IF BLOCK_SIZE_BYTES - d.locate_offset < nbyte
  THEN Cursor(d.inodeNum, U16(d.locate_order + 1 + nbyte \div BLOCK_SIZE_BYTES),
              nbyte % BLOCK_SIZE_BYTES)
  ELSE IF d.locate_offset + nbyte = Turn
       THEN Cursor(d.inodeNum, U16(d.locate_order + 1), 0)
       ELSE Cursor(d.inodeNum, d.locate_order, d.locate_offset + nbyte)

(* update_order_offset. *)
Advanced(d, nbyte) ==
  LET remaining == BLOCK_SIZE_BYTES - d.locate_offset
      offset    == d.locate_offset + nbyte
  IN  IF remaining < nbyte
      THEN Cursor(d.inodeNum,
                  U16(d.locate_order + 1 + (nbyte - remaining) \div BLOCK_SIZE_BYTES),
                  (nbyte - remaining) % BLOCK_SIZE_BYTES)
      ELSE IF offset = Turn THEN Cursor(d.inodeNum, U16(d.locate_order + 1), 0)
                            ELSE Cursor(d.inodeNum, d.locate_order, offset)

(* The other descriptors of the file end their streams, and so does this   *)
(* one when it turned or was cut short.                                    *)
StreamsAfter(f, d, nbyte) ==
  {g \in stream :
     IF g = f THEN d.locate_offset + nbyte # Turn /\ DirectCount(d, nbyte) = nbyte
              ELSE fd[g].inodeNum # d.inodeNum}

Writable(f) ==
  /\ f \in fd_used
  /\ fd[f].locate_offset <= BLOCK_SIZE_BYTES
  /\ writes < MaxWrites
  /\ writes' = writes + 1

(* fileSize counts what was asked for, new in the file or written over. *)
Grown(d, count) == [inode[d.inodeNum] EXCEPT !.fileSize = @ + count]

(* fs_write, through the direct pointers: it ends behind the last of them. *)
WriteDirect(f, nbyte) ==
  LET d      == fd[f]
      orders == Touched(d, nbyte)
      fresh  == Fresh(d, orders)
  IN
  /\ Writable(f)
  /\ d.locate_order < fd_size
  /\ \E new \in [fresh -> DataBlock \cup {Overflow}] :
       LET pointer == Pointer(d, fresh, new) IN
       /\ Allocated(fresh, new)
       /\ used' = used \cup {new[o] : o \in {u \in fresh : new[u] # Overflow}}
       /\ block' = Store(d, nbyte, orders, fresh, pointer)
       /\ inode' = [inode EXCEPT ![d.inodeNum] =
                      [Grown(d, DirectCount(d, nbyte)) EXCEPT !.directPointer = pointer]]
       /\ wrote' = [wrote EXCEPT ![d.inodeNum] = Expected(d, nbyte, orders, fresh, pointer)]
  /\ fd' = [fd EXCEPT ![f] = Advanced(d, nbyte)]
  /\ stream' = StreamsAfter(f, d, nbyte)
  /\ UNCHANGED killed

(* The process dies inside of write_direct_ptr, in order cut: before it    *)
(* allocates, between the allocation and the write of the block, or (with  *)
(* cut = fd_size) before the inode is written.  The orders before are      *)
(* stored; new blocks belong to nobody, and their bytes do not matter.     *)
KilledDirect(d, nbyte) ==
  /\ d.locate_order < fd_size
  /\ \E cut \in Touched(d, nbyte) \cup {fd_size}, allocating \in BOOLEAN :
       LET done  == {o \in Touched(d, nbyte) : o < cut}
           fresh == Fresh(d, {o \in Touched(d, nbyte) : o < cut \/ (allocating /\ o = cut)})
       IN \E new \in [fresh -> DataBlock \cup {Overflow}] :
            LET pointer == Pointer(d, fresh, new) IN
            /\ Allocated(fresh, new)
            /\ used' = used \cup {new[o] : o \in {u \in fresh : new[u] # Overflow}}
            /\ block' = Store(d, nbyte, done \ fresh, fresh, pointer)
            /\ wrote' = [wrote EXCEPT ![d.inodeNum] =
                           Expected(d, nbyte, done \ fresh, fresh, pointer)]

(* write_indirect_ptr counts bytes in every pointer from the one of this   *)
(* order on, with the same room in each, and stores none of them.          *)
IndirectCount(d, nbyte) ==
  LET avail == (d.locate_order - fd_size) % number_pointers
  IN  Least(nbyte, (number_pointers - avail) * (BLOCK_SIZE_BYTES - d.locate_offset))

LowestFree(b) == b \in DataBlock \ used /\ \A c \in DataBlock \ used : b <= c

(* fs_write, through the indirect pointer: the file grows by bytes that    *)
(* are nowhere, and the position stays.  On a full device nothing happens. *)
WriteIndirect(f, nbyte) ==
  LET d    == fd[f]
      file == d.inodeNum
  IN
  /\ Writable(f)
  /\ d.locate_order \in fd_size .. fd_size + number_pointers - 1
  /\ \/ /\ inode[file].indirectPointer # 0
        /\ inode' = [inode EXCEPT ![file] = Grown(d, IndirectCount(d, nbyte))]
        /\ UNCHANGED <<used, block>>
     \/ /\ inode[file].indirectPointer = 0
        /\ \E b \in DataBlock :
             /\ LowestFree(b)
             /\ used' = used \cup {b}
             /\ block' = [block EXCEPT ![b] = [j \in Offset |-> Zero]]
             /\ inode' = [inode EXCEPT ![file] =
                            [Grown(d, IndirectCount(d, nbyte)) EXCEPT !.indirectPointer = b]]
  /\ stream' = {g \in stream : fd[g].inodeNum # file}
  /\ UNCHANGED <<fd, wrote, killed>>

KilledIndirect(d) ==
  /\ d.locate_order \in fd_size .. fd_size + number_pointers - 1
  /\ inode[d.inodeNum].indirectPointer = 0
  /\ \E b \in DataBlock : LowestFree(b) /\ used' = used \cup {b}
  /\ UNCHANGED <<block, wrote>>

(* Bound: one process dies inside of a write. *)
KilledInWrite(f, nbyte) ==
  /\ ~ killed /\ killed' = TRUE
  /\ Writable(f)
  /\ KilledDirect(fd[f], nbyte) \/ KilledIndirect(fd[f])
  /\ fd' = NoDescriptor /\ stream' = {}
  /\ UNCHANGED inode

(* fs_write, from the double indirect pointer on: block 0 is read for its  *)
(* pointers and some block is written back as it was.                      *)
WriteDoubleIndirect(f, nbyte) ==
  LET d == fd[f] IN
  /\ Writable(f)
  /\ d.locate_order >= fd_size + number_pointers
  /\ inode' = [inode EXCEPT ![d.inodeNum] = Grown(d, IndirectCount(d, nbyte))]
  /\ fd' = [fd EXCEPT ![f] = Advanced(d, nbyte)]
  /\ stream' = {g \in stream : fd[g].inodeNum # d.inodeNum}
  /\ UNCHANGED <<used, block, wrote, killed>>

Next ==
  \/ \E file \in File : fs_open(file)
  \/ \E f \in Fd : fs_close(f)
  \/ Remount
  \/ \E f \in Fd, offset \in Offsets, whence \in {"FS_SEEK_SET", "FS_SEEK_CUR"} :
       fs_seek(f, offset, whence)
  \/ \E f \in Fd, nbyte \in Requests :
       \/ fs_read(f, nbyte)
       \/ WriteDirect(f, nbyte) \/ KilledInWrite(f, nbyte)
       \/ WriteIndirect(f, nbyte) \/ WriteDoubleIndirect(f, nbyte)

Spec == Init /\ [][Next]_vars

-----------------------------------------------------------------------------
(* No block of the device serves two pointers, of one file or of two, and  *)
(* every pointer's block is marked in the free block map.  Unless a        *)
(* process died inside of a write, no other block is marked: none is lost. *)
FilesApart ==
  /\ \A file, g \in File : \A o, u \in Slot :
       PointerAt(file, o) \in DataBlock =>
         /\ PointerAt(file, o) = PointerAt(g, u) => file = g /\ o = u
         /\ PointerAt(file, o) \in used
  /\ ~ killed => \A b \in used : \E file \in File, o \in Slot : PointerAt(file, o) = b

(* A position reads back the byte that the last write to it had there,     *)
(* whichever descriptors wrote to the file, over block borders, across     *)
(* seeks, and whenever a process died: except where Lost says so.          *)
Stored(file, p) ==
  block[inode[file].directPointer[p \div BLOCK_SIZE_BYTES]][p % BLOCK_SIZE_BYTES]

WrittenIsStored ==
  \A file \in File : \A p \in Pos :
    wrote[file][p] # None =>
      /\ inode[file].directPointer[p \div BLOCK_SIZE_BYTES] \in DataBlock
      /\ Stored(file, p) = wrote[file][p]

(* A descriptor that only appends stands at the end of the file, and until *)
(* the device is full the file is what was written, without a gap.         *)
StreamsAppend ==
  \A f \in stream :
    LET file == fd[f].inodeNum IN
    /\ Position(fd[f]) = inode[file].fileSize
    /\ ~ DataBlock \subseteq used =>
         \A p \in Pos : p < inode[file].fileSize => wrote[file][p] # None

(* A read inside of a block answers what was written there, and in the     *)
(* first block or at the start of a later one it ends with the file.       *)
ReadsWhatWasWritten ==
  \A f \in fd_used, nbyte \in Requests :
    LET d == fd[f]
        file == d.inodeNum
        n == ReadCount(d, nbyte)
    IN
    /\ (d.locate_order = 0 \/ d.locate_offset = 0) /\ Position(d) <= inode[file].fileSize
         => n = Least(nbyte, inode[file].fileSize - Position(d))
    /\ \A j \in 0 .. n - 1 :
         (d.locate_offset + j < BLOCK_SIZE_BYTES /\ Position(d) + j \in Pos)
           => wrote[file][Position(d) + j] \in {None, ReadByte(d, j)}

-----------------------------------------------------------------------------
(* FS.h on fs_read and fs_write: "R/W position in incremented by the       *)
(* number of bytes read", and written.                                     *)
PositionAdvances ==
  [][\A f \in Fd, nbyte \in Requests :
       /\ WriteDirect(f, nbyte) =>
            Position(fd'[f]) = Position(fd[f]) + DirectCount(fd[f], nbyte)
       /\ fs_read(f, nbyte) =>
            Position(fd'[f]) = Position(fd[f]) + ReadCount(fd[f], nbyte)]_vars
=============================================================================
