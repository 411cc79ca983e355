------------------------- MODULE FileContentsProofs -------------------------
(***************************************************************************)
(* Proofs about FileContents, for every size of blocks and inodes, every   *)
(* place of the turn, and every set of files, descriptors and blocks.      *)
(***************************************************************************)
EXTENDS FileContents, TLAPS

USE ContentConstants

-----------------------------------------------------------------------------
(* A position is a byte of one order. *)
LEMMA PositionSplit ==
  ASSUME NEW p \in Pos
  PROVE  /\ p \div BLOCK_SIZE_BYTES \in Order /\ p % BLOCK_SIZE_BYTES \in Offset
         /\ p = (p \div BLOCK_SIZE_BYTES) * BLOCK_SIZE_BYTES + (p % BLOCK_SIZE_BYTES)
<1> DEFINE B == BLOCK_SIZE_BYTES
           q == p \div B
<1>1. B \in Nat \ {0} /\ p \in Nat /\ p < fd_size * B /\ fd_size \in Nat
  BY DEF Pos
<1>2. q \in Nat /\ p % B \in Offset /\ p = q * B + (p % B)
  BY <1>1 DEF Offset
<1> HIDE DEF q
<1>3. q < fd_size
  <2>1. SUFFICES ASSUME q >= fd_size PROVE FALSE
    BY <1>1, <1>2
  <2>2. q * B >= fd_size * B
    BY <1>1, <1>2, <2>1
  <2>3. p % B >= 0
    BY <1>2 DEF Offset
  <2> QED BY <1>1, <1>2, <2>2, <2>3 DEF Offset
<1>4. q \in Order
  BY <1>1, <1>2, <1>3 DEF Order
<1> QED BY <1>2, <1>4 DEF q

(* In a write at d, byte j of a touched order is the byte of the buffer    *)
(* whose distance from the position of d it has.                           *)
LEMMA ByteOfBuffer ==
  ASSUME NEW d \in Descriptor, d.locate_offset <= BLOCK_SIZE_BYTES,
         NEW nbyte \in Nat,
         NEW o \in Order, NEW j \in Offset, o >= d.locate_order
  PROVE  /\ Position(d) \in Nat
         /\ Consumed(d, o) \in Nat /\ From(d, o) \in Nat
         /\ Consumed(d, o) + j - From(d, o) = o * BLOCK_SIZE_BYTES + j - Position(d)
         /\ j \in From(d, o) .. From(d, o) + available_space(d, nbyte, o) - 1
              => Consumed(d, o) + j - From(d, o) \in 0 .. nbyte - 1
         /\ (/\ o * BLOCK_SIZE_BYTES + j - Position(d) \in 0 .. nbyte - 1
             /\ o \in Touched(d, nbyte))
              => j \in From(d, o) .. From(d, o) + available_space(d, nbyte, o) - 1
<1> DEFINE B == BLOCK_SIZE_BYTES
           lo == d.locate_order
           off == d.locate_offset
           from == From(d, o)
           done == Consumed(d, o)
           room == available_space(d, nbyte, o)
           k == o * B + j - Position(d)
<1>1. /\ B \in Nat \ {0} /\ lo \in Nat /\ off \in Nat /\ off <= B
      /\ o \in Nat /\ j \in Nat /\ j < B /\ lo <= o
  BY DEF Descriptor, Order, Offset
<1>2. lo * B \in Nat /\ o * B \in Nat /\ (o - lo) * B = o * B - lo * B
  BY <1>1
<1>3. Position(d) = lo * B + off
  BY DEF Position
<1>4. /\ done \in Nat /\ from \in Nat /\ done + j - from = k
      /\ (o \in Touched(d, nbyte) /\ k \in 0 .. nbyte - 1) => j >= from
  <2>1. CASE o = lo
    <3>1. done = 0 /\ from = off
      BY <2>1 DEF Consumed, From
    <3>2. k = j - off
      BY <1>1, <1>2, <1>3, <2>1
    <3> QED BY <1>1, <3>1, <3>2
  <2>2. CASE o > lo
    <3>1. done = o * B - lo * B - off /\ from = 0
      BY <1>1, <1>2, <2>2 DEF Consumed, From
    <3>2. (o - lo) * B >= B
      BY <1>1, <2>2
    <3>3. k = o * B - lo * B - off + j
      BY <1>1, <1>2, <1>3
    <3>4. done \in Nat
      BY <1>1, <1>2, <3>1, <3>2
    <3> HIDE DEF k, done, from
    <3> QED BY <1>1, <1>2, <3>1, <3>3, <3>4
  <2> QED BY <1>1, <2>1, <2>2
<1>5. room = IF B - from <= nbyte - done THEN B - from ELSE nbyte - done
  BY DEF available_space, Least
<1>6. k \in Int /\ Position(d) \in Nat
  BY <1>1, <1>2, <1>3
<1> HIDE DEF k, done, from, room
<1>7. j \in from .. from + room - 1 => done + j - from \in 0 .. nbyte - 1
  BY <1>1, <1>4, <1>5
<1>8. (k \in 0 .. nbyte - 1 /\ o \in Touched(d, nbyte)) => j \in from .. from + room - 1
  BY <1>1, <1>4, <1>5, <1>6
<1> QED BY <1>4, <1>6, <1>7, <1>8 DEF k, done, from, room

-----------------------------------------------------------------------------
(* The pointers a write leaves in its file: no two of them agree, and none *)
(* is a pointer of another file.                                           *)
LEMMA NewPointers ==
  ASSUME TypeOK, FilesApart, NEW d \in Descriptor,
         NEW fresh \in SUBSET Order,
         \A o \in fresh : inode[d.inodeNum].directPointer[o] = 0,
         NEW new \in [fresh -> DataBlock \cup {Overflow}], Allocated(fresh, new),
         NEW pointer, pointer = Pointer(d, fresh, new)
  PROVE  /\ pointer \in [Order -> DataBlock \cup {0, Overflow}]
         /\ \A o \in Order \ fresh : pointer[o] = inode[d.inodeNum].directPointer[o]
         /\ \A o \in fresh : pointer[o] = new[o]
         /\ \A o \in fresh : pointer[o] \notin used
         /\ \A o, u \in Order :
              pointer[o] \in DataBlock /\ pointer[o] = pointer[u] => o = u
         /\ \A o \in Order, file \in File, u \in Slot :
              pointer[o] \in DataBlock /\ pointer[o] = PointerAt(file, u)
                => file = d.inodeNum /\ u = o
<1> DEFINE F == d.inodeNum
<1>1. /\ F \in File /\ inode[F] \in Inode
      /\ inode[F].directPointer \in [Order -> DataBlock \cup {0, Overflow}]
  BY DEF TypeOK, Descriptor, Inode
<1>2. \A o \in Order : o \in Slot /\ o # fd_size /\ o \in Nat
  BY DEF Order, Slot
<1>3. \A o \in Order : PointerAt(F, o) = inode[F].directPointer[o]
  BY <1>2 DEF PointerAt
<1>4. /\ pointer \in [Order -> DataBlock \cup {0, Overflow}]
      /\ \A o \in Order \ fresh : pointer[o] = PointerAt(F, o)
      /\ \A o \in fresh : pointer[o] = new[o]
  BY <1>1, <1>3 DEF Pointer
<1>5. \A o \in fresh : pointer[o] \notin used
  BY <1>4 DEF Allocated, TypeOK
<1>6. ASSUME NEW o \in Order, NEW file \in File, NEW u \in Slot,
             pointer[o] \in DataBlock, pointer[o] = PointerAt(file, u)
      PROVE  file = F /\ u = o
  <2>1. pointer[o] \in used
    BY <1>6 DEF FilesApart
  <2>2. o \notin fresh
    BY <1>5, <2>1
  <2> QED BY <1>1, <1>2, <1>4, <1>6, <2>2 DEF FilesApart
<1>7. ASSUME NEW o \in Order, NEW u \in Order,
             pointer[o] \in DataBlock, pointer[o] = pointer[u]
      PROVE  o = u
  <2>1. CASE o \notin fresh
    <3>1. pointer[u] = PointerAt(F, o)
      BY <1>4, <1>7, <2>1
    <3> QED BY <1>1, <1>2, <1>6, <1>7, <3>1
  <2>2. CASE u \notin fresh
    <3>1. pointer[o] = PointerAt(F, u)
      BY <1>4, <1>7, <2>2
    <3> QED BY <1>1, <1>2, <1>6, <1>7, <3>1
  <2>3. CASE o \in fresh /\ u \in fresh
    <3>1. new[o] \in Nat /\ new[o] = new[u] /\ new[o] # Overflow
      BY <1>4, <1>7, <2>3
    <3>2. ~ o < u /\ ~ u < o
      BY <3>1, <2>3 DEF Allocated
    <3> QED BY <1>2, <3>2
  <2> QED BY <2>1, <2>2, <2>3
<1> QED BY <1>3, <1>4, <1>5, <1>6, <1>7

(* What a position holds after the orders given were stored: the byte of   *)
(* the buffer that is expected there, and elsewhere what it held.  It is   *)
(* enough that a new block is marked nowhere and that an order without a   *)
(* block gets one.                                                         *)
LEMMA StoreEffect ==
  ASSUME TypeOK, FilesApart, WrittenIsStored,
         NEW d \in Descriptor, d.locate_offset <= BLOCK_SIZE_BYTES,
         NEW nbyte \in Nat,
         NEW orders \in SUBSET Touched(d, nbyte), NEW fresh \in SUBSET Order,
         \A o \in fresh : inode[d.inodeNum].directPointer[o] = 0,
         \A o \in orders \ fresh : inode[d.inodeNum].directPointer[o] # 0,
         NEW new \in [fresh -> DataBlock \cup {Overflow}], Allocated(fresh, new),
         NEW pointer, pointer = Pointer(d, fresh, new),
         NEW bytes, bytes = Store(d, nbyte, orders, fresh, pointer),
         NEW expected, expected = Expected(d, nbyte, orders, fresh, pointer),
         NEW p \in Pos
  PROVE  /\ expected[p] # None =>
              /\ pointer[p \div BLOCK_SIZE_BYTES] \in DataBlock
              /\ bytes[pointer[p \div BLOCK_SIZE_BYTES]][p % BLOCK_SIZE_BYTES] = expected[p]
         /\ \A file \in File \ {d.inodeNum} :
              LET b == inode[file].directPointer[p \div BLOCK_SIZE_BYTES]
              IN  b \in DataBlock => bytes[b] = block[b]
<1> DEFINE F == d.inodeNum
           o == p \div BLOCK_SIZE_BYTES
           j == p % BLOCK_SIZE_BYTES
           old == inode[F].directPointer
           k == p - Position(d)
<1>1. /\ o \in Order /\ j \in Offset
      /\ k = o * BLOCK_SIZE_BYTES + j - Position(d)
      /\ F \in File /\ orders \subseteq Order
  <2>1. o \in Order /\ j \in Offset /\ p = o * BLOCK_SIZE_BYTES + j
    BY PositionSplit
  <2> HIDE DEF o, j
  <2>2. /\ BLOCK_SIZE_BYTES \in Nat /\ o \in Nat /\ j \in Nat
        /\ Position(d) \in Int
    BY <2>1 DEF Order, Offset, Descriptor, Position
  <2>3. k = o * BLOCK_SIZE_BYTES + j - Position(d)
    BY <2>1, <2>2
  <2> QED BY <2>1, <2>3 DEF Descriptor, Touched
<1> HIDE DEF o, j, k
<1>2. /\ pointer \in [Order -> DataBlock \cup {0, Overflow}]
      /\ \A u \in Order \ fresh : pointer[u] = old[u]
      /\ \A u \in fresh : pointer[u] = new[u]
  <2>1. old \in [Order -> DataBlock \cup {0, Overflow}]
    BY <1>1 DEF TypeOK, Inode
  <2> QED BY <2>1 DEF Pointer
<1>3. \A u, v \in Order : pointer[u] \in DataBlock /\ pointer[u] = pointer[v] => u = v
  BY NewPointers, ZenonT(30)
<1>4. \A u \in Order, file \in File, v \in Slot :
        pointer[u] \in DataBlock /\ pointer[u] = PointerAt(file, v) => file = F /\ v = u
  BY NewPointers, SMTT(30)
(* The block of an order is stored from that order or from none. *)
<1>5. ASSUME NEW u \in Order, pointer[u] \in DataBlock
      PROVE  bytes[pointer[u]] =
               IF u \in orders
               THEN IF u \in fresh THEN FreshBlock(d, nbyte, u)
                                   ELSE OldBlock(d, nbyte, u, block[pointer[u]])
               ELSE block[pointer[u]]
  <2>1. bytes[pointer[u]] =
          IF \E v \in orders : pointer[v] = pointer[u]
          THEN LET v == CHOOSE w \in orders : pointer[w] = pointer[u]
               IN  IF v \in fresh THEN FreshBlock(d, nbyte, v)
                                  ELSE OldBlock(d, nbyte, v, block[pointer[u]])
          ELSE block[pointer[u]]
    BY <1>5 DEF Store
  <2>2. \A v \in orders : pointer[v] = pointer[u] => v = u
    BY <1>1, <1>3, <1>5
  <2>3. CASE u \in orders
    <3>1. (CHOOSE w \in orders : pointer[w] = pointer[u]) = u
      BY <2>2, <2>3
    <3> QED BY <2>1, <2>3, <3>1
  <2>4. CASE u \notin orders
    BY <2>1, <2>2, <2>4
  <2> QED BY <2>3, <2>4
<1>6. expected[p] = IF o \in orders /\ k \in 0 .. nbyte - 1
                    THEN IF Lost(d, o, fresh, pointer) THEN None ELSE <<F, k>>
                    ELSE wrote[F][p]
  BY DEF Expected, o, k
<1>7. ASSUME o \in orders, k \in 0 .. nbyte - 1, ~ Lost(d, o, fresh, pointer)
      PROVE  pointer[o] \in DataBlock /\ bytes[pointer[o]][j] = <<F, k>>
  <2>1. pointer[o] \in DataBlock
    BY <1>1, <1>2, <1>7 DEF Lost
  <2>2. o \in Touched(d, nbyte) /\ o >= d.locate_order
    BY <1>1, <1>7 DEF Touched, Descriptor, Order
  <2>3. /\ Consumed(d, o) + j - From(d, o) = k
        /\ Consumed(d, o) \in Nat /\ From(d, o) \in Nat
        /\ j \in From(d, o) .. From(d, o) + available_space(d, nbyte, o) - 1
    BY <1>1, <1>7, <2>2, ByteOfBuffer
  <2>4. CASE o \in fresh
    <3>1. From(d, o) = 0
      BY <1>7, <2>4 DEF Lost
    <3>2. Consumed(d, o) + j = k
      BY <1>1, <2>3, <3>1 DEF Offset
    <3>3. FreshBlock(d, nbyte, o)[j] = <<F, k>>
      BY <1>1, <1>7, <3>2 DEF FreshBlock
    <3> QED BY <1>1, <1>5, <1>7, <2>1, <2>4, <3>3
  <2>5. CASE o \notin fresh
    <3>1. OldBlock(d, nbyte, o, block[pointer[o]])[j] = <<F, k>>
      BY <1>1, <2>3 DEF OldBlock
    <3> QED BY <1>1, <1>5, <1>7, <2>1, <2>5, <3>1
  <2> QED BY <2>4, <2>5
<1>8. ASSUME ~ (o \in orders /\ k \in 0 .. nbyte - 1), wrote[F][p] # None
      PROVE  pointer[o] \in DataBlock /\ bytes[pointer[o]][j] = wrote[F][p]
  <2>1. old[o] \in DataBlock /\ block[old[o]][j] = wrote[F][p]
    BY <1>1, <1>8 DEF WrittenIsStored, Stored, o, j
  <2>2. o \notin fresh /\ pointer[o] = old[o]
    BY <1>1, <1>2, <2>1
  <2>3. CASE o \notin orders
    BY <1>1, <1>5, <2>1, <2>2, <2>3
  <2>4. CASE o \in orders
    <3>1. o >= d.locate_order
      BY <1>1, <2>4 DEF Touched, Descriptor, Order
    <3>2. j \notin From(d, o) .. From(d, o) + available_space(d, nbyte, o) - 1
      BY <1>1, <1>8, <2>4, <3>1, ByteOfBuffer
    <3>3. OldBlock(d, nbyte, o, block[pointer[o]])[j] = block[pointer[o]][j]
      BY <1>1, <3>2 DEF OldBlock
    <3> QED BY <1>1, <1>5, <2>1, <2>2, <2>4, <3>3
  <2> QED BY <2>3, <2>4
<1>9. ASSUME NEW file \in File \ {F}, inode[file].directPointer[o] \in DataBlock
      PROVE  bytes[inode[file].directPointer[o]] = block[inode[file].directPointer[o]]
  <2> DEFINE b == inode[file].directPointer[o]
  <2>1. o \in Slot /\ b = PointerAt(file, o)
    BY <1>1 DEF Order, Slot, PointerAt
  <2>2. \A u \in orders : pointer[u] # b
    BY <1>1, <1>4, <1>9, <2>1
  <2> QED BY <1>9, <2>2 DEF Store
<1> QED BY <1>6, <1>7, <1>8, <1>9 DEF o, j

(* What is stored and what is expected are bytes. *)
LEMMA StoreType ==
  ASSUME TypeOK,
         NEW d \in Descriptor, d.locate_offset <= BLOCK_SIZE_BYTES, NEW nbyte \in Nat,
         NEW orders \in SUBSET Touched(d, nbyte), NEW fresh \in SUBSET Order, NEW pointer
  PROVE  /\ Store(d, nbyte, orders, fresh, pointer) \in [DataBlock -> [Offset -> Byte]]
         /\ Expected(d, nbyte, orders, fresh, pointer) \in [Pos -> Byte]
<1>1. d.inodeNum \in File /\ Junk \in Byte /\ None \in Byte
  BY DEF Descriptor, Byte
<1>2. ASSUME NEW o \in orders
      PROVE  /\ FreshBlock(d, nbyte, o) \in [Offset -> Byte]
             /\ \A old \in [Offset -> Byte] : OldBlock(d, nbyte, o, old) \in [Offset -> Byte]
  <2>1. o \in Order /\ o >= d.locate_order
    BY DEF Touched, Descriptor, Order
  <2>2. ASSUME NEW j \in Offset
        PROVE  /\ Consumed(d, o) + j \in Nat
               /\ j \in From(d, o) .. From(d, o) + available_space(d, nbyte, o) - 1
                    => Consumed(d, o) + j - From(d, o) \in Nat
    <3>1. Consumed(d, o) \in Nat /\ j \in Nat
      BY <2>1, ByteOfBuffer DEF Offset
    <3>2. j \in From(d, o) .. From(d, o) + available_space(d, nbyte, o) - 1
            => Consumed(d, o) + j - From(d, o) \in 0 .. nbyte - 1
      BY <2>1, ByteOfBuffer
    <3> QED BY <3>1, <3>2
  <2> QED BY <1>1, <2>2 DEF FreshBlock, OldBlock, Byte
<1>3. ASSUME NEW b \in DataBlock
      PROVE  Store(d, nbyte, orders, fresh, pointer)[b] \in [Offset -> Byte]
  <2>1. block[b] \in [Offset -> Byte]
    BY DEF TypeOK
  <2>2. CASE \E o \in orders : pointer[o] = b
    <3> DEFINE o == CHOOSE u \in orders : pointer[u] = b
    <3>1. o \in orders
      BY <2>2
    <3>2. Store(d, nbyte, orders, fresh, pointer)[b] =
            IF o \in fresh THEN FreshBlock(d, nbyte, o) ELSE OldBlock(d, nbyte, o, block[b])
      BY <2>2 DEF Store
    <3> HIDE DEF o
    <3> QED BY <1>2, <2>1, <3>1, <3>2
  <2>3. CASE ~ \E o \in orders : pointer[o] = b
    BY <2>1, <2>3 DEF Store
  <2> QED BY <2>2, <2>3
<1>4. ASSUME NEW p \in Pos
      PROVE  Expected(d, nbyte, orders, fresh, pointer)[p] \in Byte
  <2>1. wrote[d.inodeNum][p] \in Byte
    BY <1>1 DEF TypeOK
  <2>2. p - Position(d) \in 0 .. nbyte - 1 => <<d.inodeNum, p - Position(d)>> \in Byte
    BY <1>1 DEF Byte
  <2> QED BY <1>1, <2>1, <2>2 DEF Expected
<1> QED BY <1>3, <1>4 DEF Store, Expected

LEMMA CursorType ==
  ASSUME NEW file \in File, NEW n \in Int, NEW offset \in 0 .. Word - 1
  PROVE  Cursor(file, U16(n), offset) \in Descriptor
<1>1. U16(n) \in 0 .. Word - 1
  BY DEF U16
<1> QED BY <1>1 DEF Cursor, Descriptor

LEMMA AdvancedType ==
  ASSUME NEW d \in Descriptor, d.locate_offset <= BLOCK_SIZE_BYTES, NEW nbyte \in Nat
  PROVE  Advanced(d, nbyte) \in Descriptor
<1> DEFINE B == BLOCK_SIZE_BYTES
           rest == nbyte - (B - d.locate_offset)
<1>1. /\ d.inodeNum \in File /\ d.locate_order \in Nat /\ d.locate_order < Word
      /\ d.locate_offset \in Nat
  BY DEF Descriptor
<1>2. CASE B - d.locate_offset < nbyte
  <2>1. rest \div B \in Int /\ rest % B \in 0 .. Word - 1
    BY <1>1
  <2>2. d.locate_order + 1 + rest \div B \in Int
    BY <1>1, <2>1
  <2> QED BY <1>1, <1>2, <2>1, <2>2, CursorType DEF Advanced
<1>3. CASE ~ B - d.locate_offset < nbyte
  <2>1. d.locate_offset + nbyte \in 0 .. Word - 1
    BY <1>1, <1>3
  <2>2. Cursor(d.inodeNum, d.locate_order, d.locate_offset + nbyte) \in Descriptor
    BY <1>1, <2>1 DEF Cursor, Descriptor
  <2>3. Cursor(d.inodeNum, U16(d.locate_order + 1), 0) \in Descriptor
    BY <1>1, CursorType
  <2> QED BY <1>3, <2>2, <2>3 DEF Advanced
<1> QED BY <1>2, <1>3

(* What a write adds to the size of a file is a number of bytes. *)
LEMMA CountType ==
  ASSUME NEW d \in Descriptor, d.locate_offset <= BLOCK_SIZE_BYTES, NEW nbyte \in Nat
  PROVE  /\ d.locate_order < fd_size => DirectCount(d, nbyte) \in Nat
         /\ IndirectCount(d, nbyte) \in Nat
<1> DEFINE B == BLOCK_SIZE_BYTES
<1>1. /\ d.locate_order \in Nat /\ d.locate_offset \in Nat /\ B \in Nat /\ fd_size \in Nat
      /\ number_pointers \in Nat \ {0}
  BY DEF Descriptor
<1>2. ASSUME d.locate_order < fd_size
      PROVE  DirectCount(d, nbyte) \in Nat
  <2> DEFINE k == fd_size - d.locate_order
  <2>1. k \in Nat /\ k >= 1
    BY <1>1, <1>2
  <2> HIDE DEF k
  <2>2. k * B \in Nat /\ k * B >= B
    BY <1>1, <2>1
  <2>3. k * B - d.locate_offset \in Nat
    BY <1>1, <2>2
  <2> QED BY <2>3 DEF DirectCount, Least, k
<1>3. IndirectCount(d, nbyte) \in Nat
  <2> DEFINE avail == (d.locate_order - fd_size) % number_pointers
             n == number_pointers - avail
             room == B - d.locate_offset
  <2>1. n \in Nat /\ room \in Nat
    BY <1>1
  <2> HIDE DEF n, room
  <2>2. n * room \in Nat
    BY <2>1
  <2> QED BY <2>2 DEF IndirectCount, Least, n, room
<1> QED BY <1>2, <1>3

-----------------------------------------------------------------------------
(* The inductive invariant.  That a write spoils no other file's bytes is  *)
(* known from FilesApart, and a new block stores only positions about      *)
(* which WrittenIsStored claims nothing, because their pointer was 0.      *)
Inv == TypeOK /\ FilesApart /\ WrittenIsStored

LEMMA InitInv == Init => Inv
<1> SUFFICES ASSUME Init PROVE Inv
  OBVIOUS
<1> USE DEF Init
<1>2. TypeOK
  <2>1. fd_used = {} /\ fd \in [fd_used -> Descriptor]
    BY DEF fd_used, NoDescriptor
  <2>2. \A file \in File : inode[file] \in Inode
    BY DEF NewFile, Inode
  <2>3. inode \in [File -> Inode]
    BY <2>2
  <2>4. block \in [DataBlock -> [Offset -> Byte]] /\ wrote \in [File -> [Pos -> Byte]]
    BY DEF Byte
  <2>5. used \subseteq DataBlock /\ stream \subseteq fd_used
    OBVIOUS
  <2>6. writes \in 0 .. MaxWrites
    OBVIOUS
  <2>7. killed \in BOOLEAN
    BY Zenon
  <2> HIDE DEF Init
  <2> QED BY <2>1, <2>3, <2>4, <2>5, <2>6, <2>7 DEF TypeOK
<1>3. \A file \in File, o \in Slot : PointerAt(file, o) = 0
  BY DEF PointerAt, NewFile, Order, Slot
<1>4. FilesApart
  BY <1>3 DEF FilesApart
<1>5. WrittenIsStored
  BY DEF WrittenIsStored
<1> QED BY <1>2, <1>4, <1>5 DEF Inv

(* An action that moves descriptors disturbs no byte. *)
LEMMA DescriptorsMove ==
  ASSUME Inv, UNCHANGED <<used, block, inode, wrote, killed, writes>>,
         fd_used' \subseteq Fd, fd' \in [fd_used' -> Descriptor], stream' \subseteq fd_used'
  PROVE  Inv'
<1> USE DEF Inv
<1>1. TypeOK'
  BY DEF TypeOK
<1>2. FilesApart'
  BY DEF FilesApart, PointerAt
<1>3. WrittenIsStored'
  BY DEF WrittenIsStored, Stored
<1> QED BY <1>1, <1>2, <1>3

LEMMA OpenInv == ASSUME Inv, NEW file \in File, fs_open(file) PROVE Inv'
<1> USE DEF Inv, fs_open
<1>1. PICK f \in Fd \ fd_used :
        /\ fd' = [g \in fd_used \cup {f} |-> IF g = f THEN Cursor(file, 0, 0) ELSE fd[g]]
        /\ stream' = IF inode[file].fileSize = 0 THEN stream \cup {f} ELSE stream
  OBVIOUS
<1>2. Cursor(file, 0, 0) \in Descriptor
  BY DEF Cursor, Descriptor
<1>3. fd_used' = fd_used \cup {f}
  BY <1>1 DEF fd_used
<1>4. fd' \in [fd_used' -> Descriptor] /\ fd_used' \subseteq Fd /\ stream' \subseteq fd_used'
  BY <1>1, <1>2, <1>3 DEF TypeOK
<1> QED BY <1>4, DescriptorsMove

LEMMA CloseInv == ASSUME Inv, NEW f \in Fd, fs_close(f) PROVE Inv'
<1> USE DEF Inv, fs_close
<1>1. fd_used' = fd_used \ {f}
  BY DEF fd_used
<1>2. fd' \in [fd_used' -> Descriptor] /\ fd_used' \subseteq Fd /\ stream' \subseteq fd_used'
  BY <1>1 DEF TypeOK
<1> QED BY <1>2, DescriptorsMove

LEMMA NoDescriptorType ==
  ASSUME fd' = NoDescriptor
  PROVE  fd_used' = {} /\ fd' \in [fd_used' -> Descriptor]
BY DEF fd_used, NoDescriptor

LEMMA RemountInv == Inv /\ Remount => Inv'
<1> SUFFICES ASSUME Inv, Remount PROVE Inv'
  OBVIOUS
<1>1. fd_used' = {} /\ fd' \in [fd_used' -> Descriptor] /\ stream' = {}
  BY NoDescriptorType DEF Remount
<1> QED BY <1>1, DescriptorsMove DEF Remount

(* A descriptor in use gets a new position. *)
LEMMA OneMoves ==
  ASSUME TypeOK, NEW f \in fd_used, NEW d \in Descriptor, fd' = [fd EXCEPT ![f] = d]
  PROVE  fd_used' = fd_used /\ fd' \in [fd_used' -> Descriptor]
BY DEF TypeOK, fd_used

LEMMA SeekInv ==
  ASSUME Inv, NEW f \in Fd, NEW offset \in Offsets,
         NEW whence \in {"FS_SEEK_SET", "FS_SEEK_CUR"}, fs_seek(f, offset, whence)
  PROVE  Inv'
<1> DEFINE d == fd[f]
           target == SeekTarget(d, offset, whence)
<1>1. /\ d \in Descriptor /\ d.inodeNum \in File /\ d.locate_order \in Nat
      /\ d.locate_offset \in Nat /\ inode[d.inodeNum].fileSize \in Nat
      /\ offset \in Nat /\ BLOCK_SIZE_BYTES \in Nat \ {0} /\ Word > BLOCK_SIZE_BYTES
  BY DEF fs_seek, Inv, TypeOK, Descriptor, Inode
<1>2. target \in Nat
  <2>1. d.locate_order * BLOCK_SIZE_BYTES \in Nat
    BY <1>1
  <2> QED BY <1>1, <2>1 DEF SeekTarget, Position
<1>3. Split(d.inodeNum, target) \in Descriptor
  <2> HIDE DEF target
  <2>1. target \div BLOCK_SIZE_BYTES \in Int /\ target % BLOCK_SIZE_BYTES \in 0 .. Word - 1
    BY <1>1, <1>2
  <2>2. ~ BLOCK_SIZE_BYTES < target => Cursor(d.inodeNum, 0, target) \in Descriptor
    BY <1>1, <1>2 DEF Cursor, Descriptor
  <2> QED BY <1>1, <2>1, <2>2, CursorType DEF Split
<1>4. Cursor(d.inodeNum, 0, MaxOffset % BLOCK_SIZE_BYTES) \in Descriptor
  <2>1. MaxOffset \in Int
    BY DEF MaxOffset
  <2>2. MaxOffset % BLOCK_SIZE_BYTES \in 0 .. Word - 1
    BY <1>1, <2>1
  <2> QED BY <1>1, <2>2 DEF Cursor, Descriptor
<1>5. fd_used' = fd_used /\ fd' \in [fd_used' -> Descriptor]
  BY <1>3, <1>4, OneMoves DEF fs_seek, Inv
<1> QED BY <1>5, DescriptorsMove DEF fs_seek, Inv, TypeOK

LEMMA ReadInv == ASSUME Inv, NEW f \in Fd, NEW nbyte \in Requests, fs_read(f, nbyte) PROVE Inv'
<1> DEFINE d == fd[f]
           n == ReadCount(d, nbyte)
<1>1. /\ d \in Descriptor /\ d.inodeNum \in File /\ d.locate_order \in Nat
      /\ d.locate_offset \in Nat /\ inode[d.inodeNum].fileSize \in Nat
      /\ nbyte \in Nat /\ BLOCK_SIZE_BYTES \in Nat \ {0} /\ Word > BLOCK_SIZE_BYTES
  BY DEF fs_read, Inv, TypeOK, Descriptor, Inode
<1>2. n \in Nat
  <2>1. PrevOffset(d) \in Int
    BY <1>1 DEF PrevOffset, Position
  <2>2. n \in Int
    BY <1>1, <2>1 DEF ReadCount
  <2> QED BY <2>2 DEF fs_read
<1> HIDE DEF n
<1>3. Cursor(d.inodeNum, U16(d.locate_order + n \div BLOCK_SIZE_BYTES), n % BLOCK_SIZE_BYTES)
        \in Descriptor
  <2>1. n \div BLOCK_SIZE_BYTES \in Int /\ n % BLOCK_SIZE_BYTES \in 0 .. Word - 1
    BY <1>1, <1>2
  <2>2. d.locate_order + n \div BLOCK_SIZE_BYTES \in Int
    BY <1>1, <2>1
  <2> QED BY <1>1, <2>1, <2>2, CursorType
<1>4. [d EXCEPT !.locate_offset = U16(@ + n)] \in Descriptor
  <2>1. U16(d.locate_offset + n) \in 0 .. Word - 1
    BY <1>1, <1>2 DEF U16
  <2> QED BY <1>1, <2>1 DEF Descriptor
<1>5. fd_used' = fd_used /\ fd' \in [fd_used' -> Descriptor]
  BY <1>3, <1>4, OneMoves DEF fs_read, Inv, n
<1> QED BY <1>5, DescriptorsMove DEF fs_read, Inv, TypeOK

(* FilesApart after a write through the direct pointers.                   *)
LEMMA WriteKeepsApart ==
  ASSUME Inv, NEW d \in Descriptor, NEW fresh \in SUBSET Order,
         \A o \in fresh : inode[d.inodeNum].directPointer[o] = 0,
         NEW new \in [fresh -> DataBlock \cup {Overflow}], Allocated(fresh, new),
         used' = used \cup {new[o] : o \in {u \in fresh : new[u] # Overflow}},
         \A file \in File, o \in Slot :
           PointerAt(file, o)' = IF file = d.inodeNum /\ o \in Order
                                 THEN Pointer(d, fresh, new)[o] ELSE PointerAt(file, o),
         killed' = killed
  PROVE  FilesApart'
<1> DEFINE F == d.inodeNum
           pointer == Pointer(d, fresh, new)
<1> USE DEF Inv
<1>0. pointer = Pointer(d, fresh, new)
  OBVIOUS
<1> HIDE DEF pointer
<1>1. /\ pointer \in [Order -> DataBlock \cup {0, Overflow}]
      /\ \A o \in Order \ fresh : pointer[o] = inode[F].directPointer[o]
      /\ \A o \in fresh : pointer[o] = new[o]
      /\ \A o, u \in Order : pointer[o] \in DataBlock /\ pointer[o] = pointer[u] => o = u
      /\ \A o \in Order, file \in File, u \in Slot :
           pointer[o] \in DataBlock /\ pointer[o] = PointerAt(file, u) => file = F /\ u = o
  <2>1. /\ TypeOK /\ FilesApart /\ d \in Descriptor /\ fresh \in SUBSET Order
        /\ \A o \in fresh : inode[d.inodeNum].directPointer[o] = 0
        /\ new \in [fresh -> DataBlock \cup {Overflow}] /\ Allocated(fresh, new)
    OBVIOUS
  <2> QED BY ONLY <1>0, <2>1, NewPointers
<1>2. \A o, u \in Order : pointer[o] \in DataBlock /\ pointer[o] = pointer[u] => o = u
  BY <1>1
<1>3. \A o \in Order, file \in File, u \in Slot :
        pointer[o] \in DataBlock /\ pointer[o] = PointerAt(file, u) => file = F /\ u = o
  BY <1>1
<1>4. /\ F \in File
      /\ \A o \in Order : o \in Slot /\ PointerAt(F, o) = inode[F].directPointer[o]
  BY DEF Descriptor, Order, Slot, PointerAt
<1>5. \A file \in File, o \in Slot :
        PointerAt(file, o)' = IF file = F /\ o \in Order THEN pointer[o] ELSE PointerAt(file, o)
  BY DEF pointer
<1>6. ASSUME NEW file \in File, NEW o \in Slot, PointerAt(file, o)' \in DataBlock
      PROVE  PointerAt(file, o)' \in used'
  <2>1. CASE file = F /\ o \in fresh
    BY <1>1, <1>5, <1>6, <2>1
  <2>2. CASE ~ (file = F /\ o \in fresh)
    <3>1. PointerAt(file, o)' = PointerAt(file, o)
      BY <1>1, <1>4, <1>5, <2>2
    <3> QED BY <1>6, <3>1 DEF FilesApart
  <2> QED BY <2>1, <2>2
<1>7. ASSUME NEW file \in File, NEW g \in File, NEW o \in Slot, NEW u \in Slot,
             PointerAt(file, o)' \in DataBlock, PointerAt(file, o)' = PointerAt(g, u)'
      PROVE  file = g /\ o = u
  <2>1. CASE file = F /\ o \in Order
    BY <1>2, <1>3, <1>5, <1>7, <2>1
  <2>2. CASE g = F /\ u \in Order
    BY <1>2, <1>3, <1>5, <1>7, <2>2
  <2>3. CASE ~ (file = F /\ o \in Order) /\ ~ (g = F /\ u \in Order)
    BY <1>5, <1>7, <2>3 DEF FilesApart
  <2> QED BY <2>1, <2>2, <2>3
<1>8. ASSUME ~ killed, NEW b \in used'
      PROVE  \E file \in File, o \in Slot : PointerAt(file, o)' = b
  <2>1. CASE b \in used
    <3>1. PICK file \in File, o \in Slot : PointerAt(file, o) = b
      BY <1>8, <2>1 DEF FilesApart
    <3>2. b \in DataBlock /\ b # 0
      BY <2>1 DEF TypeOK
    <3>3. ~ (file = F /\ o \in fresh)
      BY <1>4, <3>1, <3>2
    <3>4. PointerAt(file, o)' = b
      BY <1>1, <1>4, <1>5, <3>1, <3>3
    <3> QED BY <3>4
  <2>2. CASE b \notin used
    <3>1. PICK o \in fresh : b = new[o]
      BY <2>2
    <3>2. PointerAt(F, o)' = b
      BY <1>1, <1>4, <1>5, <3>1
    <3> QED BY <1>4, <3>2
  <2> QED BY <2>1, <2>2
<1> QED BY <1>6, <1>7, <1>8 DEF FilesApart

LEMMA WriteDirectInv ==
  ASSUME Inv, NEW f \in Fd, NEW nbyte \in Requests, WriteDirect(f, nbyte)
  PROVE  Inv'
<1> DEFINE d == fd[f]
           F == d.inodeNum
           orders == Touched(d, nbyte)
           fresh == Fresh(d, orders)
<1> USE DEF Inv
<1>1. PICK new \in [fresh -> DataBlock \cup {Overflow}] :
        /\ Allocated(fresh, new)
        /\ used' = used \cup {new[o] : o \in {u \in fresh : new[u] # Overflow}}
        /\ block' = Store(d, nbyte, orders, fresh, Pointer(d, fresh, new))
        /\ inode' = [inode EXCEPT ![F] = [Grown(d, DirectCount(d, nbyte)) EXCEPT
                                            !.directPointer = Pointer(d, fresh, new)]]
        /\ wrote' = [wrote EXCEPT ![F] =
                       Expected(d, nbyte, orders, fresh, Pointer(d, fresh, new))]
  BY DEF WriteDirect
<1> DEFINE pointer == Pointer(d, fresh, new)
<1>2. /\ f \in fd_used /\ d \in Descriptor /\ d.locate_offset <= BLOCK_SIZE_BYTES
      /\ d.locate_order < fd_size /\ nbyte \in Nat /\ F \in File
      /\ inode[F] \in Inode
  BY DEF WriteDirect, Writable, TypeOK, Descriptor
<1>3. /\ orders \in SUBSET Touched(d, nbyte) /\ orders \subseteq Order /\ fresh \in SUBSET Order
      /\ \A o \in fresh : inode[F].directPointer[o] = 0
      /\ \A o \in orders \ fresh : inode[F].directPointer[o] # 0
  BY DEF Touched, Fresh
<1> HIDE DEF d, F, orders, fresh, pointer
<1>4. pointer \in [Order -> DataBlock \cup {0, Overflow}]
  BY <1>1, <1>2, <1>3, NewPointers DEF F, pointer
<1>5. /\ inode'[F].directPointer = pointer
      /\ inode'[F].indirectPointer = inode[F].indirectPointer
      /\ inode'[F].fileSize = inode[F].fileSize + DirectCount(d, nbyte)
      /\ inode'[F] \in Inode
      /\ \A file \in File \ {F} : inode'[file] = inode[file]
      /\ DOMAIN inode' = File
  <2>1. DirectCount(d, nbyte) \in Nat
    BY <1>2, CountType
  <2> DEFINE grown == Grown(d, DirectCount(d, nbyte))
             new_inode == [grown EXCEPT !.directPointer = pointer]
  <2>2. inode' = [inode EXCEPT ![F] = new_inode]
    BY <1>1 DEF pointer
  <2>3. /\ grown \in Inode /\ grown.fileSize = inode[F].fileSize + DirectCount(d, nbyte)
        /\ grown.indirectPointer = inode[F].indirectPointer
    BY <1>2, <2>1 DEF Grown, Inode, F
  <2> HIDE DEF grown
  <2>4. /\ new_inode \in Inode
        /\ new_inode.directPointer = pointer /\ new_inode.fileSize = grown.fileSize
        /\ new_inode.indirectPointer = grown.indirectPointer
    BY <1>4, <2>3 DEF Inode
  <2> HIDE DEF new_inode
  <2> QED BY <1>2, <2>2, <2>3, <2>4 DEF TypeOK
<1>6. TypeOK'
  <2>1. /\ block' \in [DataBlock -> [Offset -> Byte]]
        /\ Expected(d, nbyte, orders, fresh, pointer) \in [Pos -> Byte]
    BY <1>1, <1>2, <1>3, StoreType DEF pointer
  <2>2. used' \subseteq DataBlock
    BY <1>1 DEF TypeOK
  <2>3. inode' \in [File -> Inode]
    BY <1>1, <1>5 DEF TypeOK
  <2>4. wrote' \in [File -> [Pos -> Byte]]
    BY <1>1, <2>1 DEF TypeOK, pointer
  <2>5. fd_used' = fd_used /\ fd' \in [fd_used' -> Descriptor]
    BY <1>2, AdvancedType, OneMoves DEF WriteDirect, d
  <2>6. stream' \subseteq fd_used' /\ killed' = killed /\ writes' \in 0 .. MaxWrites
    BY <2>5 DEF WriteDirect, StreamsAfter, Writable, TypeOK
  <2> QED BY <2>1, <2>2, <2>3, <2>4, <2>5, <2>6 DEF TypeOK
<1>7. FilesApart'
  <2>1. \A file \in File, o \in Slot :
          PointerAt(file, o)' = IF file = F /\ o \in Order THEN pointer[o] ELSE PointerAt(file, o)
    BY <1>5 DEF PointerAt, Order, Slot
  <2> QED BY <1>1, <1>2, <1>3, <2>1, WriteKeepsApart DEF F, pointer, WriteDirect
<1> DEFINE expected == Expected(d, nbyte, orders, fresh, pointer)
<1>9. \A p \in Pos :
        /\ expected[p] # None =>
             /\ pointer[p \div BLOCK_SIZE_BYTES] \in DataBlock
             /\ block'[pointer[p \div BLOCK_SIZE_BYTES]][p % BLOCK_SIZE_BYTES] = expected[p]
        /\ \A file \in File \ {d.inodeNum} :
             LET b == inode[file].directPointer[p \div BLOCK_SIZE_BYTES]
             IN  b \in DataBlock => block'[b] = block[b]
  <2>1. /\ TypeOK /\ FilesApart /\ WrittenIsStored
        /\ d \in Descriptor /\ d.locate_offset <= BLOCK_SIZE_BYTES /\ nbyte \in Nat
    BY <1>2
  <2>2. /\ orders \in SUBSET Touched(d, nbyte) /\ fresh \in SUBSET Order
        /\ \A o \in fresh : inode[d.inodeNum].directPointer[o] = 0
        /\ \A o \in orders \ fresh : inode[d.inodeNum].directPointer[o] # 0
    BY <1>3 DEF F
  <2>3. /\ new \in [fresh -> DataBlock \cup {Overflow}] /\ Allocated(fresh, new)
        /\ pointer = Pointer(d, fresh, new)
        /\ block' = Store(d, nbyte, orders, fresh, pointer)
        /\ expected = Expected(d, nbyte, orders, fresh, pointer)
    BY <1>1 DEF pointer
  <2> HIDE DEF expected
  <2> QED BY ONLY <2>1, <2>2, <2>3, StoreEffect
<1>8. WrittenIsStored'
  <2>1. SUFFICES ASSUME NEW file \in File, NEW p \in Pos, wrote'[file][p] # None
                 PROVE  /\ inode'[file].directPointer[p \div BLOCK_SIZE_BYTES] \in DataBlock
                        /\ Stored(file, p)' = wrote'[file][p]
    BY DEF WrittenIsStored
  <2>2. CASE file = F
    <3>1. wrote'[F] = expected
      BY <1>1, <1>2 DEF TypeOK, pointer
    <3> HIDE DEF expected
    <3> QED BY <1>5, <1>9, <2>1, <2>2, <3>1 DEF Stored
  <2>3. CASE file # F
    <3>1. wrote'[file] = wrote[file] /\ inode'[file] = inode[file]
      BY <1>1, <1>5, <2>3 DEF TypeOK
    <3> DEFINE b == inode[file].directPointer[p \div BLOCK_SIZE_BYTES]
    <3>2. b \in DataBlock /\ block[b][p % BLOCK_SIZE_BYTES] = wrote[file][p]
      BY <2>1, <3>1 DEF WrittenIsStored, Stored
    <3>3. block'[b] = block[b]
      BY <1>9, <2>3, <3>2 DEF F
    <3> QED BY <3>1, <3>2, <3>3 DEF Stored
  <2> QED BY <2>2, <2>3
<1> QED BY <1>6, <1>7, <1>8

(* Inode and pointers stay, so a block the dead process had just taken has *)
(* no owner, and the orders it stored are those of blocks in place.        *)
LEMMA KilledDirectKeeps ==
  ASSUME Inv, NEW d \in Descriptor, d.locate_offset <= BLOCK_SIZE_BYTES,
         NEW nbyte \in Nat, KilledDirect(d, nbyte)
  PROVE  /\ used \subseteq used' /\ used' \subseteq DataBlock
         /\ block' \in [DataBlock -> [Offset -> Byte]]
         /\ wrote' \in [File -> [Pos -> Byte]]
         /\ \A file \in File, p \in Pos :
              LET b == inode[file].directPointer[p \div BLOCK_SIZE_BYTES]
              IN  wrote'[file][p] # None =>
                    b \in DataBlock /\ block'[b][p % BLOCK_SIZE_BYTES] = wrote'[file][p]
<1> DEFINE F == d.inodeNum
           old == inode[F].directPointer
<1> USE DEF Inv
<1>1. PICK cut \in Touched(d, nbyte) \cup {fd_size}, allocating \in BOOLEAN :
        LET done  == {o \in Touched(d, nbyte) : o < cut}
            fresh == Fresh(d, {o \in Touched(d, nbyte) : o < cut \/ (allocating /\ o = cut)})
        IN \E new \in [fresh -> DataBlock \cup {Overflow}] :
             LET pointer == Pointer(d, fresh, new) IN
             /\ Allocated(fresh, new)
             /\ used' = used \cup {new[o] : o \in {u \in fresh : new[u] # Overflow}}
             /\ block' = Store(d, nbyte, done \ fresh, fresh, pointer)
             /\ wrote' = [wrote EXCEPT ![F] =
                            Expected(d, nbyte, done \ fresh, fresh, pointer)]
  BY DEF KilledDirect
<1> DEFINE fresh == Fresh(d, {o \in Touched(d, nbyte) : o < cut \/ (allocating /\ o = cut)})
           orders == {o \in Touched(d, nbyte) : o < cut} \ fresh
<1>2. PICK new \in [fresh -> DataBlock \cup {Overflow}] :
        /\ Allocated(fresh, new)
        /\ used' = used \cup {new[o] : o \in {u \in fresh : new[u] # Overflow}}
        /\ block' = Store(d, nbyte, orders, fresh, Pointer(d, fresh, new))
        /\ wrote' = [wrote EXCEPT ![F] =
                       Expected(d, nbyte, orders, fresh, Pointer(d, fresh, new))]
  BY <1>1
<1>3. /\ orders \in SUBSET Touched(d, nbyte) /\ orders \subseteq Order /\ fresh \in SUBSET Order
      /\ \A o \in fresh : old[o] = 0
      /\ \A o \in orders \ fresh : old[o] # 0
      /\ \A o \in fresh : o \notin orders
      /\ F \in File
  BY DEF Touched, Fresh, Descriptor
<1> DEFINE pointer == Pointer(d, fresh, new)
           expected == Expected(d, nbyte, orders, fresh, pointer)
<1> HIDE DEF fresh, orders
<1>4. pointer = Pointer(d, fresh, new)
  OBVIOUS
<1>5. expected = Expected(d, nbyte, orders, fresh, pointer)
  OBVIOUS
<1> HIDE DEF pointer, expected
<1>6. block' \in [DataBlock -> [Offset -> Byte]] /\ expected \in [Pos -> Byte]
  BY <1>2, <1>3, <1>4, <1>5, StoreType
<1>7. wrote' = [wrote EXCEPT ![F] = expected]
  BY <1>2, <1>4, <1>5
<1>8. used \subseteq used' /\ used' \subseteq DataBlock
  BY <1>2 DEF TypeOK
<1>11. \A p \in Pos :
        /\ expected[p] # None =>
             /\ pointer[p \div BLOCK_SIZE_BYTES] \in DataBlock
             /\ block'[pointer[p \div BLOCK_SIZE_BYTES]][p % BLOCK_SIZE_BYTES] = expected[p]
        /\ \A file \in File \ {d.inodeNum} :
             LET b == inode[file].directPointer[p \div BLOCK_SIZE_BYTES]
             IN  b \in DataBlock => block'[b] = block[b]
  <2>1. /\ TypeOK /\ FilesApart /\ WrittenIsStored
        /\ d \in Descriptor /\ d.locate_offset <= BLOCK_SIZE_BYTES /\ nbyte \in Nat
    OBVIOUS
  <2>2. /\ orders \in SUBSET Touched(d, nbyte) /\ fresh \in SUBSET Order
        /\ \A o \in fresh : inode[d.inodeNum].directPointer[o] = 0
        /\ \A o \in orders \ fresh : inode[d.inodeNum].directPointer[o] # 0
    BY <1>3
  <2>3. /\ new \in [fresh -> DataBlock \cup {Overflow}] /\ Allocated(fresh, new)
        /\ pointer = Pointer(d, fresh, new)
        /\ block' = Store(d, nbyte, orders, fresh, pointer)
        /\ expected = Expected(d, nbyte, orders, fresh, pointer)
    BY <1>2, <1>4, <1>5
  <2> QED BY ONLY <2>1, <2>2, <2>3, StoreEffect
<1>9. ASSUME NEW file \in File, NEW p \in Pos, wrote'[file][p] # None
      PROVE  LET b == inode[file].directPointer[p \div BLOCK_SIZE_BYTES]
             IN  b \in DataBlock /\ block'[b][p % BLOCK_SIZE_BYTES] = wrote'[file][p]
  <2> DEFINE o == p \div BLOCK_SIZE_BYTES
  <2>1. o \in Order
    BY PositionSplit
  <2>2. CASE file = F
    <3>1. wrote'[F] = expected
      BY <1>3, <1>7 DEF TypeOK
    <3>2. /\ pointer[o] \in DataBlock
          /\ block'[pointer[o]][p % BLOCK_SIZE_BYTES] = expected[p]
      BY <1>9, <1>11, <2>2, <3>1
    <3>3. o \notin fresh
      <4>1. SUFFICES ASSUME o \in fresh PROVE FALSE
        OBVIOUS
      <4>2. expected[p] = wrote[F][p]
        BY <1>3, <1>5, <4>1 DEF Expected
      <4>3. old[o] \in DataBlock
        BY <1>3, <1>9, <2>2, <3>1, <4>2 DEF WrittenIsStored
      <4> QED BY <1>3, <4>1, <4>3
    <3>4. pointer[o] = old[o]
      BY <1>4, <2>1, <3>3 DEF Pointer
    <3> QED BY <2>2, <3>1, <3>2, <3>4
  <2>3. CASE file # F
    <3>1. wrote'[file] = wrote[file]
      BY <1>7, <2>3 DEF TypeOK
    <3> DEFINE b == inode[file].directPointer[o]
    <3>2. b \in DataBlock /\ block[b][p % BLOCK_SIZE_BYTES] = wrote[file][p]
      BY <1>9, <3>1 DEF WrittenIsStored, Stored
    <3>3. block'[b] = block[b]
      BY <1>11, <2>3, <3>2
    <3> QED BY <3>1, <3>2, <3>3
  <2> QED BY <2>2, <2>3
<1>10. wrote' \in [File -> [Pos -> Byte]]
  BY <1>6, <1>7 DEF TypeOK
<1> QED BY <1>6, <1>8, <1>9, <1>10

LEMMA KilledInv ==
  ASSUME Inv, NEW f \in Fd, NEW nbyte \in Requests, KilledInWrite(f, nbyte)
  PROVE  Inv'
<1> USE DEF Inv
<1>1. /\ fd[f] \in Descriptor /\ fd[f].locate_offset <= BLOCK_SIZE_BYTES /\ nbyte \in Nat
      /\ inode' = inode /\ killed' = TRUE /\ fd' = NoDescriptor /\ stream' = {}
      /\ writes' \in 0 .. MaxWrites
  BY DEF KilledInWrite, Writable, TypeOK
<1> DEFINE Kept ==
      /\ used \subseteq used' /\ used' \subseteq DataBlock
      /\ block' \in [DataBlock -> [Offset -> Byte]]
      /\ wrote' \in [File -> [Pos -> Byte]]
      /\ \A file \in File, p \in Pos :
           LET b == inode[file].directPointer[p \div BLOCK_SIZE_BYTES]
           IN  wrote'[file][p] # None =>
                 b \in DataBlock /\ block'[b][p % BLOCK_SIZE_BYTES] = wrote'[file][p]
<1>2. Kept
  <2>1. CASE KilledDirect(fd[f], nbyte)
    BY <1>1, <2>1, KilledDirectKeeps
  <2>2. CASE KilledIndirect(fd[f])
    <3>1. used \subseteq used' /\ used' \subseteq DataBlock /\ block' = block /\ wrote' = wrote
      BY <2>2 DEF KilledIndirect, TypeOK
    <3> QED BY <3>1 DEF TypeOK, WrittenIsStored, Stored
  <2> HIDE DEF Kept
  <2> QED BY <2>1, <2>2 DEF KilledInWrite
<1>3. TypeOK'
  BY <1>1, <1>2, NoDescriptorType DEF TypeOK
<1>4. FilesApart'
  <2>1. \A file \in File, o \in Slot : PointerAt(file, o)' = PointerAt(file, o)
    BY <1>1 DEF PointerAt
  <2>2. ASSUME NEW file \in File, NEW o \in Slot, PointerAt(file, o)' \in DataBlock
        PROVE  /\ PointerAt(file, o)' \in used'
               /\ \A g \in File, u \in Slot :
                    PointerAt(file, o)' = PointerAt(g, u)' => file = g /\ o = u
    <3>1. used \subseteq used'
      BY <1>2
    <3> HIDE DEF Kept
    <3> QED BY <2>1, <2>2, <3>1 DEF FilesApart
  <2>3. killed'
    BY DEF KilledInWrite
  <2> QED BY <2>2, <2>3 DEF FilesApart
<1>5. WrittenIsStored'
  BY <1>1, <1>2 DEF WrittenIsStored, Stored
<1> QED BY <1>3, <1>4, <1>5

(* An inode with a larger size and the pointers it had. *)
LEMMA GrownType ==
  ASSUME TypeOK, NEW d \in Descriptor, NEW count \in Nat
  PROVE  /\ Grown(d, count) \in Inode
         /\ Grown(d, count).directPointer = inode[d.inodeNum].directPointer
         /\ Grown(d, count).indirectPointer = inode[d.inodeNum].indirectPointer
<1>1. inode[d.inodeNum] \in Inode
  BY DEF TypeOK, Descriptor
<1> QED BY <1>1 DEF Grown, Inode

(* A write that moves no byte and no direct pointer, and may give its file *)
(* a block b for pointers that was free.                                   *)
LEMMA PointersStay ==
  ASSUME Inv, NEW F \in File, NEW new_inode \in Inode,
         inode' = [inode EXCEPT ![F] = new_inode],
         new_inode.directPointer = inode[F].directPointer,
         \/ /\ new_inode.indirectPointer = inode[F].indirectPointer
            /\ UNCHANGED <<used, block>>
         \/ \E b \in DataBlock \ used :
              /\ inode[F].indirectPointer = 0 /\ new_inode.indirectPointer = b
              /\ used' = used \cup {b}
              /\ block' = [block EXCEPT ![b] = [j \in Offset |-> Zero]],
         UNCHANGED <<wrote, killed>>, writes' \in 0 .. MaxWrites,
         fd_used' = fd_used, fd' \in [fd_used -> Descriptor], stream' \subseteq stream
  PROVE  Inv'
<1> USE DEF Inv
<1>1. /\ inode' \in [File -> Inode] /\ inode'[F] = new_inode
      /\ \A file \in File \ {F} : inode'[file] = inode[file]
      /\ \A file \in File : inode'[file].directPointer = inode[file].directPointer
  BY DEF TypeOK
<1>2. /\ \A file \in File, o \in Order : PointerAt(file, o)' = PointerAt(file, o)
      /\ \A file \in File : PointerAt(file, fd_size)' = inode'[file].indirectPointer
      /\ \A file \in File : PointerAt(file, fd_size) = inode[file].indirectPointer
      /\ \A o \in Slot : o \in Order \/ o = fd_size
  BY <1>1 DEF PointerAt, Order, Slot
<1>3. CASE new_inode.indirectPointer = inode[F].indirectPointer /\ UNCHANGED <<used, block>>
  <2>1. \A file \in File, o \in Slot : PointerAt(file, o)' = PointerAt(file, o)
    BY <1>1, <1>2, <1>3
  <2>2. TypeOK'
    BY <1>1, <1>3 DEF TypeOK
  <2>3. FilesApart'
    BY <1>3, <2>1 DEF FilesApart
  <2>4. WrittenIsStored'
    BY <1>1, <1>3 DEF WrittenIsStored, Stored
  <2> QED BY <2>2, <2>3, <2>4
<1>4. ASSUME NEW b \in DataBlock \ used,
             inode[F].indirectPointer = 0, new_inode.indirectPointer = b,
             used' = used \cup {b}, block' = [block EXCEPT ![b] = [j \in Offset |-> Zero]]
      PROVE  Inv'
  <2>1. \A file \in File, o \in Slot :
          PointerAt(file, o)' = IF file = F /\ o = fd_size THEN b ELSE PointerAt(file, o)
    BY <1>1, <1>2, <1>4
  <2>2. \A file \in File, o \in Slot : PointerAt(file, o) # b
    BY <1>4 DEF FilesApart
  <2>3. TypeOK'
    <3>1. [j \in Offset |-> Zero] \in [Offset -> Byte]
      BY DEF Byte
    <3> QED BY <1>1, <1>4, <3>1 DEF TypeOK
  <2>4. FilesApart'
    <3>1. ASSUME NEW file \in File, NEW o \in Slot, PointerAt(file, o)' \in DataBlock
          PROVE  /\ PointerAt(file, o)' \in used'
                 /\ \A g \in File, u \in Slot :
                      PointerAt(file, o)' = PointerAt(g, u)' => file = g /\ o = u
      <4>1. CASE file = F /\ o = fd_size
        BY <1>4, <2>1, <2>2, <4>1
      <4>2. CASE ~ (file = F /\ o = fd_size)
        BY <1>4, <2>1, <2>2, <3>1, <4>2 DEF FilesApart
      <4> QED BY <4>1, <4>2
    <3>2. ASSUME ~ killed, NEW c \in used'
          PROVE  \E file \in File, o \in Slot : PointerAt(file, o)' = c
      <4>1. CASE c = b
        BY <2>1, <4>1 DEF Slot
      <4>2. CASE c \in used
        <5>1. PICK file \in File, o \in Slot : PointerAt(file, o) = c
          BY <3>2, <4>2 DEF FilesApart
        <5>2. ~ (file = F /\ o = fd_size)
          BY <1>2, <1>4, <4>2, <5>1 DEF TypeOK
        <5> QED BY <2>1, <5>1, <5>2
      <4> QED BY <1>4, <4>1, <4>2
    <3> QED BY <3>1, <3>2 DEF FilesApart
  <2>5. WrittenIsStored'
    <3>1. ASSUME NEW file \in File, NEW p \in Pos, wrote[file][p] # None
          PROVE  /\ inode[file].directPointer[p \div BLOCK_SIZE_BYTES] \in DataBlock
                 /\ Stored(file, p)' = wrote[file][p]
      <4> DEFINE o == p \div BLOCK_SIZE_BYTES
                 c == inode[file].directPointer[o]
      <4>1. c \in DataBlock /\ block[c][p % BLOCK_SIZE_BYTES] = wrote[file][p]
        BY <3>1 DEF WrittenIsStored, Stored
      <4>2. c # b
        <5>1. o \in Order
          BY PositionSplit
        <5> HIDE DEF o
        <5>2. c = PointerAt(file, o) /\ o \in Slot
          BY <5>1 DEF PointerAt, Order, Slot
        <5> QED BY <2>2, <5>2
      <4>3. block'[c] = block[c]
        BY <1>4, <4>1, <4>2 DEF TypeOK
      <4> QED BY <1>1, <4>1, <4>3 DEF Stored
    <3> QED BY <1>1, <3>1 DEF WrittenIsStored
  <2> QED BY <2>3, <2>4, <2>5
<1> QED BY <1>3, <1>4

LEMMA WriteIndirectInv ==
  ASSUME Inv, NEW f \in Fd, NEW nbyte \in Requests, WriteIndirect(f, nbyte)
  PROVE  Inv'
<1> DEFINE d == fd[f]
           grown == Grown(d, IndirectCount(d, nbyte))
<1>1. /\ d \in Descriptor /\ d.inodeNum \in File /\ d.locate_offset <= BLOCK_SIZE_BYTES
      /\ nbyte \in Nat
  BY DEF WriteIndirect, Writable, Inv, TypeOK, Descriptor
<1>2. /\ grown \in Inode
      /\ grown.directPointer = inode[d.inodeNum].directPointer
      /\ grown.indirectPointer = inode[d.inodeNum].indirectPointer
  BY <1>1, CountType, GrownType DEF Inv
<1>3. /\ UNCHANGED <<wrote, killed>> /\ writes' \in 0 .. MaxWrites
      /\ fd_used' = fd_used /\ fd' \in [fd_used -> Descriptor] /\ stream' \subseteq stream
  BY DEF WriteIndirect, Writable, Inv, TypeOK, fd_used
<1> HIDE DEF d
<1>4. CASE inode' = [inode EXCEPT ![d.inodeNum] = grown] /\ UNCHANGED <<used, block>>
  BY <1>1, <1>2, <1>3, <1>4, PointersStay
<1>5. ASSUME inode[d.inodeNum].indirectPointer = 0,
             NEW b \in DataBlock, LowestFree(b), used' = used \cup {b},
             block' = [block EXCEPT ![b] = [j \in Offset |-> Zero]],
             inode' = [inode EXCEPT ![d.inodeNum] = [grown EXCEPT !.indirectPointer = b]]
      PROVE  Inv'
  <2> DEFINE new_inode == [grown EXCEPT !.indirectPointer = b]
  <2> HIDE DEF grown
  <2>1. /\ new_inode \in Inode /\ new_inode.directPointer = grown.directPointer
        /\ new_inode.indirectPointer = b
    BY <1>2 DEF Inode
  <2> HIDE DEF new_inode
  <2>2. b \in DataBlock \ used
    BY <1>5 DEF LowestFree
  <2> QED BY <1>1, <1>2, <1>3, <1>5, <2>1, <2>2, PointersStay DEF new_inode
<1> QED BY <1>4, <1>5 DEF WriteIndirect, d

LEMMA WriteDoubleIndirectInv ==
  ASSUME Inv, NEW f \in Fd, NEW nbyte \in Requests, WriteDoubleIndirect(f, nbyte)
  PROVE  Inv'
<1> DEFINE d == fd[f]
           grown == Grown(d, IndirectCount(d, nbyte))
<1>1. /\ d \in Descriptor /\ d.inodeNum \in File /\ d.locate_offset <= BLOCK_SIZE_BYTES
      /\ nbyte \in Nat /\ f \in fd_used
  BY DEF WriteDoubleIndirect, Writable, Inv, TypeOK, Descriptor
<1>2. /\ grown \in Inode
      /\ grown.directPointer = inode[d.inodeNum].directPointer
      /\ grown.indirectPointer = inode[d.inodeNum].indirectPointer
  BY <1>1, CountType, GrownType DEF Inv
<1>3. fd_used' = fd_used /\ fd' \in [fd_used -> Descriptor]
  BY <1>1, AdvancedType, OneMoves DEF WriteDoubleIndirect, Inv
<1>4. /\ UNCHANGED <<used, block, wrote, killed>> /\ writes' \in 0 .. MaxWrites
      /\ inode' = [inode EXCEPT ![d.inodeNum] = grown] /\ stream' \subseteq stream
  BY DEF WriteDoubleIndirect, Writable, Inv, TypeOK
<1> QED BY <1>1, <1>2, <1>3, <1>4, PointersStay

LEMMA NextInv == Inv /\ [Next]_vars => Inv'
<1> SUFFICES ASSUME Inv, [Next]_vars PROVE Inv'
  OBVIOUS
<1>1. ASSUME NEW file \in File, fs_open(file) PROVE Inv'
  BY <1>1, OpenInv
<1>2. ASSUME NEW f \in Fd, fs_close(f) PROVE Inv'
  BY <1>2, CloseInv
<1>3. CASE Remount
  BY <1>3, RemountInv
<1>4. ASSUME NEW f \in Fd, NEW offset \in Offsets,
             NEW whence \in {"FS_SEEK_SET", "FS_SEEK_CUR"}, fs_seek(f, offset, whence)
      PROVE  Inv'
  BY <1>4, SeekInv
<1>5. ASSUME NEW f \in Fd, NEW nbyte \in Requests,
             \/ fs_read(f, nbyte)
             \/ WriteDirect(f, nbyte) \/ KilledInWrite(f, nbyte)
             \/ WriteIndirect(f, nbyte) \/ WriteDoubleIndirect(f, nbyte)
      PROVE  Inv'
  BY <1>5, ReadInv, WriteDirectInv, KilledInv, WriteIndirectInv, WriteDoubleIndirectInv
<1>6. CASE UNCHANGED vars
  <2>1. TypeOK'
    BY <1>6 DEF Inv, TypeOK, vars, fd_used
  <2>2. fd_used' \subseteq Fd /\ fd' \in [fd_used' -> Descriptor] /\ stream' \subseteq fd_used'
    BY <2>1 DEF TypeOK
  <2> QED BY <1>6, <2>2, DescriptorsMove DEF vars
<1> QED BY <1>1, <1>2, <1>3, <1>4, <1>5, <1>6 DEF Next

LEMMA SpecInv == Spec => []Inv
<1>1. Init => Inv
  BY InitInv
<1>2. Inv /\ [Next]_vars => Inv'
  BY NextInv
<1> QED BY <1>1, <1>2, PTL DEF Spec

-----------------------------------------------------------------------------
(* The state of files and descriptors stays well typed: no order or offset *)
(* leaves its 16 bits, and every pointer names a block or none.            *)
THEOREM TypeCorrect == Spec => []TypeOK
<1>1. Inv => TypeOK
  BY DEF Inv
<1> QED BY <1>1, SpecInv, PTL

(* write_direct_ptr and write_indirect_ptr give no block to two pointers,  *)
(* every pointer's block is marked, and without a death inside of a write  *)
(* no marked block is lost.                                                *)
THEOREM BlocksApart == Spec => []FilesApart
<1>1. Inv => FilesApart
  BY DEF Inv
<1> QED BY <1>1, SpecInv, PTL

(* fs_write: a position reads back the byte last written to it, for any    *)
(* sizes and positions, any number of descriptors on the file, and through *)
(* the death of the process at any point of a write, except where a byte   *)
(* is known to be lost.                                                    *)
THEOREM WritesAreStored == Spec => []WrittenIsStored
<1>1. Inv => WrittenIsStored
  BY DEF Inv
<1> QED BY <1>1, SpecInv, PTL

-----------------------------------------------------------------------------
(* fs_read answers the bytes of one block, which are the ones written.     *)
LEMMA PositionIsByte ==
  ASSUME NEW o, o \in Nat, NEW j, j \in Offset, o * BLOCK_SIZE_BYTES + j \in Pos
  PROVE  /\ o \in Order
         /\ (o * BLOCK_SIZE_BYTES + j) \div BLOCK_SIZE_BYTES = o
         /\ (o * BLOCK_SIZE_BYTES + j) % BLOCK_SIZE_BYTES = j
<1> DEFINE B == BLOCK_SIZE_BYTES
           p == o * B + j
           q == p \div B
           r == p % B
<1>1. q \in Order /\ r \in Offset /\ p = q * B + r
  BY PositionSplit
<1>2. B \in Nat \ {0} /\ o * B \in Nat /\ p = o * B + j
  OBVIOUS
<1> HIDE DEF p, q, r
<1>3. q \in Nat /\ r \in Nat /\ r < B /\ j \in Nat /\ j < B
  BY <1>1 DEF Order, Offset
<1>4. q = o
  <2>1. ASSUME q > o PROVE FALSE
    <3>1. q * B >= o * B + B
      <4>1. q * B = o * B + (q - o) * B /\ (q - o) * B >= B
        BY <1>2, <1>3, <2>1
      <4> QED BY <1>2, <1>3, <4>1
    <3>2. q * B \in Nat
      BY <1>2, <1>3
    <3> QED BY <1>1, <1>2, <1>3, <3>1, <3>2
  <2>2. ASSUME o > q PROVE FALSE
    <3>1. o * B >= q * B + B
      <4>1. o * B = q * B + (o - q) * B /\ (o - q) * B >= B
        BY <1>2, <1>3, <2>2
      <4>2. q * B \in Nat
        BY <1>2, <1>3
      <4> QED BY <1>2, <1>3, <4>1, <4>2
    <3>2. q * B \in Nat
      BY <1>2, <1>3
    <3> QED BY <1>1, <1>2, <1>3, <3>1, <3>2
  <2> QED BY <1>3, <2>1, <2>2
<1>5. r = j
  BY <1>1, <1>2, <1>3, <1>4
<1> QED BY <1>1, <1>4, <1>5 DEF p, q, r

(* fs_read: inside of a block it answers the bytes that were written last. *)
THEOREM ReadsAreWrites == Spec => []ReadsWhatWasWritten
<1>1. Inv => ReadsWhatWasWritten
  <2>1. SUFFICES ASSUME Inv, NEW f \in fd_used, NEW nbyte \in Requests
        PROVE  LET d == fd[f]
                   file == d.inodeNum
                   n == ReadCount(d, nbyte)
               IN
               /\ (d.locate_order = 0 \/ d.locate_offset = 0) /\ Position(d) <= inode[file].fileSize
                    => n = Least(nbyte, inode[file].fileSize - Position(d))
               /\ \A j \in 0 .. n - 1 :
                    (d.locate_offset + j < BLOCK_SIZE_BYTES /\ Position(d) + j \in Pos)
                      => wrote[file][Position(d) + j] \in {None, ReadByte(d, j)}
    BY DEF ReadsWhatWasWritten
  <2> DEFINE d == fd[f]
             file == d.inodeNum
             n == ReadCount(d, nbyte)
  <2>2. /\ d \in Descriptor /\ file \in File /\ inode[file].fileSize \in Nat
        /\ d.locate_order \in Nat /\ d.locate_offset \in Nat /\ nbyte \in Nat
        /\ TypeOK /\ WrittenIsStored
    BY <2>1 DEF Inv, TypeOK, Descriptor, Inode
  <2>3. ASSUME d.locate_order = 0 \/ d.locate_offset = 0
        PROVE  n = Least(nbyte, inode[file].fileSize - Position(d))
    <3>1. PrevOffset(d) = Position(d)
      BY <2>3 DEF PrevOffset
    <3>2. Position(d) \in Nat
      BY <2>2 DEF Position
    <3> HIDE DEF d, file
    <3> QED BY <2>2, <3>1, <3>2 DEF ReadCount, Least, n, file
  <2> HIDE DEF n, d, file
  <2>4. ASSUME NEW j \in 0 .. n - 1,
               d.locate_offset + j < BLOCK_SIZE_BYTES, Position(d) + j \in Pos
        PROVE  wrote[file][Position(d) + j] \in {None, ReadByte(d, j)}
    <3> DEFINE o == d.locate_order
               at == d.locate_offset + j
               p == Position(d) + j
    <3>1. j \in Nat /\ at \in Offset /\ o \in Nat
      BY <2>2, <2>4 DEF Offset
    <3>2. p = o * BLOCK_SIZE_BYTES + at /\ p \in Pos
      <4>1. o * BLOCK_SIZE_BYTES \in Nat
        BY <2>2
      <4> QED BY <2>2, <2>4, <3>1, <4>1 DEF Position
    <3> HIDE DEF o, at, p
    <3>3. o \in Order /\ p \div BLOCK_SIZE_BYTES = o /\ p % BLOCK_SIZE_BYTES = at
      BY <3>1, <3>2, PositionIsByte
    <3>4. SUFFICES ASSUME wrote[file][p] # None PROVE wrote[file][p] = ReadByte(d, j)
      BY DEF p
    <3> DEFINE b == inode[file].directPointer[o]
    <3>5. b \in DataBlock /\ block[b][at] = wrote[file][p]
      BY <2>2, <3>2, <3>3, <3>4 DEF WrittenIsStored, Stored
    <3>6. BlockOf(d) = b
      BY <3>3 DEF BlockOf, PointerAt, Order, o, file
    <3>7. ReadByte(d, j) = block[b][at]
      BY <2>4, <3>5, <3>6 DEF ReadByte, at
    <3> QED BY <3>5, <3>7
  <2> QED BY <2>3, <2>4 DEF n, d, file
<1> QED BY <1>1, SpecInv, PTL

-----------------------------------------------------------------------------
(* The descriptors that only append.  When one stands inside of a block,   *)
(* that block is in place, so no write of it begins a new block anywhere   *)
(* but at the start; and a pointer is lost only on a full device.          *)
Full == DataBlock \subseteq used

AtEnd(d) ==
  /\ Position(d) = inode[d.inodeNum].fileSize
  /\ Position(d) <= fd_size * BLOCK_SIZE_BYTES
  /\ d.locate_offset # 0 =>
       d.locate_order \in Order /\ inode[d.inodeNum].directPointer[d.locate_order] # 0
  /\ ~ Full =>
       \A p \in Pos : p < inode[d.inodeNum].fileSize => wrote[d.inodeNum][p] # None

LostMeansFull ==
  \A file \in File, o \in Order : inode[file].directPointer[o] = Overflow => Full

StreamInv == LostMeansFull /\ \A f \in stream : AtEnd(fd[f])

(* What a step leaves as it was.                                           *)
LEMMA OthersAtEnd ==
  ASSUME NEW f \in stream, AtEnd(fd[f]),
         fd'[f] = fd[f], inode'[fd[f].inodeNum] = inode[fd[f].inodeNum],
         wrote'[fd[f].inodeNum] = wrote[fd[f].inodeNum], used \subseteq used'
  PROVE  AtEnd(fd[f])'
BY DEF AtEnd, Position, Full

LEMMA QuietStreams ==
  ASSUME StreamInv, UNCHANGED <<inode, wrote>>, used \subseteq used',
         \A f \in stream' : f \in stream /\ fd'[f] = fd[f]
  PROVE  StreamInv'
<1>1. \A f \in stream' : AtEnd(fd[f])'
  BY OthersAtEnd DEF StreamInv
<1>2. LostMeansFull'
  BY DEF StreamInv, LostMeansFull, Full
<1> QED BY <1>1, <1>2 DEF StreamInv

LEMMA OpenStreams ==
  ASSUME Inv, StreamInv, NEW file \in File, fs_open(file)
  PROVE  StreamInv'
<1>1. PICK f \in Fd \ fd_used :
        /\ fd' = [g \in fd_used \cup {f} |-> IF g = f THEN Cursor(file, 0, 0) ELSE fd[g]]
        /\ stream' = IF inode[file].fileSize = 0 THEN stream \cup {f} ELSE stream
  BY DEF fs_open
<1>2. UNCHANGED <<used, inode, wrote>> /\ stream \subseteq fd_used
  BY DEF fs_open, Inv, TypeOK
<1>3. \A g \in stream : AtEnd(fd[g])'
  <2>1. \A g \in stream : fd'[g] = fd[g]
    BY <1>1, <1>2
  <2> QED BY <1>2, <2>1, OthersAtEnd DEF StreamInv
<1>4. ASSUME inode[file].fileSize = 0 PROVE AtEnd(fd[f])'
  <2>1. fd'[f] = Cursor(file, 0, 0)
    BY <1>1
  <2>2. /\ fd'[f].inodeNum = file /\ fd'[f].locate_order = 0 /\ fd'[f].locate_offset = 0
    BY <2>1 DEF Cursor
  <2>3. Position(fd[f])' = 0 /\ 0 <= fd_size * BLOCK_SIZE_BYTES
    BY <2>2 DEF Position
  <2>4. \A p \in Pos : ~ p < 0
    BY DEF Pos
  <2> QED BY <1>2, <1>4, <2>2, <2>3, <2>4 DEF AtEnd
<1>5. LostMeansFull'
  BY <1>2 DEF StreamInv, LostMeansFull, Full
<1> QED BY <1>1, <1>3, <1>4, <1>5 DEF StreamInv

(* Where a write that neither turns nor is cut short goes on.              *)
LEMMA AdvancedPosition ==
  ASSUME NEW d \in Descriptor, d.locate_offset <= BLOCK_SIZE_BYTES, NEW nbyte \in Nat,
         d.locate_order < fd_size,
         DirectCount(d, nbyte) = nbyte, d.locate_offset + nbyte # Turn
  PROVE  /\ Advanced(d, nbyte).inodeNum = d.inodeNum
         /\ Position(Advanced(d, nbyte)) = Position(d) + nbyte
         /\ Position(Advanced(d, nbyte)) <= fd_size * BLOCK_SIZE_BYTES
         /\ Advanced(d, nbyte).locate_offset # 0 =>
              Advanced(d, nbyte).locate_order \in Touched(d, nbyte)
<1> DEFINE B == BLOCK_SIZE_BYTES
           lo == d.locate_order
           off == d.locate_offset
           rest == nbyte - (B - off)
           q == rest \div B
           r == rest % B
           left == fd_size - lo
<1>1. /\ B \in Nat \ {0} /\ fd_size \in Nat /\ Word \in Nat /\ fd_size < Word
      /\ lo \in Nat /\ off \in Nat /\ off <= B /\ left \in Nat /\ lo \in Order
      /\ left = fd_size - lo /\ left > 0
  BY DEF Descriptor, Order
<1>2. nbyte <= left * B - off
  <2>1. left * B - off \in Int
    BY <1>1
  <2> QED BY <2>1 DEF DirectCount, Least
<1>3. Position(d) = lo * B + off /\ lo * B \in Nat /\ left * B \in Nat
      /\ lo * B + left * B = fd_size * B
  <2>1. lo + left = fd_size
    BY <1>1
  <2>2. (lo + left) * B = lo * B + left * B
    BY <1>1
  <2> QED BY <1>1, <2>1, <2>2 DEF Position
<1>4. CASE B - off < nbyte
  <2>1. rest \in Nat /\ rest > 0 /\ rest = nbyte - (B - off)
    BY <1>1, <1>4
  <2> HIDE DEF rest
  <2>2. q \in Nat /\ r \in Nat /\ r < B /\ rest = q * B + r
    <3>1. rest \in Nat
      BY <2>1
    <3>2. B \in Nat /\ B > 0
      BY <1>1
    <3> QED BY ONLY <3>1, <3>2
  <2> HIDE DEF q, r, left, lo, off
  <2>3. q * B \in Nat /\ (1 + q) * B = B + q * B
    BY <1>1, <2>2
  <2>4. (1 + q) * B + r <= left * B
    BY <1>1, <1>2, <1>3, <2>1, <2>2, <2>3
  <2>5. 1 + q <= left /\ (r # 0 => 1 + q < left)
    <3>1. ASSUME 1 + q > left PROVE FALSE
      <4>1. (1 + q) * B = left * B + (1 + q - left) * B /\ (1 + q - left) * B >= B
        BY <1>1, <2>2, <3>1
      <4> QED BY <1>1, <1>3, <2>2, <2>4, <4>1
    <3>2. ASSUME r # 0, 1 + q = left PROVE FALSE
      BY <1>1, <1>3, <2>2, <2>4, <3>2
    <3> QED BY <1>1, <2>2, <3>1, <3>2
  <2>6. lo + 1 + q \in 0 .. Word - 1
    BY <1>1, <2>2, <2>5
  <2>7. U16(lo + 1 + q) = lo + 1 + q
    BY <1>1, <2>6 DEF U16
  <2>8. Advanced(d, nbyte) = Cursor(d.inodeNum, lo + 1 + q, r)
    BY <1>4, <2>7 DEF Advanced, q, r, rest, lo, off
  <2>9. (lo + 1 + q) * B = lo * B + B + q * B
    BY <1>1, <2>2
  <2>10. Position(Advanced(d, nbyte)) = lo * B + B + q * B + r
    BY <2>8, <2>9 DEF Position, Cursor
  <2>11. Position(Advanced(d, nbyte)) = Position(d) + nbyte
    BY <1>1, <1>3, <2>1, <2>2, <2>3, <2>10
  <2>12. Position(Advanced(d, nbyte)) <= fd_size * B
    BY <1>1, <1>2, <1>3, <2>11
  <2>13. ASSUME r # 0 PROVE lo + 1 + q \in Touched(d, nbyte)
    <3>1. lo + 1 + q \in Order /\ lo + 1 + q > lo
      BY <1>1, <2>2, <2>5, <2>13 DEF Order
    <3>2. Consumed(d, lo + 1 + q) = (1 + q) * B - off
      <4>1. (lo + 1 + q) - lo = 1 + q /\ lo + 1 + q # lo
        BY <1>1, <2>2
      <4> QED BY <4>1 DEF Consumed, lo, off
    <3>3. Consumed(d, lo + 1 + q) < nbyte
      BY <1>1, <2>1, <2>2, <2>3, <2>13, <3>2
    <3> QED BY <3>1, <3>3 DEF Touched, lo
  <2>14. /\ Advanced(d, nbyte).inodeNum = d.inodeNum
         /\ Advanced(d, nbyte).locate_order = lo + 1 + q
         /\ Advanced(d, nbyte).locate_offset = r
    BY <2>8 DEF Cursor
  <2> QED BY <2>11, <2>12, <2>13, <2>14
<1>5. CASE ~ B - off < nbyte
  <2>1. Advanced(d, nbyte) = Cursor(d.inodeNum, lo, off + nbyte)
    BY <1>5 DEF Advanced
  <2>2. Position(Advanced(d, nbyte)) = lo * B + (off + nbyte)
    BY <2>1 DEF Position, Cursor
  <2>3. Position(Advanced(d, nbyte)) = Position(d) + nbyte
    BY <1>1, <1>3, <2>2
  <2>4. Position(Advanced(d, nbyte)) <= fd_size * B
    BY <1>1, <1>2, <1>3, <2>3
  <2>5. lo \in Touched(d, nbyte)
    BY <1>1 DEF Touched
  <2>6. Advanced(d, nbyte).inodeNum = d.inodeNum /\ Advanced(d, nbyte).locate_order = lo
    BY <2>1 DEF Cursor
  <2> QED BY <2>3, <2>4, <2>5, <2>6
<1> QED BY <1>4, <1>5

(* A write gives every position it covers a byte, from d on.               *)
LEMMA CoveredIsTouched ==
  ASSUME NEW d \in Descriptor, d.locate_offset <= BLOCK_SIZE_BYTES, NEW nbyte \in Nat,
         NEW p \in Pos, p >= Position(d), p < Position(d) + nbyte
  PROVE  /\ p \div BLOCK_SIZE_BYTES \in Touched(d, nbyte)
         /\ p - Position(d) \in 0 .. nbyte - 1
<1> DEFINE B == BLOCK_SIZE_BYTES
           o == p \div B
           j == p % B
           lo == d.locate_order
           off == d.locate_offset
<1>1. o \in Order /\ j \in Offset /\ p = o * B + j
  BY PositionSplit
<1> HIDE DEF o, j
<1>2. /\ B \in Nat \ {0} /\ lo \in Nat /\ off \in Nat /\ off <= B
      /\ o \in Nat /\ j \in Nat /\ j < B /\ p \in Nat
  BY <1>1 DEF Descriptor, Order, Offset, Pos
<1>3. Position(d) = lo * B + off /\ lo * B \in Nat /\ o * B \in Nat
  BY <1>2 DEF Position
<1>4. p - Position(d) \in 0 .. nbyte - 1
  BY <1>2, <1>3
<1>5. o >= lo
  <2>1. ASSUME o < lo PROVE FALSE
    <3>1. lo * B = o * B + (lo - o) * B /\ (lo - o) * B >= B
      BY <1>2, <2>1
    <3> QED BY <1>1, <1>2, <1>3, <3>1
  <2> QED BY <1>2, <2>1
<1>6. ASSUME o > lo PROVE Consumed(d, o) < nbyte
  <2>1. Consumed(d, o) = (o - lo) * B - off
    <3>1. o # lo
      BY <1>2, <1>6
    <3> QED BY <3>1 DEF Consumed
  <2>2. (o - lo) * B = o * B - lo * B
    BY <1>2
  <2> QED BY <1>1, <1>2, <1>3, <2>1, <2>2
<1>7. o \in Touched(d, nbyte)
  BY <1>1, <1>2, <1>5, <1>6 DEF Touched
<1> QED BY <1>4, <1>7 DEF o

(* Overflow is handed out only when no block is left.                      *)
LEMMA OverflowFills ==
  ASSUME NEW fresh, NEW new \in [fresh -> DataBlock \cup {Overflow}], Allocated(fresh, new),
         used' = used \cup {new[o] : o \in {u \in fresh : new[u] # Overflow}},
         NEW o \in fresh, new[o] = Overflow
  PROVE  Full'
<1>1. ASSUME NEW b \in DataBlock PROVE b \in used'
  <2>1. CASE b \in used
    BY <2>1
  <2>2. CASE b \notin used
    <3>1. PICK u \in fresh : new[u] = b
      BY <2>2 DEF Allocated
    <3>2. new[u] # Overflow
      BY <3>1
    <3> QED BY <3>1, <3>2
  <2> QED BY <2>1, <2>2
<1> QED BY <1>1 DEF Full

LEMMA WriteDirectStreams ==
  ASSUME Inv, StreamInv, NEW f \in Fd, NEW nbyte \in Requests, WriteDirect(f, nbyte)
  PROVE  StreamInv'
<1> DEFINE d == fd[f]
           F == d.inodeNum
           orders == Touched(d, nbyte)
           fresh == Fresh(d, orders)
<1>1. PICK new \in [fresh -> DataBlock \cup {Overflow}] :
        /\ Allocated(fresh, new)
        /\ used' = used \cup {new[o] : o \in {u \in fresh : new[u] # Overflow}}
        /\ inode' = [inode EXCEPT ![F] = [Grown(d, DirectCount(d, nbyte)) EXCEPT
                                            !.directPointer = Pointer(d, fresh, new)]]
        /\ wrote' = [wrote EXCEPT ![F] =
                       Expected(d, nbyte, orders, fresh, Pointer(d, fresh, new))]
  BY DEF WriteDirect
<1> DEFINE pointer == Pointer(d, fresh, new)
           expected == Expected(d, nbyte, orders, fresh, pointer)
<1>2. /\ f \in fd_used /\ d \in Descriptor /\ d.locate_offset <= BLOCK_SIZE_BYTES
      /\ d.locate_order < fd_size /\ nbyte \in Nat /\ F \in File
      /\ inode[F] \in Inode /\ fd' = [fd EXCEPT ![f] = Advanced(d, nbyte)]
      /\ stream \subseteq fd_used /\ stream' = StreamsAfter(f, d, nbyte)
  BY DEF WriteDirect, Writable, Inv, TypeOK, Descriptor
<1>3. /\ orders \subseteq Order /\ fresh \subseteq orders
      /\ \A o \in fresh : inode[F].directPointer[o] = 0
      /\ \A o \in orders \ fresh : inode[F].directPointer[o] # 0
  BY DEF Touched, Fresh
<1>4. /\ \A o \in fresh : pointer[o] = new[o]
      /\ \A o \in Order \ fresh : pointer[o] = inode[F].directPointer[o]
  BY <1>3 DEF Pointer
<1>5. /\ inode'[F].directPointer = pointer
      /\ inode'[F].fileSize = inode[F].fileSize + DirectCount(d, nbyte)
      /\ \A file \in File \ {F} : inode'[file] = inode[file]
      /\ wrote'[F] = expected
      /\ \A file \in File \ {F} : wrote'[file] = wrote[file]
  BY <1>1, <1>2 DEF Inv, TypeOK, Grown, Inode, Pointer
<1>6. expected = Expected(d, nbyte, orders, fresh, pointer)
  OBVIOUS
<1>7. \A o \in fresh : new[o] = Overflow => Full'
  BY <1>1, OverflowFills
<1>8. used \subseteq used' /\ (Full => Full')
  BY <1>1 DEF Full
<1> HIDE DEF orders, fresh, pointer, expected
<1>9. \A o \in Order : pointer[o] = Overflow => Full'
  <2>1. ASSUME NEW o \in Order, pointer[o] = Overflow PROVE Full'
    <3>1. CASE o \in fresh
      BY <1>4, <1>7, <2>1, <3>1
    <3>2. CASE o \notin fresh
      BY <1>2, <1>4, <1>8, <2>1, <3>2 DEF StreamInv, LostMeansFull
    <3> QED BY <3>1, <3>2
  <2> QED BY <2>1
<1>10. LostMeansFull'
  <2>1. ASSUME NEW file \in File, NEW o \in Order, inode'[file].directPointer[o] = Overflow
        PROVE  Full'
    <3>1. CASE file = F
      BY <1>5, <1>9, <2>1, <3>1
    <3>2. CASE file # F
      BY <1>5, <1>8, <2>1, <3>2 DEF StreamInv, LostMeansFull
    <3> QED BY <3>1, <3>2
  <2> QED BY <2>1 DEF LostMeansFull
<1>11. ASSUME NEW g \in stream', g # f PROVE AtEnd(fd[g])'
  <2>1. g \in stream /\ fd[g].inodeNum # F /\ fd[g].inodeNum \in File
    BY <1>2, <1>11 DEF StreamsAfter, Inv, TypeOK, Descriptor
  <2>2. fd'[g] = fd[g]
    BY <1>2, <1>11, <2>1
  <2>3. inode'[fd[g].inodeNum] = inode[fd[g].inodeNum] /\ wrote'[fd[g].inodeNum] = wrote[fd[g].inodeNum]
    BY <1>5, <2>1
  <2>4. AtEnd(fd[g])
    BY <2>1 DEF StreamInv
  <2> QED BY <1>8, <2>1, <2>2, <2>3, <2>4, OthersAtEnd
<1>12. ASSUME f \in stream' PROVE AtEnd(fd[f])'
  <2> DEFINE e == Advanced(d, nbyte)
  <2>1. /\ AtEnd(d) /\ DirectCount(d, nbyte) = nbyte /\ d.locate_offset + nbyte # Turn
        /\ fd'[f] = e
    BY <1>2, <1>12 DEF StreamsAfter, StreamInv, Inv, TypeOK
  <2>2. /\ e.inodeNum = F
        /\ Position(e) = Position(d) + nbyte
        /\ Position(e) <= fd_size * BLOCK_SIZE_BYTES
        /\ e.locate_offset # 0 => e.locate_order \in orders
    BY <1>2, <2>1, AdvancedPosition DEF orders
  <2> HIDE DEF e
  <2>3. Position(d) = inode[F].fileSize
    BY <2>1 DEF AtEnd
  <2>4. Position(e) = inode'[F].fileSize
    BY <1>5, <2>1, <2>2, <2>3
  <2>5. \A o \in orders : pointer[o] # 0
    <3>1. ASSUME NEW o \in orders PROVE pointer[o] # 0
      <4>1. CASE o \in fresh
        <5>1. new[o] \in DataBlock \cup {Overflow}
          BY <4>1
        <5> QED BY <1>4, <4>1, <5>1
      <4>2. CASE o \notin fresh
        BY <1>3, <1>4, <4>2
      <4> QED BY <4>1, <4>2
    <3> QED BY <3>1
  <2>6. ASSUME ~ Full', NEW p \in Pos, p < inode'[F].fileSize
        PROVE  wrote'[F][p] # None
    <3>0. Position(d) \in Nat /\ p \in Nat
      BY <1>2, <2>3 DEF Inode, Pos
    <3>1. CASE p < Position(d)
      <4>1. p - Position(d) \notin 0 .. nbyte - 1
        BY <3>0, <3>1
      <4>2. expected[p] = wrote[F][p]
        BY <1>6, <4>1 DEF Expected
      <4>3. wrote[F][p] # None
        BY <1>8, <2>1, <2>3, <2>6, <3>1 DEF AtEnd
      <4> QED BY <1>5, <4>2, <4>3
    <3>2. CASE p >= Position(d)
      <4> DEFINE o == p \div BLOCK_SIZE_BYTES
                 k == p - Position(d)
      <4>1. p < Position(d) + nbyte
        BY <2>2, <2>4, <2>6
      <4>2. o \in orders /\ k \in 0 .. nbyte - 1
        BY <1>2, <3>2, <4>1, CoveredIsTouched DEF orders
      <4>3. expected[p] = IF Lost(d, o, fresh, pointer) THEN None ELSE <<F, k>>
        BY <1>6, <4>2 DEF Expected
      <4> HIDE DEF o, k
      <4>4. pointer[o] # Overflow
        BY <1>3, <1>9, <2>6, <4>2
      <4>5. ASSUME o \in fresh PROVE From(d, o) = 0
        <5>1. inode[F].directPointer[o] = 0
          BY <1>3, <4>5
        <5> QED BY <2>1, <5>1 DEF AtEnd, From
      <4>6. ~ Lost(d, o, fresh, pointer)
        BY <4>4, <4>5 DEF Lost
      <4>7. <<F, k>> # None
        <5>1. k # -3
          BY <4>2
        <5> QED BY <5>1 DEF None
      <4> QED BY <1>5, <4>3, <4>6, <4>7
    <3> QED BY <3>0, <3>1, <3>2
  <2>7. ASSUME e.locate_offset # 0
        PROVE  e.locate_order \in Order /\ inode'[F].directPointer[e.locate_order] # 0
    BY <1>3, <1>5, <2>2, <2>5, <2>7
  <2>8. Position(fd[f])' = Position(e)
    BY <2>1 DEF Position
  <2>9. fd'[f].inodeNum = F
    BY <2>1, <2>2
  <2> QED BY <2>1, <2>2, <2>4, <2>6, <2>7, <2>8, <2>9 DEF AtEnd
<1> QED BY <1>10, <1>11, <1>12 DEF StreamInv

(* The other writes end the streams of their file and leave its direct     *)
(* pointers.                                                               *)
LEMMA OtherWriteStreams ==
  ASSUME Inv, StreamInv, NEW f \in Fd, NEW nbyte \in Requests,
         WriteIndirect(f, nbyte) \/ WriteDoubleIndirect(f, nbyte)
  PROVE  StreamInv'
<1> DEFINE d == fd[f]
           F == d.inodeNum
           grown == Grown(d, IndirectCount(d, nbyte))
<1>1. /\ f \in fd_used /\ d \in Descriptor /\ F \in File
      /\ d.locate_offset <= BLOCK_SIZE_BYTES /\ nbyte \in Nat /\ TypeOK
  BY DEF WriteIndirect, WriteDoubleIndirect, Writable, Inv, TypeOK, Descriptor
<1>2. grown \in Inode /\ grown.directPointer = inode[F].directPointer
  BY <1>1, CountType, GrownType
<1>3. /\ used \subseteq used' /\ wrote' = wrote
      /\ \A g \in stream' : g \in stream /\ g # f /\ fd[g].inodeNum # F /\ fd'[g] = fd[g]
  <2>1. \A g \in stream' : g \in stream /\ fd[g].inodeNum # F
    BY DEF WriteIndirect, WriteDoubleIndirect
  <2>2. fd' = fd \/ fd' = [fd EXCEPT ![f] = Advanced(d, nbyte)]
    BY DEF WriteIndirect, WriteDoubleIndirect
  <2>3. used \subseteq used' /\ wrote' = wrote
    BY DEF WriteIndirect, WriteDoubleIndirect
  <2> HIDE DEF d
  <2>4. \A g \in stream' : g # f
    BY <2>1 DEF d
  <2> QED BY <1>1, <2>1, <2>2, <2>3, <2>4 DEF TypeOK
<1>4. /\ \A file \in File \ {F} : inode'[file] = inode[file]
      /\ inode'[F].directPointer = inode[F].directPointer
  <2> HIDE DEF grown
  <2>1. CASE inode' = [inode EXCEPT ![F] = grown]
    BY <1>1, <1>2, <2>1 DEF TypeOK
  <2>2. CASE \E b \in DataBlock : inode' = [inode EXCEPT ![F] = [grown EXCEPT !.indirectPointer = b]]
    BY <1>1, <1>2, <2>2 DEF TypeOK, Inode
  <2> QED BY <2>1, <2>2 DEF WriteIndirect, WriteDoubleIndirect, grown
<1>5. ASSUME NEW g \in stream' PROVE AtEnd(fd[g])'
  <2>1. g \in stream /\ fd[g].inodeNum \in File \ {F} /\ fd'[g] = fd[g] /\ AtEnd(fd[g])
    BY <1>1, <1>3 DEF StreamInv, TypeOK, Descriptor
  <2>2. inode'[fd[g].inodeNum] = inode[fd[g].inodeNum] /\ wrote'[fd[g].inodeNum] = wrote[fd[g].inodeNum]
    BY <1>3, <1>4, <2>1
  <2> QED BY <1>3, <2>1, <2>2, OthersAtEnd
<1>6. LostMeansFull'
  BY <1>1, <1>3, <1>4 DEF StreamInv, LostMeansFull, Full
<1> QED BY <1>5, <1>6 DEF StreamInv

LEMMA NextStreams == Inv /\ StreamInv /\ [Next]_vars => StreamInv'
<1> SUFFICES ASSUME Inv, StreamInv, [Next]_vars PROVE StreamInv'
  OBVIOUS
<1>0. stream \subseteq fd_used
  BY DEF Inv, TypeOK
<1>1. ASSUME NEW file \in File, fs_open(file) PROVE StreamInv'
  BY <1>1, OpenStreams
<1>2. ASSUME NEW f \in Fd, fs_close(f) PROVE StreamInv'
  <2>1. \A g \in stream' : g \in stream /\ fd'[g] = fd[g]
    BY <1>0, <1>2 DEF fs_close
  <2> QED BY <1>2, <2>1, QuietStreams DEF fs_close
<1>3. CASE Remount
  BY <1>3, QuietStreams DEF Remount
<1>4. ASSUME NEW f \in Fd, NEW offset \in Offsets,
             NEW whence \in {"FS_SEEK_SET", "FS_SEEK_CUR"}, fs_seek(f, offset, whence)
      PROVE  StreamInv'
  <2>1. \A g \in stream' : g \in stream /\ g # f
    BY <1>4 DEF fs_seek
  <2>2. \A g \in stream' : fd'[g] = fd[g]
    BY <1>0, <1>4, <2>1 DEF fs_seek
  <2> QED BY <1>4, <2>1, <2>2, QuietStreams DEF fs_seek
<1>5. ASSUME NEW f \in Fd, NEW nbyte \in Requests, fs_read(f, nbyte) PROVE StreamInv'
  <2>1. \A g \in stream' : g \in stream /\ g # f
    BY <1>5 DEF fs_read
  <2>2. \A g \in stream' : fd'[g] = fd[g]
    BY <1>0, <1>5, <2>1 DEF fs_read
  <2> QED BY <1>5, <2>1, <2>2, QuietStreams DEF fs_read
<1>6. ASSUME NEW f \in Fd, NEW nbyte \in Requests, KilledInWrite(f, nbyte) PROVE StreamInv'
  <2>1. stream' = {} /\ inode' = inode
    BY <1>6 DEF KilledInWrite
  <2>2. used \subseteq used'
    BY <1>6 DEF KilledInWrite, KilledDirect, KilledIndirect
  <2>3. LostMeansFull'
    BY <2>1, <2>2 DEF StreamInv, LostMeansFull, Full
  <2> QED BY <2>1, <2>3 DEF StreamInv
<1>7. ASSUME NEW f \in Fd, NEW nbyte \in Requests,
             WriteDirect(f, nbyte) \/ WriteIndirect(f, nbyte) \/ WriteDoubleIndirect(f, nbyte)
      PROVE  StreamInv'
  BY <1>7, WriteDirectStreams, OtherWriteStreams
<1>8. CASE UNCHANGED vars
  BY <1>8, QuietStreams DEF vars
<1> QED BY <1>1, <1>2, <1>3, <1>4, <1>5, <1>6, <1>7, <1>8 DEF Next

(* fs_write: a descriptor that only appends stands at the end of its file, *)
(* and while the device has room the file has no gap.                      *)
THEOREM StreamsHaveNoGap == Spec => []StreamsAppend
<1>1. Init => StreamInv
  BY DEF Init, StreamInv, LostMeansFull, NewFile
<1>2. StreamInv => StreamsAppend
  BY DEF StreamInv, AtEnd, StreamsAppend, Full
<1> QED BY <1>1, <1>2, SpecInv, NextStreams, PTL DEF Spec
=============================================================================
