----------------------------- MODULE FileSystem -----------------------------
(***************************************************************************)
(* The names of a5_fs2021/src/FS.c: inodes, directories and descriptors    *)
(* over the block store library.  The source declares no member `bitmap`   *)
(* in FS_t and defines tokenize twice; it is read as if the member was     *)
(* there and one tokenize was left.                                        *)
(*                                                                         *)
(* Block 0 is the bitmap of the inode table, and the blocks behind it hold *)
(* the table.  A directory has one data block, directPointer[0], of        *)
(* entries [filename, inodeNumber]; before it has one, the pointer is 0    *)
(* and the code reads block 0 as its directory.  So a name is the set of   *)
(* the bits of its characters, and the bitmap is the name of the first     *)
(* entry of block 0: inode i is in use when bit i is in that name.         *)
(*                                                                         *)
(* The contents of regular files are in module FileContents.  Calls that   *)
(* fail before they change anything are stutters.                          *)
(***************************************************************************)
EXTENDS Integers, SequencesExt

CONSTANTS
  number_inodes,          (* 256 *)
  number_fd,              (* 256 *)
  folder_number_entries,  (* 31: the entries of a directory                *)
  DataBlocks,             (* the blocks the files can have                 *)
  Names,                  (* bound: the names callers use                  *)
  MaxDepth                (* bound: the longest path callers use           *)

NoName == {}

ASSUME FileSystemConstants ==
  /\ number_inodes \in Nat \ {0} /\ number_fd \in Nat /\ DataBlocks \in Nat
  /\ folder_number_entries \in Nat \ {0} /\ MaxDepth \in Nat \ {0}

(* A name is not empty.  It may look as the bitmap does: "?" is 0x3F, the  *)
(* bitmap with inodes 0 to 5 in use.  The bitmap is filled from below, so  *)
(* that strcmp, which ends at a zero byte, compares all of it.             *)
ASSUME NamesHaveBits == \A name \in Names : name \subseteq Nat /\ name # NoName

Inode == 0 .. number_inodes - 1
Slot  == 0 .. folder_number_entries - 1
Fd    == 0 .. number_fd - 1
root  == 0
BitmapBlock == 0
InodeBlocks == 1 .. 4
DataBlock   == 5 .. 4 + DataBlocks

(* Absolute paths as tokenize cuts them; "/" has one empty token and a     *)
(* trailing slash leaves one at the end.                                   *)
NamedPaths == UNION {[1 .. k -> Names] : k \in 1 .. MaxDepth}
Paths == NamedPaths \cup {<<NoName>>} \cup {<<name, NoName>> : name \in Names}

VARIABLES
  mounted,  \* there is an FS_t
  used,     \* the free block map of BlockStore_whole
  block,    \* block 0 and the data blocks, as directories
  inode,    \* the inode table
  fd_used,  \* the bitmap of BlockStore_fd
  fd,       \* the inode number in each descriptor
  held,     \* the descriptors fs_open returned that were not closed
  asked,    \* history: paths created that must be found, each with its inode
  astray,   \* history: a create went to another place than its path names
  overwritten, \* history: a remove or a move has written over block 0
  moved     \* history: fs_move has moved something

vars == <<mounted, used, block, inode, fd_used, fd, held, asked, astray, overwritten, moved>>
store == <<used, block, inode>>
descriptors == <<fd_used, fd, held>>

inode_bitmap == block[BitmapBlock][0].filename

Entry == [filename : SUBSET (Inode \cup UNION Names), inodeNumber : Inode]

TypeOK ==
  /\ mounted \in BOOLEAN
  /\ used \subseteq {BitmapBlock} \cup InodeBlocks \cup DataBlock
  /\ block \in [{BitmapBlock} \cup DataBlock -> [Slot -> Entry]]
  /\ inode \in [Inode -> [fileType : {"-", "r", "d"}, vacantFile : SUBSET Slot,
                          directPointer : {0} \cup DataBlock]]
  /\ fd_used \subseteq Fd /\ fd \in [Fd -> Inode] /\ held \subseteq fd_used
  /\ asked \subseteq (NamedPaths \X Inode)
  /\ astray \in BOOLEAN /\ overwritten \in BOOLEAN /\ moved \in BOOLEAN

NewInode(type) == [fileType |-> type, vacantFile |-> {}, directPointer |-> 0]

(* fs_format: a new device has the inode bitmap, the four blocks of the    *)
(* inode table and the root's inode.                                       *)
fs_format ==
  /\ mounted = TRUE
  /\ used = {BitmapBlock} \cup InodeBlocks
  /\ block = [b \in {BitmapBlock} \cup DataBlock |->
                [s \in Slot |-> [filename |-> IF b = BitmapBlock /\ s = 0 THEN {root} ELSE NoName,
                                 inodeNumber |-> 0]]]
  /\ inode = [n \in Inode |-> NewInode(IF n = root THEN "d" ELSE "-")]
  /\ fd_used = {} /\ fd = [f \in Fd |-> 0]
  /\ held = {} /\ asked = {} /\ astray = FALSE /\ overwritten = FALSE /\ moved = FALSE

(* bitmap_ffz of the libraries: the first number of S that is not set in   *)
(* bits; no number of S is left when bits covers it.                       *)
Ffz(bits, S) == Min(S \ bits)

-----------------------------------------------------------------------------
(* The paths of the callers, as a reference for the walks below: the       *)
(* inodes that the names lead to, through entries whose bit is set.        *)
Entries(n) ==
  IF inode[n].fileType # "d" THEN {}
  ELSE {s \in inode[n].vacantFile : block[inode[n].directPointer][s].filename # NoName}

InSlot(n, s) == block[inode[n].directPointer][s]

Children(n, name) ==
  {InSlot(n, s).inodeNumber : s \in {e \in Entries(n) : InSlot(n, e).filename = name}}

Resolve(path) ==
  FoldLeft(LAMBDA S, name : UNION {Children(n, name) : n \in S}, {root}, path)

-----------------------------------------------------------------------------
(* Mutation: the directory is read once and not in every turn. *)
LookOnce(w, s, token) ==
  IF w.directory[s].filename = token
  THEN [num |-> w.directory[s].inodeNumber, depth |-> w.depth + 1, directory |-> w.directory]
  ELSE w

(* One turn of the inner loop of fs_create's walk: the directory is that   *)
(* of the inode at hand, which a match replaces in the middle of the loop, *)
(* so that the next turns look at the later entries of the child.          *)
Look(w, s, token) ==
  LET directory == block[inode[w.num].directPointer] IN
    IF directory[s].filename = token
    THEN [num |-> directory[s].inodeNumber, depth |-> w.depth + 1, directory |-> directory]
    ELSE [w EXCEPT !.directory = directory]

Slots == [s \in 1 .. folder_number_entries |-> s - 1]

(* fs_create walks to the parent: its inode number new_inode_num, the      *)
(* names found dir_counter, and the directory that was read last.          *)
WalkToParent(tokens) ==
  FoldLeft(LAMBDA w, token :
             IF inode[w.num].fileType = "d"
             THEN FoldLeft(LAMBDA v, s : Look(v, s, token), w, Slots)
             ELSE w,
           [num |-> root, depth |-> 0, directory |-> block[inode[root].directPointer]],
           tokens)

(* The walk ended in the directory the path names, with its entries. *)
WalkIsRight(w, path) ==
  Resolve(path) = {w.num} /\ w.directory = block[inode[w.num].directPointer]

(* Mutation: the last of the entries is not compared. *)
NameTakenButLast(directory, first_zero, name) ==
  \E s \in 0 .. first_zero - 2 : directory[s].filename = name

NameTaken(directory, first_zero, name) ==
  \E s \in 0 .. first_zero - 1 : directory[s].filename = name

(* Mutation: "<=" for "<". *)
HasRoomOneMore(first_zero) == first_zero <= folder_number_entries

HasRoom(first_zero) == first_zero < folder_number_entries

(* Mutations: the new block is not marked, or not stored in the inode. *)
UsedUnmarked(first_zero, new_block) == used
PointerKept(parent, first_zero, new_block) == parent.directPointer

(* The first entry of a directory brings it a block of its own. *)
UsedWith(first_zero, new_block) ==
  IF first_zero = 0 THEN used \cup {new_block} ELSE used
PointerTo(parent, first_zero, new_block) ==
  IF first_zero = 0 THEN new_block ELSE parent.directPointer

(* block_store_allocate of the inode table sets a bit in block 0. *)
MarkInode(b, id) == [b EXCEPT ![BitmapBlock][0].filename = @ \cup {id}]

(* fs_create.  When no inode is left the parent is already written, with   *)
(* the entry's bit set and perhaps a new block, and stays so: a directory  *)
(* whose first entry a move has taken out has lost the others then.        *)
fs_create(path, type) ==
  LET w          == WalkToParent(Front(path))
      parent     == inode[w.num]
      first_zero == Ffz(parent.vacantFile, 0 .. folder_number_entries)
      new_block  == Ffz(used, DataBlock)
      pointer    == PointerTo(parent, first_zero, new_block)
      filled     == [parent EXCEPT !.vacantFile = @ \cup {first_zero},
                                   !.directPointer = pointer]
      id         == Ffz(inode_bitmap, Inode)
      entry      == [filename |-> Last(path), inodeNumber |-> id]
  IN
  /\ mounted
  /\ parent.fileType = "d" /\ w.depth = Len(path) - 1
  /\ ~ NameTaken(w.directory, first_zero, Last(path))
  /\ HasRoom(first_zero)
  /\ first_zero = 0 => DataBlock \ used # {}
  /\ used' = UsedWith(first_zero, new_block)
  /\ IF Inode \subseteq inode_bitmap
     THEN /\ inode' = [inode EXCEPT ![w.num] = filled]
          /\ UNCHANGED block
          /\ asked' = IF first_zero = 0 /\ parent.vacantFile # {} THEN {} ELSE asked
     ELSE /\ block' = [MarkInode(block, id) EXCEPT
                         ![pointer] = [w.directory EXCEPT ![first_zero] = entry]]
          /\ inode' = [inode EXCEPT ![w.num] = filled, ![id] = NewInode(type)]
          /\ asked' = IF overwritten THEN asked ELSE asked \cup {<<path, id>>}
  /\ astray' = (astray \/ ~ WalkIsRight(w, Front(path)))
  /\ UNCHANGED <<mounted, descriptors, overwritten, moved>>

-----------------------------------------------------------------------------
(* The entries of directory n that match; fs_open looks at all of them,    *)
(* fs_remove at those whose bit is set.                                    *)
Hits(n, token, slots) == {s \in slots : InSlot(n, s).filename = token}

(* Every match counts, the last one is followed. *)
Follow(w, hits) ==
  IF hits = {} THEN w
  ELSE [w EXCEPT !.num = InSlot(w.num, Max(hits)).inodeNumber,
                 !.depth = @ + Cardinality(hits)]

(* Mutation: the counter goes up whether the name is found or not. *)
OpenTokenCounted(w, token) ==
  IF inode[w.num].fileType = "d"
  THEN [Follow(w, Hits(w.num, token, Slot)) EXCEPT !.depth = w.depth + 1]
  ELSE w

OpenToken(w, token) ==
  IF inode[w.num].fileType = "d" THEN Follow(w, Hits(w.num, token, Slot)) ELSE w

WalkToFile(tokens) == FoldLeft(OpenToken, [num |-> root, depth |-> 0], tokens)

CanOpenAll(n) == TRUE    \* Mutation: the type is not looked at

CanOpen(n) == inode[n].fileType # "d"

(* fs_open takes a descriptor before it looks at the type: for a directory *)
(* it fails and the descriptor stays taken.                                *)
fs_open(path) ==
  LET w   == WalkToFile(path)
      new == Ffz(fd_used, Fd)
  IN
  /\ mounted
  /\ w.depth = Len(path)
  /\ Fd \ fd_used # {}
  /\ fd_used' = fd_used \cup {new}
  /\ IF CanOpen(w.num)
     THEN fd' = [fd EXCEPT ![new] = w.num] /\ held' = held \cup {new}
     ELSE UNCHANGED <<fd, held>>
  /\ UNCHANGED <<mounted, store, asked, astray, overwritten, moved>>

fs_close(f) ==
  /\ mounted
  /\ f \in held
  /\ fd_used' = fd_used \ {f}
  /\ held' = held \ {f}
  /\ UNCHANGED <<mounted, store, fd, asked, astray, overwritten, moved>>

-----------------------------------------------------------------------------
RemoveToken(w, token) ==
  IF inode[w.num].fileType = "d"
  THEN Follow(w, Hits(w.num, token, inode[w.num].vacantFile))
  ELSE w

(* The test for an empty directory shifts its bits by the slot s that the  *)
(* directory has in its parent, and sees only what is left.                *)
LooksFull(n, s) ==
  LET child == inode[InSlot(n, s).inodeNumber]
  IN  child.fileType = "d" /\ \E b \in child.vacantFile : b >= s

(* fs_remove looks through the parent's entries up to the name and gives   *)
(* up when one of them looks full.  directPointer is indexed with the slot *)
(* and set to 0: in slot 0 the parent loses its block, and in every slot   *)
(* the directory is written to block 0, over the bit just released.  Slots *)
(* from 8 on are outside of the inode and not modelled.                    *)
fs_remove(path) ==
  LET w       == FoldLeft(RemoveToken, [num |-> root, depth |-> 0], Front(path))
      parent  == inode[w.num]
      hits    == Hits(w.num, Last(path), parent.vacantFile)
      curr    == Min(hits)
      cleared == [block[parent.directPointer] EXCEPT ![curr].filename = NoName]
  IN
  /\ mounted
  /\ w.depth = Len(path) - 1 /\ parent.fileType = "d"
  /\ hits # {}
  /\ \A s \in parent.vacantFile : s <= curr => ~ LooksFull(w.num, s)
  /\ inode' = [inode EXCEPT ![w.num].vacantFile = @ \ {curr},
                            ![w.num].directPointer = IF curr = 0 THEN 0 ELSE @]
  /\ block' = [block EXCEPT ![BitmapBlock] = cleared]
  /\ asked' = {}
  /\ overwritten' = TRUE
  /\ UNCHANGED <<mounted, used, descriptors, astray, moved>>

-----------------------------------------------------------------------------
(* fs_move walks as fs_remove does, and keeps the directory it read last.  *)
EmptyBuffer == [s \in Slot |-> [filename |-> NoName, inodeNumber |-> 0]]

MoveToken(w, token) ==
  IF inode[w.num].fileType = "d"
  THEN [RemoveToken(w, token) EXCEPT !.directory = block[inode[w.num].directPointer]]
  ELSE w

WalkToDirectory(tokens) ==
  FoldLeft(MoveToken, [num |-> root, depth |-> 0, directory |-> EmptyBuffer], tokens)

BufferLastRead(w) == w.directory    \* Mutation: the target's block is not read

(* The directory that the new entry is put into: the target's own, or, for *)
(* a target without entries, the last one on the way.                      *)
BufferOf(w) ==
  IF inode[w.num].vacantFile # {} THEN block[inode[w.num].directPointer] ELSE w.directory

(* Neither the old name nor the new one is in the target.  If one is,      *)
(* dst_flag is true and the move fails; if not, dst_flag was never         *)
(* assigned, and the move goes on when it happens to be false.             *)
FreeName(target, names) ==
  \A s \in inode[target].vacantFile : InSlot(target, s).filename \notin {names[1], names[2]}

(* fs_move, when it is not refused.  The entry of src is taken out first;  *)
(* the one of dst names inode_dst_stat, which no path of the function has  *)
(* assigned.  It is stored in the block of the target, which for a target  *)
(* that never had an entry is block 0.  In a full target the slot is       *)
(* SIZE_MAX, and the process dies with the entry of src gone.  A move of   *)
(* what does not exist, where src_num is undefined as well, is left out.   *)
(* Bound: one move, before any remove.                                     *)
fs_move(src, dst) ==
  LET from     == WalkToDirectory(Front(src))
      to       == WalkToDirectory(Front(dst))
      parent   == inode[from.num]
      target   == inode[to.num]
      hits     == Hits(from.num, Last(src), parent.vacantFile)
      src_num  == Max(hits)
      unlinked == [block EXCEPT ![parent.directPointer][src_num].filename = NoName]
      left     == [inode EXCEPT ![from.num].vacantFile = @ \ {src_num}]
      full     == Slot \subseteq target.vacantFile
      temp_ffz == Ffz(target.vacantFile, Slot)
      entry(n) == [filename |-> Last(dst), inodeNumber |-> n]
      others   == {a \in asked : ~ IsPrefix(src, a[1])}
  IN
  /\ mounted
  /\ ~ moved /\ ~ overwritten /\ moved' = TRUE
  /\ from.depth = Len(src) - 1 /\ parent.fileType = "d" /\ hits # {}
  /\ to.depth = Len(dst) - 1 /\ target.fileType = "d"
  /\ FreeName(to.num, <<Last(src), Last(dst)>>)
  /\ IF full
     THEN /\ block' = unlinked /\ inode' = left
          /\ mounted' = FALSE
          /\ fd_used' = {} /\ held' = {} /\ fd' = [f \in Fd |-> 0]
     ELSE /\ \E inode_dst_stat \in Inode :
               block' = [unlinked EXCEPT ![target.directPointer] =
                           [BufferOf(to) EXCEPT ![temp_ffz] = entry(inode_dst_stat)]]
          /\ inode' = [left EXCEPT ![to.num].vacantFile = @ \cup {temp_ffz}]
          /\ UNCHANGED <<mounted, descriptors>>
  /\ overwritten' = (overwritten \/ (~ full /\ target.directPointer = BitmapBlock))
  /\ asked' = IF overwritten' THEN {} ELSE others
  /\ UNCHANGED <<used, astray>>

-----------------------------------------------------------------------------
fs_unmount ==
  /\ mounted
  /\ mounted' = FALSE
  /\ fd_used' = {} /\ held' = {}
  /\ fd' = [f \in Fd |-> 0]
  /\ UNCHANGED <<store, asked, astray, overwritten, moved>>

(* The table of descriptors is a new one, the rest is what the file holds. *)
fs_mount ==
  /\ ~ mounted
  /\ mounted' = TRUE
  /\ UNCHANGED <<store, descriptors, asked, astray, overwritten, moved>>

Next ==
  \/ \E path \in NamedPaths, type \in {"r", "d"} : fs_create(path, type)
  \/ \E path \in Paths : fs_open(path) \/ fs_remove(path)
  \/ \E src, dst \in NamedPaths : fs_move(src, dst)
  \/ \E f \in Fd : fs_close(f)
  \/ fs_unmount
  \/ fs_mount

Spec == fs_format /\ [][Next]_vars

-----------------------------------------------------------------------------
(* Until a create goes astray, a remove writes over block 0, or a move     *)
(* enters an inode that nobody chose.                                      *)
Intact == ~ astray /\ ~ overwritten /\ ~ moved

Directories == {n \in inode_bitmap \cap Inode : inode[n].fileType = "d"}
Named == UNION {{InSlot(n, s).inodeNumber : s \in Entries(n)} : n \in Directories}

(* The directories form a tree: no file is entered twice, the root is      *)
(* nowhere entered, and a directory has no name twice.                     *)
TreeShape ==
  Intact =>
    /\ root \notin Named
    /\ \A d, e \in Directories : \A s \in Entries(d), t \in Entries(e) :
         (d # e \/ s # t) =>
           /\ InSlot(d, s).inodeNumber # InSlot(e, t).inodeNumber
           /\ d = e => InSlot(d, s).filename # InSlot(d, t).filename

(* The bitmap in block 0 marks the root and the inodes that are entered in *)
(* some directory, whatever was written to and read from the other blocks. *)
InodeMapExact == Intact => inode_bitmap = {root} \cup Named

(* Every directory has a data block of its own, even after a remove: a     *)
(* block is never given out twice.                                         *)
BlocksExclusive ==
  \A n \in Inode : inode[n].directPointer # 0 =>
    /\ inode[n].directPointer \in used
    /\ \A m \in Inode \ {n} : inode[m].directPointer # inode[n].directPointer

(* A descriptor in a caller's hands names a regular file that exists. *)
DescriptorsAreFiles ==
  Intact => \A f \in held : fd[f] \in inode_bitmap /\ inode[fd[f]].fileType = "r"

(* The path asks for a name that is the bitmap's own in a directory that   *)
(* has no entries.  Block 0 is read for that directory, its first entry    *)
(* matches and is the root: with six inodes in use and d empty, fs_open    *)
(* of "/d/?" ends at the root and that of "/d/?/x" opens "/x".             *)
AsksForBitmap(path) ==
  \E k \in 1 .. Len(path) :
    /\ path[k] = inode_bitmap
    /\ \E n \in Resolve(SubSeq(path, 1, k - 1)) \cap Directories :
         inode[n].directPointer = BitmapBlock

(* The walk of fs_open, which counts matches and never looks at the bits   *)
(* of the entries, finds a file exactly where the path leads, unless block *)
(* 0 answers for an empty directory.                                       *)
OpenFinds ==
  Intact => \A path \in NamedPaths : AsksForBitmap(path) \/
    LET w == WalkToFile(path) IN
      IF w.depth = Len(path) THEN Resolve(path) = {w.num} ELSE Resolve(path) = {}

(* The walk of fs_create, which goes on in the child in the middle of the  *)
(* loop, ends in the right directory with its entries read, when no        *)
(* directory on the way enters its own name again and the parent is not in *)
(* the last entry of its directory.                                        *)
Plain(path) ==
  /\ \A k \in 1 .. Len(path) : Resolve(Append(SubSeq(path, 1, k), path[k])) = {}
  /\ \A n \in Resolve(Front(path)) :
       InSlot(n, folder_number_entries - 1).filename # Last(path)

CreateFindsParent ==
  Intact => \A path \in NamedPaths :
    (Plain(path) /\ Resolve(path) \cap Directories # {}) =>
      LET w == WalkToParent(path) IN w.depth = Len(path) /\ WalkIsRight(w, path)

(* A file stays where it was created, whatever is created, opened, removed *)
(* or moved elsewhere, and across mounts.  The exceptions are a move into  *)
(* a directory without entries, which writes over block 0, and a create    *)
(* without an inode left in a directory whose first entry was moved away.  *)
(* The path may come to lead to a second file, too: after a move fs_create *)
(* compares the new name with those before the first free entry only.      *)
FilesStay == ~ astray => \A a \in asked : a[2] \in Resolve(a[1])

-----------------------------------------------------------------------------
(* FS.h: fs_create "Creates a new file at the specified location", so that *)
(* every path created leads to its own file.                               *)
CreatedWhereAsked == \A a \in asked : Resolve(a[1]) = {a[2]}
=============================================================================
