-------------------------- MODULE FileSystemProofs --------------------------
(***************************************************************************)
(* Proofs about FileSystem, for every number of inodes, entries, blocks    *)
(* and descriptors, any names and paths.  Nothing is asked of where the    *)
(* walks end: what holds here holds after creates that went astray,        *)
(* removes and moves.                                                      *)
(***************************************************************************)
EXTENDS FileSystem, FiniteSums

InodeTable ==
  inode \in [Inode -> [fileType : {"-", "r", "d"}, vacantFile : SUBSET Slot,
                       directPointer : {0} \cup DataBlock]]

Inv == InodeTable /\ BlocksExclusive

LEMMA FfzIsFree ==
  ASSUME NEW bits, NEW S \in SUBSET Nat, S \ bits # {}
  PROVE  Ffz(bits, S) \in S \ bits
BY MinOfNaturals DEF Ffz

LEMMA InitInv == fs_format => Inv
<1> SUFFICES ASSUME fs_format PROVE Inv
  OBVIOUS
<1>1. InodeTable
  BY DEF fs_format, InodeTable, NewInode
<1>2. \A n \in Inode : inode[n].directPointer = 0
  BY DEF fs_format, NewInode
<1> QED BY <1>1, <1>2 DEF Inv, BlocksExclusive

(* A step that gives no inode a new block. *)
LEMMA NoNewBlock ==
  ASSUME Inv, InodeTable', used \subseteq used',
         \A n \in Inode : inode'[n].directPointer \in {0, inode[n].directPointer}
  PROVE  Inv'
BY DEF Inv, BlocksExclusive

(* A step that gives one inode a block that was free. *)
LEMMA OneNewBlock ==
  ASSUME Inv, InodeTable', NEW m \in Inode, NEW b \in DataBlock \ used, used' = used \cup {b},
         inode'[m].directPointer \in {0, b},
         \A n \in Inode \ {m} : inode'[n].directPointer \in {0, inode[n].directPointer}
  PROVE  Inv'
BY DEF Inv, BlocksExclusive

LEMMA InodeStays ==
  ASSUME Inv, inode' = inode, used' = used
  PROVE  Inv'
BY DEF Inv, InodeTable, BlocksExclusive

(* The inode of the directory, wherever the walk ended, and the new one.   *)
LEMMA CreateInv ==
  ASSUME Inv, NEW path, NEW type \in {"r", "d"}, fs_create(path, type)
  PROVE  Inv'
<1> DEFINE w          == WalkToParent(Front(path))
           parent     == inode[w.num]
           first_zero == Ffz(parent.vacantFile, 0 .. folder_number_entries)
           new_block  == Ffz(used, DataBlock)
           pointer    == PointerTo(parent, first_zero, new_block)
           filled     == [parent EXCEPT !.vacantFile = @ \cup {first_zero},
                                        !.directPointer = pointer]
           id         == Ffz(inode_bitmap, Inode)
           num        == w.num
<1>1. /\ HasRoom(first_zero)
      /\ first_zero = 0 => DataBlock \ used # {}
      /\ used' = UsedWith(first_zero, new_block)
      /\ \/ inode' = [inode EXCEPT ![num] = filled]
         \/ inode' = [inode EXCEPT ![num] = filled, ![id] = NewInode(type)]
  BY DEF fs_create
<1> HIDE DEF w, id
<1>2. folder_number_entries \in Nat /\ DataBlock \subseteq Nat
  BY FileSystemConstants DEF DataBlock
<1>3. first_zero = 0 => new_block \in DataBlock \ used
  BY <1>1, <1>2, FfzIsFree
<1>4. ASSUME num \in Inode
      PROVE  /\ filled \in [fileType : {"-", "r", "d"}, vacantFile : SUBSET Slot,
                            directPointer : {0} \cup DataBlock]
             /\ filled.directPointer = pointer
             /\ pointer = IF first_zero = 0 THEN new_block ELSE parent.directPointer
  <2>1. parent \in [fileType : {"-", "r", "d"}, vacantFile : SUBSET Slot,
                    directPointer : {0} \cup DataBlock]
    BY <1>4 DEF Inv, InodeTable
  <2>2. (0 .. folder_number_entries) \ parent.vacantFile # {}
    <3>1. folder_number_entries \in 0 .. folder_number_entries /\ folder_number_entries \notin Slot
      BY <1>2 DEF Slot
    <3> QED BY <2>1, <3>1
  <2>3. first_zero \in 0 .. folder_number_entries
    BY <1>2, <2>2, FfzIsFree
  <2>4. first_zero \in Slot
    BY <1>1, <1>2, <2>3 DEF HasRoom, Slot
  <2>5. pointer = IF first_zero = 0 THEN new_block ELSE parent.directPointer
    BY DEF PointerTo
  <2> HIDE DEF parent, first_zero, new_block, pointer
  <2>6. pointer \in {0} \cup DataBlock
    BY <1>3, <2>1, <2>5
  <2> QED BY <2>1, <2>4, <2>5, <2>6
<1>5. NewInode(type) \in [fileType : {"-", "r", "d"}, vacantFile : SUBSET Slot,
                          directPointer : {0} \cup DataBlock]
      /\ NewInode(type).directPointer = 0
  BY DEF NewInode
<1>6. used' = IF first_zero = 0 THEN used \cup {new_block} ELSE used
  BY <1>1 DEF UsedWith
<1>7. num \in Inode => parent.directPointer = inode[num].directPointer
  OBVIOUS
<1> HIDE DEF num, parent, first_zero, new_block, pointer, filled
<1>8. InodeTable'
  BY <1>1, <1>4, <1>5 DEF Inv, InodeTable
<1>9. \A n \in Inode \ {num} : inode'[n].directPointer \in {0, inode[n].directPointer}
  BY <1>1, <1>5 DEF Inv, InodeTable
<1>10. num \in Inode => inode'[num].directPointer \in {0, pointer}
  BY <1>1, <1>4, <1>5 DEF Inv, InodeTable
<1>11. CASE num \in Inode /\ first_zero = 0
  <2>1. inode'[num].directPointer \in {0, new_block}
    BY <1>4, <1>10, <1>11
  <2> QED BY <1>3, <1>6, <1>8, <1>9, <1>11, <2>1, OneNewBlock
<1>12. CASE ~ (num \in Inode /\ first_zero = 0)
  <2>1. \A n \in Inode : inode'[n].directPointer \in {0, inode[n].directPointer}
    BY <1>4, <1>7, <1>9, <1>10, <1>12
  <2> QED BY <1>6, <1>8, <2>1, NoNewBlock
<1> QED BY <1>11, <1>12

LEMMA RemoveInv == ASSUME Inv, NEW path, fs_remove(path) PROVE Inv'
<1> DEFINE num == FoldLeft(RemoveToken, [num |-> root, depth |-> 0], Front(path)).num
           curr == Min(Hits(num, Last(path), inode[num].vacantFile))
<1>1. /\ inode' = [inode EXCEPT ![num].vacantFile = @ \ {curr},
                                ![num].directPointer = IF curr = 0 THEN 0 ELSE @]
      /\ used' = used
  BY DEF fs_remove
<1> HIDE DEF num, curr
<1>2. InodeTable'
  BY <1>1 DEF Inv, InodeTable
<1>3. \A n \in Inode : inode'[n].directPointer \in {0, inode[n].directPointer}
  BY <1>1 DEF Inv, InodeTable
<1> QED BY <1>1, <1>2, <1>3, NoNewBlock

LEMMA MoveInv == ASSUME Inv, NEW src, NEW dst, fs_move(src, dst) PROVE Inv'
<1> DEFINE from     == WalkToDirectory(Front(src)).num
           to       == WalkToDirectory(Front(dst)).num
           src_num  == Max(Hits(from, Last(src), inode[from].vacantFile))
           left     == [inode EXCEPT ![from].vacantFile = @ \ {src_num}]
           temp_ffz == Ffz(inode[to].vacantFile, Slot)
<1>1. /\ used' = used
      /\ \/ inode' = left
         \/ /\ ~ (Slot \subseteq inode[to].vacantFile)
            /\ inode' = [left EXCEPT ![to].vacantFile = @ \cup {temp_ffz}]
  BY DEF fs_move
<1>2. ~ (Slot \subseteq inode[to].vacantFile) => temp_ffz \in Slot
  <2>1. Slot \subseteq Nat
    BY DEF Slot
  <2> QED BY <2>1, FfzIsFree
<1> HIDE DEF from, to, src_num, temp_ffz
<1>3. /\ left \in [Inode -> [fileType : {"-", "r", "d"}, vacantFile : SUBSET Slot,
                             directPointer : {0} \cup DataBlock]]
      /\ \A n \in Inode : left[n].directPointer = inode[n].directPointer
  BY DEF Inv, InodeTable
<1> HIDE DEF left
<1>4. InodeTable' /\ \A n \in Inode : inode'[n].directPointer = inode[n].directPointer
  BY <1>1, <1>2, <1>3 DEF InodeTable
<1> QED BY <1>1, <1>4, NoNewBlock

LEMMA NextInv == Inv /\ [Next]_vars => Inv'
<1> SUFFICES ASSUME Inv, [Next]_vars PROVE Inv'
  OBVIOUS
<1>1. ASSUME NEW path \in NamedPaths, NEW type \in {"r", "d"}, fs_create(path, type)
      PROVE  Inv'
  BY <1>1, CreateInv
<1>2. ASSUME NEW path \in Paths, fs_open(path) PROVE Inv'
  BY <1>2, InodeStays DEF fs_open, store
<1>3. ASSUME NEW path \in Paths, fs_remove(path) PROVE Inv'
  BY <1>3, RemoveInv
<1>4. ASSUME NEW src \in NamedPaths, NEW dst \in NamedPaths, fs_move(src, dst) PROVE Inv'
  BY <1>4, MoveInv
<1>5. ASSUME NEW f \in Fd, fs_close(f) PROVE Inv'
  BY <1>5, InodeStays DEF fs_close, store
<1>6. CASE fs_unmount
  BY <1>6, InodeStays DEF fs_unmount, store
<1>7. CASE fs_mount
  BY <1>7, InodeStays DEF fs_mount, store
<1>8. CASE UNCHANGED vars
  BY <1>8, InodeStays DEF vars
<1> QED BY <1>1, <1>2, <1>3, <1>4, <1>5, <1>6, <1>7, <1>8 DEF Next

LEMMA Invariance == Spec => []Inv
<1>1. fs_format => Inv
  BY InitInv
<1>2. Inv /\ [Next]_vars => Inv'
  BY NextInv
<1> QED BY <1>1, <1>2, PTL DEF Spec

(* fs_create gives no directory a block that another one has, whatever was *)
(* created, removed and moved before and wherever its walk ended: the data *)
(* blocks of the directories stay apart and marked.                        *)
THEOREM BlocksStayExclusive == Spec => []BlocksExclusive
<1>1. Inv => BlocksExclusive
  BY DEF Inv
<1> QED BY <1>1, Invariance, PTL

-----------------------------------------------------------------------------
(* The walks.  Each is a fold over the tokens of a path; what holds of     *)
(* where it stands is shown along the trail of its turns.                  *)

(* A set of inodes that no entry of theirs leads out of. *)
Leads(N) ==
  /\ root \in N /\ N \subseteq Inode
  /\ \A n \in N : \A s \in Slot : InSlot(n, s).inodeNumber \in N

LEMMA SlotsAreNumbers ==
  /\ folder_number_entries \in Nat \ {0}
  /\ \A hits \in SUBSET Slot : hits # {} =>
       /\ Max(hits) \in hits /\ \A s \in hits : s <= Max(hits)
       /\ Min(hits) \in hits /\ \A s \in hits : Min(hits) <= s
  /\ IsFiniteSet(Slot)
<1>1. folder_number_entries \in Nat \ {0}
  BY FileSystemConstants
<1>2. IsFiniteSet(Slot)
  <2>1. 0 \in Int /\ folder_number_entries - 1 \in Int
    BY <1>1
  <2> QED BY ONLY <2>1, FS_Interval DEF Slot
<1>3. ASSUME NEW hits \in SUBSET Slot, hits # {}
      PROVE  /\ Max(hits) \in hits /\ \A s \in hits : s <= Max(hits)
             /\ Min(hits) \in hits /\ \A s \in hits : Min(hits) <= s
  <2>1. hits \in SUBSET (0 .. folder_number_entries) /\ folder_number_entries \in Nat
    BY <1>1 DEF Slot
  <2>2. hits \in SUBSET Nat
    BY <1>1 DEF Slot
  <2> QED BY ONLY <1>3, <2>1, <2>2, MaxUpTo, MinOfNaturals
<1> QED BY <1>1, <1>2, <1>3

(* What a walk does with its matches: the last one is where it goes on.    *)
At(w, num, depth) == [w EXCEPT !.num = num, !.depth = depth]

LEMMA FollowGoes ==
  ASSUME NEW w, NEW hits \in SUBSET Slot
  PROVE  /\ hits = {} => Follow(w, hits) = w
         /\ hits # {} => \E s \in hits, c \in Nat \ {0} :
              /\ Follow(w, hits) = At(w, InSlot(w.num, s).inodeNumber, w.depth + c)
              /\ c = Cardinality(hits) /\ \A t \in hits : t <= s
<1>1. IsFiniteSet(hits) /\ Cardinality(hits) \in Nat
  BY SlotsAreNumbers, FS_Subset, FS_CardinalityType
<1>2. hits # {} => Cardinality(hits) # 0
  BY <1>1, FS_EmptySet
<1> QED BY <1>1, <1>2, SlotsAreNumbers DEF Follow, At

Walker(N)   == [num : N, depth : Nat]
Mover(N, D) == [num : N, depth : Nat, directory : D]

LEMMA AtType ==
  ASSUME NEW N, NEW D, NEW q \in N, NEW d \in Nat
  PROVE  /\ \A w \in Walker(N) : At(w, q, d) \in Walker(N)
         /\ \A w \in Mover(N, D) : At(w, q, d) \in Mover(N, D)
BY DEF At, Walker, Mover

(* So it stays among the inodes that nothing leads out of. *)
LEMMA FollowStays ==
  ASSUME NEW N, Leads(N), NEW w, NEW hits \in SUBSET Slot, w.num \in N
  PROVE  \/ Follow(w, hits) = w
         \/ \E q \in N, c \in Nat :
              Follow(w, hits) = At(w, q, w.depth + c)
<1>1. CASE hits = {}
  BY <1>1, FollowGoes
<1>2. CASE hits # {}
  <2>1. PICK s \in hits, c \in Nat \ {0} :
          Follow(w, hits) = At(w, InSlot(w.num, s).inodeNumber, w.depth + c)
    BY <1>2, FollowGoes
  <2>2. InSlot(w.num, s).inodeNumber \in N
    BY DEF Leads
  <2> QED BY <2>1, <2>2
<1> QED BY <1>1, <1>2

(* The walk of fs_open. *)
LEMMA OpenTrail ==
  ASSUME NEW N, Leads(N), NEW m \in Nat, NEW tokens, DOMAIN tokens = 1 .. m
  PROVE  \E g \in [0 .. m -> Walker(N)] :
           /\ g[0] = [num |-> root, depth |-> 0]
           /\ g[m] = WalkToFile(tokens)
           /\ \A k \in 1 .. m : g[k] = OpenToken(g[k - 1], tokens[k])
<1> DEFINE base == [num |-> root, depth |-> 0]
           W == Walker(N)
<1> DEFINE h == [kw \in (1 .. m) \X W |-> OpenToken(kw[2], tokens[kw[1]])]
           Fold(iter) == iter = [s \in SUBSET (1 .. m) |->
             IF s = {} THEN base
             ELSE OpenToken(iter[s \ {Max(s)}], tokens[Max(s)])]
           run == CHOOSE iter : Fold(iter)
<1>1. WalkToFile(tokens) = run[1 .. m]
  BY DEF WalkToFile, FoldLeft, MapThenFoldSet
<1>2. ASSUME NEW w \in W, NEW token PROVE OpenToken(w, token) \in W
  <2> DEFINE hits == Hits(w.num, token, Slot)
  <2>1. hits \in SUBSET Slot /\ w.num \in N
    BY DEF Hits, Walker, Mover
  <2> HIDE DEF hits
  <2>2. Follow(w, hits) \in W
    <3>1. \/ Follow(w, hits) = w
          \/ \E q \in N, c \in Nat :
               Follow(w, hits) = At(w, q, w.depth + c)
      BY ONLY <2>1, Leads(N), FollowStays
    <3>2. ASSUME NEW q \in N, NEW c \in Nat PROVE At(w, q, w.depth + c) \in W
      <4>1. w.depth + c \in Nat
        BY DEF Walker, Mover
      <4> QED BY <4>1, AtType
    <3> HIDE DEF W
    <3> QED BY <3>1, <3>2
  <2> QED BY <2>2 DEF OpenToken, hits
<1>3. Closed(W, m, base, h)
  <2>1. base \in W
    BY DEF Leads, Walker, Mover
  <2> QED BY <1>2, <2>1 DEF Closed
<1>4. \A s \in SUBSET (1 .. m) : s # {} => Max(s) \in 1 .. m
  <2>1. \A s \in SUBSET (1 .. m) : s \in SUBSET (0 .. m)
    OBVIOUS
  <2> QED BY <2>1, MaxUpTo
<1>5. \A k \in 1 .. m, w \in W : h[<<k, w>>] = OpenToken(w, tokens[k])
  OBVIOUS
<1> HIDE DEF base, W, h
<1>6. m \in Nat /\ \E iter : Fold(iter)
  <2>1. m \in Nat
    OBVIOUS
  <2>2. PICK iter : /\ Folds(iter, m, base, h)
                    /\ \A s \in SUBSET (1 .. m) : iter[s] \in W
    BY ONLY <2>1, <1>3, FoldSolvable
  <2>3. \A s \in SUBSET (1 .. m) : s # {} =>
          h[<<Max(s), iter[s \ {Max(s)}]>>] = OpenToken(iter[s \ {Max(s)}], tokens[Max(s)])
    BY <1>4, <1>5, <2>2
  <2>4. iter = [s \in SUBSET (1 .. m) |->
                  IF s = {} THEN base ELSE h[<<Max(s), iter[s \ {Max(s)}]>>]]
    BY ONLY <2>2 DEF Folds
  <2>5. Fold(iter)
    BY ONLY <2>3, <2>4
  <2> HIDE DEF Fold
  <2> QED BY ONLY <2>1, <2>5
<1>7. Fold(run)
  <2> HIDE DEF Fold
  <2> QED BY <1>6, Zenon
<1> HIDE DEF run
<1>8. FoldsTo(run, W, m, base, h)
  BY ONLY <1>4, <1>5, <1>7 DEF FoldsTo
<1>9. PICK g \in [0 .. m -> W] : /\ g[0] = base /\ g[m] = run[1 .. m]
                                 /\ \A k \in 1 .. m : g[k] = h[<<k, g[k - 1]>>]
  BY ONLY <1>3, <1>6, <1>8, FoldTrail
<1>10. ASSUME NEW k \in 1 .. m PROVE g[k] = OpenToken(g[k - 1], tokens[k])
  <2>1. k - 1 \in 0 .. m
    OBVIOUS
  <2>2. g[k - 1] \in W
    BY <1>9, <2>1
  <2> QED BY <1>5, <1>9, <2>2
<1> QED BY <1>1, <1>9, <1>10 DEF base, W

(* The walk of fs_remove. *)
WalkToRemoved(tokens) == FoldLeft(RemoveToken, [num |-> root, depth |-> 0], tokens)

LEMMA RemoveTrail ==
  ASSUME NEW N, Leads(N), NEW m \in Nat, NEW tokens, DOMAIN tokens = 1 .. m,
         \A n \in N : inode[n].vacantFile \subseteq Slot
  PROVE  \E g \in [0 .. m -> Walker(N)] :
           /\ g[0] = [num |-> root, depth |-> 0]
           /\ g[m] = WalkToRemoved(tokens)
           /\ \A k \in 1 .. m : g[k] = RemoveToken(g[k - 1], tokens[k])
<1> DEFINE base == [num |-> root, depth |-> 0]
           W == Walker(N)
<1> DEFINE h == [kw \in (1 .. m) \X W |-> RemoveToken(kw[2], tokens[kw[1]])]
           Fold(iter) == iter = [s \in SUBSET (1 .. m) |->
             IF s = {} THEN base
             ELSE RemoveToken(iter[s \ {Max(s)}], tokens[Max(s)])]
           run == CHOOSE iter : Fold(iter)
<1>1. WalkToRemoved(tokens) = run[1 .. m]
  BY DEF WalkToRemoved, FoldLeft, MapThenFoldSet
<1>2. ASSUME NEW w \in W, NEW token PROVE RemoveToken(w, token) \in W
  <2> DEFINE hits == Hits(w.num, token, inode[w.num].vacantFile)
  <2>1. hits \in SUBSET Slot /\ w.num \in N
    BY DEF Hits, Walker, Mover
  <2> HIDE DEF hits
  <2>2. Follow(w, hits) \in W
    <3>1. \/ Follow(w, hits) = w
          \/ \E q \in N, c \in Nat :
               Follow(w, hits) = At(w, q, w.depth + c)
      BY ONLY <2>1, Leads(N), FollowStays
    <3>2. ASSUME NEW q \in N, NEW c \in Nat PROVE At(w, q, w.depth + c) \in W
      <4>1. w.depth + c \in Nat
        BY DEF Walker, Mover
      <4> QED BY <4>1, AtType
    <3> HIDE DEF W
    <3> QED BY <3>1, <3>2
  <2> QED BY <2>2 DEF RemoveToken, hits
<1>3. Closed(W, m, base, h)
  <2>1. base \in W
    BY DEF Leads, Walker, Mover
  <2> QED BY <1>2, <2>1 DEF Closed
<1>4. \A s \in SUBSET (1 .. m) : s # {} => Max(s) \in 1 .. m
  <2>1. \A s \in SUBSET (1 .. m) : s \in SUBSET (0 .. m)
    OBVIOUS
  <2> QED BY <2>1, MaxUpTo
<1>5. \A k \in 1 .. m, w \in W : h[<<k, w>>] = RemoveToken(w, tokens[k])
  OBVIOUS
<1> HIDE DEF base, W, h
<1>6. m \in Nat /\ \E iter : Fold(iter)
  <2>1. m \in Nat
    OBVIOUS
  <2>2. PICK iter : /\ Folds(iter, m, base, h)
                    /\ \A s \in SUBSET (1 .. m) : iter[s] \in W
    BY ONLY <2>1, <1>3, FoldSolvable
  <2>3. \A s \in SUBSET (1 .. m) : s # {} =>
          h[<<Max(s), iter[s \ {Max(s)}]>>] = RemoveToken(iter[s \ {Max(s)}], tokens[Max(s)])
    BY <1>4, <1>5, <2>2
  <2>4. iter = [s \in SUBSET (1 .. m) |->
                  IF s = {} THEN base ELSE h[<<Max(s), iter[s \ {Max(s)}]>>]]
    BY ONLY <2>2 DEF Folds
  <2>5. Fold(iter)
    BY ONLY <2>3, <2>4
  <2> HIDE DEF Fold
  <2> QED BY ONLY <2>1, <2>5
<1>7. Fold(run)
  <2> HIDE DEF Fold
  <2> QED BY <1>6, Zenon
<1> HIDE DEF run
<1>8. FoldsTo(run, W, m, base, h)
  BY ONLY <1>4, <1>5, <1>7 DEF FoldsTo
<1>9. PICK g \in [0 .. m -> W] : /\ g[0] = base /\ g[m] = run[1 .. m]
                                 /\ \A k \in 1 .. m : g[k] = h[<<k, g[k - 1]>>]
  BY ONLY <1>3, <1>6, <1>8, FoldTrail
<1>10. ASSUME NEW k \in 1 .. m PROVE g[k] = RemoveToken(g[k - 1], tokens[k])
  <2>1. k - 1 \in 0 .. m
    OBVIOUS
  <2>2. g[k - 1] \in W
    BY <1>9, <2>1
  <2> QED BY <1>5, <1>9, <2>2
<1> QED BY <1>1, <1>9, <1>10 DEF base, W

(* The walk of fs_move, which keeps the directory it read last. *)
LEMMA MoveTrail ==
  ASSUME NEW N, Leads(N), NEW m \in Nat, NEW tokens, DOMAIN tokens = 1 .. m,
         \A n \in N : inode[n].vacantFile \subseteq Slot,
         NEW D, EmptyBuffer \in D, \A n \in N : block[inode[n].directPointer] \in D
  PROVE  \E g \in [0 .. m -> Mover(N, D)] :
           /\ g[0] = [num |-> root, depth |-> 0, directory |-> EmptyBuffer]
           /\ g[m] = WalkToDirectory(tokens)
           /\ \A k \in 1 .. m : g[k] = MoveToken(g[k - 1], tokens[k])
<1> DEFINE base == [num |-> root, depth |-> 0, directory |-> EmptyBuffer]
           W == Mover(N, D)
<1> DEFINE h == [kw \in (1 .. m) \X W |-> MoveToken(kw[2], tokens[kw[1]])]
           Fold(iter) == iter = [s \in SUBSET (1 .. m) |->
             IF s = {} THEN base
             ELSE MoveToken(iter[s \ {Max(s)}], tokens[Max(s)])]
           run == CHOOSE iter : Fold(iter)
<1>1. WalkToDirectory(tokens) = run[1 .. m]
  BY DEF WalkToDirectory, FoldLeft, MapThenFoldSet
<1>2. ASSUME NEW w \in W, NEW token PROVE MoveToken(w, token) \in W
  <2> DEFINE hits == Hits(w.num, token, inode[w.num].vacantFile)
  <2>1. hits \in SUBSET Slot /\ w.num \in N
    BY DEF Hits, Walker, Mover
  <2> HIDE DEF hits
  <2>2. Follow(w, hits) \in W
    <3>1. \/ Follow(w, hits) = w
          \/ \E q \in N, c \in Nat :
               Follow(w, hits) = At(w, q, w.depth + c)
      BY ONLY <2>1, Leads(N), FollowStays
    <3>2. ASSUME NEW q \in N, NEW c \in Nat PROVE At(w, q, w.depth + c) \in W
      <4>1. w.depth + c \in Nat
        BY DEF Walker, Mover
      <4> QED BY <4>1, AtType
    <3> HIDE DEF W
    <3> QED BY <3>1, <3>2
  <2>3. RemoveToken(w, token) \in W
    BY <2>2 DEF RemoveToken, hits
  <2> QED BY <2>1, <2>3 DEF MoveToken, Mover
<1>3. Closed(W, m, base, h)
  <2>1. base \in W
    BY DEF Leads, Walker, Mover
  <2> QED BY <1>2, <2>1 DEF Closed
<1>4. \A s \in SUBSET (1 .. m) : s # {} => Max(s) \in 1 .. m
  <2>1. \A s \in SUBSET (1 .. m) : s \in SUBSET (0 .. m)
    OBVIOUS
  <2> QED BY <2>1, MaxUpTo
<1>5. \A k \in 1 .. m, w \in W : h[<<k, w>>] = MoveToken(w, tokens[k])
  OBVIOUS
<1> HIDE DEF base, W, h
<1>6. m \in Nat /\ \E iter : Fold(iter)
  <2>1. m \in Nat
    OBVIOUS
  <2>2. PICK iter : /\ Folds(iter, m, base, h)
                    /\ \A s \in SUBSET (1 .. m) : iter[s] \in W
    BY ONLY <2>1, <1>3, FoldSolvable
  <2>3. \A s \in SUBSET (1 .. m) : s # {} =>
          h[<<Max(s), iter[s \ {Max(s)}]>>] = MoveToken(iter[s \ {Max(s)}], tokens[Max(s)])
    BY <1>4, <1>5, <2>2
  <2>4. iter = [s \in SUBSET (1 .. m) |->
                  IF s = {} THEN base ELSE h[<<Max(s), iter[s \ {Max(s)}]>>]]
    BY ONLY <2>2 DEF Folds
  <2>5. Fold(iter)
    BY ONLY <2>3, <2>4
  <2> HIDE DEF Fold
  <2> QED BY ONLY <2>1, <2>5
<1>7. Fold(run)
  <2> HIDE DEF Fold
  <2> QED BY <1>6, Zenon
<1> HIDE DEF run
<1>8. FoldsTo(run, W, m, base, h)
  BY ONLY <1>4, <1>5, <1>7 DEF FoldsTo
<1>9. PICK g \in [0 .. m -> W] : /\ g[0] = base /\ g[m] = run[1 .. m]
                                 /\ \A k \in 1 .. m : g[k] = h[<<k, g[k - 1]>>]
  BY ONLY <1>3, <1>6, <1>8, FoldTrail
<1>10. ASSUME NEW k \in 1 .. m PROVE g[k] = MoveToken(g[k - 1], tokens[k])
  <2>1. k - 1 \in 0 .. m
    OBVIOUS
  <2>2. g[k - 1] \in W
    BY <1>9, <2>1
  <2> QED BY <1>5, <1>9, <2>2
<1> QED BY <1>1, <1>9, <1>10 DEF base, W

(* The names of a path, followed one by one. *)
ChildrenOf(S, name) == UNION {Children(n, name) : n \in S}

IsTrail(g, len, path) ==
  /\ g \in [0 .. len -> SUBSET Inode]
  /\ g[0] = {root} /\ g[len] = Resolve(path)
  /\ \A k \in 1 .. len : g[k] = ChildrenOf(g[k - 1], path[k])

LEMMA ResolveTrail ==
  ASSUME NEW N, Leads(N), NEW m, m \in Nat, NEW tokens, DOMAIN tokens = 1 .. m,
         \A n \in N : inode[n].vacantFile \subseteq Slot
  PROVE  \E g \in [0 .. m -> SUBSET N] : IsTrail(g, m, tokens)
<1> DEFINE base == {root}
           W == SUBSET N
<1> DEFINE h == [kw \in (1 .. m) \X W |-> ChildrenOf(kw[2], tokens[kw[1]])]
           Fold(iter) == iter = [s \in SUBSET (1 .. m) |->
             IF s = {} THEN base
             ELSE ChildrenOf(iter[s \ {Max(s)}], tokens[Max(s)])]
           run == CHOOSE iter : Fold(iter)
<1>1. Resolve(tokens) = run[1 .. m]
  BY DEF Resolve, ChildrenOf, FoldLeft, MapThenFoldSet
<1>2. ASSUME NEW w \in W, NEW token PROVE ChildrenOf(w, token) \in W
  BY DEF ChildrenOf, Leads, Children, Entries
<1>3. Closed(W, m, base, h)
  <2>1. base \in W
    BY DEF Leads, Walker, Mover
  <2> QED BY <1>2, <2>1 DEF Closed
<1>4. \A s \in SUBSET (1 .. m) : s # {} => Max(s) \in 1 .. m
  <2>1. \A s \in SUBSET (1 .. m) : s \in SUBSET (0 .. m)
    OBVIOUS
  <2> QED BY <2>1, MaxUpTo
<1>5. \A k \in 1 .. m, w \in W : h[<<k, w>>] = ChildrenOf(w, tokens[k])
  OBVIOUS
<1> HIDE DEF base, W, h
<1>6. m \in Nat /\ \E iter : Fold(iter)
  <2>1. m \in Nat
    OBVIOUS
  <2>2. PICK iter : /\ Folds(iter, m, base, h)
                    /\ \A s \in SUBSET (1 .. m) : iter[s] \in W
    BY ONLY <2>1, <1>3, FoldSolvable
  <2>3. \A s \in SUBSET (1 .. m) : s # {} =>
          h[<<Max(s), iter[s \ {Max(s)}]>>] = ChildrenOf(iter[s \ {Max(s)}], tokens[Max(s)])
    BY <1>4, <1>5, <2>2
  <2>4. iter = [s \in SUBSET (1 .. m) |->
                  IF s = {} THEN base ELSE h[<<Max(s), iter[s \ {Max(s)}]>>]]
    BY ONLY <2>2 DEF Folds
  <2>5. Fold(iter)
    BY ONLY <2>3, <2>4
  <2> HIDE DEF Fold
  <2> QED BY ONLY <2>1, <2>5
<1>7. Fold(run)
  <2> HIDE DEF Fold
  <2> QED BY <1>6, Zenon
<1> HIDE DEF run
<1>8. FoldsTo(run, W, m, base, h)
  BY ONLY <1>4, <1>5, <1>7 DEF FoldsTo
<1>9. PICK g \in [0 .. m -> W] : /\ g[0] = base /\ g[m] = run[1 .. m]
                                 /\ \A k \in 1 .. m : g[k] = h[<<k, g[k - 1]>>]
  BY ONLY <1>3, <1>6, <1>8, FoldTrail
<1>10. ASSUME NEW k \in 1 .. m PROVE g[k] = ChildrenOf(g[k - 1], tokens[k])
  <2>1. k - 1 \in 0 .. m
    OBVIOUS
  <2>2. g[k - 1] \in W
    BY <1>9, <2>1
  <2> QED BY <1>5, <1>9, <2>2
<1>11. N \subseteq Inode
  BY DEF Leads
<1> QED BY <1>1, <1>9, <1>10, <1>11 DEF base, W, IsTrail

(* One turn of the walk of fs_create: the loop over the entries. *)
LookAll(w, token) == FoldLeft(LAMBDA v, s : Look(v, s, token), w, Slots)
ParentTurn(w, token) == IF inode[w.num].fileType = "d" THEN LookAll(w, token) ELSE w

LEMMA LookTrail ==
  ASSUME NEW N, Leads(N), NEW D, \A n \in N : block[inode[n].directPointer] \in D,
         NEW w0 \in Mover(N, D), NEW token,
         NEW m \in Nat, m = folder_number_entries, DOMAIN Slots = 1 .. m
  PROVE  \E g \in [0 .. m -> Mover(N, D)] :
           /\ g[0] = w0
           /\ g[m] = LookAll(w0, token)
           /\ \A k \in 1 .. m : g[k] = Look(g[k - 1], Slots[k], token)
<1> DEFINE base == w0
           W == Mover(N, D)
<1> DEFINE h == [kw \in (1 .. m) \X W |-> Look(kw[2], Slots[kw[1]], token)]
           Fold(iter) == iter = [s \in SUBSET (1 .. m) |->
             IF s = {} THEN base
             ELSE Look(iter[s \ {Max(s)}], Slots[Max(s)], token)]
           run == CHOOSE iter : Fold(iter)
<1>1. LookAll(w0, token) = run[1 .. m]
  BY DEF LookAll, FoldLeft, MapThenFoldSet
<1>2. ASSUME NEW w \in W, NEW k \in 1 .. m PROVE Look(w, Slots[k], token) \in W
  <2> DEFINE directory == block[inode[w.num].directPointer]
  <2>1. w.num \in N /\ w.depth + 1 \in Nat /\ directory \in D
    BY DEF Mover
  <2>2. directory[Slots[k]].inodeNumber \in N
    <3>1. Slots[k] \in Slot
      BY SlotsAreNumbers DEF Slots, Slot
    <3> QED BY <2>1, <3>1 DEF Leads, InSlot
  <2> HIDE DEF directory
  <2>3. /\ [num |-> directory[Slots[k]].inodeNumber, depth |-> w.depth + 1,
            directory |-> directory] \in W
        /\ [w EXCEPT !.directory = directory] \in W
    BY <2>1, <2>2 DEF Mover
  <2> QED BY <2>3 DEF Look, directory
<1>3. Closed(W, m, base, h)
  <2>1. base \in W
    OBVIOUS
  <2> QED BY <1>2, <2>1 DEF Closed
<1>4. \A s \in SUBSET (1 .. m) : s # {} => Max(s) \in 1 .. m
  <2>1. \A s \in SUBSET (1 .. m) : s \in SUBSET (0 .. m)
    OBVIOUS
  <2> QED BY <2>1, MaxUpTo
<1>5. \A k \in 1 .. m, w \in W : h[<<k, w>>] = Look(w, Slots[k], token)
  OBVIOUS
<1> HIDE DEF base, W, h
<1>6. m \in Nat /\ \E iter : Fold(iter)
  <2>1. m \in Nat
    OBVIOUS
  <2>2. PICK iter : /\ Folds(iter, m, base, h)
                    /\ \A s \in SUBSET (1 .. m) : iter[s] \in W
    BY ONLY <2>1, <1>3, FoldSolvable
  <2>3. \A s \in SUBSET (1 .. m) : s # {} =>
          h[<<Max(s), iter[s \ {Max(s)}]>>] = Look(iter[s \ {Max(s)}], Slots[Max(s)], token)
    BY <1>4, <1>5, <2>2
  <2>4. iter = [s \in SUBSET (1 .. m) |->
                  IF s = {} THEN base ELSE h[<<Max(s), iter[s \ {Max(s)}]>>]]
    BY ONLY <2>2 DEF Folds
  <2>5. Fold(iter)
    BY ONLY <2>3, <2>4
  <2> HIDE DEF Fold
  <2> QED BY ONLY <2>1, <2>5
<1>7. Fold(run)
  <2> HIDE DEF Fold
  <2> QED BY <1>6, Zenon
<1> HIDE DEF run
<1>8. FoldsTo(run, W, m, base, h)
  BY ONLY <1>4, <1>5, <1>7 DEF FoldsTo
<1>9. PICK g \in [0 .. m -> W] : /\ g[0] = base /\ g[m] = run[1 .. m]
                                 /\ \A k \in 1 .. m : g[k] = h[<<k, g[k - 1]>>]
  BY ONLY <1>3, <1>6, <1>8, FoldTrail
<1>10. ASSUME NEW k \in 1 .. m PROVE g[k] = Look(g[k - 1], Slots[k], token)
  <2>1. k - 1 \in 0 .. m
    OBVIOUS
  <2>2. g[k - 1] \in W
    BY <1>9, <2>1
  <2> QED BY <1>5, <1>9, <2>2
<1> QED BY <1>1, <1>9, <1>10 DEF base, W

(* The walk of fs_create. *)
IsParentTrail(g, m, tokens) ==
  /\ g[0] = [num |-> root, depth |-> 0, directory |-> block[inode[root].directPointer]]
  /\ g[m] = WalkToParent(tokens)
  /\ \A k \in 1 .. m : g[k] = ParentTurn(g[k - 1], tokens[k])

LEMMA ParentTrail ==
  ASSUME NEW N, Leads(N), NEW D, \A n \in N : block[inode[n].directPointer] \in D,
         NEW m \in Nat, NEW tokens, DOMAIN tokens = 1 .. m
  PROVE  \E g \in [0 .. m -> Mover(N, D)] : IsParentTrail(g, m, tokens)
<1> DEFINE base == [num |-> root, depth |-> 0, directory |-> block[inode[root].directPointer]]
           W == Mover(N, D)
<1> DEFINE h == [kw \in (1 .. m) \X W |-> ParentTurn(kw[2], tokens[kw[1]])]
           Fold(iter) == iter = [s \in SUBSET (1 .. m) |->
             IF s = {} THEN base
             ELSE ParentTurn(iter[s \ {Max(s)}], tokens[Max(s)])]
           run == CHOOSE iter : Fold(iter)
<1>1. WalkToParent(tokens) = run[1 .. m]
  BY DEF WalkToParent, ParentTurn, LookAll, FoldLeft, MapThenFoldSet
<1>2. ASSUME NEW w \in W, NEW token PROVE ParentTurn(w, token) \in W
  <2>1. folder_number_entries \in Nat /\ w \in Mover(N, D)
        /\ DOMAIN Slots = 1 .. folder_number_entries
    BY SlotsAreNumbers DEF Slots
  <2>3. Leads(N) /\ \A n \in N : block[inode[n].directPointer] \in D
    OBVIOUS
  <2>2. LookAll(w, token) \in Mover(N, D)
    <3>1. PICK g \in [0 .. folder_number_entries -> Mover(N, D)] :
            g[folder_number_entries] = LookAll(w, token)
      BY ONLY <2>1, <2>3, LookTrail
    <3>2. folder_number_entries \in 0 .. folder_number_entries
      BY <2>1
    <3> QED BY <3>1, <3>2
  <2> QED BY <2>1, <2>2 DEF ParentTurn
<1>3. Closed(W, m, base, h)
  <2>1. base \in W
    BY DEF Leads, Mover
  <2> QED BY <1>2, <2>1 DEF Closed
<1>4. \A s \in SUBSET (1 .. m) : s # {} => Max(s) \in 1 .. m
  <2>1. \A s \in SUBSET (1 .. m) : s \in SUBSET (0 .. m)
    OBVIOUS
  <2> QED BY <2>1, MaxUpTo
<1>5. \A k \in 1 .. m, w \in W : h[<<k, w>>] = ParentTurn(w, tokens[k])
  OBVIOUS
<1> HIDE DEF base, W, h
<1>6. m \in Nat /\ \E iter : Fold(iter)
  <2>1. m \in Nat
    OBVIOUS
  <2>2. PICK iter : /\ Folds(iter, m, base, h)
                    /\ \A s \in SUBSET (1 .. m) : iter[s] \in W
    BY ONLY <2>1, <1>3, FoldSolvable
  <2>3. \A s \in SUBSET (1 .. m) : s # {} =>
          h[<<Max(s), iter[s \ {Max(s)}]>>] = ParentTurn(iter[s \ {Max(s)}], tokens[Max(s)])
    BY <1>4, <1>5, <2>2
  <2>4. iter = [s \in SUBSET (1 .. m) |->
                  IF s = {} THEN base ELSE h[<<Max(s), iter[s \ {Max(s)}]>>]]
    BY ONLY <2>2 DEF Folds
  <2>5. Fold(iter)
    BY ONLY <2>3, <2>4
  <2> HIDE DEF Fold
  <2> QED BY ONLY <2>1, <2>5
<1>7. Fold(run)
  <2> HIDE DEF Fold
  <2> QED BY <1>6, Zenon
<1> HIDE DEF run
<1>8. FoldsTo(run, W, m, base, h)
  BY ONLY <1>4, <1>5, <1>7 DEF FoldsTo
<1>9. PICK g \in [0 .. m -> W] : /\ g[0] = base /\ g[m] = run[1 .. m]
                                 /\ \A k \in 1 .. m : g[k] = h[<<k, g[k - 1]>>]
  BY ONLY <1>3, <1>6, <1>8, FoldTrail
<1>10. ASSUME NEW k \in 1 .. m PROVE g[k] = ParentTurn(g[k - 1], tokens[k])
  <2>1. k - 1 \in 0 .. m
    OBVIOUS
  <2>2. g[k - 1] \in W
    BY <1>9, <2>1
  <2> QED BY <1>5, <1>9, <2>2
<1> QED BY <1>1, <1>9, <1>10 DEF base, W, IsParentTrail

-----------------------------------------------------------------------------
(* Types.  What a walk reads are directories, and every entry in one names *)
(* an inode, so that a walk always stands at an inode.                     *)
Directory == [Slot -> Entry]

LEMMA WalksStayInTable ==
  ASSUME TypeOK
  PROVE  /\ Leads(Inode)
         /\ \A n \in Inode : /\ inode[n].vacantFile \subseteq Slot
                             /\ block[inode[n].directPointer] \in Directory
         /\ EmptyBuffer \in Directory
<1>1. root \in Inode
  BY FileSystemConstants DEF root, Inode
<1>2. \A n \in Inode : /\ inode[n].vacantFile \subseteq Slot
                       /\ block[inode[n].directPointer] \in Directory
  BY DEF TypeOK, Directory, BitmapBlock
<1>3. \A n \in Inode, s \in Slot : InSlot(n, s).inodeNumber \in Inode
  BY <1>2 DEF InSlot, Directory, Entry
<1>4. EmptyBuffer \in Directory
  <2>1. 0 \in Inode /\ NoName \subseteq Inode \cup UNION Names
    BY <1>1 DEF root, NoName
  <2> QED BY <2>1 DEF EmptyBuffer, Directory, Entry
<1> QED BY <1>1, <1>2, <1>3, <1>4 DEF Leads

(* The parts of a path. *)
LEMMA PathParts ==
  ASSUME NEW path \in Paths \cup NamedPaths
  PROVE  /\ Len(path) \in Nat \ {0} /\ DOMAIN path = 1 .. Len(path)
         /\ DOMAIN Front(path) = 1 .. Len(path) - 1
         /\ \A i \in 1 .. Len(path) - 1 : Front(path)[i] = path[i]
         /\ Last(path) \in Names \cup {NoName}
         /\ path \in NamedPaths => \A i \in 1 .. Len(path) : path[i] \in Names
<1>1. PICK k \in Nat \ {0} : /\ path \in [1 .. k -> Names \cup {NoName}]
                             /\ path \in NamedPaths => path \in [1 .. k -> Names]
  <2>1. CASE path \in NamedPaths
    <3>1. PICK k \in 1 .. MaxDepth : path \in [1 .. k -> Names]
      BY <2>1 DEF NamedPaths
    <3>2. k \in Nat \ {0} /\ path \in [1 .. k -> Names \cup {NoName}]
      BY <3>1, FileSystemConstants
    <3> QED BY <3>1, <3>2
  <2>2. CASE path = <<NoName>> /\ path \notin NamedPaths
    <3>1. path \in [1 .. 1 -> Names \cup {NoName}]
      BY <2>2
    <3> QED BY <3>1, <2>2
  <2>3. ASSUME NEW name \in Names, path = <<name, NoName>>, path \notin NamedPaths
        PROVE  \E k \in Nat \ {0} : /\ path \in [1 .. k -> Names \cup {NoName}]
                                    /\ path \in NamedPaths => path \in [1 .. k -> Names]
    <3>1. path \in [1 .. 2 -> Names \cup {NoName}]
      BY <2>3
    <3> QED BY <3>1, <2>3
  <2> QED BY <2>1, <2>2, <2>3 DEF Paths
<1>2. path \in Seq(Names \cup {NoName}) /\ Len(path) = k /\ DOMAIN path = 1 .. k
  BY <1>1
<1>3. /\ DOMAIN Front(path) = 1 .. k - 1
      /\ \A i \in 1 .. k - 1 : Front(path)[i] = path[i]
  BY <1>1, <1>2 DEF Front
<1>4. Last(path) \in Names \cup {NoName}
  BY <1>1, <1>2 DEF Last
<1> QED BY <1>1, <1>2, <1>3, <1>4

(* The walk of fs_create to a parent. *)
LEMMA ParentType ==
  ASSUME TypeOK, NEW path \in Paths \cup NamedPaths
  PROVE  WalkToParent(Front(path)) \in Mover(Inode, Directory)
<1> DEFINE m == Len(path) - 1
<1>1. m \in Nat /\ DOMAIN Front(path) = 1 .. m
  BY PathParts
<1>2. Leads(Inode) /\ \A n \in Inode : block[inode[n].directPointer] \in Directory
  BY WalksStayInTable
<1> HIDE DEF m
<1>3. PICK g \in [0 .. m -> Mover(Inode, Directory)] : IsParentTrail(g, m, Front(path))
  BY ONLY <1>1, <1>2, ParentTrail
<1> QED BY <1>1, <1>3 DEF IsParentTrail

(* The walk of fs_open. *)
LEMMA OpenType ==
  ASSUME TypeOK, NEW path \in Paths \cup NamedPaths
  PROVE  WalkToFile(path) \in Walker(Inode)
<1> DEFINE m == Len(path)
<1>1. m \in Nat /\ DOMAIN path = 1 .. m
  BY PathParts
<1>2. Leads(Inode)
  BY WalksStayInTable
<1> HIDE DEF m
<1>3. PICK g \in [0 .. m -> Walker(Inode)] : g[m] = WalkToFile(path)
  BY ONLY <1>1, <1>2, OpenTrail
<1> QED BY <1>1, <1>3

(* The walk of fs_remove. *)
LEMMA RemoveType ==
  ASSUME TypeOK, NEW path \in Paths \cup NamedPaths
  PROVE  WalkToRemoved(Front(path)) \in Walker(Inode)
<1> DEFINE m == Len(path) - 1
<1>1. m \in Nat /\ DOMAIN Front(path) = 1 .. m
  BY PathParts
<1>2. Leads(Inode) /\ \A n \in Inode : inode[n].vacantFile \subseteq Slot
  BY WalksStayInTable
<1> HIDE DEF m
<1>3. PICK g \in [0 .. m -> Walker(Inode)] :
        g[m] = WalkToRemoved(Front(path))
  BY ONLY <1>1, <1>2, RemoveTrail
<1> QED BY <1>1, <1>3

(* The walks of fs_move. *)
LEMMA MoveType ==
  ASSUME TypeOK, NEW path \in Paths \cup NamedPaths
  PROVE  WalkToDirectory(Front(path)) \in Mover(Inode, Directory)
<1> DEFINE m == Len(path) - 1
<1>1. m \in Nat /\ DOMAIN Front(path) = 1 .. m
  BY PathParts
<1>2. Leads(Inode) /\ EmptyBuffer \in Directory
  BY WalksStayInTable
<1>4. \A n \in Inode : inode[n].vacantFile \subseteq Slot
  BY WalksStayInTable
<1>5. \A n \in Inode : block[inode[n].directPointer] \in Directory
  BY WalksStayInTable
<1> HIDE DEF m
<1>3. PICK g \in [0 .. m -> Mover(Inode, Directory)] : g[m] = WalkToDirectory(Front(path))
  BY ONLY <1>1, <1>2, <1>4, <1>5, MoveTrail
<1> QED BY <1>1, <1>3

LEMMA EntryType ==
  ASSUME NEW name \in Names \cup {NoName}, NEW n \in Inode
  PROVE  [filename |-> name, inodeNumber |-> n] \in Entry
BY DEF Entry, NoName

(* Storing a directory in a block, and an entry in a directory. *)
LEMMA StoredType ==
  ASSUME TypeOK, NEW b \in [{BitmapBlock} \cup DataBlock -> Directory],
         NEW p \in {0} \cup DataBlock, NEW d \in Directory, NEW s, NEW e \in Entry
  PROVE  /\ [d EXCEPT ![s] = e] \in Directory
         /\ [b EXCEPT ![p] = d] \in [{BitmapBlock} \cup DataBlock -> Directory]
BY DEF Directory

LEMMA InitType == fs_format => TypeOK
<1> SUFFICES ASSUME fs_format PROVE TypeOK
  OBVIOUS
<1>1. root \in Inode /\ 0 \in Inode
  BY FileSystemConstants DEF root, Inode
<1>2. block \in [{BitmapBlock} \cup DataBlock -> [Slot -> Entry]]
  <2>1. \A b \in {BitmapBlock} \cup DataBlock, s \in Slot :
          [filename |-> IF b = BitmapBlock /\ s = 0 THEN {root} ELSE NoName,
           inodeNumber |-> 0] \in Entry
    BY <1>1 DEF Entry, NoName
  <2> QED BY <2>1 DEF fs_format
<1>3. inode \in [Inode -> [fileType : {"-", "r", "d"}, vacantFile : SUBSET Slot,
                           directPointer : {0} \cup DataBlock]]
  BY InitInv DEF Inv, InodeTable
<1> QED BY <1>1, <1>2, <1>3 DEF fs_format, TypeOK

LEMMA CreateType ==
  ASSUME TypeOK, InodeTable', NEW path \in NamedPaths, NEW type \in {"r", "d"},
         fs_create(path, type)
  PROVE  TypeOK'
<1> DEFINE w          == WalkToParent(Front(path))
           parent     == inode[w.num]
           first_zero == Ffz(parent.vacantFile, 0 .. folder_number_entries)
           new_block  == Ffz(used, DataBlock)
           pointer    == PointerTo(parent, first_zero, new_block)
           id         == Ffz(inode_bitmap, Inode)
           entry      == [filename |-> Last(path), inodeNumber |-> id]
           stored     == [w.directory EXCEPT ![first_zero] = entry]
           astray1    == astray \/ ~ WalkIsRight(w, Front(path))
<1>1. /\ first_zero = 0 => DataBlock \ used # {}
      /\ used' = UsedWith(first_zero, new_block)
      /\ \/ UNCHANGED block /\ asked' \subseteq asked
         \/ /\ ~ (Inode \subseteq inode_bitmap)
            /\ block' = [MarkInode(block, id) EXCEPT ![pointer] = stored]
            /\ asked' = IF overwritten THEN asked ELSE asked \cup {<<path, id>>}
      /\ astray' = astray1
      /\ UNCHANGED <<mounted, fd_used, fd, held, overwritten, moved>>
  BY DEF fs_create, descriptors
<1>2. w \in Mover(Inode, Directory)
  BY ParentType
<1>3. astray1 \in BOOLEAN
  OBVIOUS
<1> HIDE DEF w, astray1
<1>4. w.num \in Inode /\ w.directory \in Directory /\ parent.directPointer \in {0} \cup DataBlock
  BY <1>2 DEF Mover, TypeOK
<1>5. DataBlock \subseteq Nat /\ Inode \subseteq Nat
  BY FileSystemConstants DEF DataBlock, Inode
<1>6. first_zero = 0 => new_block \in DataBlock
  BY <1>1, <1>5, FfzIsFree
<1> HIDE DEF first_zero, new_block, id
<1>7. pointer \in {0} \cup DataBlock
  BY <1>4, <1>6 DEF PointerTo
<1>8. used' \subseteq {BitmapBlock} \cup InodeBlocks \cup DataBlock
  BY <1>1, <1>6 DEF UsedWith, TypeOK
<1>9. ASSUME ~ (Inode \subseteq inode_bitmap)
      PROVE  id \in Inode /\ stored \in Directory
             /\ [MarkInode(block, id) EXCEPT ![pointer] = stored]
                  \in [{BitmapBlock} \cup DataBlock -> Directory]
  <2>1. id \in Inode
    BY <1>5, <1>9, FfzIsFree DEF id
  <2>2. Last(path) \in Names \cup {NoName}
    BY PathParts
  <2>3. entry \in Entry
    BY <2>1, <2>2, EntryType
  <2> HIDE DEF entry
  <2>4. block \in [{BitmapBlock} \cup DataBlock -> Directory]
    BY DEF TypeOK, Directory
  <2>5. MarkInode(block, id) \in [{BitmapBlock} \cup DataBlock -> Directory]
    <3>1. [block[BitmapBlock] EXCEPT ![0].filename = @ \cup {id}] \in Directory
      <4>1. block[BitmapBlock] \in [Slot -> Entry]
        BY <2>4 DEF Directory
      <4>2. \A e \in Entry : [e EXCEPT !.filename = @ \cup {id}] \in Entry
        BY <2>1 DEF Entry
      <4> QED BY <4>1, <4>2 DEF Directory
    <3> QED BY <2>4, <3>1 DEF MarkInode
  <2>6. stored \in Directory
    BY <1>4, <2>3, <2>4, <1>7, StoredType
  <2> HIDE DEF stored, pointer
  <2> QED BY <2>1, <2>5, <2>6, <2>3, <1>7, StoredType
<1> HIDE DEF stored, pointer
<1>10. block' \in [{BitmapBlock} \cup DataBlock -> [Slot -> Entry]]
  BY <1>1, <1>9 DEF TypeOK, Directory
<1>11. asked' \subseteq (NamedPaths \X Inode)
  BY <1>1, <1>9 DEF TypeOK
<1> QED BY <1>1, <1>3, <1>8, <1>10, <1>11 DEF TypeOK, InodeTable

LEMMA OpenTypeOK ==
  ASSUME TypeOK, NEW path \in Paths, fs_open(path)
  PROVE  TypeOK'
<1> DEFINE w   == WalkToFile(path)
           new == Ffz(fd_used, Fd)
<1>1. /\ Fd \ fd_used # {}
      /\ fd_used' = fd_used \cup {new}
      /\ \/ fd' = [fd EXCEPT ![new] = w.num] /\ held' = held \cup {new}
         \/ UNCHANGED <<fd, held>>
      /\ UNCHANGED <<mounted, used, block, inode, asked, astray, overwritten, moved>>
  BY DEF fs_open, store
<1>2. w.num \in Inode
  BY OpenType DEF Walker
<1>3. new \in Fd
  <2>1. Fd \in SUBSET Nat
    BY DEF Fd
  <2> QED BY <1>1, <2>1, FfzIsFree
<1> HIDE DEF w, new
<1> QED BY <1>1, <1>2, <1>3 DEF TypeOK

LEMMA RemoveTypeOK ==
  ASSUME TypeOK, InodeTable', NEW path \in Paths, fs_remove(path)
  PROVE  TypeOK'
<1> DEFINE w       == WalkToRemoved(Front(path))
           parent  == inode[w.num]
           curr    == Min(Hits(w.num, Last(path), parent.vacantFile))
           cleared == [block[parent.directPointer] EXCEPT ![curr].filename = NoName]
<1>1. /\ block' = [block EXCEPT ![BitmapBlock] = cleared]
      /\ asked' = {} /\ overwritten' = TRUE
      /\ UNCHANGED <<mounted, used, fd_used, fd, held, astray, moved>>
  BY DEF fs_remove, descriptors, WalkToRemoved
<1>2. w.num \in Inode
  BY RemoveType DEF Walker
<1> HIDE DEF w, curr
<1>3. block[parent.directPointer] \in Directory
  BY <1>2, WalksStayInTable
<1>4. cleared \in Directory
  <2>1. \A e \in Entry : [e EXCEPT !.filename = NoName] \in Entry
    BY DEF Entry, NoName
  <2> HIDE DEF parent
  <2> QED BY <1>3, <2>1 DEF Directory
<1> HIDE DEF cleared
<1>5. block' \in [{BitmapBlock} \cup DataBlock -> [Slot -> Entry]]
  BY <1>1, <1>4 DEF TypeOK, Directory
<1> QED BY <1>1, <1>5 DEF TypeOK, InodeTable

LEMMA MoveTypeOK ==
  ASSUME TypeOK, InodeTable', NEW src \in NamedPaths, NEW dst \in NamedPaths,
         fs_move(src, dst)
  PROVE  TypeOK'
<1> DEFINE from     == WalkToDirectory(Front(src))
           to       == WalkToDirectory(Front(dst))
           parent   == inode[from.num]
           target   == inode[to.num]
           src_num  == Max(Hits(from.num, Last(src), parent.vacantFile))
           unlinked == [block EXCEPT ![parent.directPointer][src_num].filename = NoName]
           temp_ffz == Ffz(target.vacantFile, Slot)
           full     == Slot \subseteq target.vacantFile
           put(n)   == [BufferOf(to) EXCEPT ![temp_ffz] =
                          [filename |-> Last(dst), inodeNumber |-> n]]
           over     == overwritten \/ (~ full /\ target.directPointer = BitmapBlock)
<1>1. /\ \/ block' = unlinked /\ mounted' = FALSE
            /\ fd_used' = {} /\ held' = {} /\ fd' = [f \in Fd |-> 0]
         \/ /\ \E n \in Inode : block' = [unlinked EXCEPT ![target.directPointer] = put(n)]
            /\ UNCHANGED <<mounted, fd_used, fd, held>>
      /\ overwritten' = over /\ moved' = TRUE
      /\ asked' \subseteq asked
      /\ UNCHANGED <<used, astray>>
  BY DEF fs_move, descriptors
<1>2. from \in Mover(Inode, Directory) /\ to \in Mover(Inode, Directory)
  BY MoveType
<1>3. over \in BOOLEAN
  OBVIOUS
<1> HIDE DEF from, to, src_num, temp_ffz, over
<1>4. /\ from.num \in Inode /\ to.num \in Inode /\ to.directory \in Directory
      /\ parent.directPointer \in {0} \cup DataBlock
      /\ target.directPointer \in {0} \cup DataBlock
      /\ block[target.directPointer] \in Directory
  BY <1>2, WalksStayInTable DEF Mover, TypeOK
<1>5. BufferOf(to) \in Directory
  BY <1>4 DEF BufferOf
<1> HIDE DEF parent, target
<1>6. unlinked \in [{BitmapBlock} \cup DataBlock -> Directory]
  <2>1. \A e \in Entry : [e EXCEPT !.filename = NoName] \in Entry
    BY DEF Entry, NoName
  <2>2. \A d \in [Slot -> Entry] : [d EXCEPT ![src_num].filename = NoName] \in [Slot -> Entry]
    BY <2>1
  <2>3. block \in [{BitmapBlock} \cup DataBlock -> [Slot -> Entry]]
    BY DEF TypeOK
  <2> QED BY <1>4, <2>2, <2>3 DEF Directory, BitmapBlock
<1> HIDE DEF unlinked
<1>7. ASSUME NEW n \in Inode
      PROVE  [unlinked EXCEPT ![target.directPointer] = put(n)]
               \in [{BitmapBlock} \cup DataBlock -> Directory]
  <2>1. [filename |-> Last(dst), inodeNumber |-> n] \in Entry
    <3>1. Last(dst) \in Names \cup {NoName}
      BY PathParts
    <3> QED BY <3>1, EntryType
  <2>2. put(n) \in Directory
    BY <1>5, <2>1 DEF Directory
  <2> HIDE DEF put
  <2> QED BY <1>4, <1>6, <2>1, <2>2, StoredType
<1> HIDE DEF put
<1>8. block' \in [{BitmapBlock} \cup DataBlock -> [Slot -> Entry]]
  BY <1>1, <1>6, <1>7 DEF Directory
<1>9. 0 \in Inode
  BY FileSystemConstants DEF Inode
<1> QED BY <1>1, <1>3, <1>8, <1>9 DEF TypeOK, InodeTable

LEMMA NextType == TypeOK /\ InodeTable' /\ [Next]_vars => TypeOK'
<1> SUFFICES ASSUME TypeOK, InodeTable', [Next]_vars PROVE TypeOK'
  OBVIOUS
<1>1. ASSUME NEW path \in NamedPaths, NEW type \in {"r", "d"}, fs_create(path, type)
      PROVE  TypeOK'
  BY <1>1, CreateType
<1>2. ASSUME NEW path \in Paths, fs_open(path) PROVE TypeOK'
  BY <1>2, OpenTypeOK
<1>3. ASSUME NEW path \in Paths, fs_remove(path) PROVE TypeOK'
  BY <1>3, RemoveTypeOK
<1>4. ASSUME NEW src \in NamedPaths, NEW dst \in NamedPaths, fs_move(src, dst) PROVE TypeOK'
  BY <1>4, MoveTypeOK
<1>5. ASSUME NEW f \in Fd, fs_close(f) PROVE TypeOK'
  BY <1>5 DEF fs_close, store, TypeOK
<1>6. CASE fs_unmount
  <2>1. 0 \in Inode
    BY FileSystemConstants DEF Inode
  <2> QED BY <1>6, <2>1 DEF fs_unmount, store, TypeOK
<1>7. CASE fs_mount
  BY <1>7 DEF fs_mount, store, descriptors, TypeOK
<1>8. CASE UNCHANGED vars
  BY <1>8 DEF vars, TypeOK
<1> QED BY <1>1, <1>2, <1>3, <1>4, <1>5, <1>6, <1>7, <1>8 DEF Next

(* Whatever path a call walks, and however the directories were changed    *)
(* under it, every entry read is an entry and names an inode of the table, *)
(* and no call writes outside of an inode's or a directory's entries.      *)
THEOREM TypeCorrect == Spec => []TypeOK
<1>1. TypeOK /\ Inv' => InodeTable'
  BY DEF Inv
<1> QED BY <1>1, InitType, NextType, Invariance, PTL DEF Spec

-----------------------------------------------------------------------------
(* The tree.  As long as no create went astray and nothing was removed or  *)
(* moved, block 0 is the bitmap of the inodes and otherwise empty, a block *)
(* that is not used is empty, and a directory's entries are the first ones *)
(* of its block: a directory without entries has no block.                 *)
Kinds ==
  /\ root \in inode_bitmap /\ inode_bitmap \subseteq Inode
  /\ inode[root].fileType = "d"
  /\ \A n \in inode_bitmap : inode[n].fileType \in {"r", "d"}

Blank(e) == e.filename = NoName /\ e.inodeNumber = root

EmptyBlocks ==
  /\ block[BitmapBlock][0].inodeNumber = root
  /\ \A s \in Slot \ {0} : Blank(block[BitmapBlock][s])
  /\ \A b \in DataBlock \ used : \A s \in Slot : Blank(block[b][s])

PackedAt(n) ==
  /\ \A s \in inode[n].vacantFile : 0 .. s \subseteq inode[n].vacantFile
  /\ inode[n].directPointer = 0 <=> inode[n].vacantFile = {}
  /\ inode[n].vacantFile # {} => inode[n].fileType = "d"
  /\ inode[n].directPointer # 0 => \A s \in Slot :
       /\ s \notin inode[n].vacantFile => InSlot(n, s).filename = NoName
       /\ InSlot(n, s).filename = NoName => Blank(InSlot(n, s))

Packed == \A n \in Inode : PackedAt(n)

TreeInv ==
  Intact => /\ Kinds /\ EmptyBlocks /\ Packed
            /\ TreeShape /\ InodeMapExact /\ DescriptorsAreFiles

LEMMA InitTree == fs_format => TreeInv
<1> SUFFICES ASSUME fs_format PROVE TreeInv
  OBVIOUS
<1> USE DEF fs_format
<1>1. root \in Inode /\ 0 \in Slot
  BY FileSystemConstants DEF root, Inode, Slot
<1>2. inode_bitmap = {root}
  BY <1>1 DEF inode_bitmap
<1>3. Kinds
  BY <1>1, <1>2 DEF Kinds, NewInode
<1>4. EmptyBlocks
  BY <1>1 DEF EmptyBlocks, Blank, root, BitmapBlock
<1>5. Packed
  BY DEF Packed, PackedAt, NewInode
<1>6. \A n \in Inode : Entries(n) = {}
  BY DEF Entries, NewInode
<1>7. Directories \subseteq Inode /\ Named = {}
  BY <1>6 DEF Named, Directories
<1>8. TreeShape /\ InodeMapExact
  BY <1>2, <1>6, <1>7 DEF TreeShape, InodeMapExact
<1>9. DescriptorsAreFiles
  BY DEF DescriptorsAreFiles
<1> QED BY <1>3, <1>4, <1>5, <1>8, <1>9 DEF TreeInv

(* No entry leads out of the inodes in use, so no walk does.               *)
LEMMA WalksStayInUse ==
  ASSUME TypeOK, TreeInv, Intact
  PROVE  Leads(inode_bitmap)
<1>1. Kinds /\ EmptyBlocks /\ Packed /\ InodeMapExact
  BY DEF TreeInv
<1>2. ASSUME NEW n \in inode_bitmap, NEW s \in Slot
      PROVE  InSlot(n, s).inodeNumber \in inode_bitmap
  <2>1. n \in Inode /\ root \in inode_bitmap
    BY <1>1 DEF Kinds
  <2>2. CASE inode[n].directPointer = 0
    <3>1. InSlot(n, s).inodeNumber = root
      BY <1>1, <2>2 DEF InSlot, EmptyBlocks, Blank, BitmapBlock
    <3> QED BY <2>1, <3>1
  <2>3. CASE inode[n].directPointer # 0 /\ InSlot(n, s).filename = NoName
    <3>1. InSlot(n, s).inodeNumber = root
      BY <1>1, <2>1, <2>3 DEF Packed, PackedAt, Blank
    <3> QED BY <2>1, <3>1
  <2>4. CASE inode[n].directPointer # 0 /\ InSlot(n, s).filename # NoName
    <3>1. s \in inode[n].vacantFile /\ inode[n].fileType = "d"
      BY <1>1, <2>1, <2>4 DEF Packed, PackedAt
    <3>2. s \in Entries(n) /\ n \in Directories
      BY <2>1, <2>4, <3>1 DEF Entries, InSlot, Directories
    <3> QED BY <1>1, <3>2 DEF Named, InodeMapExact
  <2> QED BY <2>2, <2>3, <2>4
<1> QED BY <1>1, <1>2 DEF Leads, Kinds

LEMMA TrailInUse ==
  ASSUME TypeOK, TreeInv, Intact, NEW len, len \in Nat, NEW path, DOMAIN path = 1 .. len
  PROVE  \E g \in [0 .. len -> SUBSET inode_bitmap] : IsTrail(g, len, path)
<1>1. Leads(inode_bitmap)
  BY WalksStayInUse
<1>2. \A n \in inode_bitmap : inode[n].vacantFile \subseteq Slot
  BY WalksStayInTable DEF TreeInv, Kinds
<1> QED BY <1>1, <1>2, ResolveTrail

(* What fs_create does to a directory n0 with the entries 0 .. z - 1, when *)
(* the walk was right: it has one entry more, in a block of its own; when  *)
(* an inode was left, that entry is [name, id], and otherwise it is blank. *)
Added(n0, z, p) ==
  /\ n0 \in inode_bitmap /\ inode[n0].fileType = "d"
  /\ z \in Slot /\ inode[n0].vacantFile = 0 .. z - 1
  /\ p \in DataBlock /\ p # 0
  /\ z = 0 => p \notin used
  /\ z # 0 => p = inode[n0].directPointer
  /\ used \subseteq used' /\ p \in used'
  /\ UNCHANGED fd /\ UNCHANGED held

Filled(n0, z, p) ==
  [inode[n0] EXCEPT !.vacantFile = 0 .. z, !.directPointer = p]

LEMMA CreateAdds ==
  ASSUME TypeOK, BlocksExclusive, TreeInv, Intact',
         NEW path \in NamedPaths, NEW type \in {"r", "d"}, fs_create(path, type)
  PROVE  Intact /\ \E n0, z, p :
    /\ Added(n0, z, p)
    /\ \A s \in 0 .. z - 1 : InSlot(n0, s).filename # Last(path)
    /\ \/ /\ inode' = [inode EXCEPT ![n0] = Filled(n0, z, p)]
          /\ UNCHANGED block
       \/ \E id \in Inode \ inode_bitmap :
            /\ inode' = [inode EXCEPT ![n0] = Filled(n0, z, p), ![id] = NewInode(type)]
            /\ block' = [MarkInode(block, id) EXCEPT
                           ![p] = [block[inode[n0].directPointer] EXCEPT
                                     ![z] = [filename |-> Last(path), inodeNumber |-> id]]]
<1> DEFINE w          == WalkToParent(Front(path))
           n0         == w.num
           parent     == inode[n0]
           z          == Ffz(parent.vacantFile, 0 .. folder_number_entries)
           new_block  == Ffz(used, DataBlock)
           p          == PointerTo(parent, z, new_block)
           filled     == [parent EXCEPT !.vacantFile = @ \cup {z}, !.directPointer = p]
           id         == Ffz(inode_bitmap, Inode)
           entry      == [filename |-> Last(path), inodeNumber |-> id]
<1>1. /\ parent.fileType = "d"
      /\ ~ NameTaken(w.directory, z, Last(path))
      /\ HasRoom(z)
      /\ z = 0 => DataBlock \ used # {}
      /\ used' = UsedWith(z, new_block)
      /\ \/ /\ inode' = [inode EXCEPT ![n0] = filled]
            /\ UNCHANGED block
         \/ /\ ~ (Inode \subseteq inode_bitmap)
            /\ inode' = [inode EXCEPT ![n0] = filled, ![id] = NewInode(type)]
            /\ block' = [MarkInode(block, id) EXCEPT ![p] = [w.directory EXCEPT ![z] = entry]]
      /\ astray' = (astray \/ ~ WalkIsRight(w, Front(path)))
      /\ UNCHANGED <<fd, held, overwritten, moved>>
  BY DEF fs_create, descriptors
<1>2. Intact /\ WalkIsRight(w, Front(path))
  BY <1>1 DEF Intact
<1> HIDE DEF w
<1>3. Kinds /\ EmptyBlocks /\ Packed
  BY <1>2 DEF TreeInv
<1>4. Resolve(Front(path)) = {n0} /\ w.directory = block[parent.directPointer]
  BY <1>2 DEF WalkIsRight
<1>5. n0 \in inode_bitmap
  <2> DEFINE m == Len(path) - 1
  <2>1. m \in Nat /\ DOMAIN Front(path) = 1 .. m
    BY PathParts
  <2> DEFINE q == Front(path)
  <2> HIDE DEF m, q
  <2>3. PICK g \in [0 .. m -> SUBSET inode_bitmap] : IsTrail(g, m, q)
    BY <1>2, <2>1, TrailInUse DEF q
  <2>4. g[m] = Resolve(Front(path))
    BY <2>3 DEF IsTrail, q
  <2>5. g[m] \in SUBSET inode_bitmap
    BY <2>1
  <2> QED BY <1>4, <2>4, <2>5
<1>6. n0 \in Inode /\ parent.vacantFile \subseteq Slot /\ folder_number_entries \in Nat
  BY <1>3, <1>5, WalksStayInTable, FileSystemConstants DEF Kinds
<1> HIDE DEF n0, id
<1>7. z \in (0 .. folder_number_entries) \ parent.vacantFile
      /\ \A x \in (0 .. folder_number_entries) \ parent.vacantFile : z <= x
  <2>1. folder_number_entries \in (0 .. folder_number_entries) \ parent.vacantFile
    BY <1>6 DEF Slot
  <2> DEFINE free == (0 .. folder_number_entries) \ parent.vacantFile
  <2>2. free \in SUBSET Nat /\ free # {} /\ z = Min(free)
    BY <2>1 DEF Ffz
  <2> HIDE DEF free, z
  <2>3. z \in free /\ \A x \in free : z <= x
    BY <2>2, MinOfNaturals
  <2> QED BY <2>3 DEF free
<1> HIDE DEF z
<1>8. z \in Slot
  BY <1>1, <1>6, <1>7 DEF HasRoom, Slot
<1>9. parent.vacantFile = 0 .. z - 1
  <2>1. ASSUME NEW s \in 0 .. z - 1 PROVE s \in parent.vacantFile
    <3>1. s \in 0 .. folder_number_entries /\ ~ (z <= s)
      <4>1. z \in 0 .. folder_number_entries
        BY <1>7
      <4> QED BY <1>6, <4>1
    <3> QED BY <1>7, <3>1
  <2>2. ASSUME NEW s \in parent.vacantFile PROVE s \in 0 .. z - 1
    <3>1. 0 .. s \subseteq parent.vacantFile /\ s \in Nat /\ z \in Nat
      BY <1>3, <1>6, <1>8 DEF Packed, PackedAt, Slot
    <3>2. z \notin 0 .. s
      BY <1>7, <3>1
    <3> QED BY <3>1, <3>2
  <2> QED BY <2>1, <2>2
<1>10. DataBlock \in SUBSET Nat /\ 0 \notin DataBlock
  BY FileSystemConstants DEF DataBlock
<1>11. z = 0 => new_block \in DataBlock \ used
  BY <1>1, <1>10, FfzIsFree
<1>12. parent.directPointer \in {0} \cup DataBlock
       /\ (parent.directPointer = 0 <=> parent.vacantFile = {})
       /\ (parent.directPointer # 0 => parent.directPointer \in used)
  BY <1>3, <1>6 DEF Packed, PackedAt, TypeOK, BlocksExclusive
<1> HIDE DEF parent, new_block
<1>13. /\ p \in DataBlock /\ (z = 0 => p \notin used) /\ (z # 0 => p = parent.directPointer)
       /\ used \subseteq used' /\ p \in used'
  <2>1. CASE z = 0
    BY <1>1, <1>11, <2>1 DEF PointerTo, UsedWith
  <2>2. CASE z # 0
    <3>1. 0 \in parent.vacantFile
      BY <1>8, <1>9, <2>2 DEF Slot
    <3> QED BY <1>1, <1>12, <2>2, <3>1 DEF PointerTo, UsedWith
  <2> QED BY <2>1, <2>2
<1> HIDE DEF p
<1>14. Added(n0, z, p)
  BY <1>1, <1>5, <1>8, <1>9, <1>10, <1>13 DEF Added, parent
<1>15. \A s \in 0 .. z - 1 : InSlot(n0, s).filename # Last(path)
  BY <1>1, <1>4 DEF NameTaken, InSlot, parent
<1>16. filled = Filled(n0, z, p)
  <2>1. parent.vacantFile \cup {z} = 0 .. z
    BY <1>8, <1>9 DEF Slot
  <2> QED BY <2>1 DEF Filled, parent
<1>17. ~ (Inode \subseteq inode_bitmap) => id \in Inode \ inode_bitmap
  <2>1. Inode \in SUBSET Nat
    BY DEF Inode
  <2> QED BY <2>1, FfzIsFree DEF id
<1> HIDE DEF filled
<1>18. \/ /\ inode' = [inode EXCEPT ![n0] = Filled(n0, z, p)]
          /\ UNCHANGED block
       \/ \E i \in Inode \ inode_bitmap :
            /\ inode' = [inode EXCEPT ![n0] = Filled(n0, z, p), ![i] = NewInode(type)]
            /\ block' = [MarkInode(block, i) EXCEPT
                           ![p] = [block[inode[n0].directPointer] EXCEPT
                                     ![z] = [filename |-> Last(path), inodeNumber |-> i]]]
  BY <1>1, <1>4, <1>16, <1>17 DEF parent
<1> QED BY <1>2, <1>14, <1>15, <1>18

(* When one entry is added, or none, and the inode it names was in no      *)
(* directory before, the directories are a tree as they were.              *)
LEMMA TreeGrows ==
  ASSUME Intact, TreeShape, InodeMapExact, Kinds, NEW n0 \in Directories, NEW z, NEW new,
         inode_bitmap' = inode_bitmap \cup new,
         Directories \subseteq Directories',
         \A n \in Directories' \ Directories : Entries(n)' = {},
         \A n \in Directories \ {n0} : Entries(n)' = Entries(n),
         \A n \in Directories : \A s \in Entries(n) : InSlot(n, s)' = InSlot(n, s),
         \/ Entries(n0)' = Entries(n0) /\ new = {}
         \/ /\ z \notin Entries(n0) /\ Entries(n0)' = Entries(n0) \cup {z}
            /\ new = {InSlot(n0, z)'.inodeNumber}
            /\ InSlot(n0, z)'.inodeNumber \notin inode_bitmap
            /\ \A s \in Entries(n0) : InSlot(n0, s).filename # InSlot(n0, z)'.filename
  PROVE  TreeShape' /\ InodeMapExact'
<1> DEFINE nz == InSlot(n0, z)'
<1>1. inode_bitmap = {root} \cup Named
  BY DEF InodeMapExact
<1>2. /\ root \notin Named
      /\ \A d, e \in Directories : \A s \in Entries(d), t \in Entries(e) :
           (d # e \/ s # t) =>
             /\ InSlot(d, s).inodeNumber # InSlot(e, t).inodeNumber
             /\ d = e => InSlot(d, s).filename # InSlot(d, t).filename
  BY DEF TreeShape
<1>3. \A x : x \in Named <=> \E n \in Directories : \E s \in Entries(n) : x = InSlot(n, s).inodeNumber
  BY DEF Named
<1>4. \A x : x \in Named' <=> \E n \in Directories' : \E s \in Entries(n)' : x = InSlot(n, s)'.inodeNumber
  BY DEF Named
<1> HIDE DEF nz
<1>5. \A n \in Directories' : \A s : s \in Entries(n)' =>
         /\ n \in Directories
         /\ \/ s \in Entries(n) /\ InSlot(n, s)' = InSlot(n, s)
            \/ /\ n = n0 /\ s = z /\ z \notin Entries(n0) /\ InSlot(n, s)' = nz
               /\ new = {nz.inodeNumber} /\ nz.inodeNumber \notin inode_bitmap
               /\ \A t \in Entries(n0) : InSlot(n0, t).filename # nz.filename
  <2> SUFFICES ASSUME NEW n \in Directories', NEW s, s \in Entries(n)'
               PROVE  /\ n \in Directories
                      /\ \/ s \in Entries(n) /\ InSlot(n, s)' = InSlot(n, s)
                         \/ /\ n = n0 /\ s = z /\ z \notin Entries(n0) /\ InSlot(n, s)' = nz
                            /\ new = {nz.inodeNumber} /\ nz.inodeNumber \notin inode_bitmap
                            /\ \A t \in Entries(n0) : InSlot(n0, t).filename # nz.filename
    OBVIOUS
  <2>1. n \in Directories
    OBVIOUS
  <2>2. CASE n # n0
    BY <2>1, <2>2
  <2>3. CASE n = n0
    <3>1. CASE s \in Entries(n0)
      BY <2>1, <2>3, <3>1
    <3>2. CASE s \notin Entries(n0)
      <4>1. s = z /\ z \notin Entries(n0) /\ new = {InSlot(n0, z)'.inodeNumber}
            /\ InSlot(n0, z)'.inodeNumber \notin inode_bitmap
            /\ \A t \in Entries(n0) : InSlot(n0, t).filename # InSlot(n0, z)'.filename
        BY <2>3, <3>2
      <4> QED BY <2>1, <2>3, <4>1 DEF nz
    <3> QED BY <3>1, <3>2
  <2> QED BY <2>2, <2>3
<1>6. \A x : x \in Named' <=> x \in Named \/ x \in new
  <2>1. ASSUME NEW x \in Named' PROVE x \in Named \/ x \in new
    <3>1. PICK n \in Directories' : \E s \in Entries(n)' : x = InSlot(n, s)'.inodeNumber
      BY <1>4
    <3>2. PICK s \in Entries(n)' : x = InSlot(n, s)'.inodeNumber
      BY <3>1
    <3> QED BY <1>3, <1>5, <3>2
  <2>2. ASSUME NEW x \in Named PROVE x \in Named'
    <3>1. PICK n \in Directories : \E s \in Entries(n) : x = InSlot(n, s).inodeNumber
      BY <1>3
    <3>2. PICK s \in Entries(n) : x = InSlot(n, s).inodeNumber
      BY <3>1
    <3>3. n \in Directories' /\ s \in Entries(n)' /\ InSlot(n, s)' = InSlot(n, s)
      OBVIOUS
    <3> QED BY <1>4, <3>2, <3>3
  <2>3. ASSUME NEW x \in new PROVE x \in Named'
    <3>1. z \in Entries(n0)' /\ x = InSlot(n0, z)'.inodeNumber
      BY <2>3
    <3> QED BY <1>4, <3>1
  <2> QED BY <2>1, <2>2, <2>3
<1>7. InodeMapExact'
  <2>1. inode_bitmap' = {root} \cup Named'
    BY <1>1, <1>6
  <2>2. root' = root
    BY DEF root
  <2> QED BY <2>1, <2>2 DEF InodeMapExact
<1>8. root \notin Named'
  <2>1. root \notin new
    BY <1>1
  <2> QED BY <1>2, <1>6, <2>1
<1>9. ASSUME NEW d \in Directories', NEW e \in Directories',
             NEW s \in Entries(d)', NEW t \in Entries(e)', d # e \/ s # t
      PROVE  /\ InSlot(d, s)'.inodeNumber # InSlot(e, t)'.inodeNumber
             /\ d = e => InSlot(d, s)'.filename # InSlot(d, t)'.filename
  <2>1. \A n \in Directories : \A i \in Entries(n) : InSlot(n, i).inodeNumber \in inode_bitmap
    BY <1>1, <1>3
  <2>2. CASE s \in Entries(d) /\ t \in Entries(e) /\ InSlot(d, s)' = InSlot(d, s)
             /\ InSlot(e, t)' = InSlot(e, t)
    <3>1. d \in Directories /\ e \in Directories
      BY <1>5
    <3>2. d = e => InSlot(d, t)' = InSlot(d, t)
      BY <2>2
    <3> QED BY <1>2, <1>9, <2>2, <3>1, <3>2
  <2>3. CASE s \in Entries(d) /\ InSlot(d, s)' = InSlot(d, s) /\ e = n0 /\ t = z
             /\ InSlot(e, t)' = nz /\ nz.inodeNumber \notin inode_bitmap
             /\ \A i \in Entries(n0) : InSlot(n0, i).filename # nz.filename
    <3>1. d \in Directories /\ e \in Directories
      BY <1>5
    <3>2. d = e => InSlot(d, t)' = nz
      BY <2>3
    <3> QED BY <2>1, <2>3, <3>1, <3>2
  <2>4. CASE t \in Entries(e) /\ InSlot(e, t)' = InSlot(e, t) /\ d = n0 /\ s = z
             /\ InSlot(d, s)' = nz /\ nz.inodeNumber \notin inode_bitmap
             /\ \A i \in Entries(n0) : InSlot(n0, i).filename # nz.filename
    <3>1. d \in Directories /\ e \in Directories
      BY <1>5
    <3>2. d = e => InSlot(d, t)' = InSlot(d, t)
      BY <2>4
    <3> QED BY <2>1, <2>4, <3>1, <3>2
  <2> QED BY <1>5, <1>9, <2>2, <2>3, <2>4
<1>10. TreeShape'
  <2>1. Intact' => /\ root \notin Named'
                   /\ \A d, e \in Directories' : \A s \in Entries(d)', t \in Entries(e)' :
                        (d # e \/ s # t) =>
                          /\ InSlot(d, s)'.inodeNumber # InSlot(e, t)'.inodeNumber
                          /\ d = e => InSlot(d, s)'.filename # InSlot(d, t)'.filename
    BY <1>8, <1>9
  <2> QED BY <2>1, Zenon DEF TreeShape, root
<1> QED BY <1>7, <1>10

(* Without an inode left, the entry is there and blank: no directory gains *)
(* or loses a name.                                                        *)
LEMMA AddBlank ==
  ASSUME TypeOK, BlocksExclusive, TreeInv, Intact, NEW n0, NEW z, NEW p, Added(n0, z, p),
         inode' = [inode EXCEPT ![n0] = Filled(n0, z, p)], UNCHANGED block
  PROVE  TreeInv'
<1> USE DEF Added
<1>1. /\ Kinds /\ EmptyBlocks /\ Packed /\ TreeShape /\ InodeMapExact /\ DescriptorsAreFiles
      /\ n0 \in Inode /\ n0 \in Directories /\ z \in Nat /\ folder_number_entries \in Nat
  BY FileSystemConstants DEF TreeInv, Kinds, Slot, Directories
<1>2. inode_bitmap' = inode_bitmap
  BY DEF inode_bitmap
<1>3. /\ inode'[n0] = [fileType |-> "d", vacantFile |-> 0 .. z, directPointer |-> p]
      /\ \A n \in Inode \ {n0} : inode'[n] = inode[n]
      /\ \A n \in Inode : inode'[n].fileType = inode[n].fileType
  BY <1>1 DEF Filled, TypeOK
<1>4. /\ \A n \in Inode \ {n0}, s \in Slot : InSlot(n, s)' = InSlot(n, s)
      /\ \A s \in Slot : InSlot(n0, s)' = block[p][s]
  BY <1>3 DEF InSlot
<1>5. \A s \in Slot : s \notin 0 .. z - 1 => Blank(block[p][s])
  <2>1. CASE z = 0
    BY <1>1, <2>1 DEF EmptyBlocks
  <2>2. CASE z # 0
    BY <1>1, <2>2 DEF Packed, PackedAt, InSlot
  <2> QED BY <2>1, <2>2
<1>6. \A s \in Slot : s \in 0 .. z - 1 => InSlot(n0, s) = block[p][s]
  BY <1>1 DEF InSlot
<1>7. \A s \in 0 .. z : s \in Slot /\ (s \in 0 .. z - 1 <=> s # z)
  BY <1>1 DEF Slot
<1>8. Entries(n0) = {s \in 0 .. z - 1 : InSlot(n0, s).filename # NoName}
  BY DEF Entries, InSlot
<1>9. Entries(n0)' = {s \in 0 .. z : InSlot(n0, s)'.filename # NoName}
  <2>1. inode'[n0].fileType = "d" /\ inode'[n0].vacantFile = 0 .. z
    BY <1>3
  <2> QED BY <2>1 DEF Entries, InSlot
<1>10. Entries(n0)' = Entries(n0)
  <2>1. \A s \in 0 .. z - 1 : s \in 0 .. z
    BY <1>1
  <2>2. InSlot(n0, z)'.filename = NoName
    BY <1>4, <1>5, <1>7, <1>1 DEF Blank
  <2> QED BY <1>4, <1>6, <1>7, <1>8, <1>9, <2>1, <2>2
<1>11. \A n \in Inode \ {n0} : Entries(n)' = Entries(n)
  BY <1>3 DEF Entries
<1>12. \A n \in Inode : Entries(n) \subseteq Slot
  BY WalksStayInTable DEF Entries
<1>13. \A n \in Inode : \A s \in Entries(n) : InSlot(n, s)' = InSlot(n, s)
  BY <1>4, <1>6, <1>8, <1>12
<1>14. Directories' = Directories /\ Directories \subseteq Inode
  BY <1>1, <1>2, <1>3 DEF Directories
<1>15. InodeMapExact' /\ TreeShape'
  <2>1. /\ inode_bitmap' = inode_bitmap \cup {}
        /\ Directories \subseteq Directories'
        /\ \A n \in Directories' \ Directories : Entries(n)' = {}
        /\ \A n \in Directories \ {n0} : Entries(n)' = Entries(n)
        /\ \A n \in Directories : \A s \in Entries(n) : InSlot(n, s)' = InSlot(n, s)
    BY <1>2, <1>11, <1>13, <1>14
  <2>2. TreeShape /\ InodeMapExact /\ Kinds /\ n0 \in Directories
    BY <1>1
  <2> QED BY ONLY Intact, <1>10, <2>1, <2>2, TreeGrows
<1>16. Kinds'
  BY <1>1, <1>2, <1>3 DEF Kinds
<1>17. EmptyBlocks'
  BY <1>1 DEF EmptyBlocks, Blank
<1>18. Packed'
  <2>1. ASSUME NEW n \in Inode \ {n0} PROVE PackedAt(n)'
    BY <1>1, <1>3, <1>4, <2>1 DEF Packed, PackedAt, Blank
  <2>2. PackedAt(n0)'
    <3>1. \A s \in 0 .. z : 0 .. s \subseteq 0 .. z
      BY <1>1
    <3>2. 0 \in 0 .. z
      BY <1>1
    <3>3. \A s \in Slot : s \notin 0 .. z => s \notin 0 .. z - 1
      BY <1>1
    <3>4. \A s \in Slot : block[p][s].filename = NoName => Blank(block[p][s])
      <4>1. CASE z = 0
        BY <1>5, <4>1
      <4>2. CASE z # 0
        BY <1>1, <4>2 DEF Packed, PackedAt, InSlot
      <4> QED BY <4>1, <4>2
    <3>5. /\ inode'[n0].fileType = "d" /\ inode'[n0].vacantFile = 0 .. z
          /\ inode'[n0].directPointer = p
      BY <1>3
    <3>6. \A s \in Slot : /\ s \notin 0 .. z => InSlot(n0, s)'.filename = NoName
                          /\ InSlot(n0, s)'.filename = NoName => Blank(InSlot(n0, s)')
      BY <1>4, <1>5, <3>3, <3>4 DEF Blank
    <3> QED BY <3>1, <3>2, <3>5, <3>6 DEF PackedAt, Blank
  <2> QED BY <2>1, <2>2 DEF Packed
<1>19. DescriptorsAreFiles'
  BY <1>1, <1>2, <1>3 DEF DescriptorsAreFiles, Kinds
<1> QED BY <1>15, <1>16, <1>17, <1>18, <1>19 DEF TreeInv

(* With an inode left, the directory has one name more, and the new inode  *)
(* is empty and in no other directory.                                     *)
LEMMA AddEntry ==
  ASSUME TypeOK, BlocksExclusive, TreeInv, Intact, NEW n0, NEW z, NEW p, Added(n0, z, p),
         NEW id \in Inode \ inode_bitmap, NEW type \in {"r", "d"}, NEW name, name # NoName,
         \A s \in 0 .. z - 1 : InSlot(n0, s).filename # name,
         inode' = [inode EXCEPT ![n0] = Filled(n0, z, p), ![id] = NewInode(type)],
         block' = [MarkInode(block, id) EXCEPT
                     ![p] = [block[inode[n0].directPointer] EXCEPT
                               ![z] = [filename |-> name, inodeNumber |-> id]]]
  PROVE  TreeInv'
<1> USE DEF Added
<1> DEFINE old == inode[n0].directPointer
<1>1. /\ Kinds /\ EmptyBlocks /\ Packed /\ TreeShape /\ InodeMapExact /\ DescriptorsAreFiles
      /\ n0 \in Inode /\ n0 \in Directories /\ z \in Nat /\ folder_number_entries \in Nat
      /\ n0 # id /\ 0 \in Slot
  BY FileSystemConstants DEF TreeInv, Kinds, Slot, Directories
<1>2. /\ block'[BitmapBlock] = [block[BitmapBlock] EXCEPT ![0].filename = @ \cup {id}]
      /\ block'[p] = [block[old] EXCEPT ![z] = [filename |-> name, inodeNumber |-> id]]
      /\ \A b \in DataBlock \ {p} : block'[b] = block[b]
  <2>1. /\ BitmapBlock \in {BitmapBlock} \cup DataBlock /\ BitmapBlock # p
        /\ \A b \in DataBlock : b \in {BitmapBlock} \cup DataBlock /\ b # BitmapBlock
        /\ p \in {BitmapBlock} \cup DataBlock
    BY FileSystemConstants DEF BitmapBlock, DataBlock
  <2> DEFINE marked  == [block[BitmapBlock] EXCEPT ![0].filename = @ \cup {id}]
             written == [block[old] EXCEPT ![z] = [filename |-> name, inodeNumber |-> id]]
             d       == {BitmapBlock} \cup DataBlock
  <2>2. block \in [d -> [Slot -> Entry]]
    BY DEF TypeOK
  <2>3. block' = [[block EXCEPT ![BitmapBlock] = marked] EXCEPT ![p] = written]
    BY DEF MarkInode
  <2> HIDE DEF marked, written, d
  <2>4. \A b \in d : block'[b] = IF b = p THEN written ELSE IF b = BitmapBlock THEN marked ELSE block[b]
    BY <2>2, <2>3
  <2> QED BY <2>1, <2>4 DEF marked, written, d
<1>3. /\ block'[BitmapBlock][0].filename = inode_bitmap \cup {id}
      /\ block'[BitmapBlock][0].inodeNumber = block[BitmapBlock][0].inodeNumber
      /\ \A s \in Slot \ {0} : block'[BitmapBlock][s] = block[BitmapBlock][s]
  <2> DEFINE b0 == block[BitmapBlock]
  <2>1. b0 \in [Slot -> Entry] /\ inode_bitmap = b0[0].filename
    BY DEF TypeOK, inode_bitmap
  <2>2. block'[BitmapBlock] = [b0 EXCEPT ![0].filename = @ \cup {id}]
    BY <1>2
  <2> HIDE DEF b0
  <2>3. /\ block'[BitmapBlock][0].filename = inode_bitmap \cup {id}
        /\ block'[BitmapBlock][0].inodeNumber = b0[0].inodeNumber
        /\ \A s \in Slot \ {0} : block'[BitmapBlock][s] = b0[s]
    <3> DEFINE e == [b0[0] EXCEPT !.filename = @ \cup {id}]
    <3>1. e.filename = inode_bitmap \cup {id} /\ e.inodeNumber = b0[0].inodeNumber
      BY <1>1, <2>1 DEF Entry
    <3>2. block'[BitmapBlock] = [b0 EXCEPT ![0] = e]
      BY <2>2
    <3> HIDE DEF e
    <3>3. block'[BitmapBlock][0] = e /\ \A s \in Slot \ {0} : block'[BitmapBlock][s] = b0[s]
      BY ONLY <1>1, <2>1, <3>2
    <3> QED BY <3>1, <3>3
  <2> QED BY <2>3 DEF b0
<1>4. inode_bitmap' = inode_bitmap \cup {id}
  BY <1>3 DEF inode_bitmap, BitmapBlock
<1>5. /\ block'[p][z] = [filename |-> name, inodeNumber |-> id]
      /\ \A s \in Slot \ {z} : block'[p][s] = block[old][s]
  <2>1. old \in {BitmapBlock} \cup DataBlock
    BY <1>1 DEF TypeOK, BitmapBlock
  <2> QED BY <1>2, <2>1 DEF TypeOK
<1>6. /\ inode'[n0] = [fileType |-> "d", vacantFile |-> 0 .. z, directPointer |-> p]
      /\ inode'[id] = [fileType |-> type, vacantFile |-> {}, directPointer |-> 0]
      /\ \A n \in Inode \ {n0, id} : inode'[n] = inode[n]
      /\ \A n \in Inode \ {id} : inode'[n].fileType = inode[n].fileType
  BY <1>1 DEF Filled, NewInode, TypeOK
<1> HIDE DEF old
<1>7. \A n \in Inode \ {n0} : inode[n].directPointer # 0 =>
        inode[n].directPointer \in DataBlock \ {p}
  BY <1>1 DEF TypeOK, BlocksExclusive
<1>8. \A n \in Inode \ {n0, id}, s \in Slot :
        inode[n].directPointer # 0 => InSlot(n, s)' = InSlot(n, s)
  <2> SUFFICES ASSUME NEW n \in Inode \ {n0, id}, NEW s \in Slot, inode[n].directPointer # 0
               PROVE  InSlot(n, s)' = InSlot(n, s)
    OBVIOUS
  <2>1. inode'[n].directPointer = inode[n].directPointer
    BY <1>6
  <2>2. inode[n].directPointer \in DataBlock \ {p}
    BY <1>7
  <2>3. block'[inode[n].directPointer] = block[inode[n].directPointer]
    BY <1>2, <2>2
  <2> QED BY <2>1, <2>3 DEF InSlot
<1>9. \A s \in Slot : InSlot(n0, s)' = block'[p][s]
  BY <1>6 DEF InSlot
<1>10. \A s \in Slot : s \notin 0 .. z => Blank(block[old][s])
  <2>1. CASE z = 0
    <3>1. old = BitmapBlock
      BY <1>1, <2>1 DEF Packed, PackedAt, BitmapBlock, old
    <3>2. \A s \in Slot : s \notin 0 .. z => s # 0
      BY <2>1
    <3> QED BY <1>1, <3>1, <3>2 DEF EmptyBlocks
  <2>2. CASE z # 0
    <3>1. \A s \in Slot : s \notin 0 .. z => s \notin 0 .. z - 1
      BY <1>1
    <3> QED BY <1>1, <2>2, <3>1 DEF Packed, PackedAt, InSlot, old
  <2> QED BY <2>1, <2>2
<1>11. \A s \in Slot : s \in 0 .. z - 1 =>
         /\ InSlot(n0, s)' = InSlot(n0, s)
         /\ InSlot(n0, s).filename = NoName => Blank(InSlot(n0, s))
  <2>1. \A s \in Slot : s \in 0 .. z - 1 => s # z /\ z # 0
    BY <1>1
  <2> QED BY <1>1, <1>5, <1>9, <2>1 DEF InSlot, Packed, PackedAt, old
<1>12. \A s \in 0 .. z : s \in Slot /\ (s \in 0 .. z - 1 <=> s # z)
  BY <1>1 DEF Slot
<1>13. /\ Entries(n0) = {s \in 0 .. z - 1 : InSlot(n0, s).filename # NoName}
       /\ Entries(n0)' = {s \in 0 .. z : InSlot(n0, s)'.filename # NoName}
  <2>1. inode'[n0].fileType = "d" /\ inode'[n0].vacantFile = 0 .. z
    BY <1>6
  <2> QED BY <2>1 DEF Entries, InSlot
<1>14. InSlot(n0, z)' = [filename |-> name, inodeNumber |-> id] /\ z \in 0 .. z /\ z \notin 0 .. z - 1
  BY <1>1, <1>5, <1>9
<1>15. z \notin Entries(n0) /\ Entries(n0)' = Entries(n0) \cup {z}
  <2>1. \A s \in 0 .. z - 1 : s \in 0 .. z
    BY <1>1
  <2>2. InSlot(n0, z)'.filename # NoName
    BY <1>14
  <2> QED BY <1>11, <1>12, <1>13, <1>14, <2>1, <2>2
<1>16. \A n \in Inode \ {n0, id} : Entries(n)' = Entries(n)
  <2> SUFFICES ASSUME NEW n \in Inode \ {n0, id} PROVE Entries(n)' = Entries(n)
    OBVIOUS
  <2>1. inode'[n] = inode[n] /\ inode[n].vacantFile \subseteq Slot
    BY <1>6, WalksStayInTable
  <2>2. CASE inode[n].directPointer = 0
    <3>1. inode[n].vacantFile = {}
      BY <1>1, <2>2 DEF Packed, PackedAt
    <3> QED BY <2>1, <3>1 DEF Entries
  <2>3. CASE inode[n].directPointer # 0
    <3>1. \A s \in inode[n].vacantFile : InSlot(n, s)' = InSlot(n, s)
      BY <1>8, <2>1, <2>3
    <3>2. /\ Entries(n) = IF inode[n].fileType # "d" THEN {}
                          ELSE {s \in inode[n].vacantFile : InSlot(n, s).filename # NoName}
          /\ Entries(n)' = IF inode'[n].fileType # "d" THEN {}
                           ELSE {s \in inode'[n].vacantFile : InSlot(n, s)'.filename # NoName}
      BY DEF Entries, InSlot
    <3>3. \A s : s \in Entries(n)' <=> s \in Entries(n)
      BY ONLY <2>1, <3>1, <3>2
    <3> QED BY <3>2, <3>3
  <2> QED BY <2>2, <2>3
<1>17. \A n \in Inode : Entries(n) \subseteq Slot /\ (n # id => \A s \in Entries(n) : InSlot(n, s)' = InSlot(n, s))
  <2> SUFFICES ASSUME NEW n \in Inode
               PROVE  Entries(n) \subseteq Slot /\ (n # id => \A s \in Entries(n) : InSlot(n, s)' = InSlot(n, s))
    OBVIOUS
  <2>1. Entries(n) \subseteq Slot /\ Entries(n) \subseteq inode[n].vacantFile
    BY WalksStayInTable DEF Entries
  <2>2. CASE n = n0
    BY <1>11, <1>13, <2>1, <2>2
  <2>3. CASE n # n0 /\ n # id
    <3>1. Entries(n) # {} => inode[n].directPointer # 0
      BY <1>1, <2>1 DEF Packed, PackedAt
    <3> QED BY <1>8, <2>1, <2>3, <3>1
  <2> QED BY <2>1, <2>2, <2>3
<1>18. /\ Directories \subseteq Inode \ {id} /\ Directories \subseteq Directories'
       /\ \A n \in Directories' : n \in Directories \/ n = id
  <2>1. \A n : n \in Directories <=> n \in inode_bitmap /\ n \in Inode /\ inode[n].fileType = "d"
    BY DEF Directories
  <2>2. \A n : n \in Directories' <=> n \in inode_bitmap' /\ n \in Inode /\ inode'[n].fileType = "d"
    BY DEF Directories
  <2> QED BY <1>4, <1>6, <2>1, <2>2
<1>19. Entries(id)' = {}
  <2>1. inode'[id].vacantFile = {}
    BY <1>6
  <2> QED BY <2>1 DEF Entries
<1>20. InodeMapExact' /\ TreeShape'
  <2>1. /\ inode_bitmap' = inode_bitmap \cup {id}
        /\ Directories \subseteq Directories'
        /\ \A n \in Directories' \ Directories : Entries(n)' = {}
        /\ \A n \in Directories \ {n0} : Entries(n)' = Entries(n)
        /\ \A n \in Directories : \A s \in Entries(n) : InSlot(n, s)' = InSlot(n, s)
    BY <1>4, <1>16, <1>17, <1>18, <1>19
  <2>2. TreeShape /\ InodeMapExact /\ Kinds /\ n0 \in Directories
    BY <1>1
  <2>3. /\ {id} = {InSlot(n0, z)'.inodeNumber}
        /\ InSlot(n0, z)'.inodeNumber \notin inode_bitmap
        /\ \A s \in Entries(n0) : InSlot(n0, s).filename # InSlot(n0, z)'.filename
    BY <1>13, <1>14
  <2> QED BY ONLY Intact, <1>15, <2>1, <2>2, <2>3, TreeGrows
<1>21. Kinds'
  <2>1. root \in Inode \ {id}
    BY <1>1 DEF Kinds
  <2>2. /\ root \in inode_bitmap' /\ inode_bitmap' \subseteq Inode
        /\ inode'[root].fileType = "d"
    BY <1>1, <1>4, <1>6, <2>1 DEF Kinds
  <2>3. \A n \in inode_bitmap' : inode'[n].fileType \in {"r", "d"}
    <3>1. inode'[id].fileType = type
      BY <1>6
    <3>2. \A n \in inode_bitmap : n \in Inode \ {id} /\ inode[n].fileType \in {"r", "d"}
      BY <1>1 DEF Kinds
    <3>3. \A n \in inode_bitmap : inode'[n].fileType \in {"r", "d"}
      BY <1>6, <3>2
    <3> QED BY <1>4, <3>1, <3>3
  <2>4. root' = root /\ Inode' = Inode
    BY DEF root, Inode
  <2> QED BY <2>2, <2>3, <2>4, Zenon DEF Kinds
<1>22. EmptyBlocks'
  <2>1. \A b \in DataBlock \ used' : b \in DataBlock \ used /\ block'[b] = block[b]
    BY <1>2
  <2>2. /\ block'[BitmapBlock][0].inodeNumber = root
        /\ \A s \in Slot \ {0} : Blank(block'[BitmapBlock][s])
        /\ \A b \in DataBlock \ used' : \A s \in Slot : Blank(block'[b][s])
    BY <1>1, <1>3, <2>1 DEF EmptyBlocks
  <2> QED BY <2>2 DEF EmptyBlocks, Blank, root
<1>23. Packed'
  <2>1. ASSUME NEW n \in Inode \ {n0, id} PROVE PackedAt(n)'
    <3>1. inode'[n] = inode[n] /\ PackedAt(n)
      BY <1>1, <1>6 DEF Packed
    <3>2. inode[n].directPointer # 0 => \A s \in Slot : InSlot(n, s)' = InSlot(n, s)
      BY <1>8
    <3>3. inode[n].directPointer # 0 => \A s \in Slot :
            /\ s \notin inode[n].vacantFile => InSlot(n, s)'.filename = NoName
            /\ InSlot(n, s)'.filename = NoName => Blank(InSlot(n, s)')
      BY <3>1, <3>2 DEF PackedAt
    <3> QED BY <3>1, <3>3 DEF PackedAt, Blank
  <2>2. PackedAt(n0)'
    <3>1. \A s \in 0 .. z : 0 .. s \subseteq 0 .. z
      BY <1>1
    <3>2. 0 \in 0 .. z
      BY <1>1
    <3>3. /\ inode'[n0].fileType = "d" /\ inode'[n0].vacantFile = 0 .. z
          /\ inode'[n0].directPointer = p
      BY <1>6
    <3>4. ASSUME NEW s \in Slot
          PROVE  /\ s \notin 0 .. z => InSlot(n0, s)'.filename = NoName
                 /\ InSlot(n0, s)'.filename = NoName => Blank(InSlot(n0, s)')
      <4>1. CASE s \notin 0 .. z
        <5>1. s # z
          BY <1>14, <4>1
        <5> QED BY <1>5, <1>9, <1>10, <4>1, <5>1 DEF Blank
      <4>2. CASE s \in 0 .. z - 1
        BY <1>11, <1>12, <4>2, <1>1
      <4>3. CASE s = z
        BY <1>14, <4>3
      <4> QED BY <1>12, <4>1, <4>2, <4>3
    <3> QED BY <3>1, <3>2, <3>3, <3>4 DEF PackedAt, Blank
  <2>3. PackedAt(id)'
    <3>1. inode'[id].vacantFile = {} /\ inode'[id].directPointer = 0
      BY <1>6
    <3> QED BY <3>1 DEF PackedAt
  <2> QED BY <2>1, <2>2, <2>3 DEF Packed
<1>24. DescriptorsAreFiles'
  <2>1. \A f \in held' : fd'[f] \in inode_bitmap /\ inode[fd'[f]].fileType = "r"
    BY <1>1 DEF DescriptorsAreFiles
  <2>2. \A n \in inode_bitmap : n \in inode_bitmap' /\ n \in Inode \ {id}
    BY <1>1, <1>4 DEF Kinds
  <2>3. \A n \in Inode \ {id} : inode'[n].fileType = inode[n].fileType
    BY <1>6
  <2>4. \A f \in held' : fd'[f] \in inode_bitmap' /\ inode'[fd'[f]].fileType = "r"
    BY ONLY <2>1, <2>2, <2>3
  <2> QED BY <2>4 DEF DescriptorsAreFiles
<1> QED BY <1>20, <1>21, <1>22, <1>23, <1>24 DEF TreeInv

LEMMA CreateTree ==
  ASSUME TypeOK, BlocksExclusive, TreeInv,
         NEW path \in NamedPaths, NEW type \in {"r", "d"}, fs_create(path, type)
  PROVE  TreeInv'
<1> SUFFICES ASSUME Intact' PROVE TreeInv'
  BY DEF TreeInv
<1>1. Intact /\ \E n0, z, p :
        /\ Added(n0, z, p)
        /\ \A s \in 0 .. z - 1 : InSlot(n0, s).filename # Last(path)
        /\ \/ /\ inode' = [inode EXCEPT ![n0] = Filled(n0, z, p)]
              /\ UNCHANGED block
           \/ \E id \in Inode \ inode_bitmap :
                /\ inode' = [inode EXCEPT ![n0] = Filled(n0, z, p), ![id] = NewInode(type)]
                /\ block' = [MarkInode(block, id) EXCEPT
                               ![p] = [block[inode[n0].directPointer] EXCEPT
                                         ![z] = [filename |-> Last(path), inodeNumber |-> id]]]
  BY CreateAdds
<1>2. PICK n0, z, p :
        /\ Added(n0, z, p)
        /\ \A s \in 0 .. z - 1 : InSlot(n0, s).filename # Last(path)
        /\ \/ /\ inode' = [inode EXCEPT ![n0] = Filled(n0, z, p)]
              /\ UNCHANGED block
           \/ \E id \in Inode \ inode_bitmap :
                /\ inode' = [inode EXCEPT ![n0] = Filled(n0, z, p), ![id] = NewInode(type)]
                /\ block' = [MarkInode(block, id) EXCEPT
                               ![p] = [block[inode[n0].directPointer] EXCEPT
                                         ![z] = [filename |-> Last(path), inodeNumber |-> id]]]
  BY <1>1
<1>3. CASE inode' = [inode EXCEPT ![n0] = Filled(n0, z, p)] /\ UNCHANGED block
  BY <1>1, <1>2, <1>3, AddBlank
<1>4. CASE \E id \in Inode \ inode_bitmap :
             /\ inode' = [inode EXCEPT ![n0] = Filled(n0, z, p), ![id] = NewInode(type)]
             /\ block' = [MarkInode(block, id) EXCEPT
                            ![p] = [block[inode[n0].directPointer] EXCEPT
                                      ![z] = [filename |-> Last(path), inodeNumber |-> id]]]
  <2>1. Last(path) # NoName
    BY PathParts, NamesHaveBits DEF NoName, Last
  <2>2. PICK id \in Inode \ inode_bitmap :
             /\ inode' = [inode EXCEPT ![n0] = Filled(n0, z, p), ![id] = NewInode(type)]
             /\ block' = [MarkInode(block, id) EXCEPT
                            ![p] = [block[inode[n0].directPointer] EXCEPT
                                      ![z] = [filename |-> Last(path), inodeNumber |-> id]]]
    BY <1>4
  <2> DEFINE name == Last(path)
  <2> HIDE DEF name
  <2>3. /\ name # NoName /\ \A s \in 0 .. z - 1 : InSlot(n0, s).filename # name
        /\ block' = [MarkInode(block, id) EXCEPT
                            ![p] = [block[inode[n0].directPointer] EXCEPT
                                      ![z] = [filename |-> name, inodeNumber |-> id]]]
    BY <1>2, <2>1, <2>2 DEF name
  <2>4. type \in {"r", "d"} /\ id \in Inode \ inode_bitmap /\ Intact /\ Added(n0, z, p)
        /\ inode' = [inode EXCEPT ![n0] = Filled(n0, z, p), ![id] = NewInode(type)]
    BY <1>1, <1>2, <2>2
  <2> QED BY ONLY TypeOK, BlocksExclusive, TreeInv, <2>4, <2>3, AddEntry
<1> QED BY <1>2, <1>3, <1>4

(* A call that leaves the store alone leaves the tree alone.               *)
LEMMA TreeStays ==
  ASSUME TreeInv, UNCHANGED store, UNCHANGED <<astray, overwritten, moved>>,
         Intact => DescriptorsAreFiles'
  PROVE  TreeInv'
<1>1. block' = block /\ inode' = inode /\ used' = used
  BY DEF store
<1>2. Intact' <=> Intact
  BY DEF Intact
<1>3. inode_bitmap' = inode_bitmap
  BY <1>1 DEF inode_bitmap
<1>4. \A n, s : InSlot(n, s)' = InSlot(n, s)
  BY <1>1 DEF InSlot
<1>5. \A n : Entries(n)' = Entries(n)
  BY <1>1 DEF Entries
<1>6. Directories' = Directories
  BY <1>1, <1>3 DEF Directories
<1>7. Named' = Named
  BY <1>4, <1>5, <1>6 DEF Named
<1> SUFFICES ASSUME Intact PROVE TreeInv'
  BY <1>2 DEF TreeInv
<1>8. Kinds /\ EmptyBlocks /\ Packed /\ TreeShape /\ InodeMapExact
  BY DEF TreeInv
<1>9. Kinds'
  BY <1>1, <1>3, <1>8 DEF Kinds
<1>10. EmptyBlocks'
  BY <1>1, <1>8 DEF EmptyBlocks, Blank
<1>11. Packed'
  BY <1>1, <1>4, <1>8 DEF Packed, PackedAt, Blank
<1>12. TreeShape'
  BY <1>4, <1>5, <1>6, <1>7, <1>8 DEF TreeShape
<1>13. InodeMapExact'
  BY <1>3, <1>7, <1>8 DEF InodeMapExact
<1> QED BY <1>9, <1>10, <1>11, <1>12, <1>13 DEF TreeInv

LEMMA OpenTree ==
  ASSUME TypeOK, TreeInv, NEW path \in Paths, fs_open(path)
  PROVE  TreeInv'
<1> DEFINE w   == WalkToFile(path)
           new == Ffz(fd_used, Fd)
           m   == Len(path)
<1>1. /\ Fd \ fd_used # {}
      /\ \/ CanOpen(w.num) /\ fd' = [fd EXCEPT ![new] = w.num] /\ held' = held \cup {new}
         \/ UNCHANGED <<fd, held>>
      /\ UNCHANGED store /\ UNCHANGED <<astray, overwritten, moved>>
  BY DEF fs_open
<1>2. block' = block /\ inode' = inode
  BY <1>1 DEF store
<1>3. ASSUME Intact PROVE DescriptorsAreFiles'
  <2>1. Leads(inode_bitmap)
    BY <1>3, WalksStayInUse
  <2>2. m \in Nat /\ DOMAIN path = 1 .. m
    BY PathParts
  <2>3. w.num \in inode_bitmap
    <3> HIDE DEF m
    <3>1. PICK g \in [0 .. m -> Walker(inode_bitmap)] : g[m] = WalkToFile(path)
      BY ONLY <2>1, <2>2, OpenTrail
    <3>2. w \in Walker(inode_bitmap)
      BY <2>2, <3>1
    <3> QED BY <3>2 DEF Walker
  <2>4. Kinds /\ DescriptorsAreFiles
    BY <1>3 DEF TreeInv
  <2>5. CanOpen(w.num) => inode[w.num].fileType = "r"
    BY <2>3, <2>4 DEF Kinds, CanOpen
  <2>6. new \in Fd
    <3>1. Fd \in SUBSET Nat
      BY DEF Fd
    <3> QED BY <1>1, <3>1, FfzIsFree
  <2>7. inode_bitmap' = inode_bitmap
    BY <1>2 DEF inode_bitmap
  <2> HIDE DEF w, new, m
  <2>8. \A f \in held : fd[f] \in inode_bitmap /\ inode[fd[f]].fileType = "r"
    BY <1>3, <2>4 DEF DescriptorsAreFiles
  <2>9. \A f \in held' : fd'[f] \in inode_bitmap /\ inode[fd'[f]].fileType = "r"
    <3>1. CASE UNCHANGED <<fd, held>>
      BY <2>8, <3>1
    <3>2. CASE CanOpen(w.num) /\ fd' = [fd EXCEPT ![new] = w.num] /\ held' = held \cup {new}
      <4>1. fd \in [Fd -> Inode] /\ held \subseteq Fd
        BY DEF TypeOK
      <4>2. fd'[new] = w.num /\ \A f \in held \ {new} : fd'[f] = fd[f]
        BY <2>6, <3>2, <4>1
      <4> QED BY <2>3, <2>5, <2>8, <3>2, <4>2
    <3> QED BY <1>1, <3>1, <3>2
  <2> QED BY <1>2, <2>7, <2>9 DEF DescriptorsAreFiles
<1> QED BY <1>1, <1>3, TreeStays

LEMMA NextTree == TypeOK /\ BlocksExclusive /\ TreeInv /\ [Next]_vars => TreeInv'
<1> SUFFICES ASSUME TypeOK, BlocksExclusive, TreeInv, [Next]_vars PROVE TreeInv'
  OBVIOUS
<1>1. ASSUME NEW path \in NamedPaths, NEW type \in {"r", "d"}, fs_create(path, type)
      PROVE  TreeInv'
  BY <1>1, CreateTree
<1>2. ASSUME NEW path \in Paths, fs_open(path) PROVE TreeInv'
  BY <1>2, OpenTree
<1>3. ASSUME NEW path \in Paths, fs_remove(path) PROVE TreeInv'
  BY <1>3 DEF fs_remove, TreeInv, Intact
<1>4. ASSUME NEW src \in NamedPaths, NEW dst \in NamedPaths, fs_move(src, dst) PROVE TreeInv'
  BY <1>4 DEF fs_move, TreeInv, Intact
<1>5. ASSUME UNCHANGED store, UNCHANGED <<astray, overwritten, moved>>,
             held' \subseteq held, held' = {} \/ fd' = fd
      PROVE  TreeInv'
  <2>1. inode_bitmap' = inode_bitmap /\ inode' = inode
    BY <1>5 DEF inode_bitmap, store
  <2>2. ASSUME Intact PROVE DescriptorsAreFiles'
    <3>1. DescriptorsAreFiles
      BY <2>2 DEF TreeInv
    <3> QED BY <1>5, <2>1, <2>2, <3>1 DEF DescriptorsAreFiles
  <2> QED BY <1>5, <2>2, TreeStays
<1>6. ASSUME NEW f \in Fd, fs_close(f) PROVE TreeInv'
  BY <1>5, <1>6 DEF fs_close
<1>7. CASE fs_unmount
  BY <1>5, <1>7 DEF fs_unmount
<1>8. CASE fs_mount
  BY <1>5, <1>8 DEF fs_mount, descriptors
<1>9. CASE UNCHANGED vars
  BY <1>5, <1>9 DEF vars, store
<1> QED BY <1>1, <1>2, <1>3, <1>4, <1>6, <1>7, <1>8, <1>9 DEF Next

LEMMA TreeInvariance == Spec => []TreeInv
<1>1. Inv => BlocksExclusive
  BY DEF Inv
<1> QED BY <1>1, InitTree, NextTree, Invariance, TypeCorrect, PTL DEF Spec

(* However directories are created in one another, they form a tree: no    *)
(* file is entered twice, the root nowhere, and a directory has no name    *)
(* twice.                                                                  *)
THEOREM Tree == Spec => []TreeShape
<1>1. TreeInv => TreeShape
  BY DEF TreeInv, TreeShape
<1> QED BY <1>1, TreeInvariance, PTL

(* The bitmap that block 0 holds as a name is that of the files there are: *)
(* no create and no mount loses one, or keeps an inode nothing names.      *)
THEOREM MapOfInodes == Spec => []InodeMapExact
<1>1. TreeInv => InodeMapExact
  BY DEF TreeInv, InodeMapExact
<1> QED BY <1>1, TreeInvariance, PTL

(* A descriptor a caller holds is that of a regular file that exists.      *)
THEOREM HeldAreFiles == Spec => []DescriptorsAreFiles
<1>1. TreeInv => DescriptorsAreFiles
  BY DEF TreeInv, DescriptorsAreFiles
<1> QED BY <1>1, TreeInvariance, PTL


-----------------------------------------------------------------------------
(* The walk of fs_open beside the path.  In a directory of the tree, one   *)
(* entry at most matches a name: what is not set is blank.  It is entered  *)
(* there, or it is the bitmap in block 0, which a directory without        *)
(* entries has for its own.                                                *)
MatchIn(n, name) == {s \in Slot : InSlot(n, s).filename = name}

LEMMA MatchIsEntry ==
  ASSUME TypeOK, TreeInv, Intact, NEW n \in inode_bitmap, inode[n].fileType = "d",
         NEW name \in Names
  PROVE  /\ \A s \in MatchIn(n, name) :
              s \in Entries(n) \/ (s = 0 /\ inode[n].directPointer = 0 /\ name = inode_bitmap)
         /\ \A s, t \in MatchIn(n, name) : s = t
         /\ Entries(n) \subseteq inode[n].vacantFile /\ inode[n].vacantFile \subseteq Slot
         /\ MatchIn(n, name) \cap inode[n].vacantFile \subseteq Entries(n)
         /\ n \in Directories
<1>1. Kinds /\ EmptyBlocks /\ Packed /\ TreeShape
  BY DEF TreeInv
<1>2. n \in Inode /\ n \in Directories
  BY <1>1 DEF Kinds, Directories
<1>3. name # NoName
  BY NamesHaveBits
<1>4. inode[n].vacantFile \subseteq Slot /\ Entries(n) \subseteq inode[n].vacantFile
  BY <1>2, WalksStayInTable DEF Entries
<1>5. ASSUME NEW s \in MatchIn(n, name) PROVE s \in Slot /\ InSlot(n, s).filename = name
  BY <1>5 DEF MatchIn
<1>6. ASSUME NEW s \in MatchIn(n, name), inode[n].directPointer = 0
      PROVE  s = 0 /\ name = inode_bitmap
  <2>1. InSlot(n, s) = block[BitmapBlock][s]
    BY <1>6 DEF InSlot, BitmapBlock
  <2>2. s = 0
    BY <1>1, <1>3, <1>5, <2>1 DEF EmptyBlocks, Blank
  <2> QED BY <1>5, <2>1, <2>2 DEF inode_bitmap
<1>7. ASSUME NEW s \in MatchIn(n, name), inode[n].directPointer # 0 PROVE s \in Entries(n)
  <2>1. s \in inode[n].vacantFile
    BY <1>1, <1>2, <1>3, <1>5, <1>7 DEF Packed, PackedAt
  <2> QED BY <1>3, <1>5, <2>1 DEF Entries, InSlot
<1>8. ASSUME NEW s \in MatchIn(n, name), NEW t \in MatchIn(n, name) PROVE s = t
  <2>1. CASE inode[n].directPointer = 0
    BY <1>6, <2>1
  <2>2. CASE inode[n].directPointer # 0
    <3>1. s \in Entries(n) /\ t \in Entries(n)
      BY <1>7, <2>2
    <3>2. InSlot(n, s).filename = InSlot(n, t).filename
      BY <1>5
    <3> QED BY <1>1, <1>2, <3>1, <3>2 DEF TreeShape
  <2> QED BY <2>1, <2>2
<1>9. MatchIn(n, name) \cap inode[n].vacantFile \subseteq Entries(n)
  BY <1>3, <1>5 DEF Entries, InSlot
<1> QED BY <1>2, <1>4, <1>6, <1>7, <1>8, <1>9

(* A walk w and the files R that the same names lead to: the walk counted  *)
(* every name exactly if it is at the one file of R.                       *)
Beside(num, depth, R, k) ==
  depth <= k /\ R = IF depth = k THEN {num} ELSE {}

(* A name further, in a directory, looking at some of the slots: a walk    *)
(* that kept up takes an entry or none, and one that has fallen behind     *)
(* counts one name at most and stays behind.                               *)
LEMMA TurnBeside ==
  ASSUME TypeOK, TreeInv, Intact, NEW w \in Walker(inode_bitmap), NEW R, NEW k \in Nat,
         Beside(w.num, w.depth, R, k), NEW name \in Names, inode[w.num].fileType = "d",
         NEW slots \in SUBSET Slot, Entries(w.num) \subseteq slots,
         w.depth = k => MatchIn(w.num, name) \cap slots \subseteq Entries(w.num)
  PROVE  Beside(Follow(w, Hits(w.num, name, slots)).num, Follow(w, Hits(w.num, name, slots)).depth,
                ChildrenOf(R, name), k + 1)
<1> DEFINE n == w.num
           d == w.depth
           hits == Hits(n, name, slots)
           next == Follow(w, hits)
<1>1. n \in inode_bitmap /\ d \in Nat
  BY DEF Walker
<1>2. d # k => d < k /\ R = {} /\ ChildrenOf(R, name) = {}
  BY <1>1 DEF Beside, ChildrenOf
<1>3. d = k => ChildrenOf(R, name) = Children(n, name)
  BY DEF Beside, ChildrenOf
<1>4. hits \in SUBSET Slot /\ hits = MatchIn(n, name) \cap slots
  BY DEF Hits, MatchIn
<1>5. d <= k /\ k \in Nat /\ k + 1 # k /\ (d <= k => d # k + 1 /\ d <= k + 1)
  BY <1>1 DEF Beside
<1>6. \A s \in Entries(n) : InSlot(n, s).filename = name => s \in hits
  BY DEF Hits
<1> SUFFICES Beside(next.num, next.depth, ChildrenOf(R, name), k + 1)
  OBVIOUS
<1>7. CASE hits = {}
  <2>1. next = w /\ next.depth = d
    BY <1>4, <1>7, FollowGoes
  <2>2. ChildrenOf(R, name) = {}
    <3>1. Children(n, name) = {}
      BY <1>6, <1>7 DEF Children
    <3> QED BY <1>2, <1>3, <3>1
  <2> HIDE DEF next, d
  <2> QED BY <1>5, <2>1, <2>2 DEF Beside
<1>8. CASE hits # {}
  <2>1. PICK s \in hits, c \in Nat \ {0} :
          /\ Follow(w, hits) = At(w, InSlot(n, s).inodeNumber, d + c)
          /\ c = Cardinality(hits)
    BY <1>4, <1>8, FollowGoes
  <2>2. hits = {s}
    BY <1>1, <1>4, MatchIsEntry
  <2>3. c = 1
    BY <2>1, <2>2, FS_Singleton
  <2>4. next = At(w, InSlot(n, s).inodeNumber, d + 1)
    BY <2>1, <2>3
  <2>5. next.num = InSlot(n, s).inodeNumber /\ next.depth = d + 1
    BY <2>4 DEF At, Walker
  <2>6. CASE d = k
    <3>1. s \in Entries(n) /\ InSlot(n, s).filename = name
      BY <1>4, <2>2, <2>6 DEF MatchIn
    <3>2. \A t : (t \in Entries(n) /\ InSlot(n, t).filename = name) <=> t = s
      BY <1>6, <2>2, <3>1
    <3>3. Children(n, name) = {InSlot(n, s).inodeNumber}
      BY <3>2 DEF Children
    <3>4. ChildrenOf(R, name) = {next.num} /\ next.depth = k + 1
      BY <1>3, <2>5, <2>6, <3>3
    <3> HIDE DEF next
    <3> QED BY <1>5, <3>4 DEF Beside
  <2>7. CASE d # k
    <3>1. ChildrenOf(R, name) = {} /\ next.depth <= k + 1 /\ next.depth # k + 1
      BY <1>1, <1>2, <1>5, <2>5, <2>7
    <3> HIDE DEF next
    <3> QED BY <1>5, <3>1 DEF Beside
  <2> QED BY <2>6, <2>7
<1> QED BY <1>7, <1>8

(* At a file that is no directory, no name leads further. *)
LEMMA FileBeside ==
  ASSUME NEW num, NEW depth \in Nat, NEW R, NEW k \in Nat, Beside(num, depth, R, k),
         inode[num].fileType # "d", NEW name
  PROVE  Beside(num, depth, ChildrenOf(R, name), k + 1)
<1>1. Children(num, name) = {}
  BY DEF Children, Entries
<1>2. ChildrenOf(R, name) = {}
  BY <1>1 DEF Beside, ChildrenOf
<1>3. depth <= k + 1 /\ depth # k + 1
  BY DEF Beside
<1> QED BY <1>2, <1>3 DEF Beside

LEMMA OpenBeside ==
  ASSUME TypeOK, TreeInv, Intact, NEW w \in Walker(inode_bitmap), NEW R, NEW k \in Nat,
         Beside(w.num, w.depth, R, k), NEW name \in Names,
         (w.depth = k /\ w.num \in Directories /\ inode[w.num].directPointer = 0)
           => name # inode_bitmap
  PROVE  Beside(OpenToken(w, name).num, OpenToken(w, name).depth, ChildrenOf(R, name), k + 1)
<1>1. w.num \in inode_bitmap /\ w.depth \in Nat
  BY DEF Walker
<1>2. CASE inode[w.num].fileType # "d"
  BY <1>1, <1>2, FileBeside DEF OpenToken
<1>3. CASE inode[w.num].fileType = "d"
  <2>1. Entries(w.num) \subseteq Slot
    BY <1>1, <1>3, MatchIsEntry
  <2>2. w.depth = k => MatchIn(w.num, name) \cap Slot \subseteq Entries(w.num)
    BY <1>1, <1>3, MatchIsEntry
  <2>3. Slot \in SUBSET Slot
    OBVIOUS
  <2>4. Beside(Follow(w, Hits(w.num, name, Slot)).num, Follow(w, Hits(w.num, name, Slot)).depth,
               ChildrenOf(R, name), k + 1)
    BY <1>3, <2>1, <2>2, <2>3, TurnBeside
  <2> QED BY <1>3, <2>4 DEF OpenToken
<1> QED BY <1>2, <1>3

(* Two trails by the same names end at the same files. *)
GoesBy(g, p, j) == \A k \in 1 .. j : g[k] = ChildrenOf(g[k - 1], p[k])

LEMMA TrailsAgree ==
  ASSUME NEW j \in Nat, NEW p, NEW g, NEW h, g[0] = h[0], GoesBy(g, p, j), GoesBy(h, p, j)
  PROVE  g[j] = h[j]
<1> DEFINE Wrong == {k \in 0 .. j : g[k] # h[k]}
<1>1. Wrong = {}
  <2> SUFFICES ASSUME Wrong # {} PROVE FALSE
    OBVIOUS
  <2>1. Wrong \in SUBSET Nat
    OBVIOUS
  <2>2. PICK k \in Wrong : \A i \in Wrong : k <= i
    <3> HIDE DEF Wrong
    <3> QED BY <2>1, MinOfNaturals
  <2>3. k \in 1 .. j /\ k - 1 \in 0 .. j /\ ~ (k <= k - 1)
    BY <2>2
  <2>4. g[k - 1] = h[k - 1]
    BY <2>2, <2>3
  <2>5. g[k] = h[k]
    BY <2>3, <2>4 DEF GoesBy
  <2> QED BY <2>2, <2>5
<1> QED BY <1>1

(* What a path leads to after its first k names. *)
LEMMA TrailSoFar ==
  ASSUME TypeOK, TreeInv, Intact, NEW path \in NamedPaths,
         NEW h, IsTrail(h, Len(path), path), NEW k \in 0 .. Len(path)
  PROVE  h[k] = Resolve(SubSeq(path, 1, k))
<1> DEFINE m == Len(path)
           q == SubSeq(path, 1, k)
<1>1. m \in Nat /\ path \in Seq(Names) /\ DOMAIN path = 1 .. m
  <2>1. PICK j \in 1 .. MaxDepth : path \in [1 .. j -> Names]
    BY DEF NamedPaths
  <2>2. j \in Nat
    BY FileSystemConstants
  <2> QED BY <2>1, <2>2
<1>2. k \in Nat /\ DOMAIN q = 1 .. k /\ \A j \in 1 .. k : q[j] = path[j]
  BY <1>1
<1> HIDE DEF q, m
<1>3. PICK g : IsTrail(g, k, q)
  <2>1. PICK g \in [0 .. k -> SUBSET inode_bitmap] : IsTrail(g, k, q)
    BY ONLY TypeOK, TreeInv, Intact, <1>2, TrailInUse
  <2> QED BY <2>1
<1>4. g[k] = h[k]
  <2>1. k \in Nat
    BY <1>2
  <2>2. g[0] = h[0]
    BY <1>3 DEF IsTrail
  <2>3. \A j \in 1 .. k : g[j] = ChildrenOf(g[j - 1], q[j])
    BY <1>3 DEF IsTrail
  <2>4. \A j \in 1 .. k : h[j] = ChildrenOf(h[j - 1], path[j])
    BY <1>1, <1>2 DEF IsTrail, m
  <2>5. \A j \in 1 .. k : q[j] = path[j]
    BY <1>2
  <2>6. GoesBy(g, path, k)
    BY <2>3, <2>5 DEF GoesBy
  <2>7. GoesBy(h, path, k)
    BY <2>4 DEF GoesBy
  <2> QED BY ONLY <2>1, <2>2, <2>6, <2>7, TrailsAgree
<1> QED BY <1>3, <1>4 DEF IsTrail, q

LEMMA OpenIsResolve ==
  ASSUME TypeOK, TreeInv, Intact, NEW path \in NamedPaths, ~ AsksForBitmap(path)
  PROVE  Beside(WalkToFile(path).num, WalkToFile(path).depth, Resolve(path), Len(path))
<1> DEFINE m == Len(path)
<1>1. m \in Nat /\ DOMAIN path = 1 .. m /\ \A i \in 1 .. m : path[i] \in Names
  BY PathParts
<1>2. Leads(inode_bitmap)
  BY WalksStayInUse
<1>4. PICK g \in [0 .. m -> Walker(inode_bitmap)] :
        /\ g[0] = [num |-> root, depth |-> 0]
        /\ g[m] = WalkToFile(path)
        /\ \A k \in 1 .. m : g[k] = OpenToken(g[k - 1], path[k])
  <2> HIDE DEF m
  <2> QED BY ONLY <1>1, <1>2, OpenTrail
<1>3. PICK h \in [0 .. m -> SUBSET inode_bitmap] : IsTrail(h, m, path)
  BY <1>1, TrailInUse
<1>10. ASSUME NEW k \in 1 .. m, NEW n \in h[k - 1] \cap Directories,
              inode[n].directPointer = 0
       PROVE  path[k] # inode_bitmap
  <2>1. k - 1 \in 0 .. m
    BY <1>1
  <2>2. h[k - 1] = Resolve(SubSeq(path, 1, k - 1))
    BY <1>3, <2>1, TrailSoFar
  <2> QED BY <1>10, <2>2 DEF AsksForBitmap, BitmapBlock
<1> HIDE DEF m
<1>5. /\ h[0] = {root}
      /\ h[m] = Resolve(path)
      /\ \A k \in 1 .. m : h[k] = ChildrenOf(h[k - 1], path[k])
  BY <1>3 DEF IsTrail
<1> DEFINE P(k) == Beside(g[k].num, g[k].depth, h[k], k)
           Wrong == {k \in 0 .. m : ~ P(k)}
<1>6. P(0)
  BY <1>4, <1>5 DEF Beside
<1>7. ASSUME NEW k \in 0 .. m - 1, P(k) PROVE P(k + 1)
  <2>1. k \in Nat /\ k \in 0 .. m /\ k + 1 \in 1 .. m /\ (k + 1) - 1 = k
    BY <1>1
  <2>2. g[k] \in Walker(inode_bitmap) /\ path[k + 1] \in Names
    BY <1>1, <2>1
  <2>3. g[k + 1] = OpenToken(g[k], path[k + 1]) /\ h[k + 1] = ChildrenOf(h[k], path[k + 1])
    BY <1>4, <1>5, <2>1
  <2> DEFINE w == g[k]
             R == h[k]
             name == path[k + 1]
  <2>4. Beside(w.num, w.depth, R, k)
    BY <1>7
  <2>7. (w.depth = k /\ w.num \in Directories /\ inode[w.num].directPointer = 0)
          => name # inode_bitmap
    <3>1. w.depth = k => w.num \in h[(k + 1) - 1]
      BY <2>1, <2>4 DEF Beside
    <3> QED BY <1>10, <2>1, <3>1
  <2> HIDE DEF w, R, name
  <2>5. w \in Walker(inode_bitmap) /\ name \in Names /\ k \in Nat
    BY <2>1, <2>2 DEF w, name
  <2>6. Beside(OpenToken(w, name).num, OpenToken(w, name).depth, ChildrenOf(R, name), k + 1)
    BY ONLY TypeOK, TreeInv, Intact, <2>4, <2>5, <2>7, OpenBeside
  <2> QED BY <2>3, <2>6 DEF w, R, name
<1> HIDE DEF P
<1>8. Wrong = {}
  <2> SUFFICES ASSUME Wrong # {} PROVE FALSE
    OBVIOUS
  <2>1. Wrong \in SUBSET Nat
    BY <1>1
  <2>2. PICK k \in Wrong : \A j \in Wrong : k <= j
    BY <2>1, MinOfNaturals
  <2>3. k \in 0 .. m /\ ~ P(k) /\ k # 0
    BY <1>6, <2>2
  <2>4. k - 1 \in 0 .. m - 1 /\ k - 1 \in 0 .. m /\ k - 1 < k /\ (k - 1) + 1 = k
    BY <1>1, <2>3
  <2>5. P(k - 1)
    BY <1>1, <2>2, <2>4
  <2>6. P((k - 1) + 1)
    BY <1>7, <2>4, <2>5
  <2> QED BY <2>3, <2>4, <2>6
<1>9. P(m)
  BY <1>1, <1>8
<1> QED BY <1>4, <1>5, <1>9 DEF P, m

(* The walk of fs_open compares all entries with the name and never looks  *)
(* at their bits, and still it finds a file exactly where the path leads,  *)
(* but for a path that asks an empty directory for the bitmap's own name.  *)
THEOREM OpenFindsThePath == Spec => []OpenFinds
<1>1. TypeOK /\ TreeInv => OpenFinds
  <2> SUFFICES ASSUME TypeOK, TreeInv, Intact, NEW path \in NamedPaths,
                      ~ AsksForBitmap(path)
               PROVE  IF WalkToFile(path).depth = Len(path)
                      THEN Resolve(path) = {WalkToFile(path).num} ELSE Resolve(path) = {}
    BY DEF OpenFinds
  <2>1. Beside(WalkToFile(path).num, WalkToFile(path).depth, Resolve(path), Len(path))
    BY OpenIsResolve
  <2> QED BY <2>1 DEF Beside
<1> QED BY <1>1, TypeCorrect, TreeInvariance, PTL

-----------------------------------------------------------------------------
(* What was created stays.  A file is where its path leads as long as the  *)
(* entries on the way are kept; this is shown of every create that goes    *)
(* where its path leads, after a move too, and of the move itself.         *)
ResolveTrails ==
  TypeOK => \A len \in Nat : \A path :
    DOMAIN path = 1 .. len => \E g : IsTrail(g, len, path)

LEMMA TrailsNow == ResolveTrails
<1>1. ASSUME TypeOK, NEW len \in Nat, NEW path, DOMAIN path = 1 .. len
      PROVE  \E g : IsTrail(g, len, path)
  <2>1. Leads(Inode)
    BY <1>1, WalksStayInTable
  <2>2. \A n \in Inode : inode[n].vacantFile \subseteq Slot
    BY <1>1, WalksStayInTable
  <2> QED BY <1>1, <2>1, <2>2, ResolveTrail
<1> QED BY <1>1 DEF ResolveTrails

LEMMA TrailsNext == ResolveTrails'
BY TrailsNow, PTL

LEMMA ChildKept ==
  ASSUME NEW n, NEW name,
         \A s \in Entries(n) : InSlot(n, s).filename = name =>
           s \in Entries(n)' /\ InSlot(n, s)' = InSlot(n, s)
  PROVE  Children(n, name) \subseteq Children(n, name)'
<1> SUFFICES ASSUME NEW x \in Children(n, name) PROVE x \in Children(n, name)'
  OBVIOUS
<1>1. PICK s \in Entries(n) : InSlot(n, s).filename = name /\ x = InSlot(n, s).inodeNumber
  BY DEF Children
<1>2. s \in Entries(n)' /\ InSlot(n, s)' = InSlot(n, s)
  BY <1>1
<1>3. \A y : (\E t \in Entries(n)' : InSlot(n, t)'.filename = name /\ y = InSlot(n, t)'.inodeNumber)
               => y \in Children(n, name)'
  BY DEF Children
<1> QED BY <1>1, <1>2, <1>3

(* When the steps of a trail are kept, the next one is around it.          *)
StepsKept(h, m, path) ==
  \A k \in 1 .. m : \A n \in h[k - 1] : Children(n, path[k]) \subseteq Children(n, path[k])'

Around(g, h, m, path) ==
  /\ g[m] = Resolve(path)' /\ \A k \in 0 .. m : h[k] \subseteq g[k]
  /\ \A k \in 1 .. m : g[k] = ChildrenOf(g[k - 1], path[k])'

LEMMA ResolveKeeps ==
  ASSUME TypeOK', NEW m, m \in Nat, NEW path, DOMAIN path = 1 .. m, NEW h,
         IsTrail(h, m, path), StepsKept(h, m, path)
  PROVE  \E g : Around(g, h, m, path)
<1> USE DEF IsTrail, StepsKept
<1>1. PICK g \in [0 .. m -> SUBSET Inode] :
        /\ g[0] = {root} /\ g[m] = Resolve(path)'
        /\ \A k \in 1 .. m : g[k] = ChildrenOf(g[k - 1], path[k])'
  <2>1. PICK g : IsTrail(g, m, path)'
    BY TrailsNext DEF ResolveTrails
  <2> QED BY <2>1 DEF IsTrail, root, Inode
<1> DEFINE Wrong == {k \in 0 .. m : ~ (h[k] \subseteq g[k])}
<1>2. Wrong = {}
  <2> SUFFICES ASSUME Wrong # {} PROVE FALSE
    OBVIOUS
  <2>1. Wrong \in SUBSET Nat
    OBVIOUS
  <2>2. PICK k \in Wrong : \A i \in Wrong : k <= i
    <3> HIDE DEF Wrong
    <3> QED BY <2>1, MinOfNaturals
  <2>3. k \in 1 .. m /\ k - 1 \in 0 .. m /\ ~ (k <= k - 1)
    BY <1>1, <2>2
  <2>4. h[k - 1] \subseteq g[k - 1]
    BY <2>2, <2>3
  <2>5. ASSUME NEW x \in h[k] PROVE x \in g[k]
    <3>1. PICK n \in h[k - 1] : x \in Children(n, path[k])
      BY <2>3, <2>5 DEF ChildrenOf
    <3>2. n \in g[k - 1] /\ x \in Children(n, path[k])'
      BY <2>3, <2>4, <3>1
    <3>3. g[k] = ChildrenOf(g[k - 1], path[k])'
      BY <1>1, <2>3
    <3> QED BY <3>2, <3>3 DEF ChildrenOf
  <2> QED BY <2>2, <2>5
<1> QED BY <1>1, <1>2 DEF Around

(* What the creates after a move still find of the tree.                   *)
Sound ==
  /\ root \in inode_bitmap
  /\ \A n \in Inode \ inode_bitmap : inode[n].fileType = "-"
  /\ \A n \in Inode : inode[n].directPointer = 0 => inode[n].vacantFile = {}

StayInv ==
  /\ overwritten => asked = {}
  /\ ~ astray /\ ~ overwritten => Sound
  /\ FilesStay

(* Every entry of every directory is where it was.                         *)
Keeps ==
  \A n \in Inode : \A s \in Entries(n) : s \in Entries(n)' /\ InSlot(n, s)' = InSlot(n, s)

LEMMA KeptTrail ==
  ASSUME TypeOK', Keeps, NEW m, m \in Nat, NEW path, DOMAIN path = 1 .. m, NEW h, IsTrail(h, m, path)
  PROVE  \E g : Around(g, h, m, path)
<1>1. \A k \in 0 .. m : h[k] \subseteq Inode
  BY DEF IsTrail
<1>2. ASSUME NEW k \in 1 .. m, NEW n \in h[k - 1]
      PROVE  Children(n, path[k]) \subseteq Children(n, path[k])'
  <2>1. n \in Inode
    <3>1. k - 1 \in 0 .. m
      OBVIOUS
    <3> QED BY <1>1, <3>1
  <2>2. \A s \in Entries(n) : s \in Entries(n)' /\ InSlot(n, s)' = InSlot(n, s)
    BY <2>1 DEF Keeps
  <2> QED BY <2>2, ChildKept
<1>3. StepsKept(h, m, path)
  BY <1>2 DEF StepsKept
<1> QED BY <1>3, ResolveKeeps

LEMMA KeptFiles ==
  ASSUME TypeOK, TypeOK', Keeps, NEW a \in NamedPaths \X Inode, a[2] \in Resolve(a[1])
  PROVE  a[2] \in Resolve(a[1])'
<1> DEFINE path == a[1]
           m == Len(path)
<1>1. path \in NamedPaths
  OBVIOUS
<1>2. m \in Nat /\ DOMAIN path = 1 .. m
  BY <1>1, PathParts
<1> HIDE DEF m
<1>3. PICK h : IsTrail(h, m, path)
  BY <1>2, TrailsNow DEF ResolveTrails
<1>4. PICK g : Around(g, h, m, path)
  BY <1>2, <1>3, KeptTrail
<1>5. h[m] = Resolve(path)
  BY <1>3 DEF IsTrail
<1>6. h[m] \subseteq g[m] /\ g[m] = Resolve(path)'
  BY <1>2, <1>4 DEF Around
<1> QED BY <1>5, <1>6

(* What fs_create does to the parent n0: the entry z, which was free, and  *)
(* the block p, which is new when it is the first one of the directory.    *)
Grown(n0, z, p) ==
  /\ n0 \in Inode /\ inode[n0].fileType = "d"
  /\ z \in Slot /\ z \notin inode[n0].vacantFile
  /\ p \in DataBlock /\ p # 0
  /\ z = 0 => p \notin used
  /\ z # 0 => p = inode[n0].directPointer

GrownInode(n0, z, p) ==
  [inode[n0] EXCEPT !.vacantFile = @ \cup {z}, !.directPointer = p]

LEMMA GrowBlank ==
  ASSUME TypeOK, Sound, NEW n0, NEW z, NEW p, Grown(n0, z, p),
         inode' = [inode EXCEPT ![n0] = GrownInode(n0, z, p)], UNCHANGED block
  PROVE  Sound' /\ (~ (z = 0 /\ inode[n0].vacantFile # {}) => Keeps)
<1> USE DEF Grown
<1>1. /\ inode'[n0].fileType = "d" /\ inode'[n0].vacantFile = inode[n0].vacantFile \cup {z}
      /\ inode'[n0].directPointer = p
      /\ \A n \in Inode \ {n0} : inode'[n] = inode[n]
  BY DEF GrownInode, TypeOK
<1>2. inode_bitmap' = inode_bitmap
  BY DEF inode_bitmap
<1>3. Sound'
  <2>1. /\ \A n \in Inode \ inode_bitmap : inode'[n].fileType = "-"
        /\ \A n \in Inode : inode'[n].directPointer = 0 => inode'[n].vacantFile = {}
    BY <1>1 DEF Sound
  <2> QED BY <1>2, <2>1 DEF Sound
<1>4. ASSUME ~ (z = 0 /\ inode[n0].vacantFile # {}), NEW n \in Inode, NEW s \in Entries(n)
      PROVE  s \in Entries(n)' /\ InSlot(n, s)' = InSlot(n, s)
  <2>1. CASE n # n0
    BY <1>1, <2>1 DEF Entries, InSlot
  <2>2. CASE n = n0
    <3>1. s \in inode[n0].vacantFile /\ InSlot(n0, s).filename # NoName
      BY <2>2 DEF Entries, InSlot
    <3>2. inode'[n0].directPointer = inode[n0].directPointer
      BY <1>1, <1>4, <3>1
    <3> QED BY <1>1, <2>2, <3>1, <3>2 DEF Entries, InSlot
  <2> QED BY <2>1, <2>2
<1> QED BY <1>3, <1>4 DEF Keeps

LEMMA GrowEntry ==
  ASSUME TypeOK, BlocksExclusive, Sound, NEW n0, NEW z, NEW p, Grown(n0, z, p),
         NEW id \in Inode \ inode_bitmap, NEW type \in {"r", "d"}, NEW name, name # NoName,
         inode' = [inode EXCEPT ![n0] = GrownInode(n0, z, p), ![id] = NewInode(type)],
         block' = [MarkInode(block, id) EXCEPT
                     ![p] = [block[inode[n0].directPointer] EXCEPT
                               ![z] = [filename |-> name, inodeNumber |-> id]]]
  PROVE  /\ Sound' /\ Keeps
         /\ id \in Children(n0, name)'
<1> USE DEF Grown
<1> DEFINE old == inode[n0].directPointer
           entry == [filename |-> name, inodeNumber |-> id]
<1>1. n0 # id /\ 0 \in Slot /\ inode[id].fileType = "-"
  <2>1. inode[id].fileType = "-"
    BY DEF Sound
  <2> QED BY <2>1, FileSystemConstants DEF Slot
<1>2. /\ inode'[n0].fileType = "d" /\ inode'[n0].vacantFile = inode[n0].vacantFile \cup {z}
      /\ inode'[n0].directPointer = p
      /\ inode'[id].vacantFile = {}
      /\ \A n \in Inode \ {n0, id} : inode'[n] = inode[n]
  BY <1>1 DEF GrownInode, NewInode, TypeOK
<1>3. /\ \A b \in DataBlock \ {p} : block'[b] = block[b]
      /\ block'[p][z] = entry
      /\ \A s \in Slot \ {z} : block'[p][s] = block[old][s]
      /\ block'[BitmapBlock] = [block[BitmapBlock] EXCEPT ![0].filename = @ \cup {id}]
  <2>1. /\ BitmapBlock \in {BitmapBlock} \cup DataBlock /\ BitmapBlock # p
        /\ \A b \in DataBlock : b \in {BitmapBlock} \cup DataBlock /\ b # BitmapBlock
        /\ p \in {BitmapBlock} \cup DataBlock
    BY FileSystemConstants DEF BitmapBlock, DataBlock
  <2> DEFINE marked  == [block[BitmapBlock] EXCEPT ![0].filename = @ \cup {id}]
             written == [block[old] EXCEPT ![z] = entry]
             d       == {BitmapBlock} \cup DataBlock
  <2>2. block \in [d -> [Slot -> Entry]] /\ block[old] \in [Slot -> Entry]
    BY DEF TypeOK, BitmapBlock
  <2>3. block' = [[block EXCEPT ![BitmapBlock] = marked] EXCEPT ![p] = written]
    BY DEF MarkInode
  <2>4. written[z] = entry /\ \A s \in Slot \ {z} : written[s] = block[old][s]
    BY <2>2
  <2> HIDE DEF marked, written, d
  <2>5. \A b \in d : block'[b] = IF b = p THEN written ELSE IF b = BitmapBlock THEN marked ELSE block[b]
    BY <2>2, <2>3
  <2>6. p \in d /\ BitmapBlock \in d /\ \A b \in DataBlock : b \in d
    BY <2>1 DEF d
  <2>7. block'[p] = written
    BY <2>5, <2>6
  <2> HIDE DEF entry, old
  <2> QED BY <2>1, <2>4, <2>5, <2>6, <2>7 DEF marked
<1>4. inode_bitmap' = inode_bitmap \cup {id}
  <2> DEFINE b0 == block[BitmapBlock]
             e == [b0[0] EXCEPT !.filename = @ \cup {id}]
  <2>1. b0 \in [Slot -> Entry] /\ inode_bitmap = b0[0].filename
    BY DEF TypeOK, inode_bitmap
  <2>2. e.filename = inode_bitmap \cup {id}
    BY <1>1, <2>1 DEF Entry
  <2>3. block'[BitmapBlock] = [b0 EXCEPT ![0] = e]
    BY <1>3
  <2> HIDE DEF e, b0
  <2>4. block'[BitmapBlock][0] = e
    BY ONLY <1>1, <2>1, <2>3
  <2> QED BY <2>2, <2>4 DEF inode_bitmap, BitmapBlock
<1> HIDE DEF old, entry
<1>5. Sound'
  <2>1. \A n \in Inode \ inode_bitmap' : inode'[n].fileType = "-"
    <3>1. n0 \in inode_bitmap
      BY DEF Sound
    <3>2. \A n \in Inode \ inode_bitmap' : n \in Inode \ {n0, id} /\ n \notin inode_bitmap
      BY <1>4, <3>1
    <3> QED BY <1>2, <3>2 DEF Sound
  <2>2. \A n \in Inode : inode'[n].directPointer = 0 => inode'[n].vacantFile = {}
    BY <1>2 DEF Sound
  <2>3. root \in inode_bitmap'
    BY <1>4 DEF Sound
  <2>4. root' = root /\ Inode' = Inode
    BY DEF root, Inode
  <2> QED BY <2>1, <2>2, <2>3, <2>4, Zenon DEF Sound
<1>6. ASSUME NEW n \in Inode, NEW s \in Entries(n)
      PROVE  s \in Entries(n)' /\ InSlot(n, s)' = InSlot(n, s)
  <2>1. /\ inode[n].fileType = "d" /\ s \in inode[n].vacantFile
        /\ InSlot(n, s).filename # NoName /\ n # id /\ s \in Slot
    BY <1>1, WalksStayInTable DEF Entries, InSlot
  <2>2. inode[n].directPointer \in DataBlock /\ inode[n].directPointer \in used
    BY <2>1 DEF Sound, TypeOK, BlocksExclusive
  <2>3. CASE n # n0
    <3>1. inode'[n] = inode[n]
      BY <1>2, <2>1, <2>3
    <3>2. inode[n].directPointer # p
      BY <2>2, <2>3, <2>1 DEF BlocksExclusive, Sound
    <3>3. InSlot(n, s)' = InSlot(n, s)
      BY <1>3, <2>2, <3>1, <3>2 DEF InSlot
    <3> QED BY <2>1, <3>1, <3>3 DEF Entries, InSlot
  <2>4. CASE n = n0
    <3>1. InSlot(n0, s)' = InSlot(n0, s)
      <4>1. s # z
        BY <2>1, <2>4
      <4>2. InSlot(n0, s)' = block'[p][s] /\ InSlot(n0, s) = block[old][s]
        BY <1>2 DEF InSlot, old
      <4> QED BY <1>3, <2>1, <4>1, <4>2
    <3> QED BY <1>2, <2>1, <2>4, <3>1 DEF Entries, InSlot
  <2> QED BY <2>3, <2>4
<1>7. z \in Entries(n0)' /\ InSlot(n0, z)' = [filename |-> name, inodeNumber |-> id]
  <2>1. InSlot(n0, z)' = [filename |-> name, inodeNumber |-> id]
    BY <1>2, <1>3 DEF InSlot, entry
  <2>2. InSlot(n0, z)'.filename # NoName
    BY <2>1
  <2>3. z \in inode'[n0].vacantFile /\ inode'[n0].fileType = "d"
    BY <1>2
  <2> QED BY <2>1, <2>2, <2>3 DEF Entries, InSlot
<1>8. id \in Children(n0, name)'
  <2>1. InSlot(n0, z)'.filename = name /\ InSlot(n0, z)'.inodeNumber = id
    BY <1>7
  <2> QED BY <1>7, <2>1 DEF Children
<1> QED BY <1>5, <1>6, <1>8 DEF Keeps

LEMMA CreateStays ==
  ASSUME TypeOK, TypeOK', BlocksExclusive, StayInv,
         NEW path \in NamedPaths, NEW type \in {"r", "d"}, fs_create(path, type)
  PROVE  StayInv'
<1> DEFINE w          == WalkToParent(Front(path))
           num         == w.num
           parent     == inode[num]
           first_zero          == Ffz(parent.vacantFile, 0 .. folder_number_entries)
           new_block  == Ffz(used, DataBlock)
           pointer    == PointerTo(parent, first_zero, new_block)
           new_id     == Ffz(inode_bitmap, Inode)
           entry      == [filename |-> Last(path), inodeNumber |-> new_id]
<1>1. /\ parent.fileType = "d" /\ HasRoom(first_zero)
      /\ first_zero = 0 => DataBlock \ used # {}
      /\ \/ /\ inode' = [inode EXCEPT ![num] = GrownInode(num, first_zero, pointer)]
            /\ UNCHANGED block
            /\ asked' = IF first_zero = 0 /\ parent.vacantFile # {} THEN {} ELSE asked
         \/ /\ ~ (Inode \subseteq inode_bitmap)
            /\ inode' = [inode EXCEPT ![num] = GrownInode(num, first_zero, pointer), ![new_id] = NewInode(type)]
            /\ block' = [MarkInode(block, new_id) EXCEPT ![pointer] = [w.directory EXCEPT ![first_zero] = entry]]
            /\ asked' = IF overwritten THEN asked ELSE asked \cup {<<path, new_id>>}
      /\ astray' = (astray \/ ~ WalkIsRight(w, Front(path)))
      /\ overwritten' = overwritten
  BY DEF fs_create, GrownInode
<1>2. overwritten' => asked' = {}
  <2>1. overwritten => asked = {}
    BY DEF StayInv
  <2> HIDE DEF w, new_id
  <2> QED BY <1>1, <2>1
<1>3. CASE overwritten \/ astray'
  <2>1. FilesStay'
    BY <1>1, <1>2, <1>3 DEF FilesStay
  <2> QED BY <1>1, <1>2, <1>3, <2>1 DEF StayInv
<1>4. CASE ~ overwritten /\ ~ astray'
  <2>1. ~ astray /\ WalkIsRight(w, Front(path))
    BY <1>1, <1>4
  <2> HIDE DEF w
  <2>2. Sound /\ \A a \in asked : a[2] \in Resolve(a[1])
    BY <1>4, <2>1 DEF StayInv, FilesStay
  <2>3. Resolve(Front(path)) = {num} /\ w.directory = block[parent.directPointer]
    BY <2>1 DEF WalkIsRight
  <2> DEFINE m == Len(path)
             j == m - 1
  <2>4. /\ m \in Nat \ {0} /\ j \in Nat /\ DOMAIN path = 1 .. m /\ DOMAIN Front(path) = 1 .. j
        /\ j + 1 = m /\ \A i \in 1 .. j : Front(path)[i] = path[i]
        /\ Last(path) = path[m] /\ Last(path) # NoName
    BY PathParts, NamesHaveBits DEF NoName, Last
  <2> HIDE DEF m, j
  <2>5. PICK e : IsTrail(e, j, Front(path))
    BY <2>4, TrailsNow DEF ResolveTrails
  <2>6. e[j] = {num} /\ num \in Inode
    BY <2>3, <2>4, <2>5 DEF IsTrail
  <2> HIDE DEF num
  <2>7. parent.vacantFile \subseteq Slot /\ folder_number_entries \in Nat
    BY <2>6, WalksStayInTable, FileSystemConstants
  <2>8. /\ first_zero \in 0 .. folder_number_entries /\ first_zero \notin parent.vacantFile
        /\ \A x \in 0 .. folder_number_entries : x \notin parent.vacantFile => first_zero <= x
    <3> DEFINE free == (0 .. folder_number_entries) \ parent.vacantFile
    <3>1. folder_number_entries \in free
      BY <2>7 DEF Slot
    <3>2. free \in SUBSET Nat /\ free # {} /\ first_zero = Min(free)
      BY <3>1 DEF Ffz
    <3> HIDE DEF free, first_zero
    <3>3. first_zero \in free /\ \A x \in free : first_zero <= x
      BY <3>2, MinOfNaturals
    <3> QED BY <3>3 DEF free
  <2> HIDE DEF first_zero
  <2>9. first_zero \in Slot
    BY <1>1, <2>7, <2>8 DEF HasRoom, Slot
  <2>10. first_zero # 0 => 0 \in parent.vacantFile
    <3>1. 0 \in 0 .. folder_number_entries /\ (first_zero # 0 => ~ (first_zero <= 0))
      BY <2>7, <2>8
    <3> QED BY <2>8, <3>1
  <2>11. DataBlock \in SUBSET Nat /\ 0 \notin DataBlock
    BY FileSystemConstants DEF DataBlock
  <2>12. first_zero = 0 => new_block \in DataBlock \ used
    BY <1>1, <2>11, FfzIsFree
  <2>13. first_zero # 0 => parent.directPointer \in DataBlock
    BY <2>2, <2>6, <2>10 DEF Sound, TypeOK
  <2>14. Grown(num, first_zero, pointer)
    BY <1>1, <2>6, <2>8, <2>9, <2>11, <2>12, <2>13 DEF Grown, PointerTo
  <2> HIDE DEF pointer, new_block, new_id
  <2>17. PICK n0, z, p, id : n0 = num /\ z = first_zero /\ p = pointer /\ id = new_id
    OBVIOUS
  <2>18. Grown(n0, z, p) /\ n0 \in Inode /\ e[j] = {n0}
    BY <2>6, <2>14, <2>17
  <2>15. CASE /\ inode' = [inode EXCEPT ![n0] = GrownInode(n0, z, p)]
              /\ UNCHANGED block
              /\ asked' = IF z = 0 /\ inode[n0].vacantFile # {} THEN {} ELSE asked
    <3>1. Sound' /\ (~ (z = 0 /\ inode[n0].vacantFile # {}) => Keeps)
      BY <2>2, <2>18, <2>15, GrowBlank
    <3>2. FilesStay'
      <4>1. CASE z = 0 /\ inode[n0].vacantFile # {}
        BY <2>15, <4>1 DEF FilesStay
      <4>2. CASE ~ (z = 0 /\ inode[n0].vacantFile # {})
        <5>1. ASSUME NEW a \in asked PROVE a[2] \in Resolve(a[1])'
          <6>1. a \in NamedPaths \X Inode
            BY DEF TypeOK
          <6> QED BY <2>2, <3>1, <4>2, <6>1, KeptFiles
        <5> QED BY <2>15, <4>2, <5>1 DEF FilesStay
      <4> QED BY <4>1, <4>2
    <3> QED BY <1>2, <3>1, <3>2 DEF StayInv
  <2>16. CASE /\ ~ (Inode \subseteq inode_bitmap)
              /\ inode' = [inode EXCEPT ![n0] = GrownInode(n0, z, p), ![id] = NewInode(type)]
              /\ block' = [MarkInode(block, id) EXCEPT ![p] = [w.directory EXCEPT ![z] = [filename |-> Last(path), inodeNumber |-> id]]]
              /\ asked' = IF overwritten THEN asked ELSE asked \cup {<<path, id>>}
    <3>1. id \in Inode \ inode_bitmap
      <4>1. Inode \in SUBSET Nat
        BY DEF Inode
      <4> QED BY <2>16, <2>17, <4>1, FfzIsFree DEF new_id
    <3> DEFINE name == Last(path)
    <3>2. block' = [MarkInode(block, id) EXCEPT
                      ![p] = [block[inode[n0].directPointer] EXCEPT
                                ![z] = [filename |-> name, inodeNumber |-> id]]]
      BY <2>3, <2>16, <2>17
    <3>3. inode' = [inode EXCEPT ![n0] = GrownInode(n0, z, p), ![id] = NewInode(type)]
          /\ name # NoName
      BY <2>4, <2>16
    <3> HIDE DEF name
    <3>4. Sound' /\ Keeps /\ id \in Children(n0, name)'
      <4>1. /\ inode' = [inode EXCEPT ![n0] = GrownInode(n0, z, p), ![id] = NewInode(type)]
            /\ Sound /\ name # NoName /\ type \in {"r", "d"}
        BY <2>2, <3>3
      <4> QED BY ONLY TypeOK, BlocksExclusive, <2>18, <3>1, <3>2, <4>1, GrowEntry
    <3>5. ASSUME NEW a \in asked PROVE a[2] \in Resolve(a[1])'
      <4>1. a \in NamedPaths \X Inode
        BY DEF TypeOK
      <4> QED BY <2>2, <3>4, <4>1, KeptFiles
    <3>6. id \in Resolve(path)'
      <4>0. m \in Nat
        BY <2>4
      <4>1. PICK h : IsTrail(h, m, path)
        BY <2>4, <4>0, TrailsNow DEF ResolveTrails
      <4>2. \A k \in 1 .. j : k \in 1 .. m
        BY <2>4
      <4>3. h[j] = e[j]
        <5>1. h[0] = e[0]
          BY <2>5, <4>1 DEF IsTrail
        <5>2. \A k \in 1 .. j : h[k] = ChildrenOf(h[k - 1], path[k])
          BY <4>1, <4>2 DEF IsTrail
        <5>3. \A k \in 1 .. j : e[k] = ChildrenOf(e[k - 1], Front(path)[k])
          BY <2>5 DEF IsTrail
        <5>4. \A k \in 1 .. j : path[k] = Front(path)[k]
          BY <2>4
        <5>5. j \in Nat
          BY <2>4
        <5>6. GoesBy(h, path, j)
          BY <5>2 DEF GoesBy
        <5>7. GoesBy(e, path, j)
          BY <5>3, <5>4 DEF GoesBy
        <5> QED BY ONLY <5>1, <5>5, <5>6, <5>7, TrailsAgree
      <4>4. PICK g : Around(g, h, m, path)
        BY <2>4, <4>0, <3>4, <4>1, KeptTrail
      <4>5. /\ g[m] = Resolve(path)' /\ n0 \in g[j]
            /\ g[m] = ChildrenOf(g[j], path[m])'
        <5>1. m \in 1 .. m /\ m - 1 = j /\ j \in 0 .. m
          BY <2>4
        <5> QED BY <2>18, <4>3, <4>4, <5>1 DEF Around
      <4>6. id \in Children(n0, path[m])'
        BY <2>4, <3>4 DEF name
      <4>7. ChildrenOf(g[j], path[m])' = UNION {Children(n, path[m])' : n \in g[j]}
        BY DEF ChildrenOf
      <4> QED BY <4>5, <4>6, <4>7
    <3>7. FilesStay'
      <4>1. asked' = asked \cup {<<path, id>>}
        BY <1>4, <2>16
      <4>2. \A a \in asked' : a[2] \in Resolve(a[1])'
        BY <3>5, <3>6, <4>1
      <4> QED BY <4>2 DEF FilesStay
    <3> QED BY <1>2, <3>4, <3>7 DEF StayInv
  <2> QED BY <1>1, <2>15, <2>16, <2>17
<1> QED BY <1>3, <1>4


(* The walk of fs_move looks only at the entries whose bit is set, so that *)
(* block 0 answers for no empty directory and every path is followed.      *)
LEMMA MoveBeside ==
  ASSUME TypeOK, TreeInv, Intact, NEW D, NEW w \in Mover(inode_bitmap, D), NEW R, NEW k \in Nat,
         Beside(w.num, w.depth, R, k), NEW name \in Names
  PROVE  Beside(MoveToken(w, name).num, MoveToken(w, name).depth, ChildrenOf(R, name), k + 1)
<1>1. w.num \in inode_bitmap /\ w.depth \in Nat
  BY DEF Mover
<1>2. CASE inode[w.num].fileType # "d"
  BY <1>1, <1>2, FileBeside DEF MoveToken
<1>3. CASE inode[w.num].fileType = "d"
  <2> DEFINE slots == inode[w.num].vacantFile
             hits == Hits(w.num, name, slots)
  <2>1. /\ slots \in SUBSET Slot /\ Entries(w.num) \subseteq slots
        /\ MatchIn(w.num, name) \cap slots \subseteq Entries(w.num)
    BY <1>1, <1>3, MatchIsEntry
  <2>2. PICK v \in Walker(inode_bitmap) : v.num = w.num /\ v.depth = w.depth
    <3>1. [num |-> w.num, depth |-> w.depth] \in Walker(inode_bitmap)
      BY <1>1 DEF Walker
    <3> QED BY <3>1
  <2>3. Beside(v.num, v.depth, R, k) /\ inode[v.num].fileType = "d"
    BY <1>3, <2>2
  <2>4. Beside(Follow(v, Hits(v.num, name, slots)).num, Follow(v, Hits(v.num, name, slots)).depth,
               ChildrenOf(R, name), k + 1)
    <3> HIDE DEF slots
    <3> QED BY <2>1, <2>2, <2>3, TurnBeside
  <2> HIDE DEF hits
  <2>5. Follow(w, hits).num = Follow(v, hits).num /\ Follow(w, hits).depth = Follow(v, hits).depth
    BY <2>2 DEF Follow, Mover, Walker
  <2>6. /\ MoveToken(w, name).num = Follow(w, hits).num
        /\ MoveToken(w, name).depth = Follow(w, hits).depth
    BY <1>3 DEF MoveToken, RemoveToken, hits
  <2>7. Beside(Follow(v, hits).num, Follow(v, hits).depth, ChildrenOf(R, name), k + 1)
    BY <2>2, <2>4 DEF hits
  <2> QED BY <2>5, <2>6, <2>7
<1> QED BY <1>2, <1>3

LEMMA MoveIsResolve ==
  ASSUME TypeOK, TreeInv, Intact, NEW m, m \in Nat, NEW path, DOMAIN path = 1 .. m,
         \A i \in 1 .. m : path[i] \in Names
  PROVE  /\ WalkToDirectory(path).num \in inode_bitmap
         /\ Beside(WalkToDirectory(path).num, WalkToDirectory(path).depth, Resolve(path), m)
<1>1. Leads(inode_bitmap)
  BY WalksStayInUse
<1>2. \A n \in inode_bitmap : inode[n].vacantFile \subseteq Slot
  BY WalksStayInTable DEF TreeInv, Kinds
<1>0. m \in Nat /\ DOMAIN path = 1 .. m
  OBVIOUS
<1>3. EmptyBuffer \in Directory
  BY WalksStayInTable
<1>11. \A n \in inode_bitmap : block[inode[n].directPointer] \in Directory
  BY WalksStayInTable DEF TreeInv, Kinds
<1>4. PICK g \in [0 .. m -> Mover(inode_bitmap, Directory)] :
        /\ g[0] = [num |-> root, depth |-> 0, directory |-> EmptyBuffer]
        /\ g[m] = WalkToDirectory(path)
        /\ \A k \in 1 .. m : g[k] = MoveToken(g[k - 1], path[k])
  BY ONLY <1>0, <1>1, <1>2, <1>3, <1>11, MoveTrail
<1>5. PICK h \in [0 .. m -> SUBSET inode_bitmap] :
        /\ h[0] = {root}
        /\ h[m] = Resolve(path)
        /\ \A k \in 1 .. m : h[k] = ChildrenOf(h[k - 1], path[k])
  <2>1. PICK h \in [0 .. m -> SUBSET inode_bitmap] : IsTrail(h, m, path)
    BY TrailInUse
  <2> QED BY <2>1 DEF IsTrail
<1> DEFINE P(k) == Beside(g[k].num, g[k].depth, h[k], k)
           Wrong == {k \in 0 .. m : ~ P(k)}
<1>6. P(0)
  BY <1>4, <1>5 DEF Beside
<1>7. ASSUME NEW k \in 1 .. m, P(k - 1) PROVE P(k)
  <2>1. k - 1 \in Nat /\ k - 1 \in 0 .. m /\ (k - 1) + 1 = k
    OBVIOUS
  <2> DEFINE w == g[k - 1]
             R == h[k - 1]
             name == path[k]
             prev == k - 1
  <2>2. w \in Mover(inode_bitmap, Directory) /\ name \in Names
    BY <2>1
  <2>3. g[k] = MoveToken(w, name) /\ h[k] = ChildrenOf(R, name)
    BY <1>4, <1>5
  <2>4. Beside(w.num, w.depth, R, prev) /\ prev \in Nat /\ prev + 1 = k
    BY <1>7, <2>1
  <2> HIDE DEF w, R, name, prev
  <2>5. Beside(MoveToken(w, name).num, MoveToken(w, name).depth, ChildrenOf(R, name), prev + 1)
    BY ONLY TypeOK, TreeInv, Intact, <2>2, <2>4, MoveBeside
  <2> QED BY <2>3, <2>4, <2>5
<1> HIDE DEF P
<1>8. Wrong = {}
  <2> SUFFICES ASSUME Wrong # {} PROVE FALSE
    OBVIOUS
  <2>1. Wrong \in SUBSET Nat
    OBVIOUS
  <2>2. PICK k \in Wrong : \A j \in Wrong : k <= j
    <3> HIDE DEF Wrong
    <3> QED BY <2>1, MinOfNaturals
  <2>3. k \in 1 .. m /\ k - 1 \in 0 .. m /\ ~ (k <= k - 1)
    BY <1>6, <2>2
  <2>4. P(k - 1)
    BY <2>2, <2>3
  <2> QED BY <1>7, <2>2, <2>3, <2>4
<1>9. P(m)
  BY <1>8
<1>10. g[m] \in Mover(inode_bitmap, Directory)
  OBVIOUS
<1> QED BY <1>4, <1>5, <1>9, <1>10 DEF P, Mover

(* In the tree a file is entered under one name in one directory, so no    *)
(* two trails meet, unless their names are the same up to there.           *)
LEMMA OneParent ==
  ASSUME TypeOK, TreeInv, Intact, NEW d \in inode_bitmap, NEW e \in inode_bitmap, NEW a, NEW b, NEW n,
         n \in Children(d, a)
  PROVE  n # root /\ (n \in Children(e, b) => d = e /\ a = b)
<1>1. TreeShape /\ Kinds
  BY DEF TreeInv
<1>2. \A x \in inode_bitmap : Entries(x) # {} => x \in Directories
  BY <1>1 DEF Kinds, Entries, Directories
<1>3. PICK s \in Entries(d) : InSlot(d, s).filename = a /\ n = InSlot(d, s).inodeNumber
  BY DEF Children
<1>4. n # root
  BY <1>1, <1>2, <1>3 DEF TreeShape, Named
<1>5. ASSUME n \in Children(e, b) PROVE d = e /\ a = b
  <2>1. PICK t \in Entries(e) : InSlot(e, t).filename = b /\ n = InSlot(e, t).inodeNumber
    BY <1>5 DEF Children
  <2>2. d = e /\ s = t
    BY <1>1, <1>2, <1>3, <2>1 DEF TreeShape
  <2> QED BY <1>3, <2>1, <2>2
<1> QED BY <1>4, <1>5

MeetOnce(g, h, i, j, p, q) ==
  \A k \in 0 .. i, l \in 0 .. j : g[k] \cap h[l] # {} =>
    k = l /\ \A x \in 1 .. k : p[x] = q[x]

LEMMA TrailsMeetOnce ==
  ASSUME TypeOK, TreeInv, Intact, NEW i \in Nat, NEW j \in Nat, NEW p, NEW q,
         NEW g \in [0 .. i -> SUBSET inode_bitmap], NEW h \in [0 .. j -> SUBSET inode_bitmap],
         g[0] = {root}, h[0] = {root},
         \A k \in 1 .. i : g[k] = ChildrenOf(g[k - 1], p[k]),
         \A k \in 1 .. j : h[k] = ChildrenOf(h[k - 1], q[k])
  PROVE  MeetOnce(g, h, i, j, p, q)
<1>1. \A k \in 1 .. i : \A n \in g[k] : \E d \in g[k - 1] : n \in Children(d, p[k]) /\ d \in inode_bitmap
  <2> SUFFICES ASSUME NEW k \in 1 .. i, NEW n \in g[k]
               PROVE  \E d \in g[k - 1] : n \in Children(d, p[k]) /\ d \in inode_bitmap
    OBVIOUS
  <2>1. g[k] = ChildrenOf(g[k - 1], p[k]) /\ k - 1 \in 0 .. i
    OBVIOUS
  <2>2. g[k - 1] \subseteq inode_bitmap
    BY <2>1
  <2> QED BY <2>1, <2>2 DEF ChildrenOf
<1>2. \A k \in 1 .. j : \A n \in h[k] : \E d \in h[k - 1] : n \in Children(d, q[k]) /\ d \in inode_bitmap
  <2> SUFFICES ASSUME NEW k \in 1 .. j, NEW n \in h[k]
               PROVE  \E d \in h[k - 1] : n \in Children(d, q[k]) /\ d \in inode_bitmap
    OBVIOUS
  <2>1. h[k] = ChildrenOf(h[k - 1], q[k]) /\ k - 1 \in 0 .. j
    OBVIOUS
  <2>2. h[k - 1] \subseteq inode_bitmap
    BY <2>1
  <2> QED BY <2>1, <2>2 DEF ChildrenOf
<1>3. root \in inode_bitmap
  BY DEF TreeInv, Kinds
<1>4. /\ \A k \in 1 .. i : root \notin g[k]
      /\ \A k \in 1 .. j : root \notin h[k]
  BY <1>1, <1>2, <1>3, OneParent
<1> DEFINE Same(k, l) == g[k] \cap h[l] # {} => k = l /\ \A x \in 1 .. k : p[x] = q[x]
           Wrong == {k \in 0 .. i : ~ \A l \in 0 .. j : Same(k, l)}
<1>5. Wrong = {}
  <2> SUFFICES ASSUME Wrong # {} PROVE FALSE
    OBVIOUS
  <2>1. Wrong \in SUBSET Nat
    OBVIOUS
  <2>2. PICK k \in Wrong : \A l \in Wrong : k <= l
    <3> HIDE DEF Wrong
    <3> QED BY <2>1, MinOfNaturals
  <2>3. PICK l \in 0 .. j : ~ Same(k, l)
    BY <2>2
  <2>4. k \in 0 .. i /\ k \in Nat /\ l \in Nat
    BY <2>2
  <2>5. PICK n : n \in g[k] /\ n \in h[l]
    BY <2>3
  <2>6. CASE k = 0
    <3>1. n = root
      BY <2>5, <2>6
    <3>2. l = 0
      BY <1>4, <2>4, <2>5, <3>1
    <3> QED BY <2>3, <2>6, <3>2
  <2>7. CASE k # 0
    <3>1. k \in 1 .. i /\ k - 1 \in 0 .. i /\ ~ (k <= k - 1)
      BY <2>4, <2>7
    <3>2. n # root
      BY <1>4, <2>5, <3>1
    <3>3. l # 0
      BY <2>5, <3>2
    <3>4. l \in 1 .. j /\ l - 1 \in 0 .. j
      BY <2>4, <3>3
    <3>5. PICK d \in g[k - 1] : n \in Children(d, p[k]) /\ d \in inode_bitmap
      BY <1>1, <2>5, <3>1
    <3>6. PICK e \in h[l - 1] : n \in Children(e, q[l]) /\ e \in inode_bitmap
      BY <1>2, <2>5, <3>4
    <3>7. d = e /\ p[k] = q[l]
      BY <3>5, <3>6, OneParent
    <3>8. Same(k - 1, l - 1)
      BY <2>2, <3>1, <3>4
    <3>9. k - 1 = l - 1 /\ \A x \in 1 .. k - 1 : p[x] = q[x]
      BY <3>7, <3>8
    <3>10. k = l /\ \A x \in 1 .. k : p[x] = q[x]
      BY <2>4, <3>7, <3>9
    <3> QED BY <2>3, <3>10
  <2> QED BY <2>6, <2>7
<1> QED BY <1>5 DEF MeetOnce

(* What a move does to the tree when it does not write over block 0: the   *)
(* entry s of n0 goes, and another directory t has one more behind its own *)
(* ones.                                                                   *)
Replaced(n0, s) == [block EXCEPT ![inode[n0].directPointer][s].filename = NoName]
TakenOut(n0, s) == [inode EXCEPT ![n0].vacantFile = @ \ {s}]

PutIn(n0, s, t, z, e) ==
  /\ t \in inode_bitmap /\ t # n0 /\ z \in Slot /\ z \notin inode[t].vacantFile
  /\ inode[t].directPointer # 0
  /\ block' = [Replaced(n0, s) EXCEPT ![inode[t].directPointer] =
                 [block[inode[t].directPointer] EXCEPT ![z] = e]]
  /\ inode' = [TakenOut(n0, s) EXCEPT ![t].vacantFile = @ \cup {z}]

StaysAt(n, x) == x \in Entries(n)' /\ InSlot(n, x)' = InSlot(n, x)

LEMMA MoveKeeps ==
  ASSUME TypeOK, BlocksExclusive, TreeInv, Intact, Sound,
         NEW n0 \in inode_bitmap, NEW s \in inode[n0].vacantFile,
         \/ block' = Replaced(n0, s) /\ inode' = TakenOut(n0, s)
         \/ \E t, z, e : PutIn(n0, s, t, z, e)
  PROVE  /\ Sound'
         /\ \A n \in Inode : \A x \in Entries(n) : (n = n0 /\ x = s) \/ StaysAt(n, x)
<1>1. Kinds /\ Packed /\ InodeMapExact
  BY DEF TreeInv
<1> DEFINE p == inode[n0].directPointer
           blocks == {BitmapBlock} \cup DataBlock
<1>2. /\ n0 \in Inode /\ s \in Slot /\ p # 0 /\ p \in DataBlock
      /\ inode[n0].fileType = "d"
  <2>1. n0 \in Inode
    BY <1>1 DEF Kinds
  <2> QED BY <1>1, <2>1 DEF Packed, PackedAt, TypeOK
<1>3. /\ \A b \in blocks : b # p => Replaced(n0, s)[b] = block[b]
      /\ \A x \in Slot : x # s => Replaced(n0, s)[p][x] = block[p][x]
      /\ DOMAIN Replaced(n0, s) = blocks
  <2> DEFINE e == [block[p][s] EXCEPT !.filename = NoName]
             written == [block[p] EXCEPT ![s] = e]
  <2>1. block \in [blocks -> [Slot -> Entry]] /\ p \in blocks /\ block[p] \in [Slot -> Entry]
    BY <1>2 DEF TypeOK
  <2>2. Replaced(n0, s) = [block EXCEPT ![p] = written]
    BY DEF Replaced
  <2>3. \A x \in Slot : x # s => written[x] = block[p][x]
    <3> HIDE DEF e
    <3> QED BY <2>1
  <2> HIDE DEF written, blocks, p
  <2> QED BY <2>1, <2>2, <2>3
<1>4. /\ \A n \in Inode : /\ TakenOut(n0, s)[n].fileType = inode[n].fileType
                          /\ TakenOut(n0, s)[n].directPointer = inode[n].directPointer
                          /\ n # n0 => TakenOut(n0, s)[n] = inode[n]
      /\ TakenOut(n0, s)[n0].vacantFile = inode[n0].vacantFile \ {s}
      /\ DOMAIN TakenOut(n0, s) = Inode
      /\ \A n \in Inode : DOMAIN TakenOut(n0, s)[n] = {"fileType", "vacantFile", "directPointer"}
  <2>1. n0 \in Inode /\ inode \in [Inode -> [fileType : {"-", "r", "d"}, vacantFile : SUBSET Slot,
                                             directPointer : {0} \cup DataBlock]]
    BY <1>2 DEF TypeOK
  <2> QED BY ONLY <2>1 DEF TakenOut
<1>5. ASSUME NEW n \in Inode, inode[n].directPointer # 0
      PROVE  /\ inode[n].directPointer \in DataBlock /\ inode[n].directPointer \in blocks
             /\ n # n0 => inode[n].directPointer # p
  BY <1>2, <1>5 DEF TypeOK, BlocksExclusive
<1>6. /\ block'[BitmapBlock] = block[BitmapBlock]
      /\ \A n \in Inode : /\ inode'[n].fileType = inode[n].fileType
                          /\ inode'[n].directPointer = inode[n].directPointer
                          /\ inode[n].directPointer = 0 => inode'[n].vacantFile = {}
      /\ \A n \in Inode : \A x \in inode[n].vacantFile :
           \/ n = n0 /\ x = s
           \/ /\ x \in inode'[n].vacantFile
              /\ block'[inode[n].directPointer][x] = block[inode[n].directPointer][x]
  <2>0. /\ BitmapBlock \in blocks /\ BitmapBlock = 0 /\ 0 \notin DataBlock
        /\ \A n \in Inode : /\ inode[n].directPointer = 0 => inode[n].vacantFile = {}
                            /\ inode[n].vacantFile \subseteq Slot
                            /\ inode[n].vacantFile # {} => inode[n].directPointer # 0
    BY <1>1, WalksStayInTable, FileSystemConstants DEF Packed, PackedAt, BitmapBlock, DataBlock
  <2>1. CASE block' = Replaced(n0, s) /\ inode' = TakenOut(n0, s)
    <3>1. block'[BitmapBlock] = block[BitmapBlock]
      BY <1>2, <1>3, <2>0, <2>1
    <3>2. ASSUME NEW n \in Inode, NEW x \in inode[n].vacantFile, ~ (n = n0 /\ x = s)
          PROVE  /\ x \in inode'[n].vacantFile
                 /\ block'[inode[n].directPointer][x] = block[inode[n].directPointer][x]
      <4>1. x \in inode'[n].vacantFile
        BY <1>4, <2>1, <3>2
      <4>2. x \in Slot /\ inode[n].directPointer # 0
        BY <2>0
      <4> QED BY <1>3, <1>5, <2>1, <3>2, <4>1, <4>2
    <3> QED BY <1>2, <1>4, <2>0, <2>1, <3>1, <3>2
  <2>2. ASSUME NEW t, NEW z, NEW e, PutIn(n0, s, t, z, e)
        PROVE  /\ block'[BitmapBlock] = block[BitmapBlock]
               /\ \A n \in Inode : /\ inode'[n].fileType = inode[n].fileType
                                   /\ inode'[n].directPointer = inode[n].directPointer
                                   /\ inode[n].directPointer = 0 => inode'[n].vacantFile = {}
               /\ \A n \in Inode : \A x \in inode[n].vacantFile :
                    \/ n = n0 /\ x = s
                    \/ /\ x \in inode'[n].vacantFile
                       /\ block'[inode[n].directPointer][x] = block[inode[n].directPointer][x]
    <3> DEFINE q == inode[t].directPointer
               written == [block[q] EXCEPT ![z] = e]
    <3>1. /\ t \in Inode /\ t # n0 /\ q # 0 /\ q \in blocks /\ q # p /\ q # BitmapBlock
          /\ z \in Slot /\ z \notin inode[t].vacantFile
      BY <1>1, <1>5, <2>0, <2>2 DEF PutIn, Kinds
    <3>2. block' = [Replaced(n0, s) EXCEPT ![q] = written]
      BY <2>2 DEF PutIn
    <3>3. \A x \in Slot : x # z => written[x] = block[q][x]
      BY <3>1 DEF TypeOK
    <3> HIDE DEF written
    <3>4. /\ block'[q] = written
          /\ \A b \in blocks : b # q => block'[b] = Replaced(n0, s)[b]
      BY <1>3, <3>1, <3>2
    <3>5. /\ \A n \in Inode : /\ inode'[n].fileType = inode[n].fileType
                              /\ inode'[n].directPointer = inode[n].directPointer
                              /\ n # t => inode'[n] = TakenOut(n0, s)[n]
          /\ inode'[t].vacantFile = inode[t].vacantFile \cup {z}
      <4>1. inode' = [TakenOut(n0, s) EXCEPT ![t].vacantFile = @ \cup {z}]
        BY <2>2 DEF PutIn
      <4> QED BY <1>4, <3>1, <4>1
    <3>6. block'[BitmapBlock] = block[BitmapBlock]
      BY <1>2, <1>3, <2>0, <3>1, <3>4
    <3>7. ASSUME NEW n \in Inode, NEW x \in inode[n].vacantFile, ~ (n = n0 /\ x = s)
          PROVE  /\ x \in inode'[n].vacantFile
                 /\ block'[inode[n].directPointer][x] = block[inode[n].directPointer][x]
      <4>1. x \in inode'[n].vacantFile
        BY <1>4, <3>1, <3>5, <3>7
      <4>2. x \in Slot /\ inode[n].directPointer # 0 /\ inode[n].directPointer \in blocks
        BY <1>5, <2>0
      <4>3. CASE n = t
        BY <3>1, <3>3, <3>4, <4>1, <4>2, <4>3
      <4>4. CASE n # t
        <5>1. inode[n].directPointer # q
          BY <3>1, <4>2, <4>4 DEF BlocksExclusive
        <5> QED BY <1>3, <1>5, <3>4, <3>7, <4>1, <4>2, <4>4, <5>1
      <4> QED BY <4>3, <4>4
    <3>8. \A n \in Inode : inode[n].directPointer = 0 => inode'[n].vacantFile = {}
      BY <1>2, <1>4, <2>0, <3>1, <3>5
    <3> QED BY <3>5, <3>6, <3>7, <3>8
  <2> QED BY <2>1, <2>2
<1>7. Sound'
  <2>1. inode_bitmap' = inode_bitmap
    BY <1>6 DEF inode_bitmap
  <2>2. \A n \in Inode \ inode_bitmap : inode[n].fileType = "-"
    BY DEF Sound
  <2>3. /\ \A n \in Inode \ inode_bitmap' : inode'[n].fileType = "-"
        /\ \A n \in Inode : inode'[n].directPointer = 0 => inode'[n].vacantFile = {}
        /\ root \in inode_bitmap'
    BY <1>1, <1>6, <2>1, <2>2 DEF Kinds
  <2>4. root' = root /\ Inode' = Inode
    BY DEF root, Inode
  <2> QED BY <2>3, <2>4, Zenon DEF Sound
<1>8. ASSUME NEW n \in Inode, NEW x \in Entries(n), ~ (n = n0 /\ x = s)
      PROVE  StaysAt(n, x)
  <2>1. /\ inode[n].fileType = "d" /\ x \in inode[n].vacantFile
        /\ InSlot(n, x).filename # NoName
    BY <1>8 DEF Entries, InSlot
  <2>2. InSlot(n, x)' = InSlot(n, x)
    BY <1>6, <1>8, <2>1 DEF InSlot
  <2>3. x \in inode'[n].vacantFile /\ inode'[n].fileType = "d"
    BY <1>6, <1>8, <2>1
  <2> QED BY <2>1, <2>2, <2>3 DEF StaysAt, Entries, InSlot
<1> QED BY <1>7, <1>8

LEMMA PrefixByNames ==
  ASSUME NEW src \in NamedPaths, NEW path \in NamedPaths, Len(src) <= Len(path),
         \A i \in 1 .. Len(src) : src[i] = path[i]
  PROVE  IsPrefix(src, path)
<1>1. PICK k \in 1 .. MaxDepth : src \in [1 .. k -> Names]
  BY DEF NamedPaths
<1>2. PICK l \in 1 .. MaxDepth : path \in [1 .. l -> Names]
  BY DEF NamedPaths
<1>3. k \in Nat /\ l \in Nat
  BY <1>1, <1>2, FileSystemConstants
<1>4. src \in Seq(Names) /\ path \in Seq(Names) /\ Len(src) = k /\ Len(path) = l
  BY <1>1, <1>2, <1>3
<1>5. SubSeq(src, 1, k) = SubSeq(path, 1, k)
  BY <1>1, <1>2, <1>3, <1>4
<1> QED BY <1>4, <1>5 DEF IsPrefix

(* A path that does not lead through the name that is moved does not meet  *)
(* its entry, so every entry on the way is kept.                           *)
LEMMA OthersStay ==
  ASSUME TypeOK, TypeOK', TreeInv, Intact,
         NEW src \in NamedPaths, NEW n0, Resolve(Front(src)) = {n0},
         NEW s, InSlot(n0, s).filename = Last(src),
         \A n \in Inode : \A x \in Entries(n) : (n = n0 /\ x = s) \/ StaysAt(n, x),
         NEW a \in NamedPaths \X Inode, a[2] \in Resolve(a[1]), ~ IsPrefix(src, a[1])
  PROVE  a[2] \in Resolve(a[1])'
<1> DEFINE m == Len(a[1])
           l == Len(src)
           j == l - 1
           q == Front(src)
<1>1. PICK path : path = a[1] /\ path \in NamedPaths
  OBVIOUS
<1>2. /\ m \in Nat \ {0} /\ DOMAIN path = 1 .. m
      /\ \A i \in 1 .. m : path[i] \in Names
  BY <1>1, PathParts
<1>3. /\ l \in Nat \ {0} /\ j \in Nat /\ j + 1 = l
      /\ DOMAIN q = 1 .. j /\ \A i \in 1 .. j : q[i] = src[i]
      /\ Last(src) = src[l]
  BY PathParts DEF Last
<1> HIDE DEF m, l, j, q
<1>12. inode_bitmap \subseteq Inode
  BY DEF TreeInv, Kinds
<1>5. PICK h \in [0 .. m -> SUBSET inode_bitmap] : IsTrail(h, m, path)
  BY <1>2, TrailInUse
<1>6. PICK e \in [0 .. j -> SUBSET inode_bitmap] : IsTrail(e, j, q)
  BY <1>3, TrailInUse
<1>8. \A k \in 0 .. m, i \in 0 .. j : h[k] \cap e[i] # {} =>
        k = i /\ \A x \in 1 .. k : path[x] = q[x]
  <2>1. m \in Nat
    BY <1>2
  <2>7. j \in Nat
    BY <1>3
  <2>2. h[0] = {root}
    BY <1>5 DEF IsTrail
  <2>8. e[0] = {root}
    BY <1>6 DEF IsTrail
  <2>3. \A k \in 1 .. m : h[k] = ChildrenOf(h[k - 1], path[k])
    BY <1>5 DEF IsTrail
  <2>4. \A k \in 1 .. j : e[k] = ChildrenOf(e[k - 1], q[k])
    BY <1>6 DEF IsTrail
  <2>5. h \in [0 .. m -> SUBSET inode_bitmap]
    BY <1>5
  <2>6. e \in [0 .. j -> SUBSET inode_bitmap]
    BY <1>6
  <2>9. MeetOnce(h, e, m, j, path, q)
    BY ONLY TypeOK, TreeInv, Intact, <2>1, <2>2, <2>3, <2>4, <2>5, <2>6, <2>7, <2>8, TrailsMeetOnce
  <2> QED BY <2>9 DEF MeetOnce
<1>9. ASSUME NEW k \in 1 .. m, NEW n \in h[k - 1], NEW x \in Entries(n),
             InSlot(n, x).filename = path[k]
      PROVE  StaysAt(n, x)
  <2>1. k - 1 \in 0 .. m /\ n \in Inode
    <3>1. k - 1 \in 0 .. m
      BY <1>2
    <3> QED BY <1>5, <1>12, <3>1
  <2>2. CASE n = n0 /\ x = s
    <3>1. n \in e[j]
      BY <1>6, <2>2 DEF q, IsTrail
    <3>2. j \in 0 .. j
      BY <1>3
    <3>3. k - 1 = j /\ \A i \in 1 .. k - 1 : path[i] = q[i]
      BY <1>8, <2>1, <3>1, <3>2
    <3>4. k = l /\ path[k] = src[l]
      BY <1>2, <1>3, <1>9, <2>2, <3>3
    <3>5. \A i \in 1 .. l : src[i] = path[i]
      BY <1>3, <3>3, <3>4
    <3>6. l <= m
      BY <1>2, <3>4
    <3>7. IsPrefix(src, path)
      BY <1>1, <3>5, <3>6, PrefixByNames DEF l, m
    <3> QED BY <1>1, <3>7
  <2> QED BY <2>1, <2>2
<1>10. StepsKept(h, m, path)
  <2> SUFFICES ASSUME NEW k \in 1 .. m, NEW n \in h[k - 1]
               PROVE  Children(n, path[k]) \subseteq Children(n, path[k])'
    BY DEF StepsKept
  <2>1. PICK name : name = path[k]
    OBVIOUS
  <2>2. \A x \in Entries(n) : InSlot(n, x).filename = name =>
          x \in Entries(n)' /\ InSlot(n, x)' = InSlot(n, x)
    BY <1>9, <2>1 DEF StaysAt
  <2>3. Children(n, name) \subseteq Children(n, name)'
    BY <2>2, ChildKept
  <2> QED BY <2>1, <2>3
<1>11. PICK m0 : m0 = m
  OBVIOUS
<1>13. PICK g : Around(g, h, m0, path)
  <2>1. m0 \in Nat /\ DOMAIN path = 1 .. m0 /\ IsTrail(h, m0, path) /\ StepsKept(h, m0, path)
    BY <1>2, <1>5, <1>10, <1>11
  <2> QED BY <2>1, ResolveKeeps
<1>14. h[m0] \subseteq g[m0] /\ g[m0] = Resolve(path)'
  BY <1>2, <1>11, <1>13 DEF Around
<1> QED BY <1>1, <1>5, <1>11, <1>14 DEF IsTrail

LEMMA MoveStays ==
  ASSUME TypeOK, TypeOK', BlocksExclusive, TreeInv, StayInv,
         NEW src \in NamedPaths, NEW dst \in NamedPaths, fs_move(src, dst)
  PROVE  StayInv'
<1> DEFINE from     == WalkToDirectory(Front(src))
           to       == WalkToDirectory(Front(dst))
           parent   == inode[from.num]
           target   == inode[to.num]
           hits     == Hits(from.num, Last(src), parent.vacantFile)
           src_num  == Max(hits)
           full     == Slot \subseteq target.vacantFile
           temp_ffz == Ffz(target.vacantFile, Slot)
           entry(n) == [filename |-> Last(dst), inodeNumber |-> n]
           others   == {a \in asked : ~ IsPrefix(src, a[1])}
<1>1. /\ ~ moved /\ ~ overwritten
      /\ from.depth = Len(src) - 1 /\ parent.fileType = "d" /\ hits # {}
      /\ to.depth = Len(dst) - 1 /\ target.fileType = "d"
      /\ FreeName(to.num, <<Last(src), Last(dst)>>)
      /\ overwritten' = (overwritten \/ (~ full /\ target.directPointer = BitmapBlock))
      /\ asked' = IF overwritten' THEN {} ELSE others
      /\ astray' = astray
  BY DEF fs_move
<1>2. \/ block' = Replaced(from.num, src_num) /\ inode' = TakenOut(from.num, src_num)
      \/ /\ ~ full
         /\ \E n \in Inode :
              block' = [Replaced(from.num, src_num) EXCEPT ![target.directPointer] =
                          [BufferOf(to) EXCEPT ![temp_ffz] = entry(n)]]
         /\ inode' = [TakenOut(from.num, src_num) EXCEPT ![to.num].vacantFile = @ \cup {temp_ffz}]
  BY DEF fs_move, Replaced, TakenOut
<1> HIDE DEF from, to, src_num, temp_ffz
<1>3. CASE overwritten'
  BY <1>1, <1>3 DEF StayInv, FilesStay
<1>4. CASE ~ overwritten' /\ astray
  BY <1>1, <1>4 DEF StayInv, FilesStay
<1>5. CASE ~ overwritten' /\ ~ astray
  <2>1. Intact /\ Sound /\ asked' = others /\ \A a \in asked : a[2] \in Resolve(a[1])
    BY <1>1, <1>5 DEF Intact, StayInv, FilesStay
  <2>2. ASSUME NEW path \in NamedPaths
        PROVE  /\ WalkToDirectory(Front(path)).num \in inode_bitmap
               /\ WalkToDirectory(Front(path)).depth = Len(path) - 1 =>
                    Resolve(Front(path)) = {WalkToDirectory(Front(path)).num}
    <3> DEFINE q == Front(path)
               j == Len(path) - 1
    <3>1. j \in Nat
      BY PathParts
    <3>2. DOMAIN q = 1 .. j
      BY PathParts
    <3>3. \A i \in 1 .. j : q[i] \in Names
      BY PathParts
    <3> HIDE DEF q, j
    <3>4. /\ WalkToDirectory(q).num \in inode_bitmap
          /\ Beside(WalkToDirectory(q).num, WalkToDirectory(q).depth, Resolve(q), j)
      BY <2>1, <3>1, <3>2, <3>3, MoveIsResolve
    <3> QED BY <3>4 DEF Beside, q, j
  <2>3. PICK n0, s : n0 = from.num /\ s = src_num
    OBVIOUS
  <2>4. n0 \in inode_bitmap /\ Resolve(Front(src)) = {n0} /\ to.num \in inode_bitmap
    BY <1>1, <2>2, <2>3 DEF from, to
  <2>5. inode_bitmap \subseteq Inode
    BY <2>1 DEF TreeInv, Kinds
  <2>6. hits \subseteq Slot /\ s \in inode[n0].vacantFile /\ InSlot(n0, s).filename = Last(src)
    <3>1. hits \subseteq Slot
      BY <2>3, <2>4, <2>5, WalksStayInTable DEF Hits
    <3>2. src_num \in hits
      BY <1>1, <3>1, SlotsAreNumbers DEF src_num
    <3> QED BY <2>3, <3>1, <3>2 DEF Hits
  <2>7. ASSUME ~ full
        PROVE  temp_ffz \in Slot /\ temp_ffz \notin target.vacantFile
    <3>1. Slot \in SUBSET Nat
      BY DEF Slot
    <3> QED BY <2>7, <3>1, FfzIsFree DEF temp_ffz
  <2>8. \/ block' = Replaced(n0, s) /\ inode' = TakenOut(n0, s)
        \/ \E t, z, e : PutIn(n0, s, t, z, e)
    <3>1. CASE block' = Replaced(n0, s) /\ inode' = TakenOut(n0, s)
      BY <3>1
    <3>2. CASE /\ ~ full
               /\ \E n \in Inode :
                    block' = [Replaced(n0, s) EXCEPT ![target.directPointer] =
                                [BufferOf(to) EXCEPT ![temp_ffz] = entry(n)]]
               /\ inode' = [TakenOut(n0, s) EXCEPT ![to.num].vacantFile = @ \cup {temp_ffz}]
      <4>1. target.directPointer # 0
        BY <1>1, <1>5, <3>2 DEF BitmapBlock
      <4>2. target.vacantFile # {}
        BY <2>1, <2>4, <2>5, <4>1 DEF TreeInv, Packed, PackedAt
      <4>3. BufferOf(to) = block[target.directPointer]
        BY <4>2 DEF BufferOf
      <4>4. to.num # n0
        <5>1. /\ s \in inode[n0].vacantFile /\ InSlot(n0, s).filename = Last(src)
              /\ \A x \in inode[to.num].vacantFile : InSlot(to.num, x).filename # Last(src)
          BY <1>1, <2>6 DEF FreeName
        <5> QED BY <5>1
      <4>5. PICK n \in Inode : block' = [Replaced(n0, s) EXCEPT ![target.directPointer] =
                                [BufferOf(to) EXCEPT ![temp_ffz] = entry(n)]]
        BY <3>2
      <4> HIDE DEF entry
      <4>6. PutIn(n0, s, to.num, temp_ffz, entry(n))
        BY <2>4, <2>7, <3>2, <4>1, <4>3, <4>4, <4>5 DEF PutIn
      <4> QED BY <4>6
    <3> QED BY <1>2, <2>3, <3>1, <3>2
  <2>9. /\ Sound'
        /\ \A n \in Inode : \A x \in Entries(n) : (n = n0 /\ x = s) \/ StaysAt(n, x)
    BY ONLY TypeOK, BlocksExclusive, TreeInv, <2>1, <2>4, <2>6, <2>8, MoveKeeps
  <2>10. ASSUME NEW a \in others PROVE a[2] \in Resolve(a[1])'
    <3>1. a \in NamedPaths \X Inode /\ a[2] \in Resolve(a[1]) /\ ~ IsPrefix(src, a[1])
      BY <2>1 DEF TypeOK
    <3> HIDE DEF others
    <3> QED BY <2>1, <2>4, <2>6, <2>9, <3>1, OthersStay
  <2>11. FilesStay'
    <3> HIDE DEF others
    <3> QED BY <2>1, <2>10 DEF FilesStay
  <2> QED BY <1>5, <2>9, <2>11 DEF StayInv
<1> QED BY <1>3, <1>4, <1>5

LEMMA InitStay == fs_format => StayInv
<1> SUFFICES ASSUME fs_format PROVE StayInv
  OBVIOUS
<1> USE DEF fs_format
<1>1. root \in Inode /\ 0 \in Slot
  BY FileSystemConstants DEF root, Inode, Slot
<1>2. inode_bitmap = {root}
  BY <1>1 DEF inode_bitmap
<1>3. Sound
  BY <1>1, <1>2 DEF Sound, NewInode
<1> QED BY <1>3 DEF StayInv, FilesStay

LEMMA StoreStays ==
  ASSUME StayInv, TypeOK, TypeOK', UNCHANGED <<store, asked, astray, overwritten>>
  PROVE  StayInv'
<1>1. Keeps
  BY DEF Keeps, store, Entries, InSlot
<1>2. Sound => Sound'
  BY DEF Sound, store, inode_bitmap
<1>3. ASSUME NEW a \in asked, a[2] \in Resolve(a[1]) PROVE a[2] \in Resolve(a[1])'
  <2>1. a \in NamedPaths \X Inode
    BY DEF TypeOK
  <2> QED BY <1>1, <1>3, <2>1, KeptFiles
<1>4. FilesStay'
  <2>1. astray' = astray /\ asked' = asked
    OBVIOUS
  <2>2. ~ astray => \A a \in asked : a[2] \in Resolve(a[1])
    BY DEF StayInv, FilesStay
  <2> QED BY <1>3, <2>1, <2>2 DEF FilesStay
<1>5. asked' = asked /\ astray' = astray /\ overwritten' = overwritten
  OBVIOUS
<1>6. (~ astray' /\ ~ overwritten') => Sound'
  BY <1>2, <1>5 DEF StayInv
<1>7. overwritten' => asked' = {}
  BY <1>5 DEF StayInv
<1> QED BY <1>4, <1>6, <1>7 DEF StayInv

LEMMA NextStay ==
  TypeOK /\ TypeOK' /\ BlocksExclusive /\ TreeInv /\ StayInv /\ [Next]_vars => StayInv'
<1> SUFFICES ASSUME TypeOK, TypeOK', BlocksExclusive, TreeInv, StayInv, [Next]_vars PROVE StayInv'
  OBVIOUS
<1>1. ASSUME NEW path \in NamedPaths, NEW type \in {"r", "d"}, fs_create(path, type)
      PROVE  StayInv'
  BY <1>1, CreateStays
<1>2. ASSUME NEW path \in Paths, fs_open(path) PROVE StayInv'
  <2>1. UNCHANGED <<store, asked, astray, overwritten>>
    BY <1>2 DEF fs_open
  <2> QED BY <2>1, StoreStays
<1>3. ASSUME NEW path \in Paths, fs_remove(path) PROVE StayInv'
  <2>1. asked' = {} /\ overwritten' = TRUE
    BY <1>3 DEF fs_remove
  <2> QED BY <2>1 DEF StayInv, FilesStay
<1>4. ASSUME NEW src \in NamedPaths, NEW dst \in NamedPaths, fs_move(src, dst) PROVE StayInv'
  BY <1>4, MoveStays
<1>5. ASSUME NEW f \in Fd, fs_close(f) PROVE StayInv'
  <2>1. UNCHANGED <<store, asked, astray, overwritten>>
    BY <1>5 DEF fs_close
  <2> QED BY <2>1, StoreStays
<1>6. CASE fs_unmount
  <2>1. UNCHANGED <<store, asked, astray, overwritten>>
    BY <1>6 DEF fs_unmount
  <2> QED BY <2>1, StoreStays
<1>7. CASE fs_mount
  <2>1. UNCHANGED <<store, asked, astray, overwritten>>
    BY <1>7 DEF fs_mount
  <2> QED BY <2>1, StoreStays
<1>8. CASE UNCHANGED vars
  <2>1. UNCHANGED <<store, asked, astray, overwritten>>
    BY <1>8 DEF vars, store
  <2> QED BY <2>1, StoreStays
<1> QED BY <1>1, <1>2, <1>3, <1>4, <1>5, <1>6, <1>7, <1>8 DEF Next

(* What was created stays where its path leads, whatever is created,       *)
(* opened and closed after it, across mounts, and when something else is   *)
(* moved: as long as every create went to its path and no call wrote over  *)
(* block 0, and but for the directories that a create without an inode     *)
(* left empties after a move.                                              *)
THEOREM CreatedStays == Spec => []FilesStay
<1>1. Inv => BlocksExclusive
  BY DEF Inv
<1>2. StayInv => FilesStay
  BY DEF StayInv
<1> QED BY <1>1, <1>2, InitStay, NextStay, Invariance, TypeCorrect, TreeInvariance, PTL DEF Spec


-----------------------------------------------------------------------------
(* The walk of fs_create.  When the name is in slot s of the directory it  *)
(* stands at, and not in the one entered there, the loop goes on to the    *)
(* entries of that directory, and has read it unless s was the last slot.  *)
LEMMA LookAllFinds ==
  ASSUME TypeOK, TreeInv, Intact, NEW w \in Mover(inode_bitmap, Directory), NEW name,
         NEW s \in Slot, NEW x, x = InSlot(w.num, s).inodeNumber,
         \A t \in Slot : InSlot(w.num, t).filename = name <=> t = s,
         \A t \in Slot : t > s => InSlot(x, t).filename # name
  PROVE  /\ LookAll(w, name).num = x
         /\ LookAll(w, name).depth = w.depth + 1
         /\ s # folder_number_entries - 1 =>
              LookAll(w, name).directory = block[inode[x].directPointer]
<1> DEFINE N == inode_bitmap
           m == folder_number_entries
           n == w.num
           d == w.depth
<1>1. m \in Nat \ {0} /\ s \in 0 .. m - 1 /\ d \in Nat
  BY FileSystemConstants DEF Slot, Mover
<1>2. Leads(N) /\ \A b \in N : block[inode[b].directPointer] \in Directory
  BY WalksStayInUse, WalksStayInTable DEF TreeInv, Kinds
<1>3. DOMAIN Slots = 1 .. m /\ \A k \in 1 .. m : Slots[k] = k - 1
  BY DEF Slots
<1>4. w \in Mover(N, Directory) /\ m \in Nat
  BY <1>1
<1>5. PICK g \in [0 .. m -> Mover(N, Directory)] :
        /\ g[0] = w
        /\ g[m] = LookAll(w, name)
        /\ \A k \in 1 .. m : g[k] = Look(g[k - 1], Slots[k], name)
  <2> DEFINE M == m
  <2>1. M \in Nat /\ M = folder_number_entries /\ DOMAIN Slots = 1 .. M
    BY <1>1, <1>3
  <2> HIDE DEF M, N
  <2>2. PICK g \in [0 .. M -> Mover(N, Directory)] :
          /\ g[0] = w
          /\ g[M] = LookAll(w, name)
          /\ \A k \in 1 .. M : g[k] = Look(g[k - 1], Slots[k], name)
    BY ONLY <1>2, <1>4, <2>1, LookTrail
  <2> QED BY <2>2 DEF M
<1> DEFINE P(k) == IF k <= s THEN g[k].num = n /\ g[k].depth = d
                   ELSE /\ g[k].num = x /\ g[k].depth = d + 1
                        /\ k # s + 1 => g[k].directory = block[inode[x].directPointer]
           Wrong == {k \in 0 .. m : ~ P(k)}
<1>6. P(0)
  BY <1>1, <1>5
<1>7. ASSUME NEW k \in 0 .. m - 1, P(k) PROVE P(k + 1)
  <2> DEFINE v == g[k]
             B == block[inode[v.num].directPointer]
  <2>1. k \in Nat /\ k \in Slot /\ k \in 0 .. m /\ k + 1 \in 1 .. m /\ (k + 1) - 1 = k
    BY <1>1 DEF Slot
  <2>2. v \in Mover(N, Directory)
    BY <1>5, <2>1
  <2>3. g[k + 1] = Look(v, k, name)
    BY <1>3, <1>5, <2>1
  <2>4. B[k] = InSlot(v.num, k)
    BY DEF InSlot
  <2>5. CASE k < s
    <3>1. v.num = n /\ v.depth = d /\ InSlot(n, k).filename # name
      BY <1>1, <1>7, <2>1, <2>5
    <3>2. Look(v, k, name) = [v EXCEPT !.directory = B]
      BY <2>4, <3>1 DEF Look
    <3>3. Look(v, k, name).num = n /\ Look(v, k, name).depth = d
      BY <2>2, <3>1, <3>2 DEF Mover
    <3> QED BY <1>1, <2>1, <2>3, <2>5, <3>3
  <2>6. CASE k = s
    <3>1. v.num = n /\ v.depth = d /\ InSlot(n, k).filename = name
      BY <1>1, <1>7, <2>1, <2>6
    <3>2. Look(v, k, name) = [num |-> B[k].inodeNumber, depth |-> d + 1, directory |-> B]
      BY <2>4, <3>1 DEF Look
    <3>3. Look(v, k, name).num = x /\ Look(v, k, name).depth = d + 1
      BY <2>4, <2>6, <3>1, <3>2
    <3> QED BY <1>1, <2>1, <2>3, <2>6, <3>3
  <2>7. CASE k > s
    <3>1. v.num = x /\ v.depth = d + 1 /\ InSlot(x, k).filename # name
      BY <1>1, <1>7, <2>1, <2>7
    <3>2. Look(v, k, name) = [v EXCEPT !.directory = B]
      BY <2>4, <3>1 DEF Look
    <3>3. Look(v, k, name).num = x /\ Look(v, k, name).depth = d + 1
          /\ Look(v, k, name).directory = block[inode[x].directPointer]
      BY <2>2, <3>1, <3>2 DEF Mover
    <3> QED BY <1>1, <2>1, <2>3, <2>7, <3>3
  <2> QED BY <1>1, <2>1, <2>5, <2>6, <2>7
<1> HIDE DEF P
<1>8. Wrong = {}
  <2> SUFFICES ASSUME Wrong # {} PROVE FALSE
    OBVIOUS
  <2>1. Wrong \in SUBSET Nat
    BY <1>1
  <2>2. PICK k \in Wrong : \A j \in Wrong : k <= j
    BY <2>1, MinOfNaturals
  <2>3. k \in 0 .. m /\ ~ P(k) /\ k # 0
    BY <1>6, <2>2
  <2>4. k - 1 \in 0 .. m - 1 /\ k - 1 \in 0 .. m /\ ~ (k <= k - 1) /\ (k - 1) + 1 = k
    BY <1>1, <2>3
  <2>5. P(k - 1)
    BY <2>2, <2>4
  <2>6. P((k - 1) + 1)
    BY <1>7, <2>4, <2>5
  <2> QED BY <2>3, <2>4, <2>6
<1>9. P(m) /\ ~ (m <= s) /\ (m = s + 1 => s = m - 1)
  BY <1>1, <1>8
<1> QED BY <1>5, <1>9 DEF P

(* A path that leads somewhere leads somewhere with every shorter part.    *)
LEMMA TrailIsLive ==
  ASSUME NEW m \in Nat, NEW h, NEW path, h[m] # {},
         \A k \in 1 .. m : h[k] = ChildrenOf(h[k - 1], path[k])
  PROVE  \A k \in 0 .. m : h[k] # {}
<1> DEFINE Dead == {k \in 0 .. m : h[m - k] = {}}
<1>1. Dead = {}
  <2> SUFFICES ASSUME Dead # {} PROVE FALSE
    OBVIOUS
  <2>1. Dead \in SUBSET Nat
    OBVIOUS
  <2>2. PICK k \in Dead : \A j \in Dead : k <= j
    <3> HIDE DEF Dead
    <3> QED BY <2>1, MinOfNaturals
  <2>3. k \in 0 .. m /\ k # 0 /\ h[m - k] = {}
    BY <2>2
  <2>4. k - 1 \in 0 .. m /\ ~ (k <= k - 1) /\ m - (k - 1) \in 1 .. m
        /\ (m - (k - 1)) - 1 = m - k
    BY <2>3
  <2>5. h[m - (k - 1)] = ChildrenOf({}, path[m - (k - 1)])
    BY <2>3, <2>4
  <2>6. h[m - (k - 1)] = {}
    BY <2>5 DEF ChildrenOf
  <2> QED BY <2>2, <2>4, <2>6
<1> QED
  <2> SUFFICES ASSUME NEW k \in 0 .. m, h[k] = {} PROVE FALSE
    OBVIOUS
  <2>1. m - k \in 0 .. m /\ m - (m - k) = k
    OBVIOUS
  <2> QED BY <1>1, <2>1

(* The path to a name that follows itself leads nowhere: what it leads to  *)
(* is not entered under its own name.                                      *)
LEMMA NotInItself ==
  ASSUME TypeOK, TreeInv, Intact, NEW path \in NamedPaths, Plain(path),
         NEW h, IsTrail(h, Len(path), path), NEW k \in 1 .. Len(path)
  PROVE  ChildrenOf(h[k], path[k]) = {}
<1> DEFINE m == Len(path)
           q == Append(SubSeq(path, 1, k), path[k])
<1>1. m \in Nat /\ path \in Seq(Names) /\ DOMAIN path = 1 .. m
  <2>1. PICK j \in 1 .. MaxDepth : path \in [1 .. j -> Names]
    BY DEF NamedPaths
  <2>2. j \in Nat
    BY FileSystemConstants
  <2> QED BY <2>1, <2>2
<1>2. k \in Nat \ {0} /\ k + 1 \in Nat /\ (k + 1) - 1 = k /\ k + 1 \in 1 .. k + 1
  BY <1>1
<1>3. DOMAIN q = 1 .. k + 1 /\ q[k + 1] = path[k] /\ \A j \in 1 .. k : q[j] = path[j]
  BY <1>1
<1> HIDE DEF q, m
<1>4. PICK g : IsTrail(g, k + 1, q)
  <2>1. k + 1 \in Nat /\ DOMAIN q = 1 .. k + 1
    BY <1>2, <1>3
  <2>2. PICK g \in [0 .. k + 1 -> SUBSET inode_bitmap] : IsTrail(g, k + 1, q)
    BY ONLY TypeOK, TreeInv, Intact, <2>1, TrailInUse
  <2> QED BY <2>2
<1>5. g[k] = h[k]
  <2>1. k \in Nat
    BY <1>2
  <2>2. g[0] = h[0]
    BY <1>4 DEF IsTrail
  <2>3. \A j \in 1 .. k : g[j] = ChildrenOf(g[j - 1], q[j])
    BY <1>2, <1>4 DEF IsTrail
  <2>4. \A j \in 1 .. k : h[j] = ChildrenOf(h[j - 1], path[j])
    BY <1>1, <1>2 DEF IsTrail, m
  <2>5. \A j \in 1 .. k : q[j] = path[j]
    BY <1>3
  <2>6. GoesBy(g, path, k)
    BY <2>3, <2>5 DEF GoesBy
  <2>7. GoesBy(h, path, k)
    BY <2>4 DEF GoesBy
  <2> QED BY ONLY <2>1, <2>2, <2>6, <2>7, TrailsAgree
<1>6. g[k + 1] = ChildrenOf(g[k], q[k + 1]) /\ g[k + 1] = Resolve(q)
  BY <1>2, <1>4 DEF IsTrail
<1>7. Resolve(q) = {}
  BY DEF Plain, q
<1> QED BY <1>3, <1>5, <1>6, <1>7

LEMMA LastButOne ==
  ASSUME TypeOK, TreeInv, Intact, NEW path \in NamedPaths,
         NEW h, IsTrail(h, Len(path), path)
  PROVE  h[Len(path) - 1] = Resolve(Front(path))
<1> DEFINE m == Len(path)
           q == Front(path)
<1>1. /\ m \in Nat /\ m - 1 \in Nat /\ DOMAIN q = 1 .. m - 1
      /\ \A i \in 1 .. m - 1 : q[i] = path[i]
  BY PathParts
<1> HIDE DEF q, m
<1>2. PICK g : IsTrail(g, m - 1, q)
  <2>1. m - 1 \in Nat /\ DOMAIN q = 1 .. m - 1
    BY <1>1
  <2>2. PICK g \in [0 .. m - 1 -> SUBSET inode_bitmap] : IsTrail(g, m - 1, q)
    BY ONLY TypeOK, TreeInv, Intact, <2>1, TrailInUse
  <2> QED BY <2>2
<1>3. g[m - 1] = h[m - 1]
  <2>1. m - 1 \in Nat
    BY <1>1
  <2>2. g[0] = h[0]
    BY <1>2 DEF IsTrail
  <2>3. \A j \in 1 .. m - 1 : g[j] = ChildrenOf(g[j - 1], q[j])
    BY <1>2 DEF IsTrail
  <2>4. \A j \in 1 .. m - 1 : h[j] = ChildrenOf(h[j - 1], path[j])
    BY <1>1 DEF IsTrail, m
  <2>5. \A j \in 1 .. m - 1 : q[j] = path[j]
    BY <1>1
  <2>6. GoesBy(g, path, m - 1)
    BY <2>3, <2>5 DEF GoesBy
  <2>7. GoesBy(h, path, m - 1)
    BY <2>4 DEF GoesBy
  <2> QED BY ONLY <2>1, <2>2, <2>6, <2>7, TrailsAgree
<1> QED BY <1>2, <1>3 DEF IsTrail, q, m

(* The walk of fs_create and the path, which leads to a directory: after k *)
(* names the walk stands at the one directory that the path leads to.      *)
AtDirectory(w, R, k) ==
  R = {w.num} /\ w.depth = k /\ w.num \in Directories

LEMMA WalkFindsParent ==
  ASSUME TypeOK, TreeInv, Intact, NEW path \in NamedPaths, Plain(path),
         Resolve(path) \cap Directories # {}
  PROVE  WalkToParent(path).depth = Len(path) /\ WalkIsRight(WalkToParent(path), path)
<1> DEFINE m == Len(path)
<1>1. /\ m \in Nat \ {0} /\ m \in Nat /\ DOMAIN path = 1 .. m
      /\ \A i \in 1 .. m : path[i] \in Names
      /\ Last(path) = path[m]
  BY PathParts DEF Last
<1>2. Leads(inode_bitmap) /\ Kinds /\ inode_bitmap \subseteq Inode /\ TreeShape
      /\ \A b \in inode_bitmap : block[inode[b].directPointer] \in Directory
  BY WalksStayInUse, WalksStayInTable DEF TreeInv, Kinds
<1>3. PICK h \in [0 .. m -> SUBSET inode_bitmap] : IsTrail(h, m, path)
  BY ONLY TypeOK, TreeInv, Intact, <1>1, TrailInUse
<1>4. PICK g \in [0 .. m -> Mover(inode_bitmap, Directory)] : IsParentTrail(g, m, path)
  <2>1. m \in Nat /\ DOMAIN path = 1 .. m
    BY <1>1
  <2>2. Leads(inode_bitmap) /\ \A b \in inode_bitmap : block[inode[b].directPointer] \in Directory
    BY <1>2
  <2> HIDE DEF m
  <2> QED BY ONLY <2>1, <2>2, ParentTrail
<1>5. /\ h[0] = {root} /\ h[m] = Resolve(path)
      /\ \A k \in 1 .. m : h[k] = ChildrenOf(h[k - 1], path[k])
  BY <1>3 DEF IsTrail
<1>6. \A k \in 0 .. m : h[k] # {}
  <2>1. h[m] # {}
    BY <1>5
  <2> HIDE DEF m
  <2> QED BY ONLY <1>1, <1>5, <2>1, TrailIsLive
<1>7. \A n \in Resolve(Front(path)) :
        InSlot(n, folder_number_entries - 1).filename # path[m]
  BY <1>1 DEF Plain
<1>8. h[m - 1] = Resolve(Front(path))
  BY <1>3, LastButOne
<1> DEFINE P(k) == AtDirectory(g[k], h[k], k)
           Wrong == {k \in 0 .. m : ~ P(k)}
<1>9. P(0)
  BY <1>2, <1>4, <1>5 DEF AtDirectory, Directories, Kinds, IsParentTrail
(* One name further: the walk finds the one entry of that name, and what   *)
(* is entered there is a directory without that name.                      *)
<1>10. ASSUME NEW k \in 0 .. m - 1, P(k)
       PROVE  /\ P(k + 1)
              /\ k + 1 = m =>
                   g[m].directory = block[inode[g[m].num].directPointer]
  <2> DEFINE w == g[k]
             n == w.num
             name == path[k + 1]
  <2>1. /\ k \in 0 .. m /\ k \in Nat /\ k + 1 \in 1 .. m /\ k + 1 \in 0 .. m
        /\ (k + 1) - 1 = k /\ (k + 1 = m => k = m - 1)
        /\ (k + 1 # m => k + 2 \in 1 .. m /\ k + 2 \in 0 .. m /\ (k + 2) - 1 = k + 1)
    <3>1. m \in Nat \ {0} /\ k \in 0 .. m - 1
      BY <1>1
    <3> HIDE DEF m
    <3> QED BY ONLY <3>1
  <2>2. name \in Names
    <3> HIDE DEF m
    <3> QED BY ONLY <1>1, <2>1
  <2>3. w \in Mover(inode_bitmap, Directory)
    BY <1>4, <2>1
  <2>4. n \in Directories /\ n \in inode_bitmap /\ inode[n].fileType = "d"
        /\ h[k] = {n} /\ w.depth = k
    BY <1>10 DEF AtDirectory, Directories
  <2>5. h[k + 1] = Children(n, name)
    <3>1. h[k + 1] = ChildrenOf({n}, name)
      BY <1>5, <2>1, <2>4
    <3> QED BY <3>1 DEF ChildrenOf
  <2>6. g[k + 1] = LookAll(w, name)
    BY <1>4, <2>1, <2>4 DEF ParentTurn, IsParentTrail
  <2>7. Children(n, name) # {}
    BY <1>6, <2>1, <2>5
  <2> HIDE DEF name, n
  <2>8. PICK s \in Entries(n) : InSlot(n, s).filename = name
    BY <2>7 DEF Children
  <2>9. /\ s \in Slot
        /\ \A t \in Slot : InSlot(n, t).filename = name <=> t = s
        /\ \A t \in Entries(n) : InSlot(n, t).filename = name => t = s
    <3>1. Entries(n) \subseteq Slot /\ \A t, u \in MatchIn(n, name) : t = u
      BY <2>2, <2>4, MatchIsEntry
    <3>2. s \in MatchIn(n, name)
      BY <2>8, <3>1 DEF MatchIn
    <3> QED BY <2>8, <3>1, <3>2 DEF MatchIn
  <2> DEFINE x == InSlot(n, s).inodeNumber
  <2>10. Children(n, name) = {x}
    BY <2>8, <2>9 DEF Children
  <2> HIDE DEF x
  <2>11. x \in inode_bitmap
    <3>1. h[k + 1] \in SUBSET inode_bitmap
      BY <1>3, <2>1
    <3> QED BY <2>5, <2>10, <3>1
  <2>12. x \in Directories
    <3>1. CASE k + 1 = m
      BY <1>5, <2>5, <2>10, <3>1
    <3>2. CASE k + 1 # m
      <4>1. h[k + 2] = ChildrenOf({x}, path[k + 2]) /\ h[k + 2] # {}
        BY <1>5, <1>6, <2>1, <2>5, <2>10, <3>2
      <4>2. Children(x, path[k + 2]) # {}
        BY <4>1 DEF ChildrenOf
      <4>3. Entries(x) # {}
        BY <4>2 DEF Children
      <4>4. inode[x].fileType = "d"
        BY <4>3 DEF Entries
      <4> QED BY <1>2, <2>11, <4>4 DEF Directories
    <3> QED BY <3>1, <3>2
  <2>13. \A t \in Slot : t > s => InSlot(x, t).filename # name
    <3>1. ChildrenOf(h[k + 1], path[k + 1]) = {}
      BY <1>3, <2>1, NotInItself
    <3>2. Children(x, name) = {}
      BY <2>5, <2>10, <3>1 DEF ChildrenOf, name
    <3>3. inode[x].fileType = "d"
      BY <2>12 DEF Directories
    <3>4. ASSUME NEW t \in Slot, t > s, InSlot(x, t).filename = name PROVE FALSE
      <4>1. t \in MatchIn(x, name) /\ t # 0
        BY <2>9, <3>4, FileSystemConstants DEF MatchIn, Slot
      <4>2. t \in Entries(x)
        BY <2>2, <2>11, <3>3, <4>1, MatchIsEntry
      <4> QED BY <3>2, <3>4, <4>2 DEF Children
    <3> QED BY <3>4
  <2>14. /\ LookAll(w, name).num = x
         /\ LookAll(w, name).depth = w.depth + 1
         /\ s # folder_number_entries - 1 =>
              LookAll(w, name).directory = block[inode[x].directPointer]
    <3>1. x = InSlot(w.num, s).inodeNumber /\ s \in Slot
      BY <2>9 DEF x, n
    <3>2. \A t \in Slot : InSlot(w.num, t).filename = name <=> t = s
      BY <2>9 DEF n
    <3> HIDE DEF w
    <3> QED BY ONLY TypeOK, TreeInv, Intact, <2>3, <2>13, <3>1, <3>2, LookAllFinds
  <2>15. P(k + 1)
    BY <2>4, <2>5, <2>6, <2>10, <2>12, <2>14 DEF AtDirectory
  <2>16. ASSUME k + 1 = m PROVE g[m].directory = block[inode[g[m].num].directPointer]
    <3>1. n \in Resolve(Front(path))
      BY <1>8, <2>1, <2>4, <2>16
    <3>2. InSlot(n, folder_number_entries - 1).filename # name
      BY <1>7, <2>16, <3>1 DEF name
    <3>3. s # folder_number_entries - 1
      BY <2>8, <3>2
    <3> QED BY <2>6, <2>14, <2>16, <3>3
  <2> QED BY <2>15, <2>16
<1> HIDE DEF P
<1>11. Wrong = {}
  <2> SUFFICES ASSUME Wrong # {} PROVE FALSE
    OBVIOUS
  <2>1. Wrong \in SUBSET Nat
    BY <1>1
  <2>2. PICK k \in Wrong : \A j \in Wrong : k <= j
    BY <2>1, MinOfNaturals
  <2>3. k \in 0 .. m /\ ~ P(k) /\ k # 0
    BY <1>9, <2>2
  <2>4. k - 1 \in 0 .. m - 1 /\ k - 1 \in 0 .. m /\ ~ (k <= k - 1) /\ (k - 1) + 1 = k
    BY <1>1, <2>3
  <2>5. P(k - 1)
    BY <2>2, <2>4
  <2>6. P((k - 1) + 1)
    BY <1>10, <2>4, <2>5
  <2> QED BY <2>3, <2>4, <2>6
<1>12. P(m) /\ g[m].directory = block[inode[g[m].num].directPointer]
  <2>1. m \in 0 .. m /\ m - 1 \in 0 .. m - 1 /\ m - 1 \in 0 .. m /\ (m - 1) + 1 = m
    BY <1>1
  <2>2. P(m) /\ P(m - 1)
    BY <1>11, <2>1
  <2> QED BY <1>10, <2>1, <2>2
<1> QED BY <1>4, <1>5, <1>12 DEF P, AtDirectory, WalkIsRight, m, IsParentTrail

(* The walk of fs_create, which changes directory in the middle of a loop, *)
(* ends in the directory that the path names, and has read its entries.    *)
THEOREM CreateFindsTheParent == Spec => []CreateFindsParent
<1>1. TypeOK /\ TreeInv => CreateFindsParent
  BY WalkFindsParent DEF CreateFindsParent
<1> QED BY <1>1, TypeCorrect, TreeInvariance, PTL
=============================================================================
