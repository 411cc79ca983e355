# TLA+ specifications of the CS4520 operating systems coursework

The repository holds four small systems in C. This directory specifies the ones with state and
control worth checking: TLA+ modules translated from the C sources, TLC configurations that check
them on small instances, and TLAPS proofs of what matters most for every instance.

## The system

| part | sources | state | operations |
|---|---|---|---|
| block store (`a4`) | `block_store.c` | 512 blocks of 32 bytes, a free block map kept *inside* blocks 127 and 128 | create, destroy, allocate, request, release, read, write, three counters, serialize, deserialize |
| bitmap (`a4`) | `bitmap.c` | bytes, `bit_count`, padding of the last byte | set, reset, test, flip, invert, format, ffs, ffz, total_set, for_each, create/import/overlay/destroy |
| schedulers (`a3`) | `process_scheduling.c` | a ready queue of PCBs, a second array, a clock, two sums | FCFS, SJF, round robin, SRTF, loading PCBs from a file (`priority` is a stub) |
| dynamic array (`a3`) | `dyn_array.c` | cells, size, capacity | insertion, removal, extraction at either end or an index, growth, sort, import, destroy |
| file system (`a5`) | `FS.c` over binary libraries | a block store with inodes, directories and a descriptor table | format, mount, create, open, close, read, write, seek, get_dir, remove, move |
| C refresher (`a2`) | eight small exercises | none that lasts, but for a second bitmap | single functions |
| analysis program (`a3`) | `analysis.c` | none | runs the scheduler its argument names, and prints |

How they interact. A block store calls its bitmap for every allocation; the bitmap of a created
device is an *overlay* on the device's own blocks, the one of a loaded device a private *import*.
The schedulers move copies of PCBs between two dynamic arrays. The file system calls a block store
for every inode, directory and data block. Nothing runs in threads; what interleaves is the
sequence of calls of several users of one device, the callback of `bitmap_for_each`, and the death
of a process between two system calls.

What is hard in it:

* the map and the data share memory, and a save moves the wrong range of bytes and, after a load,
  a stale map: which files bring a device back intact?
* padding bits and scans that have to stop before them;
* the schedulers overwrite arrival times, rotate queues in place, subtract unsigned numbers before
  adding, and loop until an array they push to is empty;
* overlapping moves of cells at the moment an array grows;
* block 0 of the file system is an inode bitmap and at times a directory;
  walks that change what they walk, a remove that writes to the block it has just let go, and a
  move that depends on variables it never assigns;
* a position in a file kept as an order and an offset of 16 bits, which five functions compute five
  ways; several descriptors on one file; a full device; a process that dies inside of a write to a
  device it shares with the next one.

`PROJECT.json` lists these hazards by line, with the properties that cover each and a note where
none does.

## The modules

| module | models | composed with |
|---|---|---|
| `BitmapOps` | the functions of `bitmap.c` as operators on sets of bit positions | – |
| `Bitmap` | one bitmap, its calls, and a `bitmap_for_each` under way | refines `BitSet` |
| `BitSet` | *abstract*: a set of bit numbers | – |
| `BlockStore` | `block_store.c` without the files, called by several clients | extends `BitmapOps`, refines `BlockAllocator` |
| `BlockAllocator` | *abstract*: exclusive grants of blocks that keep what is written | – |
| `BlockStoreFile` | serialize, deserialize, the file, crashes | extends `BlockStore` |
| `Scheduling` | PCBs, arrays, `check_pcb`, `uint32_t` arithmetic | – |
| `FirstComeFirstServe`, `ShortestJobFirst`, `RoundRobin`, `ShortestRemainingTimeFirst` | one scheduler each | extend `Scheduling` |
| `Schedulers` | the switch of `analysis.c`: one run of one of the four | instances of the four; refines `CpuSchedule` when it runs SJF or round robin |
| `CpuSchedule` | *abstract*: one CPU, only arrived processes run and never longer than they need | – |
| `DynArray` | `dyn_array.c` at the level of cells | refines `List` |
| `List` | *abstract*: a list of objects | – |
| `FileSystem` | `FS.c` without the contents of files: inodes, directories, descriptors | – |
| `FileContents` | `fs_seek`, `fs_read`, `fs_write`: the bytes of files that exist | – |
| `FiniteSums`, `BitmapOpsProofs`, `BitmapProofs`, `BlockStoreProofs`, `SchedulersProofs`, `DynArrayProofs`, `FileSystemProofs`, `FileContentsProofs` | lemmas and theorems | – |
| `MC...` | the instances for TLC | – |

### Bitmap and block store

A byte array is the set of the positions whose bit is 1, `Cell` being all positions of the bytes
and `Bit` those below `bit_count`. Invert and format act on `Cell`, as the code acts on whole
bytes; the counters and scans must answer for `Bit`.

`mem` is `num_blocks`: the set of `<<block, offset>>` pairs that are 1. The map of a created device
has no variable: it is *read out of* `mem` at the cells `MapCell` names (`StoredMap`), and a bitmap
operation writes those cells (`PutMap`). That is what makes "no write reaches the map" a property
and not an assumption. A loaded device (`kind = "import"`) reads and writes `copy` instead.

The clients follow the protocol of the header: they release and write what they were given. They may
request any block, allocate at any time and destroy the device under each other. `owned` and `wrote`
are history variables for the properties; no guard of a device operation reads more of them than the
protocol.

In `BlockStoreFile`, `SerializeOpen` is the `open` with `O_TRUNC` and `SerializeWrite(size)` the one
`write`, which may store less than it was asked for (0 also stands for a failed write). `Crash` may
come between them or anywhere else. `Position` gives the place of a bit in the struct, which starts
with the pointer `fbm`: both system calls move `BLOCK_STORE_NUM_BYTES` bytes from the struct's
start, so the last bits of the last block stay out of the file. `deserialize` fills what the file
does not cover with what `malloc` returned (`Garbage`). The file carries history too: what the
clients held at the save, and how good the saved device was (`Quality`). Clients continue after a
load with the blocks they held when the file was saved.

### Schedulers

An array of PCBs is a sequence of process numbers and each field a function; one step is one turn
of a loop. `virtual_cpu` in a loop is one subtraction modulo `WordMod`. `burst` and `arrives` keep
what the PCBs were given, because the code overwrites `arrival` and counts down
`remaining_burst_time`. qsort may leave equal elements in any order, so the sorting actions choose
among all sorted permutations. The averages are the sums divided by the size at the end, so the
modules keep the sums.

`Schedulers` takes one run of one policy, with one `INSTANCE` per scheduler over the same variables;
the variables only another policy uses stay as they are. What should hold whatever the policy
(no PCB lost or doubled, sums that agree, no stop while somebody can run, the return) is stated
there once, and the properties of one policy are guarded by `policy`.

`load_process_control_blocks` allocates the PCBs with `malloc` and assigns three of their four
fields; `started`, which SJF alone reads, is left as it is, and only the tests clear it before the
call. So `Init` lets any set of PCBs come with the field set (`marked`, a history): SJF never pushes
and never runs those, and what is stated of it is stated of the others (`Served`).

The array of copies that `shortest_job_first` makes is created with elements of as many bytes as
there are PCBs. With 4 to 16 of them a copy holds the burst time and fits into a PCB, and nothing
else of a copy is used; `Schedulers` assumes just that (`CopiesHoldTheBurst`).

### Dynamic array

`array` is a function on the cells, with `Junk` in what `malloc` returned. `memmove` and `memcpy`
are operators on cells; the stale cells behind `size` keep what they held. A call that fails
(position behind the end, the maximal capacity, no memory) changes nothing, so it is a stutter. The
array is given a destructor; without one only the history `destructed` would be missing. The
doubling loop stops at the smallest of the `Capacities` that is enough.

`dyn_shift_remove` adds position and count as `size_t` (`EndOf`, modulo `SIZE_MAX + 1`), and
positions up to `SIZE_MAX` are tried. One call passes its check by wrapping: an erase at `SIZE_MAX`
moves memory before the start of the array, has no defined outcome and is left out. (An extract
there fails, because it looks the object up first.)

### Names of the file system

Block 0 holds the bitmap of the inode table, and it is also what a directory without a block of its
own reads (its `directPointer[0]` is 0) and what `fs_remove` writes to: it indexes `directPointer`
with the slot of the entry (FS.c:1011), so the first remove writes a directory over the bitmap, and
the root's inode, which `fs_format` reserved, counts as free. `FileSystem` keeps that sharing: a name
is the set of bits of its characters, a block is a table of entries, and
`inode_bitmap` is by definition the name of the first entry of block 0. A name is any set of bits
but the empty one (`NamesHaveBits`), so it may look as the bitmap does: `?` is 0x3F, the bitmap with
inodes 0 to 5 in use. Then `fs_open` of `/d/?` in an empty `d` matches the entry that block 0 seems
to have, ends at the root and leaves its descriptor marked, and `/d/?/x` opens `/x`.
`AsksForBitmap` is the condition on path and state under which this happens, and `OpenFinds` speaks
of all other paths. A create below `/d/?` goes astray (`astray`), as its walk does not look at the
bits of the entries either; the walks of `fs_remove` and `fs_move` do.

The three walks of the code differ, and so do their operators: the one of `fs_create` (`Look`)
changes directory in the middle of a loop and hands on the buffer it read last, the one of `fs_open`
(`OpenToken`) counts all matches, the one of `fs_remove` (`RemoveToken`) those whose bit is set.
`Resolve` is the reference they are compared with. `asked`, `astray`, `overwritten` and `moved` are
history.

`fs_move` assigns three of its variables on some paths only. `dst_flag` is unassigned exactly when
the target holds neither name (`FreeName`), and the move goes on when it happens to be false: the
action may be taken or not. `inode_dst_stat`, which the new entry stores, is assigned on no path
that goes on, so the action chooses it among all inodes. `target_src` and `src_num` are unassigned
when the source does not exist, a case that is left out. The order of its stores matters: the old
entry goes first, and in a full target the new slot is `SIZE_MAX`, so the process dies in between.
The buffer that is written to the target is the one the walk read last unless the target has an
entry (`BufferOf`).

A move leaves a hole in the entries of a directory, and two things in `fs_create` do not expect one.
It compares the new name with the entries before the first clear bit only (FS.c:308), so behind the
hole a name is given a second time and its path leads to two inodes; that is why `FilesStay` says of
a file that it is *among* those its path leads to. And a hole in the first slot looks to it like a
directory without entries (FS.c:321): it allocates a block for it again, and when no inode is left,
the directory keeps that new block, and what it held can no longer be reached; `asked` forgets the
files then. Both came up when the proof of `FilesStay` did not go through as it was first stated.

The source does not compile at this commit (`FS_t` has no member `bitmap`, and `tokenize` is defined
twice); it is read as if the member was there and one `tokenize` was left. The blocks come from the
binary libraries, modelled as a map of blocks and bitmaps scanned from below. Regular files have no
contents here, so a walk that takes a file for a directory reads block 0 and never a user's bytes;
of a name only the characters count, not the bytes left behind its end.

### Contents of files

`FileContents` starts where `fs_create` and `fs_open` of the module before end: with files that
have an inode and descriptors on them. A position is a pair of `locate_order`, the number of a
block in the inode, and `locate_offset`. `PrevOffset`, `Split`, `SeekTarget` and `Advanced` are the
four computations with it, each as the function that holds it has it; `Position` is what `FS.h`
says it means.

A byte has no value, it is its place: byte k of a buffer written to a file is `<<file, k>>`, so the
properties see bytes that are shifted, left out or taken from another place in the buffer.
`write_direct_ptr` calls itself for the next pointer; its arithmetic is given in closed form by
order (`Consumed`, `From`, `available_space`, `Touched`), and `Store` is the sum of its
`block_store_write`s. What each new pointer gets is chosen by `Allocated`: the lowest free
blocks in the order of the calls, `Overflow` (65535, which the library refuses to write) when none
is left. A new block is filled from the start of the buffer whatever the offset is, so a write that
begins inside of a block that does not exist yet is lost; `Lost` names the two cases in which a
caller cannot expect the byte back, and `wrote` is the history of the others. `write_indirect_ptr`
counts bytes and stores none, and writes from the double indirect pointer on change the size alone.

`KilledInWrite` is the death of the process at any of the calls of a write: before an allocation,
between it and the store, or before the inode is written. The device is a shared mapping of a file,
so what was stored stays, and the descriptors, which are on the heap, are gone. `Remount` is the
same between two calls. `stream` is history: the descriptors that did nothing but append.

Reads do not check their descriptor and end in whatever is behind the block on the stack. A read
leaves the offset behind the end of the block when it crosses it; what a write from there does is
undefined and left out (`Writable`), as are the bytes of a read from an order beyond the pointers.

## The runs

The longest takes about two minutes. `CHECK_DEADLOCK FALSE` is set for the schedulers only, which
return.

| run | instance | what it shows |
|---|---|---|
| `bitmap` | 6 bits in bytes of 4, two bits of padding | ffs, ffz and the count never see the padding; a walk visits what stayed set throughout, whatever its callback does; the bitmap is a set of bits |
| `block_store` | 6 blocks × 3 bits, map in 2 and 3, two clients | the map is exact, grants are exclusive, data and map never touch each other, blocks read back, the counters add up, the device implements `BlockAllocator` |
| `block_store_file` | 4 blocks × 2 bits, map in 1 and 2, pointer of one bit, writes of all, half or nothing | a whole file, saved while the stored map was in use, restores map, grants and saved bits; any whole file keeps the map's own blocks reserved. The bits behind the pointer's width from the end are never saved, though the header promises "the entirety of the BS device" |
| `file_second_load` | same | **violated**: load, allocate, save, load again: the new block is free although its holder has it |
| `schedulers` | 4 PCBs, bursts 0, 1, 3, arrivals 0, 1, 4, quanta 0, 1, 2, a word of 4 bits | *all*: no PCB lost or doubled, the sums agree (after an overrun too), a stop only in an idle gap (round robin and SJF do stop there, with later arrivals still queued) or with PCBs left that came to SJF with `started` set, return. *Round robin*: `check_pcb` keeps the queue's order, nobody is overtaken twice by one process. *SJF*: each batch runs shortest first. *SRTF*: until a burst is overrun, the CPU goes to the least remaining time among all who have arrived. *FCFS*: all are served, in order of arrival when loaded back to front; the waiting sum is right as long as the CPU is never handed a process that is still to come. SJF and round robin implement `CpuSchedule` |
| `srtf_overrun` | SRTF alone | **violated**: `remaining_burst_time` is "the remaining burst of the pcb" – it wraps when the burst ends before the next arrival |
| `early_stop` | round robin alone, bursts 1 and 3 | **violated**: `total_run_time` is "the total time to process all the PCBs in the ready queue" – round robin returns when its array is empty, with those who arrive after the gap still queued |
| `dyn_array` | 2 objects, capacities 1, 2 and 4, `SIZE_MAX` 7 | cells, growth and overlapping moves implement a list; every object is destructed or handed back at most once |
| `file_system` | 4 inodes, directories of 2 entries, 2 data blocks, 1 descriptor, a letter and a name that is the bitmap of two inodes, paths of up to three names | until a create goes astray, a remove writes over block 0 or a move enters some inode: the directories are a tree, block 0 marks exactly the inodes entered in it, descriptors name files, `fs_open` finds what the path names and nothing else unless the path asks an empty directory for the bitmap's own name, and the walk of `fs_create` ends in the right directory when no directory enters its own name again and the parent is not in the last entry. Always: no block is given to two directories. Until a create goes astray or block 0 is written over: what was created and not moved stays where it is, through moves that die half-way too |
| `fs_location` | 6 inodes, 3 data blocks, names `a` and `b` | **violated**: "Creates a new file at the specified location" – in a directory that is the last entry of its parent the parent's entries are written over its files |
| `file_contents` | 2 files, 2 descriptors, 3 blocks of 3 bytes, 2 direct and 2 indirect pointers, turn at 1, requests of 0, 1 and 4 bytes, seeks to 0, the largest position and beyond it, 3 writes, one death inside a write | no block serves two pointers and none is lost without a death; a position holds what was last written there, over block borders, through both descriptors and after a death; a descriptor that only appends leaves no gap and ends with the file; a read answers what was written, up to the end of its block |
| `contents_position` | same | **violated**: "R/W position in incremented by the number of bytes written" – a write that ends at the turn goes on in the next block |

Why the bounds are enough. Two clients suffice for a double grant, two blocks per map for a map that
crosses a block boundary, one reserved range with free blocks on both sides for a scan that must
step over it. A pointer of one bit is the smallest that cuts something off. In a file run of four
blocks a device goes through two generations of save and load, which is all that `Quality`
distinguishes; a device read from a short file is examined when it is loaded and not followed
further (`NotTorn`). Four processes are the fewest for which SJF's copies hold the burst, and enough
for one to be overtaken by two while a fourth arrives. Burst 3 ends just as arrival 4 comes when it
starts at 1; bursts 0 and 1 leave the CPU idle before it, and 0 is a process that is never requeued.
A word of 4 bits holds the clock but lets the sums wrap, which the code relies on: waiting times of
several processes add up to more than 15, and SRTF's overrun burst wraps to a large one. Quantum 0
is the rejected one, 2 leaves a remainder of burst 3. The PCBs that come with `started` set are the
first of the array (`MarkedFirst`, a constraint): bursts and arrivals are given to the places in
every way, and SJF pushes all who have arrived before it sorts. `early_stop` leaves out burst 0, so
that nobody left there came without work. Capacities 1, 2 and 4 make an array grow twice and then
refuse; `MaxStored` bounds how often an object is put in; with `SIZE_MAX` 7 there are positions
behind every end and one whose sum wraps. The bitmap of block 0 equals the second name as soon as
two inodes are in use, which is after the first create in the root. With four inodes, directories of
two entries, two blocks and one descriptor each of the four runs out within three creates or opens,
and three directories nest; the walk that goes astray needs a directory in the last of its parent's
entries or one inside a directory of the same name, and has both. One move (`moved`) is enough for
its hazards, which are those of a single call; after a remove has written over block 0 nothing about
names is left to check. A block of three bytes has a byte before the turn, one at it and one behind;
a request of 4 crosses a border from any offset; with three blocks the device is full in the middle
of a write, in its first block and in a later one; two files and two descriptors give both two
writers on one file and one block wanted by two files; after three writes a byte has been written,
written over and passed by the other descriptor. `Word` is just above the largest order and offset,
so that three writes are enough for an order to outgrow its width.

Symmetry under permutation of the clients is used in the runs of block store files, and of files and
descriptors in `file_contents`; these check invariants only.

Fairness. The schedulers have `WF_vars(Next)`: one thread runs them, nothing in them blocks, so a
step that is possible is taken. `Returns` is checked under it. The other modules have no fairness
and no liveness property: their operations happen when somebody calls.

Mutations. Definitions marked "Mutation" are plausible slips (a dropped test, a wrong mask, an
off-by-one), each put before the definition it would replace. With the replacement the property
named in `PROJECT.json` is violated in its run, which shows that the property can tell.

## The proofs

Every safety invariant and every refinement that a passing run checks is proved, for every value of
the constants that the named assumptions allow: `THEOREM Spec => []Inv`, or `Spec => Abstract!Spec`.
The assumptions are those of the modules (`BitmapConstants`, `StoreConstants`, `FileConstants`,
`SchedulingConstants` and so on), evaluated by TLC in every run. Where an invariant is not inductive,
the one that is was checked by TLC on the instance of the run before it was proved.

Induction is done by the smallest counterexample. `FiniteSums` has the two principles as lemmas: a
nonempty set of naturals has a least element (`MinOfNaturals`), a nonempty family of finite sets a
smallest one (`SmallestSet`). From these it derives what a sum over a finite set is (`SumOfNone`,
`SumWithout`, `SumChange`, `SumBounds`), arithmetic modulo a word (`ModDrops`, `ModSmall`), and what
a fold over a sequence does: the definition of the folds has a solution (`FoldSolvable`), which goes
through a trail of values, one for each element (`FoldTrail`). So the counters, the sums of the
schedulers and the walks of the file system can be reasoned about.

### Bitmap

`BitmapOpsProofs` and `BitmapProofs`, for every number of bits and every size of a byte, from
`BitmapConstants` alone:

* `TypeCorrect`: no call stores outside of the allocated bytes (`BitsFit` is the arithmetic of
  `byte_count` behind it);
* `FirstFound`: what `bitmap_ffs` and `bitmap_ffz` answer (`FirstZero`, `NoZero`);
* `TotalIsExact` (`TotalSetExact`): `bitmap_total_set` adds up tables over whole bytes and a masked
  last one; `BytesAddUp` cuts a set of bits at the bytes (`CutAt`) and counts the pieces;
* `WalkIsComplete` (`ForEachVisits`): which bits `bitmap_for_each` visits while its callback changes
  the bitmap. It is not inductive: the step at a bit has to know that what was set throughout is set
  now and that what is set now was set during the walk, which is the added conjunct `WalkKnows`;
* `BytesAreABitSet`: `Bitmap` implements `BitSet`, so what invert and format leave in the padding
  never shows in a later answer. `StoreIsASetStep` maps each call to its step, a walk stutters.

### Block store

The first part of `BlockStoreProofs`, for every size of the device, every place of the map inside
it, any number of clients and any values, from `BitmapConstants` and `StoreConstants` alone (the map
fills its blocks exactly and lies inside the device):

* `TypeCorrect`, `MapExactness`, `ExclusiveGrants` (`GrantsAreExclusive`: no block with two
  clients or with a client and the map), `ReadYourWrites` and `CountersAgree` (`CountsAddUp`);
* `DeviceIsAllocator`: the specification implements `BlockAllocator`.

The inductive invariant `Inv` is the conjunction of the type invariant, the map and the reads. None
is inductive alone: that a block reads back needs that no map operation writes into it (`MapIsSafe`),
that needs the map's own bits to be set (`MapIsExact`), and that is preserved by a write only because
the writer holds no block of the map. The lemmas on the map: `MapCellInReserved` and
`MapCellInjective` (the cells of the map are in its blocks, one for each block), `StoredMapReadsBack`
(what is put is what is read), `PutMapEffect` and `WriteEffect`. The counters follow from the exact
map and `TotalCounts` of the bitmap.

The second part is about `BlockStoreFile`, with `FileConstants` and `MapReachesFile` (the end of the
device that stays out of the file is behind the map), for any sequence of calls, saves, short or
failed writes, crashes and loads:

* `ReloadExactness` (`ReloadIsExact`) and `ReloadedWrites` (`ReloadKeepsWrites`).

The inductive invariant `FileInv` says the same of three things at once: of the device (`DeviceGood`,
as far as its origin promises), of a whole file (`FileGood`), and, while a save is under way, that
the history put into the file is still the one of the device (`SavingMatches`: nothing runs between
`open` and `write`, and a crash there leaves a file of size 0). `GoodMemory` states what device and
file share, so that a save and a load are two uses of one lemma (`SavedDecides`): memories that agree
on the bits that reach the file are equally good, because the map is among those bits
(`MapIsSaved`). A device with a stale map loses `MapIsExact` and keeps the rest, so the lemmas on the
calls (`GrantKeeps`, `ReleaseKeeps`, `WriteKeeps`) hold for every origin.

### Schedulers

`SchedulersProofs`, for any number of PCBs, any bursts, arrivals and quanta and any width of a word,
from `SchedulingConstants`, `PolicyLetters`, `QuantaAreNumbers` and `CopiesHoldTheBurst` (4 to
16 PCBs when SJF is run):

* `TypeCorrect`, `NoneLostOrDoubled`, `SumsAlwaysAgree`, `StopsInIdleGapOnly`, of all four;
* `RrCheckKeepsOrder`, `RrOvertakenOnce`, `SrtfShortestRuns`, `FcfsFirstComeFirst`,
  `SjfShortestOfBatch` (an action property), of the one they name;
* `OneCpuRefined`: round robin and SJF implement `CpuSchedule`. Its hypothesis is that the clock can
  hold the work, `N * m < WordMod` for some m that bounds the bursts: a clock of 32 bits that wraps
  is no clock. The instance TLC checks satisfies it (4 * 3 < 16), and at 32 bits it takes bursts that
  add up to more than 2^32 ticks to break it. The other theorems need no such bound.

The invariant `Inv` says of the policy at hand that its own invariant holds (`RrInv`, `SrtfInv`,
`FcfsInv`, `SjfInv`) and of the variables only others use that they stay. What the four share:

* `QueueInv`: where the PCBs are. No array holds one twice and no two places the same, the finished
  ones are nowhere. `FrontKeeps`, `TailKeeps`, `AppendKeeps`, `TurnKeeps` and `SortKeeps` say what
  the moves do to the set of an array's members, `OnePlace` what follows for the whole;
* `SumInv`: turnaround and waiting time differ by what was served, modulo the word. It is a sum over
  the PCBs of what each owes (`Delayed`), because the code subtracts the arrival of a turn and adds
  its end later; a dispatch or a requeue changes one term (`DispatchSums`, `FinishSums`);
* `ClockInv`: the clock is the work done so far, modulo the word.

Each policy adds what its order rests on. Round robin: `Overtaken` (nobody ahead in the array has
run while those behind him were in it) and `RrOrder`, the queue as `check_pcb` rotates it, split at
the number of turns taken. SRTF: `SrtfSorted` and `SrtfLooked`, that the array is sorted whenever
somebody is taken from it and all who have arrived are in it. FCFS: `WaitInv`, a sum over the
sequence of those served. SJF: `SjfProgress`, a counting argument that a batch ends (who was not
started arrives later, or is in the batch; who came with the field set counts as started from the
beginning), which `StopsOnlyInIdleGap` needs.

### Dynamic array

`DynArrayProofs`, for any objects with an order and any first and maximal capacity, from
`DynArrayConstants` alone:

* `TypeCorrect`, `OnceEach` (`EachObjectOnce`), `ImplementsList`.

Both overlapping moves are windows of cells copied to another place (`WindowSplits`,
`WindowsAlike`), so that an insertion and a removal are one splice each (`SplicedIsInserted`,
`SplicedIsRemoved`), and `SplicedTimes` counts how often an object is in the result. `DoubledFits`
and `GrownFits` say that the capacity found is enough and stays in `Capacities`, `EndNoWrap` that the
sum of `dyn_shift_remove` is exact in the calls that are modelled. The inductive
invariant adds to the counts that the cells below `size` hold objects (`CellsHold`). In the
refinement every call that is modelled is one step of `List` or leaves the list as it is: growth and
the stale cells behind `size` do not show.

### Names of the file system

`FileSystemProofs`, for every number of inodes, entries, blocks and descriptors and any names and
paths, from `FileSystemConstants` and `NamesHaveBits` alone:

* `BlocksStayExclusive` (`BlocksExclusive`), after any call, wherever the walks end: `OneNewBlock`
  is the step that gives a block away, `NoNewBlock` every other one. The inductive invariant adds the
  type of the inode table;
* `TypeCorrect`: also after block 0 was written over, when a walk may stand anywhere;
* `Tree` (`TreeShape`), `MapOfInodes` (`InodeMapExact`), `HeldAreFiles` (`DescriptorsAreFiles`);
* `OpenFindsThePath` (`OpenFinds`) and `CreateFindsTheParent` (`CreateFindsParent`);
* `CreatedStays` (`FilesStay`).

A walk is a fold over the names of a path, and the one of `fs_create` has a second fold over the
slots in each turn. `OpenTrail`, `RemoveTrail`, `MoveTrail`, `ParentTrail`, `LookTrail` and
`ResolveTrail` give each as a trail of the places it comes by, inside of any set of inodes that no
entry leads out of (`Leads`). With all inodes for that set this is type correctness
(`WalksStayInTable`), with those in use it is the first step of everything else (`WalksStayInUse`).

`TreeInv` is the inductive invariant behind the tree. To the three properties it adds how a
directory is kept while nothing was removed or moved: its entries are the first ones of its block
and the rest is blank, one without entries has no block (`Packed`), and block 0 is empty behind the
bitmap (`EmptyBlocks`). Without these the walks, which do not look at the bits of the entries, could
find a name that is not there. A create adds one entry, in a block it has or in a new one (`Added`),
and the two cases of an inode being left or not are `AddEntry` and `AddBlank`.

`OpenBeside` walks `fs_open` and the path side by side: the number of names counted is the number of
names found as long as the path leads somewhere, and falls behind for good when it does not. A name
matches an entry of the directory, or the entry block 0 seems to have when the directory is empty
(`MatchIn`, `MatchIsEntry`); the second is what `AsksForBitmap` excludes as long as the walk stands
where the path leads. Behind that the walk may come by any directory, but it counts at most one name
a turn (`TurnBeside`) and never catches up. The walk of `fs_move`, on which `FilesStay` rests, is
compared in the same way and without the condition, for it looks at set bits only (`MoveBeside`).
For `fs_create`, `LookAllFinds` is the loop that changes directory in its middle: behind the slot of
the match it compares the later entries of the child, which does no harm when the child does not
hold the name (`NotInItself`), and it has read the child unless the match was in the last slot.
`WalkFindsParent` needs of the path just what `Plain` says; `fs_location` shows what happens
otherwise.

`CreatedStays` goes on after a move, when there is no tree any more. `StayInv` keeps what the creates
after it still rest on (`Sound`): the root is in use, what is not in use has no type, what has no
block has no entries. A step that keeps all entries keeps every trail (`KeptTrail`, which speaks of
the trails before and after the step). The move is the one step that takes an entry out, and it is
made in the tree: there two paths come by the same inode only after the same names
(`TrailsMeetOnce`), so the entry taken out is on the path of those files only that it is meant to
move (`OthersStay`).

### Contents of files

`FileContentsProofs`, for every size of blocks, place of the turn, number of pointers, width of a
position, and every set of files, descriptors, blocks and requests, from `ContentConstants` alone
(among them that a position's width holds the number of an inode's pointers):

* `TypeCorrect`: orders and offsets stay in their width, pointers name blocks;
* `BlocksApart` (`FilesApart`): no block serves two pointers, all that are pointed to are marked,
  and without a death inside of a write none is lost;
* `WritesAreStored` (`WrittenIsStored`): every position holds the byte last written to it, except
  where `Lost` says that it does not;
* `ReadsAreWrites` (`ReadsWhatWasWritten`): the positions a read covers are those it says
  (`PositionIsByte`), so this follows from the one before;
* `StreamsHaveNoGap` (`StreamsAppend`).

The inductive invariant `Inv` is the conjunction of the first three. That a write stores what it
should (`StoreEffect`) needs that no other pointer names the blocks it stores to, which is
`FilesApart`; that in turn needs `Allocated` to give different free blocks to the new pointers
(`NewPointers`). `ByteOfBuffer` is the arithmetic at the heart of it: byte `From + k` of order o is
byte `Consumed + k` of the buffer, which stands `Consumed + k` behind the position. A death inside of
a write is covered by the same lemmas, applied to the orders before the one in which it happens.

The streams have an invariant of their own, `StreamInv`: a byte is lost only on a full device
(`LostMeansFull`), and a descriptor that did nothing but append stands at the end of its file, with
all before it written unless the device is full (`AtEnd`). `AdvancedPosition` says where a write
leaves the position, `CoveredIsTouched` that what it passes is what it wrote, `OverflowFills` that a
pointer stays without a block only when the last one was given away.

### Only model-checked

* `Returns`, that every scheduler returns: liveness under fairness is out of the prover's reach.
* The five violations, of course. Each marks where a theorem ends: `RemainingIsTheRest` fails and
  `ShortestRuns` speaks of the time before an overrun; `AllProcessed` fails and
  `StopsOnlyInIdleGap` says who may be left; `CreatedWhereAsked` fails outside of `Plain`.
* That no operation is missing or idle (the coverage of actions), and the mutations.

## Not modelled

* Failures of `malloc`, `open` and `close`, which return early and change no state of the device.
  Some of these paths of `block_store_deserialize` leak a descriptor or the device's memory; no
  later call reads either.
* Calls outside the protocol: releasing or writing blocks that were never granted, block numbers
  beyond the device.
* How `load_process_control_blocks` reads its file, and files of fewer than four PCBs. Of what it
  leaves behind, `Schedulers` starts from a queue with any bursts and arrivals and with any value in
  `started`; it imports `sizeof(buf)`, that is four, PCBs whatever the file holds. The arguments and
  the printing of `analysis.c`, and `priority`, a stub that returns false.
* `fs_get_dir`, which changes nothing and tests bits in memory it has freed; `fs_link`, a stub.
* Calls of the file system without a defined outcome: a move of what does not exist, a write from an
  offset beyond its block, the bytes of a read beyond the pointers, a read through a closed
  descriptor.
* What ties the two modules of the file system: removing a file changes neither its blocks nor its
  descriptors, so `FileContents` has no remove; an inode that is created anew starts without
  pointers, and its predecessor's blocks stay marked.
* The stores of `fs_remove` outside of an inode, for entries from the eighth on.
* A shorter job that arrives during a batch of SJF waits for its end: the code does so
  (`ShortestOfBatch` says what it does keep), and no run states more.
* The exercises of `a2`.

## Plan

1. Done: bitmap, block store, block store files, schedulers and their composition, dynamic array,
   names and contents of the file system; theorems for every safety invariant and every refinement
   that is checked.
2. An abstract tree of names for `FileSystem` to refine while `Intact` holds, and a sequence of bytes
   for `FileContents` where nothing is `Lost`: both would join what is now proved property by
   property.
3. A bound on the steps of a scheduler that decreases with every turn, as an action property: the
   safety half of `Returns`, which can be proved.
4. The reading of `load_process_control_blocks` in front of `Schedulers`; the second bitmap of `a2`.
