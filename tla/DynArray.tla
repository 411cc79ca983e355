------------------------------ MODULE DynArray ------------------------------
(***************************************************************************)
(* A dyn_array_t of a3_process_scheduling/src/dyn_array.c: `size` objects  *)
(* at the start of `capacity` cells.  Every insertion and removal is a     *)
(* call of dyn_shift_insert or dyn_shift_remove, which move the objects    *)
(* behind the position with memmove; the cells from size on keep whatever  *)
(* was there.  Objects are numbers, for the comparator to order.           *)
(***************************************************************************)
EXTENDS Naturals, SequencesExt

CONSTANTS
  Object,            (* what is stored                                       *)
  Junk,              (* what malloc and realloc leave in a new cell          *)
  FirstCapacity,     (* the capacity of the smallest array: 16               *)
  DYN_MAX_CAPACITY,  (* 2^56                                                 *)
  SIZE_MAX,          (* 2^64 - 1: the largest position a call can have       *)
  MaxStored          (* bound: how often an object is put into an array      *)

(* 16, 32, 64 and so on: what an array has, or doubles to. *)
Capacities ==
  {c \in 1 .. DYN_MAX_CAPACITY : \E k \in 0 .. c : c = FirstCapacity * 2 ^ k}

ASSUME DynArrayConstants ==
  /\ Object \subseteq Nat /\ Junk \notin Object
  /\ FirstCapacity \in Nat \ {0}
  /\ DYN_MAX_CAPACITY \in Nat /\ DYN_MAX_CAPACITY \in Capacities
  /\ SIZE_MAX \in Nat /\ DYN_MAX_CAPACITY < SIZE_MAX
  /\ MaxStored \in Nat

VARIABLES
  capacity,   \* 0 when there is no array
  size,
  array,      \* the cells, from 0
  stored,     \* history: how often each object was put in
  extracted,  \* history: how often it was handed back
  destructed  \* history: how often the destructor was called on it

vars == <<capacity, size, array, stored, extracted, destructed>>

Cells(n) == 0 .. n - 1
Counts == [Object -> 0 .. MaxStored]
None == [x \in Object |-> 0]

TypeOK ==
  /\ capacity \in 0 .. DYN_MAX_CAPACITY
  /\ size \in 0 .. capacity
  /\ array \in [Cells(capacity) -> Object \cup {Junk}]
  /\ stored \in Counts /\ extracted \in Counts /\ destructed \in Counts

(* The objects in the array, front first. *)
Items == [k \in 1 .. size |-> array[k - 1]]

Times(x, s) == Cardinality({k \in DOMAIN s : s[k] = x})
Tally(count, s) == [x \in Object |-> count[x] + Times(x, s)]

MoveOneLess(cells, dst, src, n) ==    \* Mutation: one object stays behind
  [c \in DOMAIN cells |->
     IF c \in dst .. dst + n - 2 THEN cells[src + (c - dst)] ELSE cells[c]]

(* The cells after memmove of n objects, and after memcpy of the objects s. *)
memmove(cells, dst, src, n) ==
  [c \in DOMAIN cells |->
     IF c \in dst .. dst + n - 1 THEN cells[src + (c - dst)] ELSE cells[c]]
memcpy(cells, dst, s) ==
  [c \in DOMAIN cells |->
     IF c \in dst .. dst + Len(s) - 1 THEN s[c - dst + 1] ELSE cells[c]]

(* The capacity doubles until the objects fit: from whichever it starts,   *)
(* it stops at the smallest that is enough.                                *)
Doubled(needed) == Min({c \in Capacities : c >= needed})

(* Mutation: a full array is not noticed. *)
GrownTooLate(count) ==
  IF capacity + 1 >= size + count THEN capacity ELSE Doubled(size + count)

(* dyn_request_size_increase, when it returns true: what the capacity and  *)
(* the cells are then.  realloc keeps the old cells.                       *)
GrownCapacity(count) ==
  IF capacity >= size + count THEN capacity ELSE Doubled(size + count)
Grown(count) ==
  [c \in Cells(GrownCapacity(count)) |-> IF c < capacity THEN array[c] ELSE Junk]

Init ==
  /\ capacity = 0 /\ size = 0 /\ array = <<>>
  /\ stored = None /\ extracted = None /\ destructed = None

CanStore(s) == \A x \in Object : Tally(stored, s)[x] <= MaxStored

dyn_array_create(requested) ==
  /\ capacity = 0
  /\ requested <= DYN_MAX_CAPACITY
  /\ capacity' = Doubled(requested)
  /\ size' = 0
  /\ array' = [c \in Cells(capacity') |-> Junk]
  /\ UNCHANGED <<stored, extracted, destructed>>

(* dyn_array_create(count) and then the insertion of all the objects. *)
dyn_array_import(data) ==
  /\ capacity = 0
  /\ data # <<>> /\ Len(data) <= DYN_MAX_CAPACITY
  /\ CanStore(data)
  /\ capacity' = Doubled(Len(data))
  /\ size' = Len(data)
  /\ array' = memcpy([c \in Cells(capacity') |-> Junk], 0, data)
  /\ stored' = Tally(stored, data)
  /\ UNCHANGED <<extracted, destructed>>

(* A failing call changes nothing: a position behind the end, more than    *)
(* DYN_MAX_CAPACITY objects, or no memory.                                 *)
dyn_shift_insert(position, s) ==
  /\ capacity # 0
  /\ position <= size
  /\ capacity >= size + Len(s) \/ size + Len(s) <= DYN_MAX_CAPACITY
  /\ CanStore(s)
  /\ capacity' = GrownCapacity(Len(s))
  /\ array' = memcpy(
       memmove(Grown(Len(s)), position + Len(s), position, size - position), position, s)
  /\ size' = size + Len(s)
  /\ stored' = Tally(stored, s)
  /\ UNCHANGED <<extracted, destructed>>

dyn_array_push_front(x) == dyn_shift_insert(0, <<x>>)
dyn_array_push_back(x)  == dyn_shift_insert(size, <<x>>)
dyn_array_insert(i, x)  == dyn_shift_insert(i, <<x>>)

(* The loop stops at the first object that the new one is not greater than.*)
OrderedPosition(x) ==
  Min({k \in 0 .. size : k = size \/ x <= array[k]})
dyn_array_insert_sorted(x) == dyn_shift_insert(OrderedPosition(x), <<x>>)

(* position + count as a size_t. *)
EndOf(position, count) == (position + count) % (SIZE_MAX + 1)

(* Closes the gap; the last cells keep what they held.  The range is tested*)
(* by a sum that may wrap: one object at SIZE_MAX passes with the sum 0,   *)
(* and the destructor and memmove go in front of the array.  That call has *)
(* no defined outcome and is left out; it is the only one that wraps.      *)
dyn_shift_remove(position, count) ==
  /\ count > 0 /\ size > 0
  /\ EndOf(position, count) <= size
  /\ array' = memmove(array, position, EndOf(position, count), size - EndOf(position, count))
  /\ size' = size - count
  /\ UNCHANGED <<capacity, stored>>

Removed(position, count) == SubSeq(Items, position + 1, position + count)

Erase(position, count) ==
  /\ dyn_shift_remove(position, count)
  /\ destructed' = Tally(destructed, Removed(position, count))
  /\ UNCHANGED extracted

ExtractAndDestruct(position) ==    \* Mutation: the mode is not looked at
  /\ dyn_shift_remove(position, 1)
  /\ extracted' = Tally(extracted, Removed(position, 1))
  /\ destructed' = Tally(destructed, Removed(position, 1))

Extract(position) ==
  /\ dyn_shift_remove(position, 1)
  /\ extracted' = Tally(extracted, Removed(position, 1))
  /\ UNCHANGED destructed

dyn_array_pop_front     == Erase(0, 1)
dyn_array_extract_front == Extract(0)
dyn_array_pop_back      == size > 0 /\ Erase(size - 1, 1)
dyn_array_extract_back  == size > 0 /\ Extract(size - 1)
dyn_array_erase(i)      == Erase(i, 1)
dyn_array_extract(i)    == size > i /\ Extract(i)
dyn_array_clear         == size > 0 /\ Erase(0, size)

(* qsort with the order of the numbers. *)
Sorts(t) ==
  /\ \A i, j \in 1 .. size : i <= j => t[i] <= t[j]
  /\ \A x \in Object : Times(x, t) = Times(x, Items)

dyn_array_sort ==
  /\ size > 0
  /\ \E t \in [1 .. size -> Object] : Sorts(t) /\ array' = memcpy(array, 0, t)
  /\ UNCHANGED <<capacity, size, stored, extracted, destructed>>

(* dyn_array_clear, then free. *)
dyn_array_destroy ==
  /\ capacity # 0
  /\ destructed' = Tally(destructed, Items)
  /\ capacity' = 0 /\ size' = 0 /\ array' = <<>>
  /\ UNCHANGED <<stored, extracted>>

Insertion ==
  \E x \in Object :
    \/ dyn_array_push_front(x)
    \/ dyn_array_push_back(x)
    \/ \E i \in 0 .. SIZE_MAX : dyn_array_insert(i, x)
    \/ dyn_array_insert_sorted(x)

Removal ==
  \/ dyn_array_pop_front \/ dyn_array_extract_front
  \/ dyn_array_pop_back \/ dyn_array_extract_back
  \/ \E i \in 0 .. SIZE_MAX - 1 : dyn_array_erase(i)
  \/ \E i \in 0 .. SIZE_MAX : dyn_array_extract(i)
  \/ dyn_array_clear

Next ==
  \/ \E n \in 0 .. DYN_MAX_CAPACITY + 1 : dyn_array_create(n)
  \/ \E data \in SeqOf(Object, DYN_MAX_CAPACITY + 1) : dyn_array_import(data)
  \/ Insertion
  \/ Removal
  \/ dyn_array_sort
  \/ dyn_array_destroy

Spec == Init /\ [][Next]_vars

-----------------------------------------------------------------------------
(* Whatever is put in is in the array, or was handed back, or had the      *)
(* destructor called on it, and exactly one of these: no overlapping move  *)
(* drops, doubles or destructs an object twice, however often the array    *)
(* grew.                                                                   *)
EachObjectOnce ==
  \A x \in Object :
    stored[x] = Times(x, Items) + extracted[x] + destructed[x]

(* The cells, with their capacity and stale ends, implement a list.        *)
Abstract == INSTANCE List WITH items <- Items
IsList == Abstract!Spec
=============================================================================
