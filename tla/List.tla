-------------------------------- MODULE List --------------------------------
(***************************************************************************)
(* What a dynamic array promises: a list of objects, with no capacity, no  *)
(* cells and no moving of memory.                                          *)
(***************************************************************************)
EXTENDS Naturals, SequencesExt

CONSTANT Object
VARIABLE items

Init == items = <<>>

Insert(i, x) == items' = InsertAt(items, i, x)
Delete(i)    == items' = RemoveAt(items, i)
Load         == items = <<>> /\ items' \in Seq(Object)
Clear        == items' = <<>>

Times(x, s) == Cardinality({i \in DOMAIN s : s[i] = x})
Sort ==
  /\ items' \in Seq(Object) /\ Len(items') = Len(items)
  /\ \A i, j \in 1 .. Len(items) : i <= j => items'[i] <= items'[j]
  /\ \A x \in Object : Times(x, items') = Times(x, items)

Next ==
  \/ \E i \in 1 .. Len(items) + 1, x \in Object : Insert(i, x)
  \/ \E i \in 1 .. Len(items) : Delete(i)
  \/ Load
  \/ Clear
  \/ Sort

Spec == Init /\ [][Next]_items
=============================================================================
