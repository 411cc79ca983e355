----------------------------- MODULE MCDynArray -----------------------------
(* Model-checking instance of DynArray: the smallest array has one cell    *)
(* and the largest four, so that an array grows twice, by insertions at    *)
(* the front, in the middle and at the end, and then refuses.              *)
EXTENDS DynArray

MCObject == {1, 2}
=============================================================================
