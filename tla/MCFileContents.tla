--------------------------- MODULE MCFileContents ---------------------------
(* Model-checking instance of FileContents: blocks of three bytes with the *)
(* turn after the first, two direct pointers and two indirect ones, two    *)
(* files, two descriptors and three blocks.                                *)
EXTENDS FileContents, TLC

MCDataBlock == 1 .. 3
MCRequests == {0, 1, 4}
MCOffsets == {0, MaxOffset, MaxOffset + 1}
MCSymmetry == Permutations(File) \cup Permutations(Fd)
=============================================================================
