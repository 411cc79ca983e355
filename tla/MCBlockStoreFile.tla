-------------------------- MODULE MCBlockStoreFile --------------------------
(* Model-checking instance of BlockStoreFile: four blocks of two bits, the *)
(* map in blocks 1 and 2, blocks 0 and 3 (the last) for the callers.  A    *)
(* write stores everything, half of it, or nothing.                        *)
EXTENDS BlockStoreFile, TLC

CONSTANTS c1, c2

MCClient == {c1, c2}
MCValues == {{0, 1}}
MCWriteSizes == {0, StoreBits \div 2, StoreBits}
MCGarbage == {{}, Memory}

(* Bound: a device read from a short file is checked when it is loaded and *)
(* not followed any further; every file it could write is torn as well.    *)
NotTorn == origin # "torn"

Symmetry == Permutations(MCClient)
=============================================================================
