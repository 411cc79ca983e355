---------------------------- MODULE MCBlockStore ----------------------------
(* Model-checking instance of BlockStore: six blocks of three bits, the    *)
(* map in blocks 2 and 3 (each keeps three of its six bits), two callers.  *)
EXTENDS BlockStore

CONSTANTS c1, c2

MCClient == {c1, c2}
MCValues == {{0}, {0, 1, 2}}
=============================================================================
