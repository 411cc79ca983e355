---------------------------- MODULE MCSchedulers ----------------------------
(* Model-checking instance of Schedulers: every ready queue of four PCBs,  *)
(* the fewest for which SJF's array of copies is wide enough.  Burst 3     *)
(* lasts from arrival 1 to arrival 4, bursts 0 and 1 leave a gap.  A word  *)
(* of 4 bits holds the clock (at most 12 unless SRTF runs a burst past its *)
(* end) but lets the sums wrap around.                                     *)
EXTENDS Schedulers

MCBursts == {0, 1, 3}
MCArrivals == {0, 1, 4}
MCQuanta == {0, 1, 2}

(* Bursts of the run that stops early: nobody comes without work. *)
MCWork == {1, 3}

(* Bound: the PCBs that come with started set are the first of the array.  *)
(* Bursts and arrivals are given to the places of the array in every way,  *)
(* and SJF pushes whoever has arrived before it sorts, whatever the place. *)
MarkedFirst == \E k \in 0 .. N : marked = 1 .. k
=============================================================================
