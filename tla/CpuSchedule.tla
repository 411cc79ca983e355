---------------------------- MODULE CpuSchedule ----------------------------
(***************************************************************************)
(* What a schedule of one CPU is, for whatever policy: at any time some    *)
(* process that has arrived runs, for no longer than it still needs, and   *)
(* the clock advances by the time it ran.                                  *)
(***************************************************************************)
EXTENDS Naturals

CONSTANT Proc

VARIABLES
  now,    \* the clock
  left,   \* the time each process still needs
  since   \* the time each process arrives

vars == <<now, left, since>>

Init ==
  /\ now = 0
  /\ left \in [Proc -> Nat]
  /\ since \in [Proc -> Nat]

Run(p, d) ==
  /\ since[p] <= now
  /\ d <= left[p]
  /\ left' = [left EXCEPT ![p] = @ - d]
  /\ now' = now + d
  /\ UNCHANGED since

Next == \E p \in Proc : \E d \in 1 .. left[p] : Run(p, d)

Spec == Init /\ [][Next]_vars
=============================================================================
