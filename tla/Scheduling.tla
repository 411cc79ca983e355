----------------------------- MODULE Scheduling -----------------------------
(***************************************************************************)
(* What the schedulers of a3_process_scheduling/src/process_scheduling.c   *)
(* share: the process control blocks, the two dyn_arrays they move between *)
(* and check_pcb.  A dyn_array of PCBs is a sequence of process numbers,   *)
(* its front first and its back last; a field of the PCBs is a function.   *)
(* Every PCB struct is copied from array to array, and a process is in one *)
(* place at a time or a property below is violated.                        *)
(***************************************************************************)
EXTENDS Integers, SequencesExt

CONSTANTS
  N,         (* the number of PCBs in the ready queue                *)
  Bursts,    (* bound: the burst times the ready queue is given      *)
  Arrivals,  (* bound: the arrival times it is given                 *)
  WordMod    (* 2^32: the counters and fields are uint32_t           *)

Proc == 1 .. N
NoProc == 0
Word == 0 .. WordMod - 1

ASSUME SchedulingConstants ==
  /\ N \in Nat \ {0}
  /\ WordMod \in Nat \ {0}
  /\ Bursts \subseteq Word /\ Arrivals \subseteq Word

VARIABLES
  pc,           \* where the scheduler is
  ready_queue,  \* the array the caller passed
  da,           \* the scheduler's own array
  cpu,          \* the process in the local variable pcb, or NoProc
  remaining,    \* remaining_burst_time of each PCB
  arrival,      \* arrival of each PCB: round robin and SRTF overwrite it
  rt,           \* the clock: total run time so far
  wait,         \* sum of the waiting times
  turnaround,   \* sum of the turnaround times
  burst,        \* history: the burst time each PCB was given
  arrives       \* history: the arrival time each PCB was given

pcbVars == <<ready_queue, da, cpu, remaining, arrival>>
sums == <<rt, wait, turnaround>>
given == <<burst, arrives>>

SchedulingTypeOK ==
  /\ ready_queue \in Seq(Proc) /\ da \in Seq(Proc)
  /\ cpu \in Proc \cup {NoProc}
  /\ remaining \in [Proc -> Word] /\ arrival \in [Proc -> Word]
  /\ rt \in Word /\ wait \in Word /\ turnaround \in Word
  /\ burst \in [Proc -> Bursts] /\ arrives \in [Proc -> Arrivals]

SchedulingInit ==
  /\ ready_queue = [i \in Proc |-> i]
  /\ da = <<>>
  /\ cpu = NoProc
  /\ burst \in [Proc -> Bursts] /\ arrives \in [Proc -> Arrivals]
  /\ remaining = burst /\ arrival = arrives
  /\ rt = 0 /\ wait = 0 /\ turnaround = 0

(* uint32_t arithmetic. *)
Plus(a, b)  == (a + b) % WordMod
Minus(a, b) == (a - b) % WordMod

(* Mutation: a PCB that has not arrived goes back where it came from. *)
CheckPcbToBack ==
  LET pcb == Last(ready_queue) IN
    IF arrival[pcb] <= rt
    THEN da' = Append(da, pcb) /\ ready_queue' = Front(ready_queue)
    ELSE UNCHANGED <<da, ready_queue>>

(* Mutation: the arrival time is not looked at. *)
AlwaysArrived(pcb) == TRUE

HasArrived(pcb) == arrival[pcb] <= rt

(* One turn of the loop of check_pcb at time rt: the PCB at the back of    *)
(* the ready queue goes to the back of da when it has arrived, and to the  *)
(* front of the ready queue when it has not.                               *)
CheckPcb ==
  LET pcb  == Last(ready_queue)
      rest == Front(ready_queue)
  IN  IF HasArrived(pcb)
      THEN da' = Append(da, pcb) /\ ready_queue' = rest
      ELSE ready_queue' = Cons(pcb, rest) /\ UNCHANGED da

-----------------------------------------------------------------------------
(* How often a process is in the arrays and on the CPU; a finished process *)
(* is nowhere.                                                             *)
Places(p) ==
  Cardinality({i \in DOMAIN ready_queue : ready_queue[i] = p})
  + Cardinality({i \in DOMAIN da : da[i] = p})
  + (IF cpu = p THEN 1 ELSE 0)

(* No PCB is lost or duplicated by the sorting and the copying between the *)
(* arrays: one is in exactly one place until its burst is used up, and in  *)
(* none after.                                                             *)
InOnePlace ==
  \A p \in Proc :
    /\ Places(p) <= 1
    /\ Places(p) = 0 => remaining[p] = 0

SumOver(f, S) == SumFunctionOnSet(f, S)

(* The processes that were taken from the ready queue and are finished. *)
Finished == {p \in Proc : Places(p) = 0}

(* A process is left waiting for a later arrival time at the end. *)
Unserved == {p \in Proc : Places(p) > 0}
=============================================================================
