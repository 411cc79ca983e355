--------------------- MODULE ShortestRemainingTimeFirst ---------------------
(***************************************************************************)
(* shortest_remaining_time_first.  The ready queue is sorted so that the   *)
(* next arrival is at its back, and da by remaining time; the process at   *)
(* the front of da gets the CPU until the next arrival, or to its end once *)
(* the ready queue is empty.                                               *)
(***************************************************************************)
EXTENDS Scheduling

VARIABLES
  priority,  \* the field the first arrival time is kept in
  todo       \* turns of check_pcb's loop still to make

vars == <<pc, ready_queue, da, cpu, remaining, arrival, rt, wait, turnaround,
          burst, arrives, priority, todo>>

TypeOK ==
  /\ SchedulingTypeOK
  /\ pc \in {"enter", "check", "while", "requeue", "done"}
  /\ priority \in [Proc -> Word]
  /\ todo \in 0 .. N

Init ==
  /\ SchedulingInit
  /\ pc = "enter"
  /\ priority = [p \in Proc |-> 0]
  /\ todo = 0

(* calculate_arrival: the later arrival first, the shorter burst first     *)
(* among equals; its int result is the difference, right below 2^31.       *)
SortedByArrival(s) ==
  {t \in SetToSeqs(ToSet(s)) :
     IsSorted(t, LAMBDA p, q :
       \/ arrival[p] > arrival[q]
       \/ arrival[p] = arrival[q] /\ remaining[p] <= remaining[q])}

(* Mutation: the longer remaining time first. *)
SortedLongest(s) ==
  {t \in SetToSeqs(ToSet(s)) : IsSorted(t, LAMBDA p, q : remaining[p] >= remaining[q])}

(* compare_remaining_burst_time: the shorter remaining time first. *)
SortedByRemaining(s) ==
  {t \in SetToSeqs(ToSet(s)) :
     IsSorted(t, LAMBDA p, q : remaining[p] <= remaining[q])}

Enter ==
  /\ pc = "enter"
  /\ priority' = arrival
  /\ ready_queue' \in SortedByArrival(ready_queue)
  /\ pc' = "check"
  /\ todo' = Len(ready_queue)
  /\ UNCHANGED <<da, cpu, remaining, arrival, sums, given>>

Check ==
  /\ pc = "check" /\ todo > 0
  /\ CheckPcb
  /\ todo' = todo - 1
  /\ UNCHANGED <<pc, cpu, remaining, arrival, sums, given, priority>>

CheckReturns ==
  /\ pc = "check" /\ todo = 0
  /\ da' \in SortedByRemaining(da)
  /\ pc' = "while"
  /\ UNCHANGED <<ready_queue, cpu, remaining, arrival, sums, given, priority,
                 todo>>

(* The time to the next arrival is not compared with the burst. *)
CurrRt(pcb) ==
  IF ready_queue # <<>> THEN Minus(arrival[Last(ready_queue)], rt) ELSE remaining[pcb]

Dispatch ==
  /\ pc = "while" /\ da # <<>>
  /\ LET pcb == Head(da) IN
       /\ cpu' = pcb
       /\ da' = Tail(da)
       /\ wait' = Minus(Plus(wait, rt), arrival[pcb])
       /\ rt' = Plus(rt, CurrRt(pcb))
       /\ remaining' = [remaining EXCEPT ![pcb] = Minus(@, CurrRt(pcb))]
       /\ arrival' = [arrival EXCEPT ![pcb] = rt']
  /\ pc' = "requeue"
  /\ UNCHANGED <<ready_queue, turnaround, given, priority, todo>>

Dropped == da    \* Mutation: the preempted PCB is not pushed
PushedBack == Append(da, cpu)

Requeue ==
  /\ pc = "requeue"
  /\ IF remaining[cpu] = 0
     THEN turnaround' = Plus(turnaround, Minus(rt, priority[cpu])) /\ UNCHANGED da
     ELSE da' = PushedBack /\ UNCHANGED turnaround
  /\ cpu' = NoProc
  /\ pc' = "check"
  /\ todo' = Len(ready_queue)
  /\ UNCHANGED <<ready_queue, remaining, arrival, rt, wait, given, priority>>

Return ==
  /\ pc = "while" /\ da = <<>>
  /\ pc' = "done"
  /\ UNCHANGED <<pcbVars, sums, given, priority, todo>>

Next == Enter \/ Check \/ CheckReturns \/ Dispatch \/ Requeue \/ Return

Spec == Init /\ [][Next]_vars /\ WF_vars(Next)

-----------------------------------------------------------------------------
(* Whoever gets the CPU has the least remaining time of all the processes  *)
(* that have arrived and are not finished, so each arrival preempts as the *)
(* algorithm demands: of the times in the PCBs, also after a burst was run *)
(* past its end.                                                           *)
ShortestRuns ==
  (pc = "while" /\ da # <<>>) =>
    \A p \in Proc : (arrives[p] <= rt /\ remaining[p] # 0) =>
      remaining[Head(da)] <= remaining[p]

-----------------------------------------------------------------------------
(* processing_scheduling.h: remaining_burst_time is "the remaining burst   *)
(* of the pcb", so it never exceeds the burst the process came with.       *)
RemainingIsTheRest == \A p \in Proc : remaining[p] <= burst[p]
=============================================================================
