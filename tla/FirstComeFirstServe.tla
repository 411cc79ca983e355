------------------------- MODULE FirstComeFirstServe -------------------------
(***************************************************************************)
(* first_come_first_serve: the ready queue is emptied from the back, every *)
(* process runs to its end, and the arrival times only enter the sums.     *)
(***************************************************************************)
EXTENDS Scheduling

VARIABLE served   \* history: the processes in the order they ran

vars == <<pc, ready_queue, da, cpu, remaining, arrival, rt, wait, turnaround,
          burst, arrives, served>>

TypeOK ==
  /\ SchedulingTypeOK
  /\ pc \in {"loop", "done"}
  /\ served \in Seq(Proc)

Init ==
  /\ SchedulingInit
  /\ pc = "loop"
  /\ served = <<>>

(* Mutation: the waiting time counts the run itself. *)
WaitAfterRun(pcb) == Minus(Plus(wait, rt'), arrival[pcb])

WaitWith(pcb) == Minus(Plus(wait, rt), arrival[pcb])

(* One turn of the loop. *)
Serve ==
  /\ pc = "loop" /\ ready_queue # <<>>
  /\ LET pcb == Last(ready_queue) IN
       /\ rt' = Plus(rt, remaining[pcb])
       /\ wait' = WaitWith(pcb)
       /\ turnaround' = Minus(Plus(turnaround, rt'), arrival[pcb])
       /\ remaining' = [remaining EXCEPT ![pcb] = 0]
       /\ served' = Append(served, pcb)
  /\ ready_queue' = Front(ready_queue)
  /\ UNCHANGED <<pc, da, cpu, arrival, given>>

Return ==
  /\ pc = "loop" /\ ready_queue = <<>>
  /\ pc' = "done"
  /\ UNCHANGED <<pcbVars, sums, given, served>>

Next == Serve \/ Return

(* One thread runs the scheduler, and nothing in it blocks. *)
Spec == Init /\ [][Next]_vars /\ WF_vars(Next)

-----------------------------------------------------------------------------
(* The callers load the queue back to front: first come is last in it.     *)
FirstComeIsLast ==
  \A i, k \in Proc : i < k => arrives[k] <= arrives[i]

(* Every process is served, once, and those that were there first go first *)
(* when the queue was loaded back to front.                                *)
ServesAllInOrder ==
  pc = "done" =>
    /\ Len(served) = N /\ ToSet(served) = Proc
    /\ rt = SumOver(burst, Proc) % WordMod
    /\ FirstComeIsLast =>
         \A i, k \in 1 .. N : i < k => arrives[served[i]] <= arrives[served[k]]

(* When the i-th process got the CPU, and the sum of all the waits.        *)
Start(i) == SumOver(burst, {served[k] : k \in 1 .. i - 1})
Waited == SumOver([i \in DOMAIN served |-> Start(i) - arrives[served[i]]], DOMAIN served)

(* Nobody the CPU was given to was still to come. *)
NoIdleGap == \A i \in DOMAIN served : arrives[served[i]] <= Start(i)

(* As long as the CPU is never handed a process that is still to come, the *)
(* waiting sum is the time the processes waited: nothing in it wraps.      *)
WaitIsTheWaiting ==
  (pc = "done" /\ NoIdleGap /\ Waited < WordMod) => wait = Waited
=============================================================================
