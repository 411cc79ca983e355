----------------------------- MODULE RoundRobin -----------------------------
(***************************************************************************)
(* round_robin and its calls of check_pcb, one array operation at a time.  *)
(***************************************************************************)
EXTENDS Scheduling

CONSTANT Quanta    (* bound: the quanta callers pass; 0 is rejected *)

VARIABLES
  quantum,   \* the argument
  priority,  \* the field round robin keeps the first arrival time in
  todo,      \* turns of check_pcb's loop still to make
  passed     \* history: who ran since a process entered da

vars == <<pc, ready_queue, da, cpu, remaining, arrival, rt, wait, turnaround,
          burst, arrives, quantum, priority, todo, passed>>

TypeOK ==
  /\ SchedulingTypeOK
  /\ pc \in {"enter", "check", "while", "requeue", "done", "rejected"}
  /\ quantum \in Quanta
  /\ priority \in [Proc -> Word]
  /\ todo \in 0 .. N
  /\ passed \in [Proc -> SUBSET Proc]

Init ==
  /\ SchedulingInit
  /\ pc = "enter"
  /\ quantum \in Quanta
  /\ priority = [p \in Proc |-> 0]
  /\ todo = 0
  /\ passed = [p \in Proc |-> {}]

Reject ==
  /\ pc = "enter" /\ quantum = 0
  /\ pc' = "rejected"
  /\ UNCHANGED <<pcbVars, sums, given, quantum, priority, todo, passed>>

EnterOneTurnMore ==    \* Mutation: check_pcb's loop is one turn too long
  /\ pc = "enter" /\ quantum # 0
  /\ priority' = arrival
  /\ pc' = "check"
  /\ todo' = Len(ready_queue) + 1
  /\ UNCHANGED <<pcbVars, sums, given, quantum, passed>>

(* The loop that saves every arrival time, and the first check_pcb. *)
Enter ==
  /\ pc = "enter" /\ quantum # 0
  /\ priority' = arrival
  /\ pc' = "check"
  /\ todo' = Len(ready_queue)
  /\ UNCHANGED <<pcbVars, sums, given, quantum, passed>>

Check ==
  /\ pc = "check" /\ todo > 0
  /\ CheckPcb
  /\ todo' = todo - 1
  /\ passed' = [passed EXCEPT ![Last(ready_queue)] = {}]
  /\ UNCHANGED <<pc, cpu, remaining, arrival, sums, given, quantum, priority>>

(* check_pcb returns: to the while loop, or to the process just run. *)
CheckReturns ==
  /\ pc = "check" /\ todo = 0
  /\ pc' = IF cpu = NoProc THEN "while" ELSE "requeue"
  /\ UNCHANGED <<pcbVars, sums, given, quantum, priority, todo, passed>>

CurrRt(pcb) == IF remaining[pcb] <= quantum THEN remaining[pcb] ELSE quantum

Dispatch ==
  /\ pc = "while" /\ da # <<>>
  /\ LET pcb == Head(da) IN
       /\ cpu' = pcb
       /\ da' = Tail(da)
       /\ wait' = Minus(Plus(wait, rt), arrival[pcb])
       /\ rt' = Plus(rt, CurrRt(pcb))
       /\ remaining' = [remaining EXCEPT ![pcb] = Minus(@, CurrRt(pcb))]
       /\ arrival' = [arrival EXCEPT ![pcb] = rt']
       /\ passed' = [p \in Proc |->
                       IF Contains(Tail(da), p) THEN passed[p] \cup {pcb} ELSE passed[p]]
  /\ pc' = "check"
  /\ todo' = Len(ready_queue)
  /\ UNCHANGED <<ready_queue, turnaround, given, quantum, priority>>

(* Mutations: the PCB goes to the front; the turnaround is counted from    *)
(* the overwritten arrival time.                                           *)
PushedFront == Cons(cpu, da)
SinceLastRun == arrival[cpu]

PushedBack == Append(da, cpu)
Since == priority[cpu]

(* After check_pcb, so behind the processes that arrived meanwhile. *)
Requeue ==
  /\ pc = "requeue"
  /\ IF remaining[cpu] # 0
     THEN da' = PushedBack /\ UNCHANGED turnaround
     ELSE turnaround' = Minus(Plus(turnaround, rt), Since) /\ UNCHANGED da
  /\ passed' = [passed EXCEPT ![cpu] = {}]
  /\ cpu' = NoProc
  /\ pc' = "while"
  /\ UNCHANGED <<ready_queue, remaining, arrival, rt, wait, given, quantum,
                 priority, todo>>

Return ==
  /\ pc = "while" /\ da = <<>>
  /\ pc' = "done"
  /\ UNCHANGED <<pcbVars, sums, given, quantum, priority, todo, passed>>

Next ==
  \/ Reject \/ Enter \/ Check \/ CheckReturns \/ Dispatch \/ Requeue \/ Return

(* One thread runs the scheduler, and nothing in it blocks. *)
Spec == Init /\ [][Next]_vars /\ WF_vars(Next)

-----------------------------------------------------------------------------
(* check_pcb takes every PCB of the ready queue once and returns with the  *)
(* ones that have not arrived in the order they were given.                *)
CheckKeepsOrder ==
  pc \in {"while", "requeue", "done"} =>
    /\ \A i, j \in DOMAIN ready_queue : i < j => ready_queue[i] < ready_queue[j]
    /\ \A i \in DOMAIN ready_queue : arrives[ready_queue[i]] > rt

(* While a process waits in da, no other process gets the CPU twice. *)
OvertakenOnce ==
  (pc = "while" /\ da # <<>>) =>
    \A i \in 2 .. Len(da) : Head(da) \notin passed[da[i]]
=============================================================================
