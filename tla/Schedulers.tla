----------------------------- MODULE Schedulers -----------------------------
(***************************************************************************)
(* One run of one scheduler: what the switch of                            *)
(* a3_process_scheduling/src/analysis.c does with the policy's letter, and *)
(* the tests with their queues.  It puts the four schedulers side by side, *)
(* so that what holds of every one is stated once.                         *)
(***************************************************************************)
EXTENDS Scheduling

CONSTANTS
  Policies,  (* bound: the letters the program is called with       *)
  Quanta     (* bound: the quanta callers pass; 0 is rejected       *)

ASSUME PolicyLetters == Policies \subseteq {"F", "P", "R", "S"}

(* shortest_job_first creates its array with elements of N bytes, the      *)
(* number of PCBs: fewer than 4 copy a part of the burst time only, more   *)
(* than 16 read past the PCB.  Neither is modelled.                        *)
ASSUME CopiesHoldTheBurst == "S" \in Policies => N \in 4 .. 16

(* The quantum is a size_t. *)
ASSUME QuantaAreNumbers == Quanta \subseteq Nat

VARIABLES
  policy,                             \* the letter in argv[2]
  priority, todo,                     \* of round robin and SRTF
  quantum, passed,                    \* of round robin
  i, j, started, sum, batch, marked,  \* of SJF
  served                              \* of FCFS

turns == <<priority, todo>>
ofRr == <<quantum, passed>>
ofSjf == <<i, j, started, sum, batch, marked>>
vars == <<policy, pc, pcbVars, sums, given, turns, ofRr, ofSjf, served>>

Fcfs == INSTANCE FirstComeFirstServe
Rr   == INSTANCE RoundRobin
Sjf  == INSTANCE ShortestJobFirst
Srtf == INSTANCE ShortestRemainingTimeFirst

Entry == [F |-> "loop", P |-> "enter", R |-> "enter", S |-> "collect"]

(* The initial states of the scheduler that is chosen; the variables of    *)
(* the others are idle.  SJF alone reads the field started, which comes as *)
(* load_process_control_blocks has left it: as any value.                  *)
Init ==
  /\ policy \in Policies
  /\ SchedulingInit
  /\ pc = Entry[policy]
  /\ priority = [p \in Proc |-> 0] /\ todo = 0
  /\ quantum \in (IF policy = "R" THEN Quanta ELSE {0})
  /\ passed = [p \in Proc |-> {}]
  /\ i = 1 /\ j = 1 /\ sum = 0 /\ batch = {}
  /\ marked \in (IF policy = "S" THEN SUBSET Proc ELSE {{}})
  /\ started = [p \in Proc |-> p \in marked]
  /\ served = <<>>

first_come_first_serve ==
  policy = "F" /\ Fcfs!Next /\ UNCHANGED <<turns, ofRr, ofSjf>>
shortest_remaining_time_first ==
  policy = "P" /\ Srtf!Next /\ UNCHANGED <<ofRr, ofSjf, served>>
round_robin ==
  policy = "R" /\ Rr!Next /\ UNCHANGED <<ofSjf, served>>
shortest_job_first ==
  policy = "S" /\ Sjf!Next /\ UNCHANGED <<turns, ofRr, served>>

Next ==
  /\ \/ first_come_first_serve
     \/ shortest_remaining_time_first
     \/ round_robin
     \/ shortest_job_first
  /\ UNCHANGED policy

(* One thread runs the scheduler, and nothing in it blocks. *)
Spec == Init /\ [][Next]_vars /\ WF_vars(Next)

-----------------------------------------------------------------------------
TypeOK ==
  /\ policy \in Policies
  /\ policy = "F" => Fcfs!TypeOK
  /\ policy = "P" => Srtf!TypeOK
  /\ policy = "R" => Rr!TypeOK
  /\ policy = "S" => Sjf!TypeOK

(* Moving the PCBs between the arrays loses and doubles none.  SJF leaves  *)
(* the caller's array alone and pushes one copy of each PCB whose field    *)
(* started came clear, and none of a PCB whose field came set.             *)
NoPcbLostOrDoubled == IF policy = "S" THEN Sjf!PushedOnce ELSE InOnePlace

(* Who has not been served: still in an array, or never pushed by SJF.     *)
Left == IF policy = "S" THEN Proc \ Sjf!Served ELSE Unserved

(* The two averages agree with each other: what was served turned around   *)
(* in its waiting time plus its burst time, modulo the width of the sums,  *)
(* for every policy and even after SRTF has run a burst past its end.      *)
SumsAgree ==
  pc = "done" =>
    turnaround = Plus(wait,
      SumOver(burst, IF policy = "S" THEN Sjf!Served ELSE Finished))

(* No scheduler stops while somebody it looks at could run: who is left    *)
(* has not run at all, and arrives after the CPU ran out of work or came   *)
(* to SJF with the field started set.                                      *)
StopsOnlyInIdleGap ==
  pc = "done" =>
    \A p \in Left :
      remaining[p] = burst[p] /\ (arrives[p] > rt \/ p \in marked)

(* SJF and round robin are schedules of one CPU, whatever their policy:    *)
(* only arrived processes run, for no longer than they need, and the clock *)
(* is the CPU time handed out.  FCFS and SRTF are not.                     *)
Shown(value) == IF policy \in {"R", "S"} THEN value ELSE 0
Cpu == INSTANCE CpuSchedule WITH
  now   <- Shown(rt),
  left  <- [p \in Proc |-> Shown(remaining[p])],
  since <- [p \in Proc |-> Shown(arrives[p])]
IsCpuSchedule == Cpu!Spec

(* check_pcb of round robin takes every PCB of the ready queue once and    *)
(* keeps those that have not arrived in the order they were given.         *)
CheckKeepsOrder == policy = "R" => Rr!CheckKeepsOrder

(* While a process waits in round robin's array, no other process gets the *)
(* CPU twice.                                                              *)
OvertakenOnce == policy = "R" => Rr!OvertakenOnce

(* Within the batch that was there together, SJF runs the shortest first.  *)
ShortestOfBatch == Sjf!ShortestOfBatch

(* SRTF gives the CPU to the least remaining time of all who have arrived. *)
ShortestRuns == policy = "P" => Srtf!ShortestRuns

(* FCFS serves all, in order of arrival when the queue is loaded back to   *)
(* front, and its waiting sum is right while nobody is run too early.      *)
FirstComeFirst == policy = "F" => Fcfs!ServesAllInOrder /\ Fcfs!WaitIsTheWaiting

(* Every scheduler returns, whatever the bursts, arrivals and quantum. *)
Returns == <>(pc \in {"done", "rejected"})

-----------------------------------------------------------------------------
(* processing_scheduling.h: remaining_burst_time is "the remaining burst   *)
(* of the pcb", so it never exceeds the burst the process came with.       *)
RemainingIsTheRest == policy = "P" => Srtf!RemainingIsTheRest

(* processing_scheduling.h: total_run_time is "the total time to process   *)
(* all the PCBs in the ready queue", so nobody is left at the return.      *)
AllProcessed == pc = "done" => Left = {}
=============================================================================
