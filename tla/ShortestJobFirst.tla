-------------------------- MODULE ShortestJobFirst --------------------------
(***************************************************************************)
(* shortest_job_first.  It walks the caller's array in place: arrived and  *)
(* not yet started PCBs are pushed on da, da is sorted by descending burst *)
(* and drained from the back, and only then are new arrivals looked for.   *)
(* The array da is created with elements of N bytes, the number of PCBs:   *)
(* with 4 to 16 of them (CopiesHoldTheBurst in module Schedulers) the      *)
(* copies hold the whole burst time, the only field that is used.          *)
(***************************************************************************)
EXTENDS Scheduling

VARIABLES
  i, j,     \* the two loop counters, counting from 1
  started,  \* the field started of the PCBs in the caller's array
  sum,      \* the arrival times of the PCBs that were pushed
  batch,    \* history: the PCBs pushed since da was last empty
  marked    \* history: the PCBs whose field started was set when given

vars == <<pc, ready_queue, da, cpu, remaining, arrival, rt, wait, turnaround,
          burst, arrives, i, j, started, sum, batch, marked>>

(* In the source wait is called latency and rt is called clock; remaining  *)
(* is that of the copies, the caller's array keeps the burst times.        *)
TypeOK ==
  /\ SchedulingTypeOK
  /\ pc \in {"collect", "drain", "done"}
  /\ i \in 1 .. N + 1 /\ j \in 1 .. N + 1
  /\ started \in [Proc -> BOOLEAN]
  /\ sum \in Int
  /\ batch \subseteq Proc
  /\ marked \subseteq Proc

(* load_process_control_blocks assigns the other three fields and leaves   *)
(* started as malloc returned it; only the tests clear it.  So any PCB may *)
(* come with the field set.                                                *)
Init ==
  /\ SchedulingInit
  /\ pc = "collect"
  /\ i = 1 /\ j = 1
  /\ marked \in SUBSET Proc
  /\ started = [p \in Proc |-> p \in marked]
  /\ sum = 0
  /\ batch = {}

(* Mutation: a PCB is taken only when the clock has passed its arrival. *)
TickTooLate(pcb) == arrival[pcb] < rt /\ ~ started[pcb]

Ready(pcb) == arrival[pcb] <= rt /\ ~ started[pcb]

(* The body of the loop on j. *)
Collect ==
  /\ pc = "collect" /\ i <= N /\ j <= N
  /\ LET pcb == ready_queue[j] IN
       IF Ready(pcb)
       THEN /\ da' = Append(da, pcb)
            /\ started' = [started EXCEPT ![pcb] = TRUE]
            /\ sum' = sum + arrival[pcb]
            /\ batch' = batch \cup {pcb}
       ELSE UNCHANGED <<da, started, sum, batch>>
  /\ j' = j + 1
  /\ UNCHANGED <<pc, ready_queue, cpu, remaining, arrival, sums, given, i, marked>>

(* Mutation: the comparator puts the shorter burst first. *)
SortedShortest(s) ==
  {t \in SetToSeqs(ToSet(s)) : IsSorted(t, LAMBDA p, q : remaining[p] <= remaining[q])}

(* compare_burst_times puts the longer burst first.  qsort may leave equal *)
(* bursts in any order.                                                    *)
SortedByBurst(s) ==
  {t \in SetToSeqs(ToSet(s)) :
     IsSorted(t, LAMBDA p, q : remaining[p] >= remaining[q])}

Sort ==
  /\ pc = "collect" /\ i <= N /\ j > N /\ da # <<>>
  /\ da' \in SortedByBurst(da)
  /\ pc' = "drain"
  /\ UNCHANGED <<ready_queue, cpu, remaining, arrival, sums, given, i, j,
                 started, sum, batch, marked>>

WaitForArrival ==    \* Mutation: the outer counter waits for an arrival
  /\ pc = "collect" /\ i <= N /\ j > N /\ da = <<>>
  /\ j' = 1
  /\ UNCHANGED <<pc, pcbVars, sums, given, i, started, sum, batch, marked>>

(* Nobody has arrived: the next turn of the outer loop, at the same time.  *)
NobodyArrived ==
  /\ pc = "collect" /\ i <= N /\ j > N /\ da = <<>>
  /\ i' = i + 1 /\ j' = 1
  /\ UNCHANGED <<pc, pcbVars, sums, given, started, sum, batch, marked>>

(* temp_pcb runs to its end; its copy of started is of no consequence. *)
RunToEnd ==
  /\ pc = "drain" /\ da # <<>>
  /\ LET temp_pcb == Last(da) IN
       /\ wait' = Plus(wait, rt)
       /\ rt' = Plus(rt, remaining[temp_pcb])
       /\ remaining' = [remaining EXCEPT ![temp_pcb] = 0]
       /\ da' = Front(da)
  /\ turnaround' = Plus(turnaround, rt')
  /\ UNCHANGED <<pc, ready_queue, cpu, arrival, given, i, j, started, sum, batch, marked>>

Drained ==
  /\ pc = "drain" /\ da = <<>>
  /\ pc' = "collect"
  /\ i' = i + 1 /\ j' = 1
  /\ batch' = {}
  /\ UNCHANGED <<pcbVars, sums, given, started, sum, marked>>

(* The results subtract the arrival times of the PCBs that were pushed. *)
Return ==
  /\ pc = "collect" /\ i > N
  /\ pc' = "done"
  /\ turnaround' = Minus(turnaround, sum)
  /\ wait' = Minus(wait, sum)
  /\ UNCHANGED <<pcbVars, rt, given, i, j, started, sum, batch, marked>>

Next ==
  \/ Collect \/ Sort \/ NobodyArrived \/ RunToEnd \/ Drained \/ Return

Spec == Init /\ [][Next]_vars /\ WF_vars(Next)

-----------------------------------------------------------------------------
(* The PCBs that were pushed: those whose field was clear and is set now.  *)
Served == {p \in Proc : started[p]} \ marked

(* Every PCB that came with its field clear is pushed on da at most once   *)
(* and before it runs; what was pushed and is no longer there has run to   *)
(* its end.  One that came with the field set is never pushed and never    *)
(* runs at all.                                                            *)
PushedOnce ==
  \A p \in Proc :
    LET copies == Cardinality({k \in DOMAIN da : da[k] = p}) IN
      /\ copies <= IF p \in Served THEN 1 ELSE 0
      /\ remaining[p] # burst[p] => p \in Served
      /\ p \in Served /\ copies = 0 => remaining[p] = 0

(* Within the batch that was there together, the shortest burst runs first.*)
ShortestOfBatch ==
  [][\A p \in Proc : remaining'[p] # remaining[p] =>
       \A q \in batch : remaining[q] = 0 \/ burst[p] <= burst[q]]_vars
=============================================================================
