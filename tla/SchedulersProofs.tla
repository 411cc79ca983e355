-------------------------- MODULE SchedulersProofs --------------------------
(***************************************************************************)
(* Proofs about Schedulers, for any number of PCBs, any bursts, arrivals   *)
(* and quanta, and any width of the counters.                              *)
(***************************************************************************)
EXTENDS Schedulers, FiniteSums, SequenceTheorems

-----------------------------------------------------------------------------
(* The moves between the arrays: what each does to the PCBs that are in    *)
(* the array and to there being one of each.                               *)
LEMMA FrontKeeps ==
  ASSUME NEW S, NEW s \in Seq(S), s # <<>>
  PROVE  /\ Last(s) \in S /\ Contains(s, Last(s))
         /\ Front(s) \in Seq(S) /\ Len(Front(s)) = Len(s) - 1
         /\ \A k \in 1 .. Len(s) - 1 : Front(s)[k] = s[k]
         /\ IsInjective(s) =>
              /\ IsInjective(Front(s))
              /\ \A x : Contains(Front(s), x) <=> Contains(s, x) /\ x # Last(s)
<1> DEFINE n == Len(s)
<1>1. n \in Nat \ {0} /\ DOMAIN s = 1 .. n /\ \A k \in 1 .. n : s[k] \in S
  BY EmptySeq, LenProperties, ElementOfSeq
<1>2. Last(s) = s[n]
  BY DEF Last
<1>3. /\ Front(s) \in Seq(S) /\ Len(Front(s)) = n - 1
      /\ \A k \in 1 .. n - 1 : Front(s)[k] = s[k]
  <2>1. \A k \in 1 .. n - 1 : s[k] \in S
    BY <1>1
  <2>2. 1 \in Int /\ n - 1 \in Int
    BY <1>1
  <2>3. /\ SubSeq(s, 1, n - 1) \in Seq(S)
        /\ Len(SubSeq(s, 1, n - 1)) = IF 1 <= n - 1 THEN (n - 1) - 1 + 1 ELSE 0
        /\ \A k \in 1 .. (n - 1) - 1 + 1 : SubSeq(s, 1, n - 1)[k] = s[1 + k - 1]
    <3> HIDE DEF n
    <3> QED BY <2>1, <2>2, SubSeqProperties
  <2>4. Front(s) = SubSeq(s, 1, n - 1)
    BY DEF Front
  <2> HIDE DEF n
  <2> QED BY <1>1, <2>3, <2>4
<1>4. DOMAIN Front(s) = 1 .. n - 1
  BY <1>3, LenProperties
<1> HIDE DEF n
<1>5. ASSUME IsInjective(s)
      PROVE  /\ IsInjective(Front(s))
             /\ \A x : Contains(Front(s), x) <=> Contains(s, x) /\ x # Last(s)
  <2>1. \A k, l \in 1 .. n : s[k] = s[l] => k = l
    BY <1>1, <1>5 DEF IsInjective
  <2>2. IsInjective(Front(s))
    BY <1>1, <1>3, <1>4, <2>1 DEF IsInjective
  <2>3. \A x : Contains(Front(s), x) <=> Contains(s, x) /\ x # Last(s)
    BY <1>1, <1>2, <1>3, <2>1 DEF Contains, n
  <2> QED BY <2>2, <2>3
<1>6. Contains(s, Last(s))
  BY <1>1, <1>2 DEF Contains, n
<1> QED BY <1>1, <1>2, <1>3, <1>5, <1>6 DEF n

LEMMA TailKeeps ==
  ASSUME NEW S, NEW s \in Seq(S), s # <<>>, IsInjective(s)
  PROVE  /\ Head(s) \in S /\ Contains(s, Head(s))
         /\ Tail(s) \in Seq(S) /\ IsInjective(Tail(s)) /\ Len(Tail(s)) = Len(s) - 1
         /\ \A k \in 1 .. Len(s) - 1 : Tail(s)[k] = s[k + 1]
         /\ \A x : Contains(Tail(s), x) <=> Contains(s, x) /\ x # Head(s)
<1>1. Len(s) \in Nat \ {0} /\ DOMAIN s = 1 .. Len(s) /\ Head(s) = s[1]
  BY EmptySeq, LenProperties
<1>2. /\ Head(s) \in S /\ Tail(s) \in Seq(S) /\ Len(Tail(s)) = Len(s) - 1
      /\ \A k \in 1 .. Len(Tail(s)) : Tail(s)[k] = s[k + 1]
      /\ DOMAIN Tail(s) = 1 .. Len(Tail(s))
  BY HeadTailProperties, LenProperties
<1>3. \A k, l \in 1 .. Len(s) : s[k] = s[l] => k = l
  BY <1>1 DEF IsInjective
<1>4. IsInjective(Tail(s))
  BY <1>1, <1>2, <1>3 DEF IsInjective
<1>5. ASSUME NEW x PROVE Contains(Tail(s), x) <=> Contains(s, x) /\ x # Head(s)
  <2>1. ASSUME Contains(Tail(s), x) PROVE Contains(s, x) /\ x # Head(s)
    BY <1>1, <1>2, <1>3, <2>1 DEF Contains
  <2>2. ASSUME Contains(s, x), x # Head(s) PROVE Contains(Tail(s), x)
    <3>1. PICK k \in 1 .. Len(s) : s[k] = x
      BY <2>2 DEF Contains
    <3>2. k - 1 \in 1 .. Len(Tail(s)) /\ Tail(s)[k - 1] = x
      BY <1>1, <1>2, <2>2, <3>1
    <3> QED BY <3>2 DEF Contains
  <2> QED BY <2>1, <2>2
<1>6. Contains(s, Head(s))
  BY <1>1 DEF Contains
<1> QED BY <1>1, <1>2, <1>4, <1>5, <1>6

LEMMA AppendKeeps ==
  ASSUME NEW S, NEW s \in Seq(S), NEW e \in S
  PROVE  /\ Append(s, e) \in Seq(S) /\ Len(Append(s, e)) = Len(s) + 1
         /\ \A k \in 1 .. Len(s) : Append(s, e)[k] = s[k]
         /\ Append(s, e)[Len(s) + 1] = e
         /\ \A x : Contains(Append(s, e), x) <=> Contains(s, x) \/ x = e
         /\ IsInjective(s) /\ ~ Contains(s, e) => IsInjective(Append(s, e))
<1> DEFINE t == Append(s, e)
<1>1. Len(s) \in Nat /\ DOMAIN s = 1 .. Len(s)
  BY LenProperties
<1>2. /\ t \in Seq(S) /\ Len(t) = Len(s) + 1 /\ DOMAIN t = 1 .. Len(t)
      /\ \A k \in 1 .. Len(s) : t[k] = s[k]
      /\ t[Len(s) + 1] = e
  BY AppendProperties, LenProperties
<1> HIDE DEF t
<1>3. ASSUME NEW x PROVE Contains(t, x) <=> Contains(s, x) \/ x = e
  BY <1>1, <1>2 DEF Contains
<1>4. ASSUME IsInjective(s), ~ Contains(s, e) PROVE IsInjective(t)
  BY <1>1, <1>2, <1>4 DEF Contains, IsInjective
<1> QED BY <1>2, <1>3, <1>4 DEF t

(* The PCB at the back goes to the front.                                  *)
LEMMA TurnKeeps ==
  ASSUME NEW S, NEW s \in Seq(S), s # <<>>, IsInjective(s),
         NEW t, t = Cons(Last(s), Front(s))
  PROVE  /\ t \in Seq(S) /\ Len(t) = Len(s) /\ IsInjective(t)
         /\ t[1] = Last(s)
         /\ \A k \in 1 .. Len(s) - 1 : t[k + 1] = s[k]
         /\ \A x : Contains(t, x) <=> Contains(s, x)
<1> DEFINE n == Len(s)
<1>1. n \in Nat \ {0} /\ DOMAIN s = 1 .. n
  BY EmptySeq, LenProperties
<1>2. /\ Last(s) \in S /\ Front(s) \in Seq(S) /\ Len(Front(s)) = n - 1
      /\ \A k \in 1 .. n - 1 : Front(s)[k] = s[k]
      /\ Last(s) = s[n]
  BY FrontKeeps DEF Last
<1>3. <<Last(s)>> \in Seq(S) /\ Len(<<Last(s)>>) = 1 /\ <<Last(s)>>[1] = Last(s)
  BY <1>2
<1>4. /\ t \in Seq(S) /\ Len(t) = 1 + (n - 1)
      /\ \A k \in 1 .. 1 + (n - 1) :
           t[k] = IF k <= 1 THEN <<Last(s)>>[k] ELSE Front(s)[k - 1]
  BY <1>2, <1>3, ConcatProperties DEF Cons
<1>5. /\ Len(t) = n /\ DOMAIN t = 1 .. n /\ t[1] = s[n]
      /\ \A k \in 1 .. n - 1 : t[k + 1] = s[k]
  <2>1. DOMAIN t = 1 .. Len(t)
    BY <1>4, LenProperties
  <2> HIDE DEF n
  <2> QED BY <1>1, <1>2, <1>3, <1>4, <2>1
<1> HIDE DEF n
<1>6. \A k \in 1 .. n : t[k] = IF k = 1 THEN s[n] ELSE s[k - 1]
  <2> SUFFICES ASSUME NEW k \in 1 .. n, k # 1 PROVE t[k] = s[k - 1]
    BY <1>5
  <2>1. k - 1 \in 1 .. n - 1 /\ (k - 1) + 1 = k
    BY <1>1
  <2> QED BY <1>5, <2>1
<1>7. IsInjective(t)
  <2>1. \A k, l \in 1 .. n : s[k] = s[l] => k = l
    BY <1>1 DEF IsInjective
  <2> QED BY <1>1, <1>5, <1>6, <2>1 DEF IsInjective
<1>8. ASSUME NEW x PROVE Contains(t, x) <=> Contains(s, x)
  <2>1. ASSUME NEW k \in 1 .. n, s[k] = x PROVE \E l \in 1 .. n : t[l] = x
    <3>1. CASE k = n
      BY <1>1, <1>6, <2>1, <3>1
    <3>2. CASE k # n
      <4>1. k \in 1 .. n - 1 /\ k + 1 \in 1 .. n
        BY <1>1, <3>2
      <4> QED BY <1>5, <2>1, <4>1
    <3> QED BY <3>1, <3>2
  <2>2. ASSUME NEW k \in 1 .. n, t[k] = x PROVE \E l \in 1 .. n : s[l] = x
    BY <1>1, <1>6, <2>2
  <2> QED BY <1>5, <2>1, <2>2 DEF Contains, n
<1> QED BY <1>2, <1>4, <1>5, <1>7, <1>8 DEF n

(* qsort leaves the same PCBs, in some other order.                        *)
LEMMA SortKeeps ==
  ASSUME NEW S, NEW s \in Seq(S), IsInjective(s), NEW t \in SetToSeqs(ToSet(s))
  PROVE  /\ t \in Seq(S) /\ Len(t) = Len(s) /\ IsInjective(t)
         /\ \A x : Contains(t, x) <=> Contains(s, x)
<1> DEFINE T == ToSet(s)
           n == Len(s)
<1>1. n \in Nat /\ DOMAIN s = 1 .. n /\ \A k \in 1 .. n : s[k] \in S
  BY LenProperties, ElementOfSeq
<1>2. T = {s[k] : k \in 1 .. n} /\ T \subseteq S
  BY <1>1 DEF ToSet
<1>3. s \in Bijection(1 .. n, T)
  <2>1. s \in [1 .. n -> T]
    <3>1. s \in [1 .. n -> S]
      BY LenProperties
    <3> QED BY <1>2, <3>1
  <2> QED BY <1>1, <1>2, <2>1
        DEF Bijection, Injection, Surjection, IsInjective
<1>4. IsFiniteSet(T) /\ Cardinality(T) = n
  <2>1. IsFiniteSet(1 .. n) /\ Cardinality(1 .. n) = n
    BY <1>1, IntervalSize
  <2>2. ExistsBijection(1 .. n, T)
    BY <1>3 DEF ExistsBijection
  <2> HIDE DEF T, n
  <2> QED BY <2>1, <2>2, FS_Bijection
<1>5. t \in [1 .. n -> T] /\ \A k, l \in 1 .. n : k # l => t[k] # t[l]
  BY <1>4 DEF SetToSeqs
<1> HIDE DEF T, n
<1>6. t \in Surjection(1 .. n, T)
  <2>1. t \in Injection(1 .. n, T)
    BY <1>5 DEF Injection, IsInjective
  <2>2. IsFiniteSet(1 .. n) /\ Cardinality(1 .. n) = n
    BY <1>1, IntervalSize
  <2> QED BY <1>4, <2>1, <2>2, FS_Injection
<1>7. t \in Seq(S) /\ Len(t) = n /\ DOMAIN t = 1 .. n
  BY <1>1, <1>2, <1>5, SeqDef
<1>8. \A x : Contains(t, x) <=> x \in T
  BY <1>5, <1>6, <1>7 DEF Contains, Surjection
<1>9. \A x : Contains(s, x) <=> x \in T
  BY <1>2 DEF Contains, n
<1>10. IsInjective(t)
  BY <1>5, <1>7 DEF IsInjective
<1> QED BY <1>7, <1>8, <1>9, <1>10 DEF n

(* No more PCBs in an array than there are.                                *)
LEMMA FewEnough ==
  ASSUME NEW s \in Seq(Proc), IsInjective(s)
  PROVE  Len(s) \in 0 .. N
<1>1. N \in Nat
  BY SchedulingConstants
<1>2. Len(s) \in Nat /\ s \in [1 .. Len(s) -> Proc] /\ DOMAIN s = 1 .. Len(s)
  BY LenProperties
<1>3. s \in Injection(1 .. Len(s), Proc)
  BY <1>2 DEF Injection, IsInjective
<1>4. IsFiniteSet(Proc) /\ Cardinality(Proc) = N
  BY <1>1, IntervalSize DEF Proc
<1>5. Cardinality(1 .. Len(s)) = Len(s)
  BY <1>2, IntervalSize
<1> QED BY <1>1, <1>2, <1>3, <1>4, <1>5, FS_Injection
-----------------------------------------------------------------------------
(* A PCB that is finished is in neither array and not on the CPU.          *)
Nowhere(p) == ~ Contains(ready_queue, p) /\ ~ Contains(da, p) /\ cpu # p

(* Where the PCBs are, for the schedulers that move them.                  *)
QueueInv ==
  /\ IsInjective(ready_queue) /\ IsInjective(da)
  /\ \A p \in Proc : ~ (Contains(ready_queue, p) /\ Contains(da, p))
  /\ cpu # NoProc => ~ Contains(ready_queue, cpu) /\ ~ Contains(da, cpu)
  /\ \A p \in Proc : Nowhere(p) => remaining[p] = 0
  /\ \A p \in Proc : Contains(ready_queue, p) =>
       arrival[p] = arrives[p] /\ remaining[p] = burst[p]

LEMMA Occurrences ==
  ASSUME NEW S, NEW s \in Seq(S), IsInjective(s), NEW p
  PROVE  Cardinality({k \in DOMAIN s : s[k] = p}) = IF Contains(s, p) THEN 1 ELSE 0
<1>1. DOMAIN s = 1 .. Len(s)
  BY LenProperties
<1>2. CASE Contains(s, p)
  <2>1. PICK k \in DOMAIN s : s[k] = p
    BY <1>1, <1>2 DEF Contains
  <2>2. {l \in DOMAIN s : s[l] = p} = {k}
    BY <2>1 DEF IsInjective
  <2> QED BY <1>2, <2>2, FS_Singleton
<1>3. CASE ~ Contains(s, p)
  <2>1. {l \in DOMAIN s : s[l] = p} = {}
    BY <1>1, <1>3 DEF Contains
  <2> QED BY <1>3, <2>1, FS_EmptySet
<1> QED BY <1>2, <1>3

LEMMA OnePlace ==
  ASSUME SchedulingTypeOK, QueueInv
  PROVE  InOnePlace /\ \A p \in Proc : Places(p) = 0 <=> Nowhere(p)
<1> SUFFICES ASSUME NEW p \in Proc
             PROVE  /\ Places(p) <= 1
                    /\ Places(p) = 0 => remaining[p] = 0
                    /\ Places(p) = 0 <=> Nowhere(p)
  BY DEF InOnePlace
<1>1. p # NoProc
  BY SchedulingConstants DEF Proc, NoProc
<1>2. /\ Cardinality({k \in DOMAIN ready_queue : ready_queue[k] = p})
           = IF Contains(ready_queue, p) THEN 1 ELSE 0
      /\ Cardinality({k \in DOMAIN da : da[k] = p}) = IF Contains(da, p) THEN 1 ELSE 0
  BY Occurrences DEF SchedulingTypeOK, QueueInv
<1>3. Places(p) = (IF Contains(ready_queue, p) THEN 1 ELSE 0)
                  + (IF Contains(da, p) THEN 1 ELSE 0) + (IF cpu = p THEN 1 ELSE 0)
  BY <1>2 DEF Places
<1>4. /\ ~ (Contains(ready_queue, p) /\ Contains(da, p))
      /\ cpu = p => ~ Contains(ready_queue, p) /\ ~ Contains(da, p)
      /\ Nowhere(p) => remaining[p] = 0
  BY <1>1 DEF QueueInv
<1> QED BY <1>3, <1>4 DEF Nowhere

(* A turn of check_pcb, a dispatch and a return of the CPU.                *)
LEMMA CheckKeeps ==
  ASSUME SchedulingTypeOK, QueueInv, ready_queue # <<>>, CheckPcb,
         UNCHANGED <<cpu, remaining, arrival, given>>
  PROVE  /\ ready_queue' \in Seq(Proc) /\ da' \in Seq(Proc)
         /\ QueueInv'
         /\ \A p \in Proc : Nowhere(p)' <=> Nowhere(p)
<1> DEFINE pcb == Last(ready_queue)
<1> USE DEF SchedulingTypeOK, QueueInv
<1>1. pcb \in Proc /\ Contains(ready_queue, pcb)
  BY FrontKeeps
<1>2. CASE HasArrived(pcb)
  <2>1. da' = Append(da, pcb) /\ ready_queue' = Front(ready_queue)
    BY <1>2 DEF CheckPcb
  <2>2. /\ ready_queue' \in Seq(Proc) /\ IsInjective(ready_queue')
        /\ \A x : Contains(ready_queue', x) <=> Contains(ready_queue, x) /\ x # pcb
    BY <2>1, FrontKeeps
  <2>3. /\ da' \in Seq(Proc) /\ IsInjective(da')
        /\ \A x : Contains(da', x) <=> Contains(da, x) \/ x = pcb
    BY <1>1, <2>1, AppendKeeps
  <2> HIDE DEF pcb
  <2> QED BY <1>1, <2>2, <2>3 DEF Nowhere, given
<1>3. CASE ~ HasArrived(pcb)
  <2>1. da' = da /\ ready_queue' = Cons(pcb, Front(ready_queue))
    BY <1>3 DEF CheckPcb
  <2>2. /\ ready_queue' \in Seq(Proc) /\ IsInjective(ready_queue')
        /\ \A x : Contains(ready_queue', x) <=> Contains(ready_queue, x)
    BY <2>1, TurnKeeps
  <2> HIDE DEF pcb
  <2> QED BY <2>1, <2>2 DEF Nowhere, given
<1> QED BY <1>2, <1>3

LEMMA DispatchKeeps ==
  ASSUME SchedulingTypeOK, QueueInv, da # <<>>, cpu = NoProc,
         cpu' = Head(da), da' = Tail(da), UNCHANGED <<ready_queue, given>>,
         \A p \in Proc \ {Head(da)} :
           remaining'[p] = remaining[p] /\ arrival'[p] = arrival[p]
  PROVE  /\ da' \in Seq(Proc) /\ cpu' \in Proc
         /\ QueueInv'
         /\ \A p \in Proc : Nowhere(p)' <=> Nowhere(p)
<1> USE DEF SchedulingTypeOK, QueueInv
<1>1. /\ cpu' \in Proc /\ Contains(da, cpu')
      /\ da' \in Seq(Proc) /\ IsInjective(da')
      /\ \A x : Contains(da', x) <=> Contains(da, x) /\ x # cpu'
  BY TailKeeps
<1>2. NoProc \notin Proc
  BY SchedulingConstants DEF Proc, NoProc
<1> QED BY <1>1, <1>2 DEF Nowhere, given

LEMMA RequeueKeeps ==
  ASSUME SchedulingTypeOK, QueueInv, cpu \in Proc, cpu' = NoProc,
         UNCHANGED <<ready_queue, remaining, arrival, given>>,
         IF remaining[cpu] # 0 THEN da' = Append(da, cpu) ELSE da' = da
  PROVE  /\ da' \in Seq(Proc)
         /\ QueueInv'
         /\ \A p \in Proc : Nowhere(p)' <=>
              Nowhere(p) \/ (p = cpu /\ remaining[cpu] = 0)
<1> USE DEF SchedulingTypeOK, QueueInv
<1>1. NoProc \notin Proc
  BY SchedulingConstants DEF Proc, NoProc
<1>2. CASE remaining[cpu] # 0
  <2>1. /\ da' \in Seq(Proc) /\ IsInjective(da')
        /\ \A x : Contains(da', x) <=> Contains(da, x) \/ x = cpu
    <3>1. da \in Seq(Proc) /\ IsInjective(da) /\ ~ Contains(da, cpu) /\ da' = Append(da, cpu)
      BY <1>1, <1>2
    <3> QED BY <3>1, AppendKeeps
  <2> QED BY <1>1, <1>2, <2>1 DEF Nowhere, given
<1>3. CASE remaining[cpu] = 0
  BY <1>1, <1>3 DEF Nowhere, given
<1> QED BY <1>2, <1>3
-----------------------------------------------------------------------------
(* The counters.                                                           *)
LEMMA Words ==
  ASSUME NEW a \in Int, NEW b \in Int
  PROVE  Plus(a, b) \in Word /\ Minus(a, b) \in Word
<1>1. WordMod \in Nat \ {0}
  BY SchedulingConstants
<1>2. a + b \in Int /\ a - b \in Int
  OBVIOUS
<1> QED BY <1>1, <1>2, ModDrops DEF Plus, Minus, Word

(* A summand that was itself reduced may be taken unreduced.               *)
LEMMA Reduced ==
  ASSUME NEW a \in Int, NEW b \in Int
  PROVE  /\ ((a % WordMod) + b) % WordMod = (a + b) % WordMod
         /\ (b + (a % WordMod)) % WordMod = (a + b) % WordMod
         /\ (b - (a % WordMod)) % WordMod = (b - a) % WordMod
         /\ a % WordMod \in Int
<1>1. WordMod \in Nat \ {0}
  BY SchedulingConstants
<1>2. /\ a % WordMod \in 0 .. WordMod - 1
      /\ ((a % WordMod) + b) % WordMod = (a + b) % WordMod
      /\ (b - (a % WordMod)) % WordMod = (b - a) % WordMod
  BY <1>1, ModDrops
<1>3. b + (a % WordMod) = (a % WordMod) + b
  BY <1>2
<1> QED BY <1>2, <1>3

(* What a dispatch adds to the waiting time it takes from the difference   *)
(* between the time since a process first arrived and the time it ran.     *)
LEMMA DispatchSum ==
  ASSUME NEW w \in Int, NEW r \in Int, NEW a \in Int, NEW c \in Int,
         NEW m \in Int, NEW t \in Int
  PROVE  (Minus(Plus(w, r), a) + (t + ((m - Minus(m, c)) - (Plus(r, c) - a)))) % WordMod
         = (w + t) % WordMod
<1> DEFINE W == WordMod
           p == (w + r) % W
           q == (r + c) % W
           d == (m - c) % W
           x == (p - a) + (t + ((m - d) - (q - a)))
           y == (w + r) + (t + m - q)
<1>1. /\ p \in Int /\ \A b \in Int : (p + b) % W = ((w + r) + b) % W
      /\ q \in Int /\ \A b \in Int : (b - q) % W = (b - (r + c)) % W
      /\ d \in Int /\ \A b \in Int : (b - d) % W = (b - (m - c)) % W
  <2>1. w + r \in Int /\ r + c \in Int /\ m - c \in Int
    OBVIOUS
  <2> QED BY <2>1, Reduced, Zenon
<1> HIDE DEF p, q, d
<1>2. (((p - a) % W) + (t + ((m - d) - (q - a)))) % W = x % W
  <2>1. p - a \in Int /\ t + ((m - d) - (q - a)) \in Int
    BY <1>1
  <2> QED BY <2>1, Reduced, Zenon
<1>3. x % W = (y - d) % W
  <2>1. x = p + (t + m - d - q) /\ t + m - d - q \in Int
    BY <1>1
  <2>2. (w + r) + (t + m - d - q) = y - d
    BY <1>1
  <2> QED BY <1>1, <2>1, <2>2, Zenon
<1>4. (y - d) % W = ((w + r + t + c) - q) % W
  <2>1. y \in Int /\ y - (m - c) = (w + r + t + c) - q
    BY <1>1
  <2> QED BY <1>1, <2>1, Zenon
<1>5. ((w + r + t + c) - q) % W = (w + t) % W
  <2>1. w + r + t + c \in Int /\ (w + r + t + c) - (r + c) = w + t
    OBVIOUS
  <2> QED BY <1>1, <2>1, Zenon
<1> QED BY <1>2, <1>3, <1>4, <1>5, Zenon DEF Plus, Minus, p, q, d
(* The time since a process in the arrays first arrived, as far as the     *)
(* fields of its PCB say, without the waiting that was added to the sum;   *)
(* for a finished one its burst.                                           *)
Delayed ==
  [p \in Proc |->
     IF Nowhere(p) THEN burst[p] ELSE (burst[p] - remaining[p]) - (arrival[p] - arrives[p])]

SumInv == turnaround = (wait + Total(Delayed, Proc)) % WordMod

(* The time the processes ran.                                             *)
Ran == [p \in Proc |-> burst[p] - remaining[p]]
ClockInv == rt = Total(Ran, Proc) % WordMod

LEMMA Integral ==
  ASSUME SchedulingTypeOK
  PROVE  /\ IsFiniteSet(Proc) /\ Word \subseteq Int
         /\ burst \in [Proc -> Word] /\ arrives \in [Proc -> Word]
         /\ Summable(Delayed, Proc) /\ Summable(Ran, Proc) /\ Summable(burst, Proc)
         /\ Total(Delayed, Proc) \in Int /\ Total(Ran, Proc) \in Int
<1>1. IsFiniteSet(Proc)
  BY SchedulingConstants, IntervalSize DEF Proc
<1>2. Word \subseteq Int
  BY DEF Word
<1>3. burst \in [Proc -> Word] /\ arrives \in [Proc -> Word]
  BY SchedulingConstants DEF SchedulingTypeOK
<1>4. \A p \in Proc : burst[p] \in Int /\ arrives[p] \in Int /\ remaining[p] \in Int /\ arrival[p] \in Int
  BY <1>2, <1>3 DEF SchedulingTypeOK
<1>5. Summable(Delayed, Proc) /\ Summable(Ran, Proc) /\ Summable(burst, Proc)
  BY <1>1, <1>4 DEF Summable, Delayed, Ran
<1> QED BY <1>1, <1>2, <1>3, <1>5, SumIsInt

(* Nothing that the sums are of changes.                                   *)
LEMMA SumsStay ==
  ASSUME UNCHANGED <<remaining, arrival, given>>,
         \A p \in Proc : Nowhere(p)' <=> Nowhere(p)
  PROVE  Delayed' = Delayed /\ Ran' = Ran
BY DEF Delayed, Ran, given

(* A process is given the CPU for c, or past the end of its burst.         *)
LEMMA DispatchSums ==
  ASSUME SchedulingTypeOK, SchedulingTypeOK', SumInv,
         NEW pcb \in Proc, NEW c \in Int, ~ Nowhere(pcb),
         wait' = Minus(Plus(wait, rt), arrival[pcb]),
         rt' = Plus(rt, c),
         remaining' = [remaining EXCEPT ![pcb] = Minus(@, c)],
         arrival' = [arrival EXCEPT ![pcb] = rt'],
         UNCHANGED <<turnaround, given>>,
         \A p \in Proc : Nowhere(p)' <=> Nowhere(p)
  PROVE  SumInv'
<1> DEFINE m == remaining[pcb]
           a == arrival[pcb]
           f == Delayed
           g == Delayed'
           t == Total(f, Proc)
           u == Total(g, Proc)
<1>1. /\ m \in Int /\ a \in Int /\ rt \in Int /\ wait \in Int
      /\ Minus(m, c) \in Int /\ Plus(rt, c) \in Int
      /\ burst[pcb] \in Int /\ arrives[pcb] \in Int
  BY Integral, Words DEF SchedulingTypeOK
<1>2. Summable(f, Proc) /\ t \in Int
  BY Integral
<1>3. \A p \in Proc \ {pcb} : g[p] = f[p]
  BY DEF Delayed, given, SchedulingTypeOK
<1>4. /\ f[pcb] = (burst[pcb] - m) - (a - arrives[pcb])
      /\ g[pcb] = (burst[pcb] - Minus(m, c)) - (Plus(rt, c) - arrives[pcb])
  BY DEF Delayed, given, SchedulingTypeOK
<1> HIDE DEF f, g
<1> DEFINE d == (m - Minus(m, c)) - (Plus(rt, c) - a)
<1>5. d \in Int /\ g[pcb] = f[pcb] + d /\ pcb \in Proc
  BY <1>1, <1>4
<1> HIDE DEF d
<1>6. u = t + d
  BY ONLY <1>2, <1>3, <1>5, SumChange
<1> HIDE DEF m, a, t, u
<1>7. (Minus(Plus(wait, rt), a) + (t + ((m - Minus(m, c)) - (Plus(rt, c) - a)))) % WordMod
        = (wait + t) % WordMod
  <2> HIDE DEF a, m
  <2> QED BY ONLY <1>1, <1>2, <1>5, DispatchSum
<1>8. (wait' + u) % WordMod = (wait + t) % WordMod
  BY <1>6, <1>7 DEF a, d
<1> QED BY <1>8 DEF SumInv, t, u, f, g

(* A process whose burst is used up leaves.                                *)
LEMMA FinishSums ==
  ASSUME SchedulingTypeOK, SchedulingTypeOK', SumInv,
         cpu \in Proc, ~ Nowhere(cpu), remaining[cpu] = 0, arrival[cpu] = rt,
         turnaround' = Minus(Plus(turnaround, rt), arrives[cpu]),
         UNCHANGED <<wait, remaining, arrival, given>>,
         \A p \in Proc : Nowhere(p)' <=> Nowhere(p) \/ p = cpu
  PROVE  SumInv'
<1> DEFINE f == Delayed
           g == Delayed'
           t == Total(f, Proc)
           u == Total(g, Proc)
           b == arrives[cpu]
<1>1. /\ rt \in Int /\ wait \in Int /\ turnaround \in Int
      /\ burst[cpu] \in Int /\ b \in Int
  BY Integral DEF SchedulingTypeOK
<1>2. Summable(f, Proc) /\ t \in Int
  BY Integral
<1>3. \A p \in Proc \ {cpu} : g[p] = f[p]
  BY DEF Delayed, given
<1>4. f[cpu] = (burst[cpu] - 0) - (rt - b) /\ g[cpu] = burst[cpu]
  BY DEF Delayed, given
<1> HIDE DEF f, g
<1> DEFINE d == rt - b
<1>5. d \in Int /\ g[cpu] = f[cpu] + d /\ cpu \in Proc
  BY <1>1, <1>4
<1> HIDE DEF d
<1>6. u = t + d
  BY ONLY <1>2, <1>3, <1>5, SumChange
<1> USE DEF d
<1> HIDE DEF t, u, b
<1>7. turnaround = (wait + t) % WordMod /\ turnaround' = (((turnaround + rt) % WordMod) - b) % WordMod
  BY DEF SumInv, Plus, Minus, t, b, f
<1>8. (((turnaround + rt) % WordMod) - b) % WordMod = ((turnaround + rt) - b) % WordMod
  <2>1. turnaround + rt \in Int /\ -b \in Int
    BY <1>1
  <2>2. (((turnaround + rt) % WordMod) + (-b)) % WordMod = ((turnaround + rt) + (-b)) % WordMod
    BY <2>1, Reduced, Zenon
  <2>3. (turnaround + rt) % WordMod \in Int
    BY <2>1, Reduced
  <2> QED BY <1>1, <2>2, <2>3
<1>9. ((turnaround + rt) - b) % WordMod = (wait + (t + (rt - b))) % WordMod
  <2>1. wait + t \in Int /\ rt - b \in Int
    BY <1>1, <1>2
  <2>2. (((wait + t) % WordMod) + (rt - b)) % WordMod = ((wait + t) + (rt - b)) % WordMod
    BY <2>1, Reduced, Zenon
  <2>3. (turnaround + rt) - b = turnaround + (rt - b)
        /\ (wait + t) + (rt - b) = wait + (t + (rt - b))
    BY <1>1, <1>2
  <2> QED BY <1>7, <2>2, <2>3, Zenon
<1>10. turnaround' = (wait' + u) % WordMod
  BY <1>6, <1>7, <1>8, <1>9
<1> QED BY <1>10 DEF SumInv, u, g

(* A process runs for c, which it still needs.                             *)
LEMMA RunClock ==
  ASSUME SchedulingTypeOK, ClockInv, NEW pcb \in Proc, NEW c \in 0 .. remaining[pcb],
         rt' = Plus(rt, c),
         remaining' = [remaining EXCEPT ![pcb] = @ - c],
         UNCHANGED burst
  PROVE  ClockInv' /\ Total(Ran', Proc) = Total(Ran, Proc) + c
<1> DEFINE f == Ran
           g == Ran'
           t == Total(f, Proc)
           u == Total(g, Proc)
<1>1. remaining[pcb] \in Int /\ c \in Int /\ rt \in Int /\ burst[pcb] \in Int
  BY Integral DEF SchedulingTypeOK
<1>2. Summable(f, Proc) /\ t \in Int
  BY Integral
<1>3. /\ \A p \in Proc \ {pcb} : g[p] = f[p]
      /\ f[pcb] = burst[pcb] - remaining[pcb] /\ g[pcb] = burst[pcb] - (remaining[pcb] - c)
  BY DEF Ran, SchedulingTypeOK
<1> HIDE DEF f, g
<1>4. g[pcb] = f[pcb] + c /\ pcb \in Proc
  BY <1>1, <1>3
<1>5. u = t + c
  BY ONLY <1>1, <1>2, <1>3, <1>4, SumChange
<1> HIDE DEF t, u
<1>6. rt' = ((t % WordMod) + c) % WordMod
  BY DEF ClockInv, Plus, t, f
<1>7. rt' = (t + c) % WordMod
  BY <1>1, <1>2, <1>6, Reduced
<1> QED BY <1>5, <1>7 DEF ClockInv, t, u, f, g

(* When there is nobody left but in the ready queue, the sums agree.       *)
LEMMA EndSums ==
  ASSUME SchedulingTypeOK, QueueInv, SumInv, da = <<>>, cpu = NoProc
  PROVE  turnaround = Plus(wait, SumOver(burst, Finished))
<1>1. Finished = {p \in Proc : Nowhere(p)}
  BY OnePlace DEF Finished
<1>2. \A p \in Proc \ Finished : Delayed[p] = 0
  <2> SUFFICES ASSUME NEW p \in Proc, ~ Nowhere(p) PROVE Delayed[p] = 0
    BY <1>1
  <2>1. p # NoProc /\ ~ Contains(da, p)
    BY SchedulingConstants, EmptySeq DEF Proc, NoProc, Contains
  <2>2. remaining[p] = burst[p] /\ arrival[p] = arrives[p]
    BY <2>1 DEF Nowhere, QueueInv
  <2>3. burst[p] \in Int /\ arrives[p] \in Int
    BY Integral
  <2> QED BY <2>2, <2>3 DEF Delayed
<1>3. \A p \in Finished : burst[p] = Delayed[p]
  BY <1>1 DEF Delayed
<1>4. Summable(Delayed, Proc) /\ Summable(burst, Finished) /\ Finished \in SUBSET Proc
  <2>1. Finished \in SUBSET Proc
    BY <1>1
  <2> QED BY <2>1, Integral, FS_Subset DEF Summable
<1>5. Total(Delayed, Proc) = Total(burst, Finished)
  BY <1>2, <1>3, <1>4, SumsEqual
<1> QED BY <1>5 DEF SumInv, Plus, SumOver, Total

-----------------------------------------------------------------------------
(* Round robin.                                                            *)
RrTypes ==
  /\ SchedulingTypeOK
  /\ pc \in {"enter", "check", "while", "requeue", "done", "rejected"}
  /\ quantum \in Quanta /\ priority \in [Proc -> Word] /\ todo \in 0 .. N
  /\ passed \in [Proc -> SUBSET Proc]

(* What the arrays and the CPU hold at each place of the program.          *)
RrControl ==
  /\ pc \in {"enter", "while", "done", "rejected"} => cpu = NoProc
  /\ pc = "requeue" => cpu \in Proc
  /\ cpu # NoProc => arrival[cpu] = rt
  /\ pc \in {"enter", "done", "rejected"} => da = <<>>
  /\ pc = "enter" => \A p \in Proc : Contains(ready_queue, p)
  /\ pc \notin {"enter", "rejected"} => priority = arrives
  /\ pc # "check" => todo = 0
  /\ todo <= Len(ready_queue)

(* check_pcb has turned the ready queue so that the PCBs it has looked at  *)
(* are in front of those it has not, each part in the order they were      *)
(* given; those it has looked at have not arrived.                         *)
RrOrder ==
  /\ \A k, l \in 1 .. Len(ready_queue) : k < l =>
       IF k <= Len(ready_queue) - todo /\ Len(ready_queue) - todo < l
       THEN ready_queue[l] < ready_queue[k] ELSE ready_queue[k] < ready_queue[l]
  /\ pc \notin {"enter", "rejected"} =>
       \A k \in 1 .. Len(ready_queue) - todo : arrives[ready_queue[k]] > rt

(* Nobody ahead in da has run while those behind were in it.               *)
Overtaken == \A k, l \in 1 .. Len(da) : k < l => da[k] \notin passed[da[l]]

RrInv ==
  RrTypes /\ QueueInv /\ SumInv /\ ClockInv /\ RrControl /\ RrOrder /\ Overtaken

LEMMA NotEmpty ==
  ASSUME NEW S, NEW s \in Seq(S)
  PROVE  s # <<>> <=> Len(s) > 0
BY EmptySeq, LenProperties

LEMMA RrCheckStep ==
  ASSUME RrInv, Rr!Check
  PROVE  RrInv'
<1> DEFINE pcb == Last(ready_queue)
           n == Len(ready_queue)
           m == n - todo
<1>1. /\ pc = "check" /\ todo > 0 /\ todo' = todo - 1
      /\ CheckPcb
      /\ passed' = [passed EXCEPT ![pcb] = {}]
      /\ UNCHANGED <<pc, cpu, remaining, arrival, rt, wait, turnaround, burst, arrives,
                     quantum, priority>>
  BY DEF Rr!Check, Rr!CheckPcb, CheckPcb, Rr!HasArrived, HasArrived, Rr!Last, Last,
         Rr!Front, Front, Rr!Cons, Cons, Rr!sums, Rr!given
<1>2. /\ SchedulingTypeOK /\ QueueInv /\ RrControl /\ RrOrder /\ Overtaken
      /\ n \in 1 .. N /\ N \in Nat /\ todo \in 1 .. n /\ ready_queue # <<>>
      /\ ready_queue \in Seq(Proc) /\ da \in Seq(Proc)
      /\ IsInjective(ready_queue) /\ IsInjective(da)
  <2>1. /\ SchedulingTypeOK /\ QueueInv /\ RrControl /\ RrOrder /\ Overtaken
        /\ todo \in 0 .. N
    BY DEF RrInv, RrTypes
  <2>2. /\ ready_queue \in Seq(Proc) /\ da \in Seq(Proc)
        /\ IsInjective(ready_queue) /\ IsInjective(da)
    BY <2>1 DEF SchedulingTypeOK, QueueInv
  <2>3. n \in 0 .. N /\ N \in Nat /\ (ready_queue # <<>> <=> n > 0)
    BY <2>2, FewEnough, NotEmpty, SchedulingConstants
  <2> QED BY <1>1, <2>1, <2>2, <2>3 DEF RrControl
<1>3. /\ pcb \in Proc /\ pcb = ready_queue[n] /\ Contains(ready_queue, pcb)
      /\ Front(ready_queue) \in Seq(Proc) /\ Len(Front(ready_queue)) = n - 1
      /\ \A k \in 1 .. n - 1 : Front(ready_queue)[k] = ready_queue[k]
  BY <1>2, FrontKeeps DEF Last
<1>4. ready_queue' \in Seq(Proc) /\ da' \in Seq(Proc) /\ QueueInv'
      /\ \A p \in Proc : Nowhere(p)' <=> Nowhere(p)
  BY <1>1, <1>2, CheckKeeps DEF given
<1>5. RrTypes'
  <2>1. todo' \in 0 .. N
    BY <1>1, <1>2
  <2>2. passed' \in [Proc -> SUBSET Proc]
    BY <1>1 DEF RrInv, RrTypes
  <2> QED BY <1>1, <1>4, <2>1, <2>2 DEF RrInv, RrTypes, SchedulingTypeOK
<1>6. SumInv' /\ ClockInv'
  <2>1. Delayed' = Delayed /\ Ran' = Ran
    BY <1>1, <1>4, SumsStay DEF given
  <2> QED BY <1>1, <2>1 DEF RrInv, SumInv, ClockInv
<1>7. arrives[pcb] = arrival[pcb]
  BY <1>2, <1>3 DEF QueueInv
<1>8. \A k \in 1 .. n : ready_queue[k] \in Proc
  BY <1>2, ElementOfSeq
<1>9. /\ \A k, l \in 1 .. n : k < l =>
           IF k <= m /\ m < l THEN ready_queue[l] < ready_queue[k]
           ELSE ready_queue[k] < ready_queue[l]
      /\ \A k \in 1 .. m : arrives[ready_queue[k]] > rt
  BY <1>1, <1>2 DEF RrOrder
<1>10. CASE HasArrived(pcb)
  <2>1. da' = Append(da, pcb) /\ ready_queue' = Front(ready_queue)
    BY <1>1, <1>10 DEF CheckPcb
  <2>2. Len(ready_queue') = n - 1 /\ Len(ready_queue') - todo' = m
        /\ \A k \in 1 .. n - 1 : ready_queue'[k] = ready_queue[k]
    BY <1>1, <1>2, <1>3, <2>1
  <2>3. RrOrder'
    <3> HIDE DEF n, pcb
    <3>1. m <= n - 1 /\ m \in Int
      BY <1>2
    <3> HIDE DEF m
    <3>2. \A k, l \in 1 .. n - 1 : k < l =>
            IF k <= m /\ m < l THEN ready_queue'[l] < ready_queue'[k]
            ELSE ready_queue'[k] < ready_queue'[l]
      BY <1>2, <1>9, <2>2
    <3>3. \A k \in 1 .. m : arrives'[ready_queue'[k]] > rt'
      BY <1>1, <1>2, <1>9, <2>2, <3>1
    <3> QED BY <2>2, <3>2, <3>3 DEF RrOrder
  <2>4. Overtaken'
    <3>1. /\ Len(da') = Len(da) + 1 /\ Len(da) \in Nat
          /\ \A k \in 1 .. Len(da) : da'[k] = da[k] /\ da[k] \in Proc
          /\ da'[Len(da) + 1] = pcb
      BY <1>2, <1>3, <2>1, AppendKeeps, LenProperties, ElementOfSeq
    <3>2. \A p \in Proc : passed'[p] = {} \/ passed'[p] = passed[p]
      BY <1>1 DEF RrInv, RrTypes
    <3>3. passed'[pcb] = {}
      BY <1>1, <1>3 DEF RrInv, RrTypes
    <3> HIDE DEF pcb
    <3> QED BY <1>2, <3>1, <3>2, <3>3 DEF Overtaken
  <2>5. RrControl'
    <3>1. todo' <= Len(ready_queue')
      BY <1>1, <1>2, <2>2
    <3> QED BY <1>1, <1>2, <3>1 DEF RrControl
  <2> QED BY <1>4, <1>5, <1>6, <2>3, <2>4, <2>5 DEF RrInv
<1>11. CASE ~ HasArrived(pcb)
  <2>1. da' = da /\ ready_queue' = Cons(pcb, Front(ready_queue))
    BY <1>1, <1>11 DEF CheckPcb
  <2>2. /\ Len(ready_queue') = n /\ Len(ready_queue') - todo' = m + 1
        /\ ready_queue'[1] = pcb
        /\ \A k \in 1 .. n - 1 : ready_queue'[k + 1] = ready_queue[k]
    BY <1>1, <1>2, <2>1, TurnKeeps
  <2>3. arrives[pcb] > rt
    <3>1. arrival[pcb] \in Int /\ rt \in Int
      BY <1>2, <1>3, Integral DEF SchedulingTypeOK
    <3> QED BY <1>7, <1>11, <3>1 DEF HasArrived
  <2>4. RrOrder'
    <3> DEFINE q == ready_queue
               r == ready_queue'
    <3>1. /\ m <= n - 1 /\ m \in Nat /\ n \in Nat
      BY <1>2
    <3>2. /\ \A k \in 1 .. n : r[k] = IF k = 1 THEN q[n] ELSE q[k - 1]
      <4> SUFFICES ASSUME NEW k \in 1 .. n, k # 1 PROVE r[k] = q[k - 1]
        BY <1>3, <2>2
      <4>1. k - 1 \in 1 .. n - 1 /\ (k - 1) + 1 = k
        BY <1>2
      <4> QED BY <2>2, <4>1
    <3> HIDE DEF n, m, pcb, r
    <3>3. \A k, l \in 1 .. n : k < l =>
            IF k <= m + 1 /\ m + 1 < l THEN r[l] < r[k] ELSE r[k] < r[l]
      <4> SUFFICES ASSUME NEW k \in 1 .. n, NEW l \in 1 .. n, k < l
                   PROVE  IF k <= m + 1 /\ m + 1 < l THEN r[l] < r[k] ELSE r[k] < r[l]
        OBVIOUS
      <4>1. l - 1 \in 1 .. n /\ l - 1 < n /\ r[l] = q[l - 1]
        BY <3>1, <3>2
      <4>2. CASE k = 1
        BY <1>9, <3>1, <3>2, <4>1, <4>2
      <4>3. CASE k # 1
        <5>1. k - 1 \in 1 .. n /\ k - 1 < l - 1 /\ r[k] = q[k - 1]
          BY <3>1, <3>2, <4>3
        <5> QED BY <1>9, <3>1, <4>1, <5>1
      <4> QED BY <4>2, <4>3
    <3>4. \A k \in 1 .. m + 1 : arrives[r[k]] > rt
      <4> SUFFICES ASSUME NEW k \in 1 .. m + 1 PROVE arrives[r[k]] > rt
        OBVIOUS
      <4>1. CASE k = 1
        BY <1>3, <2>3, <3>1, <3>2, <4>1
      <4>2. CASE k # 1
        <5>1. k - 1 \in 1 .. m /\ r[k] = q[k - 1]
          BY <3>1, <3>2, <4>2
        <5> QED BY <1>9, <5>1
      <4> QED BY <4>1, <4>2
    <3> QED BY <1>1, <2>2, <3>3, <3>4 DEF RrOrder, r
  <2>5. Overtaken'
    <3>1. \A p \in Proc : passed'[p] = {} \/ passed'[p] = passed[p]
      BY <1>1 DEF RrInv, RrTypes
    <3>2. \A k \in 1 .. Len(da) : da[k] \in Proc
      BY <1>2, ElementOfSeq
    <3> HIDE DEF pcb
    <3> QED BY <1>2, <2>1, <3>1, <3>2 DEF Overtaken
  <2>6. RrControl'
    <3>1. todo' <= Len(ready_queue')
      BY <1>1, <1>2, <2>2
    <3> QED BY <1>1, <1>2, <2>1, <3>1 DEF RrControl
  <2> QED BY <1>4, <1>5, <1>6, <2>4, <2>5, <2>6 DEF RrInv
<1> QED BY <1>10, <1>11

(* The steps that move no PCB.                                             *)
LEMMA RrStaySteps ==
  ASSUME RrInv, Rr!Reject \/ Rr!Enter \/ Rr!CheckReturns \/ Rr!Return
  PROVE  RrInv'
<1>1. /\ UNCHANGED <<ready_queue, da, cpu, remaining, arrival, rt, wait, turnaround,
                     burst, arrives, quantum, passed>>
      /\ \/ pc = "enter" /\ pc' = "rejected" /\ UNCHANGED <<priority, todo>>
         \/ pc = "enter" /\ pc' = "check" /\ priority' = arrival /\ todo' = Len(ready_queue)
         \/ /\ pc = "check" /\ todo = 0 /\ UNCHANGED <<priority, todo>>
            /\ pc' = IF cpu = NoProc THEN "while" ELSE "requeue"
         \/ pc = "while" /\ da = <<>> /\ pc' = "done" /\ UNCHANGED <<priority, todo>>
  BY DEF Rr!Reject, Rr!Enter, Rr!CheckReturns, Rr!Return, Rr!NoProc, NoProc, Rr!pcbVars,
         Rr!sums, Rr!given
<1>2. /\ SchedulingTypeOK /\ QueueInv /\ SumInv /\ ClockInv /\ RrControl /\ RrOrder
      /\ Overtaken /\ todo \in 0 .. N /\ Len(ready_queue) \in 0 .. N
  BY FewEnough DEF RrInv, RrTypes, SchedulingTypeOK, QueueInv
<1>3. SchedulingTypeOK' /\ QueueInv' /\ ClockInv' /\ Overtaken' /\ SumInv'
  <2>1. \A p \in Proc : Nowhere(p)' <=> Nowhere(p)
    BY <1>1 DEF Nowhere
  <2>2. Delayed' = Delayed /\ Ran' = Ran
    BY <1>1, <2>1, SumsStay DEF given
  <2>3. SchedulingTypeOK' /\ QueueInv' /\ Overtaken'
    BY <1>1, <1>2, <2>1 DEF SchedulingTypeOK, QueueInv, Overtaken
  <2> QED BY <1>1, <1>2, <2>2, <2>3 DEF SumInv, ClockInv
<1>4. RrTypes'
  <2>1. arrival \in [Proc -> Word]
    BY <1>2 DEF SchedulingTypeOK
  <2> QED BY <1>1, <1>2, <1>3, <2>1 DEF RrInv, RrTypes
<1>5. CASE pc = "enter" /\ pc' = "rejected" /\ UNCHANGED <<priority, todo>>
  BY <1>1, <1>2, <1>3, <1>4, <1>5 DEF RrInv, RrControl, RrOrder
<1>6. CASE pc = "enter" /\ pc' = "check" /\ priority' = arrival /\ todo' = Len(ready_queue)
  <2>1. todo = 0 /\ da = <<>> /\ cpu = NoProc
    BY <1>2, <1>6 DEF RrControl
  <2>2. arrival = arrives
    <3>1. \A p \in Proc : arrival[p] = arrives[p]
      <4> SUFFICES ASSUME NEW p \in Proc PROVE Contains(ready_queue, p)
        BY <1>2 DEF QueueInv
      <4> QED BY <1>2, <1>6 DEF RrControl
    <3>2. arrival \in [Proc -> Word] /\ arrives \in [Proc -> Word]
      BY <1>2, Integral DEF SchedulingTypeOK
    <3> QED BY <3>1, <3>2
  <2>3. RrOrder'
    BY <1>1, <1>2, <1>6, <2>1 DEF RrOrder
  <2>4. RrControl'
    BY <1>1, <1>2, <1>6, <2>1, <2>2 DEF RrControl
  <2> QED BY <1>3, <1>4, <2>3, <2>4 DEF RrInv
<1>7. CASE pc = "check" /\ pc' \in {"while", "requeue"} /\ todo = 0 /\ UNCHANGED <<priority, todo>>
           /\ pc' = IF cpu = NoProc THEN "while" ELSE "requeue"
  <2>1. cpu \in Proc \cup {NoProc}
    BY <1>2 DEF SchedulingTypeOK
  <2> QED BY <1>1, <1>2, <1>3, <1>4, <1>7, <2>1 DEF RrInv, RrControl, RrOrder
<1>8. CASE pc = "while" /\ da = <<>> /\ pc' = "done" /\ UNCHANGED <<priority, todo>>
  BY <1>1, <1>2, <1>3, <1>4, <1>8 DEF RrInv, RrControl, RrOrder
<1> QED BY <1>1, <1>5, <1>6, <1>7, <1>8

(* The time the next process runs: not more than it needs.                 *)
LEMMA RrSlice ==
  ASSUME SchedulingTypeOK, quantum \in Nat, NEW p \in Proc
  PROVE  /\ Rr!CurrRt(p) \in 0 .. remaining[p]
         /\ Minus(remaining[p], Rr!CurrRt(p)) = remaining[p] - Rr!CurrRt(p)
<1>1. remaining[p] \in 0 .. WordMod - 1 /\ WordMod \in Nat \ {0}
  BY SchedulingConstants DEF SchedulingTypeOK, Word
<1>2. Rr!CurrRt(p) \in 0 .. remaining[p]
  BY <1>1 DEF Rr!CurrRt
<1>3. remaining[p] - Rr!CurrRt(p) \in 0 .. WordMod - 1
  BY <1>1, <1>2
<1> QED BY <1>1, <1>2, <1>3, ModSmall DEF Minus

LEMMA RrDispatchStep ==
  ASSUME RrInv, Rr!Dispatch
  PROVE  RrInv'
<1> DEFINE pcb == Head(da)
           c == Rr!CurrRt(pcb)
<1>1. /\ pc = "while" /\ pc' = "check" /\ da # <<>>
      /\ cpu' = pcb /\ da' = Tail(da)
      /\ wait' = Minus(Plus(wait, rt), arrival[pcb])
      /\ rt' = Plus(rt, c)
      /\ remaining' = [remaining EXCEPT ![pcb] = Minus(@, c)]
      /\ arrival' = [arrival EXCEPT ![pcb] = rt']
      /\ passed' = [p \in Proc |->
                      IF Contains(Tail(da), p) THEN passed[p] \cup {pcb} ELSE passed[p]]
      /\ todo' = Len(ready_queue)
      /\ UNCHANGED <<ready_queue, turnaround, burst, arrives, quantum, priority>>
  BY DEF Rr!Dispatch, Rr!Contains, Contains, Rr!Minus, Minus, Rr!Plus, Plus, Rr!Proc, Proc,
         Rr!given
<1>2. /\ SchedulingTypeOK /\ QueueInv /\ SumInv /\ ClockInv /\ RrControl /\ RrOrder
      /\ Overtaken /\ cpu = NoProc /\ todo = 0 /\ quantum \in Nat
      /\ da \in Seq(Proc) /\ IsInjective(da) /\ ready_queue \in Seq(Proc)
      /\ Len(ready_queue) \in 0 .. N
  BY <1>1, FewEnough, QuantaAreNumbers
     DEF RrInv, RrTypes, RrControl, SchedulingTypeOK, QueueInv
<1>3. /\ pcb \in Proc /\ Contains(da, pcb) /\ Tail(da) \in Seq(Proc)
      /\ Len(Tail(da)) = Len(da) - 1 /\ pcb = da[1]
      /\ \A k \in 1 .. Len(da) - 1 : Tail(da)[k] = da[k + 1]
      /\ \A x : Contains(Tail(da), x) <=> Contains(da, x) /\ x # pcb
  BY <1>1, <1>2, TailKeeps
<1>4. /\ c \in 0 .. remaining[pcb] /\ c \in Int
      /\ Minus(remaining[pcb], c) = remaining[pcb] - c
  BY <1>2, <1>3, RrSlice
<1> HIDE DEF c
<1>5. da' \in Seq(Proc) /\ cpu' \in Proc /\ QueueInv' /\ \A p \in Proc : Nowhere(p)' <=> Nowhere(p)
  <2>1. \A p \in Proc \ {pcb} : remaining'[p] = remaining[p] /\ arrival'[p] = arrival[p]
    BY <1>1, <1>2 DEF SchedulingTypeOK
  <2> QED BY <1>1, <1>2, <2>1, DispatchKeeps DEF given
<1>6. SchedulingTypeOK'
  <2>1. /\ rt \in Int /\ wait \in Int /\ arrival[pcb] \in Int /\ remaining[pcb] \in Int
        /\ Plus(wait, rt) \in Int
    BY <1>2, <1>3, Integral, Words DEF SchedulingTypeOK
  <2>2. wait' \in Word /\ rt' \in Word /\ Minus(remaining[pcb], c) \in Word
    BY <1>1, <1>4, <2>1, Words
  <2> HIDE DEF pcb
  <2> QED BY <1>1, <1>2, <1>3, <1>5, <2>2 DEF SchedulingTypeOK
<1>7. RrTypes'
  <2>1. passed \in [Proc -> SUBSET Proc]
    BY DEF RrInv, RrTypes
  <2>2. passed' \in [Proc -> SUBSET Proc]
    <3> HIDE DEF pcb
    <3> QED BY <1>1, <1>3, <2>1
  <2> QED BY <1>1, <1>2, <1>6, <2>2 DEF RrInv, RrTypes
<1>8. SumInv'
  <2>1. ~ Nowhere(pcb)
    BY <1>3 DEF Nowhere
  <2> HIDE DEF pcb
  <2> QED BY <1>1, <1>2, <1>3, <1>4, <1>5, <1>6, <2>1, DispatchSums DEF given
<1>9. ClockInv'
  <2>1. remaining' = [remaining EXCEPT ![pcb] = @ - c]
    BY <1>1, <1>4
  <2> HIDE DEF pcb
  <2> QED BY <1>1, <1>2, <1>3, <1>4, <2>1, RunClock
<1>10. RrControl'
  <2>1. arrival'[pcb] = rt'
    BY <1>1, <1>2, <1>3 DEF SchedulingTypeOK
  <2>2. priority' = arrives' /\ todo' <= Len(ready_queue') /\ pc' = "check"
    BY <1>1, <1>2 DEF RrControl
  <2> QED BY <1>1, <2>1, <2>2 DEF RrControl
<1>11. RrOrder'
  BY <1>1, <1>2 DEF RrOrder
<1>12. Overtaken'
  <2>1. Len(da) \in Nat /\ \A k \in 1 .. Len(da) : da[k] \in Proc
    BY <1>2, LenProperties, ElementOfSeq
  <2> SUFFICES ASSUME NEW k \in 1 .. Len(da) - 1, NEW l \in 1 .. Len(da) - 1, k < l
               PROVE  Tail(da)[k] \notin passed'[Tail(da)[l]]
    BY <1>1, <1>3 DEF Overtaken
  <2>2. k + 1 \in 1 .. Len(da) /\ l + 1 \in 1 .. Len(da) /\ k + 1 < l + 1
    BY <2>1
  <2>3. Tail(da)[k] = da[k + 1] /\ Tail(da)[l] = da[l + 1]
    BY <1>3
  <2>4. da[k + 1] \notin passed[da[l + 1]]
    BY <1>2, <2>2 DEF Overtaken
  <2>5. da[k + 1] # pcb
    BY <1>2, <1>3, <2>1, <2>2, LenProperties DEF IsInjective
  <2>6. passed'[da[l + 1]] \subseteq passed[da[l + 1]] \cup {pcb}
    <3> HIDE DEF pcb
    <3> QED BY <1>1, <2>1, <2>2
  <2> QED BY <2>3, <2>4, <2>5, <2>6
<1> QED BY <1>5, <1>7, <1>8, <1>9, <1>10, <1>11, <1>12 DEF RrInv

LEMMA RrRequeueStep ==
  ASSUME RrInv, Rr!Requeue
  PROVE  RrInv'
<1>1. /\ pc = "requeue" /\ pc' = "while" /\ cpu' = NoProc
      /\ IF remaining[cpu] # 0
         THEN da' = Append(da, cpu) /\ UNCHANGED turnaround
         ELSE turnaround' = Minus(Plus(turnaround, rt), priority[cpu]) /\ UNCHANGED da
      /\ passed' = [passed EXCEPT ![cpu] = {}]
      /\ UNCHANGED <<ready_queue, remaining, arrival, rt, wait, burst, arrives, quantum,
                     priority, todo>>
  BY DEF Rr!Requeue, Rr!PushedBack, Rr!Since, Rr!Minus, Minus, Rr!Plus, Plus, Rr!NoProc,
         NoProc, Rr!given
<1>2. /\ SchedulingTypeOK /\ QueueInv /\ SumInv /\ ClockInv /\ RrControl /\ RrOrder
      /\ Overtaken /\ cpu \in Proc /\ cpu # NoProc /\ arrival[cpu] = rt
      /\ priority = arrives /\ todo = 0 /\ passed \in [Proc -> SUBSET Proc]
      /\ da \in Seq(Proc)
  <2>1. SchedulingTypeOK /\ QueueInv /\ RrControl /\ passed \in [Proc -> SUBSET Proc]
    BY DEF RrInv, RrTypes
  <2>2. cpu \in Proc /\ cpu # NoProc
    BY <1>1, <2>1, SchedulingConstants DEF RrControl, Proc, NoProc
  <2> QED BY <1>1, <2>1, <2>2 DEF RrInv, RrControl, SchedulingTypeOK
<1>3. /\ da' \in Seq(Proc) /\ QueueInv'
      /\ \A p \in Proc : Nowhere(p)' <=> Nowhere(p) \/ (p = cpu /\ remaining[cpu] = 0)
  <2>1. IF remaining[cpu] # 0 THEN da' = Append(da, cpu) ELSE da' = da
    BY <1>1
  <2> QED BY <1>1, <1>2, <2>1, RequeueKeeps DEF given
<1>4. SchedulingTypeOK'
  <2>1. turnaround' \in Word
    <3>1. turnaround \in Int /\ rt \in Int /\ arrives[cpu] \in Int /\ Plus(turnaround, rt) \in Int
      BY <1>2, Integral, Words DEF SchedulingTypeOK
    <3>2. Minus(Plus(turnaround, rt), arrives[cpu]) \in Word
      BY <3>1, Words
    <3> QED BY <1>1, <1>2, <3>2 DEF SchedulingTypeOK
  <2> QED BY <1>1, <1>2, <1>3, <2>1 DEF SchedulingTypeOK
<1>5. RrTypes'
  <2>1. passed' \in [Proc -> SUBSET Proc]
    BY <1>1, <1>2
  <2> QED BY <1>1, <1>4, <2>1 DEF RrInv, RrTypes
<1>6. SumInv'
  <2>1. CASE remaining[cpu] # 0
    <3>1. Delayed' = Delayed
      BY <1>1, <1>3, <2>1, SumsStay DEF given
    <3> QED BY <1>1, <1>2, <2>1, <3>1 DEF SumInv
  <2>2. CASE remaining[cpu] = 0
    <3>1. ~ Nowhere(cpu)
      BY DEF Nowhere
    <3>2. turnaround' = Minus(Plus(turnaround, rt), arrives[cpu])
      BY <1>1, <1>2, <2>2
    <3>3. UNCHANGED <<wait, remaining, arrival, given>>
      BY <1>1 DEF given
    <3>4. \A p \in Proc : Nowhere(p)' <=> Nowhere(p) \/ p = cpu
      BY <1>3, <2>2
    <3> QED BY <1>2, <1>4, <2>2, <3>1, <3>2, <3>3, <3>4, FinishSums
  <2> QED BY <2>1, <2>2
<1>7. ClockInv'
  BY <1>1, <1>2 DEF ClockInv, Ran
<1>8. RrControl' /\ RrOrder'
  BY <1>1, <1>2 DEF RrControl, RrOrder
<1>9. Overtaken'
  <2>1. \A k \in 1 .. Len(da) : da[k] \in Proc
    BY <1>2, ElementOfSeq
  <2>2. \A p \in Proc : passed'[p] = {} \/ passed'[p] = passed[p]
    BY <1>1, <1>2
  <2>3. CASE remaining[cpu] # 0
    <3>1. /\ Len(da') = Len(da) + 1 /\ Len(da) \in Nat
          /\ \A k \in 1 .. Len(da) : da'[k] = da[k]
          /\ da'[Len(da) + 1] = cpu
      BY <1>1, <1>2, <2>3, AppendKeeps, LenProperties
    <3>2. passed'[cpu] = {}
      BY <1>1, <1>2
    <3> QED BY <1>2, <2>1, <2>2, <3>1, <3>2 DEF Overtaken
  <2>4. CASE remaining[cpu] = 0
    BY <1>1, <1>2, <2>1, <2>2, <2>4 DEF Overtaken
  <2> QED BY <2>3, <2>4
<1> QED BY <1>3, <1>5, <1>6, <1>7, <1>8, <1>9 DEF RrInv

(* The state in which every scheduler begins.                              *)
LEMMA Begin ==
  ASSUME Init
  PROVE  /\ SchedulingTypeOK /\ QueueInv /\ SumInv /\ ClockInv
         /\ ready_queue \in Seq(Proc) /\ Len(ready_queue) = N
         /\ \A k \in Proc : ready_queue[k] = k
         /\ \A p \in Proc : Contains(ready_queue, p)
<1>1. /\ ready_queue = [k \in Proc |-> k] /\ da = <<>> /\ cpu = NoProc
      /\ burst \in [Proc -> Bursts] /\ arrives \in [Proc -> Arrivals]
      /\ remaining = burst /\ arrival = arrives /\ rt = 0 /\ wait = 0 /\ turnaround = 0
  BY DEF Init, SchedulingInit
<1>2. N \in Nat \ {0} /\ WordMod \in Nat \ {0} /\ Bursts \subseteq Word /\ Arrivals \subseteq Word
      /\ 0 \in Word /\ Proc = 1 .. N
  BY SchedulingConstants DEF Word, Proc
<1>3. /\ ready_queue \in Seq(Proc) /\ Len(ready_queue) = N /\ DOMAIN ready_queue = Proc
      /\ \A k \in Proc : ready_queue[k] = k
  <2>1. [k \in 1 .. N |-> k] \in Seq(Proc)
    <3>1. \A k \in 1 .. N : k \in Proc
      BY <1>2
    <3> QED BY <1>2, <3>1, IsASeq
  <2> QED BY <1>1, <1>2, <2>1, LenProperties
<1>4. SchedulingTypeOK
  <2>1. da \in Seq(Proc)
    BY <1>1, EmptySeq
  <2>2. remaining \in [Proc -> Word] /\ arrival \in [Proc -> Word]
    BY <1>1, <1>2
  <2> QED BY <1>1, <1>2, <1>3, <2>1, <2>2 DEF SchedulingTypeOK
<1>5. \A p \in Proc : Contains(ready_queue, p)
  BY <1>2, <1>3 DEF Contains
<1>6. \A p : ~ Contains(da, p)
  BY <1>1, EmptySeq DEF Contains
<1>7. QueueInv
  <2>1. IsInjective(ready_queue)
    BY <1>3 DEF IsInjective
  <2>2. IsInjective(da)
    BY <1>1, EmptySeq DEF IsInjective
  <2> QED BY <1>1, <1>5, <1>6, <2>1, <2>2 DEF QueueInv, Nowhere
<1>8. SumInv
  <2>1. \A p \in Proc : Delayed[p] = 0
    BY <1>1, <1>2, <1>5, Integral, <1>4 DEF Delayed, Nowhere
  <2>2. Total(Delayed, Proc) = Total(Delayed, {})
    <3>1. Summable(Delayed, Proc) /\ Summable(Delayed, {})
      BY <1>4, Integral, FS_EmptySet DEF Summable
    <3> QED BY <2>1, <3>1, SumsEqual
  <2>3. Total(Delayed, Proc) = 0
    BY <2>2, SumOfNone
  <2> QED BY <1>1, <1>2, <2>3, ModSmall DEF SumInv
<1>9. ClockInv
  <2>1. \A p \in Proc : Ran[p] = 0
    BY <1>1, <1>2, Integral, <1>4 DEF Ran
  <2>2. Total(Ran, Proc) = Total(Ran, {})
    <3>1. Summable(Ran, Proc) /\ Summable(Ran, {})
      BY <1>4, Integral, FS_EmptySet DEF Summable
    <3> QED BY <2>1, <3>1, SumsEqual
  <2>3. Total(Ran, Proc) = 0
    BY <2>2, SumOfNone
  <2> QED BY <1>1, <1>2, <2>3, ModSmall DEF ClockInv
<1> QED BY <1>3, <1>4, <1>5, <1>7, <1>8, <1>9

LEMMA RrBegins ==
  ASSUME Init, policy = "R"
  PROVE  RrInv
<1>1. /\ pc = "enter" /\ priority = [p \in Proc |-> 0] /\ todo = 0 /\ quantum \in Quanta
      /\ passed = [p \in Proc |-> {}] /\ da = <<>> /\ cpu = NoProc
  BY DEF Init, Entry, SchedulingInit
<1>2. /\ SchedulingTypeOK /\ QueueInv /\ SumInv /\ ClockInv /\ Len(ready_queue) = N
      /\ \A k \in Proc : ready_queue[k] = k
      /\ \A p \in Proc : Contains(ready_queue, p)
      /\ N \in Nat /\ 0 \in Word /\ Proc = 1 .. N
  BY Begin, SchedulingConstants DEF Word, Proc
<1>3. RrTypes
  BY <1>1, <1>2 DEF RrTypes
<1>4. RrControl
  BY <1>1, <1>2 DEF RrControl
<1>5. RrOrder
  BY <1>1, <1>2 DEF RrOrder
<1>6. Overtaken
  BY <1>1, EmptySeq DEF Overtaken
<1> QED BY <1>2, <1>3, <1>4, <1>5, <1>6 DEF RrInv

LEMMA RrSteps ==
  ASSUME RrInv, policy = "R", Next
  PROVE  RrInv'
<1>1. Rr!Next
  BY DEF Next, first_come_first_serve, shortest_remaining_time_first, round_robin,
         shortest_job_first
<1> QED BY <1>1, RrCheckStep, RrStaySteps, RrDispatchStep, RrRequeueStep DEF Rr!Next

-----------------------------------------------------------------------------
(* Shortest remaining time first.                                          *)
SrtfTypes ==
  /\ SchedulingTypeOK
  /\ pc \in {"enter", "check", "while", "requeue", "done"}
  /\ priority \in [Proc -> Word] /\ todo \in 0 .. N

SrtfControl ==
  /\ IF pc = "requeue" THEN cpu \in Proc /\ arrival[cpu] = rt ELSE cpu = NoProc
  /\ pc \in {"enter", "done"} => da = <<>>
  /\ pc = "enter" => \A p \in Proc : Contains(ready_queue, p)
  /\ pc # "enter" => priority = arrives
  /\ pc # "check" => todo = 0
  /\ todo <= Len(ready_queue)

(* Those that check_pcb has looked at and left in the ready queue have not *)
(* arrived; while a process runs the clock moves on and it must look again.*)
SrtfLooked ==
  pc \in {"check", "while", "done"} =>
    \A k \in 1 .. Len(ready_queue) - todo : arrives[ready_queue[k]] > rt

(* da is sorted when the process to run is taken from it.                  *)
SrtfSorted ==
  pc = "while" =>
    \A k, l \in 1 .. Len(da) : k < l => remaining[da[k]] <= remaining[da[l]]

SrtfInv == SrtfTypes /\ QueueInv /\ SumInv /\ SrtfControl /\ SrtfLooked /\ SrtfSorted

(* What the sorting in the instance leaves is an order of the same PCBs.   *)
LEMMA SrtfOrders ==
  \A S : Srtf!SetToSeqs(S) = SetToSeqs(S)
<1>1. \A S : Srtf!Cardinality(S) = Cardinality(S)
  BY DEF Srtf!Cardinality, Cardinality, Srtf!IsFiniteSet, IsFiniteSet
<1> QED BY <1>1 DEF Srtf!SetToSeqs, SetToSeqs

LEMMA SrtfSorts ==
  ASSUME NEW s
  PROVE  /\ Srtf!SortedByArrival(s) \subseteq SetToSeqs(ToSet(s))
         /\ Srtf!SortedByRemaining(s) \subseteq SetToSeqs(ToSet(s))
         /\ \A t \in Srtf!SortedByRemaining(s) : \A k, l \in 1 .. Len(t) :
              k < l => remaining[t[k]] <= remaining[t[l]]
<1>1. Srtf!ToSet(s) = ToSet(s)
  BY DEF Srtf!ToSet, ToSet
<1>2. Srtf!SetToSeqs(ToSet(s)) = SetToSeqs(ToSet(s))
  BY SrtfOrders
<1> QED BY <1>1, <1>2 DEF Srtf!SortedByArrival, Srtf!SortedByRemaining, Srtf!IsSorted

LEMMA SrtfEnterStep ==
  ASSUME SrtfInv, Srtf!Enter
  PROVE  SrtfInv'
<1>1. /\ pc = "enter" /\ pc' = "check"
      /\ priority' = arrival /\ todo' = Len(ready_queue)
      /\ ready_queue' \in SetToSeqs(ToSet(ready_queue))
      /\ UNCHANGED <<da, cpu, remaining, arrival, rt, wait, turnaround, burst, arrives>>
  BY SrtfSorts DEF Srtf!Enter, Srtf!sums, Srtf!given
<1>2. /\ SchedulingTypeOK /\ QueueInv /\ SumInv /\ da = <<>> /\ cpu = NoProc
      /\ \A p \in Proc : Contains(ready_queue, p)
      /\ ready_queue \in Seq(Proc) /\ IsInjective(ready_queue)
      /\ Len(ready_queue) \in 0 .. N
  BY <1>1, FewEnough DEF SrtfInv, SrtfTypes, SrtfControl, SchedulingTypeOK, QueueInv
<1>3. /\ ready_queue' \in Seq(Proc) /\ Len(ready_queue') = Len(ready_queue)
      /\ IsInjective(ready_queue')
      /\ \A x : Contains(ready_queue', x) <=> Contains(ready_queue, x)
  BY <1>1, <1>2, SortKeeps
<1>4. SchedulingTypeOK' /\ QueueInv' /\ \A p \in Proc : Nowhere(p)' <=> Nowhere(p)
  BY <1>1, <1>2, <1>3 DEF SchedulingTypeOK, QueueInv, Nowhere
<1>5. SrtfTypes'
  <2>1. arrival \in [Proc -> Word]
    BY <1>2 DEF SchedulingTypeOK
  <2> QED BY <1>1, <1>2, <1>4, <2>1 DEF SrtfTypes
<1>6. SumInv'
  <2>1. Delayed' = Delayed
    BY <1>1, <1>4, SumsStay DEF given
  <2> QED BY <1>1, <1>2, <2>1 DEF SumInv
<1>7. arrival = arrives
  <2>1. \A p \in Proc : arrival[p] = arrives[p]
    BY <1>2 DEF QueueInv
  <2>2. arrival \in [Proc -> Word] /\ arrives \in [Proc -> Word]
    BY <1>2, Integral DEF SchedulingTypeOK
  <2> QED BY <2>1, <2>2
<1>8. SrtfControl' /\ SrtfSorted'
  BY <1>1, <1>2, <1>3, <1>7 DEF SrtfControl, SrtfSorted
<1>9. SrtfLooked'
  BY <1>1, <1>2, <1>3 DEF SrtfLooked
<1> QED BY <1>4, <1>5, <1>6, <1>8, <1>9 DEF SrtfInv

LEMMA SrtfCheckStep ==
  ASSUME SrtfInv, Srtf!Check
  PROVE  SrtfInv'
<1> DEFINE pcb == Last(ready_queue)
           n == Len(ready_queue)
           m == n - todo
<1>1. /\ pc = "check" /\ todo > 0 /\ todo' = todo - 1
      /\ CheckPcb
      /\ UNCHANGED <<pc, cpu, remaining, arrival, rt, wait, turnaround, burst, arrives,
                     priority>>
  BY DEF Srtf!Check, Srtf!CheckPcb, CheckPcb, Srtf!HasArrived, HasArrived, Srtf!Last, Last,
         Srtf!Front, Front, Srtf!Cons, Cons, Srtf!sums, Srtf!given
<1>2. /\ SchedulingTypeOK /\ QueueInv /\ SrtfControl /\ SrtfLooked
      /\ n \in 1 .. N /\ N \in Nat /\ todo \in 1 .. n /\ ready_queue # <<>>
      /\ ready_queue \in Seq(Proc) /\ IsInjective(ready_queue)
  <2>1. SchedulingTypeOK /\ QueueInv /\ SrtfControl /\ SrtfLooked /\ todo \in 0 .. N
    BY DEF SrtfInv, SrtfTypes
  <2>2. ready_queue \in Seq(Proc) /\ IsInjective(ready_queue)
    BY <2>1 DEF SchedulingTypeOK, QueueInv
  <2>3. n \in 0 .. N /\ N \in Nat /\ (ready_queue # <<>> <=> n > 0)
    BY <2>2, FewEnough, NotEmpty, SchedulingConstants
  <2> QED BY <1>1, <2>1, <2>2, <2>3 DEF SrtfControl
<1>3. /\ pcb \in Proc /\ pcb = ready_queue[n] /\ Contains(ready_queue, pcb)
      /\ Front(ready_queue) \in Seq(Proc) /\ Len(Front(ready_queue)) = n - 1
      /\ \A k \in 1 .. n - 1 : Front(ready_queue)[k] = ready_queue[k]
  BY <1>2, FrontKeeps DEF Last
<1>4. ready_queue' \in Seq(Proc) /\ da' \in Seq(Proc) /\ QueueInv'
      /\ \A p \in Proc : Nowhere(p)' <=> Nowhere(p)
  BY <1>1, <1>2, CheckKeeps DEF given
<1>5. SrtfTypes'
  <2>1. todo' \in 0 .. N
    BY <1>1, <1>2
  <2> QED BY <1>1, <1>4, <2>1 DEF SrtfInv, SrtfTypes, SchedulingTypeOK
<1>6. SumInv'
  <2>1. Delayed' = Delayed
    BY <1>1, <1>4, SumsStay DEF given
  <2> QED BY <1>1, <2>1 DEF SrtfInv, SumInv
<1>7. SrtfSorted'
  BY <1>1 DEF SrtfSorted
<1>8. /\ arrives[pcb] = arrival[pcb] /\ arrival[pcb] \in Int /\ rt \in Int
      /\ \A k \in 1 .. m : arrives[ready_queue[k]] > rt
  BY <1>1, <1>2, <1>3, Integral DEF QueueInv, SchedulingTypeOK, SrtfLooked
<1>9. CASE HasArrived(pcb)
  <2>1. da' = Append(da, pcb) /\ ready_queue' = Front(ready_queue)
    BY <1>1, <1>9 DEF CheckPcb
  <2>2. /\ Len(ready_queue') = n - 1 /\ Len(ready_queue') - todo' = m /\ m <= n - 1
        /\ \A k \in 1 .. m : ready_queue'[k] = ready_queue[k]
    BY <1>1, <1>2, <1>3, <2>1
  <2>3. SrtfLooked'
    <3> HIDE DEF m
    <3> QED BY <1>1, <1>8, <2>2 DEF SrtfLooked
  <2>4. SrtfControl'
    <3>1. todo' <= Len(ready_queue')
      BY <1>1, <1>2, <2>2
    <3> QED BY <1>1, <1>2, <3>1 DEF SrtfControl
  <2> QED BY <1>4, <1>5, <1>6, <1>7, <2>3, <2>4 DEF SrtfInv
<1>10. CASE ~ HasArrived(pcb)
  <2>1. da' = da /\ ready_queue' = Cons(pcb, Front(ready_queue))
    BY <1>1, <1>10 DEF CheckPcb
  <2>2. /\ Len(ready_queue') = n /\ Len(ready_queue') - todo' = m + 1
        /\ ready_queue'[1] = pcb
        /\ \A k \in 1 .. n - 1 : ready_queue'[k + 1] = ready_queue[k]
    BY <1>1, <1>2, <2>1, TurnKeeps
  <2>3. SrtfLooked'
    <3> SUFFICES ASSUME NEW k \in 1 .. m + 1 PROVE arrives[ready_queue'[k]] > rt
      BY <1>1, <2>2 DEF SrtfLooked
    <3>1. CASE k = 1
      BY <1>8, <1>10, <2>2, <3>1 DEF HasArrived
    <3>2. CASE k # 1
      <4>1. k - 1 \in 1 .. m /\ k - 1 \in 1 .. n - 1 /\ (k - 1) + 1 = k
        BY <1>2, <3>2
      <4> QED BY <1>8, <2>2, <4>1
    <3> QED BY <3>1, <3>2
  <2>4. SrtfControl'
    <3>1. todo' <= Len(ready_queue')
      BY <1>1, <1>2, <2>2
    <3> QED BY <1>1, <1>2, <2>1, <3>1 DEF SrtfControl
  <2> QED BY <1>4, <1>5, <1>6, <1>7, <2>3, <2>4 DEF SrtfInv
<1> QED BY <1>9, <1>10

LEMMA SrtfStaySteps ==
  ASSUME SrtfInv, Srtf!CheckReturns \/ Srtf!Return
  PROVE  SrtfInv'
<1>1. /\ UNCHANGED <<ready_queue, cpu, remaining, arrival, rt, wait, turnaround, burst,
                     arrives, priority, todo>>
      /\ \/ /\ pc = "check" /\ todo = 0 /\ pc' = "while"
            /\ da' \in SetToSeqs(ToSet(da))
            /\ \A k, l \in 1 .. Len(da') : k < l => remaining[da'[k]] <= remaining[da'[l]]
         \/ pc = "while" /\ da = <<>> /\ pc' = "done" /\ da' = da
  BY SrtfSorts DEF Srtf!CheckReturns, Srtf!Return, Srtf!pcbVars, Srtf!sums, Srtf!given
<1>2. /\ SchedulingTypeOK /\ QueueInv /\ SumInv /\ SrtfControl /\ SrtfLooked
      /\ da \in Seq(Proc) /\ IsInjective(da)
  BY DEF SrtfInv, SrtfTypes, SchedulingTypeOK, QueueInv
<1>3. /\ da' \in Seq(Proc) /\ IsInjective(da')
      /\ \A x : Contains(da', x) <=> Contains(da, x)
  <2>1. CASE da' = da
    BY <1>2, <2>1
  <2>2. CASE da' \in SetToSeqs(ToSet(da))
    BY <1>2, <2>2, SortKeeps
  <2> QED BY <1>1, <2>1, <2>2
<1>4. SchedulingTypeOK' /\ QueueInv' /\ \A p \in Proc : Nowhere(p)' <=> Nowhere(p)
  BY <1>1, <1>2, <1>3 DEF SchedulingTypeOK, QueueInv, Nowhere
<1>5. SrtfTypes'
  BY <1>1, <1>4 DEF SrtfInv, SrtfTypes
<1>6. SumInv'
  <2>1. Delayed' = Delayed
    BY <1>1, <1>4, SumsStay DEF given
  <2> QED BY <1>1, <1>2, <2>1 DEF SumInv
<1>7. SrtfControl' /\ SrtfLooked' /\ SrtfSorted'
  BY <1>1, <1>2 DEF SrtfControl, SrtfLooked, SrtfSorted
<1> QED BY <1>4, <1>5, <1>6, <1>7 DEF SrtfInv

LEMMA SrtfDispatchStep ==
  ASSUME SrtfInv, Srtf!Dispatch
  PROVE  SrtfInv'
<1> DEFINE pcb == Head(da)
           c == Srtf!CurrRt(pcb)
<1>1. /\ pc = "while" /\ pc' = "requeue" /\ da # <<>>
      /\ cpu' = pcb /\ da' = Tail(da)
      /\ wait' = Minus(Plus(wait, rt), arrival[pcb])
      /\ rt' = Plus(rt, c)
      /\ remaining' = [remaining EXCEPT ![pcb] = Minus(@, c)]
      /\ arrival' = [arrival EXCEPT ![pcb] = rt']
      /\ UNCHANGED <<ready_queue, turnaround, burst, arrives, priority, todo>>
  BY DEF Srtf!Dispatch, Srtf!Minus, Minus, Srtf!Plus, Plus, Srtf!given
<1>2. /\ SchedulingTypeOK /\ QueueInv /\ SumInv /\ SrtfControl /\ cpu = NoProc /\ todo = 0
      /\ da \in Seq(Proc) /\ IsInjective(da) /\ ready_queue \in Seq(Proc)
  BY <1>1 DEF SrtfInv, SrtfTypes, SrtfControl, SchedulingTypeOK, QueueInv
<1>3. pcb \in Proc /\ Contains(da, pcb)
  BY <1>1, <1>2, TailKeeps
<1>4. /\ rt \in Int /\ wait \in Int /\ arrival[pcb] \in Int /\ remaining[pcb] \in Int
      /\ c \in Int
  <2>1. Srtf!CurrRt(pcb) = IF ready_queue # <<>> THEN Minus(arrival[Last(ready_queue)], rt)
                           ELSE remaining[pcb]
    BY DEF Srtf!CurrRt, Srtf!Minus, Minus, Srtf!Last, Last
  <2>2. rt \in Int /\ wait \in Int /\ arrival[pcb] \in Int /\ remaining[pcb] \in Int
    BY <1>2, <1>3, Integral DEF SchedulingTypeOK
  <2>3. ready_queue # <<>> => arrival[Last(ready_queue)] \in Int
    BY <1>2, FrontKeeps, Integral DEF SchedulingTypeOK
  <2>4. ready_queue # <<>> => Minus(arrival[Last(ready_queue)], rt) \in Int
    BY <2>2, <2>3, Words, Integral, <1>2
  <2> QED BY <2>1, <2>2, <2>4
<1> HIDE DEF c
<1>5. da' \in Seq(Proc) /\ cpu' \in Proc /\ QueueInv' /\ \A p \in Proc : Nowhere(p)' <=> Nowhere(p)
  <2>1. \A p \in Proc \ {pcb} : remaining'[p] = remaining[p] /\ arrival'[p] = arrival[p]
    BY <1>1, <1>2 DEF SchedulingTypeOK
  <2> QED BY <1>1, <1>2, <2>1, DispatchKeeps DEF given
<1>6. SchedulingTypeOK'
  <2>1. Plus(wait, rt) \in Int
    BY <1>2, <1>4, Integral, Words
  <2>2. wait' \in Word /\ rt' \in Word /\ Minus(remaining[pcb], c) \in Word
    BY <1>1, <1>4, <2>1, Words
  <2> HIDE DEF pcb
  <2> QED BY <1>1, <1>2, <1>3, <1>5, <2>2 DEF SchedulingTypeOK
<1>7. SrtfTypes'
  BY <1>1, <1>2, <1>6 DEF SrtfInv, SrtfTypes
<1>8. SumInv'
  <2>1. ~ Nowhere(pcb)
    BY <1>3 DEF Nowhere
  <2> HIDE DEF pcb
  <2> QED BY <1>1, <1>2, <1>3, <1>4, <1>5, <1>6, <2>1, DispatchSums DEF given
<1>9. SrtfControl' /\ SrtfLooked' /\ SrtfSorted'
  <2>1. arrival'[pcb] = rt'
    BY <1>1, <1>2, <1>3 DEF SchedulingTypeOK
  <2> HIDE DEF pcb
  <2> QED BY <1>1, <1>2, <1>3, <2>1 DEF SrtfControl, SrtfLooked, SrtfSorted
<1> QED BY <1>5, <1>7, <1>8, <1>9 DEF SrtfInv

LEMMA SrtfRequeueStep ==
  ASSUME SrtfInv, Srtf!Requeue
  PROVE  SrtfInv'
<1>1. /\ pc = "requeue" /\ pc' = "check" /\ cpu' = NoProc
      /\ IF remaining[cpu] = 0
         THEN turnaround' = Plus(turnaround, Minus(rt, priority[cpu])) /\ UNCHANGED da
         ELSE da' = Append(da, cpu) /\ UNCHANGED turnaround
      /\ todo' = Len(ready_queue)
      /\ UNCHANGED <<ready_queue, remaining, arrival, rt, wait, burst, arrives, priority>>
  BY DEF Srtf!Requeue, Srtf!PushedBack, Srtf!Minus, Minus, Srtf!Plus, Plus, Srtf!NoProc,
         NoProc, Srtf!given
<1>2. /\ SchedulingTypeOK /\ QueueInv /\ SumInv /\ SrtfControl
      /\ cpu \in Proc /\ arrival[cpu] = rt /\ priority = arrives
      /\ da \in Seq(Proc) /\ Len(ready_queue) \in 0 .. N
  BY <1>1, FewEnough DEF SrtfInv, SrtfTypes, SrtfControl, SchedulingTypeOK, QueueInv
<1>3. /\ da' \in Seq(Proc) /\ QueueInv'
      /\ \A p \in Proc : Nowhere(p)' <=> Nowhere(p) \/ (p = cpu /\ remaining[cpu] = 0)
  <2>1. IF remaining[cpu] # 0 THEN da' = Append(da, cpu) ELSE da' = da
    BY <1>1
  <2> QED BY <1>1, <1>2, <2>1, RequeueKeeps DEF given
<1>4. /\ turnaround \in Int /\ rt \in Int /\ arrives[cpu] \in Int /\ Minus(rt, arrives[cpu]) \in Int
      /\ Plus(turnaround, rt) \in Int
  BY <1>2, Integral, Words DEF SchedulingTypeOK
<1>5. SchedulingTypeOK'
  <2>1. turnaround' \in Word
    <3>1. Plus(turnaround, Minus(rt, arrives[cpu])) \in Word
      BY <1>4, Words
    <3> QED BY <1>1, <1>2, <3>1 DEF SchedulingTypeOK
  <2> QED BY <1>1, <1>2, <1>3, <2>1 DEF SchedulingTypeOK
<1>6. SrtfTypes'
  BY <1>1, <1>2, <1>5 DEF SrtfInv, SrtfTypes
<1>7. SumInv'
  <2>1. CASE remaining[cpu] # 0
    <3>1. Delayed' = Delayed
      BY <1>1, <1>3, <2>1, SumsStay DEF given
    <3> QED BY <1>1, <1>2, <2>1, <3>1 DEF SumInv
  <2>2. CASE remaining[cpu] = 0
    <3>1. ~ Nowhere(cpu)
      BY DEF Nowhere
    <3>2. turnaround' = Minus(Plus(turnaround, rt), arrives[cpu])
      <4> DEFINE a == turnaround
                 b == arrives[cpu]
      <4>1. turnaround' = (a + ((rt - b) % WordMod)) % WordMod
        BY <1>1, <1>2, <2>2 DEF Plus, Minus
      <4>2. Minus(Plus(a, rt), b) = (((a + rt) % WordMod) - b) % WordMod
        BY DEF Plus, Minus
      <4>3. (a + ((rt - b) % WordMod)) % WordMod = ((rt - b) + a) % WordMod
        <5>1. rt - b \in Int /\ a \in Int
          BY <1>4
        <5> HIDE DEF a, b
        <5> QED BY ONLY <5>1, Reduced
      <4>4. (((a + rt) % WordMod) + (-b)) % WordMod = ((a + rt) + (-b)) % WordMod
        <5>1. a + rt \in Int /\ -b \in Int
          BY <1>4
        <5> HIDE DEF a, b
        <5> QED BY ONLY <5>1, Reduced
      <4>5. (rt - b) + a = (a + rt) + (-b) /\ (a + rt) % WordMod \in Int
        <5>1. a + rt \in Int
          BY <1>4
        <5>2. (a + rt) % WordMod \in Int
          BY <5>1, Reduced
        <5> QED BY <1>4, <5>2
      <4>6. ((a + rt) % WordMod) - b = ((a + rt) % WordMod) + (-b)
        BY <1>4, <4>5
      <4> HIDE DEF a, b
      <4>7. turnaround' = Minus(Plus(a, rt), b)
        BY <4>1, <4>2, <4>3, <4>4, <4>5, <4>6
      <4> QED BY <4>7 DEF a, b
    <3>3. UNCHANGED <<wait, remaining, arrival, given>>
      BY <1>1 DEF given
    <3>4. \A p \in Proc : Nowhere(p)' <=> Nowhere(p) \/ p = cpu
      BY <1>3, <2>2
    <3> QED BY <1>2, <1>5, <2>2, <3>1, <3>2, <3>3, <3>4, FinishSums
  <2> QED BY <2>1, <2>2
<1>8. SrtfControl' /\ SrtfLooked' /\ SrtfSorted'
  BY <1>1, <1>2 DEF SrtfControl, SrtfLooked, SrtfSorted
<1> QED BY <1>3, <1>6, <1>7, <1>8 DEF SrtfInv

LEMMA SrtfBegins ==
  ASSUME Init, policy = "P"
  PROVE  SrtfInv
<1>1. /\ pc = "enter" /\ priority = [p \in Proc |-> 0] /\ todo = 0
      /\ da = <<>> /\ cpu = NoProc
  BY DEF Init, Entry, SchedulingInit
<1>2. /\ SchedulingTypeOK /\ QueueInv /\ SumInv /\ Len(ready_queue) = N
      /\ \A p \in Proc : Contains(ready_queue, p)
      /\ N \in Nat /\ 0 \in Word
  BY Begin, SchedulingConstants DEF Word
<1>3. SrtfTypes /\ SrtfControl /\ SrtfLooked /\ SrtfSorted
  BY <1>1, <1>2 DEF SrtfTypes, SrtfControl, SrtfLooked, SrtfSorted
<1> QED BY <1>2, <1>3 DEF SrtfInv

LEMMA SrtfSteps ==
  ASSUME SrtfInv, policy = "P", Next
  PROVE  SrtfInv'
<1>1. Srtf!Next
  BY DEF Next, first_come_first_serve, shortest_remaining_time_first, round_robin,
         shortest_job_first
<1> QED BY <1>1, SrtfEnterStep, SrtfCheckStep, SrtfStaySteps, SrtfDispatchStep,
           SrtfRequeueStep DEF Srtf!Next

-----------------------------------------------------------------------------
(* First come first serve.                                                 *)
FcfsTypes == SchedulingTypeOK /\ pc \in {"loop", "done"} /\ served \in Seq(Proc)

(* The ready queue is what is left of the one that was given, and the      *)
(* others were served from its back.                                       *)
FcfsOrder ==
  /\ da = <<>> /\ cpu = NoProc /\ arrival = arrives
  /\ pc = "done" => ready_queue = <<>>
  /\ \A k \in 1 .. Len(ready_queue) : ready_queue[k] = k
  /\ Len(served) = N - Len(ready_queue)
  /\ \A k \in 1 .. Len(served) : served[k] = N + 1 - k
  /\ \A p \in Proc : remaining[p] = IF p <= Len(ready_queue) THEN burst[p] ELSE 0

(* How long the k-th process waited, in terms of what ran before it.       *)
Waits == [k \in DOMAIN served |-> Fcfs!Start(k) - arrives[served[k]]]
WaitInv == wait = Total(Waits, DOMAIN served) % WordMod

FcfsInv == FcfsTypes /\ FcfsOrder /\ SumInv /\ ClockInv /\ WaitInv

LEMMA FcfsSums == \A f, S : Fcfs!SumOver(f, S) = Total(f, S)
BY DEF Fcfs!SumOver, Fcfs!SumFunctionOnSet, Fcfs!FoldFunctionOnSet, Fcfs!MapThenFoldSet,
       Total, SumFunctionOnSet, FoldFunctionOnSet, MapThenFoldSet

(* From the order it follows where every PCB is.                           *)
LEMMA FcfsPlaces ==
  ASSUME FcfsTypes, FcfsOrder
  PROVE  /\ Len(ready_queue) \in 0 .. N /\ N \in Nat /\ Proc = 1 .. N
         /\ DOMAIN served = 1 .. Len(served)
         /\ \A p \in Proc : Nowhere(p) <=> p > Len(ready_queue)
         /\ QueueInv
<1> DEFINE n == Len(ready_queue)
<1>1. /\ N \in Nat /\ Proc = 1 .. N /\ ready_queue \in Seq(Proc) /\ n \in Nat
      /\ DOMAIN ready_queue = 1 .. n /\ DOMAIN served = 1 .. Len(served)
      /\ served \in Seq(Proc) /\ Len(served) \in Nat
  BY SchedulingConstants, LenProperties DEF Proc, FcfsTypes, SchedulingTypeOK
<1>2. \A k \in 1 .. n : ready_queue[k] = k
  BY DEF FcfsOrder
<1>3. IsInjective(ready_queue) /\ IsInjective(da)
  BY <1>1, <1>2, EmptySeq DEF IsInjective, FcfsOrder
<1>4. n \in 0 .. N
  BY <1>1, <1>3, FewEnough
<1>5. \A p \in Proc : Contains(ready_queue, p) <=> p <= n
  BY <1>1, <1>2, <1>4 DEF Contains
<1>6. \A p \in Proc : ~ Contains(da, p) /\ cpu # p
  BY <1>1, EmptySeq DEF FcfsOrder, Contains, NoProc
<1>7. \A p \in Proc : Nowhere(p) <=> p > n
  BY <1>1, <1>4, <1>5, <1>6 DEF Nowhere
<1>8. \A p \in Proc : remaining[p] = IF p <= n THEN burst[p] ELSE 0
  BY DEF FcfsOrder
<1>9. QueueInv
  <2>1. cpu = NoProc /\ arrival = arrives
    BY DEF FcfsOrder
  <2> QED BY <1>1, <1>3, <1>4, <1>5, <1>6, <1>7, <1>8, <2>1 DEF QueueInv
<1> QED BY <1>1, <1>4, <1>7, <1>9

(* The bursts of those who were served make up the clock.                  *)
LEMMA FcfsClock ==
  ASSUME FcfsTypes, FcfsOrder, ClockInv
  PROVE  /\ \A k \in 1 .. Len(served) + 1 :
              {served[l] : l \in 1 .. k - 1} = (N + 2 - k) .. N
         /\ rt = Fcfs!Start(Len(served) + 1) % WordMod
         /\ \A k \in 1 .. Len(served) + 1 :
              Fcfs!Start(k) = Total(burst, (N + 2 - k) .. N)
              /\ Summable(burst, (N + 2 - k) .. N) /\ Fcfs!Start(k) \in Int
<1> DEFINE n == Len(ready_queue)
<1>1. /\ n \in 0 .. N /\ N \in Nat /\ Proc = 1 .. N /\ Len(served) = N - n
      /\ \A k \in 1 .. Len(served) : served[k] = N + 1 - k
      /\ \A p \in Proc : remaining[p] = IF p <= n THEN burst[p] ELSE 0
  BY FcfsPlaces DEF FcfsOrder
<1>2. SchedulingTypeOK
  BY DEF FcfsTypes
<1>3. ASSUME NEW k \in 1 .. Len(served) + 1
      PROVE  {served[l] : l \in 1 .. k - 1} = (N + 2 - k) .. N
  <2> HIDE DEF n
  <2>1. \A l \in 1 .. k - 1 : served[l] = N + 1 - l /\ N + 1 - l \in (N + 2 - k) .. N
    BY <1>1
  <2>2. \A q \in (N + 2 - k) .. N : (N + 1 - q) \in 1 .. k - 1 /\ served[N + 1 - q] = q
    BY <1>1
  <2> DEFINE A == 1 .. k - 1
             B == (N + 2 - k) .. N
  <2>3. \A l \in A : served[l] \in B
    BY <2>1
  <2>4. \A q \in B : \E l \in A : served[l] = q
    BY <2>2
  <2> HIDE DEF A, B
  <2>5. {served[l] : l \in A} = B
    BY <2>3, <2>4
  <2> QED BY <2>5 DEF A, B
<1>4. ASSUME NEW k \in 1 .. Len(served) + 1
      PROVE  /\ Fcfs!Start(k) = Total(burst, (N + 2 - k) .. N)
             /\ Summable(burst, (N + 2 - k) .. N) /\ Fcfs!Start(k) \in Int
  <2>1. Fcfs!Start(k) = Total(burst, {served[l] : l \in 1 .. k - 1})
    BY FcfsSums DEF Fcfs!Start
  <2>2. Summable(burst, (N + 2 - k) .. N)
    <3>1. (N + 2 - k) .. N \subseteq Proc
      BY <1>1
    <3>2. Summable(burst, Proc)
      BY <1>2, Integral
    <3> QED BY <3>1, <3>2, FS_Subset DEF Summable
  <2>3. Total(burst, (N + 2 - k) .. N) \in Int
    BY <2>2, SumIsInt
  <2>4. {served[l] : l \in 1 .. k - 1} = (N + 2 - k) .. N
    BY <1>3
  <2>5. Fcfs!Start(k) = Total(burst, (N + 2 - k) .. N)
    BY <2>1, <2>4
  <2> QED BY <2>2, <2>3, <2>5
<1>5. rt = Fcfs!Start(Len(served) + 1) % WordMod
  <2> DEFINE T == (n + 1) .. N
  <2>1. Total(Ran, Proc) = Total(burst, T)
    <3>1. T \in SUBSET Proc
      BY <1>1
    <3>2. Summable(Ran, Proc) /\ Summable(burst, Proc)
      BY <1>2, Integral
    <3>3. Summable(burst, T)
      <4> HIDE DEF T
      <4> QED BY <3>1, <3>2, FS_Subset DEF Summable
    <3>4. \A p \in Proc : burst[p] \in Int
      BY <3>2 DEF Summable
    <3>5. \A p \in T : burst[p] = Ran[p]
      BY <1>1, <3>1, <3>4 DEF Ran
    <3>6. \A p \in Proc \ T : Ran[p] = 0
      BY <1>1, <3>4 DEF Ran
    <3> HIDE DEF T
    <3> QED BY <3>1, <3>2, <3>3, <3>5, <3>6, SumsEqual
  <2>2. Len(served) + 1 \in 1 .. Len(served) + 1 /\ N + 2 - (Len(served) + 1) = n + 1
    BY <1>1
  <2>3. Fcfs!Start(Len(served) + 1) = Total(burst, T)
    BY <1>4, <2>2
  <2> QED BY <2>1, <2>3 DEF ClockInv
<1> QED BY <1>3, <1>4, <1>5

LEMMA FcfsWords ==
  ASSUME NEW w \in Int, NEW t \in Int, NEW r \in Int, NEW a \in Int, NEW b \in Int
  PROVE  Minus(Plus((w + t) % WordMod, Plus(r, b)), a)
           = (Minus(Plus(w, r), a) + (t + b)) % WordMod
<1> DEFINE W == WordMod
           c == -a
           x == (w + t) % W
           y == (r + b) % W
           v == ((w + r) % W) - a
           ww == v % W
<1>1. /\ c \in Int /\ x \in Int /\ y \in Int
      /\ \A q \in Int : (x + q) % W = ((w + t) + q) % W
      /\ \A q \in Int : (y + q) % W = ((r + b) + q) % W
      /\ \A q \in Int : (((w + r) % W) + q) % W = ((w + r) + q) % W
      /\ (w + r) % W \in Int
  BY Reduced
<1>2. v \in Int /\ v = ((w + r) % W) + c
  BY <1>1
<1>3. \A q \in Int : (ww + q) % W = (v + q) % W
  BY <1>2, Reduced
<1>4. (((x + y) % W) + c) % W = ((x + y) + c) % W /\ (x + y) % W \in Int
  <2>1. x + y \in Int
    BY <1>1
  <2> HIDE DEF x, y, c
  <2> QED BY <1>1, <2>1, Reduced
<1> HIDE DEF c, x, y, ww
<1>5. (((x + y) % W) - a) % W = ((x + y) + c) % W
  <2>1. ((x + y) % W) - a = ((x + y) % W) + c
    BY <1>4 DEF c
  <2> QED BY <1>4, <2>1
<1>6. ((x + y) + c) % W = ((w + t) + (y + c)) % W
  <2>1. (x + y) + c = x + (y + c) /\ y + c \in Int
    BY <1>1
  <2> QED BY <1>1, <2>1
<1>7. ((w + t) + (y + c)) % W = ((r + b) + (w + t + c)) % W
  <2>1. (w + t) + (y + c) = y + (w + t + c) /\ w + t + c \in Int
    BY <1>1
  <2> QED BY <1>1, <2>1
<1>8. (ww + (t + b)) % W = ((w + r) + (c + (t + b))) % W
  <2>1. t + b \in Int /\ c + (t + b) \in Int
    BY <1>1
  <2>2. v + (t + b) = ((w + r) % W) + (c + (t + b))
    BY <1>1, <1>2, <2>1
  <2> HIDE DEF v
  <2> QED BY <1>1, <1>3, <2>1, <2>2
<1>9. (w + r) + (c + (t + b)) = (r + b) + (w + t + c)
  BY <1>1
<1>10. (((x + y) % W) - a) % W = (ww + (t + b)) % W
  BY <1>5, <1>6, <1>7, <1>8, <1>9
<1> QED BY <1>10 DEF Plus, Minus, x, y, ww

LEMMA FcfsWaitWords ==
  ASSUME NEW w \in Int, NEW s \in Int, NEW a \in Int
  PROVE  Minus(Plus(w % WordMod, s % WordMod), a) = ((s - a) + w) % WordMod
<1> DEFINE W == WordMod
           c == -a
           x == w % W
           r == s % W
<1>1. c \in Int /\ s + w \in Int
  OBVIOUS
<1>2. x \in Int /\ r \in Int /\ \A q \in Int :
        (x + q) % W = (w + q) % W /\ (q + r) % W = (s + q) % W
  BY Reduced
<1>3. (x + r) % W = (s + w) % W
  <2> HIDE DEF x, r
  <2> QED BY <1>2
<1>4. ((s + w) % W) \in Int /\ (((s + w) % W) + c) % W = ((s + w) + c) % W
  BY <1>1, Reduced
<1>5. ((s + w) % W) - a = ((s + w) % W) + c /\ (s + w) + c = (s - a) + w
  BY <1>4
<1>6. (((x + r) % W) - a) % W = ((s - a) + w) % W
  <2> HIDE DEF x, r, c
  <2> QED BY <1>3, <1>4, <1>5
<1> QED BY <1>6 DEF Plus, Minus

(* A queue of the first m processes in order holds just them.              *)
LEMMA Prefix ==
  ASSUME NEW m \in 0 .. N, NEW s, Len(s) = m, \A k \in 1 .. m : s[k] = k
  PROVE  \A p \in Proc : Contains(s, p) <=> p <= m
BY SchedulingConstants DEF Contains, Proc

LEMMA FcfsServeStep ==
  ASSUME FcfsInv, Fcfs!Serve
  PROVE  FcfsInv'
<1>0. PICK n, L : n = Len(ready_queue) /\ L = Len(served)
  OBVIOUS
<1> DEFINE b == burst[n]
           a == arrives[n]
<1>1. /\ pc = "loop" /\ ready_queue # <<>>
      /\ rt' = Plus(rt, remaining[Last(ready_queue)])
      /\ wait' = Minus(Plus(wait, rt), arrival[Last(ready_queue)])
      /\ turnaround' = Minus(Plus(turnaround, rt'), arrival[Last(ready_queue)])
      /\ remaining' = [remaining EXCEPT ![Last(ready_queue)] = 0]
      /\ served' = Append(served, Last(ready_queue))
      /\ ready_queue' = Front(ready_queue)
      /\ UNCHANGED <<pc, da, cpu, arrival, burst, arrives>>
  BY DEF Fcfs!Serve, Fcfs!WaitWith, Fcfs!Plus, Plus, Fcfs!Minus, Minus, Fcfs!Last, Last,
         Fcfs!Front, Front, Fcfs!given
<1>2. /\ FcfsTypes /\ FcfsOrder /\ SchedulingTypeOK /\ QueueInv /\ n \in 1 .. N /\ N \in Nat
      /\ Proc = 1 .. N /\ L = N - n /\ L \in Nat /\ served \in Seq(Proc)
      /\ ready_queue \in Seq(Proc) /\ DOMAIN served = 1 .. L
  <2>1. FcfsTypes /\ FcfsOrder /\ SchedulingTypeOK /\ ready_queue \in Seq(Proc)
        /\ served \in Seq(Proc)
    BY DEF FcfsInv, FcfsTypes, SchedulingTypeOK
  <2>2. n > 0
    BY <1>0, <1>1, <2>1, NotEmpty
  <2> QED BY <1>0, <2>1, <2>2, FcfsPlaces DEF FcfsOrder
<1>3. /\ n \in Proc /\ Last(ready_queue) = n /\ remaining[n] = b /\ arrival[n] = a
      /\ ready_queue' \in Seq(Proc) /\ Len(ready_queue') = n - 1
      /\ \A k \in 1 .. n - 1 : ready_queue'[k] = k
  <2>1. /\ ready_queue' \in Seq(Proc) /\ Len(ready_queue') = n - 1
        /\ \A k \in 1 .. n - 1 : ready_queue'[k] = ready_queue[k]
    BY <1>0, <1>1, <1>2, FrontKeeps DEF QueueInv
  <2>2. Last(ready_queue) = ready_queue[n]
    BY <1>0 DEF Last
  <2> QED BY <1>0, <1>2, <2>1, <2>2 DEF FcfsOrder
<1>4. /\ rt \in Int /\ wait \in Int /\ turnaround \in Int /\ a \in Int /\ b \in Int
      /\ Plus(rt, b) \in Int /\ Plus(wait, rt) \in Int /\ b \in Word
  BY <1>2, <1>3, Integral, Words DEF SchedulingTypeOK
<1>5. /\ served' \in Seq(Proc) /\ Len(served') = L + 1 /\ served'[L + 1] = n
      /\ \A k \in 1 .. L : served'[k] = served[k]
  <2>1. served' = Append(served, n) /\ n \in Proc /\ served \in Seq(Proc)
    BY <1>1, <1>2, <1>3
  <2> QED BY ONLY <1>0, <2>1, AppendKeeps
<1>6. FcfsTypes'
  <2>1. rt' \in Word /\ wait' \in Word /\ turnaround' \in Word
    <3>1. /\ rt' = Plus(rt, b) /\ wait' = Minus(Plus(wait, rt), a)
          /\ turnaround' = Minus(Plus(turnaround, rt'), a)
      BY <1>1, <1>3
    <3> HIDE DEF a, b
    <3>2. Word \subseteq Int
      BY <1>2, Integral
    <3>3. rt' \in Word /\ rt' \in Int
      BY <1>4, <3>1, <3>2, Words
    <3>4. Plus(turnaround, rt') \in Int
      BY <1>4, <3>2, <3>3, Words
    <3>5. wait' \in Word /\ turnaround' \in Word
      BY <1>4, <3>1, <3>4, Words
    <3> QED BY <3>3, <3>5
  <2>2. remaining' \in [Proc -> Word]
    <3>1. 0 \in Word
      BY SchedulingConstants DEF Word
    <3> QED BY <1>1, <1>2, <1>3, <3>1 DEF SchedulingTypeOK
  <2> QED BY <1>1, <1>2, <1>3, <1>5, <2>1, <2>2 DEF FcfsTypes, SchedulingTypeOK
<1>7. FcfsOrder'
  <2>1. /\ da = <<>> /\ cpu = NoProc /\ arrival = arrives
        /\ \A k \in 1 .. L : served[k] = N + 1 - k
        /\ \A p \in Proc : remaining[p] = IF p <= n THEN burst[p] ELSE 0
    BY <1>0, <1>2 DEF FcfsOrder
  <2>2. \A k \in 1 .. Len(served') : served'[k] = N + 1 - k
    <3> SUFFICES ASSUME NEW k \in 1 .. L + 1 PROVE served'[k] = N + 1 - k
      BY <1>5
    <3>1. CASE k = L + 1
      BY <1>2, <1>5, <3>1
    <3>2. CASE k # L + 1
      <4>1. k \in 1 .. L
        BY <1>2, <3>2
      <4> QED BY <1>5, <2>1, <4>1
    <3> QED BY <3>1, <3>2
  <2>3. \A p \in Proc : remaining'[p] = IF p <= n - 1 THEN burst[p] ELSE 0
    <3>1. remaining \in [Proc -> Word]
      BY <1>2 DEF SchedulingTypeOK
    <3> QED BY <1>1, <1>2, <1>3, <2>1, <3>1
  <2>4. Len(served') = N - Len(ready_queue')
    BY <1>2, <1>3, <1>5
  <2> QED BY <1>1, <1>3, <2>1, <2>2, <2>3, <2>4 DEF FcfsOrder
<1>8. ClockInv' /\ Total(Ran', Proc) = Total(Ran, Proc) + b
  <2>1. remaining' = [remaining EXCEPT ![n] = @ - b]
    <3>1. remaining[n] - b = 0
      BY <1>3, <1>4
    <3> QED BY <1>1, <1>3, <3>1
  <2>2. b \in 0 .. remaining[n]
    BY <1>3, <1>4 DEF Word
  <2>3. ClockInv /\ rt' = Plus(rt, b)
    BY <1>1, <1>3 DEF FcfsInv
  <2> HIDE DEF b
  <2> QED BY <1>1, <1>2, <1>3, <2>1, <2>2, <2>3, RunClock
<1>9. SumInv'
  <2> DEFINE f == Delayed
             g == Delayed'
             t == Total(f, Proc)
             u == Total(g, Proc)
  <2>1. /\ \A p \in Proc : Nowhere(p) <=> p > n
        /\ \A p \in Proc : Nowhere(p)' <=> p > n - 1
    <3>1. \A p \in Proc : Nowhere(p) <=> p > n
      BY <1>0, <1>2, FcfsPlaces
    <3>2. n - 1 \in 0 .. N /\ \A p \in Proc : p # NoProc
      BY <1>2 DEF NoProc
    <3>3. \A p \in Proc : Contains(ready_queue', p) <=> p <= n - 1
      BY <1>3, <3>2, Prefix
    <3>4. da' = <<>> /\ cpu' = NoProc
      BY <1>1, <1>2 DEF FcfsOrder
    <3>5. \A p \in Proc : Nowhere(p)' <=> ~ Contains(ready_queue', p)
      BY <3>2, <3>4, EmptySeq DEF Nowhere, Contains
    <3> QED BY <1>2, <3>1, <3>3, <3>5
  <2>2. \A p \in Proc : p <= n => remaining[p] = burst[p] /\ arrival[p] = arrives[p]
    BY <1>0, <1>2 DEF FcfsOrder
  <2>3. g[n] = b /\ f[n] = 0
    <3>1. Nowhere(n)' /\ ~ Nowhere(n)
      BY <1>2, <1>3, <2>1
    <3>2. burst'[n] = b
      BY <1>1
    <3> QED BY <1>3, <1>4, <3>1, <3>2 DEF Delayed
  <2>4. \A p \in Proc \ {n} : g[p] = f[p]
    <3> SUFFICES ASSUME NEW p \in Proc \ {n} PROVE g[p] = f[p]
      OBVIOUS
    <3>1. remaining'[p] = remaining[p] /\ arrival'[p] = arrival[p]
          /\ burst'[p] = burst[p] /\ arrives'[p] = arrives[p]
      BY <1>1, <1>2, <1>3 DEF SchedulingTypeOK
    <3>2. Nowhere(p)' <=> Nowhere(p)
      BY <1>2, <2>1
    <3> QED BY <3>1, <3>2 DEF Delayed
  <2>5. Summable(f, Proc) /\ t \in Int
    BY <1>2, Integral
  <2> HIDE DEF f, g
  <2>6. g[n] = f[n] + b /\ n \in Proc /\ b \in Int
    BY <1>3, <1>4, <2>3
  <2>7. u = t + b
    <3> HIDE DEF b
    <3> QED BY ONLY <2>4, <2>5, <2>6, SumChange
  <2>8. /\ turnaround = (wait + t) % WordMod
        /\ wait' = Minus(Plus(wait, rt), a)
        /\ turnaround' = Minus(Plus(turnaround, Plus(rt, b)), a)
    BY <1>1, <1>3 DEF FcfsInv, SumInv, t, f
  <2> HIDE DEF t, u, a, b
  <2>9. turnaround' = (wait' + u) % WordMod
    <3>1. Minus(Plus((wait + t) % WordMod, Plus(rt, b)), a)
            = (Minus(Plus(wait, rt), a) + (t + b)) % WordMod
      BY ONLY <1>4, <2>5, FcfsWords
    <3> QED BY ONLY <2>7, <2>8, <3>1
  <2> QED BY <2>9 DEF SumInv, u, g
<1>10. WaitInv'
  <2> DEFINE f == Waits
             g == Waits'
             D == 1 .. L
             E == 1 .. L + 1
             s == Fcfs!Start(L + 1)
  <2>1. /\ rt = s % WordMod
        /\ \A k \in 1 .. L + 1 : Fcfs!Start(k) = Total(burst, (N + 2 - k) .. N) /\ Fcfs!Start(k) \in Int
    BY <1>0, <1>2, FcfsClock DEF FcfsInv
  <2>2. \A k \in 1 .. L + 1 : Fcfs!Start(k)' = Fcfs!Start(k)
    <3> SUFFICES ASSUME NEW k \in 1 .. L + 1 PROVE Fcfs!Start(k)' = Fcfs!Start(k)
      OBVIOUS
    <3>1. \A l \in 1 .. k - 1 : served'[l] = served[l]
      <4>1. \A l \in 1 .. k - 1 : l \in 1 .. L
        BY <1>2
      <4> QED BY <1>5, <4>1
    <3>2. {served'[l] : l \in 1 .. k - 1} = {served[l] : l \in 1 .. k - 1}
      BY <3>1
    <3>3. Fcfs!Start(k)' = Fcfs!SumOver(burst', {served'[l] : l \in 1 .. k - 1})
      BY DEF Fcfs!Start
    <3> QED BY <1>1, <3>2, <3>3 DEF Fcfs!Start
  <2>3. DOMAIN served' = E
    BY <1>5, LenProperties
  <2>4. /\ \A k \in D : g[k] = f[k] /\ f[k] \in Int
        /\ g[L + 1] = s - a
    <3>1. \A k \in D : k \in E /\ served[k] \in Proc
      BY <1>2, ElementOfSeq
    <3>2. L + 1 \in E
      BY <1>2
    <3>3. \A k \in E : g[k] = Fcfs!Start(k)' - arrives'[served'[k]]
      BY <2>3 DEF Waits
    <3>4. \A k \in D : f[k] = Fcfs!Start(k) - arrives[served[k]]
      BY <1>2 DEF Waits
    <3>5. \A p \in Proc : arrives[p] \in Int
      BY <1>2, Integral
    <3>6. arrives' = arrives
      BY <1>1
    <3>7. ASSUME NEW k \in D PROVE g[k] = f[k] /\ f[k] \in Int
      <4>1. served'[k] = served[k] /\ served[k] \in Proc /\ k \in E
        BY <1>5, <3>1
      <4>2. Fcfs!Start(k)' = Fcfs!Start(k) /\ Fcfs!Start(k) \in Int
        BY <2>1, <2>2, <4>1
      <4>3. g[k] = Fcfs!Start(k)' - arrives'[served'[k]]
        BY <3>3, <4>1
      <4>4. f[k] = Fcfs!Start(k) - arrives[served[k]]
        BY <3>4
      <4> HIDE DEF f, g
      <4> QED BY <3>5, <3>6, <4>1, <4>2, <4>3, <4>4
    <3>8. g[L + 1] = s - a
      <4>1. Fcfs!Start(L + 1)' = Fcfs!Start(L + 1)
        BY <2>2, <3>2
      <4>2. g[L + 1] = Fcfs!Start(L + 1)' - arrives'[served'[L + 1]]
        BY <3>2, <3>3
      <4> QED BY <1>5, <3>6, <4>1, <4>2
    <3> QED BY <3>7, <3>8
  <2>5. Total(g, E) = (s - a) + Total(f, D) /\ Total(f, D) \in Int
    <3>1. IsFiniteSet(D) /\ IsFiniteSet(E)
      BY <1>2, IntervalSize
    <3>2. L + 1 \in E /\ E \ {L + 1} = D
      BY <1>2
    <3>3. s \in Int /\ s - a \in Int
      BY <1>2, <1>4, <2>1
    <3>4. \A k \in E : g[k] \in Int
      <4>1. \A k \in E : k \in D \/ k = L + 1
        BY <3>2
      <4> HIDE DEF D, E
      <4> QED BY <2>4, <3>3, <4>1
    <3> HIDE DEF D, E, f, g
    <3>5. Summable(g, E) /\ Summable(f, D) /\ Summable(g, D)
      BY <2>4, <3>1, <3>2, <3>4 DEF Summable
    <3>6. Total(g, E) = g[L + 1] + Total(g, D)
      BY ONLY <3>2, <3>5, SumWithout
    <3>7. Total(g, D) = Total(f, D)
      <4>1. D \in SUBSET D /\ \A k \in D \ D : g[k] = 0
        OBVIOUS
      <4> QED BY ONLY <2>4, <3>5, <4>1, SumsEqual
    <3> QED BY <2>4, <3>5, <3>6, <3>7, SumIsInt
  <2> DEFINE w == Total(f, D)
  <2>6. /\ wait = w % WordMod
        /\ wait' = Minus(Plus(wait, rt), a)
    BY <1>1, <1>2, <1>3 DEF FcfsInv, WaitInv
  <2>7. s \in Int /\ w \in Int
    BY <1>2, <2>1, <2>5
  <2>8. wait' = ((s - a) + w) % WordMod
    <3> HIDE DEF s, w, a
    <3>1. Minus(Plus(w % WordMod, s % WordMod), a) = ((s - a) + w) % WordMod
      BY <1>4, <2>7, FcfsWaitWords
    <3> QED BY <2>1, <2>6, <3>1
  <2> QED BY <2>3, <2>5, <2>8 DEF WaitInv
<1> QED BY <1>6, <1>7, <1>8, <1>9, <1>10 DEF FcfsInv

LEMMA FcfsReturnStep ==
  ASSUME FcfsInv, Fcfs!Return
  PROVE  FcfsInv'
<1>1. /\ pc = "loop" /\ ready_queue = <<>> /\ pc' = "done"
      /\ UNCHANGED <<ready_queue, da, cpu, remaining, arrival, rt, wait, turnaround, burst,
                     arrives, served>>
  BY DEF Fcfs!Return, Fcfs!pcbVars, Fcfs!sums, Fcfs!given
<1>2. \A k : Fcfs!Start(k)' = Fcfs!Start(k)
  BY <1>1 DEF Fcfs!Start
<1>3. Waits' = Waits
  BY <1>1, <1>2 DEF Waits
<1>4. Delayed' = Delayed /\ Ran' = Ran
  BY <1>1 DEF Delayed, Ran, Nowhere
<1>5. FcfsTypes' /\ FcfsOrder'
  BY <1>1 DEF FcfsInv, FcfsTypes, SchedulingTypeOK, FcfsOrder
<1> QED BY <1>1, <1>3, <1>4, <1>5 DEF FcfsInv, SumInv, ClockInv, WaitInv

LEMMA FcfsBegins ==
  ASSUME Init, policy = "F"
  PROVE  FcfsInv
<1>1. /\ pc = "loop" /\ da = <<>> /\ cpu = NoProc /\ served = <<>> /\ wait = 0
      /\ remaining = burst /\ arrival = arrives
  BY DEF Init, Entry, SchedulingInit
<1>2. /\ SchedulingTypeOK /\ SumInv /\ ClockInv /\ Len(ready_queue) = N
      /\ \A k \in Proc : ready_queue[k] = k
      /\ N \in Nat /\ Proc = 1 .. N /\ WordMod \in Nat \ {0}
  BY Begin, SchedulingConstants DEF Proc
<1>3. served \in Seq(Proc) /\ Len(served) = 0 /\ DOMAIN served = {}
  BY <1>1, EmptySeq, LenProperties
<1>4. FcfsTypes /\ FcfsOrder
  BY <1>1, <1>2, <1>3 DEF FcfsTypes, FcfsOrder
<1>5. WaitInv
  <2>1. Total(Waits, {}) = 0 /\ 0 % WordMod = 0
    BY <1>2, SumOfNone
  <2> QED BY <1>1, <1>3, <2>1 DEF WaitInv
<1> QED BY <1>2, <1>4, <1>5 DEF FcfsInv

LEMMA FcfsSteps ==
  ASSUME FcfsInv, policy = "F", Next
  PROVE  FcfsInv'
<1>1. Fcfs!Next
  BY DEF Next, first_come_first_serve, shortest_remaining_time_first, round_robin,
         shortest_job_first
<1> QED BY <1>1, FcfsServeStep, FcfsReturnStep DEF Fcfs!Next

(* At the end all were served, in order, and the sum is the sum of waits.  *)
LEMMA FcfsEnd ==
  ASSUME FcfsInv, pc = "done"
  PROVE  /\ Len(served) = N /\ ToSet(served) = Proc /\ N \in Nat
         /\ \A k \in 1 .. N : served[k] = N + 1 - k /\ served[k] \in Proc
         /\ rt = Total(burst, Proc) % WordMod
         /\ \A p \in Proc : Nowhere(p)
<1>1. /\ FcfsTypes /\ FcfsOrder /\ SchedulingTypeOK /\ ClockInv
  BY DEF FcfsInv, FcfsTypes
<1>2. /\ Len(ready_queue) = 0 /\ Len(served) = N /\ N \in Nat /\ Proc = 1 .. N
      /\ DOMAIN served = 1 .. N /\ \A p \in Proc : Nowhere(p)
      /\ \A k \in 1 .. N : served[k] = N + 1 - k
  <2>1. ready_queue = <<>>
    BY <1>1 DEF FcfsOrder
  <2>2. Len(ready_queue) = 0
    BY <2>1
  <2> QED BY <1>1, <2>2, FcfsPlaces DEF FcfsOrder
<1>3. \A k \in 1 .. N : N + 1 - k \in 1 .. N /\ served[N + 1 - k] = k
  BY <1>2
<1>4. ToSet(served) = Proc
  <2>1. \A k \in DOMAIN served : served[k] \in Proc
    BY <1>2
  <2>2. \A p \in Proc : \E k \in DOMAIN served : served[k] = p
    BY <1>2, <1>3
  <2> QED BY <2>1, <2>2 DEF ToSet
<1>5. Total(Ran, Proc) = Total(burst, Proc)
  <2>1. Summable(Ran, Proc) /\ Summable(burst, Proc)
    BY <1>1, Integral
  <2>2. \A p \in Proc : burst[p] = Ran[p]
    <3>1. \A p \in Proc : remaining[p] = 0
      BY <1>1, <1>2 DEF FcfsOrder
    <3>2. \A p \in Proc : burst[p] \in Int
      BY <2>1 DEF Summable
    <3> QED BY <3>1, <3>2 DEF Ran
  <2> QED BY <2>1, <2>2, SumsEqual
<1> QED BY <1>1, <1>2, <1>4, <1>5 DEF ClockInv

-----------------------------------------------------------------------------
(* Shortest job first.                                                     *)
SjfTypes ==
  /\ SchedulingTypeOK
  /\ pc \in {"collect", "drain", "done"}
  /\ i \in 1 .. N + 1 /\ j \in 1 .. N + 1
  /\ started \in [Proc -> BOOLEAN]
  /\ sum \in Int
  /\ batch \subseteq Proc
  /\ marked \subseteq Proc

(* What was pushed is in da with its burst before it, or has run to its    *)
(* end; the caller's array stays as it is, and who came with started set   *)
(* keeps it set.                                                           *)
Pushed(p) == started[p] /\ p \notin marked
SjfPlaces ==
  /\ cpu = NoProc /\ arrival = arrives
  /\ Len(ready_queue) = N /\ \A k \in Proc : ready_queue[k] = k
  /\ IsInjective(da)
  /\ \A p \in Proc : Contains(da, p) => Pushed(p)
  /\ \A p \in Proc : remaining[p] = IF Pushed(p) /\ ~ Contains(da, p) THEN 0 ELSE burst[p]
  /\ \A q \in batch : Pushed(q)
  /\ \A p \in marked : started[p]

SjfControl ==
  /\ pc = "collect" /\ (i > N \/ j = 1) => da = <<>>
  /\ pc = "drain" => i <= N
  /\ pc = "done" => da = <<>> /\ i > N

SjfSums == turnaround = (wait + Total(Ran, Proc)) % WordMod

SjfSorted ==
  pc = "drain" =>
    \A k, l \in 1 .. Len(da) : k < l => remaining[da[k]] >= remaining[da[l]]

(* Either the rest is still to come, or each turn of the outer loop has    *)
(* started one: N turns are enough.  Who came with the field set counts as *)
(* started from the beginning.                                             *)
Started == {p \in Proc : started[p]}
Idle == \A p \in Proc : ~ started[p] => arrives[p] > rt
SjfProgress ==
  /\ pc = "collect" =>
       \/ Idle /\ da = <<>>
       \/ /\ Cardinality(Started) >= i - 1
          /\ da # <<>> => Cardinality(Started) >= i
          /\ da = <<>> => \A p \in Proc : p < j => started[p] \/ arrives[p] > rt
  /\ pc = "drain" => Cardinality(Started) >= i
  /\ pc = "done" => Idle

SjfInv ==
  /\ SjfTypes /\ SjfPlaces /\ SjfControl /\ SjfSums /\ ClockInv /\ SjfSorted
  /\ SjfProgress

LEMMA SjfOrders ==
  \A S : Sjf!SetToSeqs(S) = SetToSeqs(S)
<1>1. \A S : Sjf!Cardinality(S) = Cardinality(S)
  BY DEF Sjf!Cardinality, Cardinality, Sjf!IsFiniteSet, IsFiniteSet
<1> QED BY <1>1 DEF Sjf!SetToSeqs, SetToSeqs

LEMMA SjfSorts ==
  ASSUME NEW s, NEW t \in Sjf!SortedByBurst(s)
  PROVE  /\ t \in SetToSeqs(ToSet(s))
         /\ \A k, l \in 1 .. Len(t) : k < l => remaining[t[k]] >= remaining[t[l]]
<1>1. Sjf!ToSet(s) = ToSet(s)
  BY DEF Sjf!ToSet, ToSet
<1>2. Sjf!SetToSeqs(ToSet(s)) = SetToSeqs(ToSet(s))
  BY SjfOrders
<1> QED BY <1>1, <1>2 DEF Sjf!SortedByBurst, Sjf!IsSorted

(* Steps of the loop on j at a process that is not ready, of the outer     *)
(* loop, and back from the draining of da.                                 *)
LEMMA SjfCollectStep ==
  ASSUME SjfInv, Sjf!Collect
  PROVE  SjfInv'
<1>0. PICK p : p = ready_queue[j]
  OBVIOUS
<1>1. /\ pc = "collect" /\ i <= N /\ j <= N /\ j' = j + 1
      /\ IF arrival[p] <= rt /\ ~ started[p]
         THEN /\ da' = Append(da, p)
              /\ started' = [started EXCEPT ![p] = TRUE]
              /\ sum' = sum + arrival[p]
              /\ batch' = batch \cup {p}
         ELSE UNCHANGED <<da, started, sum, batch>>
      /\ UNCHANGED <<pc, ready_queue, cpu, remaining, arrival, rt, wait, turnaround,
                     burst, arrives, i, marked>>
  BY <1>0 DEF Sjf!Collect, Sjf!Ready, Sjf!sums, Sjf!given
<1>2. /\ SjfTypes /\ SjfPlaces /\ SjfControl /\ SjfProgress /\ SchedulingTypeOK
      /\ N \in Nat /\ Proc = 1 .. N /\ i \in 1 .. N /\ j \in 1 .. N /\ p = j
      /\ da \in Seq(Proc) /\ started \in [Proc -> BOOLEAN] /\ batch \subseteq Proc
      /\ arrival = arrives /\ sum \in Int
  <2>1. /\ SjfTypes /\ SjfPlaces /\ SjfControl /\ SjfProgress /\ SchedulingTypeOK
        /\ N \in Nat /\ Proc = 1 .. N
    BY SchedulingConstants DEF SjfInv, SjfTypes, Proc
  <2>2. i \in 1 .. N /\ j \in 1 .. N
    BY <1>1, <2>1 DEF SjfTypes
  <2> QED BY <1>0, <2>1, <2>2 DEF SjfTypes, SjfPlaces, SchedulingTypeOK
<1>3. /\ arrives[p] \in Int /\ rt \in Int
  BY <1>2, Integral DEF SchedulingTypeOK
<1>4. SjfSums' /\ ClockInv'
  <2>1. Ran' = Ran
    BY <1>1 DEF Ran
  <2> QED BY <1>1, <2>1 DEF SjfInv, SjfSums, ClockInv
<1>5. CASE arrival[p] <= rt /\ ~ started[p]
  <2>1. /\ da' = Append(da, p) /\ started' = [started EXCEPT ![p] = TRUE]
        /\ sum' = sum + arrival[p] /\ batch' = batch \cup {p}
    BY <1>1, <1>5
  <2>2. ~ Contains(da, p) /\ IsInjective(da) /\ p \in Proc
    BY <1>2, <1>5 DEF SjfPlaces, Pushed
  <2>3. /\ da' \in Seq(Proc) /\ IsInjective(da') /\ da' # <<>>
        /\ \A x : Contains(da', x) <=> Contains(da, x) \/ x = p
    <3>1. /\ da' \in Seq(Proc) /\ IsInjective(da') /\ Len(da') = Len(da) + 1
          /\ \A x : Contains(da', x) <=> Contains(da, x) \/ x = p
      BY <1>2, <2>1, <2>2, AppendKeeps
    <3>2. da' # <<>>
      BY <1>2, <3>1, NotEmpty, LenProperties
    <3> QED BY <3>1, <3>2
  <2>4. SjfTypes'
    <3>1. j + 1 \in 1 .. N + 1
      BY <1>2
    <3>2. sum' \in Int
      BY <1>2, <1>3, <2>1
    <3>3. started' \in [Proc -> BOOLEAN] /\ batch' \subseteq Proc
      BY <1>2, <2>1, <2>2
    <3> QED BY <1>1, <1>2, <2>3, <3>1, <3>2, <3>3 DEF SjfTypes, SchedulingTypeOK
  <2>5. SjfPlaces'
    <3>1. \A q \in Proc : started'[q] <=> started[q] \/ q = p
      BY <1>2, <2>1, <2>2
    <3>2. marked' = marked /\ p \notin marked
      BY <1>1, <1>2, <1>5 DEF SjfPlaces
    <3>3. \A q \in Proc : Pushed(q)' <=> Pushed(q) \/ q = p
      BY <3>1, <3>2, <2>2 DEF Pushed
    <3>4. \A q \in marked' : started'[q]
      BY <1>2, <3>1, <3>2 DEF SjfPlaces, SjfTypes
    <3>5. \A q \in batch' : Pushed(q)'
      BY <1>2, <2>1, <2>2, <3>3 DEF SjfPlaces
    <3>6. \A q \in Proc : Contains(da', q) => Pushed(q)'
      BY <1>2, <2>3, <3>3 DEF SjfPlaces
    <3>7. \A q \in Proc : remaining'[q] = IF Pushed(q)' /\ ~ Contains(da', q) THEN 0 ELSE burst'[q]
      <4> SUFFICES ASSUME NEW q \in Proc
                   PROVE  remaining'[q] = IF Pushed(q)' /\ ~ Contains(da', q) THEN 0 ELSE burst'[q]
        OBVIOUS
      <4>1. ~ Pushed(p)
        BY <1>5 DEF Pushed
      <4>2. remaining[q] = IF Pushed(q) /\ ~ Contains(da, q) THEN 0 ELSE burst[q]
        BY <1>2 DEF SjfPlaces
      <4>3. UNCHANGED <<remaining, burst>>
        BY <1>1
      <4> QED BY <2>2, <2>3, <3>3, <4>1, <4>2, <4>3
    <3> QED BY <1>1, <1>2, <2>3, <3>4, <3>5, <3>6, <3>7 DEF SjfPlaces
  <2>6. SjfControl' /\ SjfSorted'
    BY <1>1, <1>2 DEF SjfControl, SjfSorted
  <2>7. Cardinality(Started') = Cardinality(Started) + 1 /\ Cardinality(Started) \in Nat
    <3>1. IsFiniteSet(Started)
      <4>1. IsFiniteSet(Proc) /\ Started \in SUBSET Proc
        BY <1>2, Integral DEF Started
      <4> QED BY <4>1, FS_Subset
    <3>2. Started' = Started \cup {p} /\ p \notin Started
      BY <1>2, <1>5, <2>1, <2>2 DEF Started
    <3> QED BY <3>1, <3>2, FS_AddElement, FS_CardinalityType
  <2>8. ~ Idle
    BY <1>2, <1>3, <1>5, <2>2 DEF Idle
  <2>9. Cardinality(Started) >= i - 1
    BY <1>1, <1>2, <2>8 DEF SjfProgress
  <2>10. SjfProgress'
    <3>1. Cardinality(Started)' >= i - 1 /\ Cardinality(Started)' >= i
      BY <1>2, <2>7, <2>9
    <3> QED BY <1>1, <2>3, <3>1 DEF SjfProgress
  <2> QED BY <1>4, <2>4, <2>5, <2>6, <2>10 DEF SjfInv
<1>6. CASE ~ (arrival[p] <= rt /\ ~ started[p])
  <2>1. UNCHANGED <<da, started, sum, batch, marked>>
    BY <1>1, <1>6
  <2>2. SjfTypes' /\ SjfPlaces'
    <3>1. j + 1 \in 1 .. N + 1
      BY <1>2
    <3> QED BY <1>1, <1>2, <2>1, <3>1 DEF SjfTypes, SjfPlaces, Pushed, SchedulingTypeOK
  <2>3. SjfControl' /\ SjfSorted'
    BY <1>1, <1>2 DEF SjfControl, SjfSorted
  <2>4. SjfProgress'
    <3>1. Idle' = Idle /\ Cardinality(Started)' = Cardinality(Started)
      BY <1>1, <2>1 DEF Idle, Started
    <3>2. started[p] \/ arrives[p] > rt
      BY <1>2, <1>3, <1>6
    <3>3. \A q \in Proc : q < j + 1 => q < j \/ q = p
      BY <1>2
    <3> QED BY <1>1, <1>2, <2>1, <3>1, <3>2, <3>3 DEF SjfProgress
  <2> QED BY <1>4, <2>2, <2>3, <2>4 DEF SjfInv
<1> QED BY <1>5, <1>6

LEMMA SjfSortStep ==
  ASSUME SjfInv, Sjf!Sort
  PROVE  SjfInv'
<1>1. /\ pc = "collect" /\ i <= N /\ j > N /\ da # <<>> /\ pc' = "drain"
      /\ da' \in SetToSeqs(ToSet(da))
      /\ \A k, l \in 1 .. Len(da') : k < l => remaining[da'[k]] >= remaining[da'[l]]
      /\ UNCHANGED <<ready_queue, cpu, remaining, arrival, rt, wait, turnaround, burst,
                     arrives, i, j, started, sum, batch, marked>>
  <2>1. da' \in Sjf!SortedByBurst(da)
    BY DEF Sjf!Sort
  <2> QED BY <2>1, SjfSorts DEF Sjf!Sort, Sjf!sums, Sjf!given
<1>2. /\ SjfTypes /\ SjfPlaces /\ SjfProgress /\ da \in Seq(Proc) /\ IsInjective(da)
      /\ N \in Nat
  BY SchedulingConstants DEF SjfInv, SjfTypes, SchedulingTypeOK, SjfPlaces
<1>3. da' \in Seq(Proc) /\ IsInjective(da') /\ \A x : Contains(da', x) <=> Contains(da, x)
  BY <1>1, <1>2, SortKeeps
<1>4. SjfTypes' /\ SjfPlaces'
  BY <1>1, <1>2, <1>3 DEF SjfTypes, SchedulingTypeOK, SjfPlaces, Pushed
<1>5. SjfSums' /\ ClockInv'
  <2>1. Ran' = Ran
    BY <1>1 DEF Ran
  <2> QED BY <1>1, <2>1 DEF SjfInv, SjfSums, ClockInv
<1>6. SjfControl' /\ SjfSorted'
  BY <1>1 DEF SjfControl, SjfSorted
<1>7. SjfProgress'
  <2>1. Cardinality(Started)' = Cardinality(Started)
    BY <1>1 DEF Started
  <2> QED BY <1>1, <1>2, <2>1 DEF SjfProgress
<1> QED BY <1>4, <1>5, <1>6, <1>7 DEF SjfInv

LEMMA SjfLoopSteps ==
  ASSUME SjfInv, Sjf!NobodyArrived \/ Sjf!Drained
  PROVE  SjfInv'
<1>1. /\ da = <<>> /\ pc' = "collect" /\ i' = i + 1 /\ j' = 1 /\ batch' \subseteq batch
      /\ UNCHANGED <<ready_queue, da, cpu, remaining, arrival, rt, wait, turnaround, burst,
                     arrives, started, sum, marked>>
      /\ (pc = "collect" /\ i <= N /\ j > N) \/ pc = "drain"
  BY DEF Sjf!NobodyArrived, Sjf!Drained, Sjf!pcbVars, Sjf!sums, Sjf!given
<1>2. /\ SjfTypes /\ SjfPlaces /\ SjfProgress /\ N \in Nat /\ Proc = 1 .. N
      /\ i \in 1 .. N
  <2>1. SjfTypes /\ SjfPlaces /\ SjfProgress /\ SjfControl /\ N \in Nat /\ Proc = 1 .. N
    BY SchedulingConstants DEF SjfInv, Proc
  <2>2. i \in 1 .. N
    BY <1>1, <2>1 DEF SjfControl, SjfTypes
  <2> QED BY <2>1, <2>2
<1>3. SjfTypes'
  <2>1. i + 1 \in 1 .. N + 1 /\ 1 \in 1 .. N + 1
    BY <1>2
  <2> QED BY <1>1, <1>2, <2>1 DEF SjfTypes, SchedulingTypeOK
<1>4. SjfPlaces' /\ SjfControl' /\ SjfSorted'
  BY <1>1, <1>2 DEF SjfPlaces, Pushed, SjfControl, SjfSorted
<1>5. SjfSums' /\ ClockInv'
  <2>1. Ran' = Ran
    BY <1>1 DEF Ran
  <2> QED BY <1>1, <2>1 DEF SjfInv, SjfSums, ClockInv
<1>6. SjfProgress'
  <2>1. Idle' = Idle /\ Cardinality(Started)' = Cardinality(Started)
    BY <1>1 DEF Idle, Started
  <2>2. CASE pc = "collect" /\ j > N
    <3>1. (\A p \in Proc : started[p] \/ arrives[p] > rt) => Idle
      BY DEF Idle
    <3>2. \A p \in Proc : p < j
      BY <1>2, <2>2 DEF SjfTypes
    <3>3. Idle
      BY <1>1, <1>2, <2>2, <3>1, <3>2 DEF SjfProgress
    <3> QED BY <1>1, <2>1, <3>3 DEF SjfProgress
  <2>3. CASE pc = "drain"
    <3>1. Cardinality(Started) >= (i + 1) - 1
      BY <1>2, <2>3 DEF SjfProgress
    <3>2. \A p \in Proc : ~ (p < 1)
      BY <1>2
    <3> QED BY <1>1, <2>1, <3>1, <3>2 DEF SjfProgress
  <2> QED BY <1>1, <2>2, <2>3
<1> QED BY <1>3, <1>4, <1>5, <1>6 DEF SjfInv

(* The sums while a process runs from rt to rt + b, and at the end.        *)
LEMMA SjfRunWords ==
  ASSUME NEW w \in Int, NEW t \in Int, NEW r \in Int, NEW b \in Int
  PROVE  Plus((w + t) % WordMod, Plus(r, b)) = (Plus(w, r) + (t + b)) % WordMod
<1> DEFINE W == WordMod
           x == (w + t) % W
           y == (r + b) % W
           z == (w + r) % W
<1>1. /\ x \in Int /\ y \in Int /\ z \in Int
      /\ \A q \in Int : (x + q) % W = ((w + t) + q) % W
      /\ \A q \in Int : (q + y) % W = ((r + b) + q) % W
      /\ \A q \in Int : (z + q) % W = ((w + r) + q) % W
  BY Reduced
<1>2. (x + y) % W = (z + (t + b)) % W
  <2>1. (x + y) % W = ((w + t) + y) % W
    <3> HIDE DEF x, y
    <3> QED BY <1>1
  <2>2. ((w + t) + y) % W = ((r + b) + (w + t)) % W
    <3>1. w + t \in Int
      OBVIOUS
    <3> HIDE DEF y
    <3> QED BY <1>1, <3>1
  <2>3. (z + (t + b)) % W = ((w + r) + (t + b)) % W
    <3>1. t + b \in Int
      OBVIOUS
    <3> HIDE DEF z
    <3> QED BY <1>1, <3>1
  <2>4. (r + b) + (w + t) = (w + r) + (t + b)
    OBVIOUS
  <2> QED BY <2>1, <2>2, <2>3, <2>4
<1> QED BY <1>2 DEF Plus

LEMMA SjfEndWords ==
  ASSUME NEW w \in Int, NEW t \in Int, NEW b \in Int
  PROVE  Minus((w + t) % WordMod, b) = (Minus(w, b) + t) % WordMod
<1> DEFINE W == WordMod
           c == -b
           x == (w + t) % W
           v == (w - b) % W
<1>1. /\ c \in Int /\ x \in Int /\ v \in Int
      /\ \A q \in Int : (x + q) % W = ((w + t) + q) % W
      /\ \A q \in Int : (v + q) % W = ((w - b) + q) % W
  BY Reduced
<1>3. (x - b) % W = (v + t) % W
  <2>1. (x + c) % W = ((w + t) + c) % W
    <3> HIDE DEF x, c
    <3> QED BY <1>1
  <2>2. (v + t) % W = ((w - b) + t) % W
    <3> HIDE DEF v
    <3> QED BY <1>1
  <2>3. (w - b) + t = (w + t) + c /\ x - b = x + c
    BY <1>1
  <2> QED BY <2>1, <2>2, <2>3
<1> QED BY <1>3 DEF Minus

LEMMA SjfRunStep ==
  ASSUME SjfInv, Sjf!RunToEnd
  PROVE  /\ SjfInv'
         /\ \E p \in Proc : /\ Pushed(p) /\ Contains(da, p) /\ remaining[p] = burst[p]
                            /\ rt' = Plus(rt, remaining[p])
                            /\ remaining' = [remaining EXCEPT ![p] = 0]
                            /\ Total(Ran', Proc) = Total(Ran, Proc) + burst[p]
                            /\ \A q \in Proc : Contains(da, q) => burst[p] <= burst[q]
<1>0. PICK p : p = Last(da)
  OBVIOUS
<1> DEFINE b == burst[p]
<1>1. /\ pc = "drain" /\ da # <<>> /\ pc' = pc
      /\ wait' = Plus(wait, rt)
      /\ rt' = Plus(rt, remaining[p])
      /\ turnaround' = Plus(turnaround, rt')
      /\ remaining' = [remaining EXCEPT ![p] = 0]
      /\ da' = Front(da)
      /\ UNCHANGED <<ready_queue, cpu, arrival, burst, arrives, i, j, started, sum, batch,
                     marked>>
  BY <1>0 DEF Sjf!RunToEnd, Sjf!Plus, Plus, Sjf!Last, Last, Sjf!Front, Front, Sjf!given
<1>2. /\ SjfTypes /\ SjfPlaces /\ SjfControl /\ SjfProgress /\ SchedulingTypeOK /\ SjfSorted
      /\ N \in Nat /\ Proc = 1 .. N /\ da \in Seq(Proc) /\ IsInjective(da)
      /\ Len(da) \in Nat /\ Len(da) > 0
  BY <1>1, SchedulingConstants, NotEmpty, LenProperties
     DEF SjfInv, SjfTypes, SchedulingTypeOK, SjfPlaces, Proc
<1>3. /\ p \in Proc /\ Contains(da, p) /\ p = da[Len(da)]
      /\ da' \in Seq(Proc) /\ IsInjective(da') /\ Len(da') = Len(da) - 1
      /\ \A k \in 1 .. Len(da) - 1 : da'[k] = da[k]
      /\ \A x : Contains(da', x) <=> Contains(da, x) /\ x # p
  BY <1>0, <1>1, <1>2, FrontKeeps DEF Last
<1>4. Pushed(p) /\ remaining[p] = b
  BY <1>2, <1>3 DEF SjfPlaces
<1>5. /\ rt \in Int /\ wait \in Int /\ turnaround \in Int /\ b \in Word /\ b \in Int
      /\ Word \subseteq Int /\ 0 \in Word
  <2>1. /\ rt \in Int /\ wait \in Int /\ turnaround \in Int /\ b \in Word
        /\ Word \subseteq Int
    BY <1>2, <1>3, Integral DEF SchedulingTypeOK
  <2>2. 0 \in Word
    BY SchedulingConstants DEF Word
  <2> QED BY <2>1, <2>2
<1> HIDE DEF b
<1>6. rt' = Plus(rt, b) /\ rt' \in Word /\ wait' \in Word /\ turnaround' \in Word
  BY <1>1, <1>4, <1>5, Words
<1>7. remaining' \in [Proc -> Word] /\ \A q \in Proc : remaining'[q] = IF q = p THEN 0 ELSE remaining[q]
  BY <1>1, <1>2, <1>3, <1>5 DEF SchedulingTypeOK
<1>8. SjfTypes'
  BY <1>1, <1>2, <1>3, <1>6, <1>7 DEF SjfTypes, SchedulingTypeOK
<1>9. SjfPlaces'
  <2>1. \A q : Pushed(q)' = Pushed(q)
    BY <1>1 DEF Pushed
  <2> QED BY <1>1, <1>2, <1>3, <1>4, <1>7, <2>1 DEF SjfPlaces
<1>10. SjfControl' /\ SjfSorted'
  <2>1. \A k \in 1 .. Len(da) - 1 : k \in 1 .. Len(da) /\ da[k] \in Proc /\ da[k] # p
    <3>1. \A k \in 1 .. Len(da) - 1 : k \in 1 .. Len(da) /\ k # Len(da)
      BY <1>2
    <3>2. DOMAIN da = 1 .. Len(da) /\ \A k \in 1 .. Len(da) : da[k] \in Proc
      BY <1>2, LenProperties, ElementOfSeq
    <3>3. Len(da) \in DOMAIN da
      BY <1>2, <3>2
    <3> QED BY <1>2, <1>3, <3>1, <3>2, <3>3 DEF IsInjective
  <2>2. \A k, l \in 1 .. Len(da) : k < l => remaining[da[k]] >= remaining[da[l]]
    BY <1>1, <1>2 DEF SjfSorted
  <2>3. ASSUME NEW k \in 1 .. Len(da'), NEW l \in 1 .. Len(da'), k < l
        PROVE  remaining'[da'[k]] >= remaining'[da'[l]]
    <3>1. k \in 1 .. Len(da) - 1 /\ l \in 1 .. Len(da) - 1
      BY <1>3, <2>3
    <3>2. /\ da'[k] = da[k] /\ da'[l] = da[l]
          /\ remaining'[da[k]] = remaining[da[k]] /\ remaining'[da[l]] = remaining[da[l]]
      BY <1>3, <1>7, <2>1, <3>1
    <3> QED BY <2>1, <2>2, <2>3, <3>1, <3>2
  <2> QED BY <1>1, <1>2, <2>3 DEF SjfControl, SjfSorted
<1>11. ClockInv' /\ Total(Ran', Proc) = Total(Ran, Proc) + b
  <2>1. remaining' = [remaining EXCEPT ![p] = @ - b]
    <3>1. remaining[p] - b = 0
      BY <1>4, <1>5
    <3> QED BY <1>1, <1>3, <3>1
  <2>2. b \in 0 .. remaining[p]
    BY <1>4, <1>5 DEF Word
  <2>3. ClockInv
    BY DEF SjfInv
  <2> QED BY <1>1, <1>2, <1>3, <1>6, <2>1, <2>2, <2>3, RunClock
<1>12. SjfSums'
  <2> DEFINE t == Total(Ran, Proc)
  <2>1. t \in Int /\ turnaround = (wait + t) % WordMod
    BY <1>2, Integral DEF SjfInv, SjfSums
  <2>2. Plus((wait + t) % WordMod, Plus(rt, b)) = (Plus(wait, rt) + (t + b)) % WordMod
    <3> HIDE DEF t
    <3>1. rt \in Int /\ wait \in Int /\ b \in Int /\ t \in Int
      BY <1>5, <2>1
    <3> QED BY ONLY <3>1, SjfRunWords
  <2> QED BY <1>1, <1>6, <1>11, <2>1, <2>2 DEF SjfSums
<1>13. SjfProgress'
  <2>1. Cardinality(Started)' = Cardinality(Started)
    BY <1>1 DEF Started
  <2> QED BY <1>1, <1>2, <2>1 DEF SjfProgress
<1>14. ASSUME NEW q \in Proc, Contains(da, q) PROVE b <= burst[q]
  <2>1. PICK k \in 1 .. Len(da) : da[k] = q
    BY <1>14 DEF Contains
  <2>2. remaining[q] = burst[q]
    BY <1>2, <1>14 DEF SjfPlaces
  <2>3. CASE k = Len(da)
    BY <1>3, <1>5, <2>1, <2>3 DEF b
  <2>4. CASE k < Len(da)
    <3>1. remaining[q] >= remaining[p]
      <4>1. \A m, l \in 1 .. Len(da) : m < l => remaining[da[m]] >= remaining[da[l]]
        BY <1>1, <1>2 DEF SjfSorted
      <4>2. Len(da) \in 1 .. Len(da)
        BY <1>2
      <4> QED BY <1>3, <2>1, <2>4, <4>1, <4>2
    <3> QED BY <1>2, <1>4, <1>5, <2>2, <3>1 DEF SchedulingTypeOK
  <2> QED BY <1>2, <2>1, <2>3, <2>4
<1>15. SjfInv'
  BY <1>8, <1>9, <1>10, <1>11, <1>12, <1>13 DEF SjfInv
<1> QED BY <1>1, <1>3, <1>4, <1>11, <1>14, <1>15 DEF b

LEMMA SjfReturnStep ==
  ASSUME SjfInv, Sjf!Return
  PROVE  SjfInv'
<1>1. /\ pc = "collect" /\ i > N /\ pc' = "done"
      /\ turnaround' = Minus(turnaround, sum)
      /\ wait' = Minus(wait, sum)
      /\ UNCHANGED <<ready_queue, da, cpu, remaining, arrival, rt, burst, arrives, i, j,
                     started, sum, batch, marked>>
  BY DEF Sjf!Return, Sjf!Minus, Minus, Sjf!pcbVars, Sjf!given
<1>2. /\ SjfTypes /\ SjfPlaces /\ SjfControl /\ SjfProgress /\ SchedulingTypeOK
      /\ N \in Nat /\ Proc = 1 .. N /\ i = N + 1 /\ sum \in Int /\ da = <<>>
  <2>1. /\ SjfTypes /\ SjfPlaces /\ SjfControl /\ SjfProgress /\ SchedulingTypeOK
        /\ N \in Nat /\ Proc = 1 .. N /\ sum \in Int
    BY SchedulingConstants DEF SjfInv, SjfTypes, Proc
  <2>2. i = N + 1
    BY <1>1, <2>1 DEF SjfTypes
  <2> QED BY <1>1, <2>1, <2>2 DEF SjfControl
<1>3. wait \in Int /\ turnaround \in Int
  BY <1>2, Integral DEF SchedulingTypeOK
<1>4. wait' \in Word /\ turnaround' \in Word
  BY <1>1, <1>2, <1>3, Words
<1>5. SjfTypes' /\ SjfPlaces' /\ SjfControl' /\ SjfSorted'
  BY <1>1, <1>2, <1>4 DEF SjfTypes, SchedulingTypeOK, SjfPlaces, Pushed, SjfControl, SjfSorted
<1>6. Ran' = Ran
  BY <1>1 DEF Ran
<1>7. ClockInv'
  BY <1>1, <1>6 DEF SjfInv, ClockInv
<1>8. SjfSums'
  <2> DEFINE t == Total(Ran, Proc)
  <2>1. t \in Int /\ turnaround = (wait + t) % WordMod
    BY <1>2, Integral DEF SjfInv, SjfSums
  <2>2. Minus((wait + t) % WordMod, sum) = (Minus(wait, sum) + t) % WordMod
    <3> HIDE DEF t
    <3>1. wait \in Int /\ sum \in Int /\ t \in Int
      BY <1>2, <1>3, <2>1
    <3> QED BY ONLY <3>1, SjfEndWords
  <2> QED BY <1>1, <1>6, <2>1, <2>2 DEF SjfSums
<1>9. Idle
  <2>1. CASE Cardinality(Started) >= N
    <3>1. IsFiniteSet(Proc) /\ Cardinality(Proc) = N
      BY <1>2, IntervalSize
    <3>2. Started \in SUBSET Proc
      BY DEF Started
    <3>3. Started = Proc
      <4>1. Cardinality(Started) <= N /\ Cardinality(Started) \in Nat
            /\ (Cardinality(Started) = N => Started = Proc)
        BY <3>1, <3>2, FS_Subset, FS_CardinalityType
      <4> QED BY <1>2, <2>1, <4>1
    <3> QED BY <3>3 DEF Started, Idle
  <2>2. CASE Idle
    BY <2>2
  <2>3. (N + 1) - 1 = N
    BY <1>2
  <2> QED BY <1>1, <1>2, <2>1, <2>2, <2>3 DEF SjfProgress
<1>10. SjfProgress'
  <2>1. Idle'
    BY <1>1, <1>9 DEF Idle
  <2> QED BY <1>1, <2>1 DEF SjfProgress
<1> QED BY <1>5, <1>7, <1>8, <1>10 DEF SjfInv

LEMMA SjfBegins ==
  ASSUME Init, policy = "S"
  PROVE  SjfInv
<1>1. /\ pc = "collect" /\ i = 1 /\ j = 1 /\ sum = 0
      /\ marked \in SUBSET Proc /\ started = [p \in Proc |-> p \in marked]
      /\ batch = {} /\ da = <<>> /\ cpu = NoProc /\ wait = 0 /\ turnaround = 0 /\ rt = 0
      /\ remaining = burst /\ arrival = arrives
  BY DEF Init, Entry, SchedulingInit
<1>2. /\ SchedulingTypeOK /\ QueueInv /\ ClockInv /\ Len(ready_queue) = N
      /\ \A k \in Proc : ready_queue[k] = k
      /\ N \in Nat \ {0} /\ Proc = 1 .. N
  BY Begin, SchedulingConstants DEF Proc
<1>3. SjfTypes
  BY <1>1, <1>2 DEF SjfTypes
<1>4. \A p : ~ Contains(da, p)
  BY <1>1, EmptySeq DEF Contains
<1>5. SjfPlaces
  <2>1. \A p \in Proc : ~ Pushed(p)
    BY <1>1 DEF Pushed
  <2>2. \A p \in marked : started[p]
    BY <1>1
  <2> QED BY <1>1, <1>2, <1>4, <2>1, <2>2 DEF SjfPlaces, QueueInv
<1>6. SjfControl /\ SjfSorted
  BY <1>1 DEF SjfControl, SjfSorted
<1>7. SjfSums
  BY <1>1, <1>2, Integral DEF SjfSums, ClockInv
<1>8. SjfProgress
  <2>1. Cardinality(Started) \in Nat
    <3>1. IsFiniteSet(Proc) /\ Started \in SUBSET Proc
      BY <1>2, Integral DEF Started
    <3> QED BY <3>1, FS_Subset, FS_CardinalityType
  <2>2. \A p \in Proc : ~ (p < 1)
    BY <1>2
  <2>3. Cardinality(Started) >= 1 - 1
    BY <2>1
  <2> QED BY <1>1, <2>2, <2>3 DEF SjfProgress
<1> QED BY <1>2, <1>3, <1>5, <1>6, <1>7, <1>8 DEF SjfInv

LEMMA SjfSteps ==
  ASSUME SjfInv, policy = "S", Next
  PROVE  SjfInv'
<1>1. Sjf!Next
  BY DEF Next, first_come_first_serve, shortest_remaining_time_first, round_robin,
         shortest_job_first
<1> QED BY <1>1, SjfCollectStep, SjfSortStep, SjfLoopSteps, SjfRunStep, SjfReturnStep
        DEF Sjf!Next

(* A policy's letter is one of the four.                                   *)
LEMMA Letters ==
  ASSUME policy \in Policies
  PROVE  policy \in {"F", "P", "R", "S"}
BY PolicyLetters

-----------------------------------------------------------------------------
(* What is true of every scheduler at every step.                          *)
Inv ==
  /\ policy \in Policies
  /\ policy = "F" => FcfsInv
  /\ policy = "P" => SrtfInv
  /\ policy = "R" => RrInv
  /\ policy = "S" => SjfInv
  /\ policy # "S" => batch = {}

(* A step that changes nothing.                                            *)
LEMMA StaysPut ==
  ASSUME UNCHANGED vars
  PROVE  FcfsInv' = FcfsInv /\ SrtfInv' = SrtfInv /\ RrInv' = RrInv /\ SjfInv' = SjfInv
<1>1. /\ SchedulingTypeOK' = SchedulingTypeOK /\ QueueInv' = QueueInv
      /\ SumInv' = SumInv /\ ClockInv' = ClockInv
  BY DEF vars, pcbVars, sums, given, SchedulingTypeOK, QueueInv, Nowhere, SumInv, Delayed,
         ClockInv, Ran
<1>2. FcfsInv' = FcfsInv
  <2>1. WaitInv' = WaitInv
    BY DEF vars, pcbVars, sums, given, WaitInv, Waits, Fcfs!Start, Fcfs!SumOver
  <2> QED BY <1>1, <2>1 DEF vars, pcbVars, given, FcfsInv, FcfsTypes, FcfsOrder
<1>3. SrtfInv' = SrtfInv
  BY <1>1 DEF vars, pcbVars, sums, given, turns, SrtfInv, SrtfTypes, SrtfControl, SrtfLooked,
              SrtfSorted
<1>4. RrInv' = RrInv
  BY <1>1 DEF vars, pcbVars, sums, given, turns, ofRr, RrInv, RrTypes, RrControl, RrOrder,
              Overtaken
<1>5. SjfInv' = SjfInv
  BY <1>1 DEF vars, pcbVars, sums, given, ofSjf, SjfInv, SjfTypes, SjfPlaces, Pushed, SjfControl,
              SjfSums, SjfSorted, SjfProgress, Started, Idle, Ran
<1> QED BY <1>2, <1>3, <1>4, <1>5

LEMMA InvBegins == Init => Inv
<1> SUFFICES ASSUME Init PROVE Inv
  OBVIOUS
<1>1. policy \in Policies /\ batch = {}
  BY DEF Init
<1> QED BY <1>1, FcfsBegins, SrtfBegins, RrBegins, SjfBegins DEF Inv

LEMMA InvSteps == Inv /\ [Next]_vars => Inv'
<1> SUFFICES ASSUME Inv, [Next]_vars PROVE Inv'
  OBVIOUS
<1>1. CASE UNCHANGED vars
  <2>1. policy' = policy /\ batch' = batch
    BY <1>1 DEF vars, ofSjf
  <2> QED BY <1>1, <2>1, StaysPut DEF Inv
<1>2. CASE Next
  <2>1. policy' = policy
    BY <1>2 DEF Next
  <2>2. policy # "S" => batch' = batch
    BY <1>2 DEF Next, first_come_first_serve, shortest_remaining_time_first, round_robin,
                shortest_job_first, ofSjf
  <2> QED BY <1>2, <2>1, <2>2, FcfsSteps, SrtfSteps, RrSteps, SjfSteps DEF Inv
<1> QED BY <1>1, <1>2

(* The invariant that every theorem about all states rests on.             *)
LEMMA Always == Spec => []Inv
BY InvBegins, InvSteps, PTL DEF Spec

-----------------------------------------------------------------------------
(* All variables of the four schedulers stay in their domains: the fields  *)
(* and sums are words, the arrays hold PCBs, and check_pcb's counter never *)
(* exceeds the number of PCBs.                                             *)
THEOREM TypeCorrect == Spec => []TypeOK
<1>1. Inv => TypeOK
  <2> SUFFICES ASSUME Inv PROVE TypeOK
    OBVIOUS
  <2>1. policy = "F" => Fcfs!TypeOK
    BY DEF Inv, FcfsInv, FcfsTypes, Fcfs!TypeOK, SchedulingTypeOK, Fcfs!SchedulingTypeOK,
           Fcfs!Proc, Proc, Fcfs!Word, Word, Fcfs!NoProc, NoProc
  <2>2. policy = "P" => Srtf!TypeOK
    BY DEF Inv, SrtfInv, SrtfTypes, Srtf!TypeOK, SchedulingTypeOK, Srtf!SchedulingTypeOK,
           Srtf!Proc, Proc, Srtf!Word, Word, Srtf!NoProc, NoProc
  <2>3. policy = "R" => Rr!TypeOK
    BY DEF Inv, RrInv, RrTypes, Rr!TypeOK, SchedulingTypeOK, Rr!SchedulingTypeOK,
           Rr!Proc, Proc, Rr!Word, Word, Rr!NoProc, NoProc
  <2>4. policy = "S" => Sjf!TypeOK
    BY DEF Inv, SjfInv, SjfTypes, Sjf!TypeOK, SchedulingTypeOK, Sjf!SchedulingTypeOK,
           Sjf!Proc, Proc, Sjf!Word, Word, Sjf!NoProc, NoProc
  <2>5. policy \in Policies
    BY DEF Inv
  <2> QED BY <2>1, <2>2, <2>3, <2>4, <2>5 DEF TypeOK
<1> QED BY <1>1, Always, PTL

(* What the invariant of a scheduler that moves the PCBs says of places.   *)
LEMMA Queued ==
  ASSUME Inv, policy # "S"
  PROVE  SchedulingTypeOK /\ QueueInv /\ SumInv
<1>1. policy \in {"F", "P", "R"}
  BY Letters DEF Inv
<1>2. CASE policy = "F"
  <2>1. FcfsInv /\ FcfsTypes /\ FcfsOrder /\ SchedulingTypeOK
    BY <1>2 DEF Inv, FcfsInv, FcfsTypes
  <2> QED BY <2>1, FcfsPlaces DEF FcfsInv
<1>3. CASE policy \in {"P", "R"}
  BY <1>3 DEF Inv, SrtfInv, SrtfTypes, RrInv, RrTypes
<1> QED BY <1>1, <1>2, <1>3

LEMMA SjfCopies ==
  ASSUME SjfInv, NEW p \in Proc
  PROVE  Sjf!Cardinality({k \in DOMAIN da : da[k] = p}) = IF Contains(da, p) THEN 1 ELSE 0
<1>1. \A S : Sjf!Cardinality(S) = Cardinality(S)
  BY DEF Sjf!Cardinality, Cardinality, Sjf!IsFiniteSet, IsFiniteSet
<1>2. da \in Seq(Proc) /\ IsInjective(da)
  BY DEF SjfInv, SjfTypes, SchedulingTypeOK, SjfPlaces
<1> QED BY <1>1, <1>2, Occurrences

(* No PCB is lost or doubled by the copying between the arrays: it is in   *)
(* one place until its burst is used up and nowhere after.  Whatever the   *)
(* memory of the field started held, SJF pushes those that came with it    *)
(* clear once, before they run, and never runs one of the others.          *)
THEOREM NoneLostOrDoubled == Spec => []NoPcbLostOrDoubled
<1>1. Inv => NoPcbLostOrDoubled
  <2> SUFFICES ASSUME Inv PROVE NoPcbLostOrDoubled
    OBVIOUS
  <2>1. CASE policy # "S"
    BY <2>1, Queued, OnePlace DEF NoPcbLostOrDoubled
  <2>2. CASE policy = "S"
    <3>1. SjfInv /\ SjfPlaces /\ burst \in [Proc -> Int]
      BY <2>2, Integral DEF Inv, SjfInv, SjfTypes
    <3> SUFFICES ASSUME NEW p \in Proc
                 PROVE  LET copies == IF Contains(da, p) THEN 1 ELSE 0 IN
                          /\ copies <= IF Pushed(p) THEN 1 ELSE 0
                          /\ remaining[p] # burst[p] => Pushed(p)
                          /\ Pushed(p) /\ copies = 0 => remaining[p] = 0
      <4>1. \A q \in Proc : q \in Sjf!Served <=> Pushed(q)
        BY DEF Sjf!Served, Sjf!Proc, Proc, Pushed
      <4> QED BY <2>2, <3>1, <4>1, SjfCopies DEF NoPcbLostOrDoubled, Sjf!PushedOnce, Sjf!Proc, Proc
    <3> QED BY <3>1 DEF SjfPlaces
  <2> QED BY <2>1, <2>2
<1> QED BY <1>1, Always, PTL

(* The averages agree: whatever was served turned around in its waiting    *)
(* time plus its burst time, modulo the width of the sums.                 *)
THEOREM SumsAlwaysAgree == Spec => []SumsAgree
<1>1. Inv => SumsAgree
  <2> SUFFICES ASSUME Inv, pc = "done"
               PROVE  turnaround = Plus(wait,
                        SumOver(burst, IF policy = "S" THEN Sjf!Served ELSE Finished))
    BY DEF SumsAgree
  <2>1. CASE policy # "S"
    <3>1. da = <<>> /\ cpu = NoProc
      <4>1. policy \in {"F", "P", "R"}
        BY <2>1, Letters DEF Inv
      <4> QED BY <4>1 DEF Inv, FcfsInv, FcfsOrder, SrtfInv, SrtfControl, RrInv, RrControl
    <3> QED BY <2>1, <3>1, Queued, EndSums
  <2>2. CASE policy = "S"
    <3> DEFINE S == Sjf!Served
    <3>1. /\ SjfInv /\ SjfPlaces /\ SjfSums /\ SchedulingTypeOK
          /\ da = <<>> /\ started \in [Proc -> BOOLEAN]
      BY <2>2 DEF Inv, SjfInv, SjfTypes, SjfControl
    <3>2. \A p : ~ Contains(da, p)
      BY <3>1, EmptySeq DEF Contains
    <3>3. S = {p \in Proc : Pushed(p)}
      BY DEF Sjf!Served, Sjf!Proc, Proc, Pushed
    <3>4. \A p \in Proc : Ran[p] = IF Pushed(p) THEN burst[p] ELSE 0
      <4>1. \A p \in Proc : burst[p] \in Int
        BY <3>1, Integral
      <4> QED BY <3>1, <3>2, <4>1 DEF Ran, SjfPlaces
    <3>5. Summable(Ran, Proc) /\ Summable(burst, S) /\ S \in SUBSET Proc
      <4>1. S \in SUBSET Proc
        BY <3>3
      <4> QED BY <3>1, <4>1, Integral, FS_Subset DEF Summable
    <3>6. Total(Ran, Proc) = Total(burst, S)
      <4>1. /\ \A x \in S : burst[x] = Ran[x]
            /\ \A x \in Proc \ S : Ran[x] = 0
        BY <3>3, <3>4
      <4> HIDE DEF S
      <4> QED BY <3>5, <4>1, SumsEqual
    <3> QED BY <2>2, <3>1, <3>6 DEF SjfSums, Plus, SumOver, Total
  <2> QED BY <2>1, <2>2
<1> QED BY <1>1, Always, PTL

(* Nobody who could run is there when a scheduler stops: whoever is left   *)
(* has lost nothing of its burst, and arrives later or came to SJF with    *)
(* the field started set.                                                  *)
THEOREM StopsInIdleGapOnly == Spec => []StopsOnlyInIdleGap
<1>1. Inv => StopsOnlyInIdleGap
  <2> SUFFICES ASSUME Inv, pc = "done",
                      NEW p \in Left
               PROVE  remaining[p] = burst[p] /\ (arrives[p] > rt \/ p \in marked)
    BY DEF StopsOnlyInIdleGap
  <2>1. CASE policy # "S"
    <3>1. SchedulingTypeOK /\ QueueInv /\ p \in Proc /\ ~ Nowhere(p)
      <4>1. p \in Proc /\ Places(p) > 0
        BY <2>1 DEF Left, Unserved
      <4>2. SchedulingTypeOK /\ QueueInv /\ (Places(p) = 0 => Nowhere(p))
            /\ (Nowhere(p) => Places(p) = 0)
        BY <2>1, <4>1, Queued, OnePlace
      <4> QED BY <4>1, <4>2
    <3>2. CASE policy = "F"
      BY <3>1, <3>2, FcfsEnd DEF Inv
    <3>3. CASE policy \in {"P", "R"}
      <4>1. da = <<>> /\ cpu = NoProc /\ todo = 0
        BY <3>3 DEF Inv, SrtfInv, SrtfControl, RrInv, RrControl
      <4>2. \A k \in 1 .. Len(ready_queue) - todo : arrives[ready_queue[k]] > rt
        BY <3>3 DEF Inv, SrtfInv, SrtfLooked, RrInv, RrOrder
      <4>3. Contains(ready_queue, p)
        <5>1. ~ Contains(da, p) /\ p # NoProc
          BY <3>1, <4>1, EmptySeq, SchedulingConstants DEF Contains, Proc, NoProc
        <5> QED BY <3>1, <4>1, <5>1 DEF Nowhere
      <4>4. PICK k \in 1 .. Len(ready_queue) : ready_queue[k] = p
        BY <4>3 DEF Contains
      <4>5. Len(ready_queue) - todo = Len(ready_queue)
        BY <3>1, <4>1, LenProperties DEF SchedulingTypeOK
      <4> QED BY <3>1, <4>2, <4>3, <4>4, <4>5 DEF QueueInv
    <3>4. policy \in {"F", "P", "R"}
      BY <2>1, Letters DEF Inv
    <3> QED BY <3>2, <3>3, <3>4
  <2>2. CASE policy = "S"
    <3>1. p \in Proc /\ ~ Pushed(p)
      BY <2>2 DEF Left, Sjf!Served, Sjf!Proc, Proc, Pushed
    <3>2. SjfPlaces /\ Idle
      BY <2>2 DEF Inv, SjfInv, SjfProgress
    <3>3. remaining[p] = burst[p]
      BY <3>1, <3>2 DEF SjfPlaces
    <3> QED BY <3>1, <3>2, <3>3 DEF Idle, Pushed
  <2> QED BY <2>1, <2>2
<1> QED BY <1>1, Always, PTL

(* check_pcb of round robin leaves those that have not arrived in the      *)
(* order they were given, and takes every one that has.                    *)
THEOREM RrCheckKeepsOrder == Spec => []CheckKeepsOrder
<1>1. Inv => CheckKeepsOrder
  <2> SUFFICES ASSUME Inv, policy = "R" PROVE Rr!CheckKeepsOrder
    BY DEF CheckKeepsOrder
  <2>1. RrOrder /\ RrControl /\ ready_queue \in Seq(Proc)
    BY DEF Inv, RrInv, RrTypes, SchedulingTypeOK
  <2>2. Len(ready_queue) \in Nat /\ DOMAIN ready_queue = 1 .. Len(ready_queue)
    BY <2>1, LenProperties
  <2> SUFFICES ASSUME pc \in {"while", "requeue", "done"}
               PROVE  /\ \A k, l \in DOMAIN ready_queue :
                           k < l => ready_queue[k] < ready_queue[l]
                      /\ \A k \in DOMAIN ready_queue : arrives[ready_queue[k]] > rt
    BY DEF Rr!CheckKeepsOrder
  <2>3. todo = 0 /\ Len(ready_queue) - todo = Len(ready_queue)
    BY <2>1, <2>2 DEF RrControl
  <2> QED BY <2>1, <2>2, <2>3 DEF RrOrder
<1> QED BY <1>1, Always, PTL

(* While a process waits in round robin's array, no other gets the CPU     *)
(* twice: whoever is at the front has not run since the others came.       *)
THEOREM RrOvertakenOnce == Spec => []OvertakenOnce
<1>1. Inv => OvertakenOnce
  <2> SUFFICES ASSUME Inv, policy = "R", da # <<>>, NEW k \in 2 .. Len(da)
               PROVE  Head(da) \notin passed[da[k]]
    BY DEF OvertakenOnce, Rr!OvertakenOnce
  <2>1. Overtaken /\ da \in Seq(Proc)
    BY DEF Inv, RrInv, RrTypes, SchedulingTypeOK
  <2>2. Len(da) \in Nat /\ Head(da) = da[1]
    BY <2>1, LenProperties
  <2> QED BY <2>1, <2>2 DEF Overtaken
<1> QED BY <1>1, Always, PTL

(* SRTF gives the CPU to the least remaining time of all who have arrived. *)
THEOREM SrtfShortestRuns == Spec => []ShortestRuns
<1>1. Inv => ShortestRuns
  <2> SUFFICES ASSUME Inv, policy = "P", pc = "while", da # <<>>,
                      NEW p \in Proc, arrives[p] <= rt, remaining[p] # 0
               PROVE  remaining[Head(da)] <= remaining[p]
    BY DEF ShortestRuns, Srtf!ShortestRuns, Srtf!Proc, Proc
  <2>1. /\ SrtfInv /\ SchedulingTypeOK /\ QueueInv /\ cpu = NoProc /\ todo = 0
        /\ da \in Seq(Proc) /\ ready_queue \in Seq(Proc)
    BY DEF Inv, SrtfInv, SrtfTypes, SchedulingTypeOK, SrtfControl
  <2>2. /\ Len(da) \in Nat /\ Len(da) > 0 /\ Head(da) = da[1] /\ Len(ready_queue) \in Nat
        /\ arrives[p] \in Int /\ rt \in Int /\ remaining[p] \in Int
    BY <2>1, NotEmpty, LenProperties, Integral DEF SchedulingTypeOK
  <2>3. ~ Contains(ready_queue, p)
    <3> SUFFICES ASSUME NEW k \in 1 .. Len(ready_queue), ready_queue[k] = p PROVE FALSE
      BY DEF Contains
    <3>1. k \in 1 .. Len(ready_queue) - todo
      BY <2>1, <2>2
    <3> QED BY <2>1, <2>2, <3>1 DEF SrtfInv, SrtfLooked
  <2>4. Contains(da, p)
    <3>1. p # NoProc
      BY SchedulingConstants DEF Proc, NoProc
    <3> QED BY <2>1, <2>3, <3>1 DEF QueueInv, Nowhere
  <2>5. PICK k \in 1 .. Len(da) : da[k] = p
    BY <2>4 DEF Contains
  <2>6. CASE k = 1
    BY <2>2, <2>5, <2>6
  <2>7. CASE k # 1
    <3>1. 1 \in 1 .. Len(da) /\ 1 < k
      BY <2>2, <2>7
    <3> QED BY <2>1, <2>2, <2>5, <3>1 DEF SrtfInv, SrtfSorted
  <2> QED BY <2>6, <2>7
<1> QED BY <1>1, Always, PTL

(* FCFS serves all, in order of arrival when the queue is loaded back to   *)
(* front, and its waiting sum is right while nobody is run too early.      *)
THEOREM FcfsFirstComeFirst == Spec => []FirstComeFirst
<1>1. Inv => FirstComeFirst
  <2> SUFFICES ASSUME Inv, policy = "F", pc = "done"
               PROVE  Fcfs!ServesAllInOrder /\ Fcfs!WaitIsTheWaiting
    BY DEF FirstComeFirst, Fcfs!ServesAllInOrder, Fcfs!WaitIsTheWaiting
  <2>1. /\ FcfsInv /\ FcfsTypes /\ FcfsOrder /\ SchedulingTypeOK /\ ClockInv /\ WaitInv
        /\ served \in Seq(Proc)
    BY DEF Inv, FcfsInv, FcfsTypes
  <2>2. /\ Len(served) = N /\ ToSet(served) = Proc /\ N \in Nat
        /\ \A k \in 1 .. N : served[k] = N + 1 - k /\ served[k] \in Proc
        /\ rt = Total(burst, Proc) % WordMod
    BY <2>1, FcfsEnd
  <2>3. Fcfs!ServesAllInOrder
    <3>1. ASSUME Fcfs!FirstComeIsLast, NEW k \in 1 .. N, NEW l \in 1 .. N, k < l
          PROVE  arrives[served[k]] <= arrives[served[l]]
      <4>1. /\ served[k] = N + 1 - k /\ served[l] = N + 1 - l
            /\ served[k] \in Proc /\ served[l] \in Proc /\ served[l] < served[k]
        BY <2>2, <3>1
      <4> QED BY <3>1, <4>1 DEF Fcfs!FirstComeIsLast, Fcfs!Proc, Proc
    <3>2. Fcfs!ToSet(served) = Proc /\ Fcfs!SumOver(burst, Proc) = Total(burst, Proc)
      BY <2>2, FcfsSums DEF Fcfs!ToSet, ToSet
    <3> QED BY <2>2, <3>1, <3>2 DEF Fcfs!ServesAllInOrder, Fcfs!Proc, Proc
  <2>4. Fcfs!WaitIsTheWaiting
    <3> DEFINE D == DOMAIN served
               t == Total(Waits, D)
    <3>1. Fcfs!Waited = t
      BY FcfsSums DEF Fcfs!Waited, Waits
    <3> SUFFICES ASSUME Fcfs!NoIdleGap, t < WordMod PROVE wait = t
      BY <3>1 DEF Fcfs!WaitIsTheWaiting
    <3>2. D = 1 .. N /\ IsFiniteSet(D)
      BY <2>1, <2>2, LenProperties, IntervalSize
    <3>3. \A k \in D : Fcfs!Start(k) \in Int /\ arrives[served[k]] \in Int
      <4>1. \A k \in 1 .. N + 1 : Fcfs!Start(k) \in Int
        BY <2>1, <2>2, FcfsClock
      <4>2. \A p \in Proc : arrives[p] \in Int
        BY <2>1, Integral
      <4> QED BY <2>2, <3>2, <4>1, <4>2
    <3>4. \A k \in D : Waits[k] = Fcfs!Start(k) - arrives[served[k]]
      BY DEF Waits
    <3>5. Summable(Waits, D)
      <4>1. \A k \in D : Waits[k] \in Int
        BY <3>3, <3>4
      <4> HIDE DEF D
      <4> QED BY <3>2, <4>1 DEF Summable
    <3>6. \A k \in D : 0 <= Waits[k]
      <4>1. \A k \in D : arrives[served[k]] <= Fcfs!Start(k)
        BY DEF Fcfs!NoIdleGap
      <4> QED BY <3>3, <3>4, <4>1
    <3>7. 0 <= t /\ t \in Int
      <4> HIDE DEF D
      <4> QED BY <3>5, <3>6, SumOfNaturals, SumIsInt
    <3>8. wait = t % WordMod
      BY <2>1 DEF WaitInv
    <3> HIDE DEF t
    <3>9. WordMod \in Nat \ {0} /\ t \in 0 .. WordMod - 1
      BY <3>7, SchedulingConstants
    <3> QED BY <3>8, <3>9, ModSmall
  <2> QED BY <2>3, <2>4
<1> QED BY <1>1, Always, PTL

-----------------------------------------------------------------------------
(* What a step of round robin and of SJF does to the clock.                *)
Runs(p, c) ==
  /\ rt' = Plus(rt, c)
  /\ remaining' = [remaining EXCEPT ![p] = @ - c]
  /\ Total(Ran', Proc) = Total(Ran, Proc) + c

(* Who has been taken from the caller's array.                             *)
Taken(p) == IF policy = "R" THEN ~ Contains(ready_queue, p) ELSE Pushed(p)

LEMMA RrRuns ==
  ASSUME Inv, policy = "R", Rr!Next
  PROVE  /\ arrives' = arrives
         /\ \/ UNCHANGED <<rt, remaining>>
            \/ \E p \in Proc : ~ Contains(ready_queue, p)
                               /\ \E c \in 0 .. remaining[p] : Runs(p, c)
         /\ \A p \in Proc : ~ Contains(ready_queue', p) =>
              ~ Contains(ready_queue, p) \/ arrives[p] <= rt
<1>1. /\ RrInv /\ SchedulingTypeOK /\ QueueInv /\ ClockInv /\ quantum \in Nat
      /\ ready_queue \in Seq(Proc) /\ IsInjective(ready_queue)
      /\ da \in Seq(Proc) /\ IsInjective(da)
  BY QuantaAreNumbers DEF Inv, RrInv, RrTypes, SchedulingTypeOK, QueueInv
<1>2. CASE Rr!Check
  <2> DEFINE pcb == Last(ready_queue)
  <2>1. CheckPcb /\ todo > 0 /\ UNCHANGED <<rt, remaining, arrives>>
    BY <1>2 DEF Rr!Check, Rr!CheckPcb, CheckPcb, Rr!HasArrived, HasArrived, Rr!Last, Last,
         Rr!Front, Front, Rr!Cons, Cons, Rr!sums, Rr!given
  <2>2. ready_queue # <<>>
    BY <1>1, <2>1, NotEmpty, LenProperties DEF RrInv, RrControl, RrTypes
  <2>3. CASE HasArrived(pcb)
    <3>1. ready_queue' = Front(ready_queue)
      BY <2>1, <2>3 DEF CheckPcb
    <3>2. /\ pcb \in Proc /\ Contains(ready_queue, pcb)
          /\ \A x : Contains(ready_queue', x) <=> Contains(ready_queue, x) /\ x # pcb
      BY <1>1, <2>2, <3>1, FrontKeeps
    <3>3. arrives[pcb] <= rt
      BY <1>1, <2>3, <3>2 DEF QueueInv, HasArrived
    <3> QED BY <2>1, <3>2, <3>3
  <2>4. CASE ~ HasArrived(pcb)
    <3>1. ready_queue' = Cons(pcb, Front(ready_queue))
      BY <2>1, <2>4 DEF CheckPcb
    <3>2. \A x : Contains(ready_queue', x) <=> Contains(ready_queue, x)
      BY <1>1, <2>2, <3>1, TurnKeeps
    <3> QED BY <2>1, <3>2
  <2> QED BY <2>3, <2>4
<1>3. CASE Rr!Dispatch
  <2> DEFINE pcb == Head(da)
             c == Rr!CurrRt(pcb)
  <2>1. /\ da # <<>> /\ UNCHANGED <<ready_queue, burst, arrives>>
        /\ rt' = Plus(rt, c)
        /\ remaining' = [remaining EXCEPT ![pcb] = Minus(@, c)]
    BY <1>3 DEF Rr!Dispatch, Rr!Minus, Minus, Rr!Plus, Plus, Rr!given
  <2>2. pcb \in Proc /\ Contains(da, pcb)
    BY <1>1, <2>1, TailKeeps
  <2>3. c \in 0 .. remaining[pcb] /\ Minus(remaining[pcb], c) = remaining[pcb] - c
    BY <1>1, <2>2, RrSlice
  <2>4. ~ Contains(ready_queue, pcb)
    BY <1>1, <2>2 DEF QueueInv
  <2> HIDE DEF c, pcb
  <2>5. remaining' = [remaining EXCEPT ![pcb] = @ - c]
    BY <2>1, <2>3
  <2>6. Runs(pcb, c)
    BY <1>1, <2>1, <2>2, <2>3, <2>5, RunClock DEF Runs
  <2> QED BY <2>1, <2>2, <2>3, <2>4, <2>6
<1>4. CASE ~ Rr!Check /\ ~ Rr!Dispatch
  <2>1. UNCHANGED <<rt, remaining, arrives, ready_queue>>
    BY <1>4 DEF Rr!Next, Rr!Reject, Rr!Enter, Rr!CheckReturns, Rr!Requeue, Rr!Return,
         Rr!pcbVars, Rr!sums, Rr!given
  <2> QED BY <2>1
<1> QED BY <1>2, <1>3, <1>4

LEMMA SjfRuns ==
  ASSUME Inv, policy = "S", Sjf!Next
  PROVE  /\ arrives' = arrives
         /\ \/ UNCHANGED <<rt, remaining>>
            \/ \E p \in Proc : Pushed(p) /\ \E c \in 0 .. remaining[p] : Runs(p, c)
         /\ \A p \in Proc : Pushed(p)' => Pushed(p) \/ arrives[p] <= rt
<1>1. SjfInv /\ SjfPlaces /\ SchedulingTypeOK /\ started \in [Proc -> BOOLEAN]
  BY DEF Inv, SjfInv, SjfTypes
<1>2. CASE Sjf!Collect
  <2>1. PICK p : p = ready_queue[j]
    OBVIOUS
  <2>2. /\ UNCHANGED <<rt, remaining, arrives, marked>>
        /\ IF arrival[p] <= rt /\ ~ started[p]
           THEN started' = [started EXCEPT ![p] = TRUE] ELSE UNCHANGED started
    BY <1>2, <2>1 DEF Sjf!Collect, Sjf!Ready, Sjf!sums, Sjf!given
  <2> QED BY <1>1, <2>2 DEF SjfPlaces, Pushed
<1>3. CASE Sjf!RunToEnd
  <2>1. PICK p \in Proc :
          /\ Pushed(p) /\ remaining[p] = burst[p] /\ rt' = Plus(rt, remaining[p])
          /\ remaining' = [remaining EXCEPT ![p] = 0]
          /\ Total(Ran', Proc) = Total(Ran, Proc) + burst[p]
    BY <1>1, <1>3, SjfRunStep
  <2>2. remaining[p] \in 0 .. remaining[p] /\ remaining[p] - remaining[p] = 0
    BY <1>1, SchedulingConstants DEF SchedulingTypeOK, Word
  <2>3. remaining' = [remaining EXCEPT ![p] = @ - remaining[p]]
    BY <2>1, <2>2
  <2>4. Runs(p, remaining[p])
    BY <2>1, <2>3 DEF Runs
  <2>5. UNCHANGED <<arrives, started, marked>>
    BY <1>3 DEF Sjf!RunToEnd, Sjf!given
  <2>6. \A q : Pushed(q)' = Pushed(q)
    BY <2>5 DEF Pushed
  <2> QED BY <2>1, <2>2, <2>4, <2>5, <2>6
<1>4. CASE Sjf!Sort \/ Sjf!NobodyArrived \/ Sjf!Drained \/ Sjf!Return
  <2>1. UNCHANGED <<rt, remaining, arrives, started, marked>>
    BY <1>4 DEF Sjf!Sort, Sjf!NobodyArrived, Sjf!Drained, Sjf!Return, Sjf!pcbVars, Sjf!sums,
         Sjf!given
  <2> QED BY <2>1 DEF Pushed
<1> QED BY <1>2, <1>3, <1>4 DEF Sjf!Next

(* In SJF's batch the shortest burst runs first.                           *)
THEOREM SjfShortestOfBatch == Spec => ShortestOfBatch
<1> DEFINE Shortest ==
      \A p \in Sjf!Proc : remaining'[p] # remaining[p] =>
        \A q \in batch : remaining[q] = 0 \/ burst[p] <= burst[q]
<1>1. Inv /\ [Next]_vars => [Shortest]_(Sjf!vars)
  <2> SUFFICES ASSUME Inv, Next, NEW p \in Proc, remaining'[p] # remaining[p], NEW q \in batch
               PROVE  remaining[q] = 0 \/ burst[p] <= burst[q]
    <3>1. UNCHANGED vars => UNCHANGED Sjf!vars
      BY DEF vars, pcbVars, sums, given, ofSjf, Sjf!vars
    <3> QED BY <3>1 DEF Sjf!Proc, Proc
  <2>1. policy = "S" /\ SjfInv /\ SjfPlaces /\ SchedulingTypeOK
    BY DEF Inv, SjfInv, SjfTypes
  <2>2. Sjf!Next
    BY <2>1 DEF Next, first_come_first_serve, shortest_remaining_time_first, round_robin,
           shortest_job_first
  <2>3. Sjf!RunToEnd
    BY <2>2 DEF Sjf!Next, Sjf!Collect, Sjf!Sort, Sjf!NobodyArrived, Sjf!Drained, Sjf!Return,
           Sjf!pcbVars
  <2>4. PICK r \in Proc :
          /\ remaining' = [remaining EXCEPT ![r] = 0]
          /\ \A x \in Proc : Contains(da, x) => burst[r] <= burst[x]
    BY <2>1, <2>3, SjfRunStep
  <2>5. p = r
    BY <2>1, <2>4 DEF SchedulingTypeOK
  <2>6. q \in Proc /\ Pushed(q)
    BY <2>1 DEF SjfInv, SjfTypes, SjfPlaces
  <2> QED BY <2>1, <2>4, <2>5, <2>6 DEF SjfPlaces
<1>2. Spec => [][Shortest]_(Sjf!vars)
  BY <1>1, Always, PTL DEF Spec
<1> QED BY <1>2 DEF ShortestOfBatch, Sjf!ShortestOfBatch

-----------------------------------------------------------------------------
(* Round robin and SJF are schedules of one CPU as long as the clock can   *)
(* hold all the bursts: m bounds them.                                     *)
OfOneCpu == policy \in {"R", "S"}
Fits == OfOneCpu => \A p \in Proc : remaining[p] <= burst[p]
Exact == OfOneCpu => rt = Total(Ran, Proc)
Arrived == OfOneCpu => \A p \in Proc : Taken(p) => arrives[p] <= rt

LEMMA OneCpuRuns ==
  ASSUME Inv, OfOneCpu, Next
  PROVE  /\ policy' = policy /\ UNCHANGED given
         /\ \/ UNCHANGED <<rt, remaining>>
            \/ \E p \in Proc : Taken(p) /\ \E c \in 0 .. remaining[p] : Runs(p, c)
         /\ \A p \in Proc : Taken(p)' => Taken(p) \/ arrives[p] <= rt
<1>1. policy' = policy
  BY DEF Next
<1>2. CASE policy = "R"
  <2>1. Rr!Next
    BY <1>2 DEF Next, first_come_first_serve, shortest_remaining_time_first, round_robin,
           shortest_job_first
  <2>2. UNCHANGED given
    BY <2>1 DEF Rr!Next, Rr!Reject, Rr!Enter, Rr!Check, Rr!CheckReturns, Rr!Dispatch,
           Rr!Requeue, Rr!Return, Rr!given, given
  <2> QED BY <1>1, <1>2, <2>1, <2>2, RrRuns DEF Taken
<1>3. CASE policy = "S"
  <2>1. Sjf!Next
    BY <1>3 DEF Next, first_come_first_serve, shortest_remaining_time_first, round_robin,
           shortest_job_first
  <2>2. UNCHANGED given
    BY <2>1 DEF Sjf!Next, Sjf!Collect, Sjf!Sort, Sjf!NobodyArrived, Sjf!RunToEnd, Sjf!Drained,
           Sjf!Return, Sjf!given, given
  <2> QED BY <1>1, <1>3, <2>1, <2>2, SjfRuns DEF Taken
<1> QED BY <1>2, <1>3 DEF OfOneCpu

LEMMA FitsAlways == Spec => []Fits
<1>1. Init => Fits
  <2> SUFFICES ASSUME Init, NEW p \in Proc PROVE remaining[p] <= burst[p]
    BY DEF Fits
  <2>1. remaining = burst /\ burst[p] \in Int
    BY Begin, Integral DEF Init, SchedulingInit
  <2> QED BY <2>1
<1>2. Inv /\ Fits /\ [Next]_vars => Fits'
  <2> SUFFICES ASSUME Inv, Fits, [Next]_vars, OfOneCpu', NEW p \in Proc
               PROVE  remaining'[p] <= burst'[p]
    BY DEF Fits
  <2>1. OfOneCpu
    BY DEF OfOneCpu, Next, vars
  <2>2. remaining[p] <= burst[p] /\ remaining \in [Proc -> Int] /\ burst[p] \in Int
    BY <2>1, Integral DEF Inv, OfOneCpu, RrInv, RrTypes, SjfInv, SjfTypes, Fits,
                          SchedulingTypeOK
  <2>3. CASE UNCHANGED <<remaining, burst>>
    BY <2>2, <2>3
  <2>4. CASE Next
    <3>1. burst' = burst
      BY <2>1, <2>4, OneCpuRuns DEF given
    <3>2. CASE UNCHANGED remaining
      BY <2>2, <3>1, <3>2
    <3>3. CASE \E q \in Proc : \E c \in 0 .. remaining[q] : Runs(q, c)
      <4>0. PICK q \in Proc : \E c \in 0 .. remaining[q] : Runs(q, c)
        BY <3>3
      <4>1. PICK c \in 0 .. remaining[q] : remaining' = [remaining EXCEPT ![q] = @ - c]
        BY <4>0 DEF Runs
      <4>2. remaining'[p] <= remaining[p] /\ remaining'[p] \in Int
        BY <2>2, <4>1
      <4> QED BY <2>2, <3>1, <4>2
    <3> QED BY <2>1, <2>4, <3>2, <3>3, OneCpuRuns
  <2> QED BY <2>3, <2>4 DEF vars, pcbVars, given
<1> QED BY <1>1, <1>2, Always, PTL DEF Spec

(* So the sum of what was run is no more than N bursts, and the clock has  *)
(* never wrapped.                                                          *)
LEMMA NeverWraps ==
  ASSUME NEW m \in Nat, \A b \in Bursts : b <= m, N * m < WordMod
  PROVE  Inv /\ Fits => Exact
<1> SUFFICES ASSUME Inv, Fits, OfOneCpu PROVE rt = Total(Ran, Proc)
  BY DEF Exact
<1>1. SchedulingTypeOK /\ ClockInv
  BY DEF Inv, OfOneCpu, RrInv, RrTypes, SjfInv, SjfTypes
<1>2. \A p \in Proc : 0 <= Ran[p] /\ Ran[p] <= m
  <2> SUFFICES ASSUME NEW p \in Proc PROVE 0 <= Ran[p] /\ Ran[p] <= m
    OBVIOUS
  <2>1. burst[p] \in Int /\ burst[p] <= m /\ remaining[p] \in Int /\ 0 <= remaining[p]
    BY <1>1, Integral, SchedulingConstants DEF SchedulingTypeOK, Word
  <2>2. Ran[p] = burst[p] - remaining[p] /\ remaining[p] <= burst[p]
    BY DEF Ran, Fits
  <2> QED BY <2>1, <2>2
<1> DEFINE t == Total(Ran, Proc)
<1>3. 0 <= t /\ t <= Cardinality(Proc) * m /\ t \in Int
  <2>1. Summable(Ran, Proc) /\ t \in Int
    BY <1>1, Integral
  <2> QED BY <1>2, <2>1, SumBounds
<1>4. Cardinality(Proc) = N /\ N * m \in Int /\ WordMod \in Nat \ {0}
  BY SchedulingConstants, IntervalSize DEF Proc
<1>5. rt = t % WordMod
  BY <1>1 DEF ClockInv
<1> HIDE DEF t
<1>6. t \in 0 .. WordMod - 1
  BY <1>3, <1>4
<1> QED BY <1>4, <1>5, <1>6, ModSmall DEF t

LEMMA ClockMoves ==
  ASSUME Inv, Exact, Exact', OfOneCpu, Next
  PROVE  \/ UNCHANGED <<rt, remaining>>
         \/ \E p \in Proc : /\ Taken(p)
                            /\ \E c \in 0 .. remaining[p] :
                                 /\ remaining' = [remaining EXCEPT ![p] = @ - c]
                                 /\ rt' = rt + c
<1>1. OfOneCpu' /\ rt = Total(Ran, Proc) /\ rt' = Total(Ran', Proc)
  BY OneCpuRuns DEF OfOneCpu, Exact
<1> QED BY <1>1, OneCpuRuns DEF Runs

LEMMA ArrivedSteps == Inv /\ Exact /\ Exact' /\ Arrived /\ [Next]_vars => Arrived'
<1> SUFFICES ASSUME Inv, Exact, Exact', Arrived, [Next]_vars, OfOneCpu',
                    NEW p \in Proc, Taken(p)'
             PROVE  arrives'[p] <= rt'
  BY DEF Arrived
<1>1. OfOneCpu
  BY DEF OfOneCpu, Next, vars
<1>2. /\ SchedulingTypeOK /\ arrives[p] \in Int /\ rt \in Int
      /\ remaining \in [Proc -> Int]
  BY <1>1, Integral DEF Inv, OfOneCpu, RrInv, RrTypes, SjfInv, SjfTypes, SchedulingTypeOK
<1>3. CASE UNCHANGED vars
  BY <1>1, <1>3 DEF Arrived, Taken, Pushed, vars, pcbVars, sums, given, ofSjf
<1>4. CASE Next
  <2>1. Taken(p) \/ arrives[p] <= rt
    BY <1>1, <1>4, OneCpuRuns
  <2>2. arrives[p] <= rt /\ arrives' = arrives
    BY <1>1, <1>4, <2>1, OneCpuRuns DEF Arrived, given
  <2>3. rt <= rt' /\ rt' \in Int
    <3>1. rt' = rt \/ \E q \in Proc : \E c \in 0 .. remaining[q] : rt' = rt + c
      BY <1>1, <1>4, ClockMoves
    <3> QED BY <1>2, <3>1
  <2> QED BY <1>2, <2>2, <2>3
<1> QED BY <1>3, <1>4

LEMMA CpuBegins == Init => Cpu!Init
<1> SUFFICES ASSUME Init PROVE Cpu!Init
  OBVIOUS
<1>1. rt = 0
  BY DEF Init, SchedulingInit
<1>2. \A p \in Proc : remaining[p] \in Nat /\ arrives[p] \in Nat
  <2>1. SchedulingTypeOK /\ arrives \in [Proc -> Word]
    BY Begin, Integral
  <2>2. Word \subseteq Nat
    BY SchedulingConstants DEF Word
  <2> QED BY <2>1, <2>2 DEF SchedulingTypeOK
<1>3. \A p \in Proc : Shown(remaining[p]) \in Nat /\ Shown(arrives[p]) \in Nat
  BY <1>2 DEF Shown
<1> QED BY <1>1, <1>3 DEF Cpu!Init, Shown

LEMMA CpuSteps ==
  Inv /\ Exact /\ Exact' /\ Arrived /\ [Next]_vars => [Cpu!Next]_(Cpu!vars)
<1> SUFFICES ASSUME Inv, Exact, Exact', Arrived, [Next]_vars
             PROVE  Cpu!Next \/ UNCHANGED Cpu!vars
  OBVIOUS
<1>0. policy' = policy
  BY DEF Next, vars
<1>1. CASE ~ OfOneCpu
  BY <1>0, <1>1 DEF OfOneCpu, Shown, Cpu!vars
<1>2. CASE OfOneCpu /\ UNCHANGED <<rt, remaining, arrives>>
  BY <1>0, <1>2 DEF Shown, Cpu!vars
<1>3. CASE OfOneCpu /\ Next /\ ~ UNCHANGED <<rt, remaining>>
  <2>0. PICK p \in Proc : /\ Taken(p)
                         /\ \E c \in 0 .. remaining[p] :
                              /\ remaining' = [remaining EXCEPT ![p] = @ - c]
                              /\ rt' = rt + c
    BY <1>3, ClockMoves
  <2>1. PICK c \in 0 .. remaining[p] :
          Taken(p) /\ remaining' = [remaining EXCEPT ![p] = @ - c] /\ rt' = rt + c
    BY <2>0
  <2>2. arrives[p] <= rt /\ arrives' = arrives
    BY <1>3, <2>1, OneCpuRuns DEF Arrived, given
  <2>3. remaining \in [Proc -> Nat] /\ rt \in Int
    BY <1>3, Integral, SchedulingConstants
       DEF Inv, OfOneCpu, RrInv, RrTypes, SjfInv, SjfTypes, SchedulingTypeOK, Word
  <2>4. CASE c = 0
    <3>1. remaining' = remaining /\ rt' = rt
      BY <2>1, <2>3, <2>4
    <3> QED BY <1>3, <3>1
  <2>5. CASE c # 0
    <3> DEFINE left == [q \in Proc |-> Shown(remaining[q])]
               since == [q \in Proc |-> Shown(arrives[q])]
    <3>1. /\ left = remaining /\ left' = remaining' /\ Shown(rt) = rt /\ Shown(rt)' = rt'
          /\ since' = since /\ since[p] = arrives[p]
      BY <1>0, <1>3, <2>1, <2>2, <2>3 DEF Shown, OfOneCpu
    <3>2. c \in 1 .. left[p] /\ c <= left[p]
      BY <2>1, <2>3, <2>5, <3>1
    <3>3. /\ since[p] <= Shown(rt) /\ Shown(rt)' = Shown(rt) + c
          /\ left' = [left EXCEPT ![p] = @ - c]
      BY <2>1, <2>2, <3>1
    <3>4. Cpu!Run(p, c)
      BY <3>1, <3>2, <3>3 DEF Cpu!Run
    <3> QED BY <3>2, <3>4 DEF Cpu!Next
  <2> QED BY <2>4, <2>5
<1>4. CASE OfOneCpu /\ UNCHANGED vars
  BY <1>2, <1>4 DEF vars, pcbVars, sums, given
<1>5. Next /\ OfOneCpu => UNCHANGED arrives
  BY OneCpuRuns DEF given
<1> QED BY <1>1, <1>2, <1>3, <1>4, <1>5

(* The schedules of round robin and of SJF are schedules of one CPU: only  *)
(* arrived processes run, for no longer than they need, and the clock is   *)
(* the time handed out.                                                    *)
THEOREM OneCpuRefined ==
  ASSUME NEW m \in Nat, \A b \in Bursts : b <= m, N * m < WordMod
  PROVE  Spec => IsCpuSchedule
<1>1. Inv /\ Fits => Exact
  BY NeverWraps
<1>2. Init => Arrived
  <2> SUFFICES ASSUME Init, OfOneCpu, NEW p \in Proc, Taken(p) PROVE FALSE
    BY DEF Arrived
  <2>1. Contains(ready_queue, p) /\ ~ Pushed(p)
    BY Begin DEF Init, Pushed
  <2> QED BY <2>1 DEF Taken
<1>3. Inv /\ Exact /\ Exact' /\ Arrived /\ [Next]_vars => Arrived'
  BY ArrivedSteps
<1>4. Init => Cpu!Init
  BY CpuBegins
<1>5. Inv /\ Exact /\ Exact' /\ Arrived /\ [Next]_vars => [Cpu!Next]_(Cpu!vars)
  BY CpuSteps
<1>6. Spec => []Inv /\ []Fits
  BY Always, FitsAlways
<1>7. Spec => Cpu!Init /\ [][Cpu!Next]_(Cpu!vars)
  BY <1>1, <1>2, <1>3, <1>4, <1>5, <1>6, PTL DEF Spec
<1> QED BY <1>7 DEF IsCpuSchedule, Cpu!Spec
=============================================================================
