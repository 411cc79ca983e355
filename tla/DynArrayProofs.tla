--------------------------- MODULE DynArrayProofs ---------------------------
(***************************************************************************)
(* Proofs about DynArray, for every set of objects, every capacity of the  *)
(* smallest and of the largest array, and any number of insertions.        *)
(***************************************************************************)
EXTENDS DynArray, FiniteSums

-----------------------------------------------------------------------------
(* How often an object is among the n elements of f behind the first a.    *)
Window(x, f, a, n) == Cardinality({k \in a + 1 .. a + n : f[k] = x})

LEMMA WindowSize ==
  ASSUME NEW x, NEW f, NEW a \in Nat, NEW n \in Nat
  PROVE  Window(x, f, a, n) \in Nat /\ IsFiniteSet({k \in a + 1 .. a + n : f[k] = x})
<1>1. IsFiniteSet(a + 1 .. a + n)
  <2>1. a + 1 \in Int /\ a + n \in Int
    OBVIOUS
  <2> QED BY ONLY <2>1, FS_Interval
<1>2. IsFiniteSet({k \in a + 1 .. a + n : f[k] = x})
  BY <1>1, FS_Subset
<1> QED BY <1>2, FS_CardinalityType DEF Window

(* A window falls into two...                                              *)
LEMMA WindowSplits ==
  ASSUME NEW x, NEW f, NEW a \in Nat, NEW n \in Nat, NEW m \in Nat
  PROVE  Window(x, f, a, n + m) = Window(x, f, a, n) + Window(x, f, a + n, m)
<1> DEFINE S == {k \in a + 1 .. a + n : f[k] = x}
           T == {k \in a + n + 1 .. a + n + m : f[k] = x}
<1>1. {k \in a + 1 .. a + (n + m) : f[k] = x} = S \cup T /\ S \cap T = {}
  OBVIOUS
<1>2. IsFiniteSet(S) /\ Window(x, f, a, n) = Cardinality(S) /\ Cardinality(S) \in Nat
  BY WindowSize DEF Window
<1>3. IsFiniteSet(T) /\ Window(x, f, a + n, m) = Cardinality(T) /\ Cardinality(T) \in Nat
  <2>1. a + n \in Nat
    OBVIOUS
  <2> QED BY <2>1, WindowSize DEF Window
<1>4. Window(x, f, a, n + m) = Cardinality(S \cup T)
  BY <1>1 DEF Window
<1> HIDE DEF S, T
<1>5. Cardinality(S \cup T) = Cardinality(S) + Cardinality(T) - Cardinality(S \cap T)
  BY ONLY <1>2, <1>3, FS_Union
<1>6. Cardinality(S \cap T) = 0
  BY <1>1, FS_EmptySet
<1> QED BY <1>2, <1>3, <1>4, <1>5, <1>6

(* ... and has as many of an object as any other with the same elements.   *)
LEMMA WindowsAlike ==
  ASSUME NEW x, NEW f, NEW g, NEW a \in Nat, NEW b \in Nat, NEW n \in Nat,
         \A k \in 1 .. n : f[a + k] = g[b + k]
  PROVE  Window(x, f, a, n) = Window(x, g, b, n)
<1> DEFINE S == {k \in a + 1 .. a + n : f[k] = x}
           T == {k \in b + 1 .. b + n : g[k] = x}
           h == [k \in S |-> k - a + b]
<1>1. h \in Bijection(S, T)
  <2>1. ASSUME NEW k \in S PROVE k - a + b \in T
    <3>1. k - a \in 1 .. n /\ a + (k - a) = k /\ b + (k - a) = k - a + b
      OBVIOUS
    <3> QED BY <3>1
  <2>2. ASSUME NEW k \in T PROVE \E i \in S : i - a + b = k
    <3>1. k - b \in 1 .. n /\ b + (k - b) = k /\ a + (k - b) \in a + 1 .. a + n
      OBVIOUS
    <3>2. a + (k - b) \in S
      BY <3>1
    <3>3. (a + (k - b)) - a + b = k
      OBVIOUS
    <3> QED BY <3>2, <3>3
  <2>3. \A i, k \in S : i - a + b = k - a + b => i = k
    OBVIOUS
  <2> HIDE DEF S, T
  <2>4. h \in [S -> T] /\ \A t \in T : \E i \in S : h[i] = t
    BY <2>1, <2>2
  <2>5. \A i, k \in S : h[i] = h[k] => i = k
    BY <2>3
  <2> QED BY <2>4, <2>5 DEF Bijection, Injection, Surjection, IsInjective
<1>2. IsFiniteSet(S)
  BY WindowSize
<1> HIDE DEF S, T, h
<1>3. Cardinality(S) = Cardinality(T)
  BY <1>1, <1>2, FS_Bijection DEF ExistsBijection
<1> QED BY <1>3 DEF S, T, Window

(* g is f with the n elements of s put in behind the first p.              *)
Spliced(g, f, s, p, m, n) ==
  /\ \A k \in 1 .. p : g[k] = f[k]
  /\ \A k \in 1 .. n : g[p + k] = s[k]
  /\ \A k \in 1 .. m - p : g[p + n + k] = f[p + k]

LEMMA SplicedTimes ==
  ASSUME NEW x, NEW m, m \in Nat, NEW n, n \in Nat, NEW p, p \in 0 .. m,
         NEW f, NEW g, NEW s, DOMAIN f = 1 .. m, DOMAIN g = 1 .. m + n, DOMAIN s = 1 .. n,
         Spliced(g, f, s, p, m, n)
  PROVE  /\ Times(x, g) = Times(x, f) + Times(x, s)
         /\ Times(x, f) \in Nat /\ Times(x, s) \in Nat
<1> DEFINE r == m - p
<1>1. /\ Times(x, g) = Window(x, g, 0, m + n)
      /\ Times(x, f) = Window(x, f, 0, m)
      /\ Times(x, s) = Window(x, s, 0, n)
  <2>1. 0 + 1 = 1 /\ 0 + m = m /\ 0 + n = n /\ 0 + (m + n) = m + n
    OBVIOUS
  <2>2. Times(x, g) = Window(x, g, 0, m + n)
    BY <2>1 DEF Times, Window
  <2>3. Times(x, f) = Window(x, f, 0, m)
    BY <2>1 DEF Times, Window
  <2>4. Times(x, s) = Window(x, s, 0, n)
    BY <2>1 DEF Times, Window
  <2> QED BY <2>2, <2>3, <2>4
<1>n0. 0 \in Nat
  OBVIOUS
<1>np. p \in Nat
  OBVIOUS
<1>nr. r \in Nat
  OBVIOUS
<1>npn. p + n \in Nat
  OBVIOUS
<1>nnr. n + r \in Nat
  OBVIOUS
<1>e1. m = p + r
  OBVIOUS
<1>e2. m + n = p + (n + r)
  OBVIOUS
<1>e3. 0 + p = p
  OBVIOUS
<1>spl. /\ \A k \in 1 .. p : g[k] = f[k]
        /\ \A k \in 1 .. n : g[p + k] = s[k]
        /\ \A k \in 1 .. r : g[p + n + k] = f[p + k]
  BY DEF Spliced
<1> HIDE DEF r
<1>3. Window(x, f, 0, p + r) = Window(x, f, 0, p) + Window(x, f, p, r)
  <2>1. Window(x, f, 0, p + r) = Window(x, f, 0, p) + Window(x, f, 0 + p, r)
    BY ONLY <1>n0, <1>np, <1>nr, WindowSplits
  <2> QED BY <2>1, <1>e3
<1>4. Window(x, g, 0, p + (n + r)) = Window(x, g, 0, p) + Window(x, g, p, n + r)
  <2>1. Window(x, g, 0, p + (n + r)) = Window(x, g, 0, p) + Window(x, g, 0 + p, n + r)
    BY ONLY <1>n0, <1>np, <1>nnr, WindowSplits
  <2> QED BY <2>1, <1>e3
<1>5. Window(x, g, p, n + r) = Window(x, g, p, n) + Window(x, g, p + n, r)
  <2>1. n \in Nat
    OBVIOUS
  <2>2. \A b, c, d : b \in Nat /\ c \in Nat /\ d \in Nat =>
          Window(x, g, b, c + d) = Window(x, g, b, c) + Window(x, g, b + c, d)
    BY ONLY WindowSplits
  <2> QED BY ONLY <2>1, <2>2, <1>np, <1>nr
<1>6. Window(x, g, 0, p) = Window(x, f, 0, p)
  <2>1. \A k \in 1 .. p : g[0 + k] = f[0 + k]
    BY <1>spl
  <2> QED BY ONLY <1>n0, <1>np, <2>1, WindowsAlike
<1>7. Window(x, g, p, n) = Window(x, s, 0, n)
  <2>1. \A k \in 1 .. n : g[p + k] = s[0 + k]
    BY <1>spl
  <2>2. n \in Nat
    OBVIOUS
  <2> QED BY ONLY <1>n0, <1>np, <2>1, <2>2, WindowsAlike
<1>8. Window(x, g, p + n, r) = Window(x, f, p, r)
  <2> QED BY ONLY <1>spl, <1>npn, <1>np, <1>nr, WindowsAlike
<1>9. /\ Window(x, f, 0, p) \in Nat /\ Window(x, f, p, r) \in Nat
      /\ Window(x, s, 0, n) \in Nat
  <2>1. Window(x, f, 0, p) \in Nat
    BY ONLY <1>n0, <1>np, WindowSize
  <2>2. Window(x, f, p, r) \in Nat
    BY ONLY <1>nr, <1>np, WindowSize
  <2>3. n \in Nat
    OBVIOUS
  <2>4. Window(x, s, 0, n) \in Nat
    BY ONLY <1>n0, <2>3, WindowSize
  <2> QED BY <2>1, <2>2, <2>4
<1>10. Window(x, g, 0, m + n) = Window(x, g, 0, p + (n + r)) /\ Window(x, f, 0, m) = Window(x, f, 0, p + r)
  BY <1>e1, <1>e2
<1> HIDE DEF Times, Window
<1> QED BY ONLY <1>1, <1>3, <1>4, <1>5, <1>6, <1>7, <1>8, <1>9, <1>10

(* The same, for one element, in the words of the list.                    *)
LEMMA SplicedIsInserted ==
  ASSUME NEW m \in Nat, NEW p \in 0 .. m, NEW S, NEW x \in S,
         NEW f \in [1 .. m -> S], NEW g \in [1 .. m + 1 -> S],
         Spliced(g, f, <<x>>, p, m, 1)
  PROVE  g = InsertAt(f, p + 1, x)
<1>1. f \in Seq(S) /\ g \in Seq(S) /\ Len(f) = m /\ Len(g) = m + 1
  OBVIOUS
<1> DEFINE a == SubSeq(f, 1, p)
           b == SubSeq(f, p + 1, m)
           h == a \o <<x>> \o b
<1>2. /\ a \in Seq(S) /\ Len(a) = p /\ \A k \in 1 .. p : a[k] = f[k]
      /\ b \in Seq(S) /\ Len(b) = m - p /\ \A k \in 1 .. m - p : b[k] = f[p + k]
  BY <1>1
<1> HIDE DEF a, b
<1>3. h \in Seq(S) /\ Len(h) = m + 1
  BY <1>2
<1>4. ASSUME NEW k \in 1 .. m + 1 PROVE h[k] = g[k]
  <2>1. CASE k <= p
    <3>1. k \in 1 .. p
      BY <2>1
    <3> QED BY <1>2, <3>1 DEF Spliced
  <2>2. CASE k = p + 1
    <3>1. g[p + 1] = x
      <4>1. 1 \in 1 .. 1
        OBVIOUS
      <4> QED BY <4>1 DEF Spliced
    <3>2. /\ a \o <<x>> \in Seq(S) /\ Len(a \o <<x>>) = p + 1
          /\ (a \o <<x>>)[p + 1] = x
      <4>1. p \in Nat /\ a \in Seq(S) /\ Len(a) = p /\ x \in S
        BY <1>2
      <4>2. <<x>> \in Seq(S) /\ Len(<<x>>) = 1 /\ <<x>>[1] = x
        OBVIOUS
      <4> QED BY ONLY <4>1, <4>2
    <3>3. h[k] = (a \o <<x>>)[p + 1]
      BY <1>2, <2>2, <3>2
    <3> QED BY <2>2, <3>1, <3>2, <3>3
  <2>3. CASE k > p + 1
    <3>1. k - (p + 1) \in 1 .. m - p /\ p + 1 + (k - (p + 1)) = k
      BY <2>3
    <3>2. g[k] = f[p + (k - (p + 1))]
      BY <3>1 DEF Spliced
    <3>3. h[k] = b[k - (p + 1)]
      BY <1>2, <2>3
    <3> QED BY <1>2, <3>1, <3>2, <3>3
  <2>4. k \in Nat /\ p \in Nat
    OBVIOUS
  <2>5. k <= p \/ k = p + 1 \/ k > p + 1
    BY <2>4
  <2> HIDE DEF h
  <2> QED BY <2>1, <2>2, <2>3, <2>5
<1> HIDE DEF h
<1>5. g = h
  BY <1>1, <1>3, <1>4
<1>6. InsertAt(f, p + 1, x) = h
  <2>1. (p + 1) - 1 = p /\ Len(f) = m
    BY <1>1
  <2> QED BY <2>1 DEF InsertAt, a, b, h
<1> QED BY <1>5, <1>6

LEMMA SplicedIsRemoved ==
  ASSUME NEW m \in Nat, NEW p \in 0 .. m, NEW S, NEW s,
         NEW f \in [1 .. m -> S], NEW g \in [1 .. m + 1 -> S],
         Spliced(g, f, s, p, m, 1)
  PROVE  f = RemoveAt(g, p + 1)
<1>1. f \in Seq(S) /\ g \in Seq(S) /\ Len(f) = m /\ Len(g) = m + 1
  OBVIOUS
<1> DEFINE a == SubSeq(g, 1, p)
           b == SubSeq(g, p + 2, m + 1)
           h == a \o b
<1>2. /\ a \in Seq(S) /\ Len(a) = p /\ \A k \in 1 .. p : a[k] = g[k]
      /\ b \in Seq(S) /\ Len(b) = m - p /\ \A k \in 1 .. m - p : b[k] = g[p + 1 + k]
  BY <1>1
<1> HIDE DEF a, b
<1>3. h \in Seq(S) /\ Len(h) = m
  BY <1>2
<1>4. ASSUME NEW k \in 1 .. m PROVE h[k] = f[k]
  <2>1. CASE k <= p
    <3>1. k \in 1 .. p
      BY <2>1
    <3> QED BY <1>2, <3>1 DEF Spliced
  <2>2. CASE k > p
    <3>1. k - p \in 1 .. m - p /\ p + (k - p) = k
      BY <2>2
    <3>2. h[k] = b[k - p]
      BY <1>2, <2>2
    <3>3. b[k - p] = g[p + 1 + (k - p)]
      BY <1>2, <3>1
    <3>4. g[p + 1 + (k - p)] = f[p + (k - p)]
      BY <3>1 DEF Spliced
    <3> QED BY <3>1, <3>2, <3>3, <3>4
  <2>4. k \in Nat /\ p \in Nat
    OBVIOUS
  <2>5. k <= p \/ k > p
    BY <2>4
  <2> HIDE DEF h
  <2> QED BY <2>1, <2>2, <2>5
<1> HIDE DEF h
<1>5. f = h
  BY <1>1, <1>3, <1>4
<1>6. RemoveAt(g, p + 1) = h
  <2>1. (p + 1) - 1 = p /\ (p + 1) + 1 = p + 2 /\ Len(g) = m + 1
    BY <1>1
  <2> QED BY <2>1 DEF RemoveAt, a, b, h
<1> QED BY <1>5, <1>6

-----------------------------------------------------------------------------
(* What is always so: with an array the capacity is one of the capacities, *)
(* every cell before the size holds an object, and every object put in is  *)
(* accounted for.                                                          *)
CellsHold ==
  /\ capacity \in {0} \cup Capacities
  /\ size \in 0 .. capacity
  /\ array \in [Cells(capacity) -> Object \cup {Junk}]
  /\ \A c \in Cells(size) : array[c] \in Object

Inv ==
  /\ CellsHold
  /\ stored \in Counts
  /\ extracted \in [Object -> Nat] /\ destructed \in [Object -> Nat]
  /\ EachObjectOnce

LEMMA DoubledFits ==
  ASSUME NEW n, n \in Nat, n <= DYN_MAX_CAPACITY
  PROVE  Doubled(n) \in Capacities /\ Doubled(n) >= n /\ Doubled(n) \in Nat
<1> DEFINE S == {c \in Capacities : c >= n}
<1>1. Capacities \subseteq Nat
  BY DynArrayConstants DEF Capacities
<1>2. S \in SUBSET Nat /\ S # {}
  <2>1. DYN_MAX_CAPACITY \in S
    BY DynArrayConstants
  <2> QED BY <1>1, <2>1
<1>3. Doubled(n) = Min(S)
  BY DEF Doubled
<1>4. \A c \in S : c \in Capacities /\ c >= n /\ c \in Nat
  BY <1>1
<1> HIDE DEF S
<1>5. Min(S) \in S
  BY <1>2, MinOfNaturals
<1> QED BY <1>3, <1>4, <1>5

LEMMA GrownFits ==
  ASSUME CellsHold, capacity # 0, NEW n, n \in Nat,
         capacity >= size + n \/ size + n <= DYN_MAX_CAPACITY
  PROVE  /\ GrownCapacity(n) \in Capacities /\ GrownCapacity(n) \in Nat
         /\ GrownCapacity(n) >= size + n /\ GrownCapacity(n) >= capacity
<1>1. capacity \in Capacities /\ capacity \in Nat /\ size \in Nat /\ size + n \in Nat
  BY DynArrayConstants DEF CellsHold, Capacities
<1>2. CASE capacity >= size + n
  BY <1>1, <1>2 DEF GrownCapacity
<1>3. CASE ~ (capacity >= size + n)
  <2>1. GrownCapacity(n) = Doubled(size + n)
    BY <1>3 DEF GrownCapacity
  <2>2. /\ Doubled(size + n) \in Capacities /\ Doubled(size + n) >= size + n
        /\ Doubled(size + n) \in Nat
    BY <1>1, <1>3, DoubledFits
  <2> HIDE DEF CellsHold
  <2> QED BY <1>1, <1>3, <2>1, <2>2
<1> QED BY <1>2, <1>3

(* The two moves of an insertion, and the one of a removal, cell by cell:  *)
(* x is at p and the cells from p on are one further, or the cells behind  *)
(* the n at p are at p.                                                    *)
GapFilled(new, old, p, n, x) ==
  /\ \A c \in Cells(p) : new[c] = old[c]
  /\ new[p] = x
  /\ \A c \in p + 1 .. n : new[c] = old[c - 1]

GapClosed(new, old, p, m, n) ==
  /\ \A c \in Cells(p) : new[c] = old[c]
  /\ \A c \in p .. m - 1 : new[c] = old[c + n]

LEMMA CellsInserted ==
  ASSUME NEW S, NEW x \in S, NEW b, b \in Nat, NEW n, n \in Nat, n + 1 <= b,
         NEW p, p \in 0 .. n, NEW old \in [Cells(b) -> S]
  PROVE  /\ memcpy(memmove(old, p + 1, p, n - p), p, <<x>>) \in [Cells(b) -> S]
         /\ GapFilled(memcpy(memmove(old, p + 1, p, n - p), p, <<x>>), old, p, n, x)
<1> DEFINE mid == memmove(old, p + 1, p, n - p)
           new == memcpy(mid, p, <<x>>)
<1>1. mid = [c \in Cells(b) |-> IF c \in p + 1 .. n THEN old[c - 1] ELSE old[c]]
  <2>1. \A c \in Cells(b) : c \in p + 1 .. (p + 1) + (n - p) - 1 <=> c \in p + 1 .. n
    BY DEF Cells
  <2>2. \A c \in p + 1 .. n : p + (c - (p + 1)) = c - 1
    OBVIOUS
  <2> QED BY <2>1, <2>2 DEF memmove
<1>2. new = [c \in Cells(b) |-> IF c = p THEN x ELSE mid[c]]
  <2>1. \A c \in Cells(b) : c \in p .. p + Len(<<x>>) - 1 <=> c = p
    BY DEF Cells
  <2>2. <<x>>[p - p + 1] = x
    OBVIOUS
  <2>3. DOMAIN mid = Cells(b)
    BY <1>1
  <2> HIDE DEF mid
  <2> QED BY <2>1, <2>2, <2>3 DEF memcpy
<1>3. \A c \in p + 1 .. n : c \in Cells(b) /\ c - 1 \in Cells(b) /\ c # p
  BY DEF Cells
<1>4. \A c \in Cells(p) : c \in Cells(b) /\ c # p /\ c \notin p + 1 .. n
  BY DEF Cells
<1>5. p \in Cells(b)
  BY DEF Cells
<1> HIDE DEF mid, new
<1>6. mid \in [Cells(b) -> S]
  BY <1>1, <1>3
<1>7. new \in [Cells(b) -> S]
  BY <1>2, <1>6
<1>8. \A c \in Cells(p) : new[c] = old[c]
  BY <1>1, <1>2, <1>4
<1>9. new[p] = x
  BY <1>2, <1>5
<1>10. \A c \in p + 1 .. n : new[c] = old[c - 1]
  BY <1>1, <1>2, <1>3
<1> QED BY <1>7, <1>8, <1>9, <1>10 DEF new, mid, GapFilled

LEMMA CellsRemoved ==
  ASSUME NEW S, NEW b, b \in Nat, NEW m, m \in Nat, NEW n, n \in Nat, m + n <= b,
         NEW p, p \in 0 .. m, NEW old \in [Cells(b) -> S]
  PROVE  /\ memmove(old, p, p + n, (m + n) - (p + n)) \in [Cells(b) -> S]
         /\ GapClosed(memmove(old, p, p + n, (m + n) - (p + n)), old, p, m, n)
<1> DEFINE new == memmove(old, p, p + n, (m + n) - (p + n))
<1>1. new = [c \in Cells(b) |-> IF c \in p .. m - 1 THEN old[c + n] ELSE old[c]]
  <2>1. \A c \in Cells(b) : c \in p .. p + ((m + n) - (p + n)) - 1 <=> c \in p .. m - 1
    BY DEF Cells
  <2>2. \A c \in p .. m - 1 : (p + n) + (c - p) = c + n
    OBVIOUS
  <2> QED BY <2>1, <2>2 DEF memmove
<1>3. \A c \in p .. m - 1 : c \in Cells(b) /\ c + n \in Cells(b)
  BY DEF Cells
<1>4. \A c \in Cells(p) : c \in Cells(b) /\ c \notin p .. m - 1
  BY DEF Cells
<1> HIDE DEF new
<1>5. new \in [Cells(b) -> S]
  BY <1>1, <1>3
<1>6. \A c \in Cells(p) : new[c] = old[c]
  BY <1>1, <1>4
<1>7. \A c \in p .. m - 1 : new[c] = old[c + n]
  BY <1>1, <1>3
<1> QED BY <1>5, <1>6, <1>7 DEF new, GapClosed

-----------------------------------------------------------------------------
(* Before and after a call, the objects as a list of the abstract module.  *)
LEMMA ItemsAreObjects ==
  ASSUME CellsHold
  PROVE  Items \in [1 .. size -> Object] /\ size \in Nat /\ capacity \in Nat
<1>1. size \in Nat /\ capacity \in Nat
  BY DynArrayConstants DEF CellsHold, Capacities
<1>2. \A k \in 1 .. size : k - 1 \in Cells(size)
  BY <1>1 DEF Cells
<1> QED BY <1>1, <1>2 DEF Items, CellsHold

LEMMA ItemsAreObjectsNext == CellsHold' => (Items \in [1 .. size -> Object] /\ size \in Nat)'
<1>1. CellsHold => Items \in [1 .. size -> Object] /\ size \in Nat
  BY ItemsAreObjects
<1> QED BY <1>1, PTL

LEMMA TimesNat ==
  ASSUME NEW x, NEW s, NEW n, n \in Nat, DOMAIN s = 1 .. n
  PROVE  Times(x, s) \in Nat
<1>1. 0 + 1 = 1 /\ 0 + n = n /\ 0 \in Nat
  OBVIOUS
<1>2. Times(x, s) = Window(x, s, 0, n)
  BY <1>1 DEF Times, Window
<1>3. Window(x, s, 0, n) \in Nat
  BY ONLY <1>1, n \in Nat, WindowSize
<1> QED BY <1>2, <1>3

LEMMA TimesOfNone ==
  ASSUME NEW x, NEW s, DOMAIN s = {}
  PROVE  Times(x, s) = 0
<1>1. {k \in DOMAIN s : s[k] = x} = {}
  OBVIOUS
<1> QED BY <1>1, FS_EmptySet DEF Times

(* An insertion of one object.                                             *)
LEMMA InsertEffect ==
  ASSUME Inv, NEW x \in Object, NEW p, p \in 0 .. size, dyn_shift_insert(p, <<x>>)
  PROVE  /\ CellsHold'
         /\ size' = size + 1
         /\ Spliced(Items', Items, <<x>>, p, size, 1)
<1>len. Len(<<x>>) = 1
  OBVIOUS
<1> DEFINE b == GrownCapacity(1)
           old == Grown(1)
           S == Object \cup {Junk}
<1>1. /\ capacity' = b /\ size' = size + 1 /\ capacity # 0
      /\ array' = memcpy(memmove(old, p + 1, p, size - p), p, <<x>>)
      /\ capacity >= size + 1 \/ size + 1 <= DYN_MAX_CAPACITY
  BY <1>len DEF dyn_shift_insert
<1>2. CellsHold /\ size \in Nat /\ capacity \in Nat /\ size <= capacity
  BY ItemsAreObjects DEF Inv, CellsHold
<1>3. b \in Capacities /\ b \in Nat /\ b >= size + 1 /\ b >= capacity
  BY <1>1, <1>2, GrownFits
<1>4. old \in [Cells(b) -> S] /\ \A c \in Cells(size) : old[c] = array[c]
  <2> HIDE DEF b
  <2>1. old = [c \in Cells(b) |-> IF c < capacity THEN array[c] ELSE Junk]
    BY DEF Grown, b
  <2>2. \A c \in Cells(b) : c < capacity => c \in Cells(capacity)
    BY <1>2, <1>3 DEF Cells
  <2>3. array \in [Cells(capacity) -> S]
    BY <1>2 DEF CellsHold
  <2>4. \A c \in Cells(size) : c \in Cells(b) /\ c < capacity
    BY <1>2, <1>3 DEF Cells
  <2> HIDE DEF old, Cells
  <2> QED BY <2>1, <2>2, <2>3, <2>4
<1>5. x \in S /\ size + 1 <= b
  BY <1>2, <1>3
<1> HIDE DEF b, old, S
<1>6. /\ array' \in [Cells(b) -> S]
      /\ \A c \in Cells(p) : array'[c] = old[c]
      /\ array'[p] = x
      /\ \A c \in p + 1 .. size : array'[c] = old[c - 1]
  <2>1. b \in Nat
    BY <1>3
  <2>2. size \in Nat
    BY <1>2
  <2>3. old \in [Cells(b) -> S]
    BY <1>4
  <2>4. x \in S
    BY <1>5
  <2>5. size + 1 <= b
    BY <1>5
  <2>6. /\ memcpy(memmove(old, p + 1, p, size - p), p, <<x>>) \in [Cells(b) -> S]
        /\ GapFilled(memcpy(memmove(old, p + 1, p, size - p), p, <<x>>), old, p, size, x)
    BY ONLY <2>1, <2>2, <2>3, <2>4, <2>5, p \in 0 .. size, CellsInserted
  <2>7. array' \in [Cells(b) -> S] /\ GapFilled(array', old, p, size, x)
    BY ONLY <2>6, <1>1
  <2> QED BY <2>7 DEF GapFilled
<1>7. /\ \A c \in Cells(p) : c \in Cells(size)
      /\ \A c \in p + 1 .. size : c - 1 \in Cells(size)
      /\ \A c \in Cells(size + 1) : c \in Cells(p) \/ c = p \/ c \in p + 1 .. size
  BY <1>2 DEF Cells
<1>8. /\ \A c \in Cells(p) : array'[c] = array[c]
      /\ \A c \in p + 1 .. size : array'[c] = array[c - 1]
  BY <1>4, <1>6, <1>7
<1>9. \A c \in Cells(size + 1) : array'[c] \in Object
  <2>1. \A c \in Cells(size) : array[c] \in Object
    BY <1>2 DEF CellsHold
  <2> HIDE DEF Cells
  <2> QED BY <1>6, <1>7, <1>8, <2>1
<1>10. CellsHold'
  <2>1. capacity' \in Capacities /\ size' \in 0 .. capacity'
    BY <1>1, <1>2, <1>3
  <2> HIDE DEF Cells
  <2> QED BY <1>1, <1>6, <1>9, <2>1 DEF CellsHold, S, Cells
<1>11. Spliced(Items', Items, <<x>>, p, size, 1)
  <2>1. Items' = [k \in 1 .. size + 1 |-> array'[k - 1]]
    BY <1>1 DEF Items
  <2>2. \A k \in 1 .. p : Items'[k] = Items[k]
    <3>1. \A k \in 1 .. p : k \in 1 .. size + 1 /\ k \in 1 .. size /\ k - 1 \in Cells(p)
      BY <1>2 DEF Cells
    <3> QED BY <2>1, <3>1, <1>8 DEF Items
  <2>3. \A k \in 1 .. 1 : Items'[p + k] = <<x>>[k]
    <3>1. p + 1 \in 1 .. size + 1 /\ (p + 1) - 1 = p /\ \A k \in 1 .. 1 : k = 1
      BY <1>2
    <3>2. Items'[p + 1] = x
      BY <2>1, <3>1, <1>6
    <3> QED BY <3>1, <3>2
  <2>4. \A k \in 1 .. size - p : Items'[p + 1 + k] = Items[p + k]
    <3>1. \A k \in 1 .. size - p :
            /\ p + 1 + k \in 1 .. size + 1 /\ p + k \in 1 .. size
            /\ (p + 1 + k) - 1 \in p + 1 .. size
            /\ ((p + 1 + k) - 1) - 1 = (p + k) - 1
      BY <1>2
    <3> QED BY <2>1, <3>1, <1>8 DEF Items
  <2> QED BY <2>2, <2>3, <2>4 DEF Spliced
<1> QED BY <1>1, <1>10, <1>11

(* The sum of position and count wraps only above SIZE_MAX, which is more  *)
(* than an array can hold.                                                 *)
LEMMA EndNoWrap ==
  ASSUME NEW p, p \in Nat, NEW n, n \in Nat, p + n <= SIZE_MAX
  PROVE  EndOf(p, n) = p + n
<1>1. SIZE_MAX + 1 \in Nat \ {0} /\ p + n \in 0 .. (SIZE_MAX + 1) - 1
  BY DynArrayConstants
<1> DEFINE W == SIZE_MAX + 1
           r == p + n
<1> HIDE DEF W, r
<1>2. W \in Nat \ {0} /\ r \in 0 .. W - 1
  BY <1>1 DEF W, r
<1>3. r % W = r
  BY ONLY <1>2, ModSmall
<1> QED BY <1>3 DEF W, r, EndOf

LEMMA SizeFits ==
  ASSUME Inv
  PROVE  size \in Nat /\ size < SIZE_MAX
<1>1. size \in Nat /\ capacity \in Nat /\ size <= capacity /\ capacity <= DYN_MAX_CAPACITY
  BY ItemsAreObjects, DynArrayConstants DEF Inv, CellsHold, Capacities
<1> QED BY <1>1, DynArrayConstants

(* A removal of n objects.                                                 *)
LEMMA RemoveEffect ==
  ASSUME Inv, NEW p, p \in Nat, NEW n, n \in Nat, p + n <= SIZE_MAX, dyn_shift_remove(p, n)
  PROVE  /\ CellsHold'
         /\ n > 0 /\ size' \in Nat /\ size = size' + n /\ p \in 0 .. size'
         /\ Removed(p, n) \in [1 .. n -> Object]
         /\ Spliced(Items, Items', Removed(p, n), p, size', n)
<1> DEFINE m == size - n
           S == Object \cup {Junk}
<1>1. /\ capacity' = capacity /\ size' = m
      /\ array' = memmove(array, p, p + n, size - (p + n))
      /\ n > 0 /\ p + n <= size
  <2>1. EndOf(p, n) = p + n
    BY EndNoWrap
  <2> QED BY <2>1 DEF dyn_shift_remove
<1>2. CellsHold /\ size \in Nat /\ capacity \in Nat /\ size <= capacity
  BY ItemsAreObjects DEF Inv, CellsHold
<1>3. m \in Nat /\ m + n = size /\ p \in 0 .. m /\ m + n <= capacity
  BY <1>1, <1>2
<1>4. array \in [Cells(capacity) -> S]
  BY <1>2 DEF CellsHold
<1> HIDE DEF m, S
<1>5. /\ array' \in [Cells(capacity) -> S]
      /\ \A c \in Cells(p) : array'[c] = array[c]
      /\ \A c \in p .. m - 1 : array'[c] = array[c + n]
  <2>1. m \in Nat
    BY <1>3
  <2>2. capacity \in Nat
    BY <1>2
  <2>3. p \in 0 .. m
    BY <1>3
  <2>4. m + n <= capacity
    BY <1>3
  <2>5. /\ memmove(array, p, p + n, (m + n) - (p + n)) \in [Cells(capacity) -> S]
        /\ GapClosed(memmove(array, p, p + n, (m + n) - (p + n)), array, p, m, n)
    BY ONLY <2>1, <2>2, <2>3, <2>4, <1>4, n \in Nat, CellsRemoved
  <2>6. m + n = size
    BY <1>3
  <2>7. array' \in [Cells(capacity) -> S] /\ GapClosed(array', array, p, m, n)
    BY ONLY <2>5, <2>6, <1>1
  <2> QED BY <2>7 DEF GapClosed
<1>6. /\ \A c \in Cells(p) : c \in Cells(size)
      /\ \A c \in p .. m - 1 : c + n \in Cells(size)
      /\ \A c \in Cells(m) : c \in Cells(p) \/ c \in p .. m - 1
  BY <1>2, <1>3 DEF Cells
<1>7. \A c \in Cells(m) : array'[c] \in Object
  <2>1. \A c \in Cells(size) : array[c] \in Object
    BY <1>2 DEF CellsHold
  <2> QED BY <1>5, <1>6, <2>1
<1>8. CellsHold'
  <2>1. capacity' \in {0} \cup Capacities
    BY <1>1, <1>2 DEF CellsHold
  <2>2. size' \in 0 .. capacity'
    BY <1>1, <1>2, <1>3
  <2> QED BY <1>1, <1>5, <1>7, <2>1, <2>2 DEF CellsHold, S, Cells
<1>9. Items \in [1 .. size -> Object]
  BY <1>2, ItemsAreObjects
<1>10. /\ Removed(p, n) \in [1 .. n -> Object]
       /\ \A k \in 1 .. n : Items[p + k] = Removed(p, n)[k]
  <2>1. Items \in Seq(Object) /\ Len(Items) = size
    BY <1>2, <1>9
  <2>2. p + 1 \in Nat /\ p + n \in Nat /\ (p + n) - (p + 1) + 1 = n /\ p + n <= size
    BY <1>1
  <2>3. Removed(p, n) = SubSeq(Items, p + 1, p + n)
    BY DEF Removed
  <2> HIDE DEF Removed, Items
  <2>4. Removed(p, n) = [k \in 1 .. n |-> Items[p + k]]
    BY <2>1, <2>2, <2>3, <1>2
  <2>5. \A k \in 1 .. n : p + k \in 1 .. size
    BY <2>2, <1>2
  <2> QED BY <2>4, <2>5, <1>9
<1>11. Spliced(Items, Items', Removed(p, n), p, m, n)
  <2>1. Items' = [k \in 1 .. m |-> array'[k - 1]]
    BY <1>1 DEF Items
  <2>2. \A k \in 1 .. p : Items[k] = Items'[k]
    <3>1. \A k \in 1 .. p : k \in 1 .. m /\ k \in 1 .. size /\ k - 1 \in Cells(p)
      BY <1>2, <1>3 DEF Cells
    <3> QED BY <2>1, <3>1, <1>5 DEF Items
  <2>3. \A k \in 1 .. m - p : Items[p + n + k] = Items'[p + k]
    <3>1. \A k \in 1 .. m - p :
            /\ p + n + k \in 1 .. size /\ p + k \in 1 .. m
            /\ (p + k) - 1 \in p .. m - 1
            /\ ((p + k) - 1) + n = (p + n + k) - 1
      BY <1>2, <1>3
    <3> QED BY <2>1, <3>1, <1>5 DEF Items
  <2> QED BY <2>2, <2>3, <1>10 DEF Spliced
<1> QED BY <1>1, <1>3, <1>8, <1>10, <1>11

-----------------------------------------------------------------------------
(* Every call keeps the invariant.  For the accounts: what a call puts in  *)
(* or takes out is, of every object, the difference of the lists.          *)
LEMMA InvInit == ASSUME Init PROVE Inv
<1>1. CellsHold
  <2>1. Cells(0) = {} /\ array = <<>> /\ DOMAIN <<>> = {}
    BY DEF Init, Cells
  <2>2. array \in [Cells(0) -> Object \cup {Junk}]
    BY <2>1
  <2> QED BY <2>1, <2>2 DEF Init, CellsHold
<1>2. \A x \in Object : Times(x, Items) = 0
  <2>1. DOMAIN Items = {}
    BY DEF Init, Items
  <2> QED BY <2>1, TimesOfNone
<1>3. stored \in Counts /\ extracted \in [Object -> Nat] /\ destructed \in [Object -> Nat]
  BY DynArrayConstants DEF Init, None, Counts
<1>4. EachObjectOnce
  BY <1>2 DEF EachObjectOnce, Init, None
<1> QED BY <1>1, <1>3, <1>4 DEF Inv

LEMMA TallyCounts ==
  ASSUME stored \in Counts, NEW s, NEW n, n \in Nat, DOMAIN s = 1 .. n, CanStore(s)
  PROVE  Tally(stored, s) \in Counts
<1>1. \A x \in Object : Times(x, s) \in Nat
  BY TimesNat
<1>2. \A x \in Object : Tally(stored, s)[x] = stored[x] + Times(x, s)
  BY DEF Tally
<1>3. \A x \in Object : stored[x] \in Nat
  BY DynArrayConstants DEF Counts
<1>4. \A x \in Object : Tally(stored, s)[x] \in 0 .. MaxStored
  BY <1>1, <1>2, <1>3, DynArrayConstants DEF CanStore
<1>5. Tally(stored, s) = [x \in Object |-> Tally(stored, s)[x]]
  BY DEF Tally
<1> QED BY <1>4, <1>5 DEF Counts

LEMMA TallyNat ==
  ASSUME NEW count \in [Object -> Nat], NEW s, NEW n, n \in Nat, DOMAIN s = 1 .. n
  PROVE  Tally(count, s) \in [Object -> Nat]
<1>1. \A x \in Object : Times(x, s) \in Nat
  BY TimesNat
<1> QED BY <1>1 DEF Tally

LEMMA InsertKeeps ==
  ASSUME Inv, NEW x \in Object, NEW p, p \in 0 .. size, dyn_shift_insert(p, <<x>>)
  PROVE  Inv' /\ Items' = InsertAt(Items, p + 1, x)
<1>1. CellsHold' /\ size' = size + 1 /\ Spliced(Items', Items, <<x>>, p, size, 1)
  BY InsertEffect
<1>2. CellsHold /\ stored \in Counts /\ EachObjectOnce
  BY DEF Inv
<1>3. Items \in [1 .. size -> Object] /\ size \in Nat
  BY <1>2, ItemsAreObjects
<1>4. Items' \in [1 .. size + 1 -> Object]
  BY <1>1, ItemsAreObjectsNext
<1>5. DOMAIN <<x>> = 1 .. 1 /\ 1 \in Nat
  OBVIOUS
<1>6. /\ stored' = Tally(stored, <<x>>) /\ extracted' = extracted /\ destructed' = destructed
      /\ CanStore(<<x>>)
  BY DEF dyn_shift_insert
<1>7. stored' \in Counts
  BY <1>2, <1>5, <1>6, TallyCounts
<1>8. ASSUME NEW y \in Object
      PROVE  stored'[y] = Times(y, Items') + extracted'[y] + destructed'[y]
  <2>1. /\ Times(y, Items') = Times(y, Items) + Times(y, <<x>>)
        /\ Times(y, Items) \in Nat /\ Times(y, <<x>>) \in Nat
    <3>1. DOMAIN Items = 1 .. size /\ DOMAIN Items' = 1 .. size + 1
      BY <1>3, <1>4
    <3>2. size \in Nat
      BY <1>3
    <3>3. Spliced(Items', Items, <<x>>, p, size, 1)
      BY <1>1
    <3>4. 1 \in Nat /\ DOMAIN <<x>> = 1 .. 1
      OBVIOUS
    <3> HIDE DEF Items, Times
    <3> QED BY ONLY <3>1, <3>2, <3>3, <3>4, p \in 0 .. size, SplicedTimes
  <2>2. stored'[y] = stored[y] + Times(y, <<x>>)
    BY <1>6 DEF Tally
  <2>3. stored[y] = Times(y, Items) + extracted[y] + destructed[y]
    BY <1>2 DEF EachObjectOnce
  <2>4. extracted[y] \in Nat /\ destructed[y] \in Nat
    BY DEF Inv
  <2> QED BY <1>6, <2>1, <2>2, <2>3, <2>4
<1>9. Items' = InsertAt(Items, p + 1, x)
  <2>1. size \in Nat
    BY <1>3
  <2>2. Items \in [1 .. size -> Object]
    BY <1>3
  <2>3. Spliced(Items', Items, <<x>>, p, size, 1)
    BY <1>1
  <2> QED BY ONLY <2>1, <2>2, <2>3, <1>4, p \in 0 .. size, x \in Object, SplicedIsInserted
<1> QED BY <1>1, <1>6, <1>7, <1>8, <1>9 DEF Inv, EachObjectOnce

(* A removal, whichever of the two counters has the objects.               *)
LEMMA RemoveAccounts ==
  ASSUME Inv, NEW p, p \in Nat, NEW n, n \in Nat, p + n <= SIZE_MAX, dyn_shift_remove(p, n)
  PROVE  /\ CellsHold' /\ stored' = stored
         /\ Removed(p, n) \in [1 .. n -> Object]
         /\ \A y \in Object :
              /\ Times(y, Items) = Times(y, Items') + Times(y, Removed(p, n))
              /\ Times(y, Items') \in Nat /\ Times(y, Removed(p, n)) \in Nat
<1>1. /\ CellsHold' /\ size' \in Nat /\ size = size' + n /\ p \in 0 .. size'
      /\ Removed(p, n) \in [1 .. n -> Object]
      /\ Spliced(Items, Items', Removed(p, n), p, size', n)
  BY RemoveEffect
<1>2. Items \in [1 .. size -> Object]
  BY ItemsAreObjects DEF Inv
<1>3. Items' \in [1 .. size' -> Object]
  BY <1>1, ItemsAreObjectsNext
<1>4. DOMAIN Items = 1 .. size' + n /\ DOMAIN Items' = 1 .. size' /\ DOMAIN Removed(p, n) = 1 .. n
  BY <1>1, <1>2, <1>3
<1>5. size' \in Nat
  BY <1>1
<1>6. p \in 0 .. size'
  BY <1>1
<1>7. Spliced(Items, Items', Removed(p, n), p, size', n)
  BY <1>1
<1>8. ASSUME NEW y \in Object
      PROVE  /\ Times(y, Items) = Times(y, Items') + Times(y, Removed(p, n))
             /\ Times(y, Items') \in Nat /\ Times(y, Removed(p, n)) \in Nat
  BY ONLY <1>4, <1>5, <1>6, <1>7, n \in Nat, SplicedTimes
<1> QED BY <1>1, <1>8 DEF dyn_shift_remove

LEMMA EraseKeeps ==
  ASSUME Inv, NEW p, p \in Nat, NEW n, n \in Nat, p + n <= SIZE_MAX, Erase(p, n)
  PROVE  Inv'
<1>1. dyn_shift_remove(p, n) /\ destructed' = Tally(destructed, Removed(p, n)) /\ extracted' = extracted
  BY DEF Erase
<1>2. /\ CellsHold' /\ stored' = stored
      /\ DOMAIN Removed(p, n) = 1 .. n
      /\ \A y \in Object :
           /\ Times(y, Items) = Times(y, Items') + Times(y, Removed(p, n))
           /\ Times(y, Items') \in Nat /\ Times(y, Removed(p, n)) \in Nat
  BY <1>1, RemoveAccounts
<1>3. destructed' \in [Object -> Nat]
  BY <1>1, <1>2, TallyNat DEF Inv
<1>4. ASSUME NEW y \in Object
      PROVE  stored'[y] = Times(y, Items') + extracted'[y] + destructed'[y]
  <2>1. destructed'[y] = destructed[y] + Times(y, Removed(p, n))
    BY <1>1 DEF Tally
  <2>2. stored[y] = Times(y, Items) + extracted[y] + destructed[y]
    BY DEF Inv, EachObjectOnce
  <2>3. extracted[y] \in Nat /\ destructed[y] \in Nat
    BY DEF Inv
  <2> QED BY <1>1, <1>2, <2>1, <2>2, <2>3
<1> QED BY <1>1, <1>2, <1>3, <1>4 DEF Inv, EachObjectOnce

LEMMA ExtractKeeps ==
  ASSUME Inv, NEW p, p \in Nat, p + 1 <= SIZE_MAX, Extract(p)
  PROVE  Inv'
<1>1. dyn_shift_remove(p, 1) /\ extracted' = Tally(extracted, Removed(p, 1)) /\ destructed' = destructed
  BY DEF Extract
<1>2. /\ CellsHold' /\ stored' = stored
      /\ DOMAIN Removed(p, 1) = 1 .. 1
      /\ \A y \in Object :
           /\ Times(y, Items) = Times(y, Items') + Times(y, Removed(p, 1))
           /\ Times(y, Items') \in Nat /\ Times(y, Removed(p, 1)) \in Nat
  <2>1. 1 \in Nat
    OBVIOUS
  <2> QED BY <1>1, <2>1, RemoveAccounts
<1>3. extracted' \in [Object -> Nat]
  BY <1>1, <1>2, TallyNat DEF Inv
<1>4. ASSUME NEW y \in Object
      PROVE  stored'[y] = Times(y, Items') + extracted'[y] + destructed'[y]
  <2>1. extracted'[y] = extracted[y] + Times(y, Removed(p, 1))
    BY <1>1 DEF Tally
  <2>2. stored[y] = Times(y, Items) + extracted[y] + destructed[y]
    BY DEF Inv, EachObjectOnce
  <2>3. extracted[y] \in Nat /\ destructed[y] \in Nat
    BY DEF Inv
  <2> QED BY <1>1, <1>2, <2>1, <2>2, <2>3
<1> QED BY <1>1, <1>2, <1>3, <1>4 DEF Inv, EachObjectOnce

(* One object gone is a deletion from the list, all of them an empty list. *)
LEMMA RemovedFromList ==
  ASSUME Inv, NEW p, p \in Nat, p + 1 <= SIZE_MAX, dyn_shift_remove(p, 1)
  PROVE  Items' = RemoveAt(Items, p + 1) /\ p + 1 \in 1 .. size
<1>1. /\ CellsHold' /\ size' \in Nat /\ size = size' + 1 /\ p \in 0 .. size'
      /\ Spliced(Items, Items', Removed(p, 1), p, size', 1)
  <2>1. 1 \in Nat
    OBVIOUS
  <2> QED BY <2>1, RemoveEffect
<1>2. Items \in [1 .. size' + 1 -> Object]
  BY <1>1, ItemsAreObjects DEF Inv
<1>3. Items' \in [1 .. size' -> Object]
  BY <1>1, ItemsAreObjectsNext
<1>4. size' \in Nat
  BY <1>1
<1>5. p \in 0 .. size'
  BY <1>1
<1>6. Spliced(Items, Items', Removed(p, 1), p, size', 1)
  BY <1>1
<1>7. Items' = RemoveAt(Items, p + 1)
  BY ONLY <1>2, <1>3, <1>4, <1>5, <1>6, SplicedIsRemoved
<1>8. p + 1 \in 1 .. size
  <2>1. \A m \in Nat, k \in Nat : k \in 0 .. m => k + 1 \in 1 .. m + 1
    OBVIOUS
  <2>2. size' \in Nat
    BY <1>1
  <2>3. p + 1 \in 1 .. size' + 1
    BY ONLY <2>1, <2>2, <1>5, p \in Nat
  <2>4. size = size' + 1
    BY <1>1
  <2> QED BY ONLY <2>3, <2>4
<1> QED BY ONLY <1>7, <1>8

LEMMA EmptyItems ==
  size' = 0 => /\ DOMAIN Items' = {} /\ Items' = <<>>
               /\ \A x \in Object : Times(x, Items') = 0
<1>1. SUFFICES ASSUME size' = 0 PROVE DOMAIN Items' = {} /\ Items' = <<>>
                                       /\ \A x \in Object : Times(x, Items') = 0
  OBVIOUS
<1>2. DOMAIN Items' = {} /\ Items' = [k \in {} |-> array'[k - 1]]
  BY <1>1 DEF Items
<1>3. Items' = <<>>
  BY <1>2
<1>4. \A x \in Object : Times(x, Items') = 0
  BY <1>2, TimesOfNone
<1> QED BY <1>2, <1>3, <1>4

LEMMA CreateKeeps ==
  ASSUME Inv, NEW n, n \in 0 .. DYN_MAX_CAPACITY + 1, dyn_array_create(n)
  PROVE  Inv' /\ Items' = Items
<1>1. /\ capacity = 0 /\ capacity' = Doubled(n) /\ size' = 0
      /\ array' = [c \in Cells(capacity') |-> Junk]
      /\ stored' = stored /\ extracted' = extracted /\ destructed' = destructed
      /\ n <= DYN_MAX_CAPACITY
  BY DEF dyn_array_create
<1>2. capacity' \in Capacities /\ capacity' \in Nat
  BY <1>1, DoubledFits
<1>3. size = 0
  BY <1>1 DEF Inv, CellsHold
<1>4. CellsHold'
  <2>1. Cells(0) = {}
    BY DEF Cells
  <2>2. array' \in [Cells(capacity') -> Object \cup {Junk}]
    BY <1>1
  <2>3. size' \in 0 .. capacity'
    BY <1>1, <1>2
  <2> QED BY <1>1, <1>2, <2>1, <2>2, <2>3 DEF CellsHold
<1>5. Items' = <<>> /\ \A x \in Object : Times(x, Items') = 0
  BY <1>1, EmptyItems
<1>6. Items = <<>> /\ \A x \in Object : Times(x, Items) = 0
  <2>1. Items = [k \in {} |-> array[k - 1]] /\ DOMAIN Items = {}
    BY <1>3 DEF Items
  <2> QED BY <2>1, TimesOfNone
<1>7. EachObjectOnce'
  BY <1>1, <1>5, <1>6 DEF EachObjectOnce, Inv
<1> QED BY <1>1, <1>4, <1>5, <1>6, <1>7 DEF Inv

LEMMA ImportKeeps ==
  ASSUME Inv, NEW n, n \in Nat, NEW data \in [1 .. n -> Object], dyn_array_import(data)
  PROVE  Inv' /\ Items = <<>> /\ Items' \in Seq(Object)
<1>1. /\ capacity = 0 /\ capacity' = Doubled(n) /\ size' = n
      /\ array' = memcpy([c \in Cells(capacity') |-> Junk], 0, data)
      /\ stored' = Tally(stored, data) /\ extracted' = extracted /\ destructed' = destructed
      /\ n <= DYN_MAX_CAPACITY /\ CanStore(data)
  <2>1. Len(data) = n
    OBVIOUS
  <2> QED BY <2>1 DEF dyn_array_import
<1>2. capacity' \in Capacities /\ capacity' \in Nat /\ capacity' >= n
  BY <1>1, DoubledFits
<1>3. size = 0
  BY <1>1 DEF Inv, CellsHold
<1>4. array' = [c \in Cells(capacity') |-> IF c \in Cells(n) THEN data[c + 1] ELSE Junk]
  <2>1. \A c \in Cells(capacity') : c \in 0 .. 0 + Len(data) - 1 <=> c \in Cells(n)
    BY DEF Cells
  <2>2. \A c \in Cells(capacity') : c - 0 + 1 = c + 1
    BY <1>2 DEF Cells
  <2> QED BY <1>1, <2>1, <2>2 DEF memcpy
<1>5. \A c \in Cells(n) : c \in Cells(capacity') /\ c + 1 \in 1 .. n
  <2>1. \A b \in Nat : b >= n =>
          \A c \in Cells(n) : c \in Cells(b) /\ c + 1 \in 1 .. n
    BY DEF Cells
  <2>2. capacity' \in Nat
    BY <1>2
  <2>3. capacity' >= n
    BY <1>2
  <2> QED BY ONLY <2>1, <2>2, <2>3
<1>6. CellsHold'
  <2>1. array' \in [Cells(capacity') -> Object \cup {Junk}]
    BY <1>4, <1>5
  <2>2. \A c \in Cells(n) : array'[c] \in Object
    BY <1>4, <1>5
  <2>3. size' \in 0 .. capacity'
    BY <1>1, <1>2
  <2> QED BY <1>1, <1>2, <2>1, <2>2, <2>3 DEF CellsHold
<1>7. Items' = data
  <2>1. \A k \in 1 .. n : k - 1 \in Cells(n) /\ (k - 1) + 1 = k
    BY DEF Cells
  <2>2. \A k \in 1 .. n : array'[k - 1] = data[k]
    <3> HIDE DEF Cells
    <3> QED BY <1>4, <1>5, <2>1
  <2>3. Items' = [k \in 1 .. n |-> array'[k - 1]]
    BY <1>1 DEF Items
  <2> QED BY <2>2, <2>3
<1>8. Items = <<>> /\ \A x \in Object : Times(x, Items) = 0
  <2>1. Items = [k \in {} |-> array[k - 1]] /\ DOMAIN Items = {}
    BY <1>3 DEF Items
  <2> QED BY <2>1, TimesOfNone
<1>9. stored' \in Counts
  BY <1>1, TallyCounts DEF Inv
<1>10. ASSUME NEW y \in Object
       PROVE  stored'[y] = Times(y, Items') + extracted'[y] + destructed'[y]
  <2>1. stored'[y] = stored[y] + Times(y, data)
    BY <1>1 DEF Tally
  <2>2. stored[y] = 0 + extracted[y] + destructed[y]
    BY <1>8 DEF Inv, EachObjectOnce
  <2>3. extracted[y] \in Nat /\ destructed[y] \in Nat
    BY DEF Inv
  <2>4. Times(y, data) \in Nat
    BY TimesNat
  <2> QED BY <1>1, <1>7, <2>1, <2>2, <2>3, <2>4
<1>11. Items' \in Seq(Object)
  BY <1>7
<1> QED BY <1>1, <1>6, <1>8, <1>9, <1>10, <1>11 DEF Inv, EachObjectOnce

LEMMA SortKeeps ==
  ASSUME Inv, dyn_array_sort
  PROVE  Inv' /\ Sorts(Items') /\ Items' \in [1 .. size -> Object]
<1>1. PICK t \in [1 .. size -> Object] : Sorts(t) /\ array' = memcpy(array, 0, t)
  BY DEF dyn_array_sort
<1>2. /\ capacity' = capacity /\ size' = size /\ stored' = stored
      /\ extracted' = extracted /\ destructed' = destructed
  BY DEF dyn_array_sort
<1>3. CellsHold /\ size \in Nat /\ capacity \in Nat /\ size <= capacity
  BY ItemsAreObjects DEF Inv, CellsHold
<1>4. array' = [c \in Cells(capacity) |-> IF c \in Cells(size) THEN t[c + 1] ELSE array[c]]
  <2>1. Len(t) = size
    BY <1>3
  <2>2. \A c \in Cells(capacity) : c \in 0 .. 0 + Len(t) - 1 <=> c \in Cells(size)
    BY <1>3, <2>1 DEF Cells
  <2>3. \A c \in Cells(capacity) : c - 0 + 1 = c + 1
    BY <1>3 DEF Cells
  <2>4. DOMAIN array = Cells(capacity)
    BY <1>3 DEF CellsHold
  <2> QED BY <1>1, <2>2, <2>3, <2>4 DEF memcpy
<1>5. \A c \in Cells(size) : c \in Cells(capacity) /\ c + 1 \in 1 .. size
  BY <1>3 DEF Cells
<1>6. CellsHold'
  <2>1. array \in [Cells(capacity) -> Object \cup {Junk}]
    BY <1>3 DEF CellsHold
  <2>2. array' \in [Cells(capacity) -> Object \cup {Junk}]
    BY <1>4, <1>5, <2>1
  <2>3. \A c \in Cells(size) : array'[c] \in Object
    BY <1>4, <1>5
  <2> QED BY <1>2, <1>3, <2>2, <2>3 DEF CellsHold
<1>7. Items' = t
  <2>1. \A k \in 1 .. size : k - 1 \in Cells(size) /\ (k - 1) + 1 = k
    BY <1>3 DEF Cells
  <2>2. \A k \in 1 .. size : array'[k - 1] = t[k]
    <3> HIDE DEF Cells
    <3> QED BY <1>4, <1>5, <2>1
  <2>3. Items' = [k \in 1 .. size |-> array'[k - 1]]
    BY <1>2 DEF Items
  <2> QED BY <2>2, <2>3
<1>8. \A y \in Object : Times(y, Items') = Times(y, Items)
  BY <1>1, <1>7 DEF Sorts
<1>9. EachObjectOnce'
  BY <1>2, <1>8 DEF EachObjectOnce, Inv
<1> QED BY <1>1, <1>2, <1>6, <1>7, <1>9 DEF Inv

LEMMA DestroyKeeps ==
  ASSUME Inv, dyn_array_destroy
  PROVE  Inv' /\ Items' = <<>>
<1>1. /\ capacity' = 0 /\ size' = 0 /\ array' = <<>>
      /\ destructed' = Tally(destructed, Items)
      /\ stored' = stored /\ extracted' = extracted
  BY DEF dyn_array_destroy
<1>2. Items \in [1 .. size -> Object] /\ size \in Nat
  BY ItemsAreObjects DEF Inv
<1>3. CellsHold'
  <2>1. Cells(0) = {} /\ array' \in [Cells(0) -> Object \cup {Junk}]
    BY <1>1 DEF Cells
  <2> QED BY <1>1, <2>1 DEF CellsHold
<1>4. Items' = <<>> /\ \A x \in Object : Times(x, Items') = 0
  BY <1>1, EmptyItems
<1>5. DOMAIN Items = 1 .. size
  BY <1>2
<1>6. destructed' \in [Object -> Nat]
  BY <1>1, <1>2, <1>5, TallyNat DEF Inv
<1>7. ASSUME NEW y \in Object
      PROVE  stored'[y] = Times(y, Items') + extracted'[y] + destructed'[y]
  <2>1. destructed'[y] = destructed[y] + Times(y, Items)
    BY <1>1 DEF Tally
  <2>2. stored[y] = Times(y, Items) + extracted[y] + destructed[y]
    BY DEF Inv, EachObjectOnce
  <2>3. extracted[y] \in Nat /\ destructed[y] \in Nat
    BY DEF Inv
  <2>4. Times(y, Items) \in Nat
    BY <1>2, <1>5, TimesNat
  <2>5. Times(y, Items') = 0
    BY <1>4
  <2> QED BY <1>1, <2>1, <2>2, <2>3, <2>4, <2>5
<1> QED BY <1>1, <1>3, <1>4, <1>6, <1>7 DEF Inv, EachObjectOnce

-----------------------------------------------------------------------------
(* Every step keeps the invariant and is one of the list, or leaves the    *)
(* list alone.                                                             *)
Follows == Inv' /\ (Abstract!Next \/ Items' = Items)

LEMMA ListLength == Inv => Len(Items) = size /\ size \in Nat
<1>1. SUFFICES ASSUME Inv PROVE Len(Items) = size /\ size \in Nat
  OBVIOUS
<1>2. Items \in [1 .. size -> Object] /\ size \in Nat
  BY <1>1, ItemsAreObjects DEF Inv
<1> HIDE DEF Items
<1> QED BY <1>2

LEMMA InsertFollows ==
  ASSUME Inv, NEW x \in Object, NEW p, p \in 0 .. size, dyn_shift_insert(p, <<x>>)
  PROVE  Follows
<1>1. Inv' /\ Items' = InsertAt(Items, p + 1, x)
  BY InsertKeeps
<1>2. p + 1 \in 1 .. Len(Items) + 1
  <2>1. Len(Items) = size /\ size \in Nat
    BY ListLength
  <2> QED BY <2>1
<1>3. \E i \in 1 .. Len(Items) + 1, y \in Object : Abstract!Insert(i, y)
  <2>1. Abstract!Insert(p + 1, x)
    BY <1>1 DEF Abstract!Insert, Abstract!InsertAt, InsertAt
  <2> QED BY <1>2, <2>1
<1> QED BY <1>1, <1>3 DEF Follows, Abstract!Next

LEMMA DeleteFollows ==
  ASSUME Inv, Inv', NEW p, p \in Nat, p + 1 <= SIZE_MAX, dyn_shift_remove(p, 1)
  PROVE  Follows
<1>1. Items' = RemoveAt(Items, p + 1) /\ p + 1 \in 1 .. size
  BY RemovedFromList
<1>2. p + 1 \in 1 .. Len(Items)
  BY <1>1, ListLength
<1>3. \E i \in 1 .. Len(Items) : Abstract!Delete(i)
  <2>1. Abstract!Delete(p + 1)
    BY <1>1 DEF Abstract!Delete, Abstract!RemoveAt, RemoveAt
  <2> QED BY <1>2, <2>1
<1> QED BY <1>3 DEF Follows, Abstract!Next

LEMMA EraseFollows ==
  ASSUME Inv, NEW p, p \in Nat, p + 1 <= SIZE_MAX, Erase(p, 1)
  PROVE  Follows
<1>1. Inv'
  <2>1. 1 \in Nat
    OBVIOUS
  <2> QED BY <2>1, EraseKeeps
<1> QED BY <1>1, DeleteFollows DEF Erase

LEMMA ExtractFollows ==
  ASSUME Inv, NEW p, p \in Nat, p + 1 <= SIZE_MAX, Extract(p)
  PROVE  Follows
<1>1. Inv'
  BY ExtractKeeps
<1> QED BY <1>1, DeleteFollows DEF Extract

LEMMA OrderedPositionIn ==
  ASSUME Inv, NEW x \in Object
  PROVE  OrderedPosition(x) \in 0 .. size
<1> DEFINE S == {k \in 0 .. size : k = size \/ x <= array[k]}
<1>1. size \in Nat
  BY ListLength
<1>2. S \in SUBSET Nat /\ S # {}
  <2>1. size \in S
    BY <1>1
  <2> QED BY <1>1, <2>1
<1>3. OrderedPosition(x) = Min(S) /\ S \subseteq 0 .. size
  BY DEF OrderedPosition
<1> HIDE DEF S
<1> QED BY <1>2, <1>3, MinOfNaturals

LEMMA InsertionFollows == ASSUME Inv, Insertion PROVE Follows
<1>1. size \in Nat
  BY ListLength
<1>2. PICK x \in Object :
        \/ dyn_array_push_front(x)
        \/ dyn_array_push_back(x)
        \/ \E i \in 0 .. SIZE_MAX : dyn_array_insert(i, x)
        \/ dyn_array_insert_sorted(x)
  BY DEF Insertion
<1>3. CASE dyn_array_push_front(x)
  <2>1. 0 \in 0 .. size /\ dyn_shift_insert(0, <<x>>)
    BY <1>1, <1>3 DEF dyn_array_push_front
  <2> QED BY <2>1, InsertFollows
<1>4. CASE dyn_array_push_back(x)
  <2>1. size \in 0 .. size /\ dyn_shift_insert(size, <<x>>)
    BY <1>1, <1>4 DEF dyn_array_push_back
  <2> QED BY <2>1, InsertFollows
<1>5. CASE \E i \in 0 .. SIZE_MAX : dyn_array_insert(i, x)
  <2>1. PICK i \in 0 .. SIZE_MAX : dyn_shift_insert(i, <<x>>)
    BY <1>5 DEF dyn_array_insert
  <2>2. i <= size
    BY <2>1 DEF dyn_shift_insert
  <2>3. i \in 0 .. size
    BY <1>1, <2>2
  <2> QED BY <2>1, <2>3, InsertFollows
<1>6. CASE dyn_array_insert_sorted(x)
  <2>1. dyn_shift_insert(OrderedPosition(x), <<x>>)
    BY <1>6 DEF dyn_array_insert_sorted
  <2> QED BY <2>1, OrderedPositionIn, InsertFollows
<1> QED BY <1>2, <1>3, <1>4, <1>5, <1>6

LEMMA RemovalFollows == ASSUME Inv, Removal PROVE Follows
<1>1. size \in Nat /\ size < SIZE_MAX /\ SIZE_MAX \in Nat
  BY SizeFits, DynArrayConstants
<1>2. 0 \in Nat /\ 0 + 1 <= SIZE_MAX /\ 0 + size <= SIZE_MAX
  BY <1>1
<1>3. CASE dyn_array_pop_front
  BY <1>2, <1>3, EraseFollows DEF dyn_array_pop_front
<1>4. CASE dyn_array_extract_front
  BY <1>2, <1>4, ExtractFollows DEF dyn_array_extract_front
<1>5. CASE dyn_array_pop_back
  <2>1. size - 1 \in Nat /\ (size - 1) + 1 <= SIZE_MAX /\ Erase(size - 1, 1)
    BY <1>1, <1>5 DEF dyn_array_pop_back
  <2> QED BY <2>1, EraseFollows
<1>6. CASE dyn_array_extract_back
  <2>1. size - 1 \in Nat /\ (size - 1) + 1 <= SIZE_MAX /\ Extract(size - 1)
    BY <1>1, <1>6 DEF dyn_array_extract_back
  <2> QED BY <2>1, ExtractFollows
<1>7. CASE \E i \in 0 .. SIZE_MAX - 1 : dyn_array_erase(i)
  <2>1. PICK i \in 0 .. SIZE_MAX - 1 : Erase(i, 1)
    BY <1>7 DEF dyn_array_erase
  <2>2. i \in Nat /\ i + 1 <= SIZE_MAX
    BY <1>1
  <2> QED BY <2>1, <2>2, EraseFollows
<1>9. CASE \E i \in 0 .. SIZE_MAX : dyn_array_extract(i)
  <2>1. PICK i \in 0 .. SIZE_MAX : size > i /\ Extract(i)
    BY <1>9 DEF dyn_array_extract
  <2>2. i \in Nat /\ i + 1 <= SIZE_MAX
    BY <1>1, <2>1
  <2> QED BY <2>1, <2>2, ExtractFollows
<1>8. CASE dyn_array_clear
  <2>1. Erase(0, size)
    BY <1>8 DEF dyn_array_clear
  <2>2. Inv'
    BY <1>1, <1>2, <2>1, EraseKeeps
  <2>3. size' = 0
    BY <1>1, <2>1 DEF Erase, dyn_shift_remove
  <2>4. Items' = <<>>
    BY <2>3, EmptyItems
  <2>5. Abstract!Clear
    BY <2>4 DEF Abstract!Clear
  <2> QED BY <2>2, <2>5 DEF Follows, Abstract!Next
<1> QED BY <1>3, <1>4, <1>5, <1>6, <1>7, <1>8, <1>9 DEF Removal

LEMMA SortFollows == ASSUME Inv, dyn_array_sort PROVE Follows
<1>1. Inv' /\ Sorts(Items') /\ Items' \in [1 .. size -> Object]
  BY SortKeeps
<1>2. size \in Nat /\ Len(Items) = size
  BY ListLength
<1>3. Items' \in Seq(Object) /\ Len(Items') = size
  BY <1>1, <1>2
<1>4. \A i, j \in 1 .. Len(Items) : i <= j => Items'[i] <= Items'[j]
  BY <1>1, <1>2 DEF Sorts
<1>5. \A x \in Object : Abstract!Times(x, Items') = Abstract!Times(x, Items)
  BY <1>1 DEF Sorts, Times, Abstract!Times, Cardinality, Abstract!Cardinality
<1>6. Abstract!Sort
  BY <1>2, <1>3, <1>4, <1>5 DEF Abstract!Sort
<1> QED BY <1>1, <1>6 DEF Follows, Abstract!Next

LEMMA NextFollows == ASSUME Inv, Next PROVE Follows
<1>1. CASE \E n \in 0 .. DYN_MAX_CAPACITY + 1 : dyn_array_create(n)
  BY <1>1, CreateKeeps DEF Follows
<1>2. CASE \E data \in SeqOf(Object, DYN_MAX_CAPACITY + 1) : dyn_array_import(data)
  <2>1. PICK data \in SeqOf(Object, DYN_MAX_CAPACITY + 1) : dyn_array_import(data)
    BY <1>2
  <2>2. PICK n \in 0 .. DYN_MAX_CAPACITY + 1 : data \in [1 .. n -> Object]
    BY DEF SeqOf
  <2>3. n \in Nat
    BY DynArrayConstants
  <2>4. Inv' /\ Items = <<>> /\ Items' \in Seq(Object)
    BY <2>1, <2>2, <2>3, ImportKeeps
  <2>5. Abstract!Load
    BY <2>4 DEF Abstract!Load
  <2> QED BY <2>4, <2>5 DEF Follows, Abstract!Next
<1>3. CASE Insertion
  BY <1>3, InsertionFollows
<1>4. CASE Removal
  BY <1>4, RemovalFollows
<1>5. CASE dyn_array_sort
  BY <1>5, SortFollows
<1>6. CASE dyn_array_destroy
  <2>1. Inv' /\ Items' = <<>>
    BY <1>6, DestroyKeeps
  <2>2. Abstract!Clear
    BY <2>1 DEF Abstract!Clear
  <2> QED BY <2>1, <2>2 DEF Follows, Abstract!Next
<1> QED BY <1>1, <1>2, <1>3, <1>4, <1>5, <1>6 DEF Next

LEMMA InvHolds == Spec => []Inv
<1>1. ASSUME Inv, UNCHANGED vars PROVE Inv'
  BY <1>1 DEF Inv, CellsHold, EachObjectOnce, Items, Times, Counts, Cells, vars
<1>2. Inv /\ [Next]_vars => Inv'
  BY <1>1, NextFollows DEF Follows
<1> QED BY <1>2, InvInit, PTL DEF Spec

(* Every state has its type: the capacity is never above the largest, and  *)
(* nothing is handed back or destructed more often than it was put in.     *)
THEOREM TypeCorrect == Spec => []TypeOK
<1>1. Inv => TypeOK
  <2>1. SUFFICES ASSUME Inv PROVE TypeOK
    OBVIOUS
  <2>2. capacity \in 0 .. DYN_MAX_CAPACITY
    BY <2>1, DynArrayConstants DEF Inv, CellsHold, Capacities
  <2>3. ASSUME NEW x \in Object
        PROVE  extracted[x] \in 0 .. MaxStored /\ destructed[x] \in 0 .. MaxStored
    <3>1. stored[x] \in 0 .. MaxStored /\ extracted[x] \in Nat /\ destructed[x] \in Nat
      BY <2>1 DEF Inv, Counts
    <3>2. Times(x, Items) \in Nat
      <4>1. Items \in [1 .. size -> Object] /\ size \in Nat
        BY <2>1, ItemsAreObjects DEF Inv
      <4>2. DOMAIN Items = 1 .. size
        BY <4>1
      <4> QED BY <4>1, <4>2, TimesNat
    <3>3. stored[x] = Times(x, Items) + extracted[x] + destructed[x]
      BY <2>1 DEF Inv, EachObjectOnce
    <3> QED BY <3>1, <3>2, <3>3, DynArrayConstants
  <2>4. extracted \in Counts /\ destructed \in Counts
    BY <2>1, <2>3 DEF Inv, Counts
  <2> QED BY <2>1, <2>2, <2>4 DEF Inv, CellsHold, TypeOK
<1> QED BY <1>1, InvHolds, PTL

(* No overlapping move, growth or failed call drops, doubles or destructs  *)
(* an object twice.                                                        *)
THEOREM OnceEach == Spec => []EachObjectOnce
<1>1. Inv => EachObjectOnce
  BY DEF Inv
<1> QED BY <1>1, InvHolds, PTL

(* The cells with their capacity and stale ends implement a list.          *)
THEOREM ImplementsList == Spec => IsList
<1>1. Init => Abstract!Init
  <2>1. Init => Items = [k \in {} |-> array[k - 1]]
    BY DEF Init, Items
  <2> QED BY <2>1 DEF Abstract!Init
<1>2. Inv /\ [Next]_vars => [Abstract!Next]_Items
  <2>1. ASSUME Inv, Next PROVE [Abstract!Next]_Items
    BY <2>1, NextFollows DEF Follows
  <2>2. ASSUME UNCHANGED vars PROVE Items' = Items
    BY <2>2 DEF vars, Items
  <2> QED BY <2>1, <2>2
<1> QED BY <1>1, <1>2, InvHolds, PTL DEF Spec, IsList, Abstract!Spec
=============================================================================
