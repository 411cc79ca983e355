----------------------------- MODULE FiniteSums -----------------------------
(***************************************************************************)
(* Facts about least elements, recursion over finite sets, folds and sums  *)
(* that the proofs of several components need.  Where the argument is an   *)
(* induction it is put as one on a smallest counterexample.                *)
(***************************************************************************)
EXTENDS Integers, SequencesExt, FiniteSetTheorems, TLAPS

(* Every nonempty set of finite sets has a member with no other member     *)
(* strictly inside it.                                                     *)
LEMMA SmallestSet ==
  ASSUME NEW F, F # {}, \A X \in F : IsFiniteSet(X)
  PROVE  \E X \in F : \A Y \in F : Y \subseteq X => Y = X
<1> DEFINE U == UNION F
           R == StrictSubsetOrdering(U)
<1>1. F \subseteq FiniteSubsetsOf(U)
  BY DEF FiniteSubsetsOf
<1>2. IsWellFoundedOn(R, FiniteSubsetsOf(U))
  BY FS_StrictSubsetOrderingWellFounded
<1> HIDE DEF R
<1>3. PICK X \in F : \A Y \in F : <<Y, X>> \notin R
  BY <1>1, <1>2, WFMin
<1>4. \A Y \in F : Y \subseteq X /\ Y # X => <<Y, X>> \in R
  <2>1. F \subseteq SUBSET U
    OBVIOUS
  <2> QED BY <2>1 DEF R, StrictSubsetOrdering
<1>5. \A Y \in F : Y \subseteq X => Y = X
  BY <1>3, <1>4, Zenon
<1> QED BY <1>5, Zenon

LEMMA IntervalSize ==
  ASSUME NEW n \in Nat
  PROVE  IsFiniteSet(1 .. n) /\ Cardinality(1 .. n) = n
BY FS_Interval

(* Every nonempty set of naturals has a least element, and it is the Min   *)
(* of the community module: the sets 0..x of its elements x are finite, so *)
(* one of them has no other strictly inside it.                            *)
LEMMA MinOfNaturals ==
  ASSUME NEW S \in SUBSET Nat, S # {}
  PROVE  Min(S) \in S /\ \A y \in S : Min(S) <= y
<1> DEFINE T == {0 .. x : x \in S}
<1>1. T # {} /\ \A X \in T : IsFiniteSet(X)
  <2>1. \A x \in S : IsFiniteSet(0 .. x)
    BY FS_Interval
  <2> QED BY <2>1
<1> HIDE DEF T
<1>2. PICK X \in T : \A Y \in T : Y \subseteq X => Y = X
  BY <1>1, SmallestSet
<1>3. PICK x \in S : X = 0 .. x
  BY DEF T
<1>4. \A y \in S : x <= y
  <2>1. SUFFICES ASSUME NEW y \in S, y < x PROVE FALSE
    OBVIOUS
  <2>2. 0 .. y \subseteq 0 .. x /\ 0 .. y # 0 .. x
    <3>1. x \in 0 .. x /\ x \notin 0 .. y
      BY <2>1
    <3> QED BY <3>1, <2>1
  <2> QED BY <1>2, <1>3, <2>2 DEF T
<1> QED BY <1>4 DEF Min

-----------------------------------------------------------------------------
(* The functions that recursion over the subsets of S defines: c picks an  *)
(* element of a set and h adds it to the result for the others.            *)
Iterates(iter, S, base, c, h) ==
  iter = [s \in SUBSET S |->
            IF s = {} THEN base ELSE h[<<c[s], iter[s \ {c[s]}]>>]]

Picks(c, S) == \A s \in SUBSET S : s # {} => c[s] \in s

(* Two of them, on whatever sets, agree where both are defined.            *)
LEMMA IteratesAgree ==
  ASSUME NEW S, NEW T, NEW U, IsFiniteSet(U), U \subseteq S, U \subseteq T,
         NEW base, NEW c, NEW h, Picks(c, U), NEW f, NEW g,
         Iterates(f, S, base, c, h), Iterates(g, T, base, c, h)
  PROVE  f[U] = g[U]
<1> DEFINE Bad == {s \in SUBSET U : f[s] # g[s]}
<1> SUFFICES ASSUME Bad # {} PROVE FALSE
  OBVIOUS
<1>1. \A X \in Bad : IsFiniteSet(X)
  BY FS_Subset DEF Bad
<1>2. PICK X \in Bad : \A Y \in Bad : Y \subseteq X => Y = X
  <2> HIDE DEF Bad
  <2> QED BY <1>1, SmallestSet
<1>3. /\ f[X] = IF X = {} THEN base ELSE h[<<c[X], f[X \ {c[X]}]>>]
      /\ g[X] = IF X = {} THEN base ELSE h[<<c[X], g[X \ {c[X]}]>>]
  BY DEF Iterates
<1>4. X # {}
  BY <1>3
<1>5. c[X] \in X
  BY <1>4 DEF Picks
<1>6. X \ {c[X]} \notin Bad
  BY <1>2, <1>5
<1> QED BY <1>3, <1>4, <1>6

(* Such a function exists: were there a set without one, a smallest would  *)
(* be all but covered by those of its proper subsets.                      *)
LEMMA IteratesExists ==
  ASSUME NEW S, IsFiniteSet(S), NEW base, NEW c, NEW h, Picks(c, S)
  PROVE  \E iter : Iterates(iter, S, base, c, h)
<1> DEFINE Bad == {s \in SUBSET S : ~ \E iter : Iterates(iter, s, base, c, h)}
<1> SUFFICES ASSUME Bad # {} PROVE FALSE
  OBVIOUS
<1>1. \A X \in Bad : IsFiniteSet(X)
  BY FS_Subset DEF Bad
<1>2. PICK X \in Bad : \A Y \in Bad : Y \subseteq X => Y = X
  <2> HIDE DEF Bad
  <2> QED BY <1>1, SmallestSet
<1>3. PICK of : \A s \in (SUBSET X) \ {X} : Iterates(of[s], s, base, c, h)
  <2> DEFINE found == [s \in (SUBSET X) \ {X} |->
                         CHOOSE iter : Iterates(iter, s, base, c, h)]
  <2>1. \A s \in (SUBSET X) \ {X} : \E iter : Iterates(iter, s, base, c, h)
    BY <1>2
  <2>2. \A s \in (SUBSET X) \ {X} : Iterates(found[s], s, base, c, h)
    BY <2>1, Zenon
  <2> HIDE DEF found
  <2> QED BY <2>2, Zenon
<1> DEFINE below == [s \in (SUBSET X) \ {X} |-> of[s][s]]
           whole == [s \in SUBSET X |->
                       IF s = {} THEN base ELSE h[<<c[s], below[s \ {c[s]}]>>]]
<1> HIDE DEF Bad
<1>4. \A s \in (SUBSET X) \ {{}} : c[s] \in s /\ s \ {c[s]} \in (SUBSET X) \ {X}
  <2>1. X \in SUBSET S
    BY DEF Bad
  <2> QED BY <2>1 DEF Picks
<1>5. ASSUME NEW s \in (SUBSET X) \ {X} PROVE below[s] = whole[s]
  <2>1. CASE s = {}
    <3>1. of[s][s] = base
      BY <1>3, <2>1 DEF Iterates
    <3> QED BY <3>1, <2>1
  <2>2. CASE s # {}
    <3> DEFINE t == s \ {c[s]}
    <3>1. c[s] \in s /\ t \in (SUBSET X) \ {X} /\ t \subseteq s
      BY <1>4, <2>2
    <3>2. of[s][s] = h[<<c[s], of[s][t]>>]
      BY <1>3, <2>2 DEF Iterates
    <3>3. of[s][t] = of[t][t]
      <4>1. IsFiniteSet(t) /\ Picks(c, t)
        <5>1. X \in SUBSET S
          BY DEF Bad
        <5> QED BY <5>1, FS_Subset DEF Picks
      <4>2. Iterates(of[s], s, base, c, h) /\ Iterates(of[t], t, base, c, h)
        BY <1>3, <3>1
      <4> HIDE DEF t
      <4> QED BY <3>1, <4>1, <4>2, IteratesAgree
    <3> QED BY <2>2, <3>1, <3>2, <3>3
  <2> QED BY <2>1, <2>2
<1>6. \A s \in SUBSET X : s # {} => below[s \ {c[s]}] = whole[s \ {c[s]}]
  <2> HIDE DEF below, whole
  <2> QED BY <1>4, <1>5
<1>7. Iterates(whole, X, base, c, h)
  <2> HIDE DEF below
  <2> QED BY <1>6 DEF Iterates
<1> QED BY <1>2, <1>7 DEF Bad
-----------------------------------------------------------------------------
(* Every nonempty set of numbers up to n has a greatest one, and it is the *)
(* Max of the community module.                                            *)
LEMMA MaxUpTo ==
  ASSUME NEW n \in Nat, NEW S \in SUBSET (0 .. n), S # {}
  PROVE  Max(S) \in S /\ \A y \in S : y <= Max(S)
<1> DEFINE D == {d \in 0 .. n : n - d \in S}
           d0 == Min(D)
<1>0. \A x \in S : x \in 0 .. n
  OBVIOUS
<1>1. \A x \in S : n - x \in 0 .. n /\ n - (n - x) = x
  BY <1>0
<1>2. D \in SUBSET Nat /\ D # {}
  <2>1. \A x \in S : n - x \in D
    BY <1>1
  <2>2. \A d \in D : d \in Nat
    OBVIOUS
  <2> HIDE DEF D
  <2> QED BY <2>1, <2>2
<1>3. d0 \in D /\ \A d \in D : d0 <= d
  <2> HIDE DEF D
  <2> QED BY <1>2, MinOfNaturals
<1>4. n - d0 \in S /\ d0 \in 0 .. n
  BY <1>3
<1>5. \A y \in S : y <= n - d0
  <2> SUFFICES ASSUME NEW y \in S PROVE y <= n - d0
    OBVIOUS
  <2>1. n - y \in D /\ y \in 0 .. n
    BY <1>0, <1>1
  <2>2. d0 <= n - y
    BY <1>3, <2>1
  <2> HIDE DEF d0
  <2> QED BY <1>4, <2>1, <2>2
<1> QED BY <1>4, <1>5 DEF Max

(* FoldLeft of the community modules over a sequence of length n, as long  *)
(* as it stays in W: h[<<k, w>>] is what its step makes of w at element k. *)
Closed(W, n, base, h) == base \in W /\ \A k \in 1 .. n, w \in W : h[<<k, w>>] \in W

Folds(iter, n, base, h) ==
  iter = [s \in SUBSET (1 .. n) |->
            IF s = {} THEN base ELSE h[<<Max(s), iter[s \ {Max(s)}]>>]]

FoldsTo(iter, W, n, base, h) ==
  /\ iter[{}] = base
  /\ \A s \in SUBSET (1 .. n) :
       s # {} /\ iter[s \ {Max(s)}] \in W => iter[s] = h[<<Max(s), iter[s \ {Max(s)}]>>]

(* The recursion behind the fold has a solution, with values in W.         *)
LEMMA FoldSolvable ==
  ASSUME NEW n \in Nat, NEW W, NEW base, NEW h, Closed(W, n, base, h)
  PROVE  \E iter : Folds(iter, n, base, h) /\ \A s \in SUBSET (1 .. n) : iter[s] \in W
<1> DEFINE S == 1 .. n
           c == [s \in SUBSET S |-> Max(s)]
<1>1. \A s \in SUBSET S : s # {} => Max(s) \in s
  <2>1. \A s \in SUBSET S : s \in SUBSET (0 .. n)
    OBVIOUS
  <2> HIDE DEF S
  <2> QED BY <2>1, MaxUpTo
<1>2. Picks(c, S) /\ IsFiniteSet(S)
  BY <1>1, IntervalSize DEF Picks
<1>3. PICK iter : Iterates(iter, S, base, c, h)
  <2> HIDE DEF c, S
  <2> QED BY <1>2, IteratesExists
<1>4. iter = [s \in SUBSET S |-> IF s = {} THEN base ELSE h[<<Max(s), iter[s \ {Max(s)}]>>]]
  BY <1>3 DEF Iterates
<1> HIDE DEF S
<1> DEFINE Bad == {s \in SUBSET S : iter[s] \notin W}
<1>5. Bad = {}
  <2> SUFFICES ASSUME Bad # {} PROVE FALSE
    OBVIOUS
  <2>1. \A X \in Bad : IsFiniteSet(X)
    BY <1>2, FS_Subset
  <2>2. PICK X \in Bad : \A Y \in Bad : Y \subseteq X => Y = X
    <3> HIDE DEF Bad
    <3> QED BY <2>1, SmallestSet
  <2>3. X \in SUBSET S /\ iter[X] \notin W
    OBVIOUS
  <2>4. X # {}
    BY <1>4, <2>3 DEF Closed
  <2>5. Max(X) \in X /\ X \ {Max(X)} \notin Bad
    BY <1>1, <2>2, <2>3, <2>4
  <2>6. iter[X \ {Max(X)}] \in W
    BY <2>3, <2>5
  <2>7. iter[X] = h[<<Max(X), iter[X \ {Max(X)}]>>] /\ Max(X) \in 1 .. n
    BY <1>4, <2>3, <2>4, <2>5 DEF S
  <2> QED BY <2>3, <2>6, <2>7 DEF Closed
<1> QED BY <1>4, <1>5 DEF S, Folds

(* Its results for the first elements make a trail from base.              *)
LEMMA FoldTrail ==
  ASSUME NEW n \in Nat, NEW W, NEW base, NEW h, Closed(W, n, base, h),
         NEW iter, FoldsTo(iter, W, n, base, h)
  PROVE  \E g \in [0 .. n -> W] :
           /\ g[0] = base /\ g[n] = iter[1 .. n]
           /\ \A k \in 1 .. n : g[k] = h[<<k, g[k - 1]>>]
<1> DEFINE g == [k \in 0 .. n |-> iter[1 .. k]]
           Good(k) == iter[1 .. k] \in W /\ (k > 0 => iter[1 .. k] = h[<<k, iter[1 .. k - 1]>>])
           Wrong == {k \in 0 .. n : ~ Good(k)}
<1>1. Wrong = {}
  <2> SUFFICES ASSUME Wrong # {} PROVE FALSE
    OBVIOUS
  <2>1. Wrong \in SUBSET Nat
    OBVIOUS
  <2>2. PICK k \in Wrong : \A j \in Wrong : k <= j
    <3> HIDE DEF Wrong
    <3> QED BY <2>1, MinOfNaturals
  <2>3. k # 0
    <3>1. 1 .. 0 = {}
      OBVIOUS
    <3> QED BY <3>1 DEF Closed, FoldsTo
  <2>4. k \in 1 .. n /\ k - 1 \in 0 .. n /\ k - 1 \notin Wrong
    BY <2>2, <2>3
  <2>5. iter[1 .. k - 1] \in W
    BY <2>4
  <2>6. Max(1 .. k) = k /\ (1 .. k) \ {k} = 1 .. k - 1 /\ 1 .. k \in SUBSET (1 .. n) /\ 1 .. k # {}
    <3>1. k \in 1 .. k /\ 1 .. k \in SUBSET (0 .. n)
      BY <2>4
    <3>2. Max(1 .. k) \in 1 .. k /\ k <= Max(1 .. k)
      BY ONLY <3>1, n \in Nat, MaxUpTo
    <3> QED BY <2>4, <3>1, <3>2
  <2>7. iter[1 .. k] = h[<<k, iter[1 .. k - 1]>>]
    BY <2>5, <2>6 DEF FoldsTo
  <2> QED BY <2>4, <2>5, <2>7 DEF Closed
<1>2. \A k \in 0 .. n : Good(k)
  BY <1>1
<1>3. g \in [0 .. n -> W]
  BY <1>2
<1>4. g[0] = base
  <2>1. 1 .. 0 = {} /\ 0 \in 0 .. n
    OBVIOUS
  <2> QED BY <2>1 DEF FoldsTo
<1>5. ASSUME NEW k \in 1 .. n PROVE g[k] = h[<<k, g[k - 1]>>]
  <2>1. k \in 0 .. n /\ k - 1 \in 0 .. n /\ k > 0
    OBVIOUS
  <2> QED BY <1>2, <2>1
<1>6. g[n] = iter[1 .. n]
  OBVIOUS
<1> HIDE DEF g
<1> QED BY <1>3, <1>4, <1>5, <1>6

-----------------------------------------------------------------------------
(* SumFunctionOnSet of the community modules, the sum of f over a finite   *)
(* set S of its arguments.                                                 *)
Total(f, S) == SumFunctionOnSet(f, S)

Summable(f, S) == IsFiniteSet(S) /\ \A x \in S : f[x] \in Int

SolvesSum(iter, f, S) ==
  iter = [s \in SUBSET S |->
            IF s = {} THEN 0
            ELSE f[CHOOSE x \in s : TRUE] + iter[s \ {CHOOSE x \in s : TRUE}]]

LEMMA SumUnfolds ==
  ASSUME NEW f, NEW S
  PROVE  Total(f, S) = (CHOOSE iter : SolvesSum(iter, f, S))[S]
BY DEF SolvesSum, Total, SumFunctionOnSet, FoldFunctionOnSet, MapThenFoldSet

(* The recursion has a solution, of integers.                              *)
LEMMA SumSolvable ==
  ASSUME NEW f, NEW S, Summable(f, S)
  PROVE  \E iter : SolvesSum(iter, f, S) /\ \A s \in SUBSET S : iter[s] \in Int
<1> DEFINE c == [s \in SUBSET S |-> CHOOSE x \in s : TRUE]
           h == [xv \in S \X Int |-> f[xv[1]] + xv[2]]
<1>1. Picks(c, S)
  BY DEF Picks
<1>2. PICK g : Iterates(g, S, 0, c, h)
  <2> HIDE DEF c, h
  <2> QED BY <1>1, IteratesExists DEF Summable
<1>3. \A s \in SUBSET S : g[s] = IF s = {} THEN 0 ELSE h[<<c[s], g[s \ {c[s]}]>>]
  <2> HIDE DEF c, h
  <2> QED BY <1>2 DEF Iterates
<1>4. \A s \in SUBSET S : g[s] \in Int
  <2> DEFINE Bad == {s \in SUBSET S : g[s] \notin Int}
  <2> SUFFICES ASSUME Bad # {} PROVE FALSE
    OBVIOUS
  <2>1. \A X \in Bad : IsFiniteSet(X)
    BY FS_Subset DEF Summable
  <2>2. PICK X \in Bad : \A Y \in Bad : Y \subseteq X => Y = X
    <3> HIDE DEF Bad
    <3> QED BY <2>1, SmallestSet
  <2>3. X # {}
    <3> HIDE DEF c, h
    <3>1. g[{}] = 0
      BY <1>3
    <3> QED BY <3>1
  <2>4. c[X] \in X /\ X \in SUBSET S
    BY <2>3, <1>1 DEF Picks
  <2> HIDE DEF c
  <2>5. g[X \ {c[X]}] \in Int
    BY <2>2, <2>4
  <2>6. g[X] = f[c[X]] + g[X \ {c[X]}]
    BY <1>3, <2>3, <2>4, <2>5
  <2>7. g[X] \in Int
    BY <2>4, <2>5, <2>6 DEF Summable
  <2> QED BY <2>7
<1>5. SolvesSum(g, f, S)
  <2>1. ASSUME NEW s \in SUBSET S, s # {}
        PROVE  h[<<c[s], g[s \ {c[s]}]>>] = f[c[s]] + g[s \ {c[s]}]
    <3>1. c[s] \in S
      BY <1>1, <2>1 DEF Picks
    <3>2. g[s \ {c[s]}] \in Int
      <4> HIDE DEF c
      <4> QED BY <1>4
    <3> HIDE DEF c
    <3> QED BY <3>1, <3>2
  <2>2. g = [s \in SUBSET S |-> IF s = {} THEN 0 ELSE h[<<c[s], g[s \ {c[s]}]>>]]
    <3> HIDE DEF c, h
    <3> QED BY <1>2 DEF Iterates
  <2>3. \A s \in SUBSET S : c[s] = CHOOSE x \in s : TRUE
    OBVIOUS
  <2>4. \A s \in SUBSET S :
          g[s] = IF s = {} THEN 0 ELSE f[CHOOSE x \in s : TRUE]
                                       + g[s \ {CHOOSE x \in s : TRUE}]
    <3> HIDE DEF c, h
    <3> QED BY <1>3, <2>1, <2>3
  <2>5. g = [s \in SUBSET S |-> g[s]]
    <3> HIDE DEF c, h
    <3> QED BY <2>2
  <2> QED BY <2>4, <2>5 DEF SolvesSum
<1> QED BY <1>4, <1>5

LEMMA SolutionsAgree ==
  ASSUME NEW f, NEW S, NEW T, NEW U, IsFiniteSet(U), U \subseteq S, U \subseteq T,
         NEW g, NEW h, SolvesSum(g, f, S), SolvesSum(h, f, T)
  PROVE  g[U] = h[U]
<1> DEFINE Bad == {s \in SUBSET U : g[s] # h[s]}
<1> SUFFICES ASSUME Bad # {} PROVE FALSE
  OBVIOUS
<1>1. \A X \in Bad : IsFiniteSet(X)
  BY FS_Subset DEF Bad
<1>2. PICK X \in Bad : \A Y \in Bad : Y \subseteq X => Y = X
  <2> HIDE DEF Bad
  <2> QED BY <1>1, SmallestSet
<1> DEFINE c == CHOOSE x \in X : TRUE
<1>3. /\ g[X] = IF X = {} THEN 0 ELSE f[c] + g[X \ {c}]
      /\ h[X] = IF X = {} THEN 0 ELSE f[c] + h[X \ {c}]
  BY DEF SolvesSum
<1>4. X # {}
  <2> HIDE DEF c
  <2> QED BY <1>3
<1>5. c \in X
  BY <1>4
<1> HIDE DEF c
<1>6. X \ {c} \notin Bad
  BY <1>2, <1>5
<1> QED BY <1>3, <1>4, <1>6

(* Any solution gives the sums over all the subsets.                       *)
LEMMA SolutionIsSum ==
  ASSUME NEW f, NEW S, Summable(f, S), NEW g, SolvesSum(g, f, S), NEW U \in SUBSET S
  PROVE  g[U] = Total(f, U)
<1>1. IsFiniteSet(U) /\ Summable(f, U)
  BY FS_Subset DEF Summable
<1>2. \E iter : SolvesSum(iter, f, U)
  BY <1>1, SumSolvable
<1> DEFINE h == CHOOSE iter : SolvesSum(iter, f, U)
<1>3. SolvesSum(h, f, U)
  BY <1>2
<1>4. Total(f, U) = h[U]
  BY SumUnfolds
<1> HIDE DEF h
<1> QED BY <1>1, <1>3, <1>4, SolutionsAgree

LEMMA SumOfNone == ASSUME NEW f PROVE Total(f, {}) = 0
<1>1. Summable(f, {})
  BY FS_EmptySet DEF Summable
<1>2. PICK g : SolvesSum(g, f, {})
  BY <1>1, SumSolvable
<1>3. g[{}] = 0
  BY <1>2 DEF SolvesSum
<1> QED BY <1>1, <1>2, <1>3, SolutionIsSum

LEMMA SumIsInt ==
  ASSUME NEW f, NEW S, Summable(f, S)
  PROVE  Total(f, S) \in Int
<1>1. PICK g : SolvesSum(g, f, S) /\ \A s \in SUBSET S : g[s] \in Int
  BY SumSolvable
<1> QED BY <1>1, SolutionIsSum

(* The sum without the element that the recursion takes first ...          *)
LEMMA SumFirst ==
  ASSUME NEW f, NEW S, Summable(f, S), S # {}
  PROVE  \E c \in S : Total(f, S) = f[c] + Total(f, S \ {c})
<1>1. PICK g : SolvesSum(g, f, S)
  BY SumSolvable
<1> DEFINE c == CHOOSE x \in S : TRUE
<1>2. c \in S
  OBVIOUS
<1>3. g[S] = f[c] + g[S \ {c}]
  BY <1>1 DEF SolvesSum
<1> HIDE DEF c
<1>4. g[S] = Total(f, S) /\ g[S \ {c}] = Total(f, S \ {c})
  BY <1>1, SolutionIsSum
<1> QED BY <1>2, <1>3, <1>4

(* ... and without any element.                                            *)
LEMMA SumWithout ==
  ASSUME NEW f, NEW S, Summable(f, S), NEW x \in S
  PROVE  Total(f, S) = f[x] + Total(f, S \ {x})
<1> DEFINE Bad == {s \in SUBSET S : \E y \in s : Total(f, s) # f[y] + Total(f, s \ {y})}
<1> SUFFICES ASSUME Bad # {} PROVE FALSE
  OBVIOUS
<1>1. \A s \in SUBSET S : Summable(f, s)
  BY FS_Subset DEF Summable
<1>2. PICK X \in Bad : \A Y \in Bad : Y \subseteq X => Y = X
  <2>1. \A X \in Bad : IsFiniteSet(X)
    BY <1>1 DEF Summable
  <2> HIDE DEF Bad
  <2> QED BY <2>1, SmallestSet
<1>3. PICK y \in X : Total(f, X) # f[y] + Total(f, X \ {y})
  OBVIOUS
<1>4. PICK c \in X : Total(f, X) = f[c] + Total(f, X \ {c})
  <2>1. Summable(f, X) /\ X # {}
    BY <1>1
  <2> QED BY <2>1, SumFirst
<1>5. c # y
  BY <1>3, <1>4
<1> DEFINE rest == (X \ {c}) \ {y}
<1>6. rest = (X \ {y}) \ {c}
  OBVIOUS
<1>7. Total(f, X \ {c}) = f[y] + Total(f, rest) /\ Total(f, X \ {y}) = f[c] + Total(f, rest)
  <2>1. X \ {c} \notin Bad /\ X \ {y} \notin Bad
    BY <1>2
  <2>2. y \in X \ {c} /\ c \in X \ {y}
    BY <1>5
  <2> QED BY <2>1, <2>2, <1>6
<1>8. f[c] \in Int /\ f[y] \in Int /\ Total(f, rest) \in Int
  <2>1. Summable(f, X) /\ Summable(f, rest)
    BY <1>1
  <2> HIDE DEF rest
  <2> QED BY <2>1, SumIsInt DEF Summable
<1> HIDE DEF rest
<1> QED BY <1>3, <1>4, <1>7, <1>8
-----------------------------------------------------------------------------
(* What the sum of two functions have to do with each other.               *)
LEMMA SumsEqual ==
  ASSUME NEW f, NEW g, NEW S, NEW T \in SUBSET S, Summable(f, S), Summable(g, T),
         \A x \in T : g[x] = f[x], \A x \in S \ T : f[x] = 0
  PROVE  Total(f, S) = Total(g, T)
<1> DEFINE Bad == {s \in SUBSET S : Total(f, s) # Total(g, s \cap T)}
<1> SUFFICES ASSUME Bad # {} PROVE FALSE
  <2> SUFFICES ASSUME Bad = {} PROVE Total(f, S) = Total(g, T)
    OBVIOUS
  <2>1. S \cap T = T
    OBVIOUS
  <2> QED BY <2>1
<1>1. \A s \in SUBSET S : Summable(f, s) /\ Summable(g, s \cap T)
  BY FS_Subset DEF Summable
<1>2. PICK X \in Bad : \A Y \in Bad : Y \subseteq X => Y = X
  <2>1. \A X \in Bad : IsFiniteSet(X)
    BY <1>1 DEF Summable
  <2> HIDE DEF Bad
  <2> QED BY <2>1, SmallestSet
<1>3. X # {}
  <2>1. {} \cap T = {}
    OBVIOUS
  <2>2. Total(f, {}) = Total(g, {} \cap T)
    BY <2>1, SumOfNone
  <2> QED BY <2>2
<1>4. PICK x : x \in X
  BY <1>3
<1>5. Total(f, X) = f[x] + Total(f, X \ {x})
  BY <1>1, <1>4, SumWithout
<1>6. Total(f, X \ {x}) = Total(g, (X \ {x}) \cap T)
  BY <1>2, <1>4
<1>7. Total(g, (X \ {x}) \cap T) \in Int
  BY <1>1, SumIsInt
<1>8. CASE x \in T
  <2>1. Total(g, X \cap T) = g[x] + Total(g, (X \cap T) \ {x})
    BY <1>1, <1>4, <1>8, SumWithout
  <2>2. (X \cap T) \ {x} = (X \ {x}) \cap T
    OBVIOUS
  <2> QED BY <1>5, <1>6, <1>8, <2>1, <2>2
<1>9. CASE x \notin T
  <2>1. (X \ {x}) \cap T = X \cap T
    BY <1>9
  <2>2. Total(g, (X \ {x}) \cap T) = Total(g, X \cap T)
    BY <2>1, Zenon
  <2>3. f[x] = 0
    BY <1>4, <1>9
  <2> QED BY <1>5, <1>6, <1>7, <2>2, <2>3
<1> QED BY <1>8, <1>9

(* One of the summands changes.                                            *)
LEMMA SumChange ==
  ASSUME NEW f, NEW g, NEW S, Summable(f, S), NEW x \in S, NEW d \in Int,
         g[x] = f[x] + d, \A y \in S \ {x} : g[y] = f[y]
  PROVE  Total(g, S) = Total(f, S) + d
<1>1. Summable(g, S) /\ Summable(g, S \ {x}) /\ Summable(f, S \ {x})
  BY FS_Subset DEF Summable
<1>2. Total(f, S \ {x}) = Total(g, S \ {x})
  BY <1>1, SumsEqual
<1>3. Total(f, S) = f[x] + Total(f, S \ {x}) /\ Total(g, S) = g[x] + Total(g, S \ {x})
  BY <1>1, SumWithout
<1>4. f[x] \in Int /\ Total(f, S \ {x}) \in Int
  BY <1>1, SumIsInt DEF Summable
<1> QED BY <1>2, <1>3, <1>4

(* Summands that are not negative.                                         *)
LEMMA SumOfNaturals ==
  ASSUME NEW f, NEW S, Summable(f, S), \A x \in S : 0 <= f[x]
  PROVE  0 <= Total(f, S)
<1> DEFINE Bad == {s \in SUBSET S : ~ (0 <= Total(f, s))}
<1> SUFFICES ASSUME Bad # {} PROVE FALSE
  OBVIOUS
<1>1. \A s \in SUBSET S : Summable(f, s)
  BY FS_Subset DEF Summable
<1>2. PICK X \in Bad : \A Y \in Bad : Y \subseteq X => Y = X
  <2>1. \A X \in Bad : IsFiniteSet(X)
    BY <1>1 DEF Summable
  <2> HIDE DEF Bad
  <2> QED BY <2>1, SmallestSet
<1>3. X # {}
  BY SumOfNone
<1>4. PICK x : x \in X
  BY <1>3
<1>5. Total(f, X) = f[x] + Total(f, X \ {x})
  BY <1>1, <1>4, SumWithout
<1>6. Total(f, X \ {x}) \in Int /\ 0 <= Total(f, X \ {x})
  <2>1. X \ {x} \in SUBSET S /\ X \ {x} \notin Bad
    BY <1>2, <1>4
  <2> QED BY <1>1, <2>1, SumIsInt
<1> QED BY <1>4, <1>5, <1>6 DEF Summable

LEMMA SumBounds ==
  ASSUME NEW f, NEW S, Summable(f, S), NEW m \in Nat,
         \A x \in S : 0 <= f[x] /\ f[x] <= m
  PROVE  /\ 0 <= Total(f, S) /\ Total(f, S) <= Cardinality(S) * m
         /\ \A x \in S : f[x] <= Total(f, S)
<1> DEFINE Fits(s) == 0 <= Total(f, s) /\ Total(f, s) <= Cardinality(s) * m
           Bad == {s \in SUBSET S : ~ Fits(s)}
<1>1. \A s \in SUBSET S : Summable(f, s)
  BY FS_Subset DEF Summable
<1>2. Bad = {}
  <2> SUFFICES ASSUME Bad # {} PROVE FALSE
    OBVIOUS
  <2>1. PICK X \in Bad : \A Y \in Bad : Y \subseteq X => Y = X
    <3>1. \A X \in Bad : IsFiniteSet(X)
      BY <1>1 DEF Summable
    <3> HIDE DEF Bad
    <3> QED BY <3>1, SmallestSet
  <2>2. X # {}
    <3>1. Total(f, {}) = 0 /\ Cardinality({}) = 0
      BY SumOfNone, FS_EmptySet
    <3> QED BY <3>1
  <2>3. PICK x : x \in X
    BY <2>2
  <2> DEFINE k == Cardinality(X)
             rest == Total(f, X \ {x})
  <2>4. k \in Nat /\ Cardinality(X \ {x}) = k - 1
    BY <1>1, <2>3, FS_RemoveElement, FS_CardinalityType DEF Summable
  <2>5. Total(f, X) = f[x] + rest
    BY <1>1, <2>3, SumWithout
  <2>6. rest \in Int /\ 0 <= rest /\ rest <= (k - 1) * m
    <3>1. X \ {x} \notin Bad /\ X \ {x} \in SUBSET S
      BY <2>1, <2>3
    <3>2. rest \in Int
      BY <1>1, <3>1, SumIsInt
    <3> QED BY <2>4, <3>1, <3>2
  <2>7. f[x] \in Int /\ 0 <= f[x] /\ f[x] <= m
    BY <2>3 DEF Summable
  <2>8. (k - 1) * m + m = k * m
    <3> HIDE DEF k
    <3> QED BY <2>4
  <2>9. Fits(X)
    <3>1. (k - 1) * m \in Int /\ k * m \in Int
      <4> HIDE DEF k
      <4> QED BY <2>4
    <3> HIDE DEF rest
    <3> QED BY <2>5, <2>6, <2>7, <2>8, <3>1
  <2> QED BY <2>9
<1>3. ASSUME NEW x \in S PROVE f[x] <= Total(f, S)
  <2>1. Total(f, S) = f[x] + Total(f, S \ {x})
    BY SumWithout
  <2>2. Total(f, S \ {x}) \in Int /\ 0 <= Total(f, S \ {x})
    <3>1. S \ {x} \in SUBSET S
      OBVIOUS
    <3> QED BY <1>1, <1>2, <3>1, SumIsInt
  <2> QED BY <2>1, <2>2 DEF Summable
<1> QED BY <1>2, <1>3
-----------------------------------------------------------------------------
(* Arithmetic of unsigned words: a reduction in between is of no           *)
(* consequence.                                                            *)
LEMMA ModUnique ==
  ASSUME NEW W \in Nat \ {0}, NEW q \in Int, NEW r \in 0 .. W - 1
  PROVE  (q * W + r) % W = r
<1> DEFINE x == q * W + r
           d == x \div W
           m == x % W
<1>1. x \in Int
  OBVIOUS
<1>2. d \in Int /\ m \in 0 .. W - 1 /\ x = d * W + m
  <2> HIDE DEF x
  <2> QED BY <1>1
<1> HIDE DEF d, m
<1>3. (q - d) * W = m - r
  BY <1>2
<1>4. q - d < 1
  <2> SUFFICES ASSUME q - d >= 1 PROVE FALSE
    BY <1>2
  <2>1. (q - d) * W >= W
    BY <1>2
  <2> QED BY <1>2, <1>3, <2>1
<1>5. q - d > -1
  <2> SUFFICES ASSUME d - q >= 1 PROVE FALSE
    BY <1>2
  <2>1. (d - q) * W >= W
    BY <1>2
  <2>2. (d - q) * W = r - m
    BY <1>2
  <2> QED BY <1>2, <2>1, <2>2
<1>6. q = d
  BY <1>2, <1>4, <1>5
<1>7. m = r
  BY <1>2, <1>6
<1> QED BY <1>7 DEF m

LEMMA ModDrops ==
  ASSUME NEW W \in Nat \ {0}, NEW x \in Int, NEW y \in Int
  PROVE  /\ x % W \in 0 .. W - 1
         /\ ((x % W) + y) % W = (x + y) % W
         /\ (y - (x % W)) % W = (y - x) % W
<1> DEFINE d == x \div W
           m == x % W
<1>1. d \in Int /\ m \in 0 .. W - 1 /\ x = d * W + m
  OBVIOUS
<1> HIDE DEF d, m
<1>2. ASSUME NEW z \in Int, NEW k \in Int
      PROVE  (z + k * W) % W = z % W
  <2> DEFINE e == z \div W
             n == z % W
  <2>1. e \in Int /\ n \in 0 .. W - 1 /\ z = e * W + n
    OBVIOUS
  <2> HIDE DEF e, n
  <2>2. z + k * W = (e + k) * W + n
    BY <2>1
  <2>3. ((e + k) * W + n) % W = n
    BY <2>1, ModUnique
  <2> QED BY <2>2, <2>3 DEF n
<1>3. (m + y) % W = (x + y) % W
  <2>1. x + y = (m + y) + d * W
    BY <1>1
  <2>2. m + y \in Int
    BY <1>1
  <2>3. ((m + y) + d * W) % W = (m + y) % W
    BY <1>1, <1>2, <2>2, Zenon
  <2> QED BY <2>1, <2>3, Zenon
<1>4. (y - m) % W = (y - x) % W
  <2>1. y - x = (y - m) + (-d) * W
    BY <1>1
  <2>2. y - m \in Int /\ -d \in Int
    BY <1>1
  <2>3. ((y - m) + (-d) * W) % W = (y - m) % W
    BY <1>2, <2>2, Zenon
  <2> QED BY <2>1, <2>3, Zenon
<1> QED BY <1>1, <1>3, <1>4 DEF m

LEMMA ModSmall ==
  ASSUME NEW W \in Nat \ {0}, NEW r \in 0 .. W - 1
  PROVE  r % W = r
OBVIOUS
=============================================================================
