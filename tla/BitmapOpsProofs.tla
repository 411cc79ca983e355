--------------------------- MODULE BitmapOpsProofs ---------------------------
(***************************************************************************)
(* Facts about the operators of BitmapOps, for every bitmap.               *)
(***************************************************************************)
EXTENDS BitmapOps, FiniteSums

(* bitmap_ffz, when it does not fail, answers a clear bit of the bitmap,   *)
(* and no lower bit is clear.                                              *)
LEMMA FirstZero ==
  ASSUME NEW data, bitmap_ffz(data) # SIZE_MAX
  PROVE  /\ bitmap_ffz(data) \in Bit \ data
         /\ \A b \in Bit \ data : bitmap_ffz(data) <= b
<1> DEFINE stops == {r \in 0 .. BitCount : r = BitCount \/ r \notin data}
           result == Min(stops)
<1>1. BitCount \in Nat /\ SIZE_MAX \in Nat
  BY BitmapConstants
<1>2. bitmap_ffz(data) = IF result = BitCount THEN SIZE_MAX ELSE result
  <2>1. stops = {r \in 0 .. BitCount : r = BitCount \/ bitmap_test(data, r) = FALSE}
    BY DEF bitmap_test
  <2> QED BY <2>1 DEF bitmap_ffz, ScanTo
<1>3. result # BitCount
  BY <1>2
<1>4. stops \subseteq Nat /\ stops # {} /\ Bit \ data \subseteq stops
  BY <1>1 DEF Bit
<1>5. result \in stops /\ \A y \in stops : result <= y
  <2> HIDE DEF stops
  <2> QED BY <1>4, MinOfNaturals
<1> QED BY <1>1, <1>2, <1>3, <1>4, <1>5 DEF Bit

(* It fails only when every bit is set: no clear bit is overlooked. *)
LEMMA NoZero ==
  ASSUME NEW data, bitmap_ffz(data) = SIZE_MAX
  PROVE  Bit \subseteq data
<1> DEFINE stops == {r \in 0 .. BitCount : r = BitCount \/ r \notin data}
           result == Min(stops)
<1>1. BitCount \in Nat /\ SIZE_MAX \in Nat /\ SIZE_MAX > BitCount
  BY BitmapConstants
<1>2. bitmap_ffz(data) = IF result = BitCount THEN SIZE_MAX ELSE result
  <2>1. stops = {r \in 0 .. BitCount : r = BitCount \/ bitmap_test(data, r) = FALSE}
    BY DEF bitmap_test
  <2> QED BY <2>1 DEF bitmap_ffz, ScanTo
<1>3. stops \subseteq Nat /\ stops # {} /\ Bit \ data \subseteq stops
  BY <1>1 DEF Bit
<1>4. result \in stops /\ \A y \in stops : result <= y
  <2> HIDE DEF stops
  <2> QED BY <1>3, MinOfNaturals
<1>5. result = BitCount
  BY <1>1, <1>2, <1>4
<1>6. \A b \in Bit \ data : FALSE
  BY <1>1, <1>3, <1>4, <1>5 DEF Bit
<1> QED BY <1>6

(* The bytes allocated hold every bit asked for. *)
LEMMA BitsFit == Bit \subseteq Cell
<1> DEFINE q == BitCount \div ByteBits
           r == BitCount % ByteBits
<1>1. BitCount \in Nat /\ ByteBits \in Nat \ {0}
  BY BitmapConstants
<1>2. q \in Nat /\ r \in 0 .. ByteBits - 1 /\ BitCount = ByteBits * q + r
  BY <1>1
<1>3. byte_count = q + (IF r # 0 THEN 1 ELSE 0)
  BY DEF byte_count, leftover_bits
<1> HIDE DEF q, r
<1>4. CASE r = 0
  <2>1. byte_count * ByteBits = BitCount
    BY <1>1, <1>2, <1>3, <1>4
  <2> QED BY <2>1 DEF Bit, Cell
<1>5. CASE r # 0
  <2>1. byte_count = q + 1
    BY <1>3, <1>5
  <2>2. byte_count * ByteBits = ByteBits * q + ByteBits
    BY <1>1, <1>2, <2>1
  <2>3. /\ byte_count * ByteBits \in Nat
        /\ BitCount < byte_count * ByteBits
    BY <1>1, <1>2, <2>2
  <2> QED BY <1>1, <2>3 DEF Bit, Cell
<1> QED BY <1>4, <1>5

-----------------------------------------------------------------------------
(* The bits below a + d are those below a and the d bits from there on.    *)
Below(data, a) == {c \in data : c < a}
From(data, a, d) == {c \in data : c >= a /\ c < a + d}

LEMMA CutAt ==
  ASSUME NEW data \in SUBSET Nat, NEW a \in Nat, NEW d \in Nat
  PROVE  /\ IsFiniteSet(Below(data, a)) /\ Cardinality(Below(data, a)) \in Nat
         /\ Cardinality(From(data, a, d)) \in Nat
         /\ d = 0 => Cardinality(From(data, a, d)) = 0
         /\ Cardinality(Below(data, a + d))
              = Cardinality(Below(data, a)) + Cardinality(From(data, a, d))
<1>0. \A c \in data : c \in Nat
  OBVIOUS
<1> DEFINE low == Below(data, a)
           high == From(data, a, d)
<1>1. /\ IsFiniteSet(low) /\ Cardinality(low) \in Nat
      /\ IsFiniteSet(high) /\ Cardinality(high) \in Nat
  <2>1. IsFiniteSet(0 .. a + d)
    BY FS_Interval
  <2>2. \A c \in data : c < a + d => c \in 0 .. a + d
    BY <1>0
  <2>3. \A c \in low \cup high : c \in data /\ c < a + d
    BY <1>0 DEF Below, From
  <2> HIDE DEF low, high
  <2>4. low \in SUBSET (0 .. a + d) /\ high \in SUBSET (0 .. a + d)
    BY <2>2, <2>3
  <2> QED BY <2>1, <2>4, FS_Subset, FS_CardinalityType
<1>2. Below(data, a + d) = low \cup high /\ low \cap high = {} /\ (d = 0 => high = {})
  <2>1. \A c \in data : (c < a + d <=> c < a \/ (c >= a /\ c < a + d)) /\ ~ (c < a /\ c >= a)
    BY <1>0
  <2>2. d = 0 => \A c \in data : ~ (c >= a /\ c < a + d)
    BY <1>0
  <2> QED BY <2>1, <2>2 DEF Below, From
<1> HIDE DEF low, high
<1>3. Cardinality(low \cup high)
        = Cardinality(low) + Cardinality(high) - Cardinality(low \cap high)
  BY ONLY <1>1, FS_Union
<1>4. Cardinality({}) = 0
  BY FS_EmptySet
<1>5. Cardinality(low \cap high) = 0 /\ (d = 0 => Cardinality(high) = 0)
  BY <1>2, <1>4
<1>6. Cardinality(Below(data, a + d)) = Cardinality(low) + Cardinality(high)
  BY <1>1, <1>2, <1>3, <1>5
<1> QED BY <1>1, <1>5, <1>6 DEF low, high

(* The bits below the n-th byte are those of the bytes before it.          *)
LEMMA BytesAddUp ==
  ASSUME NEW data \in SUBSET Nat, NEW n \in Nat
  PROVE  MapThenSumSet(LAMBDA byte : BitTotal(data, byte, ByteBits), 0 .. n - 1)
           = Cardinality(Below(data, n * ByteBits))
<1> DEFINE B == ByteBits
           f == [byte \in Nat |-> BitTotal(data, byte, B)]
           below(m) == Cardinality(Below(data, m * B))
           Wrong == {m \in Nat : Total(f, 0 .. m - 1) # below(m)}
<1>1. B \in Nat \ {0} /\ \A m \in Nat : m * B \in Nat
  BY BitmapConstants
<1>2. \A m \in Nat : f[m] = Cardinality(From(data, m * B, B))
  BY DEF BitTotal, From
<1>3. ASSUME NEW m \in Nat
      PROVE  f[m] \in Nat /\ below(m) \in Nat /\ below(m + 1) = below(m) + f[m]
  <2>1. m * B \in Nat /\ B \in Nat /\ (m + 1) * B = m * B + B
    BY <1>1
  <2> DEFINE a == m * B
  <2>2. /\ Cardinality(Below(data, a)) \in Nat /\ Cardinality(From(data, a, B)) \in Nat
        /\ Cardinality(Below(data, a + B))
             = Cardinality(Below(data, a)) + Cardinality(From(data, a, B))
    <3> HIDE DEF a
    <3>1. a \in Nat /\ B \in Nat /\ data \in SUBSET Nat
      BY <2>1 DEF a
    <3> QED BY ONLY <3>1, CutAt
  <2> QED BY <1>2, <2>1, <2>2
<1> HIDE DEF f
<1>4. ASSUME NEW m \in Nat PROVE Summable(f, 0 .. m - 1)
  <2>1. IsFiniteSet(0 .. m - 1)
    BY FS_Interval
  <2>2. \A x \in 0 .. m - 1 : f[x] \in Int
    <3> SUFFICES ASSUME NEW x \in 0 .. m - 1 PROVE f[x] \in Int
      OBVIOUS
    <3>1. x \in Nat
      OBVIOUS
    <3>2. f[x] \in Nat
      BY <1>3, <3>1
    <3> QED BY <3>2
  <2> QED BY <2>1, <2>2 DEF Summable
<1>5. below(0) = 0
  <2>1. Below(data, 0 * B) = {}
    <3>1. 0 * B = 0
      BY <1>1
    <3>2. \A c \in data : ~ (c < 0)
      OBVIOUS
    <3> QED BY <3>1, <3>2 DEF Below
  <2> QED BY <2>1, FS_EmptySet
<1> HIDE DEF below
<1>6. Wrong = {}
  <2> SUFFICES ASSUME Wrong # {} PROVE FALSE
    OBVIOUS
  <2>1. Wrong \in SUBSET Nat
    OBVIOUS
  <2>2. PICK m \in Wrong : \A k \in Wrong : m <= k
    <3> HIDE DEF Wrong
    <3> QED BY <2>1, MinOfNaturals
  <2>3. CASE m = 0
    <3>1. 0 .. 0 - 1 = {} /\ Total(f, {}) = 0
      BY SumOfNone
    <3> QED BY <1>5, <2>3, <3>1
  <2>4. CASE m # 0
    <3>1. PICK k \in Nat : m = k + 1
      <4>1. m - 1 \in Nat /\ m = (m - 1) + 1
        BY <2>4
      <4> QED BY <4>1
    <3>2. Total(f, 0 .. k - 1) = below(k)
      BY <2>2, <3>1
    <3>3. Total(f, 0 .. (k + 1) - 1) = f[k] + Total(f, 0 .. k - 1)
      <4>1. k \in 0 .. (k + 1) - 1 /\ (0 .. (k + 1) - 1) \ {k} = 0 .. k - 1
        OBVIOUS
      <4>2. Summable(f, 0 .. (k + 1) - 1)
        BY <1>4
      <4>3. Total(f, 0 .. (k + 1) - 1) = f[k] + Total(f, (0 .. (k + 1) - 1) \ {k})
        BY ONLY <4>1, <4>2, SumWithout
      <4> QED BY <4>1, <4>3
    <3>4. f[k] \in Nat /\ below(k) \in Nat /\ below(k + 1) = below(k) + f[k]
      BY <1>3
    <3> QED BY <3>1, <3>2, <3>3, <3>4
  <2> QED BY <2>3, <2>4
<1>7. MapThenSumSet(LAMBDA x : BitTotal(data, x, B), 0 .. n - 1) = Total(f, 0 .. n - 1)
  <2> DEFINE S == 0 .. n - 1
             other(iter) == iter = [s \in SUBSET S |->
               IF s = {} THEN 0
               ELSE BitTotal(data, CHOOSE x \in s : TRUE, B)
                    + iter[s \ {CHOOSE x \in s : TRUE}]]
  <2>1. MapThenSumSet(LAMBDA x : BitTotal(data, x, B), S) = (CHOOSE iter : other(iter))[S]
    BY DEF MapThenSumSet, MapThenFoldSet
  <2>2. \A iter : other(iter) <=> SolvesSum(iter, f, S)
    <3>1. ASSUME NEW s \in SUBSET S, s # {}
          PROVE  f[CHOOSE x \in s : TRUE] = BitTotal(data, CHOOSE x \in s : TRUE, B)
      <4> DEFINE e == CHOOSE x \in s : TRUE
      <4>1. e \in s
        BY <3>1, Zenon
      <4>2. \A x \in S : x \in Nat
        OBVIOUS
      <4> HIDE DEF e, S
      <4>3. e \in Nat
        BY <4>1, <4>2
      <4> QED BY <4>3 DEF f, e
    <3> HIDE DEF S, B
    <3> QED BY <3>1 DEF SolvesSum
  <2>3. (CHOOSE iter : other(iter)) = (CHOOSE iter : SolvesSum(iter, f, S))
    <3> HIDE DEF other, S
    <3> QED BY <2>2
  <2> QED BY <2>1, <2>3, SumUnfolds
<1>8. Total(f, 0 .. n - 1) = below(n)
  BY <1>6
<1> QED BY <1>7, <1>8 DEF below

(* bitmap_total_set counts the bits of the bitmap that are 1, and nothing  *)
(* of what the padding of the last byte holds.                             *)
LEMMA TotalCounts ==
  ASSUME NEW data \in SUBSET Nat
  PROVE  bitmap_total_set(data) = Cardinality(data \cap Bit)
<1> DEFINE q == BitCount \div ByteBits
           r == BitCount % ByteBits
           a == q * ByteBits
<1>1. BitCount \in Nat /\ ByteBits \in Nat \ {0}
  BY BitmapConstants
<1>2. q \in Nat /\ r \in 0 .. ByteBits - 1 /\ BitCount = a + r /\ a \in Nat
  BY <1>1
<1>3. bitmap_total_set(data)
        = Cardinality(Below(data, a)) + (IF r # 0 THEN Cardinality(From(data, a, r)) ELSE 0)
  <2>1. (IF leftover_bits # 0 THEN byte_count - 1 ELSE byte_count) = q
        /\ (leftover_bits # 0 => byte_count - 1 = q) /\ leftover_bits = r
    <3> HIDE DEF q
    <3> QED BY <1>2 DEF leftover_bits, byte_count, q
  <2>2. MapThenSumSet(LAMBDA byte : BitTotal(data, byte, ByteBits), 0 .. q - 1)
          = Cardinality(Below(data, a))
    <3> HIDE DEF q
    <3> QED BY <1>2, BytesAddUp
  <2>3. BitTotal(data, q, r) = Cardinality(From(data, a, r))
    BY DEF BitTotal, From
  <2> HIDE DEF q, r, a
  <2> QED BY <2>1, <2>2, <2>3 DEF bitmap_total_set
<1>4. Below(data, a + r) = data \cap Bit
  <2>1. \A c \in data : c < BitCount <=> c \in 0 .. BitCount - 1
    BY <1>1
  <2> HIDE DEF a, r
  <2>2. Below(data, a + r) = {c \in data : c < BitCount}
    BY <1>2 DEF Below
  <2> QED BY <2>1, <2>2 DEF Bit
<1> HIDE DEF q, r, a
<1>5. a \in Nat /\ r \in Nat /\ data \in SUBSET Nat
  BY <1>1, <1>2
<1>6. /\ Cardinality(Below(data, a)) \in Nat
      /\ (r = 0 => Cardinality(From(data, a, r)) = 0)
      /\ Cardinality(Below(data, a + r))
           = Cardinality(Below(data, a)) + Cardinality(From(data, a, r))
  BY ONLY <1>5, CutAt
<1> QED BY <1>3, <1>4, <1>6
=============================================================================
