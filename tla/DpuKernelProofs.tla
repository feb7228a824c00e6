-------------------------- MODULE DpuKernelProofs ---------------------------
(***************************************************************************)
(* For any number of tasklets, any even buffer size, any batch, any levels *)
(* of segments and any overflow entries: one key is answered by its place, *)
(* however the models err; the slices of the position search stay in the   *)
(* buffer, are written in aligned pairs, and together answer every query;  *)
(* and so do those of the search of the overflow entries.                  *)
(***************************************************************************)
EXTENDS DpuKernel, SequenceTheorems, WellFoundedInduction, TLAPS

USE DEF state, request, result, oresult, regs, Set

-----------------------------------------------------------------------------
(* Least and largest numbers.                                              *)

LEMMA LeastNumber ==
  ASSUME NEW T, T # {}, \A x \in T : x \in Nat
  PROVE  \E m \in T : \A i \in T : m <= i
  <1> DEFINE R == OpToRel(<, Nat)
  <1>1. IsWellFoundedOn(R, Nat)
    BY NatLessThanWellFounded
  <1>2. \A x, y \in Nat : <<x, y>> \in R <=> x < y
    BY DEF R, OpToRel
  <1> HIDE DEF R
  <1>3. PICK x \in T : \A y \in T : ~(<<y, x>> \in R)
    BY <1>1, WFMin
  <1>4. \A y \in T : ~(y < x)
    BY <1>2, <1>3
  <1> QED BY <1>4

LEMMA Largest ==
  ASSUME NEW T, T # {}, NEW b \in Int, \A x \in T : x \in Int /\ x <= b
  PROVE  Max(T) \in T /\ \A x \in T : x <= Max(T)
  <1> DEFINE Gaps == {b - x : x \in T}
  <1>1. Gaps # {} /\ \A g \in Gaps : g \in Nat
    OBVIOUS
  <1>2. PICK g \in Gaps : \A i \in Gaps : g <= i
    BY <1>1, LeastNumber
  <1>3. PICK m \in T : g = b - m
    OBVIOUS
  <1>4. \A x \in T : m >= x
    BY <1>2, <1>3
  <1> QED BY <1>3, <1>4 DEF Max

LEMMA Smallest ==
  ASSUME NEW T, T # {}, \A x \in T : x \in Nat
  PROVE  Min(T) \in T /\ \A x \in T : Min(T) <= x
  BY LeastNumber DEF Min

LEMMA LargerOne ==
  ASSUME NEW a \in Int, NEW b \in Int
  PROVE  MaxOf(a, b) = IF a >= b THEN a ELSE b
  BY DEF MaxOf, Max

LEMMA SmallerOne ==
  ASSUME NEW a \in Int, NEW b \in Int
  PROVE  MinOf(a, b) = IF a <= b THEN a ELSE b
  BY DEF MinOf, Min

LEMMA Product ==
  ASSUME NEW a \in Nat, NEW b \in Nat, NEW q \in Nat, a <= b
  PROVE  a * q \in Nat /\ a * q <= b * q
  OBVIOUS

-----------------------------------------------------------------------------
(* The bisection of the positions.                                         *)
\* The windows of a bisection, and what it does with one.
Windows(lo, hi) == (lo .. hi) \X (lo .. hi)
Halve(f, key, b, w) ==
  LET m == w[1] + (w[2] - w[1]) \div 2
  IN  IF w[1] >= w[2] THEN w[1]
      ELSE IF f[m] <= key THEN b[<<m + 1, w[2]>>] ELSE b[<<w[1], m>>]

\* Where the windows end up whose values above the key start at cut.
Ends(lo, hi, cut) ==
  [w \in Windows(lo, hi) |->
     IF w[1] >= w[2] \/ cut < w[1] THEN w[1] ELSE IF cut > w[2] THEN w[2] ELSE cut]

Cuts(f, lo, hi, key, cut) ==
  /\ cut \in lo .. hi
  /\ \A i \in lo .. hi - 1 : f[i] <= key <=> i < cut

LEMMA EndsSteps ==
  ASSUME NEW f, NEW lo \in Int, NEW hi \in Int, NEW key, NEW cut, Cuts(f, lo, hi, key, cut)
  PROVE  Ends(lo, hi, cut) = [w \in Windows(lo, hi) |-> Halve(f, key, Ends(lo, hi, cut), w)]
  <1> DEFINE g == Ends(lo, hi, cut)
  <1>1. ASSUME NEW w \in Windows(lo, hi) PROVE g[w] = Halve(f, key, g, w)
    <2> DEFINE m == w[1] + (w[2] - w[1]) \div 2
    <2>1. w[1] \in lo .. hi /\ w[2] \in lo .. hi /\ w = <<w[1], w[2]>>
      BY <1>1 DEF Windows
    <2>2. CASE w[1] >= w[2]
      BY <1>1, <2>2 DEF Halve, Ends
    <2>3. CASE w[1] < w[2]
      <3>1. m \in w[1] .. w[2] - 1
        BY <2>1, <2>3
      <3>2. <<m + 1, w[2]>> \in Windows(lo, hi) /\ <<w[1], m>> \in Windows(lo, hi)
        BY <2>1, <3>1 DEF Windows
      <3>3. f[m] <= key <=> m < cut
        BY <2>1, <3>1 DEF Cuts
      <3>4. Halve(f, key, g, w) = IF m < cut THEN g[<<m + 1, w[2]>>] ELSE g[<<w[1], m>>]
        BY <2>1, <2>3, <3>3 DEF Halve
      <3> HIDE DEF m
      <3>5. /\ g[<<m + 1, w[2]>>] = IF m + 1 >= w[2] \/ cut < m + 1 THEN m + 1 ELSE IF cut > w[2] THEN w[2] ELSE cut
            /\ g[<<w[1], m>>] = IF w[1] >= m \/ cut < w[1] THEN w[1] ELSE IF cut > m THEN m ELSE cut
            /\ g[w] = IF w[1] >= w[2] \/ cut < w[1] THEN w[1] ELSE IF cut > w[2] THEN w[2] ELSE cut
        BY <3>2 DEF Ends
      <3> QED BY <2>1, <2>3, <3>1, <3>4, <3>5 DEF Cuts
    <2> QED BY <2>1, <2>2, <2>3
  <1>2. g = [w \in Windows(lo, hi) |-> g[w]]
    BY DEF Ends
  <1> HIDE DEF g
  <1> QED BY <1>1, <1>2 DEF g

LEMMA BisectEnds ==
  ASSUME NEW f, NEW lo \in Int, NEW hi \in Int, NEW key, lo <= hi, NEW cut, Cuts(f, lo, hi, key, cut)
  PROVE  Bisect(f, lo, hi, key) = cut
  <1> DEFINE b == CHOOSE g : g = [w \in Windows(lo, hi) |-> Halve(f, key, g, w)]
  <1>1. b = [w \in Windows(lo, hi) |-> Halve(f, key, b, w)]
    BY EndsSteps
  <1>2. Bisect(f, lo, hi, key) = IF lo < hi THEN b[<<lo, hi>>] ELSE lo
    BY Zenon DEF Bisect, Halve, Windows
  <1> HIDE DEF b
  <1> DEFINE e == Ends(lo, hi, cut)
             Wrong == {w \in Windows(lo, hi) : w[1] <= w[2] /\ b[w] # e[w]}
             Sizes == {w[2] - w[1] : w \in Wrong}
  <1>3. Wrong = {}
    <2> SUFFICES ASSUME Wrong # {} PROVE FALSE
      OBVIOUS
    <2>1. \A w \in Windows(lo, hi) : w[1] \in Int /\ w[2] \in Int /\ w = <<w[1], w[2]>>
      BY DEF Windows
    <2>2. Sizes # {} /\ \A r \in Sizes : r \in Nat
      BY <2>1
    <2>3. PICK s \in Sizes : \A r \in Sizes : s <= r
      BY <2>2, LeastNumber
    <2>4. PICK w \in Wrong : s = w[2] - w[1]
      OBVIOUS
    <2>5. \A v \in Windows(lo, hi) : v[1] <= v[2] /\ v[2] - v[1] < s => b[v] = e[v]
      <3> SUFFICES ASSUME NEW v \in Wrong, v[2] - v[1] < s PROVE FALSE
        OBVIOUS
      <3>1. v[2] - v[1] \in Sizes
        OBVIOUS
      <3> QED BY <2>2, <2>3, <3>1
    <2> DEFINE m == w[1] + (w[2] - w[1]) \div 2
    <2>6. b[w] = Halve(f, key, b, w) /\ e[w] = Halve(f, key, e, w)
      BY <1>1, EndsSteps
    <2>7. w[1] < w[2]
      BY <2>1, <2>6 DEF Halve
    <2>8. /\ <<m + 1, w[2]>> \in Windows(lo, hi) /\ <<w[1], m>> \in Windows(lo, hi)
          /\ m + 1 <= w[2] /\ w[1] <= m /\ w[2] - (m + 1) < s /\ m - w[1] < s
      BY <2>1, <2>4, <2>7 DEF Windows
    <2>9. b[<<m + 1, w[2]>>] = e[<<m + 1, w[2]>>] /\ b[<<w[1], m>>] = e[<<w[1], m>>]
      BY <2>5, <2>8
    <2> QED BY <2>6, <2>9 DEF Halve
  <1>4. <<lo, hi>> \in Windows(lo, hi)
    BY DEF Windows
  <1>5. b[<<lo, hi>>] = e[<<lo, hi>>]
    BY <1>3, <1>4
  <1> QED BY <1>2, <1>4, <1>5 DEF Ends, Cuts
-----------------------------------------------------------------------------
(* The levels in the array of segments.                                    *)

LEMMA OffsetSteps ==
  /\ Offset[0] = 0
  /\ \A l \in 1 .. Len(Levels) :
       /\ Offset[l - 1] \in Nat /\ Offset[l] \in Nat
       /\ Offset[l] = Offset[l - 1] + Len(Levels[l]) + 1
  <1> DEFINE N == Len(Levels)
             F(g, l) == IF l = 0 THEN 0 ELSE g[l - 1] + Len(Levels[l]) + 1
             Stops == {m \in 0 .. N : ~\E g : g = [l \in 0 .. m |-> F(g, l)]}
  <1>1. N \in Nat /\ \A l \in 1 .. N : Len(Levels[l]) \in Nat
    BY LevelsAssumption
  <1> HIDE DEF N
  <1>2. Stops = {}
    <2> SUFFICES ASSUME Stops # {} PROVE FALSE
      OBVIOUS
    <2>1. PICK m \in Stops : \A i \in Stops : m <= i
      <3>1. \A i \in Stops : i \in Nat
        <4> HIDE DEF F
        <4> QED BY <1>1
      <3> HIDE DEF Stops
      <3> QED BY <3>1, LeastNumber
    <2>2. m \in 0 .. N
      OBVIOUS
    <2>3. ~\E g : g = [l \in 0 .. m |-> F(g, l)]
      OBVIOUS
    <2>4. \A i \in 0 .. N : i < m => \E g : g = [l \in 0 .. i |-> F(g, l)]
      <3> HIDE DEF F
      <3> QED BY <1>1, <2>1
    <2>5. m # 0
      <3>1. [l \in 0 .. 0 |-> 0] = [l \in 0 .. 0 |-> F([j \in 0 .. 0 |-> 0], l)]
        OBVIOUS
      <3> HIDE DEF F
      <3> QED BY <2>3, <3>1
    <2>6. PICK g : g = [l \in 0 .. m - 1 |-> F(g, l)]
      <3> HIDE DEF F
      <3> QED BY <1>1, <2>2, <2>4, <2>5
    <2> DEFINE h == [l \in 0 .. m |-> IF l = m THEN F(g, m) ELSE g[l]]
    <2>7. h = [l \in 0 .. m |-> F(h, l)]
      <3>1. ASSUME NEW l \in 0 .. m PROVE h[l] = F(h, l)
        <4>1. CASE l = m
          BY <1>1, <2>2, <2>5, <4>1
        <4>2. CASE l # m
          <5>1. g[l] = F(g, l) /\ h[l] = g[l]
            BY <1>1, <2>2, <2>6, <4>2
          <5>2. l # 0 => h[l - 1] = g[l - 1]
            BY <1>1, <2>2, <4>2
          <5> QED BY <5>1, <5>2
        <4> QED BY <4>1, <4>2
      <3> HIDE DEF F
      <3> QED BY <3>1
    <2> HIDE DEF F, h
    <2> QED BY <2>3, <2>7
  <1>3. PICK o : o = [l \in 0 .. N |-> F(o, l)]
    <2> HIDE DEF F
    <2>1. ~(N \in Stops)
      BY <1>2
    <2> QED BY <1>1, <2>1
  <1>4. Offset = [l \in 0 .. N |-> F(Offset, l)]
    BY <1>3, Zenon DEF Offset, N
  <1>5. \A l \in 0 .. N : Offset[l] = F(Offset, l)
    BY <1>4
  <1>7. Offset[0] = 0 /\ \A l \in 1 .. N : Offset[l] = Offset[l - 1] + Len(Levels[l]) + 1
    BY <1>1, <1>5
  <1> HIDE DEF F, Stops
  <1> DEFINE Odd == {l \in 0 .. N : ~(Offset[l] \in Nat)}
  <1>8. Odd = {}
    <2> SUFFICES ASSUME Odd # {} PROVE FALSE
      OBVIOUS
    <2>1. \A i \in Odd : i \in Nat
      BY <1>1
    <2>2. PICK m \in Odd : \A i \in Odd : m <= i
      BY <2>1, LeastNumber
    <2>3. m \in 0 .. N /\ m # 0
      BY <1>1, <1>7
    <2>4. m - 1 \in 0 .. N /\ Offset[m - 1] \in Nat
      BY <1>1, <2>2, <2>3
    <2>5. m \in 1 .. N
      BY <1>1, <2>3
    <2>6. Len(Levels[m]) \in Nat /\ Offset[m] = Offset[m - 1] + Len(Levels[m]) + 1
      BY <1>1, <1>7, <2>5
    <2>7. Offset[m] \in Nat
      BY <2>4, <2>6
    <2> QED BY <2>7
  <1>9. ASSUME NEW l \in 1 .. N PROVE l - 1 \in 0 .. N /\ l \in 0 .. N
    BY <1>1
  <1>10. ASSUME NEW l \in 0 .. N PROVE Offset[l] \in Nat
    BY <1>8
  <1> QED BY <1>7, <1>9, <1>10 DEF N

LEMMA LevelShapes ==
  /\ Len(Levels) \in Nat /\ Len(Levels) >= 1
  /\ \A l \in 1 .. Len(Levels) :
       /\ Len(Levels[l]) \in Nat /\ Len(Levels[l]) >= 1
       /\ Levels[l] \in Seq(2 .. MaxKey) /\ Levels[l][1] = 2
       /\ \A i, k \in 1 .. Len(Levels[l]) : i < k => Levels[l][i] < Levels[l][k]
  <1>1. Len(Levels) \in Nat /\ Len(Levels) >= 1 /\ DOMAIN Levels = 1 .. Len(Levels)
    BY LevelsAssumption
  <1>2. ASSUME NEW l \in 1 .. Len(Levels)
        PROVE  /\ Len(Levels[l]) \in Nat /\ Len(Levels[l]) >= 1
               /\ Levels[l] \in Seq(2 .. MaxKey) /\ Levels[l][1] = 2
               /\ \A i, k \in 1 .. Len(Levels[l]) : i < k => Levels[l][i] < Levels[l][k]
    <2>1. Levels[l] \in Seq(2 .. MaxKey) /\ Levels[l] # <<>> /\ Levels[l][1] = 2 /\ Rising(Levels[l])
      BY SMTT(60), <1>1, LevelsAssumption
    <2>2. DOMAIN Levels[l] = 1 .. Len(Levels[l]) /\ Len(Levels[l]) \in Nat /\ Len(Levels[l]) >= 1
      BY <2>1
    <2> QED BY <2>1, <2>2 DEF Rising
  <1> QED BY <1>1, <1>2

LEMMA OffsetsRise ==
  \A b \in 0 .. Len(Levels) : \A a \in 0 .. b : Offset[b] \in Nat /\ Offset[a] \in Nat /\ Offset[a] <= Offset[b]
  <1> DEFINE Rises(b) == \A a \in 0 .. b : Offset[b] \in Nat /\ Offset[a] \in Nat /\ Offset[a] <= Offset[b]
             Odd == {b \in 0 .. Len(Levels) : ~Rises(b)}
  <1>1. Odd = {}
    <2> SUFFICES ASSUME Odd # {} PROVE FALSE
      OBVIOUS
    <2>1. Len(Levels) \in Nat /\ \A b \in Odd : b \in Nat
      <3> HIDE DEF Rises
      <3> QED BY LevelShapes
    <2>2. PICK b \in Odd : \A i \in Odd : b <= i
      <3> HIDE DEF Odd
      <3> QED BY <2>1, LeastNumber
    <2>3. b \in 0 .. Len(Levels) /\ ~Rises(b) /\ \A i \in 0 .. Len(Levels) : i < b => Rises(i)
      <3> HIDE DEF Rises
      <3> QED BY <2>1, <2>2
    <2>4. b # 0
      BY <2>3, OffsetSteps
    <2>5. b \in 1 .. Len(Levels) /\ b - 1 \in 0 .. Len(Levels) /\ b - 1 < b
      BY <2>1, <2>3, <2>4
    <2>6. Offset[b - 1] \in Nat /\ Offset[b] \in Nat /\ Offset[b - 1] <= Offset[b]
      <3>1. Offset[b - 1] \in Nat /\ Offset[b] \in Nat /\ Offset[b] = Offset[b - 1] + Len(Levels[b]) + 1
        BY <2>5, OffsetSteps
      <3>2. Len(Levels[b]) \in Nat
        BY <2>5, LevelShapes
      <3> QED BY <3>1, <3>2
    <2>7. ASSUME NEW a \in 0 .. b PROVE Offset[a] \in Nat /\ Offset[a] <= Offset[b]
      <3>1. CASE a = b BY <2>6, <3>1
      <3>2. CASE a # b
        <4>1. a \in 0 .. b - 1 BY <2>1, <2>3, <3>2
        <4>2. Rises(b - 1)
          <5> HIDE DEF Rises
          <5> QED BY <2>3, <2>5
        <4>3. Offset[a] \in Nat /\ Offset[a] <= Offset[b - 1]
          BY <4>1, <4>2
        <4> QED BY <2>6, <4>3
      <3> QED BY <3>1, <3>2
    <2> QED BY <2>3, <2>6, <2>7
  <1> QED BY <1>1

\* The segments of one level, and where its sentinel is.
First(level) == Offset[level]
Sentinel(level) == Offset[level + 1] - 1
LevelNumbers == 0 .. Len(Levels) - 1

LEMMA LevelRange ==
  ASSUME NEW level \in LevelNumbers
  PROVE  /\ level \in Nat /\ level + 1 \in 1 .. Len(Levels) /\ level + 1 <= Len(Levels)
         /\ First(level) \in Nat /\ Sentinel(level) \in Nat
         /\ Sentinel(level) = First(level) + Len(Levels[level + 1])
         /\ First(level) < Sentinel(level)
         /\ Sentinel(level) <= Offset[Len(Levels)] - 1
         /\ Offset[Len(Levels)] \in Nat
  <1>1. level \in Nat /\ level + 1 \in 1 .. Len(Levels) /\ (level + 1) - 1 = level
    BY LevelShapes DEF LevelNumbers
  <1>2. /\ Offset[level] \in Nat /\ Offset[level + 1] \in Nat
        /\ Offset[level + 1] = Offset[level] + Len(Levels[level + 1]) + 1
    BY <1>1, OffsetSteps
  <1>3. Len(Levels[level + 1]) \in Nat /\ Len(Levels[level + 1]) >= 1
    BY <1>1, LevelShapes
  <1>4. Offset[level + 1] <= Offset[Len(Levels)] /\ Offset[Len(Levels)] \in Nat
    <2>1. Len(Levels) \in 0 .. Len(Levels) /\ level + 1 \in 0 .. Len(Levels)
      BY <1>1, LevelShapes
    <2> QED BY SMTT(60), <2>1, OffsetsRise
  <1> QED BY <1>1, <1>2, <1>3, <1>4 DEF First, Sentinel

LEMMA SegmentKeys ==
  ASSUME NEW level \in LevelNumbers, NEW j \in First(level) .. Sentinel(level)
  PROVE  SegmentKey[j] = IF j = Sentinel(level) THEN Infinity
                         ELSE Levels[level + 1][j - First(level) + 1]
  <1>1. /\ level \in Nat /\ level + 1 \in 1 .. Len(Levels) /\ (level + 1) - 1 = level
        /\ Offset[level] \in Nat /\ Offset[level + 1] \in Nat
        /\ Offset[level + 1] - 1 = Offset[level] + Len(Levels[level + 1])
        /\ Offset[level + 1] <= Offset[Len(Levels)] /\ Offset[Len(Levels)] \in Nat
        /\ j \in Nat /\ Offset[level] <= j /\ j <= Offset[level + 1] - 1
    <2>1. level \in Nat /\ level + 1 \in 1 .. Len(Levels) /\ (level + 1) - 1 = level
      BY LevelRange
    <2>2. Offset[level] \in Nat /\ Offset[level + 1] \in Nat
      BY <2>1, OffsetSteps
    <2>3. /\ Offset[level + 1] - 1 = Offset[level] + Len(Levels[level + 1])
          /\ Offset[level + 1] - 1 <= Offset[Len(Levels)] - 1 /\ Offset[Len(Levels)] \in Nat
      BY LevelRange DEF First, Sentinel
    <2>4. j \in Offset[level] .. Offset[level + 1] - 1
      BY DEF First, Sentinel
    <2> QED BY <2>1, <2>2, <2>3, <2>4
  <1>2. LevelOf(j) = level + 1
    <2>1. level + 1 \in 1 .. Len(Levels) /\ Offset[(level + 1) - 1] <= j /\ j < Offset[level + 1]
      BY <1>1
    <2>2. ASSUME NEW l \in 1 .. Len(Levels), Offset[l - 1] <= j, j < Offset[l]
          PROVE  l = level + 1
      <3>0. l \in Nat /\ Len(Levels) \in Nat /\ Offset[l] \in Nat /\ Offset[l - 1] \in Nat
        BY OffsetSteps, LevelShapes
      <3>1. CASE l < level + 1
        <4>1. l \in 0 .. level /\ level \in 0 .. Len(Levels)
          BY <1>1, <3>0, <3>1
        <4>2. Offset[l] <= Offset[level]
          BY <4>1, OffsetsRise
        <4> QED BY <1>1, <2>2, <3>0, <4>2
      <3>2. CASE l > level + 1
        <4>1. level + 1 \in 0 .. l - 1 /\ l - 1 \in 0 .. Len(Levels)
          BY <1>1, <3>0, <3>2
        <4>2. Offset[level + 1] <= Offset[l - 1]
          BY <4>1, OffsetsRise
        <4> QED BY <1>1, <2>2, <3>0, <4>2
      <3> QED BY <1>1, <3>0, <3>1, <3>2
    <2> QED BY <2>1, <2>2 DEF LevelOf
  <1>3. j \in 0 .. Offset[Len(Levels)] - 1
    BY <1>1
  <1>4. SegmentKey[j] = Append(Levels[level + 1], Infinity)[j - Offset[level] + 1]
    BY <1>1, <1>2, <1>3 DEF SegmentKey
  <1> DEFINE q == Levels[level + 1]
             i == j - Offset[level] + 1
  <1>5. q \in Seq(2 .. MaxKey) /\ Len(q) \in Nat
    BY <1>1, LevelShapes
  <1>6. i \in 1 .. Len(q) + 1 /\ (i = Len(q) + 1 <=> j = Sentinel(level))
    <2>1. j \in Nat /\ Offset[level] \in Nat /\ Offset[level] <= j /\ j <= Offset[level] + Len(q)
      BY <1>1
    <2>2. Sentinel(level) = Offset[level] + Len(q)
      BY <1>1 DEF Sentinel
    <2> HIDE DEF q
    <2> QED BY <1>5, <2>1, <2>2
  <1> HIDE DEF q, i
  <1>7. Append(q, Infinity)[i] = IF i = Len(q) + 1 THEN Infinity ELSE q[i]
    BY <1>5, <1>6
  <1> QED BY <1>4, <1>6, <1>7 DEF q, i, First

\* One segment of a level is responsible for a key: it and those before it
\* begin at or below the key, those behind it and the sentinel above.
LEMMA OneResponsible ==
  ASSUME NEW level \in LevelNumbers, NEW key \in Queries
  PROVE  /\ Responsible(level, key) \in First(level) .. Sentinel(level) - 1
         /\ \A j \in First(level) .. Sentinel(level) : SegmentKey[j] <= key <=> j <= Responsible(level, key)
  <1> DEFINE f == First(level)
             s == Sentinel(level)
             q == Levels[level + 1]
             T == {j \in f .. s : SegmentKey[j] <= key}
  <1>1. f \in Nat /\ s \in Nat /\ s = f + Len(q) /\ f < s /\ Len(q) \in Nat
    BY LevelRange
  <1>2. key \in Int /\ 2 <= key /\ key <= MaxKey /\ MaxKey \in Nat
    BY SAssumption DEF Queries
  <1>3. /\ q[1] = 2 /\ \A i \in 1 .. Len(q) : q[i] \in Int
        /\ \A i, k \in 1 .. Len(q) : i < k => q[i] < q[k]
    <2>1. level + 1 \in 1 .. Len(Levels)
      BY LevelRange
    <2>2. /\ q \in Seq(2 .. MaxKey) /\ q[1] = 2
          /\ \A i, k \in 1 .. Len(q) : i < k => q[i] < q[k]
      BY <2>1, LevelShapes
    <2> HIDE DEF q
    <2>3. \A i \in 1 .. Len(q) : q[i] \in 2 .. MaxKey
      BY <2>2, ElementOfSeq, Zenon
    <2> QED BY <1>2, <2>2, <2>3
  <1>4. \A j \in f .. s : SegmentKey[j] = IF j = s THEN Infinity ELSE q[j - f + 1]
    BY SegmentKeys
  <1> HIDE DEF f, s, q
  <1>5. SegmentKey[f] = 2 /\ SegmentKey[s] = MaxKey + 1
    BY <1>1, <1>3, <1>4 DEF Infinity
  <1>6. ASSUME NEW j \in f .. s, NEW k \in f .. s, j < k
        PROVE  SegmentKey[j] \in Int /\ (SegmentKey[k] <= key => SegmentKey[j] <= key)
    <2>1. j # s /\ j - f + 1 \in 1 .. Len(q) /\ SegmentKey[j] = q[j - f + 1]
      BY <1>1, <1>4, <1>6
    <2>2. CASE k = s
      BY <1>2, <1>3, <1>5, <2>1, <2>2
    <2>3. CASE k # s
      <3>1. k - f + 1 \in 1 .. Len(q) /\ SegmentKey[k] = q[k - f + 1] /\ j - f + 1 < k - f + 1
        BY <1>1, <1>4, <1>6, <2>3
      <3>2. q[j - f + 1] < q[k - f + 1] /\ q[k - f + 1] \in Int /\ q[j - f + 1] \in Int
        BY <1>3, <2>1, <3>1
      <3> QED BY <1>2, <2>1, <3>1, <3>2
    <2> QED BY <2>2, <2>3
  <1>7. Responsible(level, key) = Max(T)
    BY DEF Responsible, First, Sentinel, f, s
  <1>8. f \in T /\ ~(s \in T) /\ \A j \in T : j \in Int /\ j <= s
    BY <1>1, <1>2, <1>5
  <1> DEFINE r == Max(T)
  <1>9. r \in T /\ \A j \in T : j <= r
    <2>1. T # {} /\ s \in Int /\ \A j \in T : j \in Int /\ j <= s
      BY <1>1, <1>8
    <2> HIDE DEF T
    <2> QED BY <2>1, Largest
  <1>10. r \in f .. s - 1
    BY <1>1, <1>8, <1>9
  <1>11. ASSUME NEW j \in f .. s PROVE SegmentKey[j] <= key <=> j <= r
    <2>1. CASE j > r
      BY <1>1, <1>9, <1>10, <2>1
    <2>2. CASE j = r
      BY <1>9, <2>2
    <2>3. CASE j < r
      BY <1>1, <1>6, <1>9, <1>10, <2>3
    <2> HIDE DEF r
    <2> QED BY <1>1, <1>10, <2>1, <2>2, <2>3
  <1> QED BY <1>7, <1>10, <1>11 DEF f, s

LEMMA LastBisected ==
  ASSUME NEW level \in LevelNumbers, NEW key \in Queries
  PROVE  Bisect(SegmentKey, Offset[level], Offset[level + 1] - 1, key) - 1 = Responsible(level, key)
  <1> DEFINE f == First(level)
             s == Sentinel(level)
             r == Responsible(level, key)
  <1>1. f \in Nat /\ s \in Nat /\ f < s
    BY LevelRange
  <1>2. r \in f .. s - 1 /\ \A j \in f .. s : SegmentKey[j] <= key <=> j <= r
    BY OneResponsible
  <1> HIDE DEF f, s, r
  <1>3. Cuts(SegmentKey, f, s, key, r + 1)
    <2>1. r + 1 \in f .. s
      BY <1>1, <1>2
    <2>2. \A j \in f .. s - 1 : SegmentKey[j] <= key <=> j < r + 1
      BY <1>1, <1>2
    <2> QED BY <2>1, <2>2 DEF Cuts
  <1>4. r \in Int /\ r + 1 \in Int /\ f \in Int /\ s \in Int /\ f <= s
    BY <1>1, <1>2
  <1>5. Bisect(SegmentKey, f, s, key) = r + 1
    BY <1>3, <1>4, BisectEnds
  <1> QED BY <1>4, <1>5 DEF f, s, r, First, Sentinel

\* However the level above errs, the walk ends at the segment responsible.
LEMMA Walks ==
  ASSUME NEW level \in LevelNumbers, level + 1 \in LevelNumbers, NEW key \in Queries
  PROVE  {Walk(level, pos, key) : pos \in Guesses(level, Responsible(level + 1, key), key)}
           = {Responsible(level, key)}
  <1> DEFINE f == First(level)
             s == Sentinel(level)
             r == Responsible(level, key)
             e == Offset[Len(Levels)] - 1
             guesses == Guesses(level, Responsible(level + 1, key), key)
  <1>1. f \in Nat /\ s \in Nat /\ f < s /\ s <= e /\ e \in Int /\ EpsRec \in Nat
    BY LevelRange, EpsAssumption
  <1>2. r \in f .. s - 1 /\ \A j \in f .. s : SegmentKey[j] <= key <=> j <= r
    BY OneResponsible
  <1>3. guesses = MaxOf(r - f - EpsRec, 0) .. MinOf(r - f + EpsRec + 1, s - f)
    BY DEF Guesses, First, Sentinel
  <1>4. Walk(level, 0, key) = Walk(level, 0, key)
    OBVIOUS
  <1>5. ASSUME NEW pos
        PROVE  Walk(level, pos, key)
                 = LET lo == f + MaxOf(pos - EpsRec - 1, 0)
                   IN  Max({j \in lo .. e : \A i \in lo + 1 .. j : SegmentKey[i] <= key})
    BY DEF Walk, First
  <1> HIDE DEF f, s, r, e, guesses
  <1>6. r - f - EpsRec \in Int /\ r - f + EpsRec + 1 \in Int /\ s - f \in Int
    BY <1>1, <1>2
  <1>7. guesses # {} /\ \A pos \in guesses : pos \in Int /\ pos >= 0 /\ pos <= r - f + EpsRec + 1
    <2>1. /\ MaxOf(r - f - EpsRec, 0) = IF r - f - EpsRec >= 0 THEN r - f - EpsRec ELSE 0
          /\ MinOf(r - f + EpsRec + 1, s - f)
               = IF r - f + EpsRec + 1 <= s - f THEN r - f + EpsRec + 1 ELSE s - f
      BY <1>6, LargerOne, SmallerOne
    <2>2. r - f \in guesses
      BY <1>1, <1>2, <1>3, <2>1
    <2> QED BY <1>1, <1>2, <1>3, <2>1, <2>2
  <1>8. ASSUME NEW pos \in guesses PROVE Walk(level, pos, key) = r
    <2> DEFINE lo == f + MaxOf(pos - EpsRec - 1, 0)
               T == {j \in lo .. e : \A i \in lo + 1 .. j : SegmentKey[i] <= key}
    <2>1. pos - EpsRec - 1 \in Int
      BY <1>1, <1>7
    <2>2. lo \in Int /\ f <= lo /\ lo <= r
      BY <1>1, <1>2, <1>7, <2>1, LargerOne
    <2> HIDE DEF lo
    <2>3. r \in T
      BY <1>1, <1>2, <2>2
    <2>4. ASSUME NEW j \in T PROVE j \in Int /\ j <= r
      <3>1. SUFFICES ASSUME j > r PROVE FALSE
        BY <1>1, <1>2, <2>2
      <3>2. r + 1 \in lo + 1 .. j /\ r + 1 \in f .. s
        BY <1>1, <1>2, <2>2, <3>1
      <3>3. SegmentKey[r + 1] <= key
        BY <3>2
      <3> QED BY <1>1, <1>2, <3>2, <3>3
    <2>5. Max(T) \in T /\ \A j \in T : j <= Max(T)
      <3>1. T # {} /\ r \in Int
        BY <1>1, <1>2, <2>3
      <3> HIDE DEF T
      <3> QED BY <2>4, <3>1, Largest
    <2>6. Max(T) = r
      <3>1. Max(T) \in Int /\ Max(T) <= r /\ r <= Max(T)
        BY <2>3, <2>4, <2>5
      <3> HIDE DEF T
      <3> QED BY <1>1, <1>2, <3>1
    <2> QED BY <1>5, <2>6 DEF lo
  <1>9. {Walk(level, pos, key) : pos \in guesses} = {r}
    BY <1>7, <1>8
  <1> QED BY <1>9 DEF guesses, r

\* What the descent does on one level with what it has found on the level above.
Descend(at, key, level) ==
  IF level = startLevel
  THEN {Bisect(SegmentKey, Offset[level], Offset[level + 1] - 1, key) - 1}
  ELSE UNION {{Walk(level, pos, key) : pos \in Guesses(level, j, key)} : j \in at[level + 1]}

LEMMA DescentEnds ==
  ASSUME startLevel \in LevelNumbers, NEW key \in Queries
  PROVE  Segments(key) = {Responsible(0, key)}
  <1> DEFINE all == 0 .. startLevel
             at == CHOOSE g : g = [level \in all |-> Descend(g, key, level)]
             right == [level \in all |-> {Responsible(level, key)}]
  <1>1. /\ startLevel \in Nat /\ 0 \in all /\ startLevel \in all
        /\ \A level \in all : level \in Nat /\ level <= startLevel /\ level \in LevelNumbers
        /\ \A level \in all : level # startLevel => level + 1 \in all
    BY LevelShapes DEF LevelNumbers
  <1>2. Segments(key) = at[0]
    BY Zenon DEF Segments, Descend
  <1>3. ASSUME NEW g, NEW level \in all, level # startLevel => g[level + 1] = right[level + 1]
        PROVE  Descend(g, key, level) = right[level]
    <2>1. CASE level = startLevel
      BY <1>1, <2>1, LastBisected DEF Descend
    <2>2. CASE level # startLevel
      <3>1. level \in LevelNumbers /\ level + 1 \in LevelNumbers /\ g[level + 1] = {Responsible(level + 1, key)}
        BY <1>1, <1>3, <2>2
      <3>2. Descend(g, key, level) = {Walk(level, pos, key) : pos \in Guesses(level, Responsible(level + 1, key), key)}
        BY <2>2, <3>1 DEF Descend
      <3> QED BY <3>1, <3>2, Walks
    <2> QED BY <2>1, <2>2
  <1>4. right = [level \in all |-> Descend(right, key, level)]
    <2>1. \A level \in all : Descend(right, key, level) = right[level]
      <3> HIDE DEF right, all
      <3> QED BY <1>3
    <2> HIDE DEF all
    <2> QED BY <2>1
  <1>5. at = [level \in all |-> Descend(at, key, level)]
    <2> HIDE DEF right, all
    <2> QED BY <1>4
  <1> HIDE DEF at, right, all
  <1> DEFINE Odd == {startLevel - level : level \in {l \in all : at[l] # right[l]}}
  <1>6. Odd = {}
    <2> SUFFICES ASSUME Odd # {} PROVE FALSE
      OBVIOUS
    <2>1. \A d \in Odd : d \in Nat
      BY <1>1
    <2>2. PICK d \in Odd : \A i \in Odd : d <= i
      <3> HIDE DEF Odd
      <3> QED BY <2>1, LeastNumber
    <2>3. PICK level \in all : at[level] # right[level] /\ d = startLevel - level
      OBVIOUS
    <2>4. ASSUME level # startLevel PROVE at[level + 1] = right[level + 1]
      <3>1. level + 1 \in all /\ level \in Nat /\ startLevel \in Nat
        BY <1>1, <2>4
      <3>2. startLevel - (level + 1) < d
        BY <2>3, <3>1
      <3>3. startLevel - (level + 1) \in Odd => d <= startLevel - (level + 1)
        BY <2>2
      <3>4. ~(startLevel - (level + 1) \in Odd)
        BY <2>1, <2>3, <3>1, <3>2, <3>3
      <3> QED BY <3>1, <3>4
    <2>5. at[level] = Descend(at, key, level)
      BY <1>5
    <2> QED BY <1>3, <2>3, <2>4, <2>5
  <1>7. at[0] = right[0]
    BY <1>1, <1>6
  <1> QED BY <1>1, <1>2, <1>7 DEF right

-----------------------------------------------------------------------------
(* The position of a key.                                                  *)

\* A key's rank is the number of keys at or below it.
LEMMA RankIs ==
  ASSUME NEW key \in Int, key >= 2
  PROVE  /\ Rank(key) \in 1 .. S
         /\ \A i \in 0 .. S - 1 : Keys[i] <= key <=> i < Rank(key)
  <1> DEFINE cut == IF key \div 2 > S THEN S ELSE key \div 2
  <1>1. S \in Nat /\ S >= 1
    BY SAssumption
  <1>2. cut \in 1 .. S
    BY <1>1
  <1>3. \A i \in 0 .. S - 1 : Keys[i] <= key <=> i < cut
    BY <1>1 DEF Keys
  <1> HIDE DEF cut
  <1>4. Cuts(Keys, 0, S, key, cut)
    BY <1>1, <1>2, <1>3 DEF Cuts
  <1>5. Rank(key) = cut
    BY <1>1, <1>2, <1>4, BisectEnds DEF Rank
  <1> QED BY <1>2, <1>3, <1>5

LEMMA RanksRise ==
  ASSUME NEW a \in Int, NEW b \in Int, 2 <= a, a <= b
  PROVE  Rank(a) <= Rank(b)
  <1>1. S \in Nat /\ Rank(a) \in 1 .. S /\ Rank(b) \in 1 .. S
    BY SAssumption, RankIs
  <1>2. SUFFICES ASSUME Rank(b) < Rank(a) PROVE FALSE
    BY <1>1
  <1>3. Rank(b) \in 0 .. S - 1
    BY <1>1, <1>2
  <1>4. Keys[Rank(b)] <= a /\ ~(Keys[Rank(b)] <= b)
    BY <1>1, <1>2, <1>3, RankIs
  <1>5. Keys[Rank(b)] \in Int
    BY <1>1, <1>3 DEF Keys
  <1> QED BY <1>4, <1>5

\* The position the responsible segment predicts is within eps of the place of
\* the key, the position of the next segment does not cap it below.
LEMMA Predictions ==
  ASSUME eps \in Nat, NEW key \in Queries
  PROVE  /\ Predicted(Responsible(0, key), key) # {}
         /\ \A p \in Predicted(Responsible(0, key), key) :
              p \in Int /\ Rank(key) - 1 - eps <= p /\ p <= Rank(key) + eps
  <1> DEFINE j == Responsible(0, key)
             k == Rank(key)
             cap(p) == IF j + 1 < Offset[1] - 1 THEN MinOf(p, Intercept(j + 1)) ELSE p
  <1>1. key \in Int /\ 2 <= key /\ 0 \in LevelNumbers /\ S \in Nat
    BY LevelShapes, SAssumption DEF Queries, LevelNumbers
  <1>2. k \in 1 .. S
    BY <1>1, RankIs
  <1>3. Predicted(j, key) = {cap(p) : p \in k - 1 - eps .. k + eps}
    BY DEF Predicted
  <1>4. /\ First(0) \in Nat /\ Sentinel(0) \in Nat /\ Sentinel(0) = Offset[1] - 1
        /\ First(0) = Offset[0] /\ Sentinel(0) = First(0) + Len(Levels[1])
        /\ j \in First(0) .. Sentinel(0) - 1
        /\ \A i \in First(0) .. Sentinel(0) : SegmentKey[i] <= key <=> i <= j
    <2>1. 0 + 1 = 1
      OBVIOUS
    <2> QED BY <1>1, <2>1, LevelRange, OneResponsible DEF First, Sentinel
  <1>5. ASSUME j + 1 < Offset[1] - 1
        PROVE  Intercept(j + 1) \in Int /\ k - 1 <= Intercept(j + 1)
    <2>1. j + 1 \in First(0) .. Sentinel(0) /\ j + 1 # Sentinel(0) /\ ~(j + 1 <= j)
      BY <1>4, <1>5
    <2>2. SegmentKey[j + 1] = Levels[1][(j + 1) - First(0) + 1]
      <3>1. SegmentKey[j + 1] = Levels[0 + 1][(j + 1) - First(0) + 1]
        BY <1>1, <2>1, SegmentKeys
      <3>2. 0 + 1 = 1
        OBVIOUS
      <3> QED BY <3>1, <3>2
    <2>3. Levels[1] \in Seq(2 .. MaxKey) /\ Len(Levels[1]) \in Nat /\ (j + 1) - First(0) + 1 \in 1 .. Len(Levels[1])
      <3>1. 1 \in 1 .. Len(Levels)
        BY LevelShapes
      <3>2. Levels[1] \in Seq(2 .. MaxKey) /\ Len(Levels[1]) \in Nat
        BY <3>1, LevelShapes
      <3> QED BY <1>4, <2>1, <3>2
    <2>4. Levels[1][(j + 1) - First(0) + 1] \in 2 .. MaxKey
      BY <2>3, ElementOfSeq, Zenon
    <2>5. SegmentKey[j + 1] \in Int /\ 2 <= SegmentKey[j + 1]
      BY <2>2, <2>4, SAssumption
    <2>6. key <= SegmentKey[j + 1]
      BY <1>1, <1>4, <2>1, <2>5
    <2>7. k <= Rank(SegmentKey[j + 1]) /\ Rank(SegmentKey[j + 1]) \in 1 .. S
      BY <1>1, <2>5, <2>6, RanksRise, RankIs
    <2> QED BY <1>1, <1>2, <2>7 DEF Intercept
  <1> HIDE DEF j, k
  <1>6. ASSUME NEW p \in k - 1 - eps .. k + eps
        PROVE  cap(p) \in Int /\ k - 1 - eps <= cap(p) /\ cap(p) <= k + eps
    <2>1. CASE j + 1 < Offset[1] - 1
      <3>1. p \in Int /\ cap(p) = IF p <= Intercept(j + 1) THEN p ELSE Intercept(j + 1)
        BY <1>1, <1>2, <1>5, <1>6, <2>1, SmallerOne
      <3> QED BY <1>1, <1>2, <1>5, <1>6, <2>1, <3>1
    <2>2. CASE ~(j + 1 < Offset[1] - 1)
      BY <1>1, <1>2, <1>6, <2>2
    <2> QED BY <2>1, <2>2
  <1>7. k \in k - 1 - eps .. k + eps
    BY <1>1, <1>2
  <1> HIDE DEF cap
  <1>8. /\ Predicted(j, key) # {}
        /\ \A p \in Predicted(j, key) : p \in Int /\ k - 1 - eps <= p /\ p <= k + eps
    BY <1>3, <1>6, <1>7
  <1> QED BY <1>8 DEF j, k

LEMMA WindowHolds ==
  ASSUME eps \in Nat, NEW key \in Int, key >= 2, NEW p \in Int, Rank(key) - 1 - eps <= p, p <= Rank(key) + eps
  PROVE  Bisect(Keys, Window(p)[1], Window(p)[2], key) = Rank(key)
  <1>1. S \in Nat /\ Rank(key) \in 1 .. S /\ \A i \in 0 .. S - 1 : Keys[i] <= key <=> i < Rank(key)
    BY RankIs, SAssumption
  <1> DEFINE lo == Window(p)[1]
             hi == Window(p)[2]
  <1>2. /\ lo = IF p - eps >= 0 THEN p - eps ELSE 0
        /\ hi = IF p + eps + 2 <= S THEN p + eps + 2 ELSE S
    <2>1. p - eps \in Int /\ p + eps + 2 \in Int /\ S \in Int
      BY <1>1
    <2> QED BY <2>1, LargerOne, SmallerOne DEF Window
  <1> HIDE DEF lo, hi
  <1>3. lo \in 0 .. Rank(key) /\ hi \in Rank(key) .. S
    BY <1>1, <1>2
  <1>4. Cuts(Keys, lo, hi, key, Rank(key))
    BY <1>1, <1>3 DEF Cuts
  <1>5. Bisect(Keys, lo, hi, key) = Rank(key)
    BY <1>1, <1>3, <1>4, BisectEnds
  <1> QED BY <1>5 DEF lo, hi

LEMMA RightPosition ==
  ASSUME NEW key \in Queries
  PROVE  Position(Rank(key), key) = Place(key)
  <1> DEFINE k == Rank(key)
             below == {i \in 0 .. S - 1 : Keys[i] <= key}
  <1>1. S \in Nat /\ k \in 1 .. S /\ \A i \in 0 .. S - 1 : Keys[i] <= key <=> i < k
    BY RankIs, SAssumption DEF Queries
  <1>2. key \in Int /\ \A i \in 0 .. S - 1 : Keys[i] \in Int
    BY SAssumption DEF Queries, Keys
  <1>3. Place(key) = IF S - 1 \in below THEN INVALID ELSE (Max(below) + StartPos) * 8
    BY DEF Place
  <1>4. Position(k, key) = IF k <= S - 1 /\ (k = S - 1 \/ (Keys[k - 1] <= key /\ Keys[k] > key))
                           THEN (k - 1 + StartPos) * 8 ELSE INVALID
    BY DEF Position
  <1> HIDE DEF k
  <1>5. below = 0 .. k - 1
    BY <1>1
  <1> HIDE DEF below
  <1>6. CASE k = S
    <2>1. S - 1 \in below /\ ~(k <= S - 1)
      BY <1>1, <1>5, <1>6
    <2> QED BY <1>3, <1>4, <2>1 DEF k
  <1>7. CASE k # S
    <2>1. Keys[k - 1] <= key /\ Keys[k] > key /\ k <= S - 1
      BY <1>1, <1>2, <1>7
    <2>2. Max(below) = k - 1
      <3>1. k - 1 \in 0 .. k - 1 /\ \A i \in 0 .. k - 1 : i \in Int /\ i <= k - 1
        BY <1>1
      <3>2. Max(0 .. k - 1) \in 0 .. k - 1 /\ k - 1 <= Max(0 .. k - 1)
        <4> DEFINE T == 0 .. k - 1
        <4>1. k - 1 \in T /\ k - 1 \in Int /\ \A i \in T : i \in Int /\ i <= k - 1
          BY <1>1, <3>1
        <4> HIDE DEF T
        <4>2. Max(T) \in T /\ k - 1 <= Max(T)
          BY <4>1, Largest
        <4> QED BY <4>2 DEF T
      <3> QED BY <1>1, <1>5, <3>2
    <2>3. ~(S - 1 \in below)
      BY <1>1, <1>5, <1>7
    <2> QED BY <1>3, <1>4, <2>1, <2>2, <2>3 DEF k
  <1> QED BY <1>6, <1>7 DEF k

LEMMA AnswerExact ==
  ASSUME eps \in Nat, startLevel \in LevelNumbers, NEW key \in Queries
  PROVE  Answers(key) = {Place(key)}
  <1> DEFINE j == Responsible(0, key)
  <1>1. Segments(key) = {j} /\ key \in Int /\ key >= 2
    BY DescentEnds, SAssumption DEF Queries
  <1>2. Answers(key) = {Position(Bisect(Keys, Window(p)[1], Window(p)[2], key), key) : p \in Predicted(j, key)}
    BY <1>1 DEF Answers
  <1>3. \A p \in Predicted(j, key) : Position(Bisect(Keys, Window(p)[1], Window(p)[2], key), key) = Place(key)
    BY <1>1, Predictions, WindowHolds, RightPosition
  <1>4. Predicted(j, key) # {}
    BY Predictions
  <1> QED BY <1>2, <1>3, <1>4

-----------------------------------------------------------------------------
(* The level to start from.                                                *)

LEMMA LogOf ==
  ASSUME NEW x \in Nat, x >= 2
  PROVE  FastLog2(x) \in Nat /\ FastLog2(x) >= 1 /\ (x = 2 => FastLog2(x) = 1)
  <1> DEFINE T == {e \in 0 .. x : 2 ^ e <= x}
  <1>1. 1 \in T /\ x \in Int /\ \A e \in T : e \in Int /\ e <= x /\ e >= 0
    OBVIOUS
  <1>2. x = 2 => \A e \in T : e <= 1
    <2>1. ~(2 ^ 2 <= 2)
      OBVIOUS
    <2>2. ASSUME x = 2, NEW e \in T PROVE e <= 1
      <3>1. e \in {0, 1, 2} /\ 2 ^ e <= 2
        BY <2>2
      <3>2. e # 2
        BY <2>1, <3>1
      <3> QED BY <3>1, <3>2
    <2> QED BY <2>2
  <1>3. FastLog2(x) = Max(T)
    BY DEF FastLog2
  <1> HIDE DEF T
  <1>4. Max(T) \in T /\ \A e \in T : e <= Max(T)
    BY <1>1, Largest
  <1> QED BY <1>1, <1>2, <1>3, <1>4

LEMMA StartsInside ==
  ASSUME NEW e \in Nat, e >= 1
  PROVE  StartLevel(e) \in LevelNumbers
  <1> DEFINE N == Len(Levels)
             T == {l \in 0 .. N : l = N \/ ~TooLarge(l, e)}
  <1>1. N \in Nat /\ N >= 1 /\ N \in 1 .. N /\ N - 1 \in 0 .. N /\ (N - 1) + 1 = N
    BY LevelShapes
  <1>2. Offset[N] - Offset[N - 1] = 2
    <2>1. Offset[N - 1] \in Nat /\ Offset[N] = Offset[N - 1] + Len(Levels[N]) + 1
      BY <1>1, OffsetSteps
    <2>2. Len(Levels[N]) = 1
      BY LevelsAssumption
    <2> QED BY <2>1, <2>2
  <1>3. ~TooLarge(N - 1, e)
    <2> DEFINE log == FastLog2(2 * e)
    <2>1. FastLog2(2) = 1
      BY LogOf
    <2>2. log \in Nat /\ 1 <= log
      <3>1. 2 * e \in Nat /\ 2 * e >= 2
        OBVIOUS
      <3> QED BY <3>1, LogOf
    <2> HIDE DEF log
    <2>3. /\ AccessCost \in Nat /\ PredictionCost \in Nat
          /\ 1 * AccessCost <= log * AccessCost /\ log * AccessCost \in Nat
      BY <2>2, CostAssumption, Product
    <2>4. AccessCost * 1 = 1 * AccessCost /\ AccessCost * log = log * AccessCost
      BY <2>2, <2>3
    <2>5. TooLarge(N - 1, e) <=> AccessCost * 1 > PredictionCost + AccessCost * log
      BY <1>1, <1>2, <2>1 DEF TooLarge, log
    <2> QED BY <2>3, <2>4, <2>5
  <1>4. N - 1 \in T /\ \A l \in T : l \in Nat
    <2> HIDE DEF N
    <2> QED BY <1>1, <1>3
  <1>5. StartLevel(e) = Min(T)
    BY DEF StartLevel
  <1> HIDE DEF T
  <1>6. Min(T) \in T /\ Min(T) <= N - 1
    BY <1>4, Smallest
  <1>7. Min(T) \in Nat
    BY <1>4, <1>6
  <1> QED BY <1>1, <1>5, <1>6, <1>7 DEF LevelNumbers

-----------------------------------------------------------------------------
(* The slices.                                                             *)

SliceEnd(t) == SliceStart(t) + SliceLen(t)

LEMMA Quotas ==
  ASSUME n \in Nat
  PROVE  Quota \in Nat /\ NT * Quota <= n
  BY NTAssumption DEF Quota

LEMMA Slices ==
  ASSUME n \in 0 .. Cap, NEW t \in Tasklets
  PROVE  /\ SliceStart(t) \in Nat /\ SliceStart(t) % 2 = 0
         /\ SliceLen(t) \in Nat /\ SliceLen(t) % 2 = 0
         /\ SliceEnd(t) <= Cap
         /\ SliceStart(t) <= t * Quota
         /\ t # NT - 1 => (t + 1) * Quota <= SliceEnd(t)
         /\ t = NT - 1 => n <= SliceEnd(t)
  <1>1. t \in Nat /\ t <= NT - 1 /\ NT \in Nat /\ t + 1 \in Nat /\ t + 1 <= NT
    BY NTAssumption DEF Tasklets
  <1>2. n \in Nat /\ Quota \in Nat /\ NT * Quota <= n
    BY Quotas, CapAssumption
  <1>3. t * Quota \in Nat /\ (t + 1) * Quota \in Nat /\ t * Quota <= (t + 1) * Quota
    BY <1>1, <1>2, Product
  <1>4. (t + 1) * Quota <= n
    <2>1. (t + 1) * Quota <= NT * Quota
      BY <1>1, <1>2, Product
    <2>2. NT * Quota \in Nat
      BY <1>1, <1>2, Product
    <2> QED BY <1>2, <1>3, <2>1, <2>2
  <1> DEFINE a == t * Quota
             b == (t + 1) * Quota
             s == SliceStart(t)
             e == IF t = NT - 1 THEN n ELSE b
  <1>5. s = IF a % 2 = 0 THEN a ELSE a - 1
    BY DEF SliceStart
  <1>6. SliceLen(t) = IF (e - s) % 2 = 0 THEN e - s ELSE e - s + 1
    BY DEF SliceLen
  <1>7. a \in Nat /\ b \in Nat /\ a <= b /\ b <= n
    BY <1>3, <1>4
  <1> HIDE DEF a, b, s
  <1>8. s \in Nat /\ s % 2 = 0 /\ s <= a
    BY <1>5, <1>7
  <1>9. e \in Nat /\ s <= e /\ e <= n
    BY <1>2, <1>7, <1>8
  <1> HIDE DEF e
  <1>10. /\ SliceLen(t) \in Nat /\ SliceLen(t) % 2 = 0
         /\ e <= s + SliceLen(t) /\ s + SliceLen(t) <= Cap
    BY <1>6, <1>8, <1>9, CapAssumption
  <1> QED
    BY <1>8, <1>10 DEF a, b, s, e, SliceEnd

\* Every slot of the batch is in a quota: that of its number, or the last one,
\* which takes the rest.
QuotaEnd(t) == IF t = NT - 1 THEN n ELSE (t + 1) * Quota

LEMMA QuotaCover ==
  ASSUME n \in 0 .. Cap, NEW i \in 0 .. n - 1
  PROVE  \E t \in Tasklets : t * Quota <= i /\ i < QuotaEnd(t)
  <1>1. n \in Nat /\ i \in Nat /\ NT \in Nat /\ NT >= 1 /\ Quota \in Nat
    BY Quotas, CapAssumption, NTAssumption
  <1>2. CASE (NT - 1) * Quota <= i
    <2>1. NT - 1 \in Tasklets /\ i < QuotaEnd(NT - 1)
      BY <1>1 DEF Tasklets, QuotaEnd
    <2> QED BY <1>2, <2>1
  <1>3. CASE i < (NT - 1) * Quota
    <2>1. Quota > 0
      BY <1>1, <1>3
    <2> DEFINE t == i \div Quota
    <2>2. t \in Nat /\ t * Quota <= i /\ i < (t + 1) * Quota
      BY <1>1, <2>1
    <2>3. t < NT - 1
      <3>1. SUFFICES ASSUME NT - 1 <= t PROVE FALSE
        BY <1>1, <2>2
      <3>2. (NT - 1) * Quota <= t * Quota
        BY <1>1, <2>2, <3>1, Product
      <3> QED BY <1>1, <1>3, <2>2, <3>2
    <2> HIDE DEF t
    <2>4. t \in Tasklets /\ i < QuotaEnd(t)
      BY <1>1, <2>2, <2>3 DEF Tasklets, QuotaEnd
    <2> QED BY <2>2, <2>4
  <1>4. (NT - 1) * Quota \in Nat
    BY <1>1, Product
  <1> QED BY <1>1, <1>2, <1>3, <1>4

LEMMA Quotients ==
  ASSUME n \in 0 .. Cap, NEW t \in Tasklets
  PROVE  t * Quota \in Nat /\ QuotaEnd(t) \in Nat /\ t * Quota <= QuotaEnd(t) /\ QuotaEnd(t) <= n
  <1>1. t \in Nat /\ t <= NT - 1 /\ NT \in Nat /\ t + 1 \in Nat /\ t + 1 <= NT /\ n \in Nat /\ Quota \in Nat
    BY NTAssumption, CapAssumption, Quotas DEF Tasklets
  <1>2. /\ t * Quota \in Nat /\ (t + 1) * Quota \in Nat /\ NT * Quota \in Nat
        /\ t * Quota <= (t + 1) * Quota /\ (t + 1) * Quota <= NT * Quota /\ NT * Quota <= n
    BY <1>1, Product, Quotas
  <1> HIDE DEF Quota
  <1> QED BY <1>1, <1>2 DEF QuotaEnd

\* So every slot of the batch is in a slice.
LEMMA Cover ==
  ASSUME n \in 0 .. Cap, NEW i \in 0 .. n - 1
  PROVE  \E t \in Tasklets : SliceStart(t) <= i /\ i < SliceEnd(t)
  <1>1. PICK t \in Tasklets : t * Quota <= i /\ i < QuotaEnd(t)
    BY QuotaCover
  <1>2. /\ t * Quota \in Nat /\ QuotaEnd(t) \in Nat /\ i \in Nat /\ n \in Nat
        /\ SliceStart(t) \in Nat /\ SliceEnd(t) \in Nat
    BY Quotients, Slices, CapAssumption DEF SliceEnd
  <1>3. SliceStart(t) <= t * Quota /\ QuotaEnd(t) <= SliceEnd(t)
    BY Slices DEF QuotaEnd
  <1> QED BY <1>1, <1>2, <1>3

-----------------------------------------------------------------------------
(* What every step keeps.                                                  *)

Shapes ==
  /\ n \in 0 .. Cap
  /\ DOMAIN pc = Tasklets /\ DOMAIN pair = Tasklets
  /\ cur \in [Tasklets -> Nat] /\ left \in [Tasklets -> Nat]
  /\ DOMAIN rbuffer = Slots /\ sbuffer \in [Slots -> Queries]

\* What a tasklet that searches has in hand.
Aligned(t) ==
  pc[t] = "search" => /\ pair[t] = <<>> <=> cur[t] % 2 = 0
                      /\ cur[t] + left[t] <= Cap

AlignedInv == Shapes /\ \A t \in Tasklets : Aligned(t)

LEMMA AlignedInit == Init => AlignedInv
  <1> SUFFICES ASSUME Init PROVE AlignedInv
    OBVIOUS
  <1>1. n \in 0 .. Cap /\ 2 \in Queries
    BY CapAssumption, SAssumption DEF Init, Queries
  <1> QED BY <1>1 DEF Init, AlignedInv, Shapes, Aligned

LEMMA Remainder ==
  ASSUME NEW a \in Nat, NEW b \in Nat, b > 0
  PROVE  a % b \in 0 .. b - 1
  OBVIOUS

LEMMA LaunchKeeps ==
  ASSUME AlignedInv, NEW o, Launch(o), UNCHANGED <<result, regs>>
  PROVE  AlignedInv'
  <1>1. n' \in 0 .. Cap /\ DOMAIN pc' = Tasklets /\ \A t \in Tasklets : pc'[t] = "bar1"
    BY DEF Launch
  <1>2. sbuffer' \in [Slots -> Queries]
    <2>1. PICK first \in Firsts :
            sbuffer' = [i \in Slots |->
              IF i < n' THEN 2 + ((first + 3 * i) % (MaxKey - 1)) ELSE sbuffer[i]]
      BY DEF Launch
    <2>2. ASSUME NEW i \in Slots
          PROVE  2 + ((first + 3 * i) % (MaxKey - 1)) \in Queries
      <3>1. first \in Nat /\ 3 * i \in Nat /\ MaxKey - 1 \in Nat /\ MaxKey - 1 > 0
        BY SAssumption, CapAssumption DEF Slots
      <3>2. first + 3 * i \in Nat
        BY <3>1
      <3> DEFINE a == first + 3 * i
                 b == MaxKey - 1
                 r == a % b
      <3>3. a \in Nat /\ b \in Nat /\ b > 0
        BY <3>1, <3>2
      <3> HIDE DEF a, b
      <3>5. r \in 0 .. b - 1
        BY <3>3, Remainder, Zenon DEF r
      <3> HIDE DEF r
      <3>4. 2 + r \in Queries
        BY <3>5, SAssumption DEF Queries, b
      <3> QED BY <3>4 DEF a, b, r
    <2> QED BY <2>1, <2>2 DEF AlignedInv, Shapes
  <1> QED BY <1>1, <1>2 DEF AlignedInv, Shapes, Aligned

\* A tasklet begins at its slice and moves in it by one.
LEMMA SearchKeeps ==
  ASSUME AlignedInv, NEW t \in Tasklets, Search(t)
  PROVE  AlignedInv'
  <1> USE DEF AlignedInv, Shapes
  <1>1. /\ cur' = [cur EXCEPT ![t] = @ + 1] /\ left' = [left EXCEPT ![t] = @ - 1]
        /\ left[t] > 0 /\ pc[t] = "search"
        /\ UNCHANGED <<pc, n, sbuffer>>
    BY DEF Search
  <1>2. \/ pair[t] = <<>> /\ \E a : pair' = [pair EXCEPT ![t] = <<a>>] /\ UNCHANGED rbuffer
        \/ /\ pair[t] # <<>> /\ pair' = [pair EXCEPT ![t] = <<>>]
           /\ DOMAIN rbuffer' = DOMAIN rbuffer
    BY DEF Search
  <1>3. Shapes'
    BY <1>1, <1>2
  <1>4. cur'[t] + left'[t] = cur[t] + left[t] /\ (cur'[t] % 2 = 0 <=> cur[t] % 2 # 0)
    BY <1>1
  <1>5. pair'[t] = <<>> <=> pair[t] # <<>>
    <2>1. \A a : <<a>> # <<>>
      OBVIOUS
    <2>2. CASE pair[t] # <<>> BY <1>2, <2>2
    <2>3. CASE pair[t] = <<>>
      <3>1. PICK a : pair' = [pair EXCEPT ![t] = <<a>>]
        BY <1>2, <2>3
      <3>2. pair'[t] = <<a>>
        BY <3>1
      <3> QED BY <2>1, <2>3, <3>2
    <2> QED BY <2>2, <2>3
  <1>6. Aligned(t)'
    BY <1>1, <1>4, <1>5 DEF Aligned
  <1>7. \A u \in Tasklets \ {t} : Aligned(u)'
    BY <1>1, <1>2 DEF Aligned
  <1> QED BY <1>3, <1>6, <1>7

LEMMA BeginKeeps ==
  ASSUME AlignedInv, NEW t \in Tasklets, BeginSearch(t)
  PROVE  AlignedInv'
  <1> USE DEF AlignedInv, Shapes
  <1>1. /\ SliceStart(t) \in Nat /\ SliceStart(t) % 2 = 0
        /\ SliceLen(t) \in Nat /\ SliceStart(t) + SliceLen(t) <= Cap
    BY Slices DEF SliceEnd
  <1> QED BY <1>1 DEF BeginSearch, Aligned

LEMMA OverflowKeeps ==
  ASSUME AlignedInv, NEW t \in Tasklets, BeginOverflow(t) \/ SearchOverflow(t)
  PROVE  AlignedInv'
  <1> USE DEF AlignedInv, Shapes
  <1>1. CASE BeginOverflow(t)
    <2>1. Quota \in Nat /\ t * Quota \in Nat /\ NT * Quota <= n /\ t \in Nat /\ t <= NT
      BY Quotas, Product, CapAssumption, NTAssumption DEF Tasklets
    <2>2. t * Quota <= NT * Quota /\ NT * Quota \in Nat
      BY <2>1, Product, NTAssumption
    <2>3. n - t * Quota \in Nat
      BY <2>1, <2>2, CapAssumption
    <2> QED BY <1>1, <2>1, <2>3 DEF BeginOverflow, Aligned
  <1>2. CASE SearchOverflow(t)
    BY <1>2 DEF SearchOverflow, Aligned
  <1> QED BY <1>1, <1>2

LEMMA AlignedStep == AlignedInv /\ [Next]_vars => AlignedInv'
  <1> SUFFICES ASSUME AlignedInv, [Next]_vars PROVE AlignedInv'
    OBVIOUS
  <1> USE DEF AlignedInv, Shapes
  <1>1. CASE LaunchSearch BY <1>1, LaunchKeeps DEF LaunchSearch
  <1>2. CASE LaunchOverflow BY <1>2, LaunchKeeps DEF LaunchOverflow
  <1>3. ASSUME NEW t \in Tasklets, Barrier(t) PROVE AlignedInv'
    <2> DEFINE next == [pc EXCEPT ![t] = Waiting[@]]
    <2>1. /\ pc' = IF \A u \in Tasklets : next[u] \in DOMAIN Passing
                   THEN [u \in Tasklets |-> Passing[next[u]]] ELSE next
          /\ pc[t] \in DOMAIN Waiting
          /\ UNCHANGED <<n, sbuffer, rbuffer, cur, left, pair>>
      BY <1>3 DEF Barrier
    <2>2. DOMAIN pc' = Tasklets
      BY <2>1
    <2>3. \A u \in Tasklets : pc'[u] = "search" => pc[u] = "search"
      BY <2>1 DEF Waiting, Passing
    <2> QED BY <2>1, <2>2, <2>3 DEF Aligned
  <1>4. ASSUME NEW t \in Tasklets, InitIndex(t) PROVE AlignedInv'
    BY <1>4 DEF InitIndex, Aligned
  <1>5. ASSUME NEW t \in Tasklets, BeginSearch(t) PROVE AlignedInv'
    BY <1>5, BeginKeeps
  <1>6. ASSUME NEW t \in Tasklets, Search(t) PROVE AlignedInv'
    BY <1>6, SearchKeeps
  <1>7. ASSUME NEW t \in Tasklets, BeginOverflow(t) \/ SearchOverflow(t) PROVE AlignedInv'
    BY <1>7, OverflowKeeps
  <1>8. ASSUME NEW t \in Tasklets, Done(t) PROVE AlignedInv'
    BY <1>8 DEF Done, Aligned
  <1>9. CASE UNCHANGED vars BY <1>9 DEF vars, Aligned
  <1> QED
    BY <1>1, <1>2, <1>3, <1>4, <1>5, <1>6, <1>7, <1>8, <1>9 DEF Next, Step

\* A pair of positions is only written to an even slot inside the send buffer,
\* for any number of queries and tasklets.
THEOREM PairsStayAligned == Spec => []PairsAligned
  <1>1. AlignedInv => PairsAligned
    BY DEF AlignedInv, Aligned, PairsAligned
  <1> QED BY AlignedInit, AlignedStep, <1>1, PTL DEF Spec

-----------------------------------------------------------------------------
(* The batch as a whole.                                                   *)

\* The level to start from is one of the levels.
Started == eps \in Epsilons /\ startLevel \in LevelNumbers

LEMMA StartedInit == Init => Started
  BY LevelShapes DEF Init, Started, LevelNumbers

LEMMA StartedStep == Started /\ [Next]_vars => Started'
  <1> SUFFICES ASSUME Started, [Next]_vars PROVE Started'
    OBVIOUS
  <1>1. ASSUME NEW t \in Tasklets, InitIndex(t) PROVE Started'
    <2>1. eps \in Nat /\ eps >= 1 /\ eps' = eps /\ startLevel' \in {startLevel, StartLevel(eps)}
      BY <1>1, EpsAssumption DEF InitIndex, Started
    <2> QED BY <2>1, StartsInside DEF Started
  <1>2. ASSUME UNCHANGED <<eps, startLevel>> PROVE Started'
    BY <1>2 DEF Started
  <1> QED
    BY <1>1, <1>2 DEF Next, Step, vars, LaunchSearch, LaunchOverflow, Barrier, BeginSearch,
                      Search, BeginOverflow, SearchOverflow, Done

\* However the models err, one query is answered by its place: the descent ends
\* at the segment responsible and the window holds the key.
AnswersExact == \A key \in Queries : Answers(key) = {Place(key)}

LEMMA StartedExact == Started => AnswersExact
  BY AnswerExact, EpsAssumption DEF Started, AnswersExact

\* In every state the only answer to a key is its place.
THEOREM OneKeyExact == Spec => []AnswersExact
  BY StartedInit, StartedStep, StartedExact, PTL DEF Spec

\* The slots from the start of a slice up to b hold the answers.
Written(t, b) == \A i \in Slots : SliceStart(t) <= i /\ i < b => rbuffer[i] = Place(sbuffer[i])

\* In a position search no tasklet works before all have come, and none starts
\* over before all are done.
Phases ==
  \/ \A t \in Tasklets : pc[t] \in {"bar1", "in1"}
  \/ \A t \in Tasklets : pc[t] \in {"op", "search", "bar2", "in2"}
  \/ Idle

\* A tasklet that searches has written its slice up to the pair in hand, one
\* that is past it all of it.
Progress(t) ==
  /\ pc[t] = "search" =>
       /\ recvN = n /\ cur[t] + left[t] = SliceEnd(t) /\ SliceStart(t) <= cur[t]
       /\ cur[t] % 2 = 0 => Written(t, cur[t])
       /\ cur[t] % 2 # 0 => /\ Written(t, cur[t] - 1)
                            /\ pair[t] = <<Place(sbuffer[cur[t] - 1])>>
  /\ pc[t] \in {"bar2", "in2", "idle"} => recvN = n /\ Written(t, SliceEnd(t))

AnsweredInv ==
  /\ AlignedInv
  /\ op = 1 => Phases /\ \A t \in Tasklets : Progress(t)

LEMMA AnsweredInit == Init => AnsweredInv
  BY AlignedInit DEF Init, AnsweredInv

LEMMA LaunchAnswered ==
  ASSUME AnsweredInv, AlignedInv', NEW o, Launch(o)
  PROVE  AnsweredInv'
  BY DEF Launch, AnsweredInv, Phases, Progress

\* Slices stay what they are while nothing is launched.
LEMMA SlicesKeep ==
  ASSUME UNCHANGED n, NEW t
  PROVE  UNCHANGED <<SliceStart(t), SliceEnd(t)>>
  BY DEF SliceStart, SliceEnd, SliceLen, Quota

\* No write takes an answer away: what a tasklet writes is the answer too.
LEMMA WrittenKeeps ==
  ASSUME UNCHANGED <<n, sbuffer>>, NEW t, NEW b,
         \A i \in Slots : rbuffer'[i] \in {rbuffer[i], Place(sbuffer[i])},
         Written(t, b)
  PROVE  Written(t, b)'
  <1>1. UNCHANGED SliceStart(t)
    BY SlicesKeep
  <1>2. \A i \in Slots : Place(sbuffer[i])' = Place(sbuffer[i])
    BY DEF Place
  <1> QED BY <1>1, <1>2 DEF Written

LEMMA BarrierAnswered ==
  ASSUME AnsweredInv, AlignedInv', NEW t \in Tasklets, Barrier(t), op = 1
  PROVE  AnsweredInv'
  <1> DEFINE next == [pc EXCEPT ![t] = Waiting[@]]
  <1>1. /\ pc' = IF \A u \in Tasklets : next[u] \in DOMAIN Passing
                 THEN [u \in Tasklets |-> Passing[next[u]]] ELSE next
        /\ pc[t] \in DOMAIN Waiting
        /\ UNCHANGED <<op, n, sbuffer, rbuffer, recvN, cur, left, pair>>
    BY DEF Barrier
  <1>2. DOMAIN pc = Tasklets
    BY DEF AnsweredInv, AlignedInv, Shapes
  <1>3. Phases /\ \A u \in Tasklets : Progress(u)
    BY DEF AnsweredInv
  <1>4. pc[t] \in {"bar1", "bar2"} /\ next[t] \in {"in1", "in2"}
    BY <1>1, <1>2, <1>3 DEF Waiting, Phases, Idle
  <1>5. Phases'
    <2>1. CASE \A u \in Tasklets : pc[u] \in {"bar1", "in1"}
      BY <1>1, <1>2, <1>4, <2>1 DEF Phases, Waiting, Passing
    <2>2. CASE \A u \in Tasklets : pc[u] \in {"op", "search", "bar2", "in2"}
      BY <1>1, <1>2, <1>4, <2>2 DEF Phases, Idle, Waiting, Passing
    <2>3. CASE Idle
      BY <1>4, <2>3 DEF Idle
    <2> QED BY <1>3, <2>1, <2>2, <2>3 DEF Phases
  <1>6. ASSUME NEW u \in Tasklets PROVE Progress(u)'
    <2>1. pc'[u] = "search" => pc[u] = "search"
      BY <1>1, <1>2 DEF Waiting, Passing
    <2>2. pc'[u] \in {"bar2", "in2", "idle"} => pc[u] \in {"bar2", "in2", "idle"}
      BY <1>1, <1>2, <1>3, <1>4 DEF Waiting, Passing, Phases, Idle
    <2>3. UNCHANGED <<SliceStart(u), SliceEnd(u)>>
      BY <1>1, SlicesKeep
    <2>4. \A b : Written(u, b)' <=> Written(u, b)
      BY <1>1, <2>3 DEF Written, Place
    <2>5. Progress(u) /\ UNCHANGED Place(sbuffer[cur[u] - 1])
      BY <1>1, <1>3 DEF Place
    <2> QED BY <1>1, <2>1, <2>2, <2>3, <2>4, <2>5 DEF Progress
  <1> QED BY <1>5, <1>6 DEF AnsweredInv

LEMMA BeginAnswered ==
  ASSUME AnsweredInv, AlignedInv', NEW t \in Tasklets, BeginSearch(t)
  PROVE  AnsweredInv'
  <1> USE DEF AnsweredInv
  <1>1. /\ pc[t] = "op" /\ op = 1 /\ recvN' = n
        /\ pc' = [pc EXCEPT ![t] = "search"]
        /\ cur' = [cur EXCEPT ![t] = SliceStart(t)]
        /\ left' = [left EXCEPT ![t] = SliceLen(t)]
        /\ pair' = [pair EXCEPT ![t] = <<>>]
        /\ UNCHANGED <<op, n, sbuffer, rbuffer>>
    BY DEF BeginSearch
  <1>2. DOMAIN pc = Tasklets /\ DOMAIN cur = Tasklets /\ DOMAIN left = Tasklets /\ n \in 0 .. Cap
    BY DEF AlignedInv, Shapes
  <1>3. Phases'
    BY <1>1, <1>2 DEF Phases, Idle
  <1>4. \A u : UNCHANGED <<SliceStart(u), SliceEnd(u)>>
    BY <1>1, SlicesKeep
  <1>5. SliceStart(t) \in Nat /\ SliceStart(t) % 2 = 0
    BY <1>2, Slices
  <1>6. Written(t, SliceStart(t))'
    BY <1>1, <1>4, <1>5, CapAssumption DEF Written, Slots
  <1>7. Progress(t)'
    BY <1>1, <1>2, <1>4, <1>5, <1>6 DEF Progress, SliceEnd
  <1>8. ASSUME NEW u \in Tasklets \ {t} PROVE Progress(u)'
    <2>1. \A b : Written(u, b)' <=> Written(u, b)
      BY <1>1, <1>4 DEF Written, Place
    <2>2. Progress(u) /\ UNCHANGED Place(sbuffer[cur[u] - 1])
      BY <1>1 DEF Place
    <2> QED BY <1>1, <1>4, <2>1, <2>2 DEF Progress
  <1> QED BY <1>3, <1>7, <1>8

\* A pair is written one slot below an even one, so within the slice, and with
\* what the two searches have found.
LEMMA SearchAnsweredStep ==
  ASSUME AnsweredInv, AlignedInv', AnswersExact, NEW t \in Tasklets, Search(t), op = 1
  PROVE  AnsweredInv'
  <1> USE DEF AnsweredInv
  <1>0. PICK c : c = cur[t]
    OBVIOUS
  <1>1. /\ pc[t] = "search" /\ left[t] > 0
        /\ cur' = [cur EXCEPT ![t] = @ + 1] /\ left' = [left EXCEPT ![t] = @ - 1]
        /\ UNCHANGED <<op, n, sbuffer, recvN, pc>>
    BY DEF Search
  <1>2. /\ DOMAIN pc = Tasklets /\ DOMAIN rbuffer = Slots /\ DOMAIN pair = Tasklets
        /\ sbuffer \in [Slots -> Queries]
        /\ cur \in [Tasklets -> Nat] /\ left \in [Tasklets -> Nat] /\ n \in 0 .. Cap
    BY DEF AlignedInv, Shapes
  <1>3. /\ c \in Nat /\ c \in Slots
        /\ c % 2 # 0 => c - 1 \in Slots /\ (c - 1) % 2 = 0
        /\ pair[t] = <<>> <=> c % 2 = 0
    <2>1. cur[t] + left[t] <= Cap /\ (pair[t] = <<>> <=> cur[t] % 2 = 0)
      BY <1>1 DEF AlignedInv, Aligned
    <2>2. c \in Nat /\ c < Cap
      BY <1>0, <1>1, <1>2, <2>1, CapAssumption
    <2>3. c \in Slots
      BY <2>2, CapAssumption DEF Slots
    <2>4. c % 2 # 0 => c - 1 \in Slots /\ (c - 1) % 2 = 0
      BY <2>2, CapAssumption DEF Slots
    <2> QED BY <1>0, <2>1, <2>2, <2>3, <2>4
  <1>4. SliceStart(t) \in Nat /\ SliceStart(t) % 2 = 0 /\ SliceStart(t) <= c
    BY <1>0, <1>1, <1>2, Slices DEF Progress
  <1>5. Answers(sbuffer[c]) = {Place(sbuffer[c])}
    BY <1>2, <1>3 DEF AnswersExact
  <1>6. \/ /\ pair[t] = <<>> /\ UNCHANGED rbuffer
           /\ pair' = [pair EXCEPT ![t] = <<Place(sbuffer[c])>>]
        \/ /\ pair[t] # <<>> /\ pair' = [pair EXCEPT ![t] = <<>>]
           /\ rbuffer' = [rbuffer EXCEPT ![c - 1] = pair[t][1], ![c] = Place(sbuffer[c])]
    BY <1>0, <1>5 DEF Search
  <1>7. pair[t] # <<>> => pair[t][1] = Place(sbuffer[c - 1])
    BY <1>0, <1>1, <1>3 DEF Progress
  <1>8. \A i \in Slots : rbuffer'[i] \in {rbuffer[i], Place(sbuffer[i])}
    BY <1>2, <1>3, <1>6, <1>7
  <1>9. \A u, b : Written(u, b) => Written(u, b)'
    BY <1>1, <1>8, WrittenKeeps
  <1>10. \A u : UNCHANGED <<SliceStart(u), SliceEnd(u)>>
    BY <1>1, SlicesKeep
  <1>11. \A u \in Tasklets \ {t} : UNCHANGED cur[u] /\ UNCHANGED Place(sbuffer[cur[u] - 1])
    BY <1>1 DEF Place
  <1>12. Phases'
    BY <1>1 DEF Phases, Idle
  <1>13. \A u \in Tasklets \ {t} : Progress(u)'
    BY <1>1, <1>2, <1>6, <1>9, <1>10, <1>11 DEF Progress
  <1>14. cur'[t] = c + 1 /\ left'[t] = left[t] - 1
    BY <1>0, <1>1, <1>2
  <1>15. cur'[t] + left'[t] = SliceEnd(t)' /\ SliceStart(t)' <= cur'[t] /\ recvN' = n'
    BY <1>0, <1>1, <1>2, <1>4, <1>10, <1>14 DEF Progress
  <1>16. CASE c % 2 = 0
    <2>1. cur'[t] % 2 # 0 /\ cur'[t] - 1 = c
      BY <1>3, <1>14, <1>16
    <2>2. Written(t, c)'
      BY <1>0, <1>1, <1>9, <1>16 DEF Progress
    <2>3. pair'[t] = <<Place(sbuffer[c])>> /\ Place(sbuffer[cur[t] - 1])' = Place(sbuffer[c])
      BY <1>1, <1>2, <1>3, <1>6, <1>16, <2>1 DEF Place
    <2>4. Progress(t)'
      BY <1>1, <1>15, <2>1, <2>2, <2>3 DEF Progress
    <2> QED BY <1>12, <1>13, <2>4
  <1>17. CASE c % 2 # 0
    <2>1. cur'[t] % 2 = 0
      BY <1>3, <1>14, <1>17
    <2>2. Written(t, c - 1)'
      BY <1>0, <1>1, <1>9, <1>17 DEF Progress
    <2>3. rbuffer'[c - 1] = Place(sbuffer[c - 1]) /\ rbuffer'[c] = Place(sbuffer[c])
      BY <1>2, <1>3, <1>6, <1>7, <1>17
    <2>4. /\ Place(sbuffer[c - 1])' = Place(sbuffer[c - 1])
          /\ Place(sbuffer[c])' = Place(sbuffer[c])
          /\ \A i \in Slots : Place(sbuffer[i])' = Place(sbuffer'[i])
      BY <1>1 DEF Place
    <2>5. Written(t, c + 1)'
      <3> SUFFICES ASSUME NEW i \in Slots, SliceStart(t)' <= i, i < c + 1
                   PROVE  rbuffer'[i] = Place(sbuffer[i])'
        BY <1>1, <1>14 DEF Written
      <3>1. CASE i < c - 1
        BY <2>2, <3>1 DEF Written
      <3>2. CASE i = c - 1
        BY <2>3, <2>4, <3>2
      <3>3. CASE i = c
        BY <2>3, <2>4, <3>3
      <3> QED BY <1>3, <3>1, <3>2, <3>3, CapAssumption DEF Slots
    <2>6. Progress(t)'
      BY <1>1, <1>14, <1>15, <2>1, <2>5 DEF Progress
    <2> QED BY <1>12, <1>13, <2>6
  <1> QED BY <1>16, <1>17

LEMMA DoneAnswered ==
  ASSUME AnsweredInv, AlignedInv', NEW t \in Tasklets, Done(t), op = 1
  PROVE  AnsweredInv'
  <1> USE DEF AnsweredInv
  <1>1. /\ pc[t] \in {"search", "overflow"} /\ left[t] = 0
        /\ pc' = [pc EXCEPT ![t] = "bar2"]
        /\ UNCHANGED <<op, n, sbuffer, rbuffer, recvN, cur, left, pair>>
    BY DEF Done
  <1>2. DOMAIN pc = Tasklets /\ cur \in [Tasklets -> Nat] /\ n \in 0 .. Cap
    BY DEF AlignedInv, Shapes
  <1>3. pc[t] = "search"
    BY <1>1 DEF Phases, Idle
  <1>4. cur[t] = SliceEnd(t) /\ recvN = n
    BY <1>1, <1>2, <1>3 DEF Progress
  <1>5. SliceEnd(t) % 2 = 0
    BY <1>2, Slices DEF SliceEnd
  <1>6. Written(t, SliceEnd(t))
    BY <1>3, <1>4, <1>5 DEF Progress
  <1>7. \A u : UNCHANGED <<SliceStart(u), SliceEnd(u)>>
    BY <1>1, SlicesKeep
  <1>8. \A u, b : Written(u, b)' <=> Written(u, b)
    BY <1>1, <1>7 DEF Written, Place
  <1>9. Phases'
    BY <1>1, <1>2, <1>3 DEF Phases, Idle
  <1>10. Progress(t)'
    BY <1>1, <1>2, <1>4, <1>6, <1>7, <1>8 DEF Progress
  <1>11. ASSUME NEW u \in Tasklets \ {t} PROVE Progress(u)'
    <2>1. Progress(u) /\ UNCHANGED Place(sbuffer[cur[u] - 1])
      BY <1>1 DEF Place
    <2> QED BY <1>1, <1>2, <1>7, <1>8, <2>1 DEF Progress
  <1> QED BY <1>9, <1>10, <1>11

LEMMA AnsweredStep == AnswersExact /\ AnsweredInv /\ [Next]_vars => AnsweredInv'
  <1> SUFFICES ASSUME AnswersExact, AnsweredInv, [Next]_vars PROVE AnsweredInv'
    OBVIOUS
  <1>1. AlignedInv'
    BY AlignedStep DEF AnsweredInv
  <1>2. CASE LaunchSearch \/ LaunchOverflow
    BY <1>1, <1>2, LaunchAnswered DEF LaunchSearch, LaunchOverflow
  <1>3. CASE op # 1 /\ \E t \in Tasklets : Step(t)
    <2>1. op' = op
      BY <1>3 DEF Step, Barrier, InitIndex, BeginSearch, Search, BeginOverflow,
                  SearchOverflow, Done
    <2> QED BY <1>1, <1>3, <2>1 DEF AnsweredInv
  <1>4. ASSUME op = 1, NEW t \in Tasklets, Step(t) PROVE AnsweredInv'
    <2>1. Barrier(t) \/ BeginSearch(t) \/ Search(t) \/ Done(t)
      BY <1>4 DEF Step, InitIndex, BeginOverflow, SearchOverflow, AnsweredInv, Phases, Idle
    <2> QED
      BY <1>1, <1>4, <2>1, BarrierAnswered, BeginAnswered, SearchAnsweredStep, DoneAnswered
  <1>5. CASE UNCHANGED vars
    <2>1. \A u \in Tasklets : /\ UNCHANGED <<SliceStart(u), SliceEnd(u)>>
                              /\ UNCHANGED Place(sbuffer[cur[u] - 1])
                              /\ \A b : Written(u, b)' <=> Written(u, b)
      BY <1>5, SlicesKeep DEF vars, Place, Written
    <2> QED BY <1>1, <1>5, <2>1 DEF vars, AnsweredInv, Phases, Idle, Progress
  <1> QED BY <1>2, <1>3, <1>4, <1>5 DEF Next

\* When a search has ended every query of the batch has its answer, for any
\* number of tasklets and queries, overlapping slices and all.
THEOREM BatchAnswered == Spec => []SearchAnswered
  <1>1. ASSUME AnsweredInv, Idle, op = 1 PROVE SearchAnswered
    <2>1. 0 \in Tasklets /\ NT - 1 \in Tasklets
      BY NTAssumption DEF Tasklets
    <2>2. \A t \in Tasklets : recvN = n /\ Written(t, SliceEnd(t))
      BY <1>1 DEF AnsweredInv, Progress, Idle
    <2>3. ASSUME NEW i \in 0 .. n - 1 PROVE rbuffer[i] = Place(sbuffer[i])
      <3>1. n \in 0 .. Cap
        BY <1>1 DEF AnsweredInv, AlignedInv, Shapes
      <3>2. i \in Slots
        BY <2>3, <3>1, CapAssumption DEF Slots
      <3>3. PICK t \in Tasklets : SliceStart(t) <= i /\ i < SliceEnd(t)
        BY <2>3, <3>1, Cover
      <3> QED BY <2>2, <3>2, <3>3 DEF Written
    <2> QED BY <2>1, <2>2, <2>3 DEF SearchAnswered
  <1>2. AnsweredInv => SearchAnswered
    BY <1>1 DEF SearchAnswered
  <1> QED BY AnsweredInit, AnsweredStep, OneKeyExact, <1>2, PTL DEF Spec

-----------------------------------------------------------------------------
(* The overflow entry that leads a key.                                    *)

\* The windows of the second bisection, both ends of which are searched, and
\* what it does with one.
Inclusive == (0 .. Len(entries)) \X (-1 .. Len(entries) - 1)
Middle(w) == w[1] + (w[2] - w[1]) \div 2
Narrow(key, b, w) ==
  LET m == w[1] + (w[2] - w[1]) \div 2
  IN  IF w[1] > w[2] THEN w[2]
      ELSE IF entries[m + 1] > key THEN b[<<w[1], m - 1>>] ELSE b[<<m + 1, w[2]>>]

\* Where they end up when the entries above the key start behind last.
Lasts(last) ==
  [w \in Inclusive |-> IF w[1] > w[2] THEN w[2]
                       ELSE IF last < w[1] THEN w[1] - 1 ELSE IF last > w[2] THEN w[2] ELSE last]

IsLast(key, last) ==
  /\ last \in -1 .. Len(entries) - 1
  /\ \A i \in 0 .. Len(entries) - 1 : entries[i + 1] > key <=> i > last

LEMMA LastsNarrow ==
  ASSUME entries \in Seq(Nat), NEW key, NEW last, IsLast(key, last),
         NEW w \in Inclusive
  PROVE  /\ Lasts(last)[w] = Narrow(key, Lasts(last), w)
         /\ w[1] <= w[2] =>
              /\ Middle(w) \in w[1] .. w[2]
              /\ <<w[1], Middle(w) - 1>> \in Inclusive /\ <<Middle(w) + 1, w[2]>> \in Inclusive
  <1> DEFINE m == Middle(w)
             e == Len(entries)
             g == Lasts(last)
  <1>1. e \in Nat /\ w[1] \in 0 .. e /\ w[2] \in -1 .. e - 1 /\ w = <<w[1], w[2]>>
    BY DEF Inclusive
  <1>2. CASE w[1] > w[2]
    BY <1>1, <1>2 DEF Narrow, Lasts
  <1>3. CASE w[1] <= w[2]
    <2>1. m \in w[1] .. w[2]
      BY <1>1, <1>3 DEF Middle
    <2>2. Narrow(key, g, w) = IF entries[m + 1] > key THEN g[<<w[1], m - 1>>] ELSE g[<<m + 1, w[2]>>]
      BY <1>1, <1>3 DEF Narrow, Middle
    <2> HIDE DEF m, g
    <2>3. <<w[1], m - 1>> \in Inclusive /\ <<m + 1, w[2]>> \in Inclusive
      BY <1>1, <2>1 DEF Inclusive
    <2>4. entries[m + 1] > key <=> m > last
      <3>1. m \in 0 .. e - 1
        BY <1>1, <2>1
      <3> QED BY <3>1 DEF IsLast
    <2>5. /\ g[<<w[1], m - 1>>] = IF w[1] > m - 1 THEN m - 1 ELSE IF last < w[1] THEN w[1] - 1
                                  ELSE IF last > m - 1 THEN m - 1 ELSE last
          /\ g[<<m + 1, w[2]>>] = IF m + 1 > w[2] THEN w[2] ELSE IF last < m + 1 THEN m
                                  ELSE IF last > w[2] THEN w[2] ELSE last
          /\ g[w] = IF last < w[1] THEN w[1] - 1 ELSE IF last > w[2] THEN w[2] ELSE last
      <3>1. ASSUME NEW v \in Inclusive
            PROVE  g[v] = IF v[1] > v[2] THEN v[2]
                          ELSE IF last < v[1] THEN v[1] - 1 ELSE IF last > v[2] THEN v[2] ELSE last
        BY DEF Lasts, g
      <3>2. m \in Int /\ w[1] \in Int /\ w[2] \in Int
        BY <1>1, <2>1
      <3>3. g[<<w[1], m - 1>>] = IF w[1] > m - 1 THEN m - 1 ELSE IF last < w[1] THEN w[1] - 1
                                 ELSE IF last > m - 1 THEN m - 1 ELSE last
        BY <2>3, <3>1
      <3>4. g[<<m + 1, w[2]>>] = IF m + 1 > w[2] THEN w[2] ELSE IF last < m + 1 THEN (m + 1) - 1
                                 ELSE IF last > w[2] THEN w[2] ELSE last
        BY <2>3, <3>1
      <3>5. g[w] = IF last < w[1] THEN w[1] - 1 ELSE IF last > w[2] THEN w[2] ELSE last
        BY <1>1, <1>3, <3>1, <3>2
      <3> QED BY <3>2, <3>3, <3>4, <3>5
    <2>6. g[w] = Narrow(key, g, w)
      <3>1. last \in Int /\ m \in Int /\ w[1] \in Int /\ w[2] \in Int /\ w[1] <= m /\ m <= w[2]
        BY <1>1, <2>1 DEF IsLast
      <3>2. Narrow(key, g, w) = IF m > last THEN g[<<w[1], m - 1>>] ELSE g[<<m + 1, w[2]>>]
        BY <2>2, <2>4
      <3> QED BY <2>5, <3>1, <3>2
    <2> QED BY <1>3, <2>1, <2>3, <2>6 DEF m, g
  <1> QED BY <1>1, <1>2, <1>3

LEMMA LastEntryEnds ==
  ASSUME entries \in Seq(Nat), NEW key, NEW last, IsLast(key, last)
  PROVE  LastEntry(key) = last
  <1> DEFINE b == CHOOSE g : g = [w \in Inclusive |-> Narrow(key, g, w)]
             e == Lasts(last)
             Wrong == {w \in Inclusive : w[1] <= w[2] + 1 /\ b[w] # e[w]}
             Sizes == {w[2] + 1 - w[1] : w \in Wrong}
  <1>1. LastEntry(key) = b[<<0, Len(entries) - 1>>]
    BY Zenon DEF LastEntry, Narrow, Inclusive
  <1>2. e = [w \in Inclusive |-> Narrow(key, e, w)]
    <2>1. ASSUME NEW w \in Inclusive PROVE e[w] = Narrow(key, e, w)
      BY ZenonT(60), LastsNarrow
    <2>2. e = [w \in Inclusive |-> e[w]]
      BY DEF Lasts
    <2> HIDE DEF e
    <2> QED BY <2>1, <2>2
  <1>3. b = [w \in Inclusive |-> Narrow(key, b, w)]
    <2> HIDE DEF e
    <2> QED BY <1>2
  <1> HIDE DEF b
  <1>4. Wrong = {}
    <2> SUFFICES ASSUME Wrong # {} PROVE FALSE
      OBVIOUS
    <2>1. \A w \in Inclusive : w[1] \in Int /\ w[2] \in Int /\ w = <<w[1], w[2]>>
      BY DEF Inclusive
    <2>2. Sizes # {} /\ \A s \in Sizes : s \in Nat
      <3> HIDE DEF e
      <3> QED BY <2>1
    <2>3. PICK s \in Sizes : \A i \in Sizes : s <= i
      <3> HIDE DEF Sizes
      <3> QED BY <2>2, LeastNumber
    <2> HIDE DEF e
    <2>4. PICK w \in Wrong : s = w[2] + 1 - w[1]
      OBVIOUS
    <2>5. \A v \in Inclusive : v[1] <= v[2] + 1 /\ v[2] + 1 - v[1] < s => b[v] = e[v]
      <3> SUFFICES ASSUME NEW v \in Wrong, v[2] + 1 - v[1] < s PROVE FALSE
        OBVIOUS
      <3>1. v[2] + 1 - v[1] \in Sizes
        OBVIOUS
      <3> HIDE DEF Sizes
      <3>2. v[2] + 1 - v[1] \in Nat /\ s \in Nat
        BY <2>2, <3>1
      <3>3. s <= v[2] + 1 - v[1]
        BY <2>3, <3>1
      <3> QED BY <3>2, <3>3
    <2> DEFINE m == Middle(w)
    <2>6. b[w] = Narrow(key, b, w) /\ e[w] = Narrow(key, e, w)
      BY <1>2, <1>3
    <2>7. w[1] <= w[2]
      BY <2>1, <2>6 DEF Narrow
    <2>8. /\ m \in w[1] .. w[2]
          /\ <<w[1], m - 1>> \in Inclusive /\ <<m + 1, w[2]>> \in Inclusive
      BY <2>7, LastsNarrow
    <2>9. b[<<w[1], m - 1>>] = e[<<w[1], m - 1>>] /\ b[<<m + 1, w[2]>>] = e[<<m + 1, w[2]>>]
      <3> HIDE DEF m
      <3>1. w[1] <= m - 1 + 1 /\ m - 1 + 1 - w[1] < s
        BY SMTT(60), <2>1, <2>4, <2>8
      <3>2. m + 1 <= w[2] + 1 /\ w[2] + 1 - (m + 1) < s
        BY SMTT(60), <2>1, <2>4, <2>8
      <3> QED BY <2>5, <2>8, <3>1, <3>2
    <2> QED BY <2>6, <2>7, <2>9 DEF Narrow, Middle
  <1>5. <<0, Len(entries) - 1>> \in Inclusive /\ Len(entries) \in Nat
    BY DEF Inclusive
  <1>6. b[<<0, Len(entries) - 1>>] = e[<<0, Len(entries) - 1>>]
    <2> HIDE DEF e
    <2> QED BY <1>4, <1>5
  <1> QED BY <1>1, <1>5, <1>6 DEF Lasts, IsLast

\* What OverflowAnswered says of one slot.
Led(i) ==
  LET leads == {j \in 1 .. Len(entries) : entries[j] <= sbuffer[i]}
  IN  IF leads = {} THEN obuffer[i] = INVALID
      ELSE obuffer[i] = Max(leads) \/ (Len(entries) > S /\ obuffer[i] = INVALID)

\* The host only pushes entries that rise.
Entries == entries \in Seq(Nat) /\ Rising(entries)

\* The kernel's answer to a query is what the slot should hold.
LEMMA LeadingIs ==
  ASSUME Entries, NEW key \in Int
  PROVE  LET leads == {j \in 1 .. Len(entries) : entries[j] <= key}
         IN  IF leads = {} THEN Leading(key) = INVALID
             ELSE \/ Leading(key) = Max(leads)
                  \/ Len(entries) > S /\ Leading(key) = INVALID
  <1> DEFINE leads == {j \in 1 .. Len(entries) : entries[j] <= key}
             last == LastEntry(key)
             e == Len(entries)
  <1>1. e \in Nat /\ \A j \in 1 .. e : entries[j] \in Nat
    BY ElementOfSeq DEF Entries
  <1>2. \A i, j \in 1 .. e : i < j => entries[i] < entries[j]
    BY DEF Entries, Rising
  <1>3. S \in Nat
    BY SAssumption
  <1>4. Leading(key) = IF last < 0 \/ last > S - 1 THEN INVALID ELSE last + 1
    BY DEF Leading
  <1>5. CASE leads = {}
    <2>1. IsLast(key, -1)
      <3>1. ASSUME NEW i \in 0 .. e - 1 PROVE entries[i + 1] > key /\ i > -1
        <4>1. i + 1 \in 1 .. e /\ i \in Nat
          BY <1>1
        <4>2. entries[i + 1] \in Nat /\ ~(entries[i + 1] <= key)
          BY <1>1, <1>5, <4>1
        <4> QED BY <4>1, <4>2
      <3> QED BY <1>1, <3>1 DEF IsLast
    <2>2. last = -1
      BY <2>1, LastEntryEnds DEF Entries
    <2> HIDE DEF last
    <2> QED BY <1>4, <1>5, <2>2
  <1>6. CASE leads # {}
    <2> DEFINE m == Max(leads)
    <2>1. m \in leads /\ \A j \in leads : j <= m
      <3>1. \A j \in leads : j \in Int /\ j <= e
        BY <1>1
      <3> HIDE DEF leads
      <3> QED BY <1>1, <1>6, <3>1, Largest
    <2>2. m \in 1 .. e /\ entries[m] <= key
      BY <2>1
    <2>3. \A j \in 1 .. e : entries[j] <= key => j <= m
      BY <2>1
    <2> HIDE DEF m
    <2>4. IsLast(key, m - 1)
      <3>1. ASSUME NEW i \in 0 .. e - 1 PROVE entries[i + 1] > key <=> i > m - 1
        <4>1. i + 1 \in 1 .. e /\ i \in Nat /\ entries[i + 1] \in Nat /\ entries[m] \in Nat /\ m \in Nat
          BY <1>1, <2>2
        <4>2. entries[i + 1] <= key => i + 1 <= m
          BY <2>3, <4>1
        <4>3. i + 1 < m => entries[i + 1] < entries[m]
          BY <1>2, <2>2, <4>1
        <4>4. i + 1 = m => entries[i + 1] <= key
          BY <2>2
        <4> QED BY <2>2, <4>1, <4>2, <4>3, <4>4
      <3>2. m - 1 \in -1 .. e - 1
        BY <1>1, <2>2
      <3> QED BY <3>1, <3>2 DEF IsLast
    <2>5. last = m - 1
      BY <2>4, LastEntryEnds DEF Entries
    <2> HIDE DEF last
    <2>6. Leading(key) = m \/ (e > S /\ Leading(key) = INVALID)
      BY <1>1, <1>3, <1>4, <2>2, <2>5
    <2> QED BY <1>6, <2>6 DEF m
  <1> QED BY <1>5, <1>6

\* A tasklet that searches has answered its quota up to where it is, one that
\* is past it all of it; it does nothing if there are no entries.
Leads(t) ==
  /\ pc[t] = "overflow" =>
       /\ entries # <<>> /\ cur[t] + left[t] = QuotaEnd(t) /\ t * Quota <= cur[t]
       /\ \A i \in Slots : t * Quota <= i /\ i < cur[t] => Led(i)
  /\ pc[t] \in {"bar2", "in2", "idle"} =>
       /\ orecvN = (IF entries = <<>> THEN 0 ELSE n)
       /\ entries # <<>> => \A i \in Slots : t * Quota <= i /\ i < QuotaEnd(t) => Led(i)

OverflowPhases ==
  \/ \A t \in Tasklets : pc[t] \in {"bar1", "in1"}
  \/ \A t \in Tasklets : pc[t] \in {"op", "overflow", "bar2", "in2"}
  \/ Idle

OverflowInv ==
  /\ Entries /\ DOMAIN obuffer = Slots
  /\ op = 2 => OverflowPhases /\ \A t \in Tasklets : Leads(t)
  /\ op # 2 => \A t \in Tasklets : pc[t] # "overflow"

LEMMA EntriesInit == Init => Entries
  BY DEF Init, Entries, Rising

LEMMA OverflowInit == Init => OverflowInv
  BY EntriesInit DEF Init, OverflowInv

LEMMA OverflowLaunched ==
  ASSUME OverflowInv, LaunchSearch \/ LaunchOverflow
  PROVE  OverflowInv'
  <1>1. Entries'
    BY OverflowsAssumption DEF OverflowInv, LaunchSearch, LaunchOverflow, Entries
  <1> QED BY <1>1 DEF OverflowInv, LaunchSearch, LaunchOverflow, Launch, OverflowPhases, Leads

\* While nothing is launched the quotas are what they are, and a slot that
\* holds its answer keeps it.
LEMMA LedKeeps ==
  ASSUME UNCHANGED <<n, sbuffer, entries>>, DOMAIN obuffer = Slots,
         \A i \in Slots : UNCHANGED obuffer[i] \/ Led(i)'
  PROVE  /\ \A i \in Slots : Led(i) => Led(i)'
         /\ \A t : UNCHANGED <<t * Quota, QuotaEnd(t)>>
  BY DEF Led, Quota, QuotaEnd

LEMMA BarrierOverflow ==
  ASSUME OverflowInv, DOMAIN pc = Tasklets, NEW t \in Tasklets, Barrier(t), op = 2
  PROVE  OverflowInv'
  <1> DEFINE next == [pc EXCEPT ![t] = Waiting[@]]
  <1>1. /\ pc' = IF \A u \in Tasklets : next[u] \in DOMAIN Passing
                 THEN [u \in Tasklets |-> Passing[next[u]]] ELSE next
        /\ pc[t] \in DOMAIN Waiting
        /\ UNCHANGED <<op, n, sbuffer, entries, obuffer, orecvN, cur, left>>
    BY DEF Barrier
  <1>2. DOMAIN pc = Tasklets /\ DOMAIN obuffer = Slots
    BY DEF OverflowInv
  <1>3. OverflowPhases /\ \A u \in Tasklets : Leads(u)
    BY DEF OverflowInv
  <1>4. pc[t] \in {"bar1", "bar2"} /\ next[t] \in {"in1", "in2"}
    BY <1>1, <1>2, <1>3 DEF Waiting, OverflowPhases, Idle
  <1>5. OverflowPhases'
    <2>1. CASE \A u \in Tasklets : pc[u] \in {"bar1", "in1"}
      BY <1>1, <1>2, <1>4, <2>1 DEF OverflowPhases, Waiting, Passing
    <2>2. CASE \A u \in Tasklets : pc[u] \in {"op", "overflow", "bar2", "in2"}
      BY <1>1, <1>2, <1>4, <2>2 DEF OverflowPhases, Idle, Waiting, Passing
    <2>3. CASE Idle
      BY <1>4, <2>3 DEF Idle
    <2> QED BY <1>3, <2>1, <2>2, <2>3 DEF OverflowPhases
  <1>6. /\ \A i \in Slots : Led(i) => Led(i)'
        /\ \A u : UNCHANGED <<u * Quota, QuotaEnd(u)>>
    BY <1>1, <1>2, LedKeeps
  <1>7. ASSUME NEW u \in Tasklets PROVE Leads(u)'
    <2>1. pc'[u] = "overflow" => pc[u] = "overflow"
      BY <1>1, <1>2 DEF Waiting, Passing
    <2>2. pc'[u] \in {"bar2", "in2", "idle"} => pc[u] \in {"bar2", "in2", "idle"}
      BY <1>1, <1>2, <1>3, <1>4 DEF Waiting, Passing, OverflowPhases, Idle
    <2>3. Leads(u) /\ UNCHANGED <<u * Quota, QuotaEnd(u)>>
      BY <1>3, <1>6
    <2> QED BY <1>1, <1>6, <2>1, <2>2, <2>3 DEF Leads
  <1>8. Entries' /\ DOMAIN obuffer' = Slots
    BY <1>1 DEF OverflowInv, Entries
  <1> QED BY <1>1, <1>5, <1>7, <1>8 DEF OverflowInv

LEMMA BeginOverflowLeads ==
  ASSUME OverflowInv, AlignedInv, NEW t \in Tasklets, BeginOverflow(t)
  PROVE  OverflowInv'
  <1>1. /\ pc[t] = "op" /\ op = 2
        /\ cur' = [cur EXCEPT ![t] = t * Quota]
        /\ left' = [left EXCEPT ![t] = IF t = NT - 1 THEN n - t * Quota ELSE Quota]
        /\ IF entries = <<>> THEN orecvN' = 0 /\ pc' = [pc EXCEPT ![t] = "bar2"]
                             ELSE UNCHANGED orecvN /\ pc' = [pc EXCEPT ![t] = "overflow"]
        /\ UNCHANGED <<op, n, sbuffer, entries, obuffer>>
    BY DEF BeginOverflow
  <1>2. /\ DOMAIN pc = Tasklets /\ cur \in [Tasklets -> Nat] /\ left \in [Tasklets -> Nat]
        /\ n \in 0 .. Cap /\ n \in Nat /\ DOMAIN obuffer = Slots
    BY CapAssumption DEF AlignedInv, Shapes, OverflowInv
  <1>3. OverflowPhases /\ \A u \in Tasklets : Leads(u)
    BY <1>1 DEF OverflowInv
  <1>4. OverflowPhases'
    BY <1>1, <1>2, <1>3 DEF OverflowPhases, Idle
  <1>5. /\ \A i \in Slots : Led(i) => Led(i)'
        /\ \A u : UNCHANGED <<u * Quota, QuotaEnd(u)>>
    BY <1>1, <1>2, LedKeeps
  <1>6. t * Quota \in Nat /\ cur'[t] = t * Quota /\ cur'[t] + left'[t] = QuotaEnd(t)
    <2>1. t * Quota \in Nat /\ Quota \in Nat /\ t \in Nat
      BY <1>2, Quotients, Quotas DEF Tasklets
    <2>2. (t + 1) * Quota = t * Quota + Quota
      BY <2>1
    <2> QED BY <1>1, <1>2, <2>1, <2>2 DEF QuotaEnd
  <1>7. Leads(t)'
    <2>1. CASE entries = <<>>
      BY <1>1, <1>2, <2>1 DEF Leads
    <2>2. CASE entries # <<>>
      <3>1. pc'[t] = "overflow" /\ entries' # <<>>
        BY <1>1, <1>2, <2>2
      <3>2. \A i \in Slots : i \in Int /\ ~(t * Quota <= i /\ i < cur'[t])
        BY <1>6, CapAssumption DEF Slots
      <3>3. (t * Quota)' = t * Quota /\ QuotaEnd(t)' = QuotaEnd(t)
        BY <1>5
      <3> QED BY <1>6, <3>1, <3>2, <3>3 DEF Leads
    <2> QED BY <2>1, <2>2
  <1>8. ASSUME NEW u \in Tasklets \ {t} PROVE Leads(u)'
    <2>1. Leads(u) /\ UNCHANGED <<u * Quota, QuotaEnd(u)>>
      BY <1>3, <1>5
    <2>2. pc'[u] = pc[u] /\ cur'[u] = cur[u] /\ left'[u] = left[u]
      BY <1>1, <1>2
    <2>3. pc[u] \in {"bar2", "in2", "idle"} => orecvN' = orecvN
      <3>1. CASE entries = <<>>
        BY <1>1, <2>1, <3>1 DEF Leads
      <3> QED BY <1>1, <3>1
    <2> QED BY <1>1, <1>5, <2>1, <2>2, <2>3 DEF Leads
  <1>9. Entries' /\ DOMAIN obuffer' = Slots
    BY <1>1 DEF OverflowInv, Entries
  <1> QED BY <1>1, <1>4, <1>7, <1>8, <1>9 DEF OverflowInv

LEMMA SearchOverflowLeads ==
  ASSUME OverflowInv, AlignedInv, op = 2, NEW t \in Tasklets, SearchOverflow(t)
  PROVE  OverflowInv'
  <1>0. PICK c : c = cur[t]
    OBVIOUS
  <1>1. /\ pc[t] = "overflow" /\ left[t] > 0
        /\ obuffer' = [obuffer EXCEPT ![c] = Leading(sbuffer[c])]
        /\ cur' = [cur EXCEPT ![t] = @ + 1] /\ left' = [left EXCEPT ![t] = @ - 1]
        /\ UNCHANGED <<op, n, sbuffer, entries, orecvN, pc>>
    BY <1>0 DEF SearchOverflow
  <1>2. /\ DOMAIN pc = Tasklets /\ cur \in [Tasklets -> Nat] /\ left \in [Tasklets -> Nat]
        /\ n \in 0 .. Cap /\ n \in Nat /\ n <= Cap /\ DOMAIN obuffer = Slots
        /\ sbuffer \in [Slots -> Queries]
    BY CapAssumption DEF AlignedInv, Shapes, OverflowInv
  <1>3. Entries /\ OverflowPhases /\ \A u \in Tasklets : Leads(u)
    BY DEF OverflowInv
  <1>4. c \in Nat /\ cur'[t] = c + 1 /\ left'[t] = left[t] - 1 /\ left[t] \in Nat
    BY <1>0, <1>1, <1>2
  <1>5. /\ entries # <<>> /\ c + left[t] = QuotaEnd(t) /\ t * Quota <= c
        /\ \A i \in Slots : t * Quota <= i /\ i < c => Led(i)
    BY <1>0, <1>1, <1>3 DEF Leads
  <1>6. t * Quota \in Nat /\ QuotaEnd(t) \in Nat /\ QuotaEnd(t) <= n
    BY <1>2, Quotients
  <1>7. c \in Slots /\ sbuffer[c] \in Int
    BY <1>1, <1>2, <1>4, <1>5, <1>6, CapAssumption DEF Slots, Queries
  <1>8. Led(c)'
    <2>1. obuffer'[c] = Leading(sbuffer[c])
      BY <1>1, <1>2, <1>7
    <2> QED BY <1>1, <1>3, <1>7, <2>1, LeadingIs DEF Led
  <1>9. /\ \A i \in Slots : Led(i) => Led(i)'
        /\ \A u : UNCHANGED <<u * Quota, QuotaEnd(u)>>
    BY <1>1, <1>2, <1>8, LedKeeps
  <1>10. OverflowPhases'
    BY <1>1, <1>3 DEF OverflowPhases, Idle
  <1>11. Leads(t)'
    <2>1. pc'[t] = "overflow" /\ entries' # <<>>
      BY <1>1, <1>5
    <2>2. cur'[t] + left'[t] = QuotaEnd(t)' /\ (t * Quota)' = t * Quota /\ t * Quota <= cur'[t]
      BY <1>4, <1>5, <1>6, <1>9
    <2>3. \A i \in Slots : i \in Int /\ (t * Quota <= i /\ i < cur'[t] => Led(i)')
      BY <1>4, <1>5, <1>8, <1>9, CapAssumption DEF Slots
    <2> QED BY <2>1, <2>2, <2>3 DEF Leads
  <1>12. ASSUME NEW u \in Tasklets \ {t} PROVE Leads(u)'
    <2>1. Leads(u) /\ UNCHANGED <<u * Quota, QuotaEnd(u)>>
      BY <1>3, <1>9
    <2>2. cur'[u] = cur[u] /\ left'[u] = left[u]
      BY <1>1, <1>2
    <2> QED BY <1>1, <1>9, <2>1, <2>2 DEF Leads
  <1>13. Entries' /\ DOMAIN obuffer' = Slots
    BY <1>1, <1>2, <1>3 DEF Entries
  <1> QED BY <1>1, <1>10, <1>11, <1>12, <1>13 DEF OverflowInv

LEMMA DoneLeads ==
  ASSUME OverflowInv, AlignedInv, op = 2, NEW t \in Tasklets, Done(t)
  PROVE  OverflowInv'
  <1>1. /\ pc[t] \in {"search", "overflow"} /\ left[t] = 0 /\ orecvN' = n
        /\ pc' = [pc EXCEPT ![t] = "bar2"]
        /\ UNCHANGED <<op, n, sbuffer, entries, obuffer, cur, left>>
    BY DEF Done
  <1>2. DOMAIN pc = Tasklets /\ cur \in [Tasklets -> Nat] /\ DOMAIN obuffer = Slots
    BY DEF AlignedInv, Shapes, OverflowInv
  <1>3. Entries /\ OverflowPhases /\ \A u \in Tasklets : Leads(u)
    BY DEF OverflowInv
  <1>4. pc[t] = "overflow"
    BY <1>1, <1>3 DEF OverflowPhases, Idle
  <1>5. /\ entries # <<>> /\ cur[t] = QuotaEnd(t)
        /\ \A i \in Slots : t * Quota <= i /\ i < cur[t] => Led(i)
    BY <1>1, <1>2, <1>3, <1>4 DEF Leads
  <1>6. /\ \A i \in Slots : Led(i) => Led(i)'
        /\ \A u : UNCHANGED <<u * Quota, QuotaEnd(u)>>
    BY <1>1, <1>2, LedKeeps
  <1>7. OverflowPhases'
    BY <1>1, <1>2, <1>3, <1>4 DEF OverflowPhases, Idle
  <1>8. Leads(t)'
    <2>1. pc'[t] = "bar2" /\ (t * Quota)' = t * Quota /\ QuotaEnd(t)' = cur[t]
      BY <1>1, <1>2, <1>5, <1>6
    <2> QED BY <1>1, <1>5, <1>6, <2>1 DEF Leads
  <1>9. ASSUME NEW u \in Tasklets \ {t} PROVE Leads(u)'
    <2>1. Leads(u) /\ UNCHANGED <<u * Quota, QuotaEnd(u)>>
      BY <1>3, <1>6
    <2>2. pc'[u] = pc[u]
      BY <1>1, <1>2
    <2> QED BY <1>1, <1>5, <1>6, <2>1, <2>2 DEF Leads
  <1>10. Entries' /\ DOMAIN obuffer' = Slots
    BY <1>1, <1>2, <1>3 DEF Entries
  <1> QED BY <1>1, <1>7, <1>8, <1>9, <1>10 DEF OverflowInv

LEMMA OverflowStep == AlignedInv /\ OverflowInv /\ [Next]_vars => OverflowInv'
  <1> SUFFICES ASSUME AlignedInv, OverflowInv, [Next]_vars PROVE OverflowInv'
    OBVIOUS
  <1>1. CASE LaunchSearch \/ LaunchOverflow
    BY <1>1, OverflowLaunched
  <1>2. ASSUME op # 2, NEW t \in Tasklets, Step(t) PROVE OverflowInv'
    <2>1. op' = op /\ entries' \in {entries, <<>>} /\ obuffer' = obuffer
      BY <1>2 DEF Step, Barrier, InitIndex, BeginSearch, Search, BeginOverflow,
                  SearchOverflow, Done, OverflowInv
    <2>2. Entries'
      <3>1. <<>> \in Seq(Nat) /\ Rising(<<>>)
        BY DEF Rising
      <3> QED BY <2>1, <3>1 DEF OverflowInv, Entries
    <2>3. \A u \in Tasklets : pc'[u] # "overflow"
      <3>1. DOMAIN pc = Tasklets /\ \A u \in Tasklets : pc[u] # "overflow"
        BY <1>2 DEF AlignedInv, Shapes, OverflowInv
      <3>2. CASE Barrier(t)
        BY <3>1, <3>2 DEF Barrier, Waiting, Passing
      <3>3. CASE InitIndex(t) \/ BeginSearch(t) \/ Search(t) \/ Done(t)
        BY <3>1, <3>3 DEF InitIndex, BeginSearch, Search, Done
      <3> QED BY <1>2, <3>1, <3>2, <3>3 DEF Step, BeginOverflow, SearchOverflow
    <2> QED BY <1>2, <2>1, <2>2, <2>3 DEF OverflowInv
  <1>3. ASSUME op = 2, NEW t \in Tasklets, Step(t) PROVE OverflowInv'
    <2>1. Barrier(t) \/ BeginOverflow(t) \/ SearchOverflow(t) \/ Done(t)
      BY <1>3 DEF Step, InitIndex, BeginSearch, Search, OverflowInv, OverflowPhases, Idle
    <2>2. DOMAIN pc = Tasklets
      BY DEF AlignedInv, Shapes
    <2> QED
      BY <1>3, <2>1, <2>2, BarrierOverflow, BeginOverflowLeads, SearchOverflowLeads, DoneLeads
  <1>4. CASE UNCHANGED vars
    <2>1. DOMAIN obuffer = Slots
      BY DEF OverflowInv
    <2>2. /\ \A i \in Slots : Led(i) => Led(i)'
          /\ \A t : UNCHANGED <<t * Quota, QuotaEnd(t)>>
      BY <1>4, <2>1, LedKeeps DEF vars
    <2> QED BY <1>4, <2>2 DEF vars, OverflowInv, Entries, OverflowPhases, Idle, Leads
  <1> QED BY <1>1, <1>2, <1>3, <1>4 DEF Next

\* When a search of the overflow entries has ended every query of the batch has
\* the number of the entry that leads it, or none, for any entries that rise.
THEOREM OverflowBatchAnswered == Spec => []OverflowAnswered
  <1>1. ASSUME AlignedInv, OverflowInv, Idle, op = 2 PROVE OverflowAnswered
    <2>1. 0 \in Tasklets /\ n \in 0 .. Cap
      BY <1>1, NTAssumption DEF Tasklets, AlignedInv, Shapes
    <2>2. /\ orecvN = (IF entries = <<>> THEN 0 ELSE n)
          /\ \A t \in Tasklets :
               entries # <<>> => \A i \in Slots : t * Quota <= i /\ i < QuotaEnd(t) => Led(i)
      BY <1>1, <2>1 DEF OverflowInv, Leads, Idle
    <2>3. ASSUME NEW i \in 0 .. orecvN - 1 PROVE Led(i)
      <3>1. entries # <<>> /\ i \in 0 .. n - 1 /\ i \in Slots
        BY <2>1, <2>2, CapAssumption DEF Slots
      <3>2. PICK t \in Tasklets : t * Quota <= i /\ i < QuotaEnd(t)
        BY <2>1, <3>1, QuotaCover
      <3> QED BY <2>2, <3>1, <3>2
    <2> QED BY <2>2, <2>3 DEF OverflowAnswered, Led
  <1>2. AlignedInv /\ OverflowInv => OverflowAnswered
    BY <1>1 DEF OverflowAnswered
  <1> QED BY AlignedInit, AlignedStep, OverflowInit, OverflowStep, <1>2, PTL DEF Spec
====
