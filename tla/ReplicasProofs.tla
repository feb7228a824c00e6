--------------------------- MODULE ReplicasProofs ---------------------------
(***************************************************************************)
(* For any number of partitions, of DPUs in a multiple of it, and of       *)
(* warm-up queries: the shares always add up to the DPUs, a query always   *)
(* reaches a DPU of its partition, and the moves of DPUs between the       *)
(* partitions do what they are for.                                        *)
(*                                                                         *)
(* Sums are folds over finite sets.  What they yield is shown by taking a  *)
(* smallest set on which the claim fails; the bisection of the low bounds  *)
(* by taking the shortest window it gets wrong.                            *)
(***************************************************************************)
EXTENDS Replicas, FiniteSetTheorems, WellFoundedInduction, TLAPS

-----------------------------------------------------------------------------
(* Numbers and finite sets.                                                *)

LEMMA LeastNumber ==
  ASSUME NEW T, T # {}, \A x \in T : x \in Nat
  PROVE  \E m \in T : \A i \in T : m <= i
  <1> DEFINE R == OpToRel(<, Nat)
  <1>1. IsWellFoundedOn(R, Nat)
    BY NatLessThanWellFounded
  <1>2. \A x, y \in Nat : <<x, y>> \in R <=> x < y
    BY DEF R, OpToRel
  <1> HIDE DEF R
  <1>3. PICK x \in T : \A y \in T : ~(<<y, x>> \in R)
    BY <1>1, WFMin
  <1>4. \A y \in T : ~(y < x)
    BY <1>2, <1>3
  <1> QED BY <1>4

LEMMA Largest ==
  ASSUME NEW T, T # {}, NEW b \in Int, \A x \in T : x \in Int /\ x <= b
  PROVE  Max(T) \in T /\ \A x \in T : x <= Max(T)
  <1> DEFINE Gaps == {b - x : x \in T}
  <1>1. Gaps # {} /\ \A g \in Gaps : g \in Nat
    OBVIOUS
  <1>2. PICK g \in Gaps : \A i \in Gaps : g <= i
    BY <1>1, LeastNumber
  <1>3. PICK m \in T : g = b - m
    OBVIOUS
  <1>4. \A x \in T : m >= x
    BY <1>2, <1>3
  <1> QED BY <1>3, <1>4 DEF Max

LEMMA Smallest ==
  ASSUME NEW T, T # {}, \A x \in T : x \in Nat
  PROVE  Min(T) \in T /\ \A x \in T : Min(T) <= x
  BY LeastNumber DEF Min

LEMMA SmallestSet ==
  ASSUME NEW S, IsFiniteSet(S), NEW B, B \subseteq SUBSET S, B # {}
  PROVE  \E T \in B : \A U \in B : U \subseteq T => U = T
  <1>1. IsWellFoundedOn(StrictSubsetOrdering(S), SUBSET S)
    BY FS_StrictSubsetOrderingWellFounded, FS_FiniteSubsetsOfFinite
  <1>2. PICK T \in B : \A U \in B : ~(<<U, T>> \in StrictSubsetOrdering(S))
    <2> HIDE DEF StrictSubsetOrdering
    <2> QED BY <1>1, WFMin
  <1> QED BY <1>2 DEF StrictSubsetOrdering

-----------------------------------------------------------------------------
(* Sums over finite sets.                                                  *)

SumOn(f, T) == FoldFunctionOnSet(+, 0, f, T)

Chosen(s) == CHOOSE x \in s : TRUE

Adds(g, f, s) == IF s = {} THEN 0 ELSE f[Chosen(s)] + g[s \ {Chosen(s)}]

LEMMA ChosenIn == \A s : s # {} => Chosen(s) \in s
  BY DEF Chosen

LEMMA SumRecursion ==
  ASSUME NEW f, NEW S, IsFiniteSet(S)
  PROVE  \E g : g = [s \in SUBSET S |-> Adds(g, f, s)] /\ SumOn(f, S) = g[S]
  <1> DEFINE size == Cardinality(S)
             Small(m) == {s \in SUBSET S : Cardinality(s) <= m}
             Stops == {m \in 0 .. size : ~\E g : g = [s \in Small(m) |-> Adds(g, f, s)]}
  <1>1. size \in Nat /\ \A s \in SUBSET S : IsFiniteSet(s) /\ Cardinality(s) \in Nat /\ Cardinality(s) <= size
    BY FS_CardinalityType, FS_Subset
  <1>2. \A s \in SUBSET S : s # {} => /\ s \ {Chosen(s)} \in SUBSET S
                                      /\ Cardinality(s \ {Chosen(s)}) = Cardinality(s) - 1
    BY <1>1, ChosenIn, FS_RemoveElement
  <1> HIDE DEF size
  <1>3. Stops = {}
    <2> SUFFICES ASSUME Stops # {} PROVE FALSE
      OBVIOUS
    <2>1. PICK m \in Stops : \A i \in Stops : m <= i
      <3>1. \A i \in Stops : i \in Nat
        <4>1. Stops \subseteq 0 .. size
          OBVIOUS
        <4> HIDE DEF Stops
        <4> QED BY <1>1, <4>1
      <3> HIDE DEF Stops
      <3> QED BY <3>1, LeastNumber
    <2>2. m \in 0 .. size /\ m \in Nat /\ ~\E g : g = [s \in Small(m) |-> Adds(g, f, s)]
      <3>1. m \in 0 .. size /\ ~\E g : g = [s \in Small(m) |-> Adds(g, f, s)]
        <4> HIDE DEF Small
        <4> QED OBVIOUS
      <3>2. m \in Nat
        BY <1>1, <3>1
      <3> HIDE DEF Small
      <3> QED BY <3>1, <3>2
    <2>3. m # 0
      <3> SUFFICES ASSUME m = 0 PROVE FALSE
        OBVIOUS
      <3> DEFINE g == [s \in Small(0) |-> 0]
      <3>1. \A s \in Small(0) : s = {}
        BY <1>1, FS_EmptySet
      <3>2. \A s \in Small(0) : g[s] = Adds(g, f, s)
        BY <3>1 DEF Adds
      <3>3. g = [s \in Small(0) |-> Adds(g, f, s)]
        BY <3>2
      <3> HIDE DEF g, Small
      <3> QED BY <2>2, <3>3
    <2>4. PICK g : g = [s \in Small(m - 1) |-> Adds(g, f, s)]
      <3>1. m - 1 \in 0 .. size /\ ~(m <= m - 1)
        BY <1>1, <2>2, <2>3
      <3> HIDE DEF Small
      <3> QED BY <2>1, <3>1
    <2> DEFINE h == [s \in Small(m) |-> IF s \in Small(m - 1) THEN g[s] ELSE Adds(g, f, s)]
    <2>5. ASSUME NEW s \in Small(m) PROVE h[s] = Adds(h, f, s)
      <3>1. h[s] = Adds(g, f, s)
        <4>1. s \in Small(m - 1) => g[s] = Adds(g, f, s)
          <5> HIDE DEF Small
          <5> QED BY <2>4
        <4> HIDE DEF Small
        <4> QED BY <4>1
      <3>2. s # {} => /\ s \ {Chosen(s)} \in Small(m - 1) /\ s \ {Chosen(s)} \in Small(m)
        BY <1>1, <1>2, <2>2
      <3>3. s # {} => h[s \ {Chosen(s)}] = g[s \ {Chosen(s)}]
        <4> HIDE DEF Small
        <4> QED BY <3>2
      <3> HIDE DEF h, Small
      <3> QED BY <3>1, <3>3 DEF Adds
    <2>6. h = [s \in Small(m) |-> Adds(h, f, s)]
      <3> HIDE DEF Small
      <3> QED BY <2>5
    <2> HIDE DEF h, Small
    <2> QED BY <2>2, <2>6
  <1>4. Small(size) = SUBSET S
    BY <1>1
  <1>5. PICK g : g = [s \in SUBSET S |-> Adds(g, f, s)]
    <2>1. size \in 0 .. size
      BY <1>1
    <2>2. ~(size \in Stops)
      <3> HIDE DEF Stops
      <3> QED BY <1>3
    <2>3. \E g : g = [s \in Small(size) |-> Adds(g, f, s)]
      <3> HIDE DEF Small
      <3> QED BY <2>1, <2>2
    <2> HIDE DEF Small
    <2> QED BY <1>4, <2>3
  <1> DEFINE sum == CHOOSE h : h = [s \in SUBSET S |-> Adds(h, f, s)]
  <1>6. sum = [s \in SUBSET S |-> Adds(sum, f, s)]
    BY <1>5
  <1>7. SumOn(f, S) = sum[S]
    BY Zenon DEF SumOn, FoldFunctionOnSet, MapThenFoldSet, Adds, Chosen
  <1> HIDE DEF sum
  <1> QED BY <1>6, <1>7

LEMMA SumUnfolds ==
  ASSUME NEW f, NEW S, IsFiniteSet(S)
  PROVE  SumOn(f, S) = IF S = {} THEN 0 ELSE f[Chosen(S)] + SumOn(f, S \ {Chosen(S)})
  <1>1. PICK g : g = [s \in SUBSET S |-> Adds(g, f, s)] /\ SumOn(f, S) = g[S]
    BY SumRecursion
  <1>2. \A s \in SUBSET S : g[s] = Adds(g, f, s)
    BY <1>1
  <1>3. \A s \in SUBSET S : IsFiniteSet(s)
    BY FS_Subset
  <1>4. ASSUME NEW T \in SUBSET S PROVE SumOn(f, T) = g[T]
    <2>1. PICK h : h = [s \in SUBSET T |-> Adds(h, f, s)] /\ SumOn(f, T) = h[T]
      BY <1>3, SumRecursion
    <2>2. \A s \in SUBSET T : h[s] = Adds(h, f, s)
      BY <2>1
    <2> DEFINE Odd == {s \in SUBSET T : h[s] # g[s]}
    <2>3. Odd = {}
      <3> SUFFICES ASSUME Odd # {} PROVE FALSE
        OBVIOUS
      <3>1. PICK s \in Odd : \A u \in Odd : u \subseteq s => u = s
        <4>1. Odd \subseteq SUBSET T /\ IsFiniteSet(T)
          BY <1>3
        <4> HIDE DEF Odd
        <4> QED BY <4>1, SmallestSet
      <3>2. s \in SUBSET T /\ s \in SUBSET S /\ h[s] # g[s]
        OBVIOUS
      <3>3. s # {}
        BY <1>2, <2>2, <3>2 DEF Adds
      <3>4. s \ {Chosen(s)} \in SUBSET T /\ s \ {Chosen(s)} \subseteq s /\ s \ {Chosen(s)} # s
        BY <3>2, <3>3, ChosenIn
      <3>5. h[s \ {Chosen(s)}] = g[s \ {Chosen(s)}]
        BY <3>1, <3>4
      <3> QED BY <1>2, <2>2, <3>2, <3>3, <3>5 DEF Adds
    <2> QED BY <2>1, <2>3
  <1>5. S # {} => S \ {Chosen(S)} \in SUBSET S
    OBVIOUS
  <1> QED BY <1>1, <1>2, <1>4, <1>5 DEF Adds

LEMMA SumEmpty == \A f : SumOn(f, {}) = 0
  BY SumUnfolds, FS_EmptySet

LEMMA SumIsInt ==
  ASSUME NEW f, NEW S, IsFiniteSet(S), \A x \in S : f[x] \in Int
  PROVE  SumOn(f, S) \in Int
  <1> DEFINE Odd == {s \in SUBSET S : ~(SumOn(f, s) \in Int)}
  <1>1. Odd = {}
    <2> SUFFICES ASSUME Odd # {} PROVE FALSE
      OBVIOUS
    <2>1. PICK s \in Odd : \A u \in Odd : u \subseteq s => u = s
      <3>1. Odd \subseteq SUBSET S
        OBVIOUS
      <3> HIDE DEF Odd
      <3> QED BY <3>1, SmallestSet
    <2>2. s \in SUBSET S /\ ~(SumOn(f, s) \in Int) /\ IsFiniteSet(s)
      BY FS_Subset
    <2>3. s # {}
      BY <2>2, SumEmpty
    <2>4. SumOn(f, s \ {Chosen(s)}) \in Int /\ f[Chosen(s)] \in Int
      BY <2>1, <2>2, <2>3, ChosenIn
    <2> QED BY <2>2, <2>3, <2>4, SumUnfolds
  <1> QED BY <1>1

\* The order does not matter.
LEMMA SumRemoves ==
  ASSUME NEW f, NEW S, IsFiniteSet(S), \A x \in S : f[x] \in Int, NEW x \in S
  PROVE  SumOn(f, S) = f[x] + SumOn(f, S \ {x})
  <1> DEFINE Odd == {s \in SUBSET S : \E y \in s : SumOn(f, s) # f[y] + SumOn(f, s \ {y})}
  <1>1. \A s \in SUBSET S : IsFiniteSet(s) /\ SumOn(f, s) \in Int
    BY FS_Subset, SumIsInt
  <1>2. Odd = {}
    <2> SUFFICES ASSUME Odd # {} PROVE FALSE
      OBVIOUS
    <2>1. PICK s \in Odd : \A u \in Odd : u \subseteq s => u = s
      <3>1. Odd \subseteq SUBSET S
        OBVIOUS
      <3> HIDE DEF Odd
      <3> QED BY <3>1, SmallestSet
    <2>2. PICK y \in s : SumOn(f, s) # f[y] + SumOn(f, s \ {y})
      OBVIOUS
    <2>3. PICK c \in s : c = Chosen(s)
      BY <2>2, ChosenIn
    <2>4. s \in SUBSET S /\ SumOn(f, s) = f[c] + SumOn(f, s \ {c})
      BY <1>1, <2>3, SumUnfolds
    <2>5. c # y
      BY <2>2, <2>4
    <2>6. \A u \in SUBSET S : u \subseteq s /\ u # s =>
             \A z \in u : SumOn(f, u) = f[z] + SumOn(f, u \ {z})
      BY <2>1
    <2> HIDE DEF Odd
    <2>7. SumOn(f, s \ {c}) = f[y] + SumOn(f, (s \ {c}) \ {y})
      <3>1. s \ {c} \in SUBSET S /\ s \ {c} # s /\ y \in s \ {c}
        BY <2>2, <2>3, <2>4, <2>5
      <3> QED BY <2>6, <3>1
    <2>8. SumOn(f, s \ {y}) = f[c] + SumOn(f, (s \ {y}) \ {c})
      <3>1. s \ {y} \in SUBSET S /\ s \ {y} # s /\ c \in s \ {y}
        BY <2>2, <2>3, <2>4, <2>5
      <3> QED BY <2>6, <3>1
    <2>9. PICK r \in Int : r = SumOn(f, (s \ {y}) \ {c}) /\ r = SumOn(f, (s \ {c}) \ {y})
      <3>1. (s \ {c}) \ {y} = (s \ {y}) \ {c} /\ (s \ {y}) \ {c} \in SUBSET S
        BY <2>4
      <3> QED BY <1>1, <3>1
    <2>10. f[c] \in Int /\ f[y] \in Int
      BY <2>2, <2>3, <2>4
    <2> QED BY <2>2, <2>4, <2>7, <2>8, <2>9, <2>10
  <1> QED BY <1>2

LEMMA SumGrows ==
  ASSUME NEW f, NEW h, NEW S, IsFiniteSet(S),
         \A x \in S : f[x] \in Int /\ h[x] \in Int /\ f[x] <= h[x]
  PROVE  SumOn(f, S) <= SumOn(h, S)
  <1> DEFINE Odd == {s \in SUBSET S : ~(SumOn(f, s) <= SumOn(h, s))}
  <1>1. \A s \in SUBSET S : IsFiniteSet(s) /\ SumOn(f, s) \in Int /\ SumOn(h, s) \in Int
    BY FS_Subset, SumIsInt
  <1>2. Odd = {}
    <2> SUFFICES ASSUME Odd # {} PROVE FALSE
      OBVIOUS
    <2>1. PICK s \in Odd : \A u \in Odd : u \subseteq s => u = s
      <3>1. Odd \subseteq SUBSET S
        OBVIOUS
      <3> HIDE DEF Odd
      <3> QED BY <3>1, SmallestSet
    <2>2. s \in SUBSET S /\ ~(SumOn(f, s) <= SumOn(h, s))
      OBVIOUS
    <2>3. s # {}
      BY <2>2, SumEmpty
    <2>4. PICK c \in s : c \in S
      BY <2>2, <2>3
    <2>5. s \ {c} \in SUBSET S /\ SumOn(f, s \ {c}) <= SumOn(h, s \ {c})
      BY <2>1, <2>2, <2>4
    <2>6. SumOn(f, s) = f[c] + SumOn(f, s \ {c}) /\ SumOn(h, s) = h[c] + SumOn(h, s \ {c})
      BY <1>1, <2>2, <2>4, SumRemoves
    <2>7. /\ SumOn(f, s \ {c}) \in Int /\ SumOn(h, s \ {c}) \in Int
          /\ f[c] \in Int /\ h[c] \in Int /\ f[c] <= h[c]
      BY <1>1, <2>4, <2>5
    <2> QED BY <2>2, <2>5, <2>6, <2>7
  <1> QED BY <1>2

LEMMA SumNotNegative ==
  ASSUME NEW f, NEW S, IsFiniteSet(S), \A x \in S : f[x] \in Int /\ f[x] >= 0
  PROVE  0 <= SumOn(f, S)
  <1> DEFINE Odd == {s \in SUBSET S : ~(0 <= SumOn(f, s))}
  <1>1. \A s \in SUBSET S : IsFiniteSet(s) /\ SumOn(f, s) \in Int
    BY FS_Subset, SumIsInt
  <1>2. Odd = {}
    <2> SUFFICES ASSUME Odd # {} PROVE FALSE
      OBVIOUS
    <2>1. PICK s \in Odd : \A u \in Odd : u \subseteq s => u = s
      <3>1. Odd \subseteq SUBSET S
        OBVIOUS
      <3> HIDE DEF Odd
      <3> QED BY <3>1, SmallestSet
    <2>2. s \in SUBSET S /\ ~(0 <= SumOn(f, s)) /\ s # {}
      BY SumEmpty
    <2>3. PICK c \in s : c \in S
      BY <2>2
    <2>4. s \ {c} \in SUBSET S /\ 0 <= SumOn(f, s \ {c})
      BY <2>1, <2>2, <2>3
    <2>5. SumOn(f, s) = f[c] + SumOn(f, s \ {c})
      BY <1>1, <2>2, <2>3, SumRemoves
    <2>6. SumOn(f, s \ {c}) \in Int /\ f[c] \in Int /\ f[c] >= 0
      BY <1>1, <2>3, <2>4
    <2> QED BY <2>2, <2>4, <2>5, <2>6
  <1> QED BY <1>2

LEMMA SumSame ==
  ASSUME NEW f, NEW h, NEW S, IsFiniteSet(S), \A x \in S : f[x] \in Int /\ h[x] = f[x]
  PROVE  SumOn(f, S) = SumOn(h, S)
  <1>1. SumOn(f, S) <= SumOn(h, S) /\ SumOn(h, S) <= SumOn(f, S)
    BY SumGrows
  <1>2. SumOn(f, S) \in Int /\ SumOn(h, S) \in Int
    BY SumIsInt
  <1> QED BY <1>1, <1>2

LEMMA SumChanges ==
  ASSUME NEW f, NEW h, NEW S, IsFiniteSet(S), NEW i \in S,
         \A x \in S : f[x] \in Int /\ h[x] \in Int /\ (x # i => h[x] = f[x])
  PROVE  SumOn(h, S) = SumOn(f, S) + h[i] - f[i]
  <1>1. IsFiniteSet(S \ {i})
    BY FS_RemoveElement
  <1>2. SumOn(f, S \ {i}) = SumOn(h, S \ {i}) /\ SumOn(f, S \ {i}) \in Int
    BY <1>1, SumSame, SumIsInt
  <1>3. SumOn(f, S) = f[i] + SumOn(f, S \ {i}) /\ SumOn(h, S) = h[i] + SumOn(h, S \ {i})
    BY SumRemoves
  <1> QED BY <1>2, <1>3

\* Summing in another order.
LEMMA SumReorders ==
  ASSUME NEW f, NEW h, NEW q, NEW S, IsFiniteSet(S),
         \A x \in S : h[x] \in Int /\ h[x] = f[q[x]],
         \A x, y \in S : q[x] = q[y] => x = y
  PROVE  SumOn(h, S) = SumOn(f, {q[x] : x \in S})
  <1> DEFINE To(s) == {q[x] : x \in s}
             Odd == {s \in SUBSET S : ~(SumOn(h, s) = SumOn(f, To(s)))}
  <1>1. \A s \in SUBSET S : IsFiniteSet(s) /\ IsFiniteSet(To(s))
    <2>1. \A s \in SUBSET S : IsFiniteSet(s)
      BY FS_Subset
    <2>2. ASSUME NEW s \in SUBSET S PROVE IsFiniteSet(To(s))
      <3>1. [x \in s |-> q[x]] \in Surjection(s, To(s))
        BY DEF Surjection
      <3> HIDE DEF To
      <3> QED BY <2>1, <3>1, FS_Surjection
    <2> QED BY <2>1, <2>2
  <1>2. Odd = {}
    <2> SUFFICES ASSUME Odd # {} PROVE FALSE
      OBVIOUS
    <2>1. PICK s \in Odd : \A u \in Odd : u \subseteq s => u = s
      <3>1. Odd \subseteq SUBSET S
        OBVIOUS
      <3> HIDE DEF Odd
      <3> QED BY <3>1, SmallestSet
    <2>2. s \in SUBSET S /\ ~(SumOn(h, s) = SumOn(f, To(s)))
      OBVIOUS
    <2>3. s # {}
      <3>1. To({}) = {}
        OBVIOUS
      <3> QED BY <2>2, <3>1, SumEmpty
    <2>4. PICK c \in s : c \in S
      BY <2>2, <2>3
    <2>5. s \ {c} \in SUBSET S /\ SumOn(h, s \ {c}) = SumOn(f, To(s \ {c}))
      BY <2>1, <2>2, <2>4
    <2>6. SumOn(h, s) = h[c] + SumOn(h, s \ {c})
      BY <1>1, <2>2, <2>4, SumRemoves
    <2>7. To(s \ {c}) = To(s) \ {q[c]} /\ q[c] \in To(s)
      BY <2>2, <2>4
    <2>8. \A z \in To(s) : f[z] \in Int
      BY <2>2
    <2>9. SumOn(f, To(s)) = f[q[c]] + SumOn(f, To(s) \ {q[c]})
      <3>1. IsFiniteSet(To(s))
        BY <1>1, <2>2
      <3> HIDE DEF To
      <3> QED BY <2>7, <2>8, <3>1, SumRemoves
    <2>10. h[c] = f[q[c]]
      BY <2>4
    <2> HIDE DEF To
    <2> QED BY <2>2, <2>5, <2>6, <2>7, <2>9, <2>10
  <1>3. S \in SUBSET S
    OBVIOUS
  <1> QED BY <1>2, <1>3

\* Summing from left to right.
LEMMA SumSteps ==
  ASSUME NEW f, NEW m \in Nat, \A x \in 0 .. m : f[x] \in Int
  PROVE  /\ SumOn(f, 0 .. m - 1) \in Int
         /\ SumOn(f, 0 .. m) = SumOn(f, 0 .. m - 1) + f[m]
  <1>1. IsFiniteSet(0 .. m) /\ IsFiniteSet(0 .. m - 1)
    BY FS_Interval
  <1>2. (0 .. m) \ {m} = 0 .. m - 1 /\ m \in 0 .. m
    OBVIOUS
  <1>3. SumOn(f, 0 .. m) = f[m] + SumOn(f, 0 .. m - 1)
    BY <1>1, <1>2, SumRemoves
  <1>4. SumOn(f, 0 .. m - 1) \in Int
    BY <1>1, SumIsInt
  <1> QED BY <1>3, <1>4

LEMMA SumConstant ==
  ASSUME NEW c \in Int, NEW f, NEW m \in Nat, \A x \in 0 .. m - 1 : f[x] = c
  PROVE  SumOn(f, 0 .. m - 1) = c * m
  <1> DEFINE Odd == {i \in 0 .. m : SumOn(f, 0 .. i - 1) # c * i}
  <1>1. Odd = {}
    <2> SUFFICES ASSUME Odd # {} PROVE FALSE
      OBVIOUS
    <2>1. PICK i \in Odd : \A l \in Odd : i <= l
      <3>1. \A l \in Odd : l \in Nat
        OBVIOUS
      <3> HIDE DEF Odd
      <3> QED BY <3>1, LeastNumber
    <2>2. i \in 0 .. m /\ i \in Nat /\ SumOn(f, 0 .. i - 1) # c * i
      OBVIOUS
    <2>3. i # 0
      <3>1. 0 .. 0 - 1 = {} /\ c * 0 = 0
        OBVIOUS
      <3> QED BY <2>2, <3>1, SumEmpty
    <2>4. i - 1 \in 0 .. m /\ i - 1 \in Nat /\ ~(i <= i - 1)
      BY <2>2, <2>3
    <2>5. SumOn(f, 0 .. (i - 1) - 1) = c * (i - 1)
      BY <2>1, <2>4
    <2>6. \A x \in 0 .. i - 1 : x \in 0 .. m - 1
      BY <2>2
    <2>7. SumOn(f, 0 .. i - 1) = SumOn(f, 0 .. (i - 1) - 1) + f[i - 1] /\ f[i - 1] = c
      <3>1. \A x \in 0 .. i - 1 : f[x] \in Int
        BY <2>6
      <3>2. i - 1 \in 0 .. m - 1
        BY <2>2, <2>3
      <3> QED BY <2>4, <3>1, <3>2, SumSteps
    <2>8. c * (i - 1) + c = c * i
      BY <2>2
    <2> QED BY <2>2, <2>5, <2>7, <2>8
  <1>2. m \in 0 .. m
    OBVIOUS
  <1> QED BY <1>1, <1>2

-----------------------------------------------------------------------------
(* The bisection of the low bounds.                                        *)

Windows == (0 .. P) \X (0 .. P)

Halve(b, key, w) ==
  LET m == w[1] + (w[2] - w[1]) \div 2
  IN  IF w[1] >= w[2] THEN w[1]
      ELSE IF Low(m) <= key THEN b[<<m + 1, w[2]>>] ELSE b[<<w[1], m>>]

\* Where a window ends when the bounds above the key start at cut.
Ends(cut) ==
  [w \in Windows |-> IF w[1] >= w[2] \/ cut < w[1] THEN w[1] ELSE IF cut > w[2] THEN w[2] ELSE cut]

LEMMA EndsSteps ==
  ASSUME NEW key, NEW cut \in 0 .. P, \A p \in Part : Low(p) <= key <=> p < cut
  PROVE  Ends(cut) = [w \in Windows |-> Halve(Ends(cut), key, w)]
  <1> DEFINE g == Ends(cut)
  <1>1. ASSUME NEW w \in Windows PROVE g[w] = Halve(g, key, w)
    <2> DEFINE m == w[1] + (w[2] - w[1]) \div 2
    <2>1. P \in Nat /\ w[1] \in 0 .. P /\ w[2] \in 0 .. P /\ w = <<w[1], w[2]>>
      BY <1>1, PAssumption DEF Windows
    <2>2. CASE w[1] >= w[2]
      BY <1>1, <2>2 DEF Halve, Ends
    <2>3. CASE w[1] < w[2]
      <3>1. m \in w[1] .. w[2] - 1
        BY <2>1, <2>3
      <3>2. <<m + 1, w[2]>> \in Windows /\ <<w[1], m>> \in Windows
        BY <2>1, <3>1 DEF Windows
      <3>3. Low(m) <= key <=> m < cut
        BY <2>1, <3>1 DEF Part
      <3>4. Halve(g, key, w) = IF m < cut THEN g[<<m + 1, w[2]>>] ELSE g[<<w[1], m>>]
        BY <2>1, <2>3, <3>3 DEF Halve
      <3> HIDE DEF m
      <3>5. /\ g[<<m + 1, w[2]>>] = IF m + 1 >= w[2] \/ cut < m + 1 THEN m + 1 ELSE IF cut > w[2] THEN w[2] ELSE cut
            /\ g[<<w[1], m>>] = IF w[1] >= m \/ cut < w[1] THEN w[1] ELSE IF cut > m THEN m ELSE cut
            /\ g[w] = IF w[1] >= w[2] \/ cut < w[1] THEN w[1] ELSE IF cut > w[2] THEN w[2] ELSE cut
        BY <3>2 DEF Ends
      <3> QED BY <2>1, <2>3, <3>1, <3>4, <3>5
    <2> QED BY <2>1, <2>2, <2>3
  <1>2. g = [w \in Windows |-> g[w]]
    BY DEF Ends
  <1> HIDE DEF g
  <1> QED BY <1>1, <1>2 DEF g

LEMMA BisectEnds ==
  ASSUME NEW key, NEW cut \in 0 .. P, \A p \in Part : Low(p) <= key <=> p < cut
  PROVE  Bisect(key) = cut - 1
  <1> DEFINE b == CHOOSE g : g = [w \in Windows |-> Halve(g, key, w)]
             e == Ends(cut)
  <1>1. b = [w \in Windows |-> Halve(b, key, w)]
    BY EndsSteps
  <1>2. Bisect(key) = b[<<0, P>>] - 1
    BY Zenon DEF Bisect, Halve, Windows
  <1> HIDE DEF b
  <1> DEFINE Wrong == {w \in Windows : w[1] <= w[2] /\ b[w] # e[w]}
             Sizes == {w[2] - w[1] : w \in Wrong}
  <1>3. Wrong = {}
    <2> SUFFICES ASSUME Wrong # {} PROVE FALSE
      OBVIOUS
    <2>1. \A w \in Windows : w[1] \in Nat /\ w[2] \in Nat /\ w[1] <= P /\ w[2] <= P /\ w = <<w[1], w[2]>>
      BY PAssumption DEF Windows
    <2>2. Sizes # {} /\ \A r \in Sizes : r \in Nat
      BY <2>1
    <2>3. PICK s \in Sizes : \A r \in Sizes : s <= r
      BY <2>2, LeastNumber
    <2>4. PICK w \in Wrong : s = w[2] - w[1]
      OBVIOUS
    <2>5. \A v \in Windows : v[1] <= v[2] /\ v[2] - v[1] < s => b[v] = e[v]
      <3> SUFFICES ASSUME NEW v \in Wrong, v[2] - v[1] < s PROVE FALSE
        OBVIOUS
      <3>1. v[2] - v[1] \in Sizes
        OBVIOUS
      <3> QED BY <2>2, <2>3, <3>1
    <2> DEFINE m == w[1] + (w[2] - w[1]) \div 2
    <2>6. b[w] = Halve(b, key, w) /\ e[w] = Halve(e, key, w)
      BY <1>1, EndsSteps
    <2>7. w[1] < w[2]
      BY <2>1, <2>6 DEF Halve
    <2>8. /\ <<m + 1, w[2]>> \in Windows /\ <<w[1], m>> \in Windows
          /\ m + 1 <= w[2] /\ w[1] <= m /\ w[2] - (m + 1) < s /\ m - w[1] < s
      BY <2>1, <2>4, <2>7, PAssumption DEF Windows
    <2>9. b[<<m + 1, w[2]>>] = e[<<m + 1, w[2]>>] /\ b[<<w[1], m>>] = e[<<w[1], m>>]
      BY <2>5, <2>8
    <2> QED BY <2>6, <2>9 DEF Halve
  <1>4. <<0, P>> \in Windows /\ 0 <= P
    BY PAssumption DEF Windows
  <1>5. b[<<0, P>>] = e[<<0, P>>]
    BY <1>3, <1>4
  <1>6. e[<<0, P>>] = cut
    BY <1>4, PAssumption DEF Ends
  <1> QED BY <1>2, <1>5, <1>6

\* A query is routed to the partition in whose range it lies, or to none.
LEMMA BisectIs ==
  ASSUME NEW key \in Key
  PROVE  /\ key = 0 => Bisect(key) = -1
         /\ key # 0 => Bisect(key) \in Part /\ Home(key) = Bisect(key)
  <1> DEFINE cut == (key + 1) \div 2
  <1>1. P \in Nat /\ key \in Nat /\ key <= 2 * P
    BY PAssumption DEF Key
  <1>2. cut \in 0 .. P /\ (key = 0 => cut = 0) /\ (key # 0 => cut >= 1)
    BY <1>1
  <1>3. \A p \in Nat : 2 * p + 1 <= key <=> p < cut
    BY <1>1
  <1> HIDE DEF cut
  <1>4. \A p \in Part : Low(p) <= key <=> p < cut
    BY <1>1, <1>3 DEF Part, Low
  <1>5. Bisect(key) = cut - 1
    BY <1>2, <1>4, BisectEnds
  <1>6. ASSUME key # 0 PROVE Bisect(key) \in Part /\ Home(key) = Bisect(key)
    <2> DEFINE T == {p \in Part : Low(p) <= key}
    <2>1. cut - 1 \in Part /\ cut - 1 \in T
      BY <1>1, <1>2, <1>4, <1>6 DEF Part
    <2>2. \A p \in T : p \in Int /\ p <= cut - 1
      BY <1>1, <1>2, <1>4 DEF Part
    <2>3. Max(T) \in T /\ \A p \in T : p <= Max(T)
      <3> HIDE DEF T
      <3> QED BY <1>2, <2>1, <2>2, Largest
    <2>4. Max(T) = cut - 1
      <3> HIDE DEF T
      <3> QED BY <1>1, <1>2, <2>1, <2>2, <2>3
    <2> QED BY <1>5, <2>1, <2>4 DEF Home
  <1> QED BY <1>2, <1>5, <1>6

-----------------------------------------------------------------------------
(* The records and their order.                                            *)

Record == [id : Part, acc : Nat, num : Nat]

Ids(r)  == [j \in Part |-> r[j].id]
Nums(r) == [j \in Part |-> r[j].num]

Permutes(q) ==
  /\ q \in [Part -> Part]
  /\ \A a, b \in Part : q[a] = q[b] => a = b
  /\ \A m \in Part : \E a \in Part : q[a] = m

\* One record for each partition.
RankOK(r) == r \in [Part -> Record] /\ Permutes(Ids(r))

LEMMA PartFinite == IsFiniteSet(Part) /\ P \in Nat /\ P - 1 \in Part /\ 0 \in Part /\ Part \subseteq Nat
  <1>1. IsFiniteSet(Part)
    BY FS_Interval, PAssumption DEF Part
  <1> QED BY <1>1, PAssumption DEF Part

LEMMA RankTypes ==
  ASSUME NEW r, r \in [Part -> Record]
  PROVE  /\ \A j \in Part : /\ r[j] \in Record
                            /\ r[j].id \in Part /\ r[j].acc \in Nat /\ r[j].num \in Nat
                            /\ Ids(r)[j] = r[j].id /\ Nums(r)[j] = r[j].num
         /\ \A j \in Part : Nums(r)[j] \in Int
  BY DEF Record, Ids, Nums

LEMMA GrantedSum ==
  ASSUME NEW r
  PROVE  Granted(r) = SumOn(Nums(r), Part)
  <1>1. DOMAIN [j \in Part |-> r[j].num] = Part
    OBVIOUS
  <1> QED BY <1>1, Zenon DEF Granted, Total, SumOn, FoldFunction, Nums

LEMMA GrantedIsInt ==
  ASSUME NEW r, r \in [Part -> Record]
  PROVE  Granted(r) \in Int
  BY RankTypes, GrantedSum, SumIsInt, PartFinite

\* The order s holds the records of r, each once.
Shuffles(q, r, s) == Permutes(q) /\ \A j \in Part : s[j] = r[q[j]]

LEMMA ShuffleKeeps ==
  ASSUME NEW r, RankOK(r), NEW s, s = [j \in Part |-> s[j]], NEW q, Shuffles(q, r, s)
  PROVE  /\ RankOK(s) /\ Granted(s) = Granted(r)
         /\ \A j \in Part : \E m \in Part : s[j] = r[m]
         /\ \A m \in Part : \E j \in Part : s[j] = r[m]
  <1>1. /\ q \in [Part -> Part]
        /\ \A a, b \in Part : q[a] = q[b] => a = b
        /\ \A m \in Part : \E a \in Part : q[a] = m
        /\ \A j \in Part : q[j] \in Part /\ s[j] = r[q[j]]
    BY DEF Shuffles, Permutes
  <1>2. r \in [Part -> Record] /\ s \in [Part -> Record] /\ Permutes(Ids(r))
    BY <1>1 DEF RankOK
  <1>3. ASSUME NEW j \in Part
        PROVE  Ids(s)[j] = Ids(r)[q[j]] /\ Nums(s)[j] = Nums(r)[q[j]]
    <2>1. PICK m \in Part : m = q[j] /\ s[j] = r[m]
      BY <1>1
    <2>2. /\ Ids(s)[j] = s[j].id /\ Nums(s)[j] = s[j].num
          /\ Ids(r)[m] = r[m].id /\ Nums(r)[m] = r[m].num
      BY DEF Ids, Nums
    <2> QED BY <2>1, <2>2
  <1>4. Permutes(Ids(s))
    <2>1. Ids(s) \in [Part -> Part]
      BY <1>2, RankTypes DEF Ids
    <2> DEFINE f == Ids(r)
               h == Ids(s)
    <2>2. /\ \A a, b \in Part : f[a] = f[b] => a = b
          /\ \A m \in Part : \E a \in Part : f[a] = m
          /\ \A j \in Part : h[j] = f[q[j]]
      BY <1>2, <1>3 DEF Permutes
    <2> HIDE DEF f, h
    <2>3. \A a, b \in Part : h[a] = h[b] => a = b
      BY <1>1, <2>2
    <2>4. \A m \in Part : \E a \in Part : h[a] = m
      <3> SUFFICES ASSUME NEW m \in Part PROVE \E a \in Part : h[a] = m
        OBVIOUS
      <3>1. PICK c \in Part : f[c] = m
        BY <2>2
      <3>2. PICK a \in Part : q[a] = c
        BY <1>1
      <3> QED BY <2>2, <3>1, <3>2
    <2> USE DEF f, h
    <2> QED BY <2>1, <2>3, <2>4 DEF Permutes
  <1>5. Granted(s) = Granted(r)
    <2>1. \A x \in Part : Nums(s)[x] \in Int /\ Nums(s)[x] = Nums(r)[q[x]]
      BY <1>2, <1>3, RankTypes
    <2>2. {q[x] : x \in Part} = Part
      BY <1>1
    <2>3. SumOn(Nums(s), Part) = SumOn(Nums(r), {q[x] : x \in Part})
      BY <1>1, <2>1, SumReorders, PartFinite
    <2> QED BY <2>2, <2>3, GrantedSum
  <1> QED BY <1>1, <1>2, <1>4, <1>5 DEF RankOK

LEMMA MoveShuffles ==
  ASSUME NEW r, NEW i \in Part, NEW k \in Part
  PROVE  \E q : Shuffles(q, r, Move(r, i, k)) /\ q[k] = i
  <1> DEFINE q == [j \in Part |-> CASE j = k           -> i
                                    [] k < j /\ j <= i -> j - 1
                                    [] i <= j /\ j < k -> j + 1
                                    [] OTHER           -> j]
             back == [m \in Part |-> CASE m = i           -> k
                                       [] k <= m /\ m < i -> m + 1
                                       [] i < m /\ m <= k -> m - 1
                                       [] OTHER           -> m]
  <1>1. P \in Nat /\ i \in Nat /\ k \in Nat
    BY PartFinite
  <1>2. q \in [Part -> Part] /\ back \in [Part -> Part]
    BY <1>1 DEF Part
  <1>3. \A j \in Part : back[q[j]] = j
    BY <1>1, <1>2 DEF Part
  <1>4. \A m \in Part : q[back[m]] = m
    BY <1>1, <1>2 DEF Part
  <1>5. \A j \in Part : Move(r, i, k)[j] = r[q[j]]
    BY <1>1 DEF Part, Move
  <1>6. q[k] = i
    BY <1>1
  <1> HIDE DEF q, back
  <1>7. \A a, b \in Part : q[a] = q[b] => a = b
    BY <1>3
  <1>8. \A m \in Part : \E a \in Part : q[a] = m
    BY <1>2, <1>4
  <1>9. Shuffles(q, r, Move(r, i, k))
    BY <1>2, <1>5, <1>7, <1>8 DEF Shuffles, Permutes
  <1> QED BY <1>6, <1>9

\* Moving a record loses none.
LEMMA MoveKeeps ==
  ASSUME NEW r, RankOK(r), NEW i \in Part, NEW k \in Part
  PROVE  /\ RankOK(Move(r, i, k)) /\ Granted(Move(r, i, k)) = Granted(r)
         /\ Move(r, i, k)[k] = r[i]
         /\ \A j \in Part : \E m \in Part : Move(r, i, k)[j] = r[m]
         /\ \A m \in Part : \E j \in Part : Move(r, i, k)[j] = r[m]
  <1> DEFINE s == Move(r, i, k)
  <1>1. PICK q : Shuffles(q, r, s) /\ q[k] = i
    BY MoveShuffles
  <1>2. s = [j \in Part |-> s[j]]
    BY DEF Move
  <1> HIDE DEF s
  <1>3. /\ RankOK(s) /\ Granted(s) = Granted(r)
        /\ \A j \in Part : \E m \in Part : s[j] = r[m]
        /\ \A m \in Part : \E j \in Part : s[j] = r[m]
    BY <1>1, <1>2, ShuffleKeeps
  <1>4. s[k] = r[i]
    BY <1>1 DEF Shuffles
  <1> QED BY <1>3, <1>4 DEF s

\* A record with another number of DPUs.
With(r, i, v) == [r EXCEPT ![i].num = v]

LEMMA Recounted ==
  ASSUME NEW r, RankOK(r), NEW i \in Part, NEW v \in Nat
  PROVE  /\ RankOK(With(r, i, v)) /\ Granted(With(r, i, v)) = Granted(r) + v - r[i].num
         /\ With(r, i, v)[i].num = v /\ With(r, i, v)[i].id = r[i].id /\ With(r, i, v)[i].acc = r[i].acc
         /\ \A j \in Part \ {i} : With(r, i, v)[j] = r[j]
  <1> DEFINE s == With(r, i, v)
  <1>1. r \in [Part -> Record] /\ Permutes(Ids(r))
    BY DEF RankOK
  <1>2. /\ s[i].num = v /\ s[i].id = r[i].id /\ s[i].acc = r[i].acc
        /\ \A j \in Part \ {i} : s[j] = r[j]
        /\ s \in [Part -> Record]
    BY <1>1 DEF With, Record
  <1> HIDE DEF s
  <1>3. /\ \A j \in Part : Ids(s)[j] = Ids(r)[j] /\ Nums(r)[j] \in Int /\ Nums(s)[j] \in Int
        /\ Nums(s)[i] = v /\ Nums(r)[i] = r[i].num
        /\ \A j \in Part : j # i => Nums(s)[j] = Nums(r)[j]
    BY <1>1, <1>2, RankTypes
  <1>4. Ids(s) = Ids(r)
    BY <1>3 DEF Ids
  <1>5. RankOK(s)
    BY <1>1, <1>2, <1>4 DEF RankOK
  <1>6. SumOn(Nums(s), Part) = SumOn(Nums(r), Part) + Nums(s)[i] - Nums(r)[i]
    <2> DEFINE f == Nums(r)
               h == Nums(s)
    <2>1. \A x \in Part : f[x] \in Int /\ h[x] \in Int /\ (x # i => h[x] = f[x])
      BY <1>3
    <2> HIDE DEF f, h
    <2>2. SumOn(h, Part) = SumOn(f, Part) + h[i] - f[i]
      BY ZenonT(60), <2>1, SumChanges, PartFinite
    <2> QED BY <2>2 DEF f, h
  <1>7. Granted(s) = Granted(r) + v - r[i].num
    BY <1>3, <1>6, GrantedSum
  <1> QED BY <1>2, <1>5, <1>7 DEF s

LEMMA ColderIs ==
  ASSUME NEW r, NEW i, NEW from \in Nat, NEW to \in Int, NEW else \in Nat
  PROVE  LET c == Colder(r, i, from, to, else)
         IN  /\ c = else \/ (c \in from .. to /\ Hotter(r[i], r[c]))
             /\ c <= else \/ else < from
  <1> DEFINE T == {j \in from .. to : Hotter(r[i], r[j])} \cup {else}
  <1>1. T # {} /\ (\A x \in T : x \in Nat) /\ else \in T
    OBVIOUS
  <1>2. Min(T) \in T /\ \A x \in T : Min(T) <= x
    <2> HIDE DEF T
    <2> QED BY <1>1, Smallest
  <1> QED BY <1>1, <1>2 DEF Colder

LEMMA LessIs ==
  ASSUME RankOK(rank), NEW i \in Part, rank[i].num > 1
  PROVE  \E k, r :
           /\ k \in Part
           /\ RankOK(r) /\ Granted(r) = Granted(rank) - 1
           /\ r[i].num = rank[i].num - 1 /\ r[i].id = rank[i].id /\ r[i].acc = rank[i].acc
           /\ \A j \in Part \ {i} : r[j] = rank[j]
           /\ k <= i /\ (k # i => Hotter(r[i], r[k]))
           /\ Less(i) = Move(r, i, k)
           /\ RankOK(Less(i)) /\ Granted(Less(i)) = Granted(rank) - 1
           /\ \A j \in Part : \E m \in Part : Less(i)[j] = r[m]
  <1>1. rank[i] \in Record /\ i \in Nat /\ P \in Nat /\ i <= P - 1 /\ rank \in [Part -> Record]
    BY PAssumption DEF RankOK, Part
  <1>2. PICK v, w \in Nat : v = rank[i].num - 1 /\ w = rank[i].num
    BY <1>1 DEF Record
  <1>3. PICK r : r = With(rank, i, v)
    OBVIOUS
  <1>4. r = [rank EXCEPT ![i].num = @ - 1]
    BY <1>3, <1>1, <1>2 DEF With, Record
  <1>5. /\ RankOK(With(rank, i, v)) /\ Granted(With(rank, i, v)) = Granted(rank) + v - rank[i].num
        /\ With(rank, i, v)[i].num = v /\ With(rank, i, v)[i].id = rank[i].id /\ With(rank, i, v)[i].acc = rank[i].acc
        /\ \A j \in Part \ {i} : With(rank, i, v)[j] = rank[j]
    BY Recounted, Zenon
  <1>6. /\ RankOK(r) /\ Granted(r) = Granted(rank) + v - w
        /\ r[i].num = v /\ r[i].id = rank[i].id /\ r[i].acc = rank[i].acc
        /\ \A j \in Part \ {i} : r[j] = rank[j]
    BY <1>3, <1>2, <1>5, Zenon
  <1>7. Granted(r) = Granted(rank) - 1
    BY <1>1, <1>2, <1>6, GrantedIsInt
  <1>8. PICK k : k = Colder(r, i, 0, i - 1, i)
    OBVIOUS
  <1>9. k \in Part /\ k <= i /\ (k # i => Hotter(r[i], r[k]))
    <2>1. 0 \in Nat /\ i - 1 \in Int /\ i \in Nat
      BY <1>1
    <2>2. k = i \/ (k \in 0 .. i - 1 /\ Hotter(r[i], r[k]))
      BY <1>8, <2>1, ColderIs, Zenon
    <2> QED BY <1>1, <2>2 DEF Part
  <1>10. Less(i) = Move(r, i, k)
    BY <1>4, <1>8, Zenon DEF Less
  <1>11. /\ RankOK(Move(r, i, k)) /\ Granted(Move(r, i, k)) = Granted(r)
        /\ \A j \in Part : \E m \in Part : Move(r, i, k)[j] = r[m]
    BY <1>6, <1>9, MoveKeeps
  <1> QED BY <1>2, <1>6, <1>7, <1>9, <1>10, <1>11

LEMMA MoreIs ==
  ASSUME NEW r0, RankOK(r0), NEW i \in Part
  PROVE  \E k, r :
           /\ k \in Part
           /\ RankOK(r)
           /\ r[i].num = r0[i].num + 1 /\ r[i].id = r0[i].id /\ r[i].acc = r0[i].acc
           /\ \A j \in Part \ {i} : r[j] = r0[j]
           /\ k >= i
           /\ More(r0, i) = Move(r, i, k) /\ More(r0, i)[k] = r[i]
           /\ RankOK(More(r0, i)) /\ Granted(More(r0, i)) = Granted(r0) + 1
           /\ \A j \in Part : \E m \in Part : More(r0, i)[j] = r[m]
  <1>1. r0[i] \in Record /\ i \in Nat /\ P \in Nat /\ i <= P - 1 /\ P - 1 \in Nat /\ r0 \in [Part -> Record]
    BY PAssumption DEF RankOK, Part
  <1>2. PICK v, w \in Nat : v = r0[i].num + 1 /\ w = r0[i].num
    BY <1>1 DEF Record
  <1>3. PICK r : r = With(r0, i, v)
    OBVIOUS
  <1>4. r = [r0 EXCEPT ![i].num = @ + 1]
    BY <1>3, <1>1, <1>2 DEF With, Record
  <1>5. /\ RankOK(With(r0, i, v)) /\ Granted(With(r0, i, v)) = Granted(r0) + v - r0[i].num
        /\ With(r0, i, v)[i].num = v /\ With(r0, i, v)[i].id = r0[i].id /\ With(r0, i, v)[i].acc = r0[i].acc
        /\ \A j \in Part \ {i} : With(r0, i, v)[j] = r0[j]
    BY Recounted, Zenon
  <1>6. /\ RankOK(r) /\ Granted(r) = Granted(r0) + v - w
        /\ r[i].num = v /\ r[i].id = r0[i].id /\ r[i].acc = r0[i].acc
        /\ \A j \in Part \ {i} : r[j] = r0[j]
    BY <1>3, <1>2, <1>5, Zenon
  <1>7. Granted(r) = Granted(r0) + 1
    BY <1>1, <1>2, <1>6, GrantedIsInt
  <1>8. PICK k : k = Colder(r, i, i, P - 1, P - 1)
    OBVIOUS
  <1>9. k \in Part /\ k >= i
    <2>1. i \in Nat /\ P - 1 \in Int /\ P - 1 \in Nat
      BY <1>1
    <2>2. k = P - 1 \/ (k \in i .. P - 1 /\ Hotter(r[i], r[k]))
      BY <1>8, <2>1, ColderIs, Zenon
    <2> QED BY <1>1, <2>2 DEF Part
  <1>10. More(r0, i) = Move(r, i, k)
    BY <1>4, <1>8, Zenon DEF More
  <1>11. /\ RankOK(Move(r, i, k)) /\ Granted(Move(r, i, k)) = Granted(r) /\ Move(r, i, k)[k] = r[i]
        /\ \A j \in Part : \E m \in Part : Move(r, i, k)[j] = r[m]
    BY <1>6, <1>9, MoveKeeps
  <1> QED BY <1>2, <1>6, <1>7, <1>9, <1>10, <1>11

-----------------------------------------------------------------------------
(* The invariant.                                                          *)

\* Every query of the warm-up is counted, in the array or in front of it.
AccessInv ==
  /\ access \in [Part -> Nat] /\ lost \in Nat
  /\ taken \in Nat /\ taken <= Samples
  /\ SumOn(access, Part) + lost = taken

\* What is still to be taken back or given away is what the shares are wrong
\* by.
RankInv ==
  /\ RankOK(rank)
  /\ pc \in {"shrink", "grow", "adjust"} =>
       todo \in Nat /\ off \in Part /\ \A j \in Part : rank[j].num >= 1
  /\ pc = "shrink" => Granted(rank) = D + todo
  /\ pc = "grow"   => Granted(rank) = D - todo
  /\ pc = "adjust" => Granted(rank) = D

ReplicasInv == replicas \in [Part -> Nat \ {0}] /\ SumOn(replicas, Part) = D

\* Behind the cursor there is a partition with more than one DPU.
GrowInv ==
  /\ pc = "grow" /\ lost = 0 => \E j \in Part : j >= off /\ rank[j].num > 1
  /\ pc = "wild" => lost > 0

LEMMA DIsNat == D \in Nat /\ D >= P
  BY KAssumption, PAssumption DEF D

LEMMA InitShares == Init => AccessInv /\ RankInv /\ ReplicasInv /\ GrowInv
  <1> SUFFICES ASSUME Init PROVE AccessInv /\ RankInv /\ ReplicasInv /\ GrowInv
    OBVIOUS
  <1>1. AccessInv
    <2>1. access \in [Part -> Nat] /\ \A p \in 0 .. P - 1 : access[p] = 0
      BY DEF Init, Part
    <2>2. SumOn(access, 0 .. P - 1) = 0
      <3>1. PICK c \in Int : c = 0
        OBVIOUS
      <3>2. SumOn(access, 0 .. P - 1) = c * P
        BY <2>1, <3>1, SumConstant, PartFinite
      <3> QED BY <3>1, <3>2, PartFinite
    <2> QED BY <2>1, <2>2, PartFinite, SamplesAssumption DEF Init, AccessInv, Part
  <1>2. RankInv
    <2>1. rank \in [Part -> Record] /\ Ids(rank) = [j \in Part |-> j]
      BY PartFinite DEF Init, Record, Ids
    <2>2. Permutes(Ids(rank))
      BY <2>1 DEF Permutes
    <2> QED BY <2>1, <2>2 DEF Init, RankInv, RankOK
  <1>3. ReplicasInv
    <2>1. K \in Int /\ K \in Nat \ {0} /\ replicas \in [Part -> Nat \ {0}] /\ \A p \in 0 .. P - 1 : replicas[p] = K
      BY KAssumption DEF Init, Part
    <2>2. SumOn(replicas, 0 .. P - 1) = K * P
      BY <2>1, SumConstant, PartFinite
    <2> QED BY <2>1, <2>2 DEF ReplicasInv, Part, D
  <1>4. GrowInv
    BY DEF Init, GrowInv
  <1> QED BY <1>1, <1>2, <1>3, <1>4

LEMMA AccessStep == AccessInv /\ [Next]_vars => AccessInv'
  <1> SUFFICES ASSUME AccessInv, [Next]_vars PROVE AccessInv'
    OBVIOUS
  <1>1. CASE UNCHANGED <<taken, access, lost>>
    BY <1>1 DEF AccessInv
  <1>2. CASE WarmUp
    <2>1. access' \in [Part -> Nat] /\ \A p \in 0 .. P - 1 : access'[p] = 0
      BY <1>2 DEF WarmUp, Part
    <2>2. SumOn(access', 0 .. P - 1) = 0
      <3>1. PICK c \in Int : c = 0
        OBVIOUS
      <3>2. SumOn(access', 0 .. P - 1) = c * P
        BY <2>1, <3>1, SumConstant, PartFinite
      <3> QED BY <3>1, <3>2, PartFinite
    <2> QED BY <1>2, <2>1, <2>2, PartFinite, SamplesAssumption DEF WarmUp, AccessInv, Part
  <1>3. CASE Sample
    <2>1. PICK key \in Key :
             IF Bisect(key) \in Part
             THEN access' = [access EXCEPT ![Bisect(key)] = @ + 1] /\ UNCHANGED lost
             ELSE lost' = lost + 1 /\ UNCHANGED access
      BY <1>3 DEF Sample
    <2>2. taken' = taken + 1 /\ taken < Samples
      BY <1>3 DEF Sample
    <2>3. SumOn(access, Part) \in Int
      <3>1. \A p \in Part : access[p] \in Int
        BY DEF AccessInv
      <3> QED BY <3>1, SumIsInt, PartFinite
    <2>4. CASE Bisect(key) \in Part
      <3>1. PICK p \in Part : p = Bisect(key)
        BY <2>4
      <3>2. access' = [access EXCEPT ![p] = @ + 1] /\ lost' = lost
        BY <2>1, <3>1
      <3>3. /\ access' \in [Part -> Nat] /\ access'[p] = access[p] + 1
            /\ \A x \in Part : access[x] \in Int /\ access'[x] \in Int /\ (x # p => access'[x] = access[x])
        BY <3>2 DEF AccessInv
      <3>4. SumOn(access', Part) = SumOn(access, Part) + access'[p] - access[p]
        BY <3>3, SumChanges, PartFinite
      <3>5. SumOn(access', Part) = SumOn(access, Part) + 1
        BY <2>3, <3>3, <3>4
      <3> QED BY <2>2, <2>3, <3>2, <3>3, <3>5, SamplesAssumption DEF AccessInv
    <2>5. CASE ~(Bisect(key) \in Part)
      BY <2>1, <2>2, <2>5, <2>3, SamplesAssumption DEF AccessInv
    <2> QED BY <2>4, <2>5
  <1> QED BY <1>1, <1>2, <1>3 DEF Next, vars, sampling, Ratios, Shrink, Grow, Balanced, Adjust, Settle, GetStartDpuId, Push, Pushed

\* A DPU that is taken back or given away changes the sum by one, and no
\* partition loses its last one.
LEMMA LessKeeps ==
  ASSUME RankOK(rank), NEW i \in Part, rank[i].num > 1, \A j \in Part : rank[j].num >= 1
  PROVE  /\ RankOK(Less(i)) /\ Granted(Less(i)) = Granted(rank) - 1
         /\ \A j \in Part : Less(i)[j].num >= 1
  <1>1. PICK k, r :
           /\ k \in Part
           /\ RankOK(r) /\ Granted(r) = Granted(rank) - 1
           /\ r[i].num = rank[i].num - 1 /\ r[i].id = rank[i].id /\ r[i].acc = rank[i].acc
           /\ \A j \in Part \ {i} : r[j] = rank[j]
           /\ k <= i /\ (k # i => Hotter(r[i], r[k]))
           /\ Less(i) = Move(r, i, k)
           /\ RankOK(Less(i)) /\ Granted(Less(i)) = Granted(rank) - 1
           /\ \A j \in Part : \E m \in Part : Less(i)[j] = r[m]
    BY LessIs, Zenon
  <1>2. rank[i].num \in Nat
    BY RankTypes DEF RankOK
  <1>3. r[i].num >= 1
    BY <1>1, <1>2
  <1>4. ASSUME NEW m \in Part PROVE r[m].num >= 1
    <2>1. CASE m = i
      BY <1>3, <2>1
    <2>2. CASE m # i
      <3>1. r[m] = rank[m]
        BY <1>1, <2>2
      <3> QED BY <3>1
    <2> QED BY <2>1, <2>2
  <1>5. ASSUME NEW j \in Part PROVE Less(i)[j].num >= 1
    <2>1. PICK m \in Part : Less(i)[j] = r[m]
      BY <1>1
    <2> QED BY <1>4, <2>1
  <1> QED BY <1>1, <1>5

LEMMA MoreKeeps ==
  ASSUME NEW r0, RankOK(r0), NEW i \in Part, \A j \in Part : r0[j].num >= 1
  PROVE  /\ RankOK(More(r0, i)) /\ Granted(More(r0, i)) = Granted(r0) + 1
         /\ \A j \in Part : More(r0, i)[j].num >= 1
         /\ \E k \in Part : k >= i /\ More(r0, i)[k].num = r0[i].num + 1 /\ More(r0, i)[k].id = r0[i].id
  <1>1. PICK k, r :
           /\ k \in Part
           /\ RankOK(r)
           /\ r[i].num = r0[i].num + 1 /\ r[i].id = r0[i].id /\ r[i].acc = r0[i].acc
           /\ \A j \in Part \ {i} : r[j] = r0[j]
           /\ k >= i
           /\ More(r0, i) = Move(r, i, k) /\ More(r0, i)[k] = r[i]
           /\ RankOK(More(r0, i)) /\ Granted(More(r0, i)) = Granted(r0) + 1
           /\ \A j \in Part : \E m \in Part : More(r0, i)[j] = r[m]
    BY MoreIs, Zenon
  <1>2. r0[i].num \in Nat
    BY RankTypes DEF RankOK
  <1>3. r[i].num >= 1
    BY <1>1, <1>2
  <1>4. ASSUME NEW m \in Part PROVE r[m].num >= 1
    <2>1. CASE m = i
      BY <1>3, <2>1
    <2>2. CASE m # i
      <3>1. r[m] = r0[m]
        BY <1>1, <2>2
      <3> QED BY <3>1
    <2> QED BY <2>1, <2>2
  <1>5. ASSUME NEW j \in Part PROVE More(r0, i)[j].num >= 1
    <2>1. PICK m \in Part : More(r0, i)[j] = r[m]
      BY <1>1
    <2> QED BY <1>4, <2>1
  <1>6. More(r0, i)[k].num = r0[i].num + 1 /\ More(r0, i)[k].id = r0[i].id
    BY <1>1, Zenon
  <1> QED BY <1>1, <1>5, <1>6

\* The most DPUs are somewhere.
LEMMA GiverIn ==
  ASSUME RankOK(rank), off \in Part
  PROVE  Giver \in Part
  <1> DEFINE Most == {i \in Part : \A j \in Part : rank[j].num <= rank[i].num}
             Values == {rank[i].num : i \in Part}
  <1>1. \A i \in Part : rank[i].num \in Nat
    BY RankTypes DEF RankOK
  <1>2. SumOn(Nums(rank), Part) \in Int
    BY RankTypes, SumIsInt, PartFinite DEF RankOK
  <1>3. ASSUME NEW i \in Part PROVE rank[i].num <= SumOn(Nums(rank), Part)
    <2>1. IsFiniteSet(Part \ {i})
      BY PartFinite, FS_RemoveElement
    <2>2. SumOn(Nums(rank), Part) = Nums(rank)[i] + SumOn(Nums(rank), Part \ {i})
      <3> DEFINE f == Nums(rank)
      <3>1. \A x \in Part : f[x] \in Int
        BY RankTypes DEF RankOK
      <3> HIDE DEF f
      <3>2. SumOn(f, Part) = f[i] + SumOn(f, Part \ {i})
        BY ZenonT(60), <3>1, SumRemoves, PartFinite
      <3> QED BY <3>2 DEF f
    <2>3. 0 <= SumOn(Nums(rank), Part \ {i}) /\ SumOn(Nums(rank), Part \ {i}) \in Int
      <3>1. \A x \in Part \ {i} : Nums(rank)[x] \in Int /\ Nums(rank)[x] >= 0
        BY RankTypes DEF RankOK
      <3>2. SumOn(Nums(rank), Part \ {i}) \in Int
        BY <2>1, <3>1, SumIsInt
      <3>3. 0 <= SumOn(Nums(rank), Part \ {i})
        BY <2>1, <3>1, SumNotNegative
      <3> QED BY <3>2, <3>3
    <2>4. Nums(rank)[i] = rank[i].num
      BY DEF Nums
    <2> QED BY <1>1, <1>2, <2>2, <2>3, <2>4
  <1>4. PICK v \in Values : \A x \in Values : x <= v
    <2>1. Values # {} /\ \A x \in Values : x \in Int /\ x <= SumOn(Nums(rank), Part)
      BY <1>1, <1>3, PartFinite
    <2> HIDE DEF Values
    <2> QED BY <1>2, <2>1, Largest
  <1>5. Most # {} /\ \A x \in Most : x \in Nat
    BY <1>4, PartFinite
  <1>6. Min(Most) \in Part
    <2>1. Most \subseteq Part
      OBVIOUS
    <2> HIDE DEF Most
    <2> QED BY <1>5, <2>1, Smallest
  <1> QED BY <1>6 DEF Giver, MostDpus

\* The shares have one record for each partition, and none without a DPU.
LEMMA SharesAreRecords ==
  ASSUME AccessInv, NEW f \in Bijection(Part, Part), NEW r, r = [j \in Part |-> Share(f[j])]
  PROVE  /\ RankOK(r)
         /\ \A j \in Part : r[j].num >= 1 /\ f[j] \in Part
         /\ \A j \in Part : r[j].num >= (access[f[j]] * K) \div Average
         /\ \A p \in Part : \E j \in Part : f[j] = p
  <1>1. /\ f \in [Part -> Part]
        /\ \A a, b \in Part : f[a] = f[b] => a = b
        /\ \A p \in Part : \E j \in Part : f[j] = p
    BY DEF Bijection, Injection, Surjection, IsInjective
  <1>2. Average \in Nat \ {0}
    BY SamplesAssumption, PAssumption DEF Average
  <1>3. ASSUME NEW p \in Part
        PROVE  /\ Share(p) \in Record /\ Share(p).id = p
               /\ Share(p).num >= 1 /\ Share(p).num >= (access[p] * K) \div Average
    <2>1. access[p] \in Nat /\ K \in Nat
      BY KAssumption DEF AccessInv
    <2>2. PICK y \in Nat : y = access[p] * K
      BY <2>1
    <2>3. PICK x \in Nat : x = (access[p] * K) \div Average
      <3>1. y \div Average \in Nat
        BY <1>2, <2>2
      <3> QED BY <2>2, <3>1
    <2>4. \A z \in {x, 1} : z \in Int /\ z <= x + 1
      OBVIOUS
    <2>5. Max({x, 1}) \in {x, 1} /\ \A z \in {x, 1} : z <= Max({x, 1})
      <3>1. {x, 1} # {} /\ x + 1 \in Int
        OBVIOUS
      <3> QED BY <2>4, <3>1, Largest
    <2>6. PICK v \in Nat : v = Max({x, 1}) /\ v >= 1 /\ v >= x
      BY <2>5
    <2>7. Share(p) = [id |-> p, acc |-> access[p], num |-> v]
      BY <2>3, <2>6 DEF Share
    <2> QED BY <2>1, <2>3, <2>6, <2>7 DEF Record
  <1>4. \A j \in Part : r[j] = Share(f[j]) /\ f[j] \in Part
    BY <1>1
  <1>5. r \in [Part -> Record]
    BY <1>3, <1>4
  <1>6. Ids(r) = f
    <2>1. ASSUME NEW j \in Part PROVE Ids(r)[j] = f[j]
      <3>1. PICK p \in Part : p = f[j] /\ r[j] = Share(p)
        BY <1>4
      <3> QED BY <1>3, <3>1 DEF Ids
    <2>2. Ids(r) = [j \in Part |-> Ids(r)[j]] /\ f = [j \in Part |-> f[j]]
      BY <1>1 DEF Ids
    <2> QED BY <2>1, <2>2
  <1>7. RankOK(r)
    BY <1>1, <1>5, <1>6 DEF RankOK, Permutes
  <1>8. ASSUME NEW j \in Part
        PROVE  r[j].num >= 1 /\ r[j].num >= (access[f[j]] * K) \div Average
    <2>1. PICK p \in Part : p = f[j] /\ r[j] = Share(p)
      BY <1>4
    <2> QED BY <1>3, <2>1
  <1> QED BY <1>1, <1>4, <1>7, <1>8

\* Unless queries are lost, some partition has at least the average.
LEMMA SomeIsHot ==
  ASSUME AccessInv, taken = Samples, lost = 0
  PROVE  \E p \in Part : access[p] >= Average
  <1>1. Average \in Nat /\ Average >= 1 /\ Average * P <= Samples /\ Samples \in Nat /\ P \in Nat /\ P >= 1
    BY SamplesAssumption, PAssumption DEF Average
  <1>2. SumOn(access, Part) = Samples /\ \A p \in Part : access[p] \in Int
    <2>1. SumOn(access, Part) \in Int
      <3>1. \A p \in Part : access[p] \in Int
        BY DEF AccessInv
      <3> QED BY <3>1, SumIsInt, PartFinite
    <2> QED BY <2>1, <1>1 DEF AccessInv
  <1>3. SUFFICES ASSUME \A p \in Part : access[p] < Average PROVE FALSE
    BY <1>1, <1>2
  <1> DEFINE g == [p \in Part |-> Average - 1]
  <1>4. \A p \in Part : access[p] \in Int /\ g[p] \in Int /\ access[p] <= g[p]
    BY <1>1, <1>2, <1>3
  <1>5. \A p \in 0 .. P - 1 : g[p] = Average - 1
    BY DEF Part
  <1> HIDE DEF g
  <1>6. SumOn(access, Part) <= SumOn(g, Part)
    BY <1>4, SumGrows, PartFinite
  <1>7. PICK c \in Int : c = Average - 1
    BY <1>1
  <1>8. SumOn(g, 0 .. P - 1) = c * P
    BY <1>1, <1>5, <1>7, SumConstant
  <1>9. c * P + P = Average * P
    BY <1>1, <1>7
  <1>10. c * P \in Int
    BY <1>1
  <1> QED BY <1>1, <1>2, <1>6, <1>8, <1>9, <1>10 DEF Part

LEMMA RankStep == AccessInv /\ RankInv /\ GrowInv /\ [Next]_vars => RankInv' /\ GrowInv'
  <1> SUFFICES ASSUME AccessInv, RankInv, GrowInv, [Next]_vars PROVE RankInv' /\ GrowInv'
    OBVIOUS
  <1>1. RankOK(rank) /\ Granted(rank) \in Int /\ D \in Nat
    BY GrantedIsInt, DIsNat DEF RankInv, RankOK
  <1>2. CASE UNCHANGED <<rank, todo, off, lost>> /\ (pc' = pc \/ pc' \notin {"shrink", "grow", "adjust", "wild"})
    BY <1>2 DEF RankInv, GrowInv
  <1>3. CASE WarmUp
    BY <1>3 DEF RankInv, GrowInv, WarmUp, ranking, Goto
  <1>4. CASE Sample
    BY <1>4 DEF RankInv, GrowInv, Sample, ranking
  <1>5. CASE Ratios
    <2>1. PICK f \in Bijection(Part, Part) : rank' = [j \in Part |-> Share(f[j])]
      BY <1>5 DEF Ratios
    <2>2. /\ RankOK(rank')
          /\ \A j \in Part : rank'[j].num >= 1 /\ f[j] \in Part
          /\ \A j \in Part : rank'[j].num >= (access[f[j]] * K) \div Average
          /\ \A p \in Part : \E j \in Part : f[j] = p
      BY <2>1, SharesAreRecords
    <2>3. Granted(rank') \in Int
      BY <2>2, GrantedIsInt DEF RankOK
    <2>4. PICK total \in Int : total = Granted(rank')
      BY <2>3
    <2>5. \/ total > D /\ pc' = "shrink" /\ todo' = total - D /\ off' = P - 1
          \/ total < D /\ pc' = "grow" /\ todo' = D - total /\ off' = 0
          \/ total = D /\ pc' = "adjust" /\ todo' = 4 /\ off' = P - 1
      BY <1>5, <2>4 DEF Ratios, Goto
    <2>6. RankInv'
      <3>1. todo' \in Nat /\ off' \in Part
        BY <1>1, <2>5, PartFinite
      <3> QED BY <1>1, <2>2, <2>4, <2>5, <3>1 DEF RankInv
    <2>7. GrowInv'
      <3>1. SUFFICES ASSUME total < D, lost = 0 PROVE \E j \in Part : j >= 0 /\ rank'[j].num > 1
        <4>1. lost' = lost /\ (pc' = "grow" => total < D /\ off' = 0)
          BY <1>5, <1>1, <2>5 DEF Ratios, sampling
        <4>2. pc' # "wild"
          BY <2>5
        <4> QED BY <3>1, <4>1, <4>2 DEF GrowInv
      <3>2. PICK p \in Part : access[p] >= Average
        <4>1. taken = Samples
          BY <1>5 DEF Ratios
        <4> QED BY <3>1, <4>1, SomeIsHot
      <3>3. PICK j \in Part : f[j] = p /\ rank'[j].num >= (access[p] * K) \div Average
        BY <2>2
      <3>4. K # 1
        <4> SUFFICES ASSUME K = 1 PROVE FALSE
          OBVIOUS
        <4>1. D = P
          BY PAssumption DEF D
        <4> DEFINE g == [x \in Part |-> 1]
        <4>2. \A x \in Part : g[x] \in Int /\ Nums(rank')[x] \in Int /\ g[x] <= Nums(rank')[x]
          BY <2>2, RankTypes DEF RankOK
        <4>3. \A x \in 0 .. P - 1 : g[x] = 1
          BY DEF Part
        <4> HIDE DEF g
        <4>4. SumOn(g, Part) <= Granted(rank')
          BY <4>2, SumGrows, PartFinite, GrantedSum
        <4>5. PICK c \in Int : c = 1
          OBVIOUS
        <4>6. SumOn(g, 0 .. P - 1) = c * P
          BY <4>3, <4>5, SumConstant, PartFinite
        <4>7. SumOn(g, Part) = P
          BY <4>5, <4>6, PartFinite DEF Part
        <4> QED BY <2>4, <3>1, <4>1, <4>4, <4>7, PartFinite
      <3>5. (access[p] * K) \div Average >= 2 /\ (access[p] * K) \div Average \in Int
        <4>1. PICK a, k, v \in Nat : a = access[p] /\ k = K /\ v = Average /\ v >= 1 /\ k >= 2 /\ a >= v
          BY <3>2, <3>4, KAssumption, SamplesAssumption, PAssumption DEF AccessInv, Average
        <4>2. a * k >= v * k /\ v * k >= v * 2
          BY <4>1
        <4>3. a * k >= 2 * v /\ a * k \in Nat
          BY <4>1, <4>2
        <4>4. (a * k) \div v >= 2 /\ (a * k) \div v \in Int
          BY <4>1, <4>3
        <4> QED BY <4>1, <4>4
      <3>6. rank'[j].num \in Nat
        BY <2>2, RankTypes DEF RankOK
      <3>7. rank'[j].num > 1 /\ j >= 0
        <4>1. PICK q \in Int : q = (access[p] * K) \div Average /\ q >= 2
          BY <3>5
        <4>2. rank'[j].num >= q
          BY <3>3, <4>1, Zenon
        <4>3. \A m \in Part : m >= 0
          BY PAssumption DEF Part
        <4> QED BY <3>6, <4>1, <4>2, <4>3
      <3> QED BY <3>7
    <2> QED BY <2>6, <2>7
  <1>6. CASE Shrink
    <2> DEFINE some == {j \in 0 .. off : rank[j].num # 1}
    <2>1. /\ pc = "shrink" /\ pc' = pc /\ todo > 0 /\ some # {} /\ off' = Max(some)
          /\ rank' = Less(off') /\ todo' = todo - 1
      BY <1>6 DEF Shrink
    <2>2. off \in Part /\ todo \in Nat /\ (\A j \in Part : rank[j].num >= 1) /\ Granted(rank) = D + todo
      BY <2>1 DEF RankInv
    <2>3. \A x \in some : x \in Int /\ x <= off /\ x \in Part /\ rank[x].num # 1
      BY <2>2, PartFinite DEF Part
    <2> HIDE DEF some
    <2>4. PICK i \in Part : i = off' /\ rank[i].num # 1
      <3>1. off \in Int
        BY <2>2, PartFinite
      <3>2. Max(some) \in some
        BY <2>1, <2>3, <3>1, Largest
      <3> QED BY <2>1, <2>3, <3>2
    <2>5. rank[i].num > 1
      <3>1. rank[i].num \in Nat /\ rank[i].num >= 1
        BY <2>2, RankTypes DEF RankInv, RankOK
      <3> QED BY <2>4, <3>1
    <2>6. /\ RankOK(rank') /\ Granted(rank') = Granted(rank) - 1
          /\ \A j \in Part : rank'[j].num >= 1
      BY <1>1, <2>1, <2>2, <2>4, <2>5, LessKeeps
    <2>7. todo' \in Nat /\ Granted(rank') = D + todo' /\ off' \in Part
      BY <1>1, <2>1, <2>2, <2>4, <2>6
    <2> QED BY <2>1, <2>6, <2>7 DEF RankInv, GrowInv
  <1>7. CASE Grow
    <2> DEFINE some == {j \in off .. P - 1 : rank[j].num # 1}
    <2>1. /\ pc = "grow" /\ todo > 0 /\ lost' = lost
          /\ \/ some = {} /\ pc' = "wild" /\ UNCHANGED <<rank, todo, off>>
             \/ some # {} /\ off' = Min(some) /\ rank' = More(rank, off') /\ todo' = todo - 1 /\ pc' = pc
      BY <1>7 DEF Grow, Goto, ranking, sampling
    <2>2. off \in Part /\ todo \in Nat /\ (\A j \in Part : rank[j].num >= 1) /\ Granted(rank) = D - todo
      BY <2>1 DEF RankInv
    <2>3. \A x \in some : x \in Nat /\ x \in Part /\ rank[x].num # 1
      BY <2>2, PartFinite DEF Part
    <2>4. CASE some = {}
      <3>1. pc' = "wild" /\ UNCHANGED <<rank, todo, off>>
        BY <2>1, <2>4
      <3>2. lost # 0
        <4> SUFFICES ASSUME lost = 0 PROVE FALSE
          OBVIOUS
        <4>1. PICK j \in Part : j >= off /\ rank[j].num > 1
          BY <2>1 DEF GrowInv
        <4>2. j \in off .. P - 1 /\ rank[j].num # 1
          BY <2>2, <4>1, PartFinite DEF Part
        <4> QED BY <2>4, <4>2
      <3>3. lost' > 0
        BY <2>1, <3>2 DEF AccessInv
      <3> QED BY <3>1, <3>3 DEF RankInv, GrowInv
    <2>5. CASE some # {}
      <3>1. /\ pc' = "grow" /\ off' = Min(some) /\ rank' = More(rank, off') /\ todo' = todo - 1
        BY <2>1, <2>5
      <3> HIDE DEF some
      <3>2. PICK i \in Part : i = off' /\ rank[i].num # 1
        BY <2>3, <2>5, <3>1, Smallest
      <3>3. rank[i].num > 1 /\ rank[i].num \in Nat
        <4>1. rank[i].num \in Nat /\ rank[i].num >= 1
          BY <2>2, RankTypes DEF RankInv, RankOK
        <4> QED BY <3>2, <4>1
      <3>4. /\ RankOK(rank') /\ Granted(rank') = Granted(rank) + 1
            /\ \A j \in Part : rank'[j].num >= 1
            /\ \E k \in Part : k >= i /\ rank'[k].num = rank[i].num + 1
        BY <1>1, <2>2, <3>1, <3>2, MoreKeeps
      <3>5. todo' \in Nat /\ Granted(rank') = D - todo' /\ off' \in Part
        BY <1>1, <2>1, <2>2, <3>1, <3>2, <3>4
      <3>6. \E k \in Part : k >= off' /\ rank'[k].num > 1
        <4>1. PICK k \in Part : k >= i /\ rank'[k].num = rank[i].num + 1
          BY <3>4
        <4> QED BY <3>2, <3>3, <4>1
      <3> QED BY <3>1, <3>4, <3>5, <3>6 DEF RankInv, GrowInv
    <2> QED BY <2>4, <2>5
  <1>8. CASE Balanced
    BY <1>8, <1>1, PartFinite DEF Balanced, Goto, RankInv, GrowInv
  <1>9. CASE Adjust
    <2>1. /\ pc = "adjust" /\ pc' = pc /\ todo > 0 /\ Gains(Giver) /\ off' = Giver
          /\ rank' = More(Less(Giver), 0) /\ todo' = todo - 1
      BY <1>9 DEF Adjust
    <2>2. off \in Part /\ todo \in Nat /\ (\A j \in Part : rank[j].num >= 1) /\ Granted(rank) = D
      BY <2>1 DEF RankInv
    <2>3. Giver \in Part
      BY <1>1, <2>2, GiverIn
    <2>4. PICK i \in Part : i = Giver /\ rank[i].num > 1
      BY <2>1, <2>3 DEF Gains
    <2>5. /\ RankOK(Less(i)) /\ Granted(Less(i)) = Granted(rank) - 1
          /\ \A j \in Part : Less(i)[j].num >= 1
      BY <1>1, <2>2, <2>4, LessKeeps
    <2>6. /\ RankOK(rank') /\ Granted(rank') = Granted(Less(i)) + 1
          /\ \A j \in Part : rank'[j].num >= 1
      BY <2>1, <2>4, <2>5, MoreKeeps, PartFinite
    <2>7. todo' \in Nat /\ Granted(rank') = D /\ off' \in Part
      BY <1>1, <2>1, <2>2, <2>4, <2>5, <2>6
    <2> QED BY <2>1, <2>6, <2>7 DEF RankInv, GrowInv
  <1>10. CASE Settle \/ GetStartDpuId \/ Push \/ Pushed
    BY <1>10 DEF RankInv, GrowInv, Settle, GetStartDpuId, Push, Pushed, Goto, ranking, sampling
  <1> QED BY <1>2, <1>3, <1>4, <1>5, <1>6, <1>7, <1>8, <1>9, <1>10 DEF Next, vars, ranking, sampling

LEMMA ReplicasStep == RankInv /\ ReplicasInv /\ [Next]_vars => ReplicasInv'
  <1> SUFFICES ASSUME RankInv, ReplicasInv, [Next]_vars PROVE ReplicasInv'
    OBVIOUS
  <1>1. CASE UNCHANGED replicas
    BY <1>1 DEF ReplicasInv
  <1>2. CASE Settle
    <2> DEFINE q == [p \in Part |-> CHOOSE j \in Part : Ids(rank)[j] = p]
               f == Nums(rank)
    <2>1. /\ rank \in [Part -> Record]
          /\ \A p \in Part : \E j \in Part : Ids(rank)[j] = p
      BY DEF RankInv, RankOK, Permutes
    <2>2. \A p \in Part : q[p] \in Part /\ Ids(rank)[q[p]] = p
      BY <2>1
    <2>3. \A a, b \in Part : q[a] = q[b] => a = b
      BY <2>2
    <2>4. {q[p] : p \in Part} = Part
      <3>1. \A j \in Part : Ids(rank)[j] \in Part
        BY <2>1, RankTypes
      <3>2. \A j \in Part : q[Ids(rank)[j]] = j
        BY <2>2, <3>1 DEF RankInv, RankOK, Permutes
      <3> HIDE DEF q
      <3> QED BY <2>2, <3>1, <3>2
    <2>5. ASSUME NEW p \in Part
          PROVE  (CHOOSE j \in Part : rank[j].id = p) = q[p]
      <3>1. \A o, j \in Part : rank[j].id = o <=> Ids(rank)[j] = o
        BY DEF Ids
      <3>2. (CHOOSE j \in Part : rank[j].id = p) = (CHOOSE j \in Part : Ids(rank)[j] = p)
        BY <3>1, Zenon
      <3>3. q[p] = (CHOOSE j \in Part : Ids(rank)[j] = p)
        OBVIOUS
      <3> HIDE DEF q
      <3> QED BY <3>2, <3>3, Zenon
    <2> HIDE DEF q
    <2>6. replicas' = [p \in Part |-> rank[q[p]].num]
      <3>1. replicas' = [p \in Part |-> rank[CHOOSE j \in Part : rank[j].id = p].num]
        BY <1>2 DEF Settle
      <3> DEFINE c(p) == CHOOSE j \in Part : rank[j].id = p
      <3>2. replicas' = [p \in Part |-> rank[c(p)].num] /\ \A p \in Part : c(p) = q[p]
        BY <2>5, <3>1, Zenon
      <3> HIDE DEF c
      <3> QED BY <3>2, Zenon
    <2>7. \A p \in Part : replicas'[p] = f[q[p]]
      <3> SUFFICES ASSUME NEW p \in Part PROVE replicas'[p] = Nums(rank)[q[p]]
        OBVIOUS
      <3>1. PICK j \in Part : j = q[p]
        BY <2>2
      <3>2. replicas'[p] = rank[j].num /\ Nums(rank)[j] = rank[j].num
        BY <2>6, <3>1, Zenon DEF Nums
      <3> QED BY <3>1, <3>2
    <2>8. \A j \in Part : f[j] \in Nat \ {0}
      <3>1. \A j \in Part : rank[j].num >= 1
        BY <1>2 DEF Settle, RankInv
      <3>2. \A j \in Part : f[j] = rank[j].num /\ rank[j].num \in Nat
        BY <2>1, RankTypes
      <3> HIDE DEF f
      <3>3. ASSUME NEW j \in Part PROVE f[j] \in Nat \ {0}
        <4>1. PICK v \in Nat : v = rank[j].num
          BY <3>2
        <4>2. f[j] = v /\ v >= 1
          BY <3>1, <3>2, <4>1
        <4> QED BY <4>2
      <3> QED BY <3>3
    <2>9. Granted(rank) = D
      BY <1>2 DEF Settle, RankInv
    <2>10. SumOn(f, Part) = D
      BY <2>9, GrantedSum
    <2> HIDE DEF f
    <2>11. replicas' = [p \in Part |-> replicas'[p]] /\ \A p \in Part : replicas'[p] \in Nat \ {0}
      BY <2>2, <2>6, <2>7, <2>8
    <2>12. replicas' \in [Part -> Nat \ {0}]
      BY <2>11, Zenon
    <2>13. SumOn(replicas', Part) = SumOn(f, {q[p] : p \in Part})
      BY <2>3, <2>7, <2>11, SumReorders, PartFinite
    <2> QED BY <2>4, <2>10, <2>12, <2>13 DEF ReplicasInv
  <1> QED BY <1>1, <1>2 DEF Next, vars, routing, WarmUp, Sample, Ratios, Shrink, Grow, Balanced, Adjust, GetStartDpuId, Push, Pushed

-----------------------------------------------------------------------------
(* The DPUs of a partition lie together.                                   *)

LEMMA BeforeSteps ==
  ASSUME ReplicasInv
  PROVE  /\ Before(0) = 0 /\ Before(P) = D
         /\ \A p \in Part : /\ Before(p) \in Int /\ replicas[p] \in Nat \ {0}
                            /\ Before(p + 1) = Before(p) + replicas[p]
         /\ \A p \in 0 .. P : Before(p) \in Int
  <1>1. replicas \in [Part -> Nat \ {0}] /\ SumOn(replicas, Part) = D
    BY DEF ReplicasInv
  <1>2. \A p \in 0 .. P : Before(p) = SumOn(replicas, 0 .. p - 1)
    BY Zenon DEF Before, SumOn
  <1>3. Before(0) = 0
    <2>1. 0 .. 0 - 1 = {} /\ 0 \in 0 .. P
      BY PartFinite
    <2> QED BY <1>2, <2>1, SumEmpty
  <1>4. Before(P) = D
    <2>1. P \in 0 .. P
      BY PartFinite
    <2> QED BY <1>1, <1>2, <2>1 DEF Part
  <1>5. ASSUME NEW p \in Part
        PROVE  Before(p) \in Int /\ Before(p + 1) = Before(p) + replicas[p]
    <2>1. p \in Nat /\ p \in 0 .. P /\ p + 1 \in 0 .. P /\ (p + 1) - 1 = p /\ P \in Nat /\ p < P
      BY PartFinite DEF Part
    <2>2. \A x \in 0 .. p : replicas[x] \in Int
      BY <1>1, <2>1 DEF Part
    <2>3. SumOn(replicas, 0 .. p - 1) \in Int /\ SumOn(replicas, 0 .. p) = SumOn(replicas, 0 .. p - 1) + replicas[p]
      BY <2>1, <2>2, SumSteps
    <2> QED BY <1>2, <2>1, <2>3
  <1>6. \A p \in Part : replicas[p] \in Nat \ {0}
    BY <1>1
  <1>7. \A p \in 0 .. P : Before(p) \in Int
    <2>1. \A p \in 0 .. P : p \in Part \/ p = P
      BY PartFinite DEF Part
    <2> QED BY <1>4, <1>5, <2>1, DIsNat
  <1> QED BY <1>3, <1>4, <1>5, <1>6, <1>7

LEMMA BeforeGrows ==
  ASSUME ReplicasInv, NEW p \in 0 .. P, NEW q \in 0 .. P, p <= q
  PROVE  Before(p) <= Before(q)
  <1> DEFINE Odd == {x \in 0 .. P : p <= x /\ ~(Before(p) <= Before(x))}
  <1>1. Odd = {}
    <2> SUFFICES ASSUME Odd # {} PROVE FALSE
      OBVIOUS
    <2>1. PICK x \in Odd : \A y \in Odd : x <= y
      <3>1. \A y \in Odd : y \in Nat
        OBVIOUS
      <3> HIDE DEF Odd
      <3> QED BY <3>1, LeastNumber
    <2>2. x \in 0 .. P /\ p <= x /\ ~(Before(p) <= Before(x)) /\ Before(p) \in Int /\ Before(x) \in Int
      BY BeforeSteps
    <2>3. x # p
      BY <2>2
    <2>4. x - 1 \in Part /\ x - 1 \in 0 .. P /\ p <= x - 1 /\ ~(x <= x - 1) /\ (x - 1) + 1 = x
      BY <2>2, <2>3, PartFinite DEF Part
    <2>5. Before(p) <= Before(x - 1)
      BY <2>1, <2>4
    <2>6. PICK w \in Part : w = x - 1
      BY <2>4
    <2>7. Before(w) \in Int /\ replicas[w] \in Nat \ {0} /\ Before(w + 1) = Before(w) + replicas[w]
      BY BeforeSteps
    <2> QED BY <2>2, <2>4, <2>5, <2>6, <2>7
  <1> QED BY <1>1

Owns(p, d) == p \in Part /\ Before(p) <= d /\ d < Before(p + 1)

LEMMA OwnerExists ==
  ASSUME ReplicasInv, NEW d \in Dpu
  PROVE  \E p \in Part : Owns(p, d)
  <1> DEFINE T == {q \in 0 .. P : d < Before(q)}
  <1>1. d \in Nat /\ d < D /\ P \in 0 .. P
    BY DIsNat, PartFinite DEF Dpu
  <1>2. P \in T
    BY <1>1, BeforeSteps
  <1>3. \A q \in T : q \in Nat
    OBVIOUS
  <1>4. PICK q \in T : \A x \in T : q <= x
    <2> HIDE DEF T
    <2> QED BY <1>2, <1>3, LeastNumber
  <1>5. q \in 0 .. P /\ d < Before(q) /\ q # 0
    BY <1>1, <1>4, BeforeSteps
  <1>6. PICK p \in Part : p = q - 1 /\ p + 1 = q /\ p \in 0 .. P /\ ~(q <= p)
    BY <1>5, PartFinite DEF Part
  <1>7. ~(d < Before(p)) /\ Before(p) \in Int
    BY <1>4, <1>6, BeforeSteps
  <1> QED BY <1>1, <1>5, <1>6, <1>7 DEF Owns

\* A DPU at or behind another has the same owner or a later one.
LEMMA OwnersAscend ==
  ASSUME ReplicasInv, NEW c \in Int, NEW d \in Int, c <= d, NEW p, NEW q, Owns(p, c), Owns(q, d)
  PROVE  p <= q
  <1> SUFFICES ASSUME ~(p <= q) PROVE FALSE
    OBVIOUS
  <1>1. p \in Part /\ q \in Part /\ p \in Nat /\ q \in Nat /\ P \in Nat
    BY PartFinite DEF Owns
  <1>2. p \in 0 .. P /\ q + 1 \in 0 .. P /\ q + 1 <= p
    BY <1>1 DEF Part
  <1>3. Before(q + 1) <= Before(p) /\ Before(p) \in Int /\ Before(q + 1) \in Int
    BY <1>2, BeforeGrows, BeforeSteps
  <1> QED BY <1>3 DEF Owns

LEMMA OwnerUnique ==
  ASSUME ReplicasInv, NEW d \in Int, NEW p, NEW q, Owns(p, d), Owns(q, d)
  PROVE  p = q
  <1>1. p <= q /\ q <= p /\ p \in Nat /\ q \in Nat
    BY OwnersAscend, PartFinite DEF Owns
  <1> QED BY <1>1

-----------------------------------------------------------------------------
(* The routing table and what is pushed.                                   *)

\* The table names the owner of each DPU.
RouteInv ==
  pc \in {"push", "serve"} =>
    /\ start = [p \in Part |-> Before(p)]
    /\ homes \in [Dpu -> Part]
    /\ \A d \in Dpu : Owns(homes[d], d)

\* The transfer of the kind has passed the DPU.
Passed(k, d) ==
  \/ pc = "serve"
  \/ k = kind /\ d < curDpu
  \/ k = "args" /\ kind # "args"
  \/ k = "keys" /\ kind = "model"

\* The cursor stands on the owner of the DPU pushed to last, and what has been
\* pushed is of the owner.
PushInv ==
  /\ kind \in Kind /\ held \in [Dpu -> [Kind -> 0 .. P]]
  /\ pc = "push" =>
       /\ curDpu \in 0 .. D /\ curRet \in Part
       /\ IF curDpu = 0 THEN curRet = 0 ELSE curRet = homes[curDpu - 1]
  /\ pc \in {"push", "serve"} =>
       \A d \in Dpu, k \in Kind : Passed(k, d) => held[d][k] = homes[d]

LEMMA RouteStep == ReplicasInv /\ RouteInv /\ [Next]_vars => RouteInv'
  <1> SUFFICES ASSUME ReplicasInv, RouteInv, [Next]_vars PROVE RouteInv'
    OBVIOUS
  <1>1. CASE UNCHANGED <<replicas, start, homes>> /\ (pc' = pc \/ pc' \notin {"push", "serve"} \/ pc = "push")
    <2>1. \A p : Before(p)' = Before(p)
      BY <1>1, Zenon DEF Before, FoldFunctionOnSet, MapThenFoldSet
    <2>2. \A p, d : Owns(p, d)' <=> Owns(p, d)
      BY <2>1, Zenon DEF Owns
    <2>3. pc' \in {"push", "serve"} => pc \in {"push", "serve"}
      BY <1>1
    <2>4. CASE pc' \in {"push", "serve"}
      <3>1. /\ start = [p \in Part |-> Before(p)]
            /\ homes \in [Dpu -> Part]
            /\ \A d \in Dpu : Owns(homes[d], d)
        BY <2>3, <2>4 DEF RouteInv
      <3>2. start' = [p \in Part |-> Before(p)']
        BY <1>1, <2>1, <3>1, Zenon
      <3>3. \A d \in Dpu : Owns(homes[d], d)'
        BY <1>1, <2>1, <3>1 DEF Owns
      <3> QED BY <1>1, <3>1, <3>2, <3>3 DEF RouteInv
    <2> QED BY <2>4 DEF RouteInv
  <1>2. CASE pc' \notin {"push", "serve"}
    BY <1>2 DEF RouteInv
  <1>3. CASE GetStartDpuId
    <2>1. /\ replicas' = replicas /\ start' = [p \in Part |-> Before(p)]
          /\ homes' = [d \in Dpu |->
               LET owners == {p \in Part : Before(p) <= d /\ d < Before(p + 1)}
               IN  IF owners = {} THEN homes[d] ELSE Max(owners)]
      BY <1>3 DEF GetStartDpuId
    <2>2. \A p : Before(p)' = Before(p)
      BY <2>1, Zenon DEF Before, FoldFunctionOnSet, MapThenFoldSet
    <2>3. ASSUME NEW d \in Dpu PROVE homes'[d] \in Part /\ Owns(homes'[d], d)
      <3> DEFINE owners == {p \in Part : Before(p) <= d /\ d < Before(p + 1)}
      <3>1. owners # {} /\ \A p \in owners : p \in Part /\ Owns(p, d)
        BY OwnerExists DEF Owns
      <3>2. homes'[d] = Max(owners)
        BY <2>1, <3>1
      <3>3. \A p \in owners : p \in Int /\ p <= P - 1
        BY <3>1, PartFinite DEF Part
      <3> HIDE DEF owners
      <3>4. Max(owners) \in owners
        BY <3>1, <3>3, Largest, PartFinite
      <3> QED BY <3>1, <3>2, <3>4
    <2>4. homes' \in [Dpu -> Part]
      <3>1. homes' = [d \in Dpu |-> homes'[d]]
        BY <2>1, Zenon
      <3> QED BY <2>3, <3>1
    <2>5. start' = [p \in Part |-> Before(p)']
      BY <2>1, <2>2, Zenon
    <2>6. \A d \in Dpu : Owns(homes[d], d)'
      BY <2>1, <2>2, <2>3 DEF Owns
    <2> QED BY <2>4, <2>5, <2>6 DEF RouteInv
  <1> QED
    <2>1. \/ UNCHANGED vars \/ WarmUp \/ Sample \/ Ratios \/ Shrink \/ Grow \/ Balanced \/ Adjust
          \/ Settle \/ GetStartDpuId \/ Push \/ Pushed
      BY DEF Next
    <2>2. CASE UNCHANGED vars \/ Push \/ Pushed
      BY <1>1, <2>2 DEF vars, routing, Push, Pushed
    <2>3. CASE WarmUp \/ Sample \/ Ratios \/ Shrink \/ Grow \/ Balanced \/ Adjust \/ Settle
      BY <1>2, <2>3 DEF WarmUp, Sample, Ratios, Shrink, Grow, Balanced, Adjust, Settle, Goto
    <2> QED BY <1>3, <2>1, <2>2, <2>3

LEMMA PushStep ==
  ReplicasInv /\ RouteInv /\ PushInv /\ [Next]_vars => PushInv'
  <1> SUFFICES ASSUME ReplicasInv, RouteInv, PushInv, [Next]_vars PROVE PushInv'
    OBVIOUS
  <1>1. CASE UNCHANGED <<kind, held, curDpu, curRet, homes, pc>>
    BY <1>1 DEF PushInv, Passed
  <1>2. CASE UNCHANGED <<kind, held>> /\ pc' \notin {"push", "serve"}
    BY <1>2 DEF PushInv
  <1>3. CASE GetStartDpuId
    <2>1. pc' = "push" /\ kind' = "args" /\ curDpu' = 0 /\ curRet' = 0 /\ held' = held
      BY <1>3 DEF GetStartDpuId, Goto
    <2>2. \A d \in Dpu, k \in Kind : ~Passed(k, d)'
      BY <2>1, DIsNat DEF Passed, Dpu
    <2> QED BY <2>1, <2>2, DIsNat, PartFinite DEF PushInv, Kind
  <1>4. CASE Push
    <2>1. /\ pc = "push" /\ pc' = pc /\ curDpu < D /\ NextPartition # {} /\ curRet' = Min(NextPartition)
          /\ held' = [held EXCEPT ![curDpu][kind] = curRet'] /\ curDpu' = curDpu + 1
          /\ kind' = kind /\ homes' = homes
      BY <1>4 DEF Push, routing
    <2>2. /\ curDpu \in 0 .. D /\ curRet \in Part
          /\ IF curDpu = 0 THEN curRet = 0 ELSE curRet = homes[curDpu - 1]
          /\ kind \in Kind /\ held \in [Dpu -> [Kind -> 0 .. P]]
          /\ \A d \in Dpu, k \in Kind : Passed(k, d) => held[d][k] = homes[d]
      BY <2>1 DEF PushInv
    <2>3. curDpu \in Dpu /\ curDpu \in Nat
      BY <2>1, <2>2, DIsNat DEF Dpu
    <2>4. homes \in [Dpu -> Part] /\ \A d \in Dpu : Owns(homes[d], d)
      BY <2>1 DEF RouteInv
    <2>5. PICK h \in Part : h = homes[curDpu] /\ Owns(h, curDpu)
      BY <2>3, <2>4
    <2>6. curRet <= h
      <3>1. CASE curDpu = 0
        BY <2>2, <3>1, PartFinite
      <3>2. CASE curDpu # 0
        <4>1. curDpu - 1 \in Dpu /\ curDpu - 1 \in Int /\ curDpu - 1 <= curDpu
          BY <2>3, <3>2, DIsNat DEF Dpu
        <4>2. Owns(curRet, curDpu - 1)
          BY <2>2, <2>4, <3>2, <4>1
        <4> QED BY <2>3, <2>5, <4>1, <4>2, OwnersAscend
      <3> QED BY <3>1, <3>2
    <2>7. h \in NextPartition
      BY <2>2, <2>5, <2>6, PartFinite DEF NextPartition, Owns, Part
    <2>8. \A p \in NextPartition : p \in Nat /\ p >= h
      <3> SUFFICES ASSUME NEW p \in NextPartition, ~(p \in Nat /\ p >= h) PROVE FALSE
        OBVIOUS
      <3>1. p \in Part /\ p \in Nat /\ curDpu < Before(p + 1)
        BY <2>2, PartFinite DEF NextPartition, Part
      <3>2. h \in Nat /\ P \in Nat /\ h < P
        BY PartFinite DEF Part
      <3>3. p + 1 \in 0 .. P /\ h \in 0 .. P /\ p + 1 <= h
        BY <3>1, <3>2 DEF Part
      <3>4. Before(p + 1) <= Before(h) /\ Before(h) <= curDpu
        BY <2>5, <3>3, BeforeGrows DEF Owns
      <3>5. Before(p + 1) \in Int /\ Before(h) \in Int
        BY <3>3, BeforeSteps
      <3> QED BY <2>3, <3>1, <3>4, <3>5
    <2>9. Min(NextPartition) \in NextPartition /\ Min(NextPartition) <= h
      BY <2>7, <2>8, Smallest
    <2>10. curRet' = h
      BY <2>1, <2>8, <2>9, PartFinite
    <2>11. h \in 0 .. P
      BY PartFinite DEF Part
    <2>12. held' \in [Dpu -> [Kind -> 0 .. P]]
      BY <2>1, <2>2, <2>3, <2>10, <2>11
    <2>13. ASSUME NEW d \in Dpu, NEW k \in Kind, Passed(k, d)'
           PROVE  held'[d][k] = homes'[d]
      <3>1. CASE d = curDpu /\ k = kind
        BY <2>1, <2>2, <2>3, <2>5, <2>10, <3>1
      <3>2. CASE ~(d = curDpu /\ k = kind)
        <4>1. held'[d][k] = held[d][k]
          BY <2>1, <2>2, <2>3, <3>2
        <4>2. d \in Nat
          BY DIsNat DEF Dpu
        <4>3. Passed(k, d)
          BY <2>1, <2>3, <2>13, <3>2, <4>2 DEF Passed
        <4> QED BY <2>1, <2>2, <4>1, <4>3
      <3> QED BY <3>1, <3>2
    <2>14. /\ curDpu' \in 0 .. D /\ curRet' \in Part
           /\ curDpu' # 0 /\ curRet' = homes'[curDpu' - 1]
      BY <2>1, <2>2, <2>3, <2>5, <2>10, DIsNat
    <2> QED BY <2>1, <2>2, <2>12, <2>13, <2>14 DEF PushInv
  <1>5. CASE Pushed
    <2>1. /\ pc = "push" /\ curDpu = D /\ kind' = Following[kind] /\ curDpu' = 0 /\ curRet' = 0
          /\ pc' = IF kind = "model" THEN "serve" ELSE "push"
          /\ held' = held /\ homes' = homes
      BY <1>5 DEF Pushed, Goto, routing
    <2>2. /\ kind \in Kind /\ held \in [Dpu -> [Kind -> 0 .. P]]
          /\ \A d \in Dpu, k \in Kind : Passed(k, d) => held[d][k] = homes[d]
      BY <2>1 DEF PushInv
    <2>3. kind' \in Kind
      BY <2>1, <2>2 DEF Following, Kind
    <2>4. ASSUME NEW d \in Dpu, NEW k \in Kind, Passed(k, d)'
          PROVE  held'[d][k] = homes'[d]
      <3>1. d \in Nat /\ d < D
        BY DIsNat DEF Dpu
      <3>2. Passed(k, d)
        BY <2>1, <2>2, <2>4, <3>1 DEF Passed, Following, Kind
      <3> QED BY <2>1, <2>2, <3>2
    <2> QED BY <2>1, <2>2, <2>3, <2>4, DIsNat, PartFinite DEF PushInv
  <1> QED
    <2>1. \/ UNCHANGED vars \/ WarmUp \/ Sample \/ Ratios \/ Shrink \/ Grow \/ Balanced \/ Adjust
          \/ Settle \/ GetStartDpuId \/ Push \/ Pushed
      BY DEF Next
    <2>2. CASE UNCHANGED vars
      BY <1>1, <2>2 DEF vars, pushing, routing
    <2>3. CASE WarmUp \/ Ratios \/ Balanced \/ Settle
      BY <1>2, <2>3 DEF WarmUp, Ratios, Balanced, Settle, Goto, pushing
    <2>4. CASE Sample \/ Shrink \/ Grow \/ Adjust
      <3>1. UNCHANGED <<kind, held>>
        BY <2>4 DEF Sample, Shrink, Grow, Adjust, pushing
      <3>2. pc' \notin {"push", "serve"}
        BY <2>4 DEF Sample, Shrink, Grow, Adjust, Goto
      <3> QED BY <1>2, <3>1, <3>2
    <2> QED BY <1>3, <1>4, <1>5, <2>1, <2>2, <2>3, <2>4

ReplicaInv ==
  AccessInv /\ RankInv /\ ReplicasInv /\ GrowInv /\ RouteInv /\ PushInv

\* The invariant behind the theorems: the counts of the warm-up, the records,
\* the replicas, the routing table and the transfers agree with each other.
THEOREM SharesAndTables == Spec => []ReplicaInv
  <1>1. Init => ReplicaInv
    <2> SUFFICES ASSUME Init PROVE ReplicaInv
      OBVIOUS
    <2>1. RouteInv
      BY DEF Init, RouteInv
    <2>2. PushInv
      <3>1. held \in [Dpu -> [Kind -> 0 .. P]]
        BY PartFinite DEF Init
      <3> QED BY <3>1 DEF Init, PushInv, Kind
    <2> QED BY <2>1, <2>2, InitShares DEF ReplicaInv
  <1>2. ReplicaInv /\ [Next]_vars => ReplicaInv'
    BY AccessStep, RankStep, ReplicasStep, RouteStep, PushStep DEF ReplicaInv
  <1> QED BY <1>1, <1>2, PTL DEF Spec

\* The shares add up to the DPUs there are and no partition is without one,
\* after any number of warm-ups: rd % replicas never divides by zero.
THEOREM EveryDpuIsShared == Spec => []DpusShared
  <1>1. ReplicaInv => DpusShared
    <2> SUFFICES ASSUME ReplicaInv PROVE DpusShared
      OBVIOUS
    <2>1. replicas \in [Part -> Nat \ {0}] /\ SumOn(replicas, Part) = D
      BY DEF ReplicaInv, ReplicasInv
    <2>2. DOMAIN replicas = Part
      BY <2>1
    <2>3. Total(replicas) = SumOn(replicas, Part)
      BY <2>2, Zenon DEF Total, SumOn, FoldFunction
    <2> QED BY <2>1, <2>3 DEF DpusShared
  <1> QED BY <1>1, SharesAndTables, PTL

\* While queries are served, the DPU the host chooses for a key holds
\* arguments, keys and model of the partition the key lies in, whichever of the
\* replicas the random number picks.
THEOREM QueriesGoHome == Spec => []RoutedHome
  <1>1. ReplicaInv => RoutedHome
    <2> SUFFICES ASSUME ReplicaInv, pc = "serve", NEW key \in Key \ {0}, NEW rd \in 0 .. D
                 PROVE  LET p == Bisect(key)
                            d == start[p] + (rd % replicas[p])
                        IN  /\ d \in Dpu
                            /\ homes[d] = Home(key)
                            /\ \A k \in Kind : held[d][k] = Home(key)
      BY DEF RoutedHome
    <2>1. PICK p \in Part : p = Bisect(key) /\ p = Home(key)
      BY BisectIs
    <2>2. /\ start[p] = Before(p) /\ homes \in [Dpu -> Part]
          /\ \A x \in Dpu : Owns(homes[x], x)
          /\ \A x \in Dpu, k \in Kind : held[x][k] = homes[x]
      BY DEF ReplicaInv, RouteInv, PushInv, Passed
    <2>3. ReplicasInv
      BY DEF ReplicaInv
    <2>4. /\ Before(p) \in Int /\ replicas[p] \in Nat \ {0} /\ Before(p + 1) = Before(p) + replicas[p]
          /\ Before(0) = 0 /\ Before(P) = D
      BY <2>3, BeforeSteps
    <2>5. 0 <= Before(p) /\ Before(p + 1) <= D
      <3>1. 0 \in 0 .. P /\ p \in 0 .. P /\ p + 1 \in 0 .. P /\ P \in 0 .. P /\ 0 <= p /\ p + 1 <= P
        BY PartFinite DEF Part
      <3>2. Before(0) <= Before(p) /\ Before(p + 1) <= Before(P)
        BY <2>3, <3>1, BeforeGrows
      <3> QED BY <2>4, <3>2
    <2>6. PICK r \in Nat : r = rd % replicas[p] /\ r < replicas[p]
      <3>1. PICK v \in Nat \ {0} : v = replicas[p]
        BY <2>4
      <3>2. rd \in Int /\ rd % v \in 0 .. v - 1
        BY <3>1, DIsNat
      <3> QED BY <3>1, <3>2
    <2>7. PICK d \in Int : d = start[p] + (rd % replicas[p]) /\ d = Before(p) + r
      BY <2>2, <2>4, <2>6
    <2>8. d \in Dpu /\ Owns(p, d)
      BY <2>4, <2>5, <2>6, <2>7, DIsNat DEF Dpu, Owns
    <2>9. homes[d] = p
      BY <2>2, <2>3, <2>8, OwnerUnique
    <2> QED BY <2>1, <2>2, <2>7, <2>8, <2>9
  <1> QED BY <1>1, SharesAndTables, PTL

\* As long as no warm-up query lies below the first key, the search for a
\* partition that can be given one more DPU ends inside the array.
THEOREM TheSearchStaysInside == Spec => []WildOnlyIfLost
  <1>1. ReplicaInv => WildOnlyIfLost
    BY DEF ReplicaInv, GrowInv, WildOnlyIfLost
  <1> QED BY <1>1, SharesAndTables, PTL

\* The records of a list in which one has been changed.
LEMMA RecordsChange ==
  ASSUME NEW r, NEW t, RankOK(r), t \in [Part -> Record], NEW i \in Part,
         \A j \in Part \ {i} : t[j] = r[j]
  PROVE  Records(t) = (Records(r) \ {r[i]}) \cup {t[i]}
  <1>1. \A x, y \in Part : Ids(r)[x] = Ids(r)[y] => x = y
    BY DEF RankOK, Permutes
  <1>2. \A x \in Part : Ids(r)[x] = r[x].id
    BY DEF Ids
  <1>3. \A x \in Part \ {i} : r[x] # r[i]
    BY <1>1, <1>2
  <1> QED BY <1>3 DEF Records

LEMMA RecordsMove ==
  ASSUME NEW r, RankOK(r), NEW i \in Part, NEW k \in Part
  PROVE  Records(Move(r, i, k)) = Records(r)
  <1>1. /\ \A j \in Part : \E m \in Part : Move(r, i, k)[j] = r[m]
        /\ \A m \in Part : \E j \in Part : Move(r, i, k)[j] = r[m]
    BY MoveKeeps, ZenonT(60)
  <1> QED BY <1>1 DEF Records

\* The first record of s has one DPU more in t.
GivenFirst(s, t) ==
  /\ RankOK(t)
  /\ t[0].num = s[0].num + 1 /\ t[0].id = s[0].id /\ t[0].acc = s[0].acc
  /\ \A j \in Part \ {0} : t[j] = s[j]
  /\ Records(More(s, 0)) = Records(t)

LEMMA MoreAtFirst ==
  ASSUME NEW s, RankOK(s)
  PROVE  \E t : GivenFirst(s, t)
  <1>1. 0 \in Part
    BY SMTT(60), PartFinite
  <1>2. \E l, t :
           /\ l \in Part
           /\ RankOK(t)
           /\ t[0].num = s[0].num + 1 /\ t[0].id = s[0].id /\ t[0].acc = s[0].acc
           /\ \A j \in Part \ {0} : t[j] = s[j]
           /\ l >= 0
           /\ More(s, 0) = Move(t, 0, l) /\ More(s, 0)[l] = t[0]
           /\ RankOK(More(s, 0)) /\ Granted(More(s, 0)) = Granted(s) + 1
           /\ \A j \in Part : \E m \in Part : More(s, 0)[j] = t[m]
    BY <1>1, MoreIs, ZenonT(60)
  <1>3. PICK l, t :
           /\ l \in Part
           /\ RankOK(t)
           /\ t[0].num = s[0].num + 1 /\ t[0].id = s[0].id /\ t[0].acc = s[0].acc
           /\ \A j \in Part \ {0} : t[j] = s[j]
           /\ More(s, 0) = Move(t, 0, l)
    BY <1>2
  <1>4. Records(More(s, 0)) = Records(t)
    BY <1>1, <1>3, RecordsMove
  <1>5. GivenFirst(s, t)
    BY <1>3, <1>4 DEF GivenFirst
  <1> QED BY <1>5

\* Every move in the last loop takes a DPU from one partition and gives it to
\* another, the one at index 0, and leaves both colder than the receiver was,
\* however the moves before have left the order of the list.
THEOREM MovesHelp == Spec => AdjustHelps
  <1>1. ReplicaInv /\ [Next]_vars =>
          [pc = "adjust" /\ todo' < todo =>
             \E giver, receiver \in Records(rank) :
               LET less == [giver EXCEPT !.num = @ - 1]
                   more == [receiver EXCEPT !.num = @ + 1]
               IN  /\ Records(rank') = (Records(rank) \ {giver, receiver}) \cup {less, more}
                   /\ Hotter(receiver, less) /\ Hotter(receiver, more)]_vars
    <2> SUFFICES ASSUME ReplicaInv, [Next]_vars, pc = "adjust", todo' < todo
                 PROVE  \E giver, receiver \in Records(rank) :
                          LET less == [giver EXCEPT !.num = @ - 1]
                              more == [receiver EXCEPT !.num = @ + 1]
                          IN  /\ Records(rank') = (Records(rank) \ {giver, receiver}) \cup {less, more}
                              /\ Hotter(receiver, less) /\ Hotter(receiver, more)
      OBVIOUS
    <2>1. /\ RankOK(rank) /\ todo \in Nat /\ off \in Part /\ (\A j \in Part : rank[j].num >= 1)
          /\ 0 \in Part
      BY PartFinite DEF ReplicaInv, RankInv
    <2>2. rank' = More(Less(Giver), 0) /\ Gains(Giver)
      <3>1. todo' # todo
        BY <2>1
      <3> QED BY <3>1 DEF Next, vars, ranking, WarmUp, Sample, Ratios, Shrink, Grow, Balanced, Adjust,
                         Settle, GetStartDpuId, Push, Pushed
    <2>3. PICK g \in Part : g = Giver /\ Gains(g) /\ rank' = More(Less(g), 0)
      BY <2>1, <2>2, GiverIn
    <2>4. rank[g].num > 1 /\ rank[g].acc * rank[0].num < rank[0].acc * (rank[g].num - 1)
      BY <2>3 DEF Gains
    <2>5. PICK a0, n0, ag, ng \in Nat : /\ a0 = rank[0].acc /\ n0 = rank[0].num
                                        /\ ag = rank[g].acc /\ ng = rank[g].num
      BY <2>1, RankTypes DEF RankOK
    <2>6. ng > 1 /\ ag * n0 < a0 * (ng - 1)
      BY <2>4, <2>5
    <2>7. g # 0
      <3> SUFFICES ASSUME g = 0 PROVE FALSE
        OBVIOUS
      <3>1. a0 * n0 < a0 * (n0 - 1)
        BY <2>5, <2>6
      <3>2. a0 * (n0 - 1) = a0 * n0 - a0
        OBVIOUS
      <3> QED BY <3>1, <3>2
    <2>8. PICK k, r :
             /\ k \in Part
             /\ RankOK(r) /\ Granted(r) = Granted(rank) - 1
             /\ r[g].num = rank[g].num - 1 /\ r[g].id = rank[g].id /\ r[g].acc = rank[g].acc
             /\ \A j \in Part \ {g} : r[j] = rank[j]
             /\ k <= g /\ (k # g => Hotter(r[g], r[k]))
             /\ Less(g) = Move(r, g, k)
             /\ RankOK(Less(g)) /\ Granted(Less(g)) = Granted(rank) - 1
             /\ \A j \in Part : \E m \in Part : Less(g)[j] = r[m]
      BY <2>1, <2>4, LessIs, Zenon
    <2>9. r[0] = rank[0]
      BY <2>1, <2>7, <2>8
    <2>10. Hotter(rank[0], r[g]) /\ ~Hotter(r[g], rank[0])
      <3>1. r[g].acc = ag /\ r[g].num = ng - 1
        BY <2>5, <2>8, Zenon
      <3>2. /\ Hotter(rank[0], r[g]) <=> a0 * (ng - 1) > ag * n0
            /\ Hotter(r[g], rank[0]) <=> ag * n0 > a0 * (ng - 1)
        BY <2>5, <3>1 DEF Hotter
      <3> QED BY <2>6, <3>2
    <2>11. k # 0
      BY <2>7, <2>8, <2>9, <2>10
    <2>12. Less(g)[0] = rank[0]
      <3>1. Move(r, g, k)[0] = r[0]
        <4>1. k \in Part /\ k # 0
          BY <2>8, <2>11, Zenon
        <4> QED BY <2>1, <2>7, <4>1, PartFinite DEF Move, Part
      <3> QED BY <2>8, <2>9, <3>1
    <2>13. PICK s : s = Less(g) /\ RankOK(s) /\ s[0] = rank[0]
      BY <2>8, <2>12
    <2>14. PICK t : GivenFirst(s, t)
      BY <2>13, MoreAtFirst
    <2>15. /\ RankOK(t)
           /\ t[0].num = rank[0].num + 1 /\ t[0].id = rank[0].id /\ t[0].acc = rank[0].acc
           /\ \A j \in Part \ {0} : t[j] = s[j]
           /\ Records(rank') = Records(t)
      BY <2>3, <2>13, <2>14, Zenon DEF GivenFirst
    <2>16. Records(rank') = (Records(s) \ {rank[0]}) \cup {t[0]}
      <3>1. t \in [Part -> Record]
        BY <2>15 DEF RankOK
      <3> QED BY <2>1, <2>13, <2>15, <3>1, RecordsChange
    <2>17. Records(s) = (Records(rank) \ {rank[g]}) \cup {r[g]}
      <3>1. Records(s) = Records(r)
        BY <2>8, <2>13, RecordsMove
      <3>2. r \in [Part -> Record]
        BY <2>8 DEF RankOK
      <3> QED BY <2>1, <2>8, <3>1, <3>2, RecordsChange
    <2>18. r[g] # rank[0]
      <3>1. ~Hotter(rank[0], rank[0])
        BY <2>5 DEF Hotter
      <3> QED BY <2>10, <3>1
    <2>19. Records(rank') = (Records(rank) \ {rank[g], rank[0]}) \cup {r[g], t[0]}
      BY <2>16, <2>17, <2>18
    <2>20. /\ rank[g] \in Record /\ rank[0] \in Record
           /\ r[g] \in Record /\ t[0] \in Record
           /\ rank[g] \in Records(rank) /\ rank[0] \in Records(rank)
      BY <2>1, <2>8, <2>15 DEF RankOK, Records
    <2>21. r[g] = [rank[g] EXCEPT !.num = @ - 1] /\ t[0] = [rank[0] EXCEPT !.num = @ + 1]
      BY <2>8, <2>15, <2>20 DEF Record
    <2>22. Hotter(rank[0], t[0])
      <3>1. t[0].acc = a0 /\ t[0].num = n0 + 1
        BY <2>5, <2>15
      <3>2. Hotter(rank[0], t[0]) <=> a0 * (n0 + 1) > a0 * n0
        BY <2>5, <3>1 DEF Hotter
      <3>3. a0 * (n0 + 1) = a0 * n0 + a0
        OBVIOUS
      <3>4. a0 > 0
        BY <2>5, <2>6
      <3> QED BY <3>2, <3>3, <3>4
    <2>23. PICK giver \in Records(rank), receiver \in Records(rank) : giver = rank[g] /\ receiver = rank[0]
      BY <2>20
    <2>24. PICK less, more : /\ less = [giver EXCEPT !.num = @ - 1]
                             /\ more = [receiver EXCEPT !.num = @ + 1]
      OBVIOUS
    <2>25. less = r[g] /\ more = t[0]
      BY <2>21, <2>23, <2>24
    <2>26. /\ Records(rank') = (Records(rank) \ {giver, receiver}) \cup {less, more}
           /\ Hotter(receiver, less) /\ Hotter(receiver, more)
      BY <2>10, <2>19, <2>22, <2>23, <2>25
    <2> QED BY <2>24, <2>26
  <1> QED BY <1>1, SharesAndTables, PTL DEF Spec, AdjustHelps

=============================================================================
