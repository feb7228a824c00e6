-------------------------- MODULE PageMergeProofs ---------------------------
(***************************************************************************)
(* For any number of merge threads, any ratio, any array and any keys in   *)
(* its pages: the threads together do what MergeResult does in one step,   *)
(* write no slot twice, run out of inputs only where a key of a page is in *)
(* the array, and sample the partial keys from the keys at the multiples   *)
(* of the ratio.                                                           *)
(*                                                                         *)
(* The argument: the slices of the threads, of pages, of old keys and of   *)
(* slots, join and do not overlap, and a slice of slots has one for every  *)
(* key of the other two, as the sums over the pages add up.  Within a      *)
(* slice, and while no key is in both inputs, the slots filled hold in     *)
(* order just the keys before the next two, of which there are as many as  *)
(* iterations.  The keys of different slices are in the order of the       *)
(* threads, because a page lies between two keys of the array.             *)
(*                                                                         *)
(* Sums are folds over finite sets; what they yield is shown by taking a   *)
(* smallest set on which the claim fails.                                  *)
(***************************************************************************)
EXTENDS PageMerge, FiniteSetTheorems, WellFoundedInduction, TLAPS

USE DEF dindex, layout, Goto

LEMMA LeastNumber ==
  ASSUME NEW T, T # {}, \A x \in T : x \in Nat
  PROVE  \E m \in T : \A i \in T : m <= i
  <1> DEFINE R == OpToRel(<, Nat)
  <1>1. IsWellFoundedOn(R, Nat)
    BY NatLessThanWellFounded
  <1>2. \A x, y \in Nat : <<x, y>> \in R <=> x < y
    BY DEF R, OpToRel
  <1> HIDE DEF R
  <1>3. PICK x \in T : \A y \in T : ~(<<y, x>> \in R)
    BY <1>1, WFMin
  <1>4. \A y \in T : ~(y < x)
    BY <1>2, <1>3
  <1> QED BY <1>4

LEMMA Product ==
  ASSUME NEW a \in Nat, NEW b \in Nat, NEW q \in Nat, a <= b
  PROVE  q * a \in Nat /\ q * a <= q * b
  OBVIOUS

LEMMA Smallest ==
  ASSUME NEW T, T # {}, \A x \in T : x \in Nat
  PROVE  Min(T) \in T /\ \A x \in T : Min(T) <= x
  BY LeastNumber DEF Min

LEMMA SmallestSet ==
  ASSUME NEW S, IsFiniteSet(S), NEW B, B \subseteq SUBSET S, B # {}
  PROVE  \E T \in B : \A U \in B : U \subseteq T => U = T
  <1>1. IsWellFoundedOn(StrictSubsetOrdering(S), SUBSET S)
    BY FS_StrictSubsetOrderingWellFounded, FS_FiniteSubsetsOfFinite
  <1>2. PICK T \in B : \A U \in B : ~(<<U, T>> \in StrictSubsetOrdering(S))
    <2> HIDE DEF StrictSubsetOrdering
    <2> QED BY <1>1, WFMin
  <1> QED BY <1>2 DEF StrictSubsetOrdering

-----------------------------------------------------------------------------
(* Sums over finite sets.                                                  *)

Chosen(s) == CHOOSE x \in s : TRUE

Adds(g, f, s) == IF s = {} THEN 0 ELSE f[Chosen(s)] + g[s \ {Chosen(s)}]

LEMMA ChosenIn == \A s : s # {} => Chosen(s) \in s
  BY DEF Chosen

LEMMA SumRecursion ==
  ASSUME NEW f, NEW S, IsFiniteSet(S)
  PROVE  \E g : g = [s \in SUBSET S |-> Adds(g, f, s)] /\ SumOver(f, S) = g[S]
  <1> DEFINE size == Cardinality(S)
             Small(m) == {s \in SUBSET S : Cardinality(s) <= m}
             Stops == {m \in 0 .. size : ~\E g : g = [s \in Small(m) |-> Adds(g, f, s)]}
  <1>1. size \in Nat /\ \A s \in SUBSET S : IsFiniteSet(s) /\ Cardinality(s) \in Nat /\ Cardinality(s) <= size
    BY FS_CardinalityType, FS_Subset
  <1>2. \A s \in SUBSET S : s # {} => /\ s \ {Chosen(s)} \in SUBSET S
                                      /\ Cardinality(s \ {Chosen(s)}) = Cardinality(s) - 1
    BY <1>1, ChosenIn, FS_RemoveElement
  <1> HIDE DEF size
  <1>3. Stops = {}
    <2> SUFFICES ASSUME Stops # {} PROVE FALSE
      OBVIOUS
    <2>1. PICK m \in Stops : \A i \in Stops : m <= i
      <3>1. \A i \in Stops : i \in Nat
        <4>1. Stops \subseteq 0 .. size
          OBVIOUS
        <4> HIDE DEF Stops
        <4> QED BY <1>1, <4>1
      <3> HIDE DEF Stops
      <3> QED BY <3>1, LeastNumber
    <2>2. m \in 0 .. size /\ m \in Nat /\ ~\E g : g = [s \in Small(m) |-> Adds(g, f, s)]
      <3>1. m \in 0 .. size /\ ~\E g : g = [s \in Small(m) |-> Adds(g, f, s)]
        <4> HIDE DEF Small
        <4> QED OBVIOUS
      <3>2. m \in Nat
        BY <1>1, <3>1
      <3> HIDE DEF Small
      <3> QED BY <3>1, <3>2
    <2>3. m # 0
      <3> SUFFICES ASSUME m = 0 PROVE FALSE
        OBVIOUS
      <3> DEFINE g == [s \in Small(0) |-> 0]
      <3>1. \A s \in Small(0) : s = {}
        BY <1>1, FS_EmptySet
      <3>2. \A s \in Small(0) : g[s] = Adds(g, f, s)
        BY <3>1 DEF Adds
      <3>3. g = [s \in Small(0) |-> Adds(g, f, s)]
        BY <3>2
      <3> HIDE DEF g, Small
      <3> QED BY <2>2, <3>3
    <2>4. PICK g : g = [s \in Small(m - 1) |-> Adds(g, f, s)]
      <3>1. m - 1 \in 0 .. size /\ ~(m <= m - 1)
        BY <1>1, <2>2, <2>3
      <3> HIDE DEF Small
      <3> QED BY <2>1, <3>1
    <2> DEFINE h == [s \in Small(m) |-> IF s \in Small(m - 1) THEN g[s] ELSE Adds(g, f, s)]
    <2>5. ASSUME NEW s \in Small(m) PROVE h[s] = Adds(h, f, s)
      <3>1. h[s] = Adds(g, f, s)
        <4>1. s \in Small(m - 1) => g[s] = Adds(g, f, s)
          <5> HIDE DEF Small
          <5> QED BY <2>4
        <4> HIDE DEF Small
        <4> QED BY <4>1
      <3>2. s # {} => /\ s \ {Chosen(s)} \in Small(m - 1) /\ s \ {Chosen(s)} \in Small(m)
        BY <1>1, <1>2, <2>2
      <3>3. s # {} => h[s \ {Chosen(s)}] = g[s \ {Chosen(s)}]
        <4> HIDE DEF Small
        <4> QED BY <3>2
      <3> HIDE DEF h, Small
      <3> QED BY <3>1, <3>3 DEF Adds
    <2>6. h = [s \in Small(m) |-> Adds(h, f, s)]
      <3> HIDE DEF Small
      <3> QED BY <2>5
    <2> HIDE DEF h, Small
    <2> QED BY <2>2, <2>6
  <1>4. Small(size) = SUBSET S
    BY <1>1
  <1>5. PICK g : g = [s \in SUBSET S |-> Adds(g, f, s)]
    <2>1. size \in 0 .. size
      BY <1>1
    <2>2. ~(size \in Stops)
      <3> HIDE DEF Stops
      <3> QED BY <1>3
    <2>3. \E g : g = [s \in Small(size) |-> Adds(g, f, s)]
      <3> HIDE DEF Small
      <3> QED BY <2>1, <2>2
    <2> HIDE DEF Small
    <2> QED BY <1>4, <2>3
  <1> DEFINE sum == CHOOSE h : h = [s \in SUBSET S |-> Adds(h, f, s)]
  <1>6. sum = [s \in SUBSET S |-> Adds(sum, f, s)]
    BY <1>5
  <1>7. SumOver(f, S) = sum[S]
    BY Zenon DEF SumOver, FoldFunctionOnSet, MapThenFoldSet, Adds, Chosen
  <1> HIDE DEF sum
  <1> QED BY <1>6, <1>7

LEMMA SumUnfolds ==
  ASSUME NEW f, NEW S, IsFiniteSet(S)
  PROVE  SumOver(f, S) = IF S = {} THEN 0 ELSE f[Chosen(S)] + SumOver(f, S \ {Chosen(S)})
  <1>1. PICK g : g = [s \in SUBSET S |-> Adds(g, f, s)] /\ SumOver(f, S) = g[S]
    BY SumRecursion
  <1>2. \A s \in SUBSET S : g[s] = Adds(g, f, s)
    BY <1>1
  <1>3. \A s \in SUBSET S : IsFiniteSet(s)
    BY FS_Subset
  <1>4. ASSUME NEW T \in SUBSET S PROVE SumOver(f, T) = g[T]
    <2>1. PICK h : h = [s \in SUBSET T |-> Adds(h, f, s)] /\ SumOver(f, T) = h[T]
      BY <1>3, SumRecursion
    <2>2. \A s \in SUBSET T : h[s] = Adds(h, f, s)
      BY <2>1
    <2> DEFINE Odd == {s \in SUBSET T : h[s] # g[s]}
    <2>3. Odd = {}
      <3> SUFFICES ASSUME Odd # {} PROVE FALSE
        OBVIOUS
      <3>1. PICK s \in Odd : \A u \in Odd : u \subseteq s => u = s
        <4>1. Odd \subseteq SUBSET T /\ IsFiniteSet(T)
          BY <1>3
        <4> HIDE DEF Odd
        <4> QED BY <4>1, SmallestSet
      <3>2. s \in SUBSET T /\ s \in SUBSET S /\ h[s] # g[s]
        OBVIOUS
      <3>3. s # {}
        BY <1>2, <2>2, <3>2 DEF Adds
      <3>4. s \ {Chosen(s)} \in SUBSET T /\ s \ {Chosen(s)} \subseteq s /\ s \ {Chosen(s)} # s
        BY <3>2, <3>3, ChosenIn
      <3>5. h[s \ {Chosen(s)}] = g[s \ {Chosen(s)}]
        BY <3>1, <3>4
      <3> QED BY <1>2, <2>2, <3>2, <3>3, <3>5 DEF Adds
    <2> QED BY <2>1, <2>3
  <1>5. S # {} => S \ {Chosen(S)} \in SUBSET S
    OBVIOUS
  <1> QED BY <1>1, <1>2, <1>4, <1>5 DEF Adds

LEMMA SumEmpty == \A f : SumOver(f, {}) = 0
  BY SumUnfolds, FS_EmptySet

LEMMA SumIsInt ==
  ASSUME NEW f, NEW S, IsFiniteSet(S), \A x \in S : f[x] \in Int
  PROVE  SumOver(f, S) \in Int
  <1> DEFINE Odd == {s \in SUBSET S : ~(SumOver(f, s) \in Int)}
  <1>1. Odd = {}
    <2> SUFFICES ASSUME Odd # {} PROVE FALSE
      OBVIOUS
    <2>1. PICK s \in Odd : \A u \in Odd : u \subseteq s => u = s
      <3>1. Odd \subseteq SUBSET S
        OBVIOUS
      <3> HIDE DEF Odd
      <3> QED BY <3>1, SmallestSet
    <2>2. s \in SUBSET S /\ ~(SumOver(f, s) \in Int) /\ IsFiniteSet(s)
      BY FS_Subset
    <2>3. s # {}
      BY <2>2, SumEmpty
    <2>4. SumOver(f, s \ {Chosen(s)}) \in Int /\ f[Chosen(s)] \in Int
      BY <2>1, <2>2, <2>3, ChosenIn
    <2> QED BY <2>2, <2>3, <2>4, SumUnfolds
  <1> QED BY <1>1

\* The order does not matter.
LEMMA SumRemoves ==
  ASSUME NEW f, NEW S, IsFiniteSet(S), \A x \in S : f[x] \in Int, NEW x \in S
  PROVE  SumOver(f, S) = f[x] + SumOver(f, S \ {x})
  <1> DEFINE Odd == {s \in SUBSET S : \E y \in s : SumOver(f, s) # f[y] + SumOver(f, s \ {y})}
  <1>1. \A s \in SUBSET S : IsFiniteSet(s) /\ SumOver(f, s) \in Int
    BY FS_Subset, SumIsInt
  <1>2. Odd = {}
    <2> SUFFICES ASSUME Odd # {} PROVE FALSE
      OBVIOUS
    <2>1. PICK s \in Odd : \A u \in Odd : u \subseteq s => u = s
      <3>1. Odd \subseteq SUBSET S
        OBVIOUS
      <3> HIDE DEF Odd
      <3> QED BY <3>1, SmallestSet
    <2>2. PICK y \in s : SumOver(f, s) # f[y] + SumOver(f, s \ {y})
      OBVIOUS
    <2>3. PICK c \in s : c = Chosen(s)
      BY <2>2, ChosenIn
    <2>4. s \in SUBSET S /\ SumOver(f, s) = f[c] + SumOver(f, s \ {c})
      BY <1>1, <2>3, SumUnfolds
    <2>5. c # y
      BY <2>2, <2>4
    <2>6. \A u \in SUBSET S : u \subseteq s /\ u # s =>
             \A z \in u : SumOver(f, u) = f[z] + SumOver(f, u \ {z})
      BY <2>1
    <2> HIDE DEF Odd
    <2>7. SumOver(f, s \ {c}) = f[y] + SumOver(f, (s \ {c}) \ {y})
      <3>1. s \ {c} \in SUBSET S /\ s \ {c} # s /\ y \in s \ {c}
        BY <2>2, <2>3, <2>4, <2>5
      <3> QED BY <2>6, <3>1
    <2>8. SumOver(f, s \ {y}) = f[c] + SumOver(f, (s \ {y}) \ {c})
      <3>1. s \ {y} \in SUBSET S /\ s \ {y} # s /\ c \in s \ {y}
        BY <2>2, <2>3, <2>4, <2>5
      <3> QED BY <2>6, <3>1
    <2>9. PICK r \in Int : r = SumOver(f, (s \ {y}) \ {c}) /\ r = SumOver(f, (s \ {c}) \ {y})
      <3>1. (s \ {c}) \ {y} = (s \ {y}) \ {c} /\ (s \ {y}) \ {c} \in SUBSET S
        BY <2>4
      <3> QED BY <1>1, <3>1
    <2>10. f[c] \in Int /\ f[y] \in Int
      BY <2>2, <2>3, <2>4
    <2> QED BY <2>2, <2>4, <2>7, <2>8, <2>9, <2>10
  <1> QED BY <1>2

\* Summing from left to right.
LEMMA SumSteps ==
  ASSUME NEW f, NEW a \in Nat, NEW m \in Nat, a <= m, \A x \in a .. m : f[x] \in Int
  PROVE  /\ SumOver(f, a .. m - 1) \in Int
         /\ SumOver(f, a .. m) = SumOver(f, a .. m - 1) + f[m]
  <1>1. IsFiniteSet(a .. m) /\ IsFiniteSet(a .. m - 1)
    BY FS_Interval
  <1>2. (a .. m) \ {m} = a .. m - 1 /\ m \in a .. m
    OBVIOUS
  <1>3. SumOver(f, a .. m) = f[m] + SumOver(f, a .. m - 1)
    BY <1>1, <1>2, SumRemoves
  <1>4. SumOver(f, a .. m - 1) \in Int
    BY <1>1, SumIsInt
  <1> QED BY <1>3, <1>4

-----------------------------------------------------------------------------
(* The arrays at the start.                                                *)

\* a holds m keys in order, from slot 0.
Ascending(a, m) ==
  /\ m \in Nat /\ DOMAIN a = 0 .. m - 1
  /\ \A i \in 0 .. m - 1 : a[i] \in Nat
  /\ \A i, j \in 0 .. m - 1 : i < j => a[i] < a[j]

LEMMA SizeOf ==
  ASSUME NEW a, NEW m \in Nat, DOMAIN a = 0 .. m - 1
  PROVE  Size(a) = m
  BY FS_Interval DEF Size

\* The key with i smaller ones is in slot i: each slot has one, as no two keys
\* have as many.
LEMMA SortedIs ==
  ASSUME NEW S, IsFiniteSet(S), S \subseteq Nat
  PROVE  Ascending(Sorted(S), Cardinality(S)) /\ Values(Sorted(S)) = S
  <1> DEFINE n == Cardinality(S)
             Below(k) == {x \in S : x < k}
             Rank(k) == Cardinality(Below(k))
             a == Sorted(S)
  <1>1. n \in Nat /\ IsFiniteSet(0 .. n - 1) /\ Cardinality(0 .. n - 1) = n
    <2>1. n \in Nat
      BY FS_CardinalityType
    <2> HIDE DEF n
    <2> QED BY <2>1, FS_Interval
  <1>2. ASSUME NEW k \in S PROVE Rank(k) \in 0 .. n - 1
    <2>1. Below(k) \in SUBSET S /\ Below(k) # S
      BY <1>2
    <2>2. IsFiniteSet(Below(k)) /\ Rank(k) <= n /\ Rank(k) # n
      <3> HIDE DEF Below
      <3> QED BY <2>1, FS_Subset
    <2>3. Rank(k) \in Nat
      BY <2>2, FS_CardinalityType
    <2> HIDE DEF Rank, n
    <2> QED BY <1>1, <2>2, <2>3
  <1>3. \A k, l \in S : k < l => Rank(k) < Rank(l)
    <2> SUFFICES ASSUME NEW k \in S, NEW l \in S, k < l PROVE Rank(k) < Rank(l)
      OBVIOUS
    <2>1. Below(k) \in SUBSET Below(l) /\ Below(k) # Below(l) /\ Below(l) \in SUBSET S
      <3>1. \A x \in S : x \in Nat
        OBVIOUS
      <3>2. \A x \in S : x < k => x < l
        BY <3>1
      <3>3. k \in Below(l) /\ ~(k \in Below(k))
        BY <3>1
      <3> QED BY <3>2, <3>3
    <2>2. IsFiniteSet(Below(l)) /\ Rank(k) <= Rank(l) /\ Rank(k) # Rank(l)
      <3> HIDE DEF Below
      <3> QED BY <2>1, FS_Subset
    <2>3. Rank(k) \in 0 .. n - 1 /\ Rank(l) \in 0 .. n - 1
      BY <1>2
    <2> HIDE DEF Rank, n
    <2> QED BY <1>1, <2>2, <2>3
  <1>4. \A k, l \in S : k # l => Rank(k) # Rank(l)
    <2> SUFFICES ASSUME NEW k \in S, NEW l \in S, k # l PROVE Rank(k) # Rank(l)
      OBVIOUS
    <2>1. k \in Nat /\ l \in Nat
      OBVIOUS
    <2>2. Rank(k) \in 0 .. n - 1 /\ Rank(l) \in 0 .. n - 1
      BY <1>2
    <2> HIDE DEF Rank, n
    <2>3. (k < l => Rank(k) < Rank(l)) /\ (l < k => Rank(l) < Rank(k))
      BY <1>3
    <2> QED BY <1>1, <2>1, <2>2, <2>3
  <1>5. \A i \in 0 .. n - 1 : \E k \in S : Rank(k) = i
    <2> DEFINE rank == [k \in S |-> Rank(k)]
    <2>1. rank \in Injection(S, 0 .. n - 1)
      <3> HIDE DEF Rank, n
      <3>1. rank \in [S -> 0 .. n - 1] /\ \A k \in S : rank[k] = Rank(k)
        BY <1>2
      <3> HIDE DEF rank
      <3> QED BY <1>4, <3>1, Zenon DEF Injection, IsInjective
    <2>2. rank \in Surjection(S, 0 .. n - 1)
      <3> HIDE DEF rank
      <3> QED BY <1>1, <2>1, FS_Injection
    <2> HIDE DEF Rank, n
    <2> QED BY <2>2 DEF Surjection
  <1>6. DOMAIN a = 0 .. n - 1 /\ \A i \in 0 .. n - 1 : a[i] \in S /\ Rank(a[i]) = i
    <2>1. DOMAIN a = 0 .. n - 1 /\ \A i \in 0 .. n - 1 : a[i] = CHOOSE k \in S : Rank(k) = i
      BY DEF Sorted
    <2> HIDE DEF a, Rank, n
    <2> QED BY <1>5, <2>1
  <1>7. \A i, j \in 0 .. n - 1 : i < j => a[i] < a[j]
    <2> SUFFICES ASSUME NEW i \in 0 .. n - 1, NEW j \in 0 .. n - 1, i < j PROVE a[i] < a[j]
      OBVIOUS
    <2>1. a[i] \in S /\ a[j] \in S /\ Rank(a[i]) = i /\ Rank(a[j]) = j
      BY <1>6
    <2>2. a[i] # a[j] /\ ~(a[j] < a[i])
      <3> HIDE DEF a, Rank, n
      <3>1. a[j] < a[i] => Rank(a[j]) < Rank(a[i])
        BY <1>3, <2>1
      <3> QED BY <1>1, <2>1, <3>1
    <2> HIDE DEF a, Rank, n
    <2>3. a[i] \in Nat /\ a[j] \in Nat
      BY <2>1
    <2> QED BY <2>2, <2>3
  <1>8. Values(a) = S
    <2>1. \A k \in S : k = a[Rank(k)]
      <3> SUFFICES ASSUME NEW k \in S PROVE k = a[Rank(k)]
        OBVIOUS
      <3>1. Rank(k) \in 0 .. n - 1
        BY <1>2
      <3> HIDE DEF a, Rank, n
      <3> QED BY <1>4, <1>6, <3>1
    <2> HIDE DEF a, Rank, n
    <2> QED BY <1>2, <1>6, <2>1 DEF Values
  <1> HIDE DEF a, n
  <1>9. \A i \in 0 .. n - 1 : a[i] \in Nat
    BY <1>6
  <1> QED BY <1>1, <1>6, <1>7, <1>8, <1>9 DEF a, n, Ascending

PageSize(p) == Size(bufferPages[p])

\* The array holds at least one key; page p holds keys from that of slot
\* Ratio * p up to that of slot Ratio * (p + 1); the last two pages none.
DataInv ==
  /\ TotalSize > 0 /\ Ascending(keys, TotalSize)
  /\ NumPages = TotalSize \div Ratio + 1 /\ DOMAIN bufferPages = 0 .. NumPages - 1
  /\ \A p \in 0 .. NumPages - 1 :
       /\ Ascending(bufferPages[p], PageSize(p))
       /\ \A i \in 0 .. PageSize(p) - 1 :
            /\ p + 1 < TotalSize \div Ratio
            /\ keys[Ratio * p] <= bufferPages[p][i]
            /\ bufferPages[p][i] < keys[Ratio * (p + 1)]

LEMMA DataInit == Init => DataInv
  <1> SUFFICES ASSUME Init PROVE DataInv
    OBVIOUS
  <1>1. PICK A \in Arrays, S \in Inserted : keys = Sorted(A) /\ bufferPages = PagesFor(Sorted(A), S)
    BY DEF Init
  <1>2. IsFiniteSet(A) /\ A # {} /\ A \subseteq Nat /\ S \subseteq Nat
    BY ArraysAssumption, KeysAssumption
  <1>3. PICK n \in Nat : n = Cardinality(A) /\ n # 0
    BY <1>2, FS_CardinalityType, FS_EmptySet
  <1>4. Ascending(keys, n)
    BY <1>1, <1>2, <1>3, SortedIs
  <1>5. TotalSize = n
    BY <1>4, SizeOf DEF Ascending, TotalSize
  <1>6. PICK d \in Nat : d = n \div Ratio
    BY RatioAssumption
  <1> DEFINE partial == [i \in 0 .. d - 1 |-> keys[Ratio * i]]
             Held(p) == {k \in S : p < d - 1 /\ partial[p] <= k /\ k < partial[p + 1]}
  <1>7. bufferPages = [p \in 0 .. d |-> Sorted(Held(p))]
    <2>1. Size(keys) \div Ratio = d
      BY <1>5, <1>6 DEF TotalSize
    <2>2. Size(partial) = d
      BY SizeOf
    <2>3. bufferPages = [p \in 0 .. Size(keys) \div Ratio |->
             Sorted({k \in S : p < Size([i \in 0 .. Size(keys) \div Ratio - 1 |-> keys[Ratio * i]]) - 1
                          /\ [i \in 0 .. Size(keys) \div Ratio - 1 |-> keys[Ratio * i]][p] <= k
                          /\ k < [i \in 0 .. Size(keys) \div Ratio - 1 |-> keys[Ratio * i]][p + 1]})]
      BY <1>1, Zenon DEF PagesFor
    <2>4. bufferPages = [p \in 0 .. d |->
             Sorted({k \in S : p < Size(partial) - 1 /\ partial[p] <= k /\ k < partial[p + 1]})]
      BY <2>1, <2>3, Zenon
    <2> HIDE DEF partial
    <2> QED BY <2>2, <2>4, Zenon
  <1>8. NumPages = d + 1 /\ DOMAIN bufferPages = 0 .. (d + 1) - 1
    <2>1. DOMAIN bufferPages = 0 .. (d + 1) - 1
      BY <1>7
    <2> QED BY <2>1, SizeOf DEF NumPages
  <1>9. ASSUME NEW p \in 0 .. d
        PROVE  /\ Ascending(bufferPages[p], PageSize(p))
               /\ \A i \in 0 .. PageSize(p) - 1 :
                    /\ p + 1 < d
                    /\ keys[Ratio * p] <= bufferPages[p][i]
                    /\ bufferPages[p][i] < keys[Ratio * (p + 1)]
    <2>1. \A k \in Held(p) : k \in Nat /\ p < d - 1 /\ keys[Ratio * p] <= k /\ k < keys[Ratio * (p + 1)]
      <3> SUFFICES ASSUME NEW k \in Held(p)
                   PROVE  k \in Nat /\ p < d - 1 /\ keys[Ratio * p] <= k /\ k < keys[Ratio * (p + 1)]
        OBVIOUS
      <3>1. k \in S /\ p < d - 1 /\ partial[p] <= k /\ k < partial[p + 1]
        OBVIOUS
      <3>2. p \in 0 .. d - 1 /\ p + 1 \in 0 .. d - 1
        BY <3>1
      <3>3. partial[p] = keys[Ratio * p] /\ partial[p + 1] = keys[Ratio * (p + 1)]
        BY <3>2
      <3> HIDE DEF partial
      <3> QED BY <1>2, <3>1, <3>3
    <2> HIDE DEF Held
    <2>2. IsFiniteSet(Held(p)) /\ Held(p) \subseteq Nat
      <3>1. Held(p) \subseteq Nat
        BY <2>1
      <3>2. CASE Held(p) = {}
        BY <3>2, FS_EmptySet
      <3>3. CASE Held(p) # {}
        <4>1. p < d - 1
          BY <2>1, <3>3
        <4>2. Ratio * (p + 1) \in 0 .. n - 1
          <5>1. Ratio * d <= n
            BY <1>6, RatioAssumption
          <5>2. p + 2 <= d /\ p \in Nat
            BY <4>1
          <5> HIDE <1>6
          <5>3. Ratio * (p + 2) \in Nat /\ Ratio * (p + 2) <= Ratio * d /\ Ratio * d \in Nat
            BY <5>2, RatioAssumption, Product
          <5>4. Ratio * (p + 2) = Ratio * (p + 1) + Ratio /\ Ratio * (p + 1) \in Nat
            BY <5>2, RatioAssumption
          <5> QED BY <5>1, <5>3, <5>4, RatioAssumption
        <4>3. keys[Ratio * (p + 1)] \in Nat
          BY <1>4, <4>2 DEF Ascending
        <4>4. \A k \in Held(p) : k <= keys[Ratio * (p + 1)]
          BY <2>1, <4>3
        <4> QED BY <3>1, <4>3, <4>4, FS_BoundedSetOfNaturals
      <3> QED BY <3>1, <3>2, <3>3
    <2>3. bufferPages[p] = Sorted(Held(p))
      BY <1>7
    <2>4. PICK m : m = Cardinality(Held(p))
      OBVIOUS
    <2>5. Ascending(bufferPages[p], m) /\ Values(bufferPages[p]) = Held(p)
      BY <2>2, <2>3, <2>4, SortedIs
    <2>6. PageSize(p) = m
      BY <2>5, SizeOf DEF Ascending, PageSize
    <2>7. \A i \in 0 .. m - 1 : bufferPages[p][i] \in Held(p)
      BY <2>5 DEF Values, Ascending
    <2>8. p + 1 < d <=> p < d - 1
      OBVIOUS
    <2> QED BY <2>1, <2>5, <2>6, <2>7, <2>8
  <1> HIDE DEF Held, partial
  <1>10. (d + 1) - 1 = d /\ n > 0
    BY <1>3
  <1> QED BY <1>3, <1>4, <1>5, <1>6, <1>8, <1>9, <1>10 DEF DataInv

-----------------------------------------------------------------------------
(* The slices.                                                             *)

\* The keys of the pages before p.
BufBefore(p) == SumOver(PageSizes, 0 .. p - 1)

LEMMA PagesAre ==
  ASSUME DataInv
  PROVE  /\ TotalSize \in Nat /\ NumPages \in Nat /\ NumPages > 0
         /\ NumPages - 1 = TotalSize \div Ratio /\ Ratio * (NumPages - 1) \in Nat
         /\ Ratio * (NumPages - 1) <= TotalSize
         /\ \A p \in 0 .. NumPages - 1 : PageSize(p) \in Nat /\ PageSizes[p] = PageSize(p)
  <1>1. TotalSize \in Nat
    BY DEF DataInv, Ascending
  <1>2. TotalSize \div Ratio \in Nat /\ Ratio * (TotalSize \div Ratio) <= TotalSize
    BY <1>1, RatioAssumption
  <1>3. \A p \in 0 .. NumPages - 1 : PageSize(p) \in Nat
    BY DEF DataInv, Ascending
  <1>4. \A p \in 0 .. NumPages - 1 : PageSizes[p] = PageSize(p)
    BY DEF DataInv, PageSizes, PageSize
  <1>5. NumPages = TotalSize \div Ratio + 1
    BY DEF DataInv
  <1>6. PICK d \in Nat : d = TotalSize \div Ratio
    BY <1>2
  <1>7. Ratio * d \in Nat
    BY RatioAssumption
  <1>8. NumPages \in Nat /\ NumPages > 0 /\ NumPages - 1 = d
    BY <1>5, <1>6
  <1> QED BY <1>1, <1>2, <1>3, <1>4, <1>6, <1>7, <1>8

LEMMA BufSteps ==
  ASSUME DataInv
  PROVE  /\ BufBefore(0) = 0
         /\ \A p \in 0 .. NumPages : BufBefore(p) \in Nat
         /\ \A p \in 0 .. NumPages - 1 : BufBefore(p + 1) = BufBefore(p) + PageSize(p)
  <1>1. BufBefore(0) = 0
    BY SumEmpty DEF BufBefore
  <1>2. ASSUME NEW p \in 0 .. NumPages - 1
        PROVE  BufBefore(p) \in Int /\ BufBefore(p + 1) = BufBefore(p) + PageSize(p)
    <2>1. p \in Nat /\ \A x \in 0 .. p : PageSizes[x] \in Int
      BY PagesAre
    <2>2. /\ SumOver(PageSizes, 0 .. p - 1) \in Int
          /\ SumOver(PageSizes, 0 .. p) = SumOver(PageSizes, 0 .. p - 1) + PageSizes[p]
      BY <2>1, SumSteps
    <2>3. (p + 1) - 1 = p /\ PageSizes[p] = PageSize(p)
      BY PagesAre
    <2> QED BY <2>2, <2>3 DEF BufBefore
  <1>3. \A p \in 0 .. NumPages : BufBefore(p) \in Nat
    <2> DEFINE Odd == {p \in 0 .. NumPages : ~(BufBefore(p) \in Nat)}
    <2>1. Odd = {}
      <3> SUFFICES ASSUME Odd # {} PROVE FALSE
        OBVIOUS
      <3>1. PICK m \in Odd : \A i \in Odd : m <= i
        <4>1. \A i \in Odd : i \in Nat
          BY PagesAre
        <4> HIDE DEF Odd
        <4> QED BY <4>1, LeastNumber
      <3>2. m \in 0 .. NumPages /\ m # 0 /\ ~(BufBefore(m) \in Nat)
        BY <1>1
      <3>3. m - 1 \in 0 .. NumPages - 1 /\ m - 1 \in 0 .. NumPages /\ (m - 1) + 1 = m /\ ~(m <= m - 1)
        BY <3>2, PagesAre
      <3>4. BufBefore(m - 1) \in Nat
        BY <3>1, <3>3
      <3>5. BufBefore(m) = BufBefore(m - 1) + PageSize(m - 1) /\ PageSize(m - 1) \in Nat
        BY <1>2, <3>3, PagesAre
      <3> QED BY <3>2, <3>4, <3>5
    <2> QED BY <2>1
  <1> QED BY <1>1, <1>2, <1>3

\* The keys of the pages from a on, before b.
LEMMA BufBetween ==
  ASSUME DataInv, NEW a \in 0 .. NumPages, NEW b \in 0 .. NumPages, a <= b
  PROVE  /\ BufBefore(a) <= BufBefore(b)
         /\ SumOver(PageSizes, a .. b - 1) = BufBefore(b) - BufBefore(a)
  <1> DEFINE Odd == {m \in 0 .. NumPages : a <= m /\ ~(/\ BufBefore(a) <= BufBefore(m)
               /\ SumOver(PageSizes, a .. m - 1) = BufBefore(m) - BufBefore(a))}
  <1>1. Odd = {}
    <2> SUFFICES ASSUME Odd # {} PROVE FALSE
      OBVIOUS
    <2>1. PICK m \in Odd : \A i \in Odd : m <= i
      <3>1. \A i \in Odd : i \in Nat
        BY PagesAre
      <3> HIDE DEF Odd
      <3> QED BY <3>1, LeastNumber
    <2>2. m \in 0 .. NumPages /\ a <= m /\ m \in Nat /\ a \in Nat
      BY PagesAre
    <2>3. /\ BufBefore(a) \in Nat /\ BufBefore(m) \in Nat
      BY <2>2, BufSteps
    <2>4. m # a
      <3> SUFFICES ASSUME m = a PROVE FALSE
        OBVIOUS
      <3>1. a .. m - 1 = {}
        BY <2>2
      <3>2. SumOver(PageSizes, a .. m - 1) = BufBefore(m) - BufBefore(a)
        BY <2>3, <3>1, SumEmpty
      <3> QED BY <2>3, <3>2
    <2>5. PICK p \in 0 .. NumPages - 1 : m = p + 1 /\ a <= p /\ p \in 0 .. NumPages /\ ~(m <= p)
      <3>1. m - 1 \in 0 .. NumPages - 1 /\ m = (m - 1) + 1 /\ a <= m - 1 /\ m - 1 \in 0 .. NumPages /\ ~(m <= m - 1)
        BY <2>2, <2>4, PagesAre
      <3> QED BY <3>1
    <2>6. BufBefore(a) <= BufBefore(p) /\ SumOver(PageSizes, a .. p - 1) = BufBefore(p) - BufBefore(a)
      BY <2>1, <2>5
    <2>7. BufBefore(m) = BufBefore(p) + PageSize(p) /\ BufBefore(p) \in Nat /\ PageSize(p) \in Nat
      BY <2>5, BufSteps, PagesAre
    <2>8. SumOver(PageSizes, a .. p) = PageSize(p) + SumOver(PageSizes, a .. p - 1)
      <3>1. \A x \in a .. p : PageSizes[x] \in Int
        BY SMTT(60), <2>2, <2>5, PagesAre
      <3>2. a \in Nat /\ p \in Nat /\ a <= p /\ PageSizes[p] = PageSize(p) /\ PageSize(p) \in Nat
        BY <2>2, <2>5, PagesAre
      <3> HIDE DEF Odd
      <3> QED BY <3>1, <3>2, SumSteps
    <2>9. m - 1 = p
      BY <2>5
    <2> QED BY <2>1, <2>3, <2>6, <2>7, <2>8, <2>9
  <1> QED BY <1>1

\* What the threads take: disjoint intervals of pages and of old keys, in the
\* order of the threads, the last up to the end; a page for every Ratio keys.
LEMMA Slices ==
  ASSUME DataInv, NEW t \in Threads
  PROVE  /\ StartPage(t) \in 0 .. NumPages - 1 /\ EndPage(t) \in StartPage(t) .. NumPages
         /\ StartOld(t) = Ratio * StartPage(t)
         /\ StartOld(t) \in 0 .. TotalSize /\ EndOld(t) \in StartOld(t) .. TotalSize
         /\ t = Last => EndPage(t) = NumPages /\ EndOld(t) = TotalSize
         /\ t # Last => EndPage(t) \in 0 .. NumPages - 1 /\ EndOld(t) = Ratio * EndPage(t)
  <1>1. PICK n \in Nat : n = NumPages \div NumThreads /\ n * NumThreads <= NumPages
    BY PagesAre, NumThreadsAssumption
  <1>2. Last \in Nat /\ NumThreads = Last + 1 /\ t \in 0 .. Last /\ t \in Nat
    BY NumThreadsAssumption DEF Last, Threads
  <1>3. PICK m \in Nat : m = NumPages - 1 /\ NumPages = m + 1
    BY PagesAre
  <1>4. PICK s \in Nat, x \in Nat, e \in Nat : s = n * t /\ e = n * (t + 1) /\ x = n * Last
    BY <1>1, <1>2
  <1>5. s <= x /\ s <= e /\ (t # Last => e <= x)
    <2>1. t # Last => t + 1 <= Last
      BY <1>2
    <2> QED BY <1>2, <1>4, <2>1, Product
  <1>6. x <= m
    <2>1. n * NumThreads = n * Last + n
      BY <1>2
    <2>2. x + n <= m + 1
      BY <1>1, <1>3, <1>4, <2>1
    <2>3. n = 0 => x = 0
      BY <1>2, <1>4
    <2> QED BY <2>2, <2>3
  <1>7. PICK a \in Nat, b \in Nat, c \in Nat : a = Ratio * s /\ b = Ratio * e /\ c = Ratio * m
    BY RatioAssumption
  <1>8. a <= c /\ a <= b /\ (t # Last => b <= c) /\ c <= TotalSize /\ TotalSize \in Nat
    <2>1. s <= m /\ (t # Last => e <= m)
      BY <1>5, <1>6
    <2>2. c <= TotalSize /\ TotalSize \in Nat
      BY <1>3, <1>7, PagesAre
    <2> QED BY <1>5, <1>7, <2>1, <2>2, RatioAssumption, Product
  <1>9. StartPage(t) = s /\ EndPage(t) = IF t = Last THEN NumPages ELSE e
    BY <1>1, <1>4 DEF StartPage, EndPage
  <1>10. StartOld(t) = a /\ EndOld(t) = IF t = Last THEN TotalSize ELSE b
    <2>1. s * Ratio = Ratio * s /\ e * Ratio = Ratio * e
      BY RatioAssumption
    <2> QED BY <1>7, <1>9, <2>1 DEF StartOld, EndOld
  <1> QED BY <1>3, <1>5, <1>6, <1>7, <1>8, <1>9, <1>10

LEMMA SlicesJoin ==
  ASSUME DataInv
  PROVE  /\ StartPage(0) = 0
         /\ \A t \in Threads : t # Last => /\ t + 1 \in Threads /\ StartPage(t + 1) = EndPage(t)
                                           /\ StartOld(t + 1) = EndOld(t)
  <1>1. NumPages \div NumThreads \in Nat
    BY PagesAre, NumThreadsAssumption
  <1>2. StartPage(0) = 0
    BY <1>1 DEF StartPage
  <1>3. ASSUME NEW t \in Threads, t # Last
        PROVE  t + 1 \in Threads /\ StartPage(t + 1) = EndPage(t) /\ StartOld(t + 1) = EndOld(t)
    BY <1>3, NumThreadsAssumption DEF Threads, Last, StartPage, EndPage, StartOld, EndOld
  <1> QED BY <1>2, <1>3

LEMMA SlicesApart ==
  ASSUME DataInv, NEW t \in Threads, NEW u \in Threads, t < u
  PROVE  EndPage(t) <= StartPage(u) /\ EndOld(t) <= StartOld(u)
  <1>1. PICK n \in Nat : n = NumPages \div NumThreads
    BY PagesAre, NumThreadsAssumption
  <1>2. t # Last /\ t + 1 <= u /\ t \in Nat /\ u \in Nat
    BY NumThreadsAssumption DEF Threads, Last
  <1>3. PICK a \in Nat, b \in Nat : a = n * (t + 1) /\ b = n * u /\ a <= b
    BY <1>2, Product
  <1>4. EndPage(t) = a /\ StartPage(u) = b
    BY <1>1, <1>2, <1>3 DEF EndPage, StartPage
  <1>5. EndOld(t) = Ratio * a /\ StartOld(u) = Ratio * b
    BY <1>2, <1>4, Slices
  <1>6. Ratio * a <= Ratio * b
    BY <1>3, RatioAssumption, Product
  <1> QED BY <1>3, <1>4, <1>5, <1>6

\* The keys thread t finds in its pages.
Found(t) == BufBefore(EndPage(t)) - BufBefore(StartPage(t))

\* What all threads before the m-th find.
LEMMA FoundBefore ==
  ASSUME DataInv, NEW f, \A t \in Threads : f[t] = Found(t), NEW m \in 0 .. NumThreads
  PROVE  SumOver(f, 0 .. m - 1) = BufBefore(IF m = NumThreads THEN NumPages ELSE StartPage(m))
  <1>1. NumThreads \in Nat /\ Last + 1 = NumThreads /\ Threads = 0 .. NumThreads - 1
    BY NumThreadsAssumption DEF Last, Threads
  <1>2. ASSUME NEW t \in Threads
        PROVE  /\ BufBefore(EndPage(t)) \in Nat /\ BufBefore(StartPage(t)) \in Nat /\ Found(t) \in Int
    <2>1. EndPage(t) \in 0 .. NumPages /\ StartPage(t) \in 0 .. NumPages
      BY Slices, PagesAre
    <2>2. BufBefore(EndPage(t)) \in Nat /\ BufBefore(StartPage(t)) \in Nat
      BY <2>1, BufSteps
    <2> QED BY <2>2 DEF Found
  <1> DEFINE From(i) == BufBefore(IF i = NumThreads THEN NumPages ELSE StartPage(i))
             Odd == {i \in 0 .. NumThreads : ~(SumOver(f, 0 .. i - 1) = From(i))}
  <1>3. Odd = {}
    <2> SUFFICES ASSUME Odd # {} PROVE FALSE
      OBVIOUS
    <2>1. PICK i \in Odd : \A j \in Odd : i <= j
      <3>1. \A j \in Odd : j \in Nat
        BY <1>1
      <3> HIDE DEF Odd
      <3> QED BY <3>1, LeastNumber
    <2>2. i \in 0 .. NumThreads /\ i \in Nat /\ SumOver(f, 0 .. i - 1) # From(i)
      BY <1>1
    <2>3. i # 0
      <3> SUFFICES ASSUME i = 0 PROVE FALSE
        OBVIOUS
      <3>1. From(i) = 0
        BY NumThreadsAssumption, SlicesJoin, BufSteps
      <3>2. 0 .. i - 1 = {}
        OBVIOUS
      <3> HIDE DEF From
      <3> QED BY <2>2, <3>1, <3>2, SumEmpty
    <2>4. PICK t \in Threads : t = i - 1 /\ t \in 0 .. NumThreads /\ t # NumThreads /\ ~(i <= t)
      BY <1>1, <2>2, <2>3
    <2>5. SumOver(f, 0 .. t - 1) = BufBefore(StartPage(t))
      <3>1. SumOver(f, 0 .. t - 1) = From(t)
        <4> HIDE DEF From
        <4> QED BY <2>1, <2>4
      <3> QED BY <2>4, <3>1
    <2>6. t \in Nat /\ \A x \in 0 .. t : f[x] \in Int
      BY <1>1, <1>2, <2>4
    <2>7. SumOver(f, 0 .. t) = SumOver(f, 0 .. t - 1) + f[t]
      BY <2>6, SumSteps
    <2>8. SumOver(f, 0 .. i - 1) = BufBefore(EndPage(t))
      BY <1>2, <2>4, <2>5, <2>7 DEF Found
    <2>9. From(i) = BufBefore(EndPage(t))
      <3>1. CASE t = Last
        <4>1. i = NumThreads /\ EndPage(t) = NumPages
          BY <1>1, <2>2, <2>4, <3>1, Slices
        <4> QED BY <4>1
      <3>2. CASE t # Last
        <4>1. i # NumThreads /\ i = t + 1 /\ StartPage(t + 1) = EndPage(t)
          BY <1>1, <2>2, <2>4, <3>2, SlicesJoin
        <4> QED BY <4>1
      <3> QED BY <3>1, <3>2
    <2> HIDE DEF From
    <2> QED BY <2>2, <2>8, <2>9
  <1> QED BY <1>3

\* The slots of a thread.
Base(t) == StartOld(t) + BufBefore(StartPage(t))
Top(t)  == EndOld(t) + BufBefore(EndPage(t))

\* They are disjoint intervals, too, as many as inputs, and end at the end of
\* the new array.
LEMMA SlotsAre ==
  ASSUME DataInv
  PROVE  /\ \A t \in Threads :
              /\ Base(t) \in Nat /\ Top(t) \in Nat
              /\ Base(t) <= Top(t) /\ Top(t) <= TotalSize + BufBefore(NumPages)
              /\ Top(t) - Base(t) = EndOld(t) - StartOld(t) + Found(t)
              /\ Found(t) \in Nat /\ TotalSize + BufBefore(NumPages) \in Nat
         /\ \A t, u \in Threads : t < u => Top(t) <= Base(u)
  <1>1. ASSUME NEW t \in Threads
        PROVE  /\ StartPage(t) \in 0 .. NumPages /\ EndPage(t) \in 0 .. NumPages
               /\ StartPage(t) <= EndPage(t) /\ EndPage(t) <= NumPages /\ NumPages \in 0 .. NumPages
               /\ StartOld(t) \in Nat /\ EndOld(t) \in Nat /\ TotalSize \in Nat
               /\ StartOld(t) <= EndOld(t) /\ EndOld(t) <= TotalSize
    BY Slices, PagesAre
  <1>2. ASSUME NEW t \in Threads
        PROVE  /\ BufBefore(StartPage(t)) \in Nat /\ BufBefore(EndPage(t)) \in Nat
               /\ BufBefore(NumPages) \in Nat
               /\ BufBefore(StartPage(t)) <= BufBefore(EndPage(t))
               /\ BufBefore(EndPage(t)) <= BufBefore(NumPages)
    BY <1>1, BufSteps, BufBetween
  <1>3. ASSUME NEW t \in Threads
        PROVE  /\ Base(t) \in Nat /\ Top(t) \in Nat
               /\ Base(t) <= Top(t) /\ Top(t) <= TotalSize + BufBefore(NumPages)
               /\ Top(t) - Base(t) = EndOld(t) - StartOld(t) + Found(t)
               /\ Found(t) \in Nat /\ TotalSize + BufBefore(NumPages) \in Nat
    BY <1>1, <1>2 DEF Base, Top, Found
  <1>4. ASSUME NEW t \in Threads, NEW u \in Threads, t < u
        PROVE  Top(t) <= Base(u)
    <2>1. EndPage(t) <= StartPage(u) /\ EndOld(t) <= StartOld(u)
      BY <1>4, SlicesApart
    <2>2. BufBefore(EndPage(t)) <= BufBefore(StartPage(u))
      BY <1>1, <2>1, BufBetween
    <2> QED BY <1>1, <1>2, <2>1, <2>2 DEF Base, Top
  <1> QED BY <1>3, <1>4

-----------------------------------------------------------------------------
(* The inputs of a slice.                                                  *)

OldOf(t) == {keys[j] : j \in StartOld(t) .. EndOld(t) - 1}
BufOf(t) == UNION {Values(bufferPages[p]) : p \in StartPage(t) .. EndPage(t) - 1}

LEMMA InBufOf ==
  ASSUME DataInv, NEW t \in Threads, NEW k
  PROVE  k \in BufOf(t) <=>
           \E p \in StartPage(t) .. EndPage(t) - 1 :
             \E i \in 0 .. PageSize(p) - 1 : k = bufferPages[p][i]
  <1>1. \A p \in StartPage(t) .. EndPage(t) - 1 : p \in 0 .. NumPages - 1
    BY Slices, PagesAre
  <1>2. \A p \in StartPage(t) .. EndPage(t) - 1 :
          Values(bufferPages[p]) = {bufferPages[p][i] : i \in 0 .. PageSize(p) - 1}
    BY <1>1 DEF DataInv, Ascending, Values
  <1> QED BY <1>2 DEF BufOf

LEMMA KeysAscend ==
  ASSUME DataInv, NEW i \in 0 .. TotalSize - 1, NEW j \in 0 .. TotalSize - 1
  PROVE  /\ keys[i] \in Nat /\ keys[j] \in Nat
         /\ i < j => keys[i] < keys[j]
         /\ i <= j => keys[i] <= keys[j]
  <1>1. keys[i] \in Nat /\ keys[j] \in Nat /\ (i < j => keys[i] < keys[j])
    BY DEF DataInv, Ascending
  <1>2. i <= j => i < j \/ i = j
    BY PagesAre
  <1> QED BY <1>1, <1>2

\* The first key of a page is in the array.
LEMMA PageStarts ==
  ASSUME DataInv, NEW q \in 0 .. NumPages - 2
  PROVE  Ratio * q \in 0 .. TotalSize - 1
  <1>1. q \in Nat /\ q + 1 <= NumPages - 1 /\ NumPages - 1 \in Nat
    BY PagesAre
  <1>2. Ratio * q \in Nat /\ Ratio * (q + 1) \in Nat /\ Ratio * (q + 1) = Ratio * q + Ratio
    BY <1>1, RatioAssumption
  <1>3. Ratio * (q + 1) <= Ratio * (NumPages - 1)
    BY <1>1, RatioAssumption, Product
  <1> QED BY <1>2, <1>3, PagesAre, RatioAssumption

\* The keys of a page lie between two keys of the array.
LEMMA PageBetween ==
  ASSUME DataInv, NEW p \in 0 .. NumPages - 1, NEW i \in 0 .. PageSize(p) - 1
  PROVE  /\ p \in 0 .. NumPages - 2 /\ p + 1 \in 0 .. NumPages - 2
         /\ bufferPages[p][i] \in Nat
         /\ keys[Ratio * p] <= bufferPages[p][i]
         /\ bufferPages[p][i] < keys[Ratio * (p + 1)]
  <1>1. /\ p + 1 < NumPages - 1
        /\ keys[Ratio * p] <= bufferPages[p][i]
        /\ bufferPages[p][i] < keys[Ratio * (p + 1)]
    BY PagesAre DEF DataInv
  <1>2. bufferPages[p][i] \in Nat
    BY DEF DataInv, Ascending
  <1>3. p \in 0 .. NumPages - 2 /\ p + 1 \in 0 .. NumPages - 2
    BY <1>1, PagesAre
  <1> QED BY <1>1, <1>2, <1>3

\* The order of the keys in the pages.
LEMMA PagesAscend ==
  ASSUME DataInv, NEW p \in 0 .. NumPages - 1, NEW q \in 0 .. NumPages - 1,
         NEW i \in 0 .. PageSize(p) - 1, NEW j \in 0 .. PageSize(q) - 1,
         p < q \/ (p = q /\ i < j)
  PROVE  bufferPages[p][i] < bufferPages[q][j]
  <1>1. CASE p < q
    <2>1. p + 1 <= q /\ p \in Nat /\ q \in Nat
      BY <1>1, PagesAre
    <2>2. Ratio * (p + 1) <= Ratio * q /\ Ratio * (p + 1) \in Nat /\ Ratio * q \in Nat
      BY <2>1, RatioAssumption, Product
    <2>3. Ratio * (p + 1) \in 0 .. TotalSize - 1 /\ Ratio * q \in 0 .. TotalSize - 1
      BY PageBetween, PageStarts
    <2>4. keys[Ratio * (p + 1)] <= keys[Ratio * q] /\ keys[Ratio * (p + 1)] \in Nat /\ keys[Ratio * q] \in Nat
      BY <2>2, <2>3, KeysAscend
    <2>5. bufferPages[p][i] < keys[Ratio * (p + 1)] /\ bufferPages[p][i] \in Nat
      BY PageBetween
    <2>6. keys[Ratio * q] <= bufferPages[q][j] /\ bufferPages[q][j] \in Nat
      BY PageBetween
    <2> QED BY <2>4, <2>5, <2>6
  <1>2. CASE p = q /\ i < j
    BY <1>2 DEF DataInv, Ascending
  <1> QED BY <1>1, <1>2

\* What the slices hold is in the order of the threads.
LEMMA SlicesAscend ==
  ASSUME DataInv, NEW t \in Threads, NEW u \in Threads, t < u,
         NEW k \in BufOf(t) \cup OldOf(t), NEW l \in BufOf(u) \cup OldOf(u)
  PROVE  k < l
  <1>1. /\ EndPage(t) <= StartPage(u) /\ EndOld(t) <= StartOld(u)
        /\ StartOld(u) = Ratio * StartPage(u) /\ NumPages \in Nat /\ TotalSize \in Nat
        /\ StartPage(t) \in 0 .. NumPages - 1 /\ StartPage(u) \in 0 .. NumPages - 1
        /\ EndPage(t) \in Nat /\ EndPage(u) \in 0 .. NumPages
        /\ StartOld(t) \in Nat /\ EndOld(t) \in Nat /\ StartOld(u) \in Nat /\ EndOld(u) \in 0 .. TotalSize
    BY SlicesApart, Slices, PagesAre
  <1>2. ASSUME NEW p \in StartPage(t) .. EndPage(t) - 1, NEW q \in StartPage(u) .. EndPage(u) - 1
        PROVE  /\ p \in 0 .. NumPages - 1 /\ q \in 0 .. NumPages - 1 /\ p < q
    BY <1>1
  <1>3. ASSUME NEW j \in StartOld(t) .. EndOld(t) - 1, NEW m \in StartOld(u) .. EndOld(u) - 1
        PROVE  j \in 0 .. TotalSize - 1 /\ m \in 0 .. TotalSize - 1 /\ j < m
    BY <1>1
  <1>4. CASE k \in BufOf(t) /\ l \in BufOf(u)
    <2>1. PICK p \in StartPage(t) .. EndPage(t) - 1 : \E i \in 0 .. PageSize(p) - 1 : k = bufferPages[p][i]
      BY <1>4, InBufOf
    <2>2. PICK i \in 0 .. PageSize(p) - 1 : k = bufferPages[p][i]
      BY <2>1
    <2>3. PICK q \in StartPage(u) .. EndPage(u) - 1 : \E j \in 0 .. PageSize(q) - 1 : l = bufferPages[q][j]
      BY <1>4, InBufOf
    <2>4. PICK j \in 0 .. PageSize(q) - 1 : l = bufferPages[q][j]
      BY <2>3
    <2> QED BY <1>2, <2>2, <2>4, PagesAscend
  <1>5. CASE k \in OldOf(t) /\ l \in OldOf(u)
    <2>1. PICK j \in StartOld(t) .. EndOld(t) - 1 : k = keys[j]
      BY <1>5 DEF OldOf
    <2>2. PICK m \in StartOld(u) .. EndOld(u) - 1 : l = keys[m]
      BY <1>5 DEF OldOf
    <2> QED BY <1>3, <2>1, <2>2, KeysAscend
  <1>6. CASE k \in OldOf(t) /\ l \in BufOf(u)
    <2>1. PICK j \in StartOld(t) .. EndOld(t) - 1 : k = keys[j]
      BY <1>6 DEF OldOf
    <2>2. PICK q \in StartPage(u) .. EndPage(u) - 1 : \E m \in 0 .. PageSize(q) - 1 : l = bufferPages[q][m]
      BY <1>6, InBufOf
    <2>3. PICK m \in 0 .. PageSize(q) - 1 : l = bufferPages[q][m]
      BY <2>2
    <2>4. q \in 0 .. NumPages - 1 /\ StartPage(u) <= q
      BY <1>1
    <2>5. Ratio * StartPage(u) <= Ratio * q /\ Ratio * q \in 0 .. TotalSize - 1
      <3>1. Ratio * q \in 0 .. TotalSize - 1
        BY <2>3, <2>4, PageBetween, PageStarts
      <3> QED BY <1>1, <2>4, <3>1, RatioAssumption, Product
    <2>6. j \in 0 .. TotalSize - 1 /\ j < Ratio * q
      BY <1>1, <2>5
    <2>7. keys[j] < keys[Ratio * q] /\ keys[j] \in Nat /\ keys[Ratio * q] \in Nat
      BY <2>5, <2>6, KeysAscend
    <2>8. keys[Ratio * q] <= bufferPages[q][m] /\ bufferPages[q][m] \in Nat
      BY <2>3, <2>4, PageBetween
    <2> QED BY <2>1, <2>3, <2>7, <2>8
  <1>7. CASE k \in BufOf(t) /\ l \in OldOf(u)
    <2>1. PICK p \in StartPage(t) .. EndPage(t) - 1 : \E i \in 0 .. PageSize(p) - 1 : k = bufferPages[p][i]
      BY <1>7, InBufOf
    <2>2. PICK i \in 0 .. PageSize(p) - 1 : k = bufferPages[p][i]
      BY <2>1
    <2>3. PICK m \in StartOld(u) .. EndOld(u) - 1 : l = keys[m]
      BY <1>7 DEF OldOf
    <2>4. p \in 0 .. NumPages - 1 /\ p + 1 <= StartPage(u) /\ p + 1 \in Nat
      BY <1>1
    <2>5. Ratio * (p + 1) <= Ratio * StartPage(u) /\ Ratio * (p + 1) \in 0 .. TotalSize - 1
      <3>1. Ratio * (p + 1) \in 0 .. TotalSize - 1
        BY <2>2, <2>4, PageBetween, PageStarts
      <3> QED BY <1>1, <2>4, <3>1, RatioAssumption, Product
    <2>6. m \in 0 .. TotalSize - 1 /\ Ratio * (p + 1) <= m
      BY <1>1, <2>5
    <2>7. keys[Ratio * (p + 1)] <= keys[m] /\ keys[m] \in Nat /\ keys[Ratio * (p + 1)] \in Nat
      BY <2>5, <2>6, KeysAscend
    <2>8. bufferPages[p][i] < keys[Ratio * (p + 1)] /\ bufferPages[p][i] \in Nat
      BY <2>2, <2>4, PageBetween
    <2> QED BY <2>2, <2>3, <2>7, <2>8
  <1> QED BY <1>4, <1>5, <1>6, <1>7

LEMMA SlicesAreNat ==
  ASSUME DataInv, NEW t \in Threads
  PROVE  BufOf(t) \subseteq Nat /\ OldOf(t) \subseteq Nat
  <1>1. \A j \in StartOld(t) .. EndOld(t) - 1 : keys[j] \in Nat
    BY Slices, PagesAre, KeysAscend
  <1>2. \A p \in StartPage(t) .. EndPage(t) - 1 : \A i \in 0 .. PageSize(p) - 1 : bufferPages[p][i] \in Nat
    BY Slices, PagesAre, PageBetween
  <1> QED BY <1>1, <1>2, InBufOf DEF OldOf

LEMMA EmptyBetween ==
  ASSUME DataInv, NEW p \in 0 .. NumPages, NEW q \in 0 .. NumPages, p <= q,
         \A r \in p .. q - 1 : PageSize(r) = 0
  PROVE  BufBefore(q) = BufBefore(p)
  <1> DEFINE Odd == {r \in p .. q : BufBefore(r) # BufBefore(p)}
  <1>1. Odd = {}
    <2> SUFFICES ASSUME Odd # {} PROVE FALSE
      OBVIOUS
    <2>1. PICK r \in Odd : \A i \in Odd : r <= i
      <3>1. \A i \in Odd : i \in Nat
        OBVIOUS
      <3> HIDE DEF Odd
      <3> QED BY <3>1, LeastNumber
    <2>2. r \in p .. q /\ r # p /\ BufBefore(r) # BufBefore(p)
      OBVIOUS
    <2>3. PICK s \in p .. q - 1 : r = s + 1 /\ s \in p .. q /\ ~(r <= s)
      <3>1. r - 1 \in p .. q - 1 /\ r = (r - 1) + 1 /\ r - 1 \in p .. q /\ ~(r <= r - 1)
        BY <2>2, PagesAre
      <3> QED BY <3>1
    <2>4. BufBefore(s) = BufBefore(p)
      BY <2>1, <2>3
    <2>5. s \in 0 .. NumPages - 1 /\ s \in 0 .. NumPages /\ PageSize(s) = 0
      BY <2>3, PagesAre
    <2> HIDE DEF Odd
    <2>6. BufBefore(s + 1) = BufBefore(s) + PageSize(s) /\ BufBefore(s) \in Nat
      BY <2>5, BufSteps
    <2> QED BY <2>2, <2>3, <2>4, <2>5, <2>6
  <1>2. q \in p .. q
    BY PagesAre
  <1> QED BY <1>1, <1>2

\* A thread with something to do has old keys: the last pages hold nothing.
LEMMA OpsMeanOld ==
  ASSUME DataInv, NEW t \in Threads, Top(t) - Base(t) > 0
  PROVE  StartOld(t) < EndOld(t)
  <1> SUFFICES ASSUME ~(StartOld(t) < EndOld(t)) PROVE FALSE
    OBVIOUS
  <1>1. /\ StartPage(t) \in 0 .. NumPages - 1 /\ EndPage(t) \in StartPage(t) .. NumPages
        /\ NumPages \in Nat /\ NumPages - 1 \in Nat /\ StartPage(t) \in Nat /\ EndPage(t) \in Nat
        /\ StartPage(t) \in 0 .. NumPages /\ EndPage(t) \in 0 .. NumPages
        /\ StartOld(t) = Ratio * StartPage(t) /\ StartOld(t) \in Nat
        /\ EndOld(t) \in StartOld(t) .. TotalSize /\ TotalSize \in Nat
    BY Slices, PagesAre
  <1>2. EndOld(t) = StartOld(t)
    BY <1>1
  <1>3. ASSUME NEW p \in Nat, NEW q \in Nat, p < q
        PROVE  Ratio * p < Ratio * q
    <2>1. p + 1 <= q
      BY <1>3
    <2>2. Ratio * (p + 1) <= Ratio * q /\ Ratio * (p + 1) = Ratio * p + Ratio /\ Ratio * p \in Nat /\ Ratio * q \in Nat
      BY <1>3, <2>1, RatioAssumption, Product
    <2> QED BY <2>2, RatioAssumption
  <1>4. Found(t) > 0
    BY <1>1, <1>2, SlotsAre
  <1>5. StartPage(t) < EndPage(t)
    <2>1. StartPage(t) # EndPage(t)
      <3> SUFFICES ASSUME StartPage(t) = EndPage(t) PROVE FALSE
        OBVIOUS
      <3>1. Found(t) = 0
        BY <1>1, BufSteps DEF Found
      <3> QED BY <1>4, <3>1
    <2> QED BY <1>1, <2>1
  <1>6. CASE t # Last
    <2>1. EndOld(t) = Ratio * EndPage(t)
      BY <1>6, Slices
    <2> QED BY <1>1, <1>2, <1>3, <1>5, <2>1
  <1>7. CASE t = Last
    <2>1. EndPage(t) = NumPages /\ EndOld(t) = TotalSize
      BY <1>7, Slices
    <2>2. StartPage(t) = NumPages - 1
      <3>1. ~(StartPage(t) < NumPages - 1)
        <4>1. ~(Ratio * StartPage(t) < Ratio * (NumPages - 1))
          BY <1>1, <1>2, <2>1, PagesAre
        <4> QED BY <1>1, <1>3, <4>1
      <3> QED BY <1>1, <3>1
    <2>3. PageSize(NumPages - 1) = 0
      <3>1. NumPages - 1 \in 0 .. NumPages - 1
        BY <1>1
      <3>2. PageSize(NumPages - 1) \in Nat
        BY <3>1, PagesAre
      <3>3. ~(0 \in 0 .. PageSize(NumPages - 1) - 1)
        BY <1>1, <3>1, PageBetween
      <3> QED BY <3>2, <3>3
    <2>4. BufBefore(NumPages) = BufBefore(NumPages - 1)
      <3>1. \A r \in NumPages - 1 .. NumPages - 1 : PageSize(r) = 0
        BY <1>1, <2>3
      <3>2. NumPages - 1 \in 0 .. NumPages /\ NumPages \in 0 .. NumPages /\ NumPages - 1 <= NumPages
        BY <1>1
      <3> QED BY <3>1, <3>2, EmptyBetween
    <2>5. BufBefore(NumPages) \in Nat
      BY <1>1, BufSteps
    <2> QED BY <1>4, <2>1, <2>2, <2>4, <2>5 DEF Found
  <1> QED BY <1>6, <1>7

-----------------------------------------------------------------------------
(* The next keys.                                                          *)

IsCursor(c) ==
  DOMAIN c = {"page", "inPage", "old", "new", "targets", "oldKey", "bufKey", "oldEnd", "bufEnd"}

\* What the fetches of the buffered keys leave alone, and those of the old ones.
KeepsOld(c, d) ==
  /\ IsCursor(d) /\ d.old = c.old /\ d.oldKey = c.oldKey /\ d.oldEnd = c.oldEnd
  /\ d.new = c.new /\ d.targets = c.targets
KeepsBuf(c, d) ==
  /\ IsCursor(d) /\ d.page = c.page /\ d.inPage = c.inPage /\ d.bufKey = c.bufKey /\ d.bufEnd = c.bufEnd
  /\ d.new = c.new /\ d.targets = c.targets

\* The next old key and the next buffered key, as numbers in the inputs.
OldPos(c) == IF c.oldEnd THEN c.old ELSE c.old - 1
BufPos(t, c) == IF c.bufEnd THEN BufBefore(EndPage(t)) ELSE BufBefore(c.page) + c.inPage - 1

\* The keys fetched are those at the positions.
OldAt(t, c) ==
  /\ c.old \in StartOld(t) + 1 .. TotalSize
  /\ ~c.oldEnd => c.oldKey = keys[c.old - 1]
BufAt(t, c) ==
  ~c.bufEnd => /\ c.page \in StartPage(t) .. EndPage(t) - 1
               /\ c.inPage \in 1 .. PageSize(c.page)
               /\ c.bufKey = bufferPages[c.page][c.inPage - 1]

LEMMA NextPageIs ==
  ASSUME DataInv, NEW p \in 0 .. NumPages
  PROVE  /\ NextPage(p) \in p .. NumPages
         /\ NextPage(p) < NumPages => PageSize(NextPage(p)) > 0
         /\ \A r \in p .. NextPage(p) - 1 : PageSize(r) = 0
  <1> DEFINE Stops == {q \in p .. NumPages : q = NumPages \/ Size(bufferPages[q]) # 0}
  <1>1. NumPages \in Nat /\ p \in Nat
    BY PagesAre
  <1>2. NumPages \in Stops /\ \A q \in Stops : q \in Nat
    BY <1>1
  <1>3. NextPage(p) = Min(Stops)
    BY DEF NextPage
  <1>4. NextPage(p) \in Stops /\ \A q \in Stops : NextPage(p) <= q
    <2> HIDE DEF Stops
    <2> QED BY <1>2, <1>3, Smallest
  <1>5. PICK n \in Nat : n = NextPage(p) /\ n \in p .. NumPages /\ (n = NumPages \/ PageSize(n) # 0)
    BY <1>1, <1>4 DEF PageSize
  <1>6. n < NumPages => PageSize(n) > 0
    <2>1. n < NumPages => PageSize(n) \in Nat
      BY <1>1, <1>5, PagesAre
    <2> QED BY <1>1, <1>5, <2>1
  <1>7. ASSUME NEW r \in p .. n - 1 PROVE PageSize(r) = 0
    <2>1. r \in p .. NumPages /\ ~(n <= r)
      BY <1>1, <1>5
    <2>2. ~(r \in Stops)
      <3> HIDE DEF Stops
      <3> QED BY <1>4, <1>5, <2>1
    <2> QED BY <2>1, <2>2 DEF PageSize
  <1> QED BY <1>5, <1>6, <1>7

LEMMA FetchPageIs ==
  ASSUME DataInv, NEW t \in Threads, NEW c, IsCursor(c), c.bufEnd = FALSE,
         NEW p \in 0 .. NumPages, StartPage(t) <= p, p <= EndPage(t),
         NEW d, d = FetchPage(c, t, p)
  PROVE  /\ KeepsOld(c, d) /\ BufAt(t, d) /\ BufPos(t, d) = BufBefore(p)
         /\ ~d.bufEnd => d.page >= p /\ d.inPage = 1
         /\ \A r \in p .. EndPage(t) - 1 : d.bufEnd \/ r < d.page => PageSize(r) = 0
  <1>1. PICK q \in Nat : q = NextPage(p)
    BY NextPageIs, PagesAre
  <1>2. /\ q \in p .. NumPages /\ (q < NumPages => PageSize(q) > 0)
        /\ \A r \in p .. q - 1 : PageSize(r) = 0
    BY <1>1, NextPageIs
  <1>3. /\ NumPages \in Nat /\ StartPage(t) \in Nat /\ EndPage(t) \in 0 .. NumPages /\ p \in Nat
    BY Slices, PagesAre
  <1>4. BufBefore(p) \in Nat
    BY BufSteps
  <1>5. CASE q < EndPage(t)
    <2>1. d = [c EXCEPT !.page = q, !.bufKey = bufferPages[q][0], !.inPage = 1]
      BY <1>1, <1>5 DEF FetchPage
    <2>2. /\ KeepsOld(c, d) /\ d.bufEnd = FALSE
          /\ d.page = q /\ d.inPage = 1 /\ d.bufKey = bufferPages[q][0]
      BY <2>1 DEF IsCursor, KeepsOld
    <2>3. BufBefore(q) = BufBefore(p)
      BY <1>2, <1>3, EmptyBetween
    <2>4. PageSize(q) \in Nat /\ PageSize(q) > 0 /\ q \in StartPage(t) .. EndPage(t) - 1
      BY <1>2, <1>3, <1>5, PagesAre
    <2>5. BufAt(t, d)
      BY <2>2, <2>4 DEF BufAt
    <2>6. BufPos(t, d) = BufBefore(p)
      BY <1>4, <2>2, <2>3 DEF BufPos
    <2> QED BY <1>2, <1>3, <2>2, <2>5, <2>6
  <1>6. CASE ~(q < EndPage(t))
    <2>1. d = [c EXCEPT !.page = q, !.inPage = 0, !.bufEnd = TRUE]
      BY <1>1, <1>6 DEF FetchPage
    <2>2. KeepsOld(c, d) /\ d.bufEnd = TRUE
      BY <2>1 DEF IsCursor, KeepsOld
    <2>3. \A r \in p .. EndPage(t) - 1 : PageSize(r) = 0
      BY <1>2, <1>3, <1>6
    <2>4. BufBefore(EndPage(t)) = BufBefore(p)
      BY <1>3, <2>3, EmptyBetween
    <2> QED BY <2>2, <2>3, <2>4 DEF BufAt, BufPos
  <1> QED BY <1>5, <1>6

\* The next buffered key is the next in order: the one before it is the
\* greatest of those behind.
LEMMA FetchBufIs ==
  ASSUME DataInv, NEW t \in Threads, NEW c, IsCursor(c), c.bufEnd = FALSE, BufAt(t, c),
         NEW d, d = FetchBuf(c, t)
  PROVE  /\ KeepsOld(c, d) /\ BufAt(t, d) /\ BufPos(t, d) = BufPos(t, c) + 1
         /\ c.bufKey \in BufOf(t) /\ (~d.bufEnd => c.bufKey < d.bufKey)
         /\ \A k \in BufOf(t) : d.bufEnd \/ k < d.bufKey => k <= c.bufKey
  <1>1. /\ NumPages \in Nat /\ StartPage(t) \in 0 .. NumPages /\ EndPage(t) \in 0 .. NumPages
    BY Slices, PagesAre
  <1>2. PICK p \in 0 .. NumPages - 1 : p = c.page /\ p \in StartPage(t) .. EndPage(t) - 1
    BY <1>1 DEF BufAt
  <1>3. PICK s \in Nat : s = PageSize(p)
    BY PagesAre
  <1>4. PICK i \in 1 .. s : i = c.inPage /\ c.bufKey = bufferPages[p][i - 1]
    BY <1>2, <1>3 DEF BufAt
  <1>5. BufBefore(p) \in Nat /\ BufBefore(p + 1) = BufBefore(p) + s /\ BufPos(t, c) = BufBefore(p) + i - 1
    BY <1>1, <1>2, <1>3, <1>4, BufSteps DEF BufPos
  <1>6. c.bufKey \in BufOf(t)
    <2>1. i - 1 \in 0 .. PageSize(p) - 1
      BY <1>3
    <2> QED BY <1>2, <1>4, <2>1, InBufOf
  <1>7. Size(bufferPages[c.page]) = s
    BY <1>2, <1>3 DEF PageSize
  <1>8. \A k \in BufOf(t) : k \in Nat
    BY SlicesAreNat
  <1>9. CASE i < s
    <2>1. d = [c EXCEPT !.bufKey = bufferPages[p][i], !.inPage = i + 1]
      BY <1>2, <1>4, <1>7, <1>9 DEF FetchBuf
    <2>2. /\ KeepsOld(c, d) /\ d.bufEnd = FALSE /\ d.page = p /\ d.inPage = i + 1
          /\ d.bufKey = bufferPages[p][i]
      BY <1>2, <2>1 DEF IsCursor, KeepsOld
    <2>3. BufAt(t, d)
      BY <1>2, <1>3, <1>9, <2>2 DEF BufAt
    <2>4. BufPos(t, d) = BufPos(t, c) + 1
      BY <1>5, <2>2 DEF BufPos
    <2>5. c.bufKey < d.bufKey
      <3>1. i - 1 \in 0 .. PageSize(p) - 1 /\ i \in 0 .. PageSize(p) - 1 /\ i - 1 < i
        BY <1>3, <1>9
      <3> QED BY <1>4, <2>2, <3>1, PagesAscend
    <2>6. ASSUME NEW k \in BufOf(t), k < d.bufKey PROVE k <= c.bufKey
      <3>1. PICK r \in StartPage(t) .. EndPage(t) - 1 : \E j \in 0 .. PageSize(r) - 1 : k = bufferPages[r][j]
        BY InBufOf
      <3>2. PICK j \in 0 .. PageSize(r) - 1 : k = bufferPages[r][j]
        BY <3>1
      <3>3. r \in 0 .. NumPages - 1 /\ k \in Nat /\ c.bufKey \in Nat /\ d.bufKey \in Nat
        <4>1. i \in 0 .. PageSize(p) - 1
          BY <1>3, <1>9
        <4> QED BY <1>1, <1>6, <1>8, <2>2, <4>1, PageBetween
      <3>4. CASE r < p \/ (r = p /\ j < i - 1)
        <4>1. i - 1 \in 0 .. PageSize(p) - 1
          BY <1>3
        <4>2. k < c.bufKey
          BY <1>4, <3>2, <3>3, <3>4, <4>1, PagesAscend
        <4> QED BY <3>3, <4>2
      <3>5. CASE r = p /\ j = i - 1
        BY <1>4, <3>2, <3>3, <3>5
      <3>6. CASE r = p /\ j = i
        BY <2>2, <2>6, <3>2, <3>3, <3>6
      <3>7. CASE r > p \/ (r = p /\ i < j)
        <4>1. i \in 0 .. PageSize(p) - 1 /\ (p < r \/ (p = r /\ i < j))
          BY <1>3, <1>9, <3>3, <3>7
        <4>2. d.bufKey < k
          <5>1. i \in 0 .. PageSize(p) - 1
            BY <1>3, <1>9
          <5> QED BY <2>2, <3>2, <3>3, <4>1, <5>1, PagesAscend
        <4> QED BY <2>6, <3>3, <4>2
      <3> QED BY <3>3, <3>4, <3>5, <3>6, <3>7
    <2> QED BY <1>6, <2>2, <2>3, <2>4, <2>5, <2>6
  <1>10. CASE ~(i < s)
    <2>1. d = FetchPage(c, t, p + 1) /\ i = s
      BY <1>2, <1>4, <1>7, <1>10 DEF FetchBuf
    <2>2. p + 1 \in 0 .. NumPages /\ StartPage(t) <= p + 1 /\ p + 1 <= EndPage(t)
      BY <1>1, <1>2
    <2>3. /\ KeepsOld(c, d) /\ BufAt(t, d) /\ BufPos(t, d) = BufBefore(p + 1)
          /\ ~d.bufEnd => d.page >= p + 1 /\ d.inPage = 1
          /\ \A r \in p + 1 .. EndPage(t) - 1 : d.bufEnd \/ r < d.page => PageSize(r) = 0
      BY <2>1, <2>2, FetchPageIs
    <2>4. BufPos(t, d) = BufPos(t, c) + 1
      BY <1>5, <2>1, <2>3
    <2>5. ASSUME ~d.bufEnd
          PROVE  /\ d.page \in 0 .. NumPages - 1 /\ d.page > p /\ d.page \in StartPage(t) .. EndPage(t) - 1
                 /\ 0 \in 0 .. PageSize(d.page) - 1 /\ d.bufKey = bufferPages[d.page][0]
      <3>1. d.page \in StartPage(t) .. EndPage(t) - 1 /\ d.inPage \in 1 .. PageSize(d.page)
            /\ d.bufKey = bufferPages[d.page][d.inPage - 1]
        BY <2>3, <2>5 DEF BufAt
      <3>2. d.inPage = 1 /\ d.page >= p + 1
        BY <2>3, <2>5
      <3>3. d.page \in 0 .. NumPages - 1
        BY <1>1, <3>1
      <3>4. PageSize(d.page) \in Nat
        BY <3>3, PagesAre
      <3> QED BY <1>1, <1>2, <3>1, <3>2, <3>3, <3>4
    <2>6. ASSUME ~d.bufEnd PROVE c.bufKey < d.bufKey
      <3>1. i - 1 \in 0 .. PageSize(p) - 1
        BY <1>3
      <3> QED BY <1>4, <2>5, <2>6, <3>1, PagesAscend
    <2>7. ASSUME NEW k \in BufOf(t), d.bufEnd \/ k < d.bufKey PROVE k <= c.bufKey
      <3>1. PICK r \in StartPage(t) .. EndPage(t) - 1 : \E j \in 0 .. PageSize(r) - 1 : k = bufferPages[r][j]
        BY InBufOf
      <3>2. PICK j \in 0 .. PageSize(r) - 1 : k = bufferPages[r][j]
        BY <3>1
      <3>3. r \in 0 .. NumPages - 1 /\ k \in Nat /\ c.bufKey \in Nat
        BY <1>1, <1>6, <1>8
      <3>4. CASE r < p \/ (r = p /\ j < i - 1)
        <4>1. i - 1 \in 0 .. PageSize(p) - 1
          BY <1>3
        <4>2. k < c.bufKey
          BY <1>4, <3>2, <3>3, <3>4, <4>1, PagesAscend
        <4> QED BY <3>3, <4>2
      <3>5. CASE r = p /\ j = i - 1
        BY <1>4, <3>2, <3>3, <3>5
      <3>6. CASE r = p /\ j > i - 1
        BY <1>3, <2>1, <3>6
      <3>7. CASE r > p
        <4>1. r \in p + 1 .. EndPage(t) - 1 /\ PageSize(r) # 0
          BY <1>1, <3>2, <3>3, <3>7
        <4>2. ~d.bufEnd /\ ~(r < d.page)
          BY <2>3, <4>1
        <4>3. d.bufKey = k \/ d.bufKey < k
          <5>1. CASE r = d.page /\ j = 0
            BY <2>5, <3>2, <4>2, <5>1
          <5>2. CASE r > d.page \/ (r = d.page /\ 0 < j)
            <6>1. d.page < r \/ (d.page = r /\ 0 < j)
              BY <1>1, <2>5, <3>3, <4>2, <5>2
            <6> QED BY <2>5, <3>2, <3>3, <4>2, <6>1, PagesAscend
          <5> QED BY <1>1, <2>5, <3>2, <3>3, <4>2, <5>1, <5>2
        <4>4. d.bufKey \in Nat
          BY <2>5, <4>2, PageBetween
        <4> QED BY <2>7, <3>3, <4>2, <4>3, <4>4
      <3> QED BY <1>3, <3>3, <3>4, <3>5, <3>6, <3>7
    <2> QED BY <1>6, <2>3, <2>4, <2>6, <2>7
  <1> QED BY <1>9, <1>10

\* The next old key, up to a limit.
LEMMA FetchOldIs ==
  ASSUME DataInv, NEW t \in Threads, NEW c, IsCursor(c), c.oldEnd = FALSE, OldAt(t, c),
         NEW limit \in Nat, limit <= TotalSize,
         NEW d, d = FetchOld(c, limit)
  PROVE  /\ KeepsBuf(c, d) /\ OldAt(t, d) /\ OldPos(d) = OldPos(c) + 1
         /\ OldPos(c) \in 0 .. TotalSize - 1 /\ c.oldKey = keys[OldPos(c)]
         /\ d.oldEnd => d.old >= limit
         /\ ~d.oldEnd => d.old <= limit /\ c.oldKey < d.oldKey
  <1>1. /\ TotalSize \in Nat /\ c.old \in Nat /\ c.old \in StartOld(t) + 1 .. TotalSize
        /\ StartOld(t) \in Nat /\ c.oldKey = keys[c.old - 1]
    BY Slices, PagesAre DEF OldAt
  <1>2. OldPos(c) = c.old - 1 /\ OldPos(c) \in 0 .. TotalSize - 1
    BY <1>1 DEF OldPos
  <1>3. CASE c.old < limit
    <2>1. d = [c EXCEPT !.oldKey = keys[c.old], !.old = c.old + 1]
      BY <1>3 DEF FetchOld
    <2>2. KeepsBuf(c, d) /\ d.oldEnd = FALSE /\ d.old = c.old + 1 /\ d.oldKey = keys[c.old]
      BY <2>1 DEF IsCursor, KeepsBuf
    <2>3. OldAt(t, d) /\ OldPos(d) = OldPos(c) + 1
      BY <1>1, <1>2, <1>3, <2>2 DEF OldAt, OldPos
    <2>4. c.old \in 0 .. TotalSize - 1 /\ c.old - 1 \in 0 .. TotalSize - 1 /\ c.old - 1 < c.old
      BY <1>1, <1>3
    <2>5. c.oldKey < d.oldKey
      BY <1>1, <2>2, <2>4, KeysAscend
    <2> QED BY <1>1, <1>2, <1>3, <2>2, <2>3, <2>5
  <1>4. CASE ~(c.old < limit)
    <2>1. d = [c EXCEPT !.oldEnd = TRUE]
      BY <1>4 DEF FetchOld
    <2>2. KeepsBuf(c, d) /\ d.oldEnd = TRUE /\ d.old = c.old
      BY <2>1 DEF IsCursor, KeepsBuf
    <2>3. OldAt(t, d) /\ OldPos(d) = OldPos(c) + 1
      BY <1>1, <1>2, <2>2 DEF OldAt, OldPos
    <2> QED BY <1>1, <1>2, <1>4, <2>2, <2>3
  <1> QED BY <1>3, <1>4

-----------------------------------------------------------------------------
(* One iteration, where no key is in both inputs.                          *)

\* The keys fetched are in the slice.
Fetched(t, c) ==
  /\ OldAt(t, c) /\ BufAt(t, c)
  /\ c.oldEnd => c.old >= EndOld(t)
  /\ ~c.oldEnd /\ ~c.bufEnd => c.old <= EndOld(t)
  /\ OldPos(c) <= EndOld(t)

\* As many keys have been put as have been taken.
Inputs(t, c) ==
  /\ Fetched(t, c)
  /\ c.new - Base(t) = (OldPos(c) - StartOld(t)) + (BufPos(t, c) - BufBefore(StartPage(t)))

\* The slots filled hold, in order, the keys of the slice before the next ones.
Contents(t, c, a) ==
  /\ \A i \in Base(t) .. c.new - 1 :
       /\ a[i] \in BufOf(t) \cup OldOf(t)
       /\ ~c.oldEnd => a[i] < c.oldKey
       /\ ~c.bufEnd => a[i] < c.bufKey
  /\ \A i, j \in Base(t) .. c.new - 1 : i < j => a[i] < a[j]
  /\ \A j \in StartOld(t) .. EndOld(t) - 1 :
       j < OldPos(c) => \E i \in Base(t) .. c.new - 1 : a[i] = keys[j]
  /\ \A k \in BufOf(t) :
       c.bufEnd \/ k < c.bufKey => \E i \in Base(t) .. c.new - 1 : a[i] = k

\* k is the smaller of the next keys of c, and d the cursor behind it.
Merges(t, c, d, k) ==
  /\ k \in BufOf(t) \cup OldOf(t)
  /\ (k = c.oldKey /\ ~c.oldEnd) \/ (k = c.bufKey /\ ~c.bufEnd)
  /\ ~d.oldEnd => k < d.oldKey
  /\ ~d.bufEnd => k < d.bufKey
  /\ OldPos(d) + BufPos(t, d) = OldPos(c) + BufPos(t, c) + 1
  /\ \A j \in StartOld(t) .. EndOld(t) - 1 : j < OldPos(d) => j < OldPos(c) \/ keys[j] = k
  /\ \A l \in BufOf(t) : d.bufEnd \/ l < d.bufKey => c.bufEnd \/ l < c.bufKey \/ l = k

Moves(t, c, d, k) ==
  IsCursor(d) /\ d.new = c.new /\ d.targets = c.targets /\ Fetched(t, d) /\ Merges(t, c, d, k)

\* The positions are numbers.
LEMMA PositionsAre ==
  ASSUME DataInv, NEW t \in Threads, NEW c, Fetched(t, c)
  PROVE  /\ OldPos(c) \in Nat /\ c.old \in Nat /\ StartOld(t) <= OldPos(c) /\ OldPos(c) <= EndOld(t)
         /\ BufPos(t, c) \in Nat /\ BufPos(t, c) <= BufBefore(EndPage(t))
         /\ ~c.bufEnd => BufPos(t, c) < BufBefore(EndPage(t))
         /\ ~c.bufEnd => c.bufKey \in BufOf(t)
         /\ ~c.oldEnd => c.oldKey \in Nat /\ c.oldKey = keys[OldPos(c)] /\ OldPos(c) \in 0 .. TotalSize - 1
         /\ StartOld(t) \in Nat /\ EndOld(t) \in Nat /\ TotalSize \in Nat /\ EndOld(t) <= TotalSize
         /\ BufBefore(StartPage(t)) \in Nat /\ BufBefore(EndPage(t)) \in Nat
  <1>1. /\ NumPages \in Nat /\ StartPage(t) \in 0 .. NumPages /\ EndPage(t) \in 0 .. NumPages
        /\ StartOld(t) \in Nat /\ EndOld(t) \in Nat /\ TotalSize \in Nat /\ EndOld(t) <= TotalSize
    BY Slices, PagesAre
  <1>2. c.old \in StartOld(t) + 1 .. TotalSize /\ OldPos(c) <= EndOld(t)
    BY DEF Fetched, OldAt
  <1>3. OldPos(c) \in Nat /\ StartOld(t) <= OldPos(c) /\ c.old \in Nat
    BY <1>1, <1>2 DEF OldPos
  <1>4. ASSUME ~c.oldEnd
        PROVE  c.oldKey \in Nat /\ c.oldKey = keys[OldPos(c)] /\ OldPos(c) \in 0 .. TotalSize - 1
    <2>1. c.oldKey = keys[c.old - 1] /\ OldPos(c) = c.old - 1
      BY <1>4 DEF Fetched, OldAt, OldPos
    <2>2. OldPos(c) \in 0 .. TotalSize - 1
      BY <1>1, <1>2, <1>3, <2>1
    <2> QED BY <2>1, <2>2, KeysAscend
  <1>5. BufBefore(EndPage(t)) \in Nat /\ BufBefore(StartPage(t)) \in Nat
    BY <1>1, BufSteps
  <1>6. CASE c.bufEnd
    <2>1. BufPos(t, c) = BufBefore(EndPage(t))
      BY <1>6 DEF BufPos
    <2> QED BY <1>1, <1>2, <1>3, <1>4, <1>5, <1>6, <2>1
  <1>7. CASE ~c.bufEnd
    <2>1. /\ c.page \in StartPage(t) .. EndPage(t) - 1 /\ c.inPage \in 1 .. PageSize(c.page)
          /\ c.bufKey = bufferPages[c.page][c.inPage - 1]
      BY <1>7 DEF Fetched, BufAt
    <2>2. PICK p \in 0 .. NumPages - 1 : p = c.page /\ p + 1 \in 0 .. NumPages /\ p + 1 <= EndPage(t)
      BY <1>1, <2>1
    <2>3. PageSize(p) \in Nat /\ BufBefore(p) \in Nat /\ BufBefore(p + 1) = BufBefore(p) + PageSize(p)
      BY <1>1, <2>2, PagesAre, BufSteps
    <2>4. BufBefore(p + 1) <= BufBefore(EndPage(t))
      BY <1>1, <2>2, BufBetween
    <2>5. BufPos(t, c) = BufBefore(p) + c.inPage - 1
      BY <1>7, <2>2 DEF BufPos
    <2>6. c.bufKey \in BufOf(t)
      <3>1. c.inPage - 1 \in 0 .. PageSize(c.page) - 1
        BY <2>1, <2>2, <2>3
      <3> QED BY <2>1, <3>1, InBufOf
    <2>7. BufPos(t, c) \in Nat /\ BufPos(t, c) < BufBefore(EndPage(t))
      BY <1>5, <2>1, <2>2, <2>3, <2>4, <2>5
    <2> QED BY <1>1, <1>2, <1>3, <1>4, <1>5, <1>7, <2>6, <2>7
  <1> QED BY <1>6, <1>7

\* An old key is put.
LEMMA OldMerges ==
  ASSUME DataInv, NEW t \in Threads, NEW c, IsCursor(c), Fetched(t, c),
         c.oldEnd = FALSE, c.bufEnd \/ c.oldKey < c.bufKey, OldPos(c) < EndOld(t),
         NEW limit \in Nat, limit <= TotalSize, EndOld(t) <= limit,
         c.bufEnd \/ limit = EndOld(t),
         NEW d, d = FetchOld(c, limit)
  PROVE  Moves(t, c, d, c.oldKey)
  <1>1. /\ KeepsBuf(c, d) /\ OldAt(t, d) /\ OldPos(d) = OldPos(c) + 1
        /\ OldPos(c) \in 0 .. TotalSize - 1 /\ c.oldKey = keys[OldPos(c)]
        /\ d.oldEnd => d.old >= limit
        /\ ~d.oldEnd => d.old <= limit /\ c.oldKey < d.oldKey
    BY FetchOldIs DEF Fetched
  <1>2. /\ d.page = c.page /\ d.inPage = c.inPage /\ d.bufKey = c.bufKey /\ d.bufEnd = c.bufEnd
        /\ d.new = c.new /\ d.targets = c.targets /\ IsCursor(d)
    BY <1>1 DEF KeepsBuf
  <1>3. BufAt(t, d) /\ BufPos(t, d) = BufPos(t, c)
    BY <1>2 DEF BufAt, BufPos, Fetched
  <1>4. /\ OldPos(c) \in Nat /\ StartOld(t) <= OldPos(c) /\ StartOld(t) \in Nat /\ EndOld(t) \in Nat
        /\ BufPos(t, c) \in Nat
    BY PositionsAre
  <1>5. c.oldKey \in OldOf(t)
    <2>1. OldPos(c) \in StartOld(t) .. EndOld(t) - 1
      BY <1>4
    <2> QED BY <1>1, <2>1 DEF OldOf
  <1>6. Fetched(t, d)
    <2>1. OldPos(d) <= EndOld(t)
      BY <1>1, <1>4
    <2>2. d.old \in Nat
      <3>1. d.old \in StartOld(t) + 1 .. TotalSize
        BY <1>1 DEF OldAt
      <3> QED BY <1>4, <3>1, PagesAre
    <2>3. d.oldEnd => d.old >= EndOld(t)
      BY <1>1, <1>4, <2>2
    <2>4. ~d.oldEnd /\ ~d.bufEnd => d.old <= EndOld(t)
      BY <1>1, <1>2
    <2> QED BY <1>1, <1>3, <2>1, <2>3, <2>4 DEF Fetched
  <1>7. Merges(t, c, d, c.oldKey)
    <2>1. \A j \in StartOld(t) .. EndOld(t) - 1 : j < OldPos(d) => j < OldPos(c) \/ keys[j] = c.oldKey
      <3>1. \A j \in StartOld(t) .. EndOld(t) - 1 : j < OldPos(d) => j < OldPos(c) \/ j = OldPos(c)
        BY <1>1, <1>4
      <3> QED BY <1>1, <3>1
    <2>2. OldPos(d) + BufPos(t, d) = OldPos(c) + BufPos(t, c) + 1
      BY <1>1, <1>3, <1>4
    <2> QED BY <1>1, <1>2, <1>5, <2>1, <2>2 DEF Merges
  <1> QED BY <1>2, <1>6, <1>7 DEF Moves

\* A buffered key is put.
LEMMA BufMerges ==
  ASSUME DataInv, NEW t \in Threads, NEW c, IsCursor(c), Fetched(t, c),
         c.bufEnd = FALSE, c.oldEnd \/ c.bufKey < c.oldKey,
         NEW d, d = FetchBuf(c, t)
  PROVE  Moves(t, c, d, c.bufKey)
  <1>1. /\ KeepsOld(c, d) /\ BufAt(t, d) /\ BufPos(t, d) = BufPos(t, c) + 1
        /\ c.bufKey \in BufOf(t) /\ (~d.bufEnd => c.bufKey < d.bufKey)
        /\ \A k \in BufOf(t) : d.bufEnd \/ k < d.bufKey => k <= c.bufKey
    BY FetchBufIs DEF Fetched
  <1>2. /\ d.old = c.old /\ d.oldKey = c.oldKey /\ d.oldEnd = c.oldEnd
        /\ d.new = c.new /\ d.targets = c.targets /\ IsCursor(d)
    BY <1>1 DEF KeepsOld
  <1>3. OldAt(t, d) /\ OldPos(d) = OldPos(c)
    BY <1>2 DEF OldAt, OldPos, Fetched
  <1>4. Fetched(t, d)
    BY <1>1, <1>2, <1>3 DEF Fetched
  <1>5. OldPos(c) \in Nat /\ BufPos(t, c) \in Nat
    BY PositionsAre
  <1>6. OldPos(d) + BufPos(t, d) = OldPos(c) + BufPos(t, c) + 1
    BY <1>1, <1>3, <1>5
  <1>7. \A l \in BufOf(t) : d.bufEnd \/ l < d.bufKey => l < c.bufKey \/ l = c.bufKey
    <2>1. \A l \in BufOf(t) : l \in Nat
      BY SlicesAreNat
    <2> QED BY <1>1, <2>1
  <1>8. Merges(t, c, d, c.bufKey)
    BY <1>1, <1>2, <1>3, <1>6, <1>7 DEF Merges
  <1> QED BY <1>2, <1>4, <1>8 DEF Moves

\* The cursor behind an iteration.
Advanced(d) == [d EXCEPT !.new = @ + 1, !.targets = @ + 1]

Stored(a, i, k) == [a EXCEPT ![i] = k]

\* What the iteration makes of the slots.
LEMMA PutContents ==
  ASSUME DataInv, NEW t \in Threads, NEW c, NEW d, NEW k, NEW a, NEW b, NEW e,
         Inputs(t, c), Contents(t, c, a), Moves(t, c, d, k),
         c.new \in Nat, c.targets \in Nat, Base(t) <= c.new, \A i \in 0 .. c.new : i \in DOMAIN a,
         e = Advanced(d),
         b = Stored(a, c.new, k)
  PROVE  /\ IsCursor(e) /\ e.new = c.new + 1 /\ e.targets = c.targets + 1
         /\ Inputs(t, e) /\ Contents(t, e, b)
  <1>1. /\ IsCursor(e) /\ e.new = c.new + 1 /\ e.targets = c.targets + 1
        /\ e.page = d.page /\ e.inPage = d.inPage /\ e.bufKey = d.bufKey /\ e.bufEnd = d.bufEnd
        /\ e.old = d.old /\ e.oldKey = d.oldKey /\ e.oldEnd = d.oldEnd
    BY DEF IsCursor, Moves, Advanced
  <1>2. Base(t) \in Nat
    BY SlotsAre
  <1>3. OldPos(e) = OldPos(d) /\ BufPos(t, e) = BufPos(t, d)
    BY <1>1 DEF OldPos, BufPos
  <1>4. Fetched(t, c) /\ Fetched(t, d)
    BY DEF Inputs, Moves
  <1>5. Fetched(t, e)
    BY <1>1, <1>3, <1>4 DEF Fetched, OldAt, BufAt
  <1>6. Inputs(t, e)
    <2>1. c.new - Base(t) = (OldPos(c) - StartOld(t)) + (BufPos(t, c) - BufBefore(StartPage(t)))
      BY DEF Inputs
    <2>2. OldPos(d) + BufPos(t, d) = OldPos(c) + BufPos(t, c) + 1
      BY DEF Moves, Merges
    <2>3. /\ OldPos(c) \in Nat /\ BufPos(t, c) \in Nat /\ OldPos(d) \in Nat /\ BufPos(t, d) \in Nat
          /\ StartOld(t) \in Nat /\ BufBefore(StartPage(t)) \in Nat
      BY <1>4, PositionsAre
    <2>4. e.new - Base(t) = (OldPos(e) - StartOld(t)) + (BufPos(t, e) - BufBefore(StartPage(t)))
      BY <1>1, <1>2, <1>3, <2>1, <2>2, <2>3
    <2> QED BY <1>5, <2>4 DEF Inputs
  <1>7. /\ b[c.new] = k /\ \A i \in Base(t) .. c.new - 1 : b[i] = a[i]
        /\ \A i \in Base(t) .. e.new - 1 : i = c.new \/ i \in Base(t) .. c.new - 1
        /\ c.new \in Base(t) .. e.new - 1 /\ \A i \in Base(t) .. c.new - 1 : i \in Base(t) .. e.new - 1
    <2>1. b[c.new] = k
      <3>1. c.new \in DOMAIN a
        OBVIOUS
      <3> QED BY <3>1 DEF Stored
    <2>2. \A i \in Base(t) .. c.new - 1 : i # c.new
      BY <1>2
    <2>3. \A i \in Base(t) .. c.new - 1 : b[i] = a[i]
      <3>1. \A i \in Base(t) .. c.new - 1 : i \in DOMAIN a
        BY <1>2
      <3> QED BY <2>2, <3>1 DEF Stored
    <2>4. \A i \in Base(t) .. e.new - 1 : i = c.new \/ i \in Base(t) .. c.new - 1
      BY <1>1, <1>2
    <2>5. c.new \in Base(t) .. e.new - 1 /\ \A i \in Base(t) .. c.new - 1 : i \in Base(t) .. e.new - 1
      BY <1>1, <1>2
    <2> QED BY <2>1, <2>3, <2>4, <2>5
  <1>8. /\ k \in BufOf(t) \cup OldOf(t)
        /\ (k = c.oldKey /\ ~c.oldEnd) \/ (k = c.bufKey /\ ~c.bufEnd)
        /\ ~e.oldEnd => k < e.oldKey
        /\ ~e.bufEnd => k < e.bufKey
        /\ \A j \in StartOld(t) .. EndOld(t) - 1 : j < OldPos(e) => j < OldPos(c) \/ keys[j] = k
        /\ \A l \in BufOf(t) : e.bufEnd \/ l < e.bufKey => c.bufEnd \/ l < c.bufKey \/ l = k
    BY <1>1, <1>3 DEF Moves, Merges
  <1>9. /\ k \in Nat /\ (~e.oldEnd => e.oldKey \in Nat) /\ (~e.bufEnd => e.bufKey \in Nat)
        /\ \A l \in BufOf(t) \cup OldOf(t) : l \in Nat
    BY <1>5, <1>8, PositionsAre, SlicesAreNat
  <1>10. ASSUME NEW i \in Base(t) .. c.new - 1
         PROVE  b[i] \in BufOf(t) \cup OldOf(t) /\ b[i] \in Nat /\ b[i] < k
    BY <1>7, <1>8, <1>9 DEF Contents
  <1>11. ASSUME NEW i \in Base(t) .. e.new - 1
         PROVE  /\ b[i] \in BufOf(t) \cup OldOf(t)
                /\ ~e.oldEnd => b[i] < e.oldKey
                /\ ~e.bufEnd => b[i] < e.bufKey
    <2>1. CASE i = c.new
      BY <1>7, <1>8, <2>1
    <2>2. CASE i \in Base(t) .. c.new - 1
      BY <1>8, <1>9, <1>10, <2>2
    <2> QED BY <1>7, <2>1, <2>2
  <1>12. ASSUME NEW i \in Base(t) .. e.new - 1, NEW j \in Base(t) .. e.new - 1, i < j
         PROVE  b[i] < b[j]
    <2>1. i \in Base(t) .. c.new - 1
      BY <1>1, <1>2, <1>12
    <2>2. CASE j = c.new
      BY <1>7, <1>10, <2>1, <2>2
    <2>3. CASE j \in Base(t) .. c.new - 1
      BY <1>7, <1>12, <2>1, <2>3 DEF Contents
    <2> QED BY <1>7, <2>2, <2>3
  <1>13. ASSUME NEW j \in StartOld(t) .. EndOld(t) - 1, j < OldPos(e)
         PROVE  \E i \in Base(t) .. e.new - 1 : b[i] = keys[j]
    <2>1. CASE keys[j] = k
      BY <1>7, <2>1
    <2>2. CASE j < OldPos(c)
      <3>1. PICK i \in Base(t) .. c.new - 1 : a[i] = keys[j]
        BY <2>2 DEF Contents
      <3> QED BY <1>7, <3>1
    <2> QED BY <1>8, <1>13, <2>1, <2>2
  <1>14. ASSUME NEW l \in BufOf(t), e.bufEnd \/ l < e.bufKey
         PROVE  \E i \in Base(t) .. e.new - 1 : b[i] = l
    <2>1. CASE l = k
      BY <1>7, <2>1
    <2>2. CASE c.bufEnd \/ l < c.bufKey
      <3>1. PICK i \in Base(t) .. c.new - 1 : a[i] = l
        BY <2>2 DEF Contents
      <3> QED BY <1>7, <3>1
    <2> QED BY <1>8, <1>14, <2>1, <2>2
  <1>15. Contents(t, e, b)
    BY <1>11, <1>12, <1>13, <1>14 DEF Contents
  <1> QED BY <1>1, <1>6, <1>15

-----------------------------------------------------------------------------
(* The barriers, and the partial keys of a thread.                         *)

\* Nobody samples before all have merged, and thread 0 has laid out the arrays
\* by then.
Sampling(t) == pc[t] \in {"partial", "done"}

BarrierInv ==
  /\ pc \in [Threads -> PC]
  /\ \A t, u \in Threads : Sampling(t) => pc[u] \notin Before3
  /\ \A t \in Threads : pc[t] = "plan" => t = 0
  /\ pc[0] \in {"count", "bar1", "plan"} \/ DOMAIN newPartial = 0 .. newTotal \div Ratio

\* A thread that is done has sampled its slice.
Sampled(t) ==
  \A i \in DOMAIN newPartial :
    Ratio * i \in Processing * t .. EndProcessing(t) - 1 => newPartial[i] = newKeys[Ratio * i]

SampledInv == BarrierInv /\ \A t \in Threads : pc[t] = "done" => Sampled(t)

LEMMA ThreadZero == 0 \in Threads /\ Last \in Threads
  BY NumThreadsAssumption DEF Threads, Last

LEMMA SampledInit == Init => SampledInv
  BY ThreadZero DEF Init, SampledInv, BarrierInv, Sampling, PC, Threads

\* The steps before the third barrier: nobody has sampled anything.
LEMMA BeforeSampling ==
  ASSUME SampledInv, NEW t \in Threads, pc[t] \in Before3, NEW label \in PC,
         pc' = [pc EXCEPT ![t] = label], label \notin {"partial", "done"},
         label = "plan" => t = 0,
         t = 0 /\ label \notin {"count", "bar1", "plan"} =>
           \/ DOMAIN newPartial' = 0 .. newTotal' \div Ratio
           \/ pc[0] \notin {"count", "bar1", "plan"} /\ UNCHANGED <<newPartial, newTotal>>,
         t # 0 => UNCHANGED <<newPartial, newTotal>>
  PROVE  SampledInv'
  <1>1. \A u \in Threads : ~Sampling(u) /\ ~Sampling(u)'
    BY DEF SampledInv, BarrierInv, Sampling
  <1>2. pc' \in [Threads -> PC] /\ \A u \in Threads : pc'[u] = "plan" => u = 0
    BY DEF SampledInv, BarrierInv
  <1>3. pc'[0] \in {"count", "bar1", "plan"} \/ DOMAIN newPartial' = 0 .. newTotal' \div Ratio
    <2>1. CASE t = 0
      <3>1. pc'[0] = label
        BY <2>1, ThreadZero DEF SampledInv, BarrierInv
      <3> QED BY <2>1, <3>1 DEF SampledInv, BarrierInv
    <2>2. CASE t # 0
      <3>1. pc'[0] = pc[0]
        BY <2>2, ThreadZero DEF SampledInv, BarrierInv
      <3> QED BY <2>2, <3>1 DEF SampledInv, BarrierInv
    <2> QED BY <2>1, <2>2
  <1> QED BY <1>1, <1>2, <1>3 DEF SampledInv, BarrierInv, Sampling

\* An iteration of the merge loop.
LEMMA MergingKeeps ==
  ASSUME SampledInv, NEW t \in Threads, pc[t] = "merge",
         UNCHANGED <<pc, newPartial, newTotal>>
  PROVE  SampledInv'
  <1>1. pc[t] \in Before3
    BY DEF Before3
  <1>2. \A u \in Threads : ~Sampling(u)
    BY <1>1 DEF SampledInv, BarrierInv
  <1> QED BY <1>2 DEF SampledInv, BarrierInv, Sampling

LEMMA PassThird ==
  ASSUME SampledInv, NEW t \in Threads, Barrier3(t)
  PROVE  SampledInv'
  <1>1. /\ pc[t] = "bar3" /\ pc' = [pc EXCEPT ![t] = "partial"]
        /\ \A u \in Threads : pc[u] \notin Before3
        /\ UNCHANGED <<dindex, layout, newKeys, newPartial, cursor, error>>
    BY DEF Barrier3, PassBarrier
  <1>2. pc' \in [Threads -> PC] /\ \A u \in Threads : pc'[u] \in {pc[u], "partial"}
    BY <1>1 DEF SampledInv, BarrierInv, PC
  <1>3. \A u \in Threads : pc'[u] \notin Before3 /\ (pc'[u] = "done" => pc[u] = "done")
    BY <1>1, <1>2 DEF Before3, Before2, Before1
  <1>4. \A u \in Threads : pc'[u] # "plan"
    BY <1>3 DEF Before3, Before2
  <1>5. DOMAIN newPartial = 0 .. newTotal \div Ratio
    BY <1>1, ThreadZero DEF SampledInv, BarrierInv, Before3, Before2, Before1
  <1>6. \A u \in Threads : Sampled(u)' <=> Sampled(u)
    BY <1>1 DEF Sampled, Processing, EndProcessing
  <1> QED BY <1>1, <1>2, <1>3, <1>4, <1>5, <1>6 DEF SampledInv, BarrierInv

\* What a thread writes is what any other would write there.
LEMMA PartialKeeps ==
  ASSUME SampledInv, NEW t \in Threads, Partial(t)
  PROVE  SampledInv'
  <1>1. /\ pc[t] = "partial" /\ pc' = [pc EXCEPT ![t] = "done"]
        /\ newPartial' = [i \in DOMAIN newPartial |->
             IF Ratio * i \in Processing * t .. EndProcessing(t) - 1
             THEN newKeys[Ratio * i] ELSE newPartial[i]]
        /\ UNCHANGED <<layout, newKeys>>
    BY DEF Partial
  <1>2. pc' \in [Threads -> PC] /\ \A u \in Threads : u # t => pc'[u] = pc[u]
    BY <1>1 DEF SampledInv, BarrierInv, PC
  <1>3. \A u \in Threads : pc[u] \notin Before3
    BY <1>1 DEF SampledInv, BarrierInv, Sampling
  <1>4. pc'[t] = "done"
    BY <1>1 DEF SampledInv, BarrierInv
  <1>5. \A u \in Threads : pc'[u] \notin Before3 /\ pc'[u] # "plan"
    BY <1>2, <1>3, <1>4 DEF Before3, Before2, Before1
  <1>6. DOMAIN newPartial' = DOMAIN newPartial /\ DOMAIN newPartial = 0 .. newTotal \div Ratio
    BY <1>1, <1>3, ThreadZero DEF SampledInv, BarrierInv, Before3, Before2, Before1
  <1>7. UNCHANGED <<Processing>> /\ \A u : EndProcessing(u)' = EndProcessing(u)
    BY <1>1 DEF Processing, EndProcessing
  <1>8. Sampled(t)'
    BY <1>1, <1>6, <1>7 DEF Sampled
  <1>9. \A u \in Threads : Sampled(u) => Sampled(u)'
    BY <1>1, <1>6, <1>7 DEF Sampled
  <1> QED BY <1>1, <1>2, <1>4, <1>5, <1>6, <1>8, <1>9 DEF SampledInv, BarrierInv

LEMMA SampledStep == SampledInv /\ [Next]_vars => SampledInv'
  <1> SUFFICES ASSUME SampledInv, [Next]_vars PROVE SampledInv'
    OBVIOUS
  <1>1. ASSUME NEW t \in Threads, Step(t) PROVE SampledInv'
    <2> USE DEF Before3, Before2, Before1
    <2>1. CASE Count(t)
      BY <1>1, <2>1, BeforeSampling DEF Count, PC
    <2>2. CASE Barrier1(t)
      <3>1. CASE t = 0
        BY <2>2, <3>1, BeforeSampling DEF Barrier1, PassBarrier, PC
      <3>2. CASE t # 0
        BY <2>2, <3>2, BeforeSampling DEF Barrier1, PassBarrier, PC
      <3> QED BY <3>1, <3>2
    <2>3. CASE Plan(t)
      <3>1. t = 0 /\ pc[t] = "plan" /\ pc' = [pc EXCEPT ![t] = "bar2"]
        BY <2>3 DEF Plan, SampledInv, BarrierInv
      <3>2. DOMAIN newPartial' = 0 .. newTotal' \div Ratio
        BY <2>3 DEF Plan
      <3> QED BY <3>1, <3>2, BeforeSampling DEF PC
    <2>4. CASE Barrier2(t)
      BY <2>4, BeforeSampling DEF Barrier2, PassBarrier, PC
    <2>5. CASE Start(t)
      BY <2>5, BeforeSampling DEF Start, PC
    <2>6. CASE EndMerge(t)
      BY <2>6, BeforeSampling DEF EndMerge, PC
    <2>7. CASE PutOld(t) \/ PutBuf(t) \/ PutRestOld(t) \/ PutRestBuf(t) \/ PutNothing(t)
      BY <2>7, MergingKeeps
      DEF PutOld, PutBuf, PutRestOld, PutRestBuf, PutNothing, Put, Iterating
    <2>8. CASE Barrier3(t) BY <2>8, PassThird
    <2>9. CASE Partial(t) BY <2>9, PartialKeeps
    <2> QED
      BY <1>1, <2>1, <2>2, <2>3, <2>4, <2>5, <2>6, <2>7, <2>8, <2>9 DEF Step
  <1>2. CASE UNCHANGED vars
    <2>1. \A t \in Threads : Sampled(t)' <=> Sampled(t)
      BY <1>2 DEF vars, Sampled, Processing, EndProcessing
    <2> QED BY <1>2, <2>1 DEF vars, SampledInv, BarrierInv, Sampling
  <1> QED BY <1>1, <1>2 DEF Next

-----------------------------------------------------------------------------
(* The invariant.                                                          *)

Started  == {"merge", "bar3", "partial", "done"}
Disjoint == Buffered \cap Values(keys) = {}

\* What is laid out, and behind which barriers.
LayoutInv ==
  /\ keyCount = [t \in Threads |-> IF pc[t] = "count" THEN 0 ELSE Found(t)]
  /\ pc[0] \notin Before2 =>
       /\ mergeOffset = [t \in Threads |-> BufBefore(StartPage(t))]
       /\ newTotal = TotalSize + BufBefore(NumPages)
       /\ DOMAIN newKeys = 0 .. newTotal - 1
  /\ pc[0] \in Before2 => newKeys = <<>> /\ newPartial = <<>>
  /\ \A t, u \in Threads : pc[t] \notin {"count", "bar1"} => pc[u] # "count"
  /\ \A t, u \in Threads : pc[t] \notin Before2 \cup {"bar2"} => pc[u] \notin Before2

\* A thread fills its own slots, from the first on, one for an iteration; where
\* two equal keys meet, none for one of them.
CountInv(t) ==
  LET c == cursor[t]
  IN  /\ c.new \in Nat /\ c.targets \in Nat
      /\ Base(t) <= c.new /\ c.new <= Base(t) + c.targets
      /\ c.targets <= Top(t) - Base(t)
      /\ pc[t] # "merge" => c.targets = Top(t) - Base(t)

CursorInv ==
  /\ DOMAIN cursor = Threads /\ \A t \in Threads : IsCursor(cursor[t])
  /\ \A t \in Threads : pc[t] \in Started => CountInv(t)

\* What a thread has merged where no key is in both inputs.
Merging(t) ==
  LET c == cursor[t]
  IN  /\ c.new = Base(t) + c.targets
      /\ Top(t) - Base(t) > 0 => Inputs(t, c)
      /\ Contents(t, c, newKeys)

DisjointInv == Disjoint => error = FALSE /\ \A t \in Threads : pc[t] \in Started => Merging(t)

\* Nobody else has written what is written.
WrittenInv ==
  /\ \A i \in DOMAIN newKeys : newKeys[i] # None =>
       \E u \in Threads : pc[u] \in Started /\ i \in Base(u) .. cursor[u].new - 1
  /\ \A i \in DOMAIN newPartial : newPartial[i] # None =>
       (\A u \in Threads : pc[u] \notin Before3) /\ newPartial[i] = newKeys[Ratio * i]

MergeInv == DataInv /\ SampledInv /\ LayoutInv /\ CursorInv /\ DisjointInv /\ WrittenInv

\* The inputs stay as they are, and so does what follows from them.
LEMMA Unmoved ==
  ASSUME UNCHANGED dindex
  PROVE  /\ DataInv' <=> DataInv
         /\ Disjoint' <=> Disjoint
         /\ TotalSize' = TotalSize /\ NumPages' = NumPages
         /\ \A p : PageSize(p)' = PageSize(p) /\ BufBefore(p)' = BufBefore(p)
         /\ \A t : /\ StartPage(t)' = StartPage(t) /\ EndPage(t)' = EndPage(t)
                   /\ StartOld(t)' = StartOld(t) /\ EndOld(t)' = EndOld(t)
                   /\ Found(t)' = Found(t) /\ Base(t)' = Base(t) /\ Top(t)' = Top(t)
                   /\ OldOf(t)' = OldOf(t) /\ BufOf(t)' = BufOf(t)
  <1> USE DEF TotalSize, NumPages, PageSize, PageSizes, BufBefore, StartPage, EndPage, StartOld, EndOld, Found,
              Base, Top, OldOf, BufOf
  <1>1. TotalSize' = TotalSize /\ NumPages' = NumPages
    OBVIOUS
  <1>2. \A p : PageSize(p)' = PageSize(p) /\ BufBefore(p)' = BufBefore(p)
    OBVIOUS
  <1>3. \A t : StartPage(t)' = StartPage(t) /\ EndPage(t)' = EndPage(t)
    OBVIOUS
  <1>4. \A t : StartOld(t)' = StartOld(t) /\ EndOld(t)' = EndOld(t)
    OBVIOUS
  <1>5. \A t : Found(t)' = Found(t) /\ Base(t)' = Base(t) /\ Top(t)' = Top(t)
    OBVIOUS
  <1>6. \A t : OldOf(t)' = OldOf(t) /\ BufOf(t)' = BufOf(t)
    OBVIOUS
  <1>7. DataInv' <=> DataInv
    BY DEF DataInv, Ascending
  <1>8. Disjoint' <=> Disjoint
    BY DEF Disjoint, Buffered
  <1> QED BY <1>1, <1>2, <1>3, <1>4, <1>5, <1>6, <1>7, <1>8

-----------------------------------------------------------------------------
(* The steps.                                                              *)

Puts(t) == PutOld(t) \/ PutBuf(t) \/ PutRestOld(t) \/ PutRestBuf(t)

\* Where a step leads.
LEMMA StepGoes ==
  ASSUME SampledInv, NEW t \in Threads, Step(t)
  PROVE  /\ UNCHANGED dindex /\ pc \in [Threads -> PC] /\ pc' \in [Threads -> PC]
         /\ \A u \in Threads : u # t => pc'[u] = pc[u]
         /\ \/ Count(t) /\ pc[t] = "count" /\ pc'[t] = "bar1"
            \/ Barrier1(t) /\ t = 0 /\ pc[t] = "bar1" /\ pc'[t] = "plan" /\ (\A u \in Threads : pc[u] \notin Before1)
            \/ Barrier1(t) /\ t # 0 /\ pc[t] = "bar1" /\ pc'[t] = "bar2" /\ (\A u \in Threads : pc[u] \notin Before1)
            \/ Plan(t) /\ t = 0 /\ pc[t] = "plan" /\ pc'[t] = "bar2"
            \/ Barrier2(t) /\ pc[t] = "bar2" /\ pc'[t] = "start" /\ (\A u \in Threads : pc[u] \notin Before2)
            \/ Start(t) /\ pc[t] = "start" /\ pc'[t] = "merge"
            \/ (Puts(t) \/ PutNothing(t)) /\ pc[t] = "merge" /\ pc'[t] = "merge"
            \/ EndMerge(t) /\ pc[t] = "merge" /\ pc'[t] = "bar3"
            \/ Barrier3(t) /\ pc[t] = "bar3" /\ pc'[t] = "partial" /\ (\A u \in Threads : pc[u] \notin Before3)
            \/ Partial(t) /\ pc[t] = "partial" /\ pc'[t] = "done"
  <1>1. pc \in [Threads -> PC] /\ (pc[t] = "plan" => t = 0)
    BY DEF SampledInv, BarrierInv
  <1>2. CASE Count(t)
    BY <1>1, <1>2 DEF Count, PC
  <1>3. CASE Barrier1(t)
    BY <1>1, <1>3 DEF Barrier1, PassBarrier, PC
  <1>4. CASE Plan(t)
    BY <1>1, <1>4 DEF Plan, PC
  <1>5. CASE Barrier2(t)
    BY <1>1, <1>5 DEF Barrier2, PassBarrier, PC
  <1>6. CASE Start(t)
    BY <1>1, <1>6 DEF Start, PC
  <1>7. CASE PutOld(t) \/ PutBuf(t) \/ PutRestOld(t) \/ PutRestBuf(t) \/ PutNothing(t)
    <2>1. UNCHANGED <<dindex, pc>> /\ pc[t] = "merge"
      BY <1>7 DEF PutOld, PutBuf, PutRestOld, PutRestBuf, PutNothing, Put, Iterating
    <2> QED BY <1>1, <1>7, <2>1 DEF Puts
  <1>8. CASE EndMerge(t)
    BY <1>1, <1>8 DEF EndMerge, PC
  <1>9. CASE Barrier3(t)
    BY <1>1, <1>9 DEF Barrier3, PassBarrier, PC
  <1>10. CASE Partial(t)
    BY <1>1, <1>10 DEF Partial, PC
  <1> QED BY <1>2, <1>3, <1>4, <1>5, <1>6, <1>7, <1>8, <1>9, <1>10 DEF Step

LEMMA BarriersHold ==
  ASSUME SampledInv, LayoutInv, NEW t \in Threads, Step(t)
  PROVE  /\ \A u, v \in Threads : pc'[u] \notin {"count", "bar1"} => pc'[v] # "count"
         /\ \A u, v \in Threads : pc'[u] \notin Before2 \cup {"bar2"} => pc'[v] \notin Before2
  <1>1. /\ \A u, v \in Threads : pc[u] \notin {"count", "bar1"} => pc[v] # "count"
        /\ \A u, v \in Threads : pc[u] \notin Before2 \cup {"bar2"} => pc[v] \notin Before2
    BY DEF LayoutInv
  <1>2. \A u \in Threads : u # t => pc'[u] = pc[u]
    BY StepGoes
  <1>3. CASE pc[t] = "count" /\ pc'[t] = "bar1"
    BY <1>1, <1>2, <1>3 DEF Before2, Before1
  <1>4. CASE /\ pc[t] = "bar1" /\ pc'[t] \in {"plan", "bar2"}
             /\ \A u \in Threads : pc[u] \notin Before1
    <2>1. \A u \in Threads : pc[u] # "count" /\ pc'[u] # "count"
      BY <1>2, <1>4 DEF Before1
    <2>2. \A u \in Threads : pc[u] \in Before2 \cup {"bar2"}
      BY <1>1, <1>4 DEF Before2
    <2>3. \A u \in Threads : pc'[u] \in Before2 \cup {"bar2"}
      BY <1>2, <1>4, <2>2 DEF Before2
    <2> QED BY <2>1, <2>3
  <1>5. CASE pc[t] = "plan" /\ pc'[t] = "bar2"
    BY <1>1, <1>2, <1>5 DEF Before2, Before1
  <1>6. CASE pc[t] = "bar2" /\ pc'[t] = "start" /\ (\A u \in Threads : pc[u] \notin Before2)
    <2>1. \A u \in Threads : pc'[u] \notin Before2 /\ pc'[u] # "count"
      BY <1>2, <1>6 DEF Before2, Before1
    <2> QED BY <2>1
  <1>7. CASE /\ pc[t] \in {"start", "merge", "bar3", "partial"}
             /\ pc'[t] \in {"merge", "bar3", "partial", "done"}
    <2>1. \A u \in Threads : pc[u] \notin Before2
      BY <1>1, <1>7 DEF Before2, Before1
    <2>2. \A u \in Threads : pc'[u] \notin Before2 /\ pc'[u] # "count"
      BY <1>2, <1>7, <2>1 DEF Before2, Before1
    <2> QED BY <2>2
  <1> QED BY StepGoes, <1>3, <1>4, <1>5, <1>6, <1>7

\* Behind the start all has been laid out.
LEMMA StartedLate ==
  ASSUME SampledInv, LayoutInv, NEW t \in Threads, pc[t] \in Started \cup {"start"}
  PROVE  \A u \in Threads : pc[u] \notin Before2 /\ pc[u] # "count"
  BY DEF LayoutInv, Started, Before2, Before1

LEMMA LayoutStep ==
  ASSUME DataInv, SampledInv, LayoutInv, NEW t \in Threads, Step(t)
  PROVE  LayoutInv'
  <1>1. /\ pc \in [Threads -> PC] /\ pc' \in [Threads -> PC]
        /\ \A u \in Threads : u # t => pc'[u] = pc[u]
    BY StepGoes
  <1>2. /\ TotalSize' = TotalSize /\ NumPages' = NumPages /\ \A p : BufBefore(p)' = BufBefore(p)
        /\ \A u : StartPage(u)' = StartPage(u) /\ Found(u)' = Found(u)
    <2>1. UNCHANGED dindex
      BY StepGoes
    <2> QED BY <2>1, Unmoved
  <1>3. keyCount' = [u \in Threads |-> IF pc'[u] = "count" THEN 0 ELSE Found(u)]
    <2>1. keyCount = [u \in Threads |-> IF pc[u] = "count" THEN 0 ELSE Found(u)]
      BY DEF LayoutInv
    <2>2. CASE Count(t)
      <3>1. SumOver(PageSizes, StartPage(t) .. EndPage(t) - 1) = Found(t)
        <4>1. StartPage(t) \in 0 .. NumPages /\ EndPage(t) \in 0 .. NumPages /\ StartPage(t) <= EndPage(t)
          BY Slices, PagesAre
        <4> QED BY <4>1, BufBetween DEF Found
      <3>2. keyCount' = [keyCount EXCEPT ![t] = Found(t)]
        BY <2>2, <3>1 DEF Count
      <3>3. pc'[t] # "count"
        BY <1>1, <2>2 DEF Count
      <3> QED BY <1>1, <2>1, <3>2, <3>3
    <2>3. CASE keyCount' = keyCount /\ (pc'[t] = "count" <=> pc[t] = "count")
      BY <1>1, <2>1, <2>3
    <2>4. Count(t) \/ (keyCount' = keyCount /\ (pc'[t] = "count" <=> pc[t] = "count"))
      <3>1. Count(t) \/ (pc'[t] = "count" <=> pc[t] = "count")
        BY StepGoes
      <3>2. Count(t) \/ keyCount' = keyCount
        BY DEF Step, Barrier1, Barrier2, Barrier3, PassBarrier, Plan, Start, PutOld, PutBuf, PutRestOld,
               PutRestBuf, PutNothing, Put, EndMerge, Partial
      <3> QED BY <3>1, <3>2
    <2> QED BY <2>2, <2>3, <2>4
  <1>4. CASE Plan(t)
    <2>1. t = 0 /\ pc[t] = "plan" /\ pc'[t] = "bar2"
      BY <1>1, <1>4 DEF Plan, SampledInv, BarrierInv
    <2>2. \A u \in Threads : keyCount[u] = Found(u)
      BY <2>1 DEF LayoutInv
    <2>3. NumThreads \in Nat /\ Threads = 0 .. NumThreads - 1 /\ NumThreads \in 0 .. NumThreads
      BY NumThreadsAssumption DEF Threads
    <2>4. SumOver(keyCount, Threads) = BufBefore(NumPages)
      BY <2>2, <2>3, FoundBefore
    <2>5. \A u \in Threads : Offset(u) = BufBefore(StartPage(u))
      <3>1. \A u \in Threads : u \in 0 .. NumThreads /\ u # NumThreads
        BY <2>3
      <3> QED BY <2>2, <3>1, FoundBefore DEF Offset
    <2>6. mergeOffset' = [u \in Threads |-> BufBefore(StartPage(u))]
      BY <1>4, <2>5 DEF Plan
    <2>7. newTotal' = TotalSize + BufBefore(NumPages) /\ DOMAIN newKeys' = 0 .. newTotal' - 1
      BY <1>4, <2>4 DEF Plan
    <2>8. pc'[0] \notin Before2
      BY <2>1 DEF Before2, Before1
    <2> QED BY <1>2, <1>3, <2>6, <2>7, <2>8, BarriersHold DEF LayoutInv
  <1>5. CASE ~Plan(t)
    <2>1. pc'[0] \in Before2 <=> pc[0] \in Before2
      <3>1. 0 \in Threads
        BY ThreadZero
      <3>2. t = 0 => (pc'[t] \in Before2 <=> pc[t] \in Before2)
        BY <1>5, StepGoes DEF Before2, Before1
      <3> QED BY <1>1, <3>1, <3>2
    <2>2. CASE UNCHANGED <<mergeOffset, newTotal, newKeys, newPartial>>
      BY <1>2, <1>3, <2>1, <2>2, BarriersHold DEF LayoutInv
    <2>3. CASE Puts(t) \/ Partial(t)
      <3>1. pc[t] \in Started
        BY <2>3 DEF Puts, PutOld, PutBuf, PutRestOld, PutRestBuf, Iterating, Partial, Started
      <3>2. pc[0] \notin Before2
        BY <3>1, StartedLate, ThreadZero
      <3>3. UNCHANGED <<mergeOffset, newTotal>> /\ DOMAIN newKeys' = DOMAIN newKeys
        BY <2>3 DEF Puts, PutOld, PutBuf, PutRestOld, PutRestBuf, Put, Partial
      <3> QED BY <1>2, <1>3, <2>1, <3>2, <3>3, BarriersHold DEF LayoutInv
    <2>4. UNCHANGED <<mergeOffset, newTotal, newKeys, newPartial>> \/ Puts(t) \/ Partial(t)
      BY <1>5 DEF Step, Puts, Count, Barrier1, Barrier2, Barrier3, PassBarrier, Start, PutNothing, EndMerge
    <2> QED BY <2>2, <2>3, <2>4
  <1> QED BY <1>4, <1>5

LEMMA OpsAre ==
  ASSUME DataInv, LayoutInv, NEW t \in Threads, pc[t] # "count"
  PROVE  TotalOps(t) = Top(t) - Base(t)
  <1>1. keyCount[t] = Found(t)
    BY DEF LayoutInv
  <1> QED BY <1>1, SlotsAre DEF TotalOps

LEMMA FetchesKeep ==
  ASSUME NEW c, IsCursor(c), NEW t, NEW limit, NEW p,
         NEW d, d \in {FetchOld(c, limit), FetchPage(c, t, p), FetchBuf(c, t)}
  PROVE  IsCursor(d) /\ d.new = c.new /\ d.targets = c.targets
  <1>1. ASSUME NEW q, NEW e, e = FetchPage(c, t, q)
        PROVE  IsCursor(e) /\ e.new = c.new /\ e.targets = c.targets
    <2>1. PICK r : r = NextPage(q)
      OBVIOUS
    <2>2. CASE r < EndPage(t)
      <3>1. e = [c EXCEPT !.page = r, !.bufKey = bufferPages[r][0], !.inPage = 1]
        BY <1>1, <2>1, <2>2 DEF FetchPage
      <3> QED BY <3>1 DEF IsCursor
    <2>3. CASE ~(r < EndPage(t))
      <3>1. e = [c EXCEPT !.page = r, !.inPage = 0, !.bufEnd = TRUE]
        BY <1>1, <2>1, <2>3 DEF FetchPage
      <3> QED BY <3>1 DEF IsCursor
    <2> QED BY <2>2, <2>3
  <1>2. CASE d = FetchOld(c, limit)
    <2>1. \/ d = [c EXCEPT !.oldKey = keys[c.old], !.old = c.old + 1]
          \/ d = [c EXCEPT !.oldEnd = TRUE]
      BY <1>2 DEF FetchOld
    <2> QED BY <2>1 DEF IsCursor
  <1>3. CASE d = FetchBuf(c, t)
    <2>1. \/ d = [c EXCEPT !.bufKey = bufferPages[c.page][c.inPage], !.inPage = c.inPage + 1]
          \/ d = FetchPage(c, t, c.page + 1)
      BY <1>3 DEF FetchBuf
    <2> QED BY <1>1, <2>1 DEF IsCursor
  <1> QED BY <1>1, <1>2, <1>3

\* The cursor at the start of a slice.
LEMMA StartIs ==
  ASSUME DataInv, NEW t \in Threads, NEW c, NEW d, NEW k,
         c = [NoCursor EXCEPT !.new = StartOld(t) + BufBefore(StartPage(t)),
                              !.old = StartOld(t) + 1, !.oldKey = k],
         StartOld(t) < TotalSize => k = keys[StartOld(t)],
         d = FetchPage(c, t, StartPage(t))
  PROVE  /\ IsCursor(d) /\ d.new = Base(t) /\ d.targets = 0
         /\ Top(t) - Base(t) > 0 => Inputs(t, d)
         /\ \A a : Contents(t, d, a)
  <1>1. /\ IsCursor(c) /\ c.bufEnd = FALSE /\ c.oldEnd = FALSE /\ c.new = Base(t)
        /\ c.targets = 0 /\ c.old = StartOld(t) + 1 /\ c.oldKey = k
    BY DEF NoCursor, IsCursor, Base
  <1>2. /\ NumPages \in Nat /\ StartPage(t) \in 0 .. NumPages /\ StartPage(t) <= EndPage(t)
        /\ EndPage(t) \in 0 .. NumPages /\ StartOld(t) \in Nat /\ EndOld(t) \in Nat
        /\ EndOld(t) <= TotalSize /\ TotalSize \in Nat
    BY Slices, PagesAre
  <1>3. /\ KeepsOld(c, d) /\ BufAt(t, d) /\ BufPos(t, d) = BufBefore(StartPage(t))
        /\ ~d.bufEnd => d.page >= StartPage(t) /\ d.inPage = 1
        /\ \A r \in StartPage(t) .. EndPage(t) - 1 : d.bufEnd \/ r < d.page => PageSize(r) = 0
    <2>1. PICK p \in 0 .. NumPages : p = StartPage(t)
      BY <1>2
    <2>2. StartPage(t) <= p /\ p <= EndPage(t) /\ d = FetchPage(c, t, p)
      BY <1>2, <2>1
    <2>3. /\ KeepsOld(c, d) /\ BufAt(t, d) /\ BufPos(t, d) = BufBefore(p)
          /\ ~d.bufEnd => d.page >= p /\ d.inPage = 1
          /\ \A r \in p .. EndPage(t) - 1 : d.bufEnd \/ r < d.page => PageSize(r) = 0
      <3> HIDE DEF NoCursor
      <3>1. IsCursor(c) /\ c.bufEnd = FALSE
        BY <1>1
      <3> QED BY <2>2, <3>1, FetchPageIs, Zenon
    <2> QED BY <2>1, <2>3
  <1>4. /\ IsCursor(d) /\ d.new = Base(t) /\ d.targets = 0 /\ d.oldEnd = FALSE
        /\ d.old = StartOld(t) + 1 /\ d.oldKey = k
    BY <1>1, <1>3 DEF KeepsOld
  <1>5. OldPos(d) = StartOld(t)
    BY <1>2, <1>4 DEF OldPos
  <1>6. Base(t) \in Nat /\ BufBefore(StartPage(t)) \in Nat
    BY <1>2, SlotsAre, BufSteps
  <1>7. ASSUME Top(t) - Base(t) > 0 PROVE Inputs(t, d)
    <2>1. StartOld(t) < EndOld(t)
      BY <1>7, OpsMeanOld
    <2>2. OldAt(t, d)
      BY <1>2, <1>4, <2>1 DEF OldAt
    <2>3. Fetched(t, d)
      BY <1>2, <1>3, <1>4, <1>5, <2>1, <2>2 DEF Fetched
    <2>4. d.new - Base(t) = (OldPos(d) - StartOld(t)) + (BufPos(t, d) - BufBefore(StartPage(t)))
      BY <1>2, <1>3, <1>4, <1>5, <1>6
    <2> QED BY <2>3, <2>4 DEF Inputs
  <1>8. ASSUME NEW l \in BufOf(t), d.bufEnd \/ l < d.bufKey PROVE FALSE
    <2>1. PICK r \in StartPage(t) .. EndPage(t) - 1 : \E j \in 0 .. PageSize(r) - 1 : l = bufferPages[r][j]
      BY InBufOf
    <2>2. PICK j \in 0 .. PageSize(r) - 1 : l = bufferPages[r][j]
      BY <2>1
    <2>3. r \in 0 .. NumPages - 1 /\ PageSize(r) # 0
      BY <1>2, <2>2
    <2>4. ~d.bufEnd /\ ~(r < d.page)
      BY <1>3, <2>3
    <2>5. /\ d.page \in StartPage(t) .. EndPage(t) - 1 /\ 1 \in 1 .. PageSize(d.page)
          /\ d.bufKey = bufferPages[d.page][0]
      BY <1>3, <2>4 DEF BufAt
    <2>6. d.page \in 0 .. NumPages - 1 /\ 0 \in 0 .. PageSize(d.page) - 1
      <3>1. d.page \in 0 .. NumPages - 1
        BY <1>2, <2>5
      <3>2. PageSize(d.page) \in Nat
        BY <3>1, PagesAre
      <3> QED BY <2>5, <3>1, <3>2
    <2>7. d.bufKey \in Nat /\ l \in Nat
      BY <2>2, <2>3, <2>5, <2>6, PageBetween
    <2>8. CASE r = d.page /\ j = 0
      BY <1>8, <2>2, <2>4, <2>5, <2>7, <2>8
    <2>9. CASE d.page < r \/ (d.page = r /\ 0 < j)
      <3>1. d.bufKey < l
        BY <2>2, <2>3, <2>5, <2>6, <2>9, PagesAscend
      <3> QED BY <1>8, <2>4, <2>7, <3>1
    <2> QED BY <1>2, <2>2, <2>3, <2>4, <2>6, <2>8, <2>9
  <1>9. ASSUME NEW a PROVE Contents(t, d, a)
    <2>1. \A i \in Base(t) .. d.new - 1 : FALSE
      BY <1>4, <1>6
    <2>2. \A j \in StartOld(t) .. EndOld(t) - 1 : ~(j < OldPos(d))
      BY <1>2, <1>5
    <2> QED BY <1>8, <2>1, <2>2 DEF Contents
  <1> QED BY <1>4, <1>7, <1>9

\* What a step makes of the cursor and the new array.
LEMMA PutForm ==
  ASSUME DataInv, SampledInv, LayoutInv, CursorInv, NEW t \in Threads, Puts(t)
  PROVE  /\ pc[t] = "merge" /\ cursor[t].targets < Top(t) - Base(t)
         /\ UNCHANGED <<dindex, pc, newPartial, error>>
         /\ \E k, d : /\ IsCursor(d) /\ d.new = cursor[t].new /\ d.targets = cursor[t].targets
                      /\ newKeys' = [newKeys EXCEPT ![cursor[t].new] = k]
                      /\ cursor' = [cursor EXCEPT ![t] = Advanced(d)]
  <1>1. PICK c : c = cursor[t] /\ IsCursor(c)
    BY DEF CursorInv
  <1>2. pc[t] = "merge" /\ c.targets < TotalOps(t)
    BY <1>1 DEF Puts, PutOld, PutBuf, PutRestOld, PutRestBuf, Iterating
  <1>3. cursor[t].targets < Top(t) - Base(t)
    BY <1>1, <1>2, OpsAre
  <1>4. ASSUME NEW k, NEW d, Put(t, k, d), IsCursor(d), d.new = c.new, d.targets = c.targets
        PROVE  /\ UNCHANGED <<dindex, pc, newPartial, error>>
               /\ \E l, e : /\ IsCursor(e) /\ e.new = cursor[t].new /\ e.targets = cursor[t].targets
                            /\ newKeys' = [newKeys EXCEPT ![cursor[t].new] = l]
                            /\ cursor' = [cursor EXCEPT ![t] = Advanced(e)]
    <2>1. /\ newKeys' = [newKeys EXCEPT ![cursor[t].new] = k]
          /\ cursor' = [cursor EXCEPT ![t] = Advanced(d)]
          /\ UNCHANGED <<dindex, pc, newPartial, error>>
      BY <1>1, <1>4 DEF Put, Advanced
    <2> QED BY <1>1, <1>4, <2>1, Zenon
  <1>5. CASE PutOld(t)
    <2>1. PICK d : d = FetchOld(c, EndOld(t))
      OBVIOUS
    <2>2. Put(t, c.oldKey, d)
      BY <1>1, <1>5, <2>1 DEF PutOld
    <2> QED BY <1>1, <1>2, <1>3, <1>4, <2>1, <2>2, FetchesKeep
  <1>6. CASE PutBuf(t)
    <2>1. PICK e : e = IF c.oldKey = c.bufKey THEN FetchOld(c, EndOld(t)) ELSE c
      OBVIOUS
    <2>2. IsCursor(e) /\ e.new = c.new /\ e.targets = c.targets
      BY <1>1, <2>1, FetchesKeep
    <2>3. PICK d : d = FetchBuf(e, t)
      OBVIOUS
    <2>4. IsCursor(d) /\ d.new = c.new /\ d.targets = c.targets
      BY <2>2, <2>3, FetchesKeep
    <2>5. Put(t, c.bufKey, d)
      BY <1>1, <1>6, <2>1, <2>3 DEF PutBuf
    <2> QED BY <1>2, <1>3, <1>4, <2>4, <2>5
  <1>7. CASE PutRestOld(t)
    <2>1. PICK d : d = FetchOld(c, TotalSize)
      OBVIOUS
    <2>2. Put(t, c.oldKey, d)
      BY <1>1, <1>7, <2>1 DEF PutRestOld
    <2> QED BY <1>1, <1>2, <1>3, <1>4, <2>1, <2>2, FetchesKeep
  <1>8. CASE PutRestBuf(t)
    <2>1. PICK d : d = FetchBuf(c, t)
      OBVIOUS
    <2>2. Put(t, c.bufKey, d)
      BY <1>1, <1>8, <2>1 DEF PutRestBuf
    <2> QED BY <1>1, <1>2, <1>3, <1>4, <2>1, <2>2, FetchesKeep
  <1> QED BY <1>5, <1>6, <1>7, <1>8 DEF Puts

LEMMA CursorStep ==
  ASSUME DataInv, SampledInv, LayoutInv, CursorInv, NEW t \in Threads, Step(t)
  PROVE  CursorInv'
  <1>1. /\ pc \in [Threads -> PC] /\ pc' \in [Threads -> PC]
        /\ \A u \in Threads : u # t => pc'[u] = pc[u]
        /\ \A u \in Threads : Base(u)' = Base(u) /\ Top(u)' = Top(u)
    <2>1. UNCHANGED dindex
      BY StepGoes
    <2> QED BY <2>1, StepGoes, Unmoved
  <1>2. /\ DOMAIN cursor = Threads /\ \A u \in Threads : IsCursor(cursor[u])
        /\ \A u \in Threads : pc[u] \in Started => CountInv(u)
    BY DEF CursorInv
  <1>3. \A u \in Threads : Base(u) \in Nat /\ Top(u) \in Nat /\ Base(u) <= Top(u)
    BY SlotsAre
  <1>4. ASSUME NEW c, IsCursor(c), cursor' = [cursor EXCEPT ![t] = c], pc'[t] \in Started => CountInv(t)'
        PROVE  CursorInv'
    <2>1. DOMAIN cursor' = Threads /\ cursor'[t] = c /\ \A u \in Threads : u # t => cursor'[u] = cursor[u]
      BY <1>2, <1>4
    <2>2. \A u \in Threads : IsCursor(cursor'[u])
      BY <1>2, <1>4, <2>1
    <2>3. \A u \in Threads : pc'[u] \in Started => CountInv(u)'
      <3>1. \A u \in Threads : u # t /\ CountInv(u) => CountInv(u)'
        BY <1>1, <2>1 DEF CountInv
      <3> QED BY <1>1, <1>2, <1>4, <3>1
    <2>4. \A u \in Threads : IsCursor(cursor[u])'
      BY <2>2 DEF IsCursor
    <2> QED BY <2>1, <2>3, <2>4 DEF CursorInv
  <1>5. CASE Start(t)
    <2>1. /\ pc[t] = "start" /\ pc'[t] = "merge"
      BY <1>1, <1>5 DEF Start
    <2>2. PICK k : k = IF StartOld(t) < TotalSize THEN keys[StartOld(t)] ELSE None
      OBVIOUS
    <2>3. PICK c : c = [NoCursor EXCEPT !.new = StartOld(t) + BufBefore(StartPage(t)),
                                        !.old = StartOld(t) + 1, !.oldKey = k]
      OBVIOUS
    <2>4. PICK d : d = FetchPage(c, t, StartPage(t))
      OBVIOUS
    <2>5. mergeOffset[t] = BufBefore(StartPage(t))
      BY <2>1, StartedLate, ThreadZero DEF LayoutInv
    <2>6. cursor' = [cursor EXCEPT ![t] = d]
      BY <1>5, <2>2, <2>3, <2>4, <2>5, Zenon DEF Start
    <2>7. IsCursor(d) /\ d.new = Base(t) /\ d.targets = 0
      BY <2>2, <2>3, <2>4, StartIs
    <2>8. cursor'[t] = d
      BY <1>2, <2>6
    <2>9. CountInv(t)'
      BY <1>1, <1>3, <2>1, <2>7, <2>8 DEF CountInv
    <2> QED BY <1>4, <2>6, <2>7, <2>9
  <1>6. CASE Puts(t)
    <2>1. pc[t] = "merge" /\ cursor[t].targets < Top(t) - Base(t) /\ UNCHANGED pc
      BY <1>6, PutForm
    <2>2. PICK k, d : /\ IsCursor(d) /\ d.new = cursor[t].new /\ d.targets = cursor[t].targets
                      /\ newKeys' = [newKeys EXCEPT ![cursor[t].new] = k]
                      /\ cursor' = [cursor EXCEPT ![t] = Advanced(d)]
      BY <1>6, PutForm, Zenon
    <2>3. PICK e : e = Advanced(d)
      OBVIOUS
    <2>4. IsCursor(e) /\ e.new = cursor[t].new + 1 /\ e.targets = cursor[t].targets + 1
      BY <2>2, <2>3 DEF IsCursor, Advanced
    <2>5. cursor' = [cursor EXCEPT ![t] = e] /\ cursor'[t] = e
      BY <1>2, <2>2, <2>3
    <2>6. CountInv(t)
      BY <1>2, <2>1 DEF Started
    <2>7. CountInv(t)'
      BY <1>1, <1>3, <2>1, <2>4, <2>5, <2>6 DEF CountInv
    <2> QED BY <1>4, <2>4, <2>5, <2>7
  <1>7. CASE PutNothing(t)
    <2>1. /\ pc[t] = "merge" /\ cursor[t].targets < TotalOps(t) /\ UNCHANGED pc
          /\ cursor' = [cursor EXCEPT ![t].targets = @ + 1]
      BY <1>7 DEF PutNothing, Iterating
    <2>2. TotalOps(t) = Top(t) - Base(t) /\ CountInv(t)
      BY <1>2, <2>1, OpsAre DEF Started
    <2>3. PICK e : e = [cursor[t] EXCEPT !.targets = @ + 1]
      OBVIOUS
    <2>4. IsCursor(e) /\ e.new = cursor[t].new /\ e.targets = cursor[t].targets + 1
      BY <1>2, <2>3 DEF IsCursor
    <2>5. cursor' = [cursor EXCEPT ![t] = e] /\ cursor'[t] = e
      BY <1>2, <2>1, <2>3
    <2>6. CountInv(t)'
      BY <1>1, <1>3, <2>1, <2>2, <2>4, <2>5 DEF CountInv
    <2> QED BY <1>4, <2>4, <2>5, <2>6
  <1>8. CASE UNCHANGED cursor /\ ~PutNothing(t) /\ ~Puts(t) /\ ~Start(t)
    <2>1. pc'[t] \in Started => CountInv(t)'
      <3> SUFFICES ASSUME pc'[t] \in Started PROVE CountInv(t)'
        OBVIOUS
      <3>1. pc[t] \in Started /\ pc'[t] # "merge" /\ (pc[t] = "merge" => EndMerge(t))
        BY <1>8, StepGoes DEF Started
      <3>2. CountInv(t) /\ TotalOps(t) = Top(t) - Base(t)
        BY <1>2, <3>1, OpsAre DEF Started
      <3>3. cursor[t].targets = Top(t) - Base(t)
        BY <3>1, <3>2 DEF CountInv, EndMerge
      <3> QED BY <1>1, <1>8, <3>2, <3>3 DEF CountInv
    <2>2. \A u \in Threads : pc'[u] \in Started => CountInv(u)'
      <3>1. \A u \in Threads : u # t /\ CountInv(u) => CountInv(u)'
        BY <1>1, <1>8 DEF CountInv
      <3> QED BY <1>1, <1>2, <2>1, <3>1
    <2>3. \A u \in Threads : IsCursor(cursor[u])'
      BY <1>2, <1>8 DEF IsCursor
    <2> QED BY <1>2, <1>8, <2>2, <2>3 DEF CursorInv
  <1>9. Start(t) \/ Puts(t) \/ PutNothing(t) \/ UNCHANGED cursor
    BY DEF Step, Puts, Count, Barrier1, Barrier2, Barrier3, PassBarrier, Plan, EndMerge, Partial
  <1> QED BY <1>5, <1>6, <1>7, <1>8, <1>9

\* A slot of a thread is a slot of the array, and of no other thread.
LEMMA OwnSlot ==
  ASSUME DataInv, SampledInv, LayoutInv, CursorInv, NEW t \in Threads, pc[t] = "merge",
         cursor[t].targets < Top(t) - Base(t)
  PROVE  /\ cursor[t].new \in Nat /\ cursor[t].targets \in Nat
         /\ cursor[t].new \in DOMAIN newKeys /\ Base(t) <= cursor[t].new
         /\ \A u \in Threads : pc[u] \in Started => cursor[t].new \notin Base(u) .. cursor[u].new - 1
         /\ \A i \in 0 .. cursor[t].new : i \in DOMAIN newKeys
  <1>1. CountInv(t)
    BY DEF CursorInv, Started
  <1>2. /\ cursor[t].new \in Nat /\ cursor[t].targets \in Nat /\ Base(t) <= cursor[t].new
        /\ cursor[t].new <= Base(t) + cursor[t].targets
    BY <1>1 DEF CountInv
  <1>3. /\ Base(t) \in Nat /\ Top(t) \in Nat /\ Top(t) <= TotalSize + BufBefore(NumPages)
        /\ TotalSize + BufBefore(NumPages) \in Nat
    BY SlotsAre
  <1>4. DOMAIN newKeys = 0 .. newTotal - 1 /\ newTotal = TotalSize + BufBefore(NumPages)
    BY StartedLate, ThreadZero DEF LayoutInv, Started
  <1>5. cursor[t].new < Top(t) /\ cursor[t].new \in DOMAIN newKeys
    BY <1>2, <1>3, <1>4
  <1>6. \A i \in 0 .. cursor[t].new : i \in DOMAIN newKeys
    BY <1>2, <1>3, <1>4, <1>5
  <1>7. ASSUME NEW u \in Threads, pc[u] \in Started, cursor[t].new \in Base(u) .. cursor[u].new - 1
        PROVE  FALSE
    <2>1. CountInv(u) /\ Base(u) \in Nat /\ Top(u) \in Nat
      BY <1>7, SlotsAre DEF CursorInv
    <2>2. cursor[u].new \in Nat /\ cursor[u].new <= Top(u)
      BY <2>1 DEF CountInv
    <2>3. t \in Nat /\ u \in Nat /\ t # u
      BY <1>2, <1>3, <1>7 DEF Threads
    <2>4. (t < u => Top(t) <= Base(u)) /\ (u < t => Top(u) <= Base(t))
      BY SlotsAre
    <2> QED BY <1>2, <1>3, <1>5, <1>7, <2>1, <2>2, <2>3, <2>4
  <1> QED BY <1>2, <1>5, <1>7, <1>6

LEMMA ContentsKeep ==
  ASSUME NEW t, NEW c, NEW a, NEW b, Contents(t, c, a),
         \A i \in Base(t) .. c.new - 1 : b[i] = a[i]
  PROVE  Contents(t, c, b)
  BY DEF Contents

\* What is said of a thread's cursor and the new array behind a step.
LEMMA MergingLater ==
  ASSUME UNCHANGED dindex, NEW t, NEW c, NEW b, cursor'[t] = c, newKeys' = b,
         c.new = Base(t) + c.targets,
         Top(t) - Base(t) > 0 => Inputs(t, c), Contents(t, c, b)
  PROVE  Merging(t)'
  <1>1. /\ \A p : PageSize(p)' = PageSize(p) /\ BufBefore(p)' = BufBefore(p)
        /\ \A u : /\ StartPage(u)' = StartPage(u) /\ EndPage(u)' = EndPage(u)
                  /\ StartOld(u)' = StartOld(u) /\ EndOld(u)' = EndOld(u)
                  /\ Base(u)' = Base(u) /\ Top(u)' = Top(u)
                  /\ OldOf(u)' = OldOf(u) /\ BufOf(u)' = BufOf(u)
        /\ TotalSize' = TotalSize /\ keys' = keys /\ bufferPages' = bufferPages
    BY Unmoved
  <1>2. OldPos(cursor[t])' = OldPos(c) /\ BufPos(t, cursor[t])' = BufPos(t, c)
    BY <1>1 DEF OldPos, BufPos
  <1>3. (OldAt(t, cursor[t])' <=> OldAt(t, c)) /\ (BufAt(t, cursor[t])' <=> BufAt(t, c))
    BY <1>1 DEF OldAt, BufAt
  <1>4. Fetched(t, cursor[t])' <=> Fetched(t, c)
    BY <1>1, <1>2, <1>3 DEF Fetched
  <1>5. Inputs(t, cursor[t])' <=> Inputs(t, c)
    BY <1>1, <1>2, <1>4 DEF Inputs
  <1>6. Contents(t, cursor[t], newKeys)' <=> Contents(t, c, b)
    BY <1>1, <1>2 DEF Contents
  <1> QED BY <1>1, <1>5, <1>6 DEF Merging

LEMMA PutMoves ==
  ASSUME DataInv, SampledInv, LayoutInv, CursorInv, Disjoint, NEW t \in Threads, Merging(t), Puts(t)
  PROVE  \E k, d : /\ Moves(t, cursor[t], d, k)
                   /\ newKeys' = [newKeys EXCEPT ![cursor[t].new] = k]
                   /\ cursor' = [cursor EXCEPT ![t] = Advanced(d)]
  <1>1. PICK c : c = cursor[t]
    OBVIOUS
  <1>2. pc[t] = "merge" /\ c.targets < Top(t) - Base(t) /\ IsCursor(c) /\ CountInv(t)
    BY <1>1, PutForm DEF CursorInv, Started
  <1>3. c.targets \in Nat /\ c.new = Base(t) + c.targets /\ Base(t) \in Nat /\ Top(t) \in Nat
    BY <1>1, <1>2, SlotsAre DEF CountInv, Merging
  <1>4. Inputs(t, c) /\ Fetched(t, c)
    <2>1. Top(t) - Base(t) > 0
      BY <1>2, <1>3
    <2> QED BY <1>1, <2>1 DEF Merging, Inputs
  <1>5. /\ OldPos(c) \in Nat /\ c.old \in Nat /\ StartOld(t) <= OldPos(c) /\ OldPos(c) <= EndOld(t)
        /\ BufPos(t, c) \in Nat
        /\ ~c.bufEnd => c.bufKey \in BufOf(t)
        /\ ~c.oldEnd => c.oldKey \in Nat /\ c.oldKey = keys[OldPos(c)] /\ OldPos(c) \in 0 .. TotalSize - 1
        /\ StartOld(t) \in Nat /\ EndOld(t) \in Nat /\ TotalSize \in Nat /\ EndOld(t) <= TotalSize
        /\ BufBefore(StartPage(t)) \in Nat /\ BufBefore(EndPage(t)) \in Nat
    BY <1>4, PositionsAre
  <1>6. ASSUME NEW k, NEW d, Put(t, k, d), Moves(t, c, d, k)
        PROVE  \E l, e : /\ Moves(t, cursor[t], e, l)
                         /\ newKeys' = [newKeys EXCEPT ![cursor[t].new] = l]
                         /\ cursor' = [cursor EXCEPT ![t] = Advanced(e)]
    <2>1. d.new = cursor[t].new
      BY <1>1, <1>6 DEF Moves
    <2>2. /\ newKeys' = [newKeys EXCEPT ![cursor[t].new] = k]
          /\ cursor' = [cursor EXCEPT ![t] = Advanced(d)]
      BY <1>6, <2>1 DEF Put, Advanced
    <2> QED BY <1>1, <1>6, <2>2, Zenon
  <1>7. CASE PutOld(t)
    <2>1. PICK d : d = FetchOld(c, EndOld(t))
      OBVIOUS
    <2>2. Put(t, c.oldKey, d) /\ c.oldEnd = FALSE /\ c.bufEnd = FALSE /\ c.oldKey < c.bufKey
      BY <1>1, <1>7, <2>1 DEF PutOld, Iterating
    <2>3. OldPos(c) < EndOld(t)
      <3>1. c.old <= EndOld(t) /\ OldPos(c) = c.old - 1
        BY <1>4, <2>2 DEF Fetched, OldPos
      <3> QED BY <1>5, <3>1
    <2>4. Moves(t, c, d, c.oldKey)
      <3>1. PICK limit \in Nat : limit = EndOld(t)
        BY <1>5
      <3>2. limit <= TotalSize /\ EndOld(t) <= limit /\ d = FetchOld(c, limit)
        BY <1>5, <2>1, <3>1
      <3> QED BY <1>2, <1>4, <2>2, <2>3, <3>1, <3>2, OldMerges
    <2> QED BY <1>6, <2>2, <2>4
  <1>8. CASE PutBuf(t)
    <2>1. c.oldEnd = FALSE /\ c.bufEnd = FALSE /\ c.oldKey >= c.bufKey
      BY <1>1, <1>8 DEF PutBuf, Iterating
    <2>2. c.oldKey # c.bufKey
      <3>1. c.oldKey \in Values(keys)
        BY <1>5, <2>1 DEF Values, DataInv, Ascending
      <3>2. c.bufKey \in Buffered
        <4>1. \A p \in StartPage(t) .. EndPage(t) - 1 : p \in DOMAIN bufferPages
          BY Slices, PagesAre DEF DataInv
        <4>2. c.bufKey \in BufOf(t)
          BY <1>5, <2>1
        <4> QED BY <4>1, <4>2 DEF BufOf, Buffered
      <3> QED BY <3>1, <3>2 DEF Disjoint
    <2>3. c.bufKey < c.oldKey
      <3>1. c.bufKey \in Nat /\ c.oldKey \in Nat
        BY <1>5, <2>1, SlicesAreNat
      <3> QED BY <2>1, <2>2, <3>1
    <2>4. PICK d : d = FetchBuf(c, t)
      OBVIOUS
    <2>5. Put(t, c.bufKey, d)
      BY <1>1, <1>8, <2>2, <2>4 DEF PutBuf
    <2>6. Moves(t, c, d, c.bufKey)
      BY <1>2, <1>4, <2>1, <2>3, <2>4, BufMerges
    <2> QED BY <1>6, <2>5, <2>6
  <1>9. CASE PutRestOld(t)
    <2>1. PICK d : d = FetchOld(c, TotalSize)
      OBVIOUS
    <2>2. Put(t, c.oldKey, d) /\ c.oldEnd = FALSE /\ c.bufEnd = TRUE
      BY <1>1, <1>9, <2>1 DEF PutRestOld, Iterating
    <2>3. OldPos(c) < EndOld(t)
      <3>1. c.new - Base(t) = (OldPos(c) - StartOld(t)) + (BufPos(t, c) - BufBefore(StartPage(t)))
        BY <1>4 DEF Inputs
      <3>2. BufPos(t, c) = BufBefore(EndPage(t))
        BY <2>2 DEF BufPos
      <3>3. Top(t) - Base(t) = EndOld(t) - StartOld(t) + (BufBefore(EndPage(t)) - BufBefore(StartPage(t)))
        BY SlotsAre DEF Found
      <3> QED BY <1>2, <1>3, <1>5, <3>1, <3>2, <3>3
    <2>4. Moves(t, c, d, c.oldKey)
      <3>1. PICK limit \in Nat : limit = TotalSize
        BY <1>5
      <3>2. limit <= TotalSize /\ EndOld(t) <= limit /\ d = FetchOld(c, limit)
        BY <1>5, <2>1, <3>1
      <3> QED BY <1>2, <1>4, <2>2, <2>3, <3>1, <3>2, OldMerges
    <2> QED BY <1>6, <2>2, <2>4
  <1>10. CASE PutRestBuf(t)
    <2>1. PICK d : d = FetchBuf(c, t)
      OBVIOUS
    <2>2. Put(t, c.bufKey, d) /\ c.oldEnd = TRUE /\ c.bufEnd = FALSE
      BY <1>1, <1>10, <2>1 DEF PutRestBuf, Iterating
    <2>3. Moves(t, c, d, c.bufKey)
      BY <1>2, <1>4, <2>1, <2>2, BufMerges
    <2> QED BY <1>6, <2>2, <2>3
  <1> QED BY <1>7, <1>8, <1>9, <1>10 DEF Puts

\* The inputs do not run out before the iterations.
LEMMA NeverNothing ==
  ASSUME DataInv, SampledInv, LayoutInv, CursorInv, NEW t \in Threads, Merging(t)
  PROVE  ~PutNothing(t)
  <1> SUFFICES ASSUME PutNothing(t) PROVE FALSE
    OBVIOUS
  <1>1. PICK c : c = cursor[t]
    OBVIOUS
  <1>2. pc[t] = "merge" /\ c.targets < TotalOps(t) /\ c.oldEnd = TRUE /\ c.bufEnd = TRUE
    BY <1>1 DEF PutNothing, Iterating
  <1>3. c.targets < Top(t) - Base(t) /\ CountInv(t)
    BY <1>2, OpsAre DEF CursorInv, Started
  <1>4. c.targets \in Nat /\ c.new = Base(t) + c.targets /\ Base(t) \in Nat /\ Top(t) \in Nat
    BY <1>1, <1>3, SlotsAre DEF CountInv, Merging
  <1>5. Inputs(t, c) /\ Fetched(t, c)
    <2>1. Top(t) - Base(t) > 0
      BY <1>3, <1>4
    <2> QED BY <1>1, <2>1 DEF Merging, Inputs
  <1>6. /\ c.old \in Nat /\ StartOld(t) \in Nat /\ EndOld(t) \in Nat
        /\ BufBefore(StartPage(t)) \in Nat /\ BufBefore(EndPage(t)) \in Nat
    BY <1>5, PositionsAre
  <1>7. OldPos(c) = c.old /\ c.old >= EndOld(t) /\ OldPos(c) <= EndOld(t)
    BY <1>2, <1>5 DEF OldPos, Fetched
  <1>8. c.new - Base(t) = (OldPos(c) - StartOld(t)) + (BufPos(t, c) - BufBefore(StartPage(t)))
    BY <1>5 DEF Inputs
  <1>9. BufPos(t, c) = BufBefore(EndPage(t))
    BY <1>2 DEF BufPos
  <1>10. Top(t) - Base(t) = EndOld(t) - StartOld(t) + (BufBefore(EndPage(t)) - BufBefore(StartPage(t)))
    BY SlotsAre DEF Found
  <1> QED BY <1>3, <1>4, <1>6, <1>7, <1>8, <1>9, <1>10

LEMMA DisjointStep ==
  ASSUME DataInv, SampledInv, LayoutInv, CursorInv, DisjointInv, NEW t \in Threads, Step(t)
  PROVE  DisjointInv'
  <1>1. UNCHANGED dindex /\ (Disjoint' <=> Disjoint)
    BY StepGoes, Unmoved
  <1> SUFFICES ASSUME Disjoint PROVE error' = FALSE /\ \A u \in Threads : pc'[u] \in Started => Merging(u)'
    BY <1>1 DEF DisjointInv
  <1>2. error = FALSE /\ \A u \in Threads : pc[u] \in Started => Merging(u)
    BY DEF DisjointInv
  <1>3. /\ pc \in [Threads -> PC] /\ pc' \in [Threads -> PC]
        /\ \A u \in Threads : u # t => pc'[u] = pc[u]
    BY StepGoes
  <1>4. DOMAIN cursor = Threads
    BY DEF CursorInv
  <1>5. ASSUME NEW u \in Threads, Merging(u), cursor'[u] = cursor[u],
               \A i \in Base(u) .. cursor[u].new - 1 : newKeys'[i] = newKeys[i]
        PROVE  Merging(u)'
    <2>1. PICK c : c = cursor[u]
      OBVIOUS
    <2>2. PICK a : a = newKeys
      OBVIOUS
    <2>3. PICK b : b = newKeys'
      OBVIOUS
    <2>4. /\ c.new = Base(u) + c.targets /\ (Top(u) - Base(u) > 0 => Inputs(u, c))
          /\ Contents(u, c, a)
      BY <1>5, <2>1, <2>2 DEF Merging
    <2>5. Contents(u, c, b)
      BY <1>5, <2>1, <2>2, <2>3, <2>4, ContentsKeep
    <2> QED BY <1>1, <1>5, <2>1, <2>3, <2>4, <2>5, MergingLater
  <1>6. CASE Puts(t)
    <2>1. /\ pc[t] = "merge" /\ cursor[t].targets < Top(t) - Base(t)
          /\ UNCHANGED <<pc, error>>
      BY <1>6, PutForm
    <2>2. Merging(t)
      BY <1>2, <2>1 DEF Started
    <2>3. PICK k, d : /\ Moves(t, cursor[t], d, k)
                      /\ newKeys' = [newKeys EXCEPT ![cursor[t].new] = k]
                      /\ cursor' = [cursor EXCEPT ![t] = Advanced(d)]
      BY <1>6, <2>2, PutMoves, Zenon
    <2>4. PICK c : c = cursor[t]
      OBVIOUS
    <2>5. PICK e : e = Advanced(d)
      OBVIOUS
    <2>6. PICK a : a = newKeys
      OBVIOUS
    <2>7. PICK b : b = Stored(a, c.new, k)
      OBVIOUS
    <2>8. newKeys' = b /\ cursor' = [cursor EXCEPT ![t] = e] /\ cursor'[t] = e
          /\ \A u \in Threads : u # t => cursor'[u] = cursor[u]
      BY <1>4, <2>3, <2>4, <2>5, <2>6, <2>7 DEF Stored
    <2>9. /\ c.new \in Nat /\ c.targets \in Nat /\ c.new \in DOMAIN a /\ Base(t) <= c.new
          /\ \A u \in Threads : pc[u] \in Started => c.new \notin Base(u) .. cursor[u].new - 1
          /\ \A i \in 0 .. cursor[t].new : i \in DOMAIN newKeys
      BY <2>1, <2>4, <2>6, OwnSlot
    <2>10. c.new = Base(t) + c.targets /\ Inputs(t, c) /\ Contents(t, c, a) /\ Base(t) \in Nat
      <3>1. Base(t) \in Nat /\ Top(t) \in Nat
        BY SlotsAre
      <3>2. Top(t) - Base(t) > 0
        BY <2>1, <2>4, <2>9, <3>1
      <3> QED BY <2>2, <2>4, <2>6, <3>1, <3>2 DEF Merging
    <2>11. /\ IsCursor(e) /\ e.new = c.new + 1 /\ e.targets = c.targets + 1
           /\ Inputs(t, e) /\ Contents(t, e, b)
      <3>1. Moves(t, c, d, k)
        BY <2>3, <2>4
      <3>2. c.new \in Nat /\ c.targets \in Nat /\ Base(t) <= c.new
        BY <2>9
      <3>3. \A i \in 0 .. c.new : i \in DOMAIN a
        BY <2>4, <2>6, <2>9
      <3> QED BY <2>5, <2>7, <2>10, <3>1, <3>2, <3>3, PutContents
    <2>12. e.new = Base(t) + e.targets
      BY <2>9, <2>10, <2>11
    <2>13. Merging(t)'
      BY <1>1, <2>8, <2>11, <2>12, MergingLater
    <2>14. ASSUME NEW u \in Threads, pc'[u] \in Started, u # t PROVE Merging(u)'
      <3>1. pc[u] \in Started /\ cursor'[u] = cursor[u]
        BY <2>1, <2>8, <2>14
      <3>2. \A i \in Base(u) .. cursor[u].new - 1 : newKeys'[i] = newKeys[i]
        <4>1. \A i \in Base(u) .. cursor[u].new - 1 : i # c.new
          BY <2>9, <3>1
        <4>2. \A i : i # c.new => b[i] = a[i] \/ ~(i \in DOMAIN a)
          BY <2>7 DEF Stored
        <4>3. \A i \in Base(u) .. cursor[u].new - 1 : i \in DOMAIN a
          <5>1. CountInv(u) /\ Base(u) \in Nat /\ Top(u) \in Nat /\ Top(u) <= TotalSize + BufBefore(NumPages)
                /\ TotalSize + BufBefore(NumPages) \in Nat
            BY <3>1, SlotsAre DEF CursorInv
          <5>2. cursor[u].new \in Nat /\ cursor[u].new <= Top(u)
            BY <5>1 DEF CountInv
          <5>3. DOMAIN a = 0 .. (TotalSize + BufBefore(NumPages)) - 1
            BY <2>1, <2>6, StartedLate, ThreadZero DEF LayoutInv, Started
          <5>4. PICK n \in Nat : n = TotalSize + BufBefore(NumPages)
            BY <5>1
          <5>5. PICK x \in Nat, y \in Nat : x = Base(u) /\ y = cursor[u].new
            BY <5>1, <5>2
          <5>6. y <= n
            <6>1. PICK z \in Nat : z = Top(u) /\ z <= n
              BY <5>1, <5>4
            <6> QED BY <5>2, <5>4, <5>5, <6>1
          <5>7. DOMAIN a = 0 .. n - 1
            BY <5>3, <5>4, Zenon
          <5>8. \A i \in x .. y - 1 : i \in DOMAIN a
            BY <5>6, <5>7
          <5> QED BY <5>5, <5>8
        <4> QED BY <2>6, <2>8, <4>1, <4>2, <4>3
      <3> QED BY <1>2, <1>5, <3>1, <3>2
    <2>15. error' = FALSE
      BY <1>2, <2>1
    <2> QED BY <2>13, <2>14, <2>15
  <1>7. CASE PutNothing(t)
    <2>1. pc[t] \in Started
      BY <1>7 DEF PutNothing, Iterating, Started
    <2> QED BY <1>2, <1>7, <2>1, NeverNothing
  <1>8. CASE Start(t)
    <2>1. pc[t] = "start" /\ pc'[t] = "merge" /\ UNCHANGED <<newKeys, error>>
      BY <1>3, <1>8 DEF Start
    <2>2. PICK k : k = IF StartOld(t) < TotalSize THEN keys[StartOld(t)] ELSE None
      OBVIOUS
    <2>3. PICK c : c = [NoCursor EXCEPT !.new = StartOld(t) + BufBefore(StartPage(t)),
                                        !.old = StartOld(t) + 1, !.oldKey = k]
      OBVIOUS
    <2>4. PICK d : d = FetchPage(c, t, StartPage(t))
      OBVIOUS
    <2>5. mergeOffset[t] = BufBefore(StartPage(t))
      BY <2>1, StartedLate, ThreadZero DEF LayoutInv
    <2>6. cursor' = [cursor EXCEPT ![t] = d]
      BY <1>8, <2>2, <2>3, <2>4, <2>5, Zenon DEF Start
    <2>7. /\ d.new = Base(t) /\ d.targets = 0 /\ (Top(t) - Base(t) > 0 => Inputs(t, d))
          /\ \A a : Contents(t, d, a)
      BY <2>2, <2>3, <2>4, StartIs
    <2>8. cursor'[t] = d /\ \A u \in Threads : u # t => cursor'[u] = cursor[u]
      BY <1>4, <2>6
    <2>9. Merging(t)'
      <3>1. PICK b : b = newKeys'
        OBVIOUS
      <3>2. d.new = Base(t) + d.targets /\ Contents(t, d, b)
        <4>1. Base(t) \in Nat
          BY SlotsAre
        <4> QED BY <2>7, <4>1
      <3> QED BY <1>1, <2>7, <2>8, <3>1, <3>2, MergingLater
    <2>10. \A u \in Threads : pc'[u] \in Started => Merging(u)'
      BY <1>2, <1>3, <1>5, <2>1, <2>8, <2>9
    <2> QED BY <1>2, <2>1, <2>10
  <1>9. CASE Plan(t)
    <2>1. pc[t] = "plan" /\ pc'[t] = "bar2" /\ UNCHANGED error
      BY <1>3, <1>9 DEF Plan
    <2>2. \A u \in Threads : pc[u] \notin Started
      BY <2>1, StartedLate DEF Before2
    <2>3. \A u \in Threads : pc'[u] \notin Started
      BY <1>3, <2>1, <2>2 DEF Started
    <2> QED BY <1>2, <2>1, <2>3
  <1>10. CASE UNCHANGED <<cursor, newKeys, error>> /\ ~Start(t)
    <2>1. \A u \in Threads : pc'[u] \in Started => pc[u] \in Started
      BY <1>3, <1>10, StepGoes DEF Started
    <2>2. \A u \in Threads : pc'[u] \in Started => Merging(u)'
      BY <1>2, <1>5, <1>10, <2>1
    <2> QED BY <1>2, <1>10, <2>2
  <1>11. Start(t) \/ Puts(t) \/ PutNothing(t) \/ Plan(t) \/ UNCHANGED <<cursor, newKeys, error>>
    BY DEF Step, Puts, Count, Barrier1, Barrier2, Barrier3, PassBarrier, EndMerge, Partial
  <1> QED BY <1>6, <1>7, <1>8, <1>9, <1>10, <1>11

LEMMA WrittenStep ==
  ASSUME DataInv, SampledInv, LayoutInv, CursorInv, WrittenInv, NEW t \in Threads, Step(t)
  PROVE  WrittenInv'
  <1>1. /\ pc \in [Threads -> PC] /\ pc' \in [Threads -> PC] /\ DOMAIN cursor = Threads
        /\ \A u \in Threads : u # t => pc'[u] = pc[u]
        /\ \A u \in Threads : Base(u)' = Base(u)
    <2>1. UNCHANGED dindex
      BY StepGoes
    <2> QED BY <2>1, StepGoes, Unmoved DEF CursorInv
  <1>2. /\ \A i \in DOMAIN newKeys : newKeys[i] # None =>
             \E u \in Threads : pc[u] \in Started /\ i \in Base(u) .. cursor[u].new - 1
        /\ \A i \in DOMAIN newPartial : newPartial[i] # None =>
             (\A u \in Threads : pc[u] \notin Before3) /\ newPartial[i] = newKeys[Ratio * i]
    BY DEF WrittenInv
  <1>3. CASE Plan(t)
    <2>1. /\ \A i \in DOMAIN newKeys' : newKeys'[i] = None
          /\ \A i \in DOMAIN newPartial' : newPartial'[i] = None
      BY <1>3 DEF Plan
    <2> QED BY <2>1 DEF WrittenInv
  <1>4. ASSUME pc[t] \in Before3, UNCHANGED newPartial
        PROVE  \A i \in DOMAIN newPartial' : newPartial'[i] = None
    BY <1>2, <1>4
  <1>5. CASE Puts(t)
    <2>1. /\ pc[t] = "merge" /\ cursor[t].targets < Top(t) - Base(t) /\ UNCHANGED <<pc, newPartial>>
      BY <1>5, PutForm
    <2>2. PICK k, d : /\ IsCursor(d) /\ d.new = cursor[t].new /\ d.targets = cursor[t].targets
                      /\ newKeys' = [newKeys EXCEPT ![cursor[t].new] = k]
                      /\ cursor' = [cursor EXCEPT ![t] = Advanced(d)]
      BY <1>5, PutForm, Zenon
    <2>3. cursor'[t].new = cursor[t].new + 1 /\ \A u \in Threads : u # t => cursor'[u] = cursor[u]
      <3>1. Advanced(d).new = cursor[t].new + 1
        BY <2>2 DEF IsCursor, Advanced
      <3> QED BY <1>1, <2>2, <3>1
    <2>4. cursor[t].new \in Nat /\ Base(t) <= cursor[t].new /\ Base(t) \in Nat
      BY <2>1, OwnSlot, SlotsAre
    <2>5. \A i \in DOMAIN newKeys' : newKeys'[i] # None =>
             \E u \in Threads : pc'[u] \in Started /\ i \in Base(u) .. cursor'[u].new - 1
      <3> SUFFICES ASSUME NEW i \in DOMAIN newKeys', newKeys'[i] # None
                   PROVE  \E u \in Threads : pc'[u] \in Started /\ i \in Base(u) .. cursor'[u].new - 1
        OBVIOUS
      <3>1. CASE i = cursor[t].new
        <4>1. i \in Base(t) .. cursor'[t].new - 1
          BY <2>3, <2>4, <3>1
        <4> QED BY <2>1, <4>1 DEF Started
      <3>2. CASE i # cursor[t].new
        <4>1. i \in DOMAIN newKeys /\ newKeys'[i] = newKeys[i]
          BY <2>2, <3>2
        <4>2. PICK u \in Threads : pc[u] \in Started /\ i \in Base(u) .. cursor[u].new - 1
          BY <1>2, <4>1
        <4>3. i \in Base(u) .. cursor'[u].new - 1
          BY <2>3, <2>4, <4>2
        <4> QED BY <2>1, <4>2, <4>3
      <3> QED BY <3>1, <3>2
    <2>6. \A i \in DOMAIN newPartial' : newPartial'[i] = None
      BY <1>4, <2>1 DEF Before3
    <2> QED BY <1>1, <2>5, <2>6 DEF WrittenInv
  <1>6. ASSUME UNCHANGED newKeys, pc[t] \in Started => pc'[t] \in Started,
               \A u \in Threads : pc[u] \in Started => cursor'[u].new = cursor[u].new
        PROVE  \A i \in DOMAIN newKeys' : newKeys'[i] # None =>
                 \E u \in Threads : pc'[u] \in Started /\ i \in Base(u) .. cursor'[u].new - 1
    <2> SUFFICES ASSUME NEW i \in DOMAIN newKeys, newKeys[i] # None
                 PROVE  \E u \in Threads : pc'[u] \in Started /\ i \in Base(u) .. cursor'[u].new - 1
      BY <1>6
    <2>1. PICK u \in Threads : pc[u] \in Started /\ i \in Base(u) .. cursor[u].new - 1
      BY <1>2
    <2>2. pc'[u] \in Started /\ cursor'[u].new = cursor[u].new
      BY <1>1, <1>6, <2>1
    <2> QED BY <2>1, <2>2
  <1>7. CASE Start(t)
    <2>1. pc[t] = "start" /\ pc'[t] = "merge" /\ UNCHANGED <<newKeys, newPartial>>
      BY <1>1, <1>7 DEF Start
    <2>2. \A u \in Threads : u # t => cursor'[u] = cursor[u]
      BY <1>1, <1>7 DEF Start
    <2>3. \A u \in Threads : pc[u] \in Started => u # t
      BY <2>1 DEF Started
    <2>4. \A i \in DOMAIN newPartial' : newPartial'[i] = None
      BY <1>4, <2>1 DEF Before3
    <2> QED BY <1>1, <1>6, <2>1, <2>2, <2>3, <2>4 DEF WrittenInv, Started
  <1>8. CASE PutNothing(t)
    <2>1. pc[t] = "merge" /\ UNCHANGED <<pc, newKeys, newPartial>>
          /\ cursor' = [cursor EXCEPT ![t].targets = @ + 1]
      BY <1>8 DEF PutNothing, Iterating
    <2>2. \A u \in Threads : cursor'[u].new = cursor[u].new
      <3>1. \A u \in Threads : IsCursor(cursor[u])
        BY DEF CursorInv
      <3> QED BY <1>1, <2>1, <3>1 DEF IsCursor
    <2>3. \A i \in DOMAIN newPartial' : newPartial'[i] = None
      BY <1>4, <2>1 DEF Before3
    <2> QED BY <1>1, <1>6, <2>1, <2>2, <2>3 DEF WrittenInv
  <1>9. CASE Partial(t)
    <2>1. /\ pc[t] = "partial" /\ pc'[t] = "done" /\ UNCHANGED <<newKeys, cursor>>
          /\ DOMAIN newPartial' = DOMAIN newPartial
          /\ \A i \in DOMAIN newPartial : newPartial'[i] \in {newPartial[i], newKeys[Ratio * i]}
      BY <1>1, <1>9 DEF Partial
    <2>2. \A u \in Threads : pc[u] \notin Before3
      BY <2>1 DEF SampledInv, BarrierInv, Sampling
    <2>3. \A u \in Threads : pc'[u] \notin Before3
      BY <1>1, <2>1, <2>2 DEF Before3, Before2, Before1
    <2>4. \A i \in DOMAIN newPartial' : newPartial'[i] # None =>
            (\A u \in Threads : pc'[u] \notin Before3) /\ newPartial'[i] = newKeys'[Ratio * i]
      BY <1>2, <2>1, <2>3
    <2> QED BY <1>1, <1>6, <2>1, <2>4 DEF WrittenInv, Started
  <1>10. CASE UNCHANGED <<cursor, newKeys, newPartial>> /\ ~Start(t) /\ ~Plan(t) /\ ~Puts(t) /\ ~PutNothing(t)
    <2>1. pc[t] \in Started => pc'[t] \in Started
      BY <1>10, StepGoes DEF Started
    <2>2. (\A u \in Threads : pc[u] \notin Before3) => \A u \in Threads : pc'[u] \notin Before3
      <3>1. pc[t] \notin Before3 => pc'[t] \notin Before3
        BY <1>10, StepGoes DEF Before3, Before2, Before1
      <3> QED BY <1>1, <3>1
    <2>3. \A i \in DOMAIN newPartial' : newPartial'[i] # None =>
            (\A u \in Threads : pc'[u] \notin Before3) /\ newPartial'[i] = newKeys'[Ratio * i]
      BY <1>2, <1>10, <2>2
    <2> QED BY <1>1, <1>6, <1>10, <2>1, <2>3 DEF WrittenInv
  <1>11. \/ Start(t) \/ Puts(t) \/ PutNothing(t) \/ Plan(t) \/ Partial(t)
         \/ UNCHANGED <<cursor, newKeys, newPartial>>
    BY DEF Step, Puts, Count, Barrier1, Barrier2, Barrier3, PassBarrier, EndMerge
  <1> QED BY <1>3, <1>5, <1>7, <1>8, <1>9, <1>10, <1>11

LEMMA MergeInit == Init => MergeInv
  <1> SUFFICES ASSUME Init PROVE MergeInv
    OBVIOUS
  <1>1. pc = [t \in Threads |-> "count"] /\ pc[0] = "count"
    BY ThreadZero DEF Init
  <1>2. LayoutInv
    BY <1>1, ThreadZero DEF Init, LayoutInv, Before2, Before1
  <1>3. CursorInv
    BY <1>1 DEF Init, CursorInv, IsCursor, NoCursor, Started
  <1>4. DisjointInv
    BY <1>1 DEF Init, DisjointInv, Started
  <1>5. WrittenInv
    <2>1. newKeys = <<>> /\ newPartial = <<>>
      BY DEF Init
    <2>2. DOMAIN newKeys = {} /\ DOMAIN newPartial = {}
      BY <2>1
    <2> QED BY <2>2 DEF WrittenInv
  <1> QED BY <1>2, <1>3, <1>4, <1>5, DataInit, SampledInit DEF MergeInv

LEMMA MergeStep == MergeInv /\ [Next]_vars => MergeInv'
  <1> SUFFICES ASSUME MergeInv, [Next]_vars PROVE MergeInv'
    OBVIOUS
  <1>1. SampledInv'
    BY SampledStep DEF MergeInv
  <1>2. CASE \E t \in Threads : Step(t)
    <2>1. PICK t \in Threads : Step(t)
      BY <1>2
    <2>2. DataInv'
      BY <2>1, StepGoes, Unmoved DEF MergeInv
    <2> QED
      BY <1>1, <2>1, <2>2, LayoutStep, CursorStep, DisjointStep, WrittenStep DEF MergeInv
  <1>3. CASE UNCHANGED vars
    <2>1. UNCHANGED <<keys, bufferPages, pc, keyCount, mergeOffset, newTotal, newKeys, newPartial, cursor, error>>
      BY <1>3 DEF vars
    <2>2. /\ DataInv' <=> DataInv
          /\ Disjoint' <=> Disjoint
          /\ TotalSize' = TotalSize /\ NumPages' = NumPages
          /\ \A p : PageSize(p)' = PageSize(p) /\ BufBefore(p)' = BufBefore(p)
          /\ \A t : /\ StartPage(t)' = StartPage(t) /\ Found(t)' = Found(t)
                    /\ Base(t)' = Base(t) /\ Top(t)' = Top(t)
      BY <2>1, Unmoved
    <2>3. LayoutInv'
      BY <2>1, <2>2 DEF MergeInv, LayoutInv
    <2>4. CursorInv'
      BY <2>1, <2>2 DEF MergeInv, CursorInv, CountInv, IsCursor
    <2>5. WrittenInv'
      BY <2>1, <2>2 DEF MergeInv, WrittenInv
    <2>6. ASSUME NEW t \in Threads, Merging(t) PROVE Merging(t)'
      <3>1. PICK c, a : c = cursor[t] /\ a = newKeys
        OBVIOUS
      <3>2. c.new = Base(t) + c.targets /\ (Top(t) - Base(t) > 0 => Inputs(t, c)) /\ Contents(t, c, a)
        BY <2>6, <3>1 DEF Merging
      <3>3. cursor'[t] = c /\ newKeys' = a /\ UNCHANGED dindex
        BY <2>1, <3>1
      <3> QED BY <3>2, <3>3, MergingLater
    <2>7. DisjointInv'
      BY <2>1, <2>2, <2>6 DEF MergeInv, DisjointInv
    <2> QED BY <1>1, <2>2, <2>3, <2>4, <2>5, <2>7 DEF MergeInv
  <1> QED BY <1>2, <1>3 DEF Next

-----------------------------------------------------------------------------
(* What the threads have taken is everything.                              *)

\* Slices that join cover all numbers up to the end of the last.
LEMMA JoinedCover ==
  ASSUME NEW lo, NEW hi, NEW n \in Nat,
         \A t \in Threads : lo[t] \in Nat /\ hi[t] \in Nat,
         lo[0] = 0, hi[Last] = n, \A t \in Threads : t # Last => lo[t + 1] = hi[t],
         NEW x \in 0 .. n - 1
  PROVE  \E t \in Threads : x \in lo[t] .. hi[t] - 1
  <1> DEFINE Behind == {t \in Threads : x < hi[t]}
  <1>1. Last \in Behind /\ \A t \in Behind : t \in Nat
    BY ThreadZero DEF Threads
  <1>2. PICK t \in Behind : \A u \in Behind : t <= u
    <2> HIDE DEF Behind
    <2> QED BY <1>1, LeastNumber
  <1>3. t \in Threads /\ t \in Nat /\ x < hi[t] /\ lo[t] \in Nat /\ hi[t] \in Nat /\ x \in Nat
    BY <1>1
  <1>4. lo[t] <= x
    <2>1. CASE t = 0
      BY <1>3, <2>1
    <2>2. CASE t # 0
      <3>1. t - 1 \in Threads /\ t - 1 # Last /\ (t - 1) + 1 = t /\ ~(t <= t - 1)
        BY <1>3, <2>2, NumThreadsAssumption DEF Threads, Last
      <3>2. ~(x < hi[t - 1])
        BY <1>2, <3>1
      <3>3. lo[(t - 1) + 1] = hi[t - 1] /\ hi[t - 1] \in Nat
        BY <3>1
      <3> QED BY <1>3, <3>1, <3>2, <3>3
    <2> QED BY <2>1, <2>2
  <1> QED BY <1>3, <1>4

LEMMA SlicesCover ==
  ASSUME DataInv
  PROVE  /\ \A x \in 0 .. (TotalSize + BufBefore(NumPages)) - 1 : \E t \in Threads : x \in Base(t) .. Top(t) - 1
         /\ \A j \in 0 .. TotalSize - 1 : \E t \in Threads : j \in StartOld(t) .. EndOld(t) - 1
         /\ \A p \in 0 .. NumPages - 1 : \E t \in Threads : p \in StartPage(t) .. EndPage(t) - 1
  <1>1. \A t \in Threads :
          /\ StartPage(t) \in Nat /\ EndPage(t) \in Nat /\ StartOld(t) \in Nat /\ EndOld(t) \in Nat
          /\ Base(t) \in Nat /\ Top(t) \in Nat
    BY Slices, SlotsAre, PagesAre
  <1>2. StartPage(0) = 0 /\ EndPage(Last) = NumPages
    BY SlicesJoin, Slices, ThreadZero
  <1>3. StartOld(0) = 0 /\ EndOld(Last) = TotalSize
    BY <1>2, Slices, ThreadZero, RatioAssumption
  <1>4. Base(0) = 0 /\ Top(Last) = TotalSize + BufBefore(NumPages)
    BY <1>2, <1>3, BufSteps DEF Base, Top
  <1>5. \A t \in Threads : t # Last =>
          /\ t + 1 \in Threads /\ StartPage(t + 1) = EndPage(t) /\ StartOld(t + 1) = EndOld(t)
          /\ Base(t + 1) = Top(t)
    BY SlicesJoin DEF Base, Top
  <1>6. TotalSize \in Nat /\ NumPages \in Nat /\ TotalSize + BufBefore(NumPages) \in Nat
    BY PagesAre, SlotsAre, ThreadZero
  <1>7. ASSUME NEW x \in 0 .. (TotalSize + BufBefore(NumPages)) - 1
        PROVE  \E t \in Threads : x \in Base(t) .. Top(t) - 1
    <2>1. PICK lo : lo = [t \in Threads |-> Base(t)]
      OBVIOUS
    <2>2. PICK hi : hi = [t \in Threads |-> Top(t)]
      OBVIOUS
    <2>3. \A t \in Threads : lo[t] = Base(t) /\ hi[t] = Top(t) /\ lo[t] \in Nat /\ hi[t] \in Nat
      BY <1>1, <2>1, <2>2
    <2>4. \A t \in Threads : t # Last => lo[t + 1] = hi[t]
      BY <1>5, <2>3
    <2>5. lo[0] = 0 /\ hi[Last] = TotalSize + BufBefore(NumPages)
      BY <1>4, <2>3, ThreadZero
    <2>6. \E t \in Threads : x \in lo[t] .. hi[t] - 1
      BY <1>6, <1>7, <2>3, <2>4, <2>5, JoinedCover
    <2> QED BY <2>3, <2>6
  <1>8. ASSUME NEW x \in 0 .. TotalSize - 1
        PROVE  \E t \in Threads : x \in StartOld(t) .. EndOld(t) - 1
    <2>1. PICK lo : lo = [t \in Threads |-> StartOld(t)]
      OBVIOUS
    <2>2. PICK hi : hi = [t \in Threads |-> EndOld(t)]
      OBVIOUS
    <2>3. \A t \in Threads : lo[t] = StartOld(t) /\ hi[t] = EndOld(t) /\ lo[t] \in Nat /\ hi[t] \in Nat
      BY <1>1, <2>1, <2>2
    <2>4. \A t \in Threads : t # Last => lo[t + 1] = hi[t]
      BY <1>5, <2>3
    <2>5. lo[0] = 0 /\ hi[Last] = TotalSize
      BY <1>3, <2>3, ThreadZero
    <2>6. \E t \in Threads : x \in lo[t] .. hi[t] - 1
      BY <1>6, <1>8, <2>3, <2>4, <2>5, JoinedCover
    <2> QED BY <2>3, <2>6
  <1>9. ASSUME NEW x \in 0 .. NumPages - 1
        PROVE  \E t \in Threads : x \in StartPage(t) .. EndPage(t) - 1
    <2>1. PICK lo : lo = [t \in Threads |-> StartPage(t)]
      OBVIOUS
    <2>2. PICK hi : hi = [t \in Threads |-> EndPage(t)]
      OBVIOUS
    <2>3. \A t \in Threads : lo[t] = StartPage(t) /\ hi[t] = EndPage(t) /\ lo[t] \in Nat /\ hi[t] \in Nat
      BY <1>1, <2>1, <2>2
    <2>4. \A t \in Threads : t # Last => lo[t + 1] = hi[t]
      BY <1>5, <2>3
    <2>5. lo[0] = 0 /\ hi[Last] = NumPages
      BY <1>2, <2>3, ThreadZero
    <2>6. \E t \in Threads : x \in lo[t] .. hi[t] - 1
      BY <1>6, <1>9, <2>3, <2>4, <2>5, JoinedCover
    <2> QED BY <2>3, <2>6
  <1> QED BY <1>7, <1>8, <1>9

\* Every key is in a slice, and the slices have no others.
LEMMA InputsCover ==
  ASSUME DataInv
  PROVE  /\ \A k \in Values(keys) \cup Buffered : \E t \in Threads : k \in BufOf(t) \cup OldOf(t)
         /\ \A t \in Threads : BufOf(t) \cup OldOf(t) \subseteq Values(keys) \cup Buffered
  <1>1. TotalSize \in Nat /\ DOMAIN keys = 0 .. TotalSize - 1 /\ DOMAIN bufferPages = 0 .. NumPages - 1
    BY DEF DataInv, Ascending
  <1>2. ASSUME NEW k \in Values(keys) PROVE \E t \in Threads : k \in OldOf(t)
    <2>1. PICK j \in 0 .. TotalSize - 1 : k = keys[j]
      BY <1>1 DEF Values
    <2>2. PICK t \in Threads : j \in StartOld(t) .. EndOld(t) - 1
      BY SlicesCover
    <2> QED BY <2>1, <2>2 DEF OldOf
  <1>3. ASSUME NEW k \in Buffered PROVE \E t \in Threads : k \in BufOf(t)
    <2>1. PICK p \in 0 .. NumPages - 1 : k \in Values(bufferPages[p])
      BY <1>1 DEF Buffered
    <2>2. PICK t \in Threads : p \in StartPage(t) .. EndPage(t) - 1
      BY SlicesCover
    <2> QED BY <2>1, <2>2 DEF BufOf
  <1>4. ASSUME NEW t \in Threads PROVE BufOf(t) \cup OldOf(t) \subseteq Values(keys) \cup Buffered
    <2>1. \A p \in StartPage(t) .. EndPage(t) - 1 : p \in DOMAIN bufferPages
      BY <1>1, Slices, PagesAre
    <2>2. \A j \in StartOld(t) .. EndOld(t) - 1 : j \in DOMAIN keys
      BY <1>1, Slices, PagesAre
    <2>3. BufOf(t) \subseteq Buffered
      BY <2>1 DEF BufOf, Buffered
    <2>4. OldOf(t) \subseteq Values(keys)
      BY <2>2 DEF OldOf, Values
    <2> QED BY <2>3, <2>4
  <1> QED BY <1>2, <1>3, <1>4

\* Two counts, each up to its end, that add up to both ends are at their ends.
LEMMA BothEnds ==
  ASSUME NEW e \in Nat, NEW s \in Nat, NEW o \in Nat, NEW x \in Nat, NEW y \in Nat, NEW b \in Nat,
         o <= e, b <= x, (e - s) + (x - y) = (o - s) + (b - y)
  PROVE  e = o /\ x = b
  OBVIOUS

\* A thread that has merged has filled its slots with the keys of its slice.
LEMMA SliceMerged ==
  ASSUME DataInv, NEW t \in Threads, NEW c, NEW a, Contents(t, c, a),
         c.new = Base(t) + c.targets, c.targets = Top(t) - Base(t),
         Top(t) - Base(t) > 0 => Inputs(t, c)
  PROVE  /\ \A i \in Base(t) .. Top(t) - 1 : a[i] \in BufOf(t) \cup OldOf(t)
         /\ \A i, j \in Base(t) .. Top(t) - 1 : i < j => a[i] < a[j]
         /\ \A k \in BufOf(t) \cup OldOf(t) : \E i \in Base(t) .. Top(t) - 1 : a[i] = k
  <1>1. /\ Base(t) \in Nat /\ Top(t) \in Nat /\ Base(t) <= Top(t) /\ Found(t) \in Nat
        /\ Top(t) - Base(t) = EndOld(t) - StartOld(t) + Found(t)
        /\ StartOld(t) \in Nat /\ EndOld(t) \in Nat /\ StartOld(t) <= EndOld(t)
        /\ StartPage(t) \in 0 .. NumPages /\ EndPage(t) \in 0 .. NumPages /\ NumPages \in Nat
        /\ StartPage(t) <= EndPage(t)
    BY SlotsAre, Slices, PagesAre
  <1>2. c.new = Top(t)
    BY <1>1
  <1>3. /\ \A i \in Base(t) .. Top(t) - 1 : a[i] \in BufOf(t) \cup OldOf(t)
        /\ \A i, j \in Base(t) .. Top(t) - 1 : i < j => a[i] < a[j]
    BY <1>2 DEF Contents
  <1>4. CASE Top(t) = Base(t)
    <2>1. StartOld(t) = EndOld(t) /\ Found(t) = 0
      BY <1>1, <1>4
    <2>2. OldOf(t) = {}
      BY <1>1, <2>1 DEF OldOf
    <2>3. ASSUME NEW k \in BufOf(t) PROVE FALSE
      <3>1. PICK p \in StartPage(t) .. EndPage(t) - 1 : \E i \in 0 .. PageSize(p) - 1 : k = bufferPages[p][i]
        BY InBufOf
      <3>2. /\ p \in 0 .. NumPages /\ p + 1 \in 0 .. NumPages /\ p \in 0 .. NumPages - 1
            /\ StartPage(t) <= p /\ p + 1 <= EndPage(t)
        BY <1>1
      <3>3. PageSize(p) \in Nat /\ PageSize(p) # 0
        BY <3>1, <3>2, PagesAre
      <3>4. /\ BufBefore(StartPage(t)) <= BufBefore(p) /\ BufBefore(p + 1) <= BufBefore(EndPage(t))
            /\ BufBefore(p + 1) = BufBefore(p) + PageSize(p)
            /\ BufBefore(p) \in Nat /\ BufBefore(StartPage(t)) \in Nat /\ BufBefore(EndPage(t)) \in Nat
        BY <1>1, <3>2, BufBetween, BufSteps
      <3> QED BY <2>1, <3>3, <3>4 DEF Found
    <2> QED BY <1>3, <2>2, <2>3
  <1>5. CASE Top(t) # Base(t)
    <2>1. Fetched(t, c) /\ c.new - Base(t) = (OldPos(c) - StartOld(t)) + (BufPos(t, c) - BufBefore(StartPage(t)))
      BY <1>1, <1>5 DEF Inputs
    <2>2. /\ OldPos(c) \in Nat /\ OldPos(c) <= EndOld(t)
          /\ BufPos(t, c) \in Nat /\ BufPos(t, c) <= BufBefore(EndPage(t))
          /\ ~c.bufEnd => BufPos(t, c) < BufBefore(EndPage(t))
          /\ BufBefore(StartPage(t)) \in Nat /\ BufBefore(EndPage(t)) \in Nat
      BY <2>1, PositionsAre
    <2>3. OldPos(c) = EndOld(t) /\ c.bufEnd
      <3>1. Found(t) = BufBefore(EndPage(t)) - BufBefore(StartPage(t))
        BY DEF Found
      <3>2. Top(t) - Base(t) = (OldPos(c) - StartOld(t)) + (BufPos(t, c) - BufBefore(StartPage(t)))
        BY <1>2, <2>1
      <3>3. OldPos(c) = EndOld(t) /\ BufPos(t, c) = BufBefore(EndPage(t))
        <4>1. (EndOld(t) - StartOld(t)) + (BufBefore(EndPage(t)) - BufBefore(StartPage(t)))
                = (OldPos(c) - StartOld(t)) + (BufPos(t, c) - BufBefore(StartPage(t)))
          BY <1>1, <3>1, <3>2
        <4>2. PICK e \in Nat, s \in Nat, o \in Nat : e = EndOld(t) /\ s = StartOld(t) /\ o = OldPos(c) /\ o <= e
          BY <1>1, <2>2
        <4>3. PICK x \in Nat, y \in Nat, b \in Nat :
                x = BufBefore(EndPage(t)) /\ y = BufBefore(StartPage(t)) /\ b = BufPos(t, c) /\ b <= x
          BY <1>1, <2>2
        <4>4. (e - s) + (x - y) = (o - s) + (b - y)
          BY <4>1, <4>2, <4>3
        <4>5. e = o /\ x = b
          BY <4>2, <4>3, <4>4, BothEnds
        <4> QED BY <4>2, <4>3, <4>5
      <3>4. ~(BufPos(t, c) < BufBefore(EndPage(t)))
        BY <2>2, <3>3
      <3> QED BY <2>2, <3>3, <3>4
    <2>4. ASSUME NEW k \in OldOf(t) PROVE \E i \in Base(t) .. Top(t) - 1 : a[i] = k
      <3>1. PICK j \in StartOld(t) .. EndOld(t) - 1 : k = keys[j]
        BY DEF OldOf
      <3>2. j < OldPos(c)
        BY <1>1, <2>3
      <3> QED BY <1>2, <3>1, <3>2 DEF Contents
    <2>5. ASSUME NEW k \in BufOf(t) PROVE \E i \in Base(t) .. Top(t) - 1 : a[i] = k
      BY <1>2, <2>3 DEF Contents
    <2> QED BY <1>3, <2>4, <2>5
  <1> QED BY <1>4, <1>5

-----------------------------------------------------------------------------
(* How many keys there are.                                                *)

LEMMA AscendingSize ==
  ASSUME NEW a, NEW m, Ascending(a, m)
  PROVE  IsFiniteSet(Values(a)) /\ Cardinality(Values(a)) = m
  <1>1. /\ m \in Nat /\ DOMAIN a = 0 .. m - 1 /\ \A i \in 0 .. m - 1 : a[i] \in Nat
        /\ \A i, j \in 0 .. m - 1 : i < j => a[i] < a[j]
    BY DEF Ascending
  <1>2. PICK S : S = 0 .. m - 1 /\ IsFiniteSet(S) /\ Cardinality(S) = m
    BY <1>1, FS_Interval
  <1>3. PICK f : f = [i \in S |-> a[i]]
    OBVIOUS
  <1>4. \A i \in S : f[i] = a[i] /\ f[i] \in Values(a)
    BY <1>1, <1>2, <1>3 DEF Values
  <1>5. f \in [S -> Values(a)]
    BY <1>3, <1>4
  <1>6. \A i, j \in S : f[i] = f[j] => i = j
    <2> SUFFICES ASSUME NEW i \in S, NEW j \in S, a[i] = a[j] PROVE i = j
      BY <1>4
    <2>1. i \in 0 .. m - 1 /\ j \in 0 .. m - 1 /\ a[i] \in Nat
      BY <1>1, <1>2
    <2>2. ~(i < j) /\ ~(j < i)
      BY <1>1, <2>1
    <2> QED BY <2>1, <2>2
  <1>7. \A k \in Values(a) : \E i \in S : f[i] = k
    BY <1>1, <1>2, <1>4 DEF Values
  <1>8. f \in Injection(S, Values(a))
    BY <1>5, <1>6, Zenon DEF Injection, IsInjective
  <1>9. f \in Surjection(S, Values(a))
    BY <1>5, <1>7, Zenon DEF Surjection
  <1> QED BY <1>2, <1>8, <1>9, FS_Surjection

\* The keys of the pages are as many as the pages hold: no key is in two pages.
LEMMA BufferedSize ==
  ASSUME DataInv
  PROVE  IsFiniteSet(Buffered) /\ Cardinality(Buffered) = BufBefore(NumPages)
  <1> DEFINE Held(m) == UNION {Values(bufferPages[p]) : p \in 0 .. m - 1}
             Odd == {m \in 0 .. NumPages : ~(IsFiniteSet(Held(m)) /\ Cardinality(Held(m)) = BufBefore(m))}
  <1>1. NumPages \in Nat /\ DOMAIN bufferPages = 0 .. NumPages - 1
    BY PagesAre DEF DataInv
  <1>2. Odd = {}
    <2> SUFFICES ASSUME Odd # {} PROVE FALSE
      OBVIOUS
    <2>1. PICK m \in Odd : \A i \in Odd : m <= i
      <3>1. \A i \in Odd : i \in Nat
        BY <1>1
      <3> HIDE DEF Odd
      <3> QED BY <3>1, LeastNumber
    <2>2. m \in 0 .. NumPages /\ m \in Nat /\ ~(IsFiniteSet(Held(m)) /\ Cardinality(Held(m)) = BufBefore(m))
      BY <1>1
    <2>3. m # 0
      <3> SUFFICES ASSUME m = 0 PROVE FALSE
        OBVIOUS
      <3>1. Held(0) = {} /\ BufBefore(0) = 0
        BY BufSteps
      <3> HIDE DEF Held
      <3> QED BY <2>2, <3>1, FS_EmptySet
    <2>4. PICK p \in 0 .. NumPages - 1 : m = p + 1 /\ p \in 0 .. NumPages /\ p \in Nat /\ ~(m <= p)
      <3>1. m - 1 \in 0 .. NumPages - 1 /\ m = (m - 1) + 1 /\ m - 1 \in 0 .. NumPages /\ m - 1 \in Nat /\ ~(m <= m - 1)
        BY <1>1, <2>2, <2>3
      <3> QED BY <3>1
    <2>5. IsFiniteSet(Held(p)) /\ Cardinality(Held(p)) = BufBefore(p)
      <3> HIDE DEF Held
      <3> QED BY <2>1, <2>4
    <2>6. IsFiniteSet(Values(bufferPages[p])) /\ Cardinality(Values(bufferPages[p])) = PageSize(p)
      BY AscendingSize DEF DataInv
    <2>7. Held(m) = Held(p) \cup Values(bufferPages[p])
      <3>1. \A q : q \in 0 .. m - 1 <=> q \in 0 .. p - 1 \/ q = p
        BY <2>4
      <3> QED BY <3>1
    <2>8. Held(p) \cap Values(bufferPages[p]) = {}
      <3> SUFFICES ASSUME NEW k, k \in Held(p), k \in Values(bufferPages[p]) PROVE FALSE
        OBVIOUS
      <3>1. PICK q \in 0 .. p - 1 : k \in Values(bufferPages[q])
        OBVIOUS
      <3>2. q \in 0 .. NumPages - 1 /\ q < p
        BY <1>1, <2>4
      <3>3. \A r \in 0 .. NumPages - 1 : DOMAIN bufferPages[r] = 0 .. PageSize(r) - 1
        BY DEF DataInv, Ascending
      <3>4. PICK i \in 0 .. PageSize(q) - 1 : k = bufferPages[q][i]
        BY <3>1, <3>2, <3>3 DEF Values
      <3>5. PICK j \in 0 .. PageSize(p) - 1 : k = bufferPages[p][j]
        BY <3>3 DEF Values
      <3>6. bufferPages[q][i] < bufferPages[p][j] /\ bufferPages[q][i] \in Nat
        BY <3>2, PagesAscend, PageBetween
      <3> QED BY <3>4, <3>5, <3>6
    <2>9. /\ IsFiniteSet(Held(p) \cup Values(bufferPages[p]))
          /\ Cardinality(Held(p) \cup Values(bufferPages[p])) = BufBefore(p) + PageSize(p)
      <3>1. BufBefore(p) \in Nat /\ PageSize(p) \in Nat
        BY <2>4, BufSteps, PagesAre
      <3> HIDE DEF Held, Odd
      <3> QED BY <2>5, <2>6, <2>8, <3>1, FS_Union, FS_EmptySet
    <2>10. BufBefore(m) = BufBefore(p) + PageSize(p)
      BY <2>4, BufSteps
    <2> HIDE DEF Held, Odd
    <2> QED BY <2>2, <2>7, <2>9, <2>10
  <1>3. Held(NumPages) = Buffered
    BY <1>1 DEF Buffered
  <1>4. NumPages \in 0 .. NumPages
    BY <1>1
  <1> HIDE DEF Held
  <1> QED BY <1>2, <1>3, <1>4

-----------------------------------------------------------------------------
(* The result.                                                             *)

\* What the last thread to merge leaves behind.
LEMMA ResultIs ==
  MergeInv /\ Merged =>
    /\ DOMAIN newKeys = 0 .. Cardinality(Values(keys)) + Cardinality(Buffered) - 1
    /\ Values(keys) \cap Buffered = {} => Abstract!IsSortingOf(newKeys, Values(keys) \cup Buffered)
  <1> SUFFICES ASSUME MergeInv, Merged
               PROVE  /\ DOMAIN newKeys = 0 .. Cardinality(Values(keys)) + Cardinality(Buffered) - 1
                      /\ Values(keys) \cap Buffered = {} =>
                           Abstract!IsSortingOf(newKeys, Values(keys) \cup Buffered)
    OBVIOUS
  <1>1. DataInv /\ SampledInv /\ LayoutInv /\ CursorInv /\ DisjointInv
    BY DEF MergeInv
  <1>2. \A t \in Threads : pc[t] \in Started /\ pc[t] # "merge" /\ pc[t] \notin Before2
    BY <1>1 DEF Merged, SampledInv, BarrierInv, PC, Started, Before3, Before2, Before1
  <1>3. PICK n : n = TotalSize + BufBefore(NumPages)
    OBVIOUS
  <1>4. n \in Nat /\ DOMAIN newKeys = 0 .. n - 1
    BY <1>1, <1>2, <1>3, SlotsAre, ThreadZero DEF LayoutInv
  <1>5. Cardinality(Values(keys)) = TotalSize /\ Cardinality(Buffered) = BufBefore(NumPages)
    BY <1>1, AscendingSize, BufferedSize DEF DataInv
  <1>6. DOMAIN newKeys = 0 .. Cardinality(Values(keys)) + Cardinality(Buffered) - 1
    <2>1. BufBefore(NumPages) \in Nat /\ TotalSize \in Nat
      BY <1>1, BufSteps, PagesAre
    <2> QED BY <1>3, <1>4, <1>5, <2>1
  <1>7. ASSUME Values(keys) \cap Buffered = {}
        PROVE  Abstract!IsSortingOf(newKeys, Values(keys) \cup Buffered)
    <2>1. Disjoint
      BY <1>7 DEF Disjoint
    <2>2. ASSUME NEW t \in Threads
          PROVE  /\ \A i \in Base(t) .. Top(t) - 1 : newKeys[i] \in BufOf(t) \cup OldOf(t)
                 /\ \A i, j \in Base(t) .. Top(t) - 1 : i < j => newKeys[i] < newKeys[j]
                 /\ \A k \in BufOf(t) \cup OldOf(t) : \E i \in Base(t) .. Top(t) - 1 : newKeys[i] = k
      <3>1. PICK c : c = cursor[t]
        OBVIOUS
      <3>2. c.targets = Top(t) - Base(t)
        BY <1>1, <1>2, <3>1 DEF CursorInv, CountInv
      <3>3. Merging(t)
        BY <1>1, <1>2, <2>1 DEF DisjointInv
      <3>4. /\ c.new = Base(t) + c.targets /\ (Top(t) - Base(t) > 0 => Inputs(t, c))
            /\ Contents(t, c, newKeys)
        BY <3>1, <3>3 DEF Merging
      <3> QED BY <1>1, <3>2, <3>4, SliceMerged
    <2>3. ASSUME NEW t \in Threads
          PROVE  /\ Base(t) \in Nat /\ Top(t) \in Nat /\ Top(t) <= n
                 /\ \A i \in Base(t) .. Top(t) - 1 : i \in 0 .. n - 1
      <3>1. Base(t) \in Nat /\ Top(t) \in Nat /\ Top(t) <= n
        BY <1>1, <1>3, SlotsAre
      <3> QED BY <1>4, <3>1
    <2>4. \A i \in 0 .. n - 1 : \E t \in Threads : i \in Base(t) .. Top(t) - 1
      BY <1>1, <1>3, SlicesCover
    <2>5. {newKeys[i] : i \in DOMAIN newKeys} = Values(keys) \cup Buffered
      <3>1. ASSUME NEW i \in 0 .. n - 1 PROVE newKeys[i] \in Values(keys) \cup Buffered
        <4>1. PICK t \in Threads : i \in Base(t) .. Top(t) - 1
          BY <2>4
        <4> QED BY <1>1, <2>2, <4>1, InputsCover
      <3>2. ASSUME NEW k \in Values(keys) \cup Buffered PROVE \E i \in 0 .. n - 1 : newKeys[i] = k
        <4>1. PICK t \in Threads : k \in BufOf(t) \cup OldOf(t)
          BY <1>1, InputsCover
        <4>2. PICK i \in Base(t) .. Top(t) - 1 : newKeys[i] = k
          BY <2>2, <4>1
        <4> QED BY <2>3, <4>2
      <3> QED BY <1>4, <3>1, <3>2
    <2>6. ASSUME NEW i \in DOMAIN newKeys \ {0} PROVE newKeys[i - 1] < newKeys[i]
      <3>1. i \in 0 .. n - 1 /\ i - 1 \in 0 .. n - 1 /\ i - 1 < i
        BY <1>4, <2>6
      <3>2. PICK t \in Threads : i - 1 \in Base(t) .. Top(t) - 1
        BY <2>4, <3>1
      <3>3. PICK u \in Threads : i \in Base(u) .. Top(u) - 1
        BY <2>4, <3>1
      <3>4. CASE t = u
        BY <2>2, <3>1, <3>2, <3>3, <3>4
      <3>5. CASE t < u
        <4>1. newKeys[i - 1] \in BufOf(t) \cup OldOf(t) /\ newKeys[i] \in BufOf(u) \cup OldOf(u)
          BY <2>2, <3>2, <3>3
        <4> QED BY <1>1, <3>5, <4>1, SlicesAscend
      <3>6. CASE u < t
        <4>1. Top(u) <= Base(t)
          BY <1>1, <3>6, SlotsAre
        <4> QED BY <1>4, <2>3, <3>1, <3>2, <3>3, <4>1
      <3>7. t \in Nat /\ u \in Nat
        BY NumThreadsAssumption DEF Threads
      <3> QED BY <3>4, <3>5, <3>6, <3>7
    <2> QED BY <2>5, <2>6 DEF Abstract!IsSortingOf
  <1> QED BY <1>6, <1>7

\* A step is the one step of the abstract merge when it is the last thread's
\* last iteration, and none of it else.
LEMMA ResultStep ==
  MergeInv /\ MergeInv' /\ [Next]_vars =>
    Abstract!Next \/ UNCHANGED <<Values(keys), Buffered, IF Merged THEN newKeys ELSE <<>> >>
  <1> SUFFICES ASSUME MergeInv, MergeInv', [Next]_vars
               PROVE  Abstract!Next \/ UNCHANGED <<Values(keys), Buffered, IF Merged THEN newKeys ELSE <<>> >>
    OBVIOUS
  <1>1. CASE UNCHANGED vars
    BY <1>1 DEF vars, Merged, Values, Buffered
  <1>2. CASE \E t \in Threads : Step(t)
    <2>1. PICK t \in Threads : Step(t)
      BY <1>2
    <2>2. /\ UNCHANGED dindex /\ pc \in [Threads -> PC]
          /\ \A u \in Threads : u # t => pc'[u] = pc[u]
      BY <2>1, StepGoes DEF MergeInv
    <2>3. UNCHANGED <<Values(keys), Buffered>>
      BY <2>2 DEF Values, Buffered
    <2>4. CASE Merged
      <3>1. /\ pc[t] \notin Before3
        BY <2>4 DEF Merged
      <3>2. Barrier3(t) \/ Partial(t)
        BY <2>1, <3>1, StepGoes DEF MergeInv, Before3, Before2, Before1
      <3>3. UNCHANGED newKeys /\ pc'[t] \notin Before3
        BY <2>1, <3>1, <3>2, StepGoes DEF MergeInv, Barrier3, PassBarrier, Partial, Before3, Before2, Before1
      <3>4. Merged'
        BY <2>2, <2>4, <3>3 DEF Merged
      <3> QED BY <2>3, <2>4, <3>3, <3>4
    <2>5. CASE ~Merged /\ ~Merged'
      BY <2>3, <2>5
    <2>6. CASE ~Merged /\ Merged'
      <3>1. (/\ DOMAIN newKeys = 0 .. Cardinality(Values(keys)) + Cardinality(Buffered) - 1
             /\ Values(keys) \cap Buffered = {} =>
                  Abstract!IsSortingOf(newKeys, Values(keys) \cup Buffered))'
        <4>1. (MergeInv /\ Merged)'
          BY <2>6
        <4> QED BY <4>1, ResultIs, PTL
      <3>2. /\ DOMAIN newKeys' = 0 .. Cardinality(Values(keys)) + Cardinality(Buffered) - 1
            /\ Values(keys) \cap Buffered = {} =>
                 Abstract!IsSortingOf(newKeys', Values(keys) \cup Buffered)
        BY <2>3, <3>1 DEF Abstract!IsSortingOf
      <3>3. \A S : Abstract!Cardinality(S) = Cardinality(S)
        BY DEF Cardinality, Abstract!Cardinality
      <3> QED BY <2>3, <2>6, <3>2, <3>3 DEF Abstract!Next
    <2> QED BY <2>4, <2>5, <2>6
  <1> QED BY <1>1, <1>2 DEF Next

\* The threads together do what MergeResult does in one step: where no buffered
\* key is in the array, the new array holds all keys, in order and each once;
\* where one is, it still has a slot for every key counted.
THEOREM MergeResultIsImplemented == Spec => ImplementsMergeResult
  <1>1. Init => Abstract!Init
    <2> SUFFICES ASSUME Init PROVE Abstract!Init
      OBVIOUS
    <2>1. pc[0] \in Before3
      BY ThreadZero DEF Init, Before3, Before2, Before1
    <2>2. ~Merged
      BY <2>1, ThreadZero DEF Merged
    <2> QED BY <2>2 DEF Abstract!Init
  <1>2. MergeInv /\ MergeInv' /\ [Next]_vars =>
          [Abstract!Next]_<<Values(keys), Buffered, IF Merged THEN newKeys ELSE <<>> >>
    BY ResultStep
  <1> QED BY <1>1, <1>2, MergeInit, MergeStep, PTL DEF Spec, ImplementsMergeResult, Abstract!Spec

-----------------------------------------------------------------------------
(* The slices cover the array.                                             *)

\* A thread for every slot: the one whose share the slot falls into, or the
\* last one.
LEMMA SlotHasThread ==
  ASSUME newTotal \in Nat, NEW x \in 0 .. newTotal - 1
  PROVE  \E t \in Threads : x \in Processing * t .. EndProcessing(t) - 1
  <1> DEFINE q == Processing
  <1>1. q \in Nat
    <2> DEFINE share == newTotal \div NumThreads
    <2>1. share \in Nat
      BY NumThreadsAssumption
    <2> HIDE DEF share
    <2>2. share % Ratio \in Nat /\ share % Ratio <= share
      BY <2>1, RatioAssumption
    <2>3. q = share - (share % Ratio)
      BY DEF Processing, share
    <2> HIDE DEF q
    <2> QED BY <2>1, <2>2, <2>3
  <1>2. Processing = q /\ \A t : EndProcessing(t) = IF t = Last THEN newTotal ELSE q * (t + 1)
    BY DEF EndProcessing
  <1> HIDE DEF q
  <1>3. Last \in Nat /\ NumThreads = Last + 1 /\ x \in Nat
    BY NumThreadsAssumption DEF Last
  <1>4. CASE q * Last <= x
    <2>1. x \in q * Last .. newTotal - 1
      BY <1>1, <1>3, <1>4, Product
    <2> QED BY <1>2, <2>1, ThreadZero
  <1>5. CASE x < q * Last
    <2>1. q > 0
      BY <1>1, <1>3, <1>5
    <2> DEFINE t == x \div q
    <2>2. t \in Nat /\ q * t <= x /\ x < q * (t + 1)
      BY <1>1, <1>3, <2>1
    <2> HIDE DEF t
    <2>3. t < Last
      <3>1. SUFFICES ASSUME Last <= t PROVE FALSE
        BY <1>3, <2>2
      <3>2. q * Last <= q * t /\ q * Last \in Nat /\ q * t \in Nat
        BY <1>1, <1>3, <2>2, <3>1, Product
      <3> QED BY <1>3, <1>5, <2>2, <3>2
    <2>4. t \in Threads /\ t # Last
      BY <1>3, <2>2, <2>3 DEF Threads
    <2>5. q * t \in Nat /\ q * (t + 1) \in Nat
      BY <1>1, <2>2, Product
    <2>6. x \in q * t .. q * (t + 1) - 1
      BY <1>3, <2>2, <2>5
    <2> QED BY <1>2, <2>4, <2>6
  <1>6. q * Last \in Nat
    BY <1>1, <1>3, Product
  <1> QED BY <1>3, <1>4, <1>5, <1>6

\* At the join the partial keys are the keys at the multiples of Ratio: no
\* thread samples a slot that another has still to fill, and no slot is left
\* out, for any division of the array among the threads.
THEOREM PartialKeysAreSampled == Spec => []PartialKeysSampled
  <1>1. ASSUME SampledInv, newTotal \in Nat, Joined, NEW i \in 0 .. newTotal \div Ratio - 1
        PROVE  newPartial[i] = newKeys[Ratio * i]
    <2>1. Ratio * i \in 0 .. newTotal - 1
      <3> DEFINE d == newTotal \div Ratio
      <3>1. d \in Nat /\ Ratio * d <= newTotal
        BY <1>1, RatioAssumption
      <3>2. i \in 0 .. d - 1
        BY <1>1
      <3> HIDE DEF d
      <3>3. i \in Nat /\ i + 1 <= d
        BY <3>1, <3>2
      <3>4. Ratio * i \in Nat /\ Ratio * (i + 1) <= Ratio * d /\ Ratio * (i + 1) = Ratio * i + Ratio
        BY <3>1, <3>3, RatioAssumption, Product
      <3>5. Ratio * d \in Nat
        BY <3>1, RatioAssumption, Product
      <3> QED BY <1>1, <3>1, <3>4, <3>5, RatioAssumption
    <2>2. PICK t \in Threads : Ratio * i \in Processing * t .. EndProcessing(t) - 1
      BY <1>1, <2>1, SlotHasThread
    <2>3. i \in DOMAIN newPartial
      <3>1. newTotal \div Ratio \in Nat
        BY <1>1, RatioAssumption
      <3>2. DOMAIN newPartial = 0 .. newTotal \div Ratio
        BY <1>1, ThreadZero DEF SampledInv, BarrierInv, Joined
      <3> QED BY <1>1, <3>1, <3>2
    <2> QED BY <1>1, <2>2, <2>3 DEF SampledInv, Sampled, Joined
  <1>2. MergeInv => PartialKeysSampled
    <2> SUFFICES ASSUME MergeInv, Joined PROVE PartialKeysSampled
      BY DEF PartialKeysSampled
    <2>1. pc[0] \notin Before2
      BY ThreadZero DEF Joined, Before2, Before1
    <2>2. newTotal \in Nat
      BY <2>1, SlotsAre, ThreadZero DEF MergeInv, LayoutInv
    <2>3. SampledInv
      BY DEF MergeInv
    <2> QED BY <1>1, <2>2, <2>3 DEF PartialKeysSampled
  <1> QED BY MergeInit, MergeStep, <1>2, PTL DEF Spec

\* A loop that runs out of inputs has met a key that is in both: the threads
\* share no key, lose none and count none twice, whatever the pages hold.
THEOREM ErrorsAreUpdates == Spec => []ErrorOnlyOnUpdates
  <1>1. MergeInv => ErrorOnlyOnUpdates
    <2> SUFFICES ASSUME MergeInv, error PROVE \E p \in DOMAIN bufferPages : Values(bufferPages[p]) \cap Values(keys) # {}
      BY DEF ErrorOnlyOnUpdates
    <2>1. ~Disjoint
      BY DEF MergeInv, DisjointInv
    <2>2. PICK k : k \in Buffered /\ k \in Values(keys)
      BY <2>1 DEF Disjoint
    <2>3. PICK p \in DOMAIN bufferPages : k \in Values(bufferPages[p])
      BY <2>2 DEF Buffered
    <2> QED BY <2>2, <2>3
  <1> QED BY MergeInit, MergeStep, <1>1, PTL DEF Spec

\* No slot of the new arrays is written twice: a thread merges into slots of its
\* own, each once, and who samples a slot anew samples the same key.
THEOREM SlotsAreWrittenOnce == Spec => WrittenOnce
  <1> DEFINE Once == /\ \A i \in DOMAIN newKeys : newKeys[i] # None => newKeys'[i] = newKeys[i]
                     /\ \A i \in DOMAIN newPartial : newPartial[i] # None => newPartial'[i] = newPartial[i]
  <1>1. MergeInv /\ [Next]_vars => [Once]_vars
    <2> SUFFICES ASSUME MergeInv, NEW t \in Threads, Step(t) PROVE Once
      BY DEF Next
    <2>1. DataInv /\ SampledInv /\ LayoutInv /\ CursorInv /\ WrittenInv
      BY DEF MergeInv
    <2>2. CASE Puts(t)
      <3>1. /\ pc[t] = "merge" /\ cursor[t].targets < Top(t) - Base(t) /\ UNCHANGED newPartial
        BY <2>1, <2>2, PutForm
      <3>2. PICK k : newKeys' = [newKeys EXCEPT ![cursor[t].new] = k]
        BY <2>1, <2>2, PutForm
      <3>3. \A u \in Threads : pc[u] \in Started => cursor[t].new \notin Base(u) .. cursor[u].new - 1
        BY <2>1, <3>1, OwnSlot
      <3>4. \A i \in DOMAIN newKeys : newKeys[i] # None => i # cursor[t].new
        BY <2>1, <3>3 DEF WrittenInv
      <3> QED BY <3>1, <3>2, <3>4
    <2>3. CASE Plan(t)
      <3>1. pc[0] = "plan"
        BY <2>1, <2>3 DEF Plan, SampledInv, BarrierInv
      <3>2. newKeys = <<>> /\ newPartial = <<>>
        BY <2>1, <3>1 DEF LayoutInv, Before2
      <3>3. DOMAIN newKeys = {} /\ DOMAIN newPartial = {}
        BY <3>2
      <3> QED BY <3>3
    <2>4. CASE Partial(t)
      <3>1. /\ UNCHANGED newKeys
            /\ \A i \in DOMAIN newPartial : newPartial'[i] \in {newPartial[i], newKeys[Ratio * i]}
        BY <2>4 DEF Partial
      <3>2. \A i \in DOMAIN newPartial : newPartial[i] # None => newPartial[i] = newKeys[Ratio * i]
        BY <2>1 DEF WrittenInv
      <3> QED BY <3>1, <3>2
    <2>5. Puts(t) \/ Plan(t) \/ Partial(t) \/ UNCHANGED <<newKeys, newPartial>>
      BY DEF Step, Puts, Count, Barrier1, Barrier2, Barrier3, PassBarrier, Start, PutNothing, EndMerge
    <2> QED BY <2>2, <2>3, <2>4, <2>5
  <1> QED BY MergeInit, MergeStep, <1>1, PTL DEF Spec, WrittenOnce
=============================================================================
