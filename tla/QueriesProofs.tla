--------------------------- MODULE QueriesProofs ----------------------------
(***************************************************************************)
(* For any number of threads, partitions and queries: threads that share   *)
(* the buffers of the DPUs work off the answers to their own tasks; every  *)
(* insert ends in one page or in one tree behind a full page, or is one of *)
(* those the code drops; the pages stay in order; and a GET or a scan      *)
(* returns what was loaded, but for the intervals the code loses.          *)
(*                                                                         *)
(* The argument: a queue holds queries of its own partition, each insert   *)
(* is in one queue once, and its key is nowhere until its thread comes to  *)
(* it.  Where it then goes is the interval the DPU answers, or the one the *)
(* host's own search ends in; both are worked out from the sizes alone.    *)
(***************************************************************************)
EXTENDS Queries, FiniteSetTheorems, SequenceTheorems, WellFoundedInduction, TLAPS

-----------------------------------------------------------------------------
(* Numbers.                                                                *)

LEMMA LeastNumber ==
  ASSUME NEW T, T # {}, \A x \in T : x \in Nat
  PROVE  \E m \in T : \A i \in T : m <= i
  <1> DEFINE R == OpToRel(<, Nat)
  <1>1. IsWellFoundedOn(R, Nat)
    BY NatLessThanWellFounded
  <1>2. \A x, y \in Nat : <<x, y>> \in R <=> x < y
    BY DEF R, OpToRel
  <1> HIDE DEF R
  <1>3. PICK x \in T : \A y \in T : ~(<<y, x>> \in R)
    BY <1>1, WFMin
  <1>4. \A y \in T : ~(y < x)
    BY <1>2, <1>3
  <1> QED BY <1>4

LEMMA Largest ==
  ASSUME NEW T, T # {}, NEW b \in Int, \A x \in T : x \in Int /\ x <= b
  PROVE  Max(T) \in T /\ \A x \in T : x <= Max(T)
  <1> DEFINE Gaps == {b - x : x \in T}
  <1>1. Gaps # {} /\ \A g \in Gaps : g \in Nat
    OBVIOUS
  <1>2. PICK g \in Gaps : \A i \in Gaps : g <= i
    BY <1>1, LeastNumber
  <1>3. PICK m \in T : g = b - m
    OBVIOUS
  <1>4. \A x \in T : m >= x
    BY <1>2, <1>3
  <1> QED BY <1>3, <1>4 DEF Max

LEMMA SmallerOne ==
  ASSUME NEW a \in Int, NEW b \in Int
  PROVE  Min({a, b}) = IF a <= b THEN a ELSE b
  BY DEF Min

LEMMA Product ==
  ASSUME NEW a \in Int, NEW b \in Int, NEW q \in Nat
  PROVE  /\ a * q \in Int /\ b * q \in Int
         /\ a <= b => a * q <= b * q
         /\ a < b => a * q + q <= b * q
  <1>1. a <= b => a * q <= b * q
    OBVIOUS
  <1>2. a < b => (a + 1) * q <= b * q
    OBVIOUS
  <1>3. (a + 1) * q = a * q + q
    OBVIOUS
  <1> QED BY <1>1, <1>2, <1>3

LEMMA Quotient ==
  ASSUME NEW a \in Nat, NEW b \in Nat, b > 0
  PROVE  /\ a \div b \in Nat
         /\ (a \div b) * b <= a /\ a < (a \div b) * b + b
         /\ \A c \in Int : c * b <= a /\ a < c * b + b => a \div b = c
  <1> DEFINE d == a \div b
  <1>1. d \in Nat /\ d * b <= a /\ a < d * b + b
    OBVIOUS
  <1> HIDE DEF d
  <1>2. ASSUME NEW c \in Int, c * b <= a, a < c * b + b PROVE d = c
    <2>1. ~(c < d)
      BY <1>1, <1>2, Product
    <2>2. ~(d < c)
      BY <1>1, <1>2, Product
    <2> QED BY <1>1, <2>1, <2>2
  <1> QED BY <1>1, <1>2 DEF d

-----------------------------------------------------------------------------
(* The keys and the partitions.                                            *)

Bounds == rest \in Rests /\ mode \in Mode

LEMMA Sizes ==
  ASSUME Bounds
  PROVE  /\ P \in Nat /\ N \in Nat /\ IL \in Nat /\ P >= 1 /\ N >= 1 /\ IL >= 1
         /\ Elements \in Nat /\ Elements = (P * N) * IL /\ P * N \in Nat /\ P * N >= N
         /\ Total \in Nat /\ Elements <= Total /\ Total < INVALID
         /\ PartialTotal \in Nat /\ P * N <= PartialTotal
         /\ PartialTotal * IL <= Total /\ Total < PartialTotal * IL + IL
  <1>1. P \in Nat /\ N \in Nat /\ IL \in Nat /\ P >= 1 /\ N >= 1 /\ IL >= 1
    BY SizesAssumption
  <1>2. P * N \in Nat /\ 1 * N <= P * N /\ P * IL \in Nat /\ (P * N) * IL \in Nat
    BY <1>1, Product
  <1>3. Elements = (P * N) * IL
    BY DEF Elements
  <1>4. rest \in Nat /\ rest < P * IL /\ Elements + P * IL < INVALID
    BY <1>1, <1>2, RestAssumption, QuerysAssumption DEF Bounds
  <1>5. Total \in Nat /\ Elements <= Total /\ Total < INVALID
    BY <1>2, <1>3, <1>4 DEF Total, INVALID
  <1>6. PartialTotal \in Nat /\ PartialTotal * IL <= Total /\ Total < PartialTotal * IL + IL
    BY <1>1, <1>5, Quotient DEF PartialTotal
  <1>7. P * N <= PartialTotal
    <2>1. SUFFICES ASSUME PartialTotal < P * N PROVE FALSE
      BY <1>2, <1>6
    <2>2. PartialTotal * IL + IL <= (P * N) * IL
      BY <1>1, <1>2, <1>6, <2>1, Product
    <2>3. PartialTotal * IL + IL \in Int /\ (P * N) * IL \in Int
      BY <1>1, <1>2, <1>6, Product
    <2>4. Total < PartialTotal * IL + IL /\ (P * N) * IL <= Total /\ Total \in Int
      BY <1>3, <1>5, <1>6
    <2> QED BY <2>2, <2>3, <2>4
  <1> QED BY <1>1, <1>2, <1>3, <1>5, <1>6, <1>7

LEMMA Partials ==
  ASSUME NEW i \in Int, NEW j \in Int
  PROVE  /\ Partial(i) \in Int /\ Partial(i) = 3 * (i * IL + 1)
         /\ i <= j => Partial(i) <= Partial(j)
         /\ i < j => Partial(i) < Partial(j)
  <1>1. IL \in Nat /\ IL >= 1
    BY SizesAssumption
  <1>2. i * IL \in Int /\ j * IL \in Int /\ (i <= j => i * IL <= j * IL) /\ (i < j => i * IL + IL <= j * IL)
    BY <1>1, Product
  <1> QED BY <1>1, <1>2 DEF Partial, Key

\* The interval of a partial key a key belongs to is the only one.
LEMMA OneInterval ==
  ASSUME NEW i \in Int, NEW j \in Int, NEW key \in Int,
         Partial(i) <= key, key < Partial(i + 1), Partial(j) <= key, key < Partial(j + 1)
  PROVE  i = j
  <1>1. ~(i < j)
    <2>1. i < j => Partial(i + 1) <= Partial(j)
      BY Partials
    <2>2. Partial(i + 1) \in Int /\ Partial(j) \in Int
      BY Partials
    <2> QED BY <2>1, <2>2
  <1>2. ~(j < i)
    <2>1. j < i => Partial(j + 1) <= Partial(i)
      BY Partials
    <2>2. Partial(j + 1) \in Int /\ Partial(i) \in Int
      BY Partials
    <2> QED BY <2>1, <2>2
  <1> QED BY <1>1, <1>2

LEMMA PartitionIs ==
  ASSUME Bounds, NEW key \in Int, MinKey <= key
  PROVE  /\ Partition(key) \in Part
         /\ Partial(Partition(key) * N) <= key
         /\ Partition(key) < P - 1 => key < Partial((Partition(key) + 1) * N)
  <1> DEFINE T == {p \in Part : Low(p) <= key}
             p == Partition(key)
  <1>1. P \in Nat /\ P >= 1 /\ N \in Nat
    BY Sizes
  <1>2. 0 \in T
    <2>1. 0 * N = 0 /\ 0 * IL = 0
      BY SizesAssumption
    <2> QED BY <1>1, <2>1 DEF Part, Low, Partial, MinKey
  <1>3. \A x \in T : x \in Int /\ x <= P
    BY <1>1 DEF Part
  <1>4. p = Max(T)
    BY DEF Partition
  <1> HIDE DEF p, T
  <1>5. p \in T /\ \A x \in T : x <= p
    BY <1>1, <1>2, <1>3, <1>4, Largest
  <1>6. p \in Part /\ Partial(p * N) <= key
    BY <1>5 DEF T, Low
  <1>7. ASSUME p < P - 1 PROVE key < Partial((p + 1) * N)
    <2>1. p \in Int /\ p + 1 \in Part /\ ~(p + 1 <= p)
      BY <1>1, <1>6, <1>7 DEF Part
    <2>2. p + 1 \notin T
      BY <1>5, <2>1
    <2>3. ~(Partial((p + 1) * N) <= key)
      BY <2>1, <2>2 DEF T, Low
    <2>4. (p + 1) * N \in Int /\ Partial((p + 1) * N) \in Int
      BY <1>1, <2>1, Product, Partials
    <2> QED BY <2>3, <2>4
  <1> QED BY <1>6, <1>7 DEF p

\* What the DPU of a partition answers to a key of it: nothing behind its last
\* partial key, otherwise the position of the key's interval.
Unanswered(p, key) == key >= Partial(p * N + N - 1)

LEMMA AnswerIs ==
  ASSUME Bounds, NEW key \in Int, MinKey <= key
  PROVE  LET p == Partition(key)
         IN  /\ Unanswered(p, key) => Answer(p, key) = INVALID
             /\ ~Unanswered(p, key) =>
                  \E i \in Nat :
                    /\ i \in p * N .. p * N + N - 2
                    /\ Partial(i) <= key /\ key < Partial(i + 1)
                    /\ Answer(p, key) = i * IL /\ Answer(p, key) \div IL = i
                    /\ Answer(p, key) < Total /\ Answer(p, key) # INVALID
                    /\ i < PartialTotal - 1
  <1> DEFINE p == Partition(key)
             T == {i \in p * N .. p * N + N - 1 : Partial(i) <= key}
  <1>1. /\ P \in Nat /\ N \in Nat /\ IL \in Nat /\ P >= 1 /\ N >= 1 /\ IL >= 1
        /\ P * N \in Nat /\ P * N <= PartialTotal /\ PartialTotal \in Nat
        /\ PartialTotal * IL <= Total /\ Total \in Nat /\ Total < INVALID
    BY Sizes
  <1>2. p \in Nat /\ p <= P - 1 /\ Partial(p * N) <= key
    BY <1>1, PartitionIs DEF Part
  <1>3. Answer(p, key) = IF Unanswered(p, key) THEN INVALID ELSE IL * Max(T)
    BY DEF Answer, Unanswered
  <1> HIDE DEF p
  <1> DEFINE b == p * N
  <1>4. b \in Nat /\ b + N <= P * N
    <2>1. p < P BY <1>1, <1>2
    <2> QED BY <1>1, <1>2, <2>1, Product
  <1>5. ASSUME ~Unanswered(p, key)
        PROVE  \E i \in Nat :
                    /\ i \in b .. b + N - 2
                    /\ Partial(i) <= key /\ key < Partial(i + 1)
                    /\ Answer(p, key) = i * IL /\ Answer(p, key) \div IL = i
                    /\ Answer(p, key) < Total /\ Answer(p, key) # INVALID
                    /\ i < PartialTotal - 1
    <2> DEFINE m == Max(T)
    <2>1. Partial(b) <= key /\ Partial(b + N - 1) \in Int /\ key < Partial(b + N - 1)
      BY <1>1, <1>2, <1>4, <1>5, Partials DEF Unanswered
    <2> HIDE DEF b
    <2>2. b \in T /\ \A i \in T : i \in Int /\ i <= b + N
      BY <1>1, <1>4, <2>1 DEF b
    <2>3. m \in T /\ \A i \in T : i <= m
      <3>1. T # {} /\ b + N \in Int
        BY <1>1, <1>4, <2>2
      <3> HIDE DEF T
      <3> QED BY <2>2, <3>1, Largest
    <2>4. m \in b .. b + N - 1 /\ Partial(m) <= key
      BY <2>3 DEF b
    <2>5. m # b + N - 1
      BY <2>1, <2>4
    <2>6. m \in Nat /\ m + 1 \in b .. b + N - 1 /\ m \in b .. b + N - 2
      BY <1>1, <1>4, <2>4, <2>5
    <2>7. key < Partial(m + 1)
      <3>1. m + 1 \in T => m + 1 <= m
        BY <2>3
      <3>2. m + 1 \notin T
        BY <2>6, <3>1
      <3>3. ~(Partial(m + 1) <= key)
        BY <2>6, <3>2 DEF b
      <3> QED BY <2>6, <3>3, Partials
    <2> HIDE DEF m
    <2>8. Answer(p, key) = IL * m
      BY <1>3, <1>5 DEF m
    <2>9. m < PartialTotal - 1 /\ IL * m = m * IL
      BY <1>1, <1>4, <2>6
    <2>10. m * IL < Total /\ m * IL \in Nat
      <3>1. m < PartialTotal
        BY <1>1, <2>6, <2>9
      <3>2. m * IL + IL <= PartialTotal * IL /\ m * IL \in Int /\ PartialTotal * IL \in Int
        BY <1>1, <2>6, <3>1, Product
      <3>3. m * IL \in Nat
        BY <1>1, <2>6
      <3> QED BY <1>1, <3>2, <3>3
    <2>11. (m * IL) \div IL = m
      <3>1. m * IL < m * IL + IL
        BY <1>1, <2>10
      <3> QED BY <1>1, <2>6, <2>10, <3>1, Quotient
    <2>12. m * IL # INVALID
      BY <1>1, <2>10 DEF INVALID
    <2> QED BY <2>4, <2>6, <2>7, <2>8, <2>9, <2>10, <2>11, <2>12
  <1> QED BY <1>3, <1>5 DEF p

\* Where the host's own search ends for a key the DPU has no answer for.
LEMMA FallbackIs ==
  ASSUME Bounds, NEW key \in Int, MinKey <= key, Unanswered(Partition(key), key)
  PROVE  LET e == (Partition(key) + 1) * N
         IN  /\ e \in Nat /\ e <= P * N /\ e - 1 = Partition(key) * N + N - 1
             /\ Fallback(key) = IF e <= PartialTotal - 1 THEN e - 1 ELSE PartialTotal - 2
             /\ Partial(e - 1) <= key
             /\ Partition(key) < P - 1 => key < Partial(e) /\ e <= PartialTotal - 1
             /\ Partition(key) = P - 1 => e = P * N
  <1> DEFINE p == Partition(key)
             e == (p + 1) * N
             T == {i \in 0 .. e - 1 : Partial(i) <= key}
  <1>1. /\ P \in Nat /\ N \in Nat /\ P >= 1 /\ N >= 1
        /\ P * N \in Nat /\ P * N <= PartialTotal /\ PartialTotal \in Nat
    BY Sizes
  <1>2. p \in Nat /\ p <= P - 1 /\ (p < P - 1 => key < Partial(e))
    BY <1>1, PartitionIs DEF Part
  <1>3. Fallback(key) = Min({Cardinality(T), PartialTotal - 1}) - 1
    BY DEF Fallback
  <1>4. key >= Partial(p * N + N - 1)
    BY DEF Unanswered
  <1> HIDE DEF p
  <1>5. e \in Nat /\ e = p * N + N /\ p * N \in Nat
    BY <1>1, <1>2
  <1>6. e <= P * N /\ (p = P - 1 => e = P * N) /\ (p < P - 1 => e + N <= P * N)
    <2>1. p + 1 \in Nat /\ p + 1 <= P /\ (p = P - 1 <=> p + 1 = P) /\ (p < P - 1 => p + 1 < P)
      BY <1>1, <1>2
    <2> QED BY <1>1, <2>1, Product
  <1> HIDE DEF e
  <1>7. Partial(e - 1) \in Int /\ Partial(e - 1) <= key /\ e - 1 = p * N + N - 1
    BY <1>1, <1>4, <1>5, Partials
  <1>8. T = 0 .. e - 1
    <2>1. ASSUME NEW i \in 0 .. e - 1 PROVE Partial(i) <= key
      <3>1. Partial(i) <= Partial(e - 1) /\ Partial(i) \in Int
        BY <1>5, Partials
      <3> QED BY <1>7, <3>1
    <2> QED BY <2>1
  <1> HIDE DEF T
  <1>9. Cardinality(T) = e
    <2>1. 0 \in Int /\ e - 1 \in Int
      BY <1>5
    <2>2. Cardinality(0 .. e - 1) = IF 0 > e - 1 THEN 0 ELSE (e - 1) - 0 + 1
      BY <2>1, FS_Interval
    <2> QED BY <1>5, <1>8, <2>2
  <1>10. Fallback(key) = IF e <= PartialTotal - 1 THEN e - 1 ELSE PartialTotal - 2
    BY <1>1, <1>3, <1>5, <1>9, SmallerOne
  <1>11. p < P - 1 => e <= PartialTotal - 1
    BY <1>1, <1>5, <1>6
  <1> QED BY <1>2, <1>5, <1>6, <1>7, <1>10, <1>11 DEF e, p

-----------------------------------------------------------------------------
USE DEF flags, index, device, Set

\* All queries are generated before the first launch.  A thread that is about
\* to fetch holds the mutex and the DPUs have its answers; afterwards it has
\* them itself.
OwnOf(t) ==
  /\ pc[t] # "launch" => drawn = NumQuerys[mode]
  /\ pc[t] = "fetch" => lock = t /\ dpu = Answers(sent[t])
  /\ pc[t] \notin {"launch", "fetch"} => recv[t] = Answers(sent[t])

OwnInv ==
  /\ mode \in Mode
  /\ DOMAIN pc = Thread /\ DOMAIN recv = Thread
  /\ \A t \in Thread : OwnOf(t)

LEMMA OwnInit == Init => OwnInv
  BY DEF Init, OwnInv, OwnOf

\* While queries are generated nobody has launched.
LEMMA DrawKeeps == ASSUME OwnInv, Draw PROVE OwnInv'
  <1>1. drawn < NumQuerys[mode] /\ NumQuerys[mode] \in Nat
    BY QuerysAssumption DEF Draw, OwnInv
  <1>2. \A t \in Thread : pc[t] = "launch"
    BY <1>1 DEF OwnInv, OwnOf
  <1>3. UNCHANGED <<mode, pc, recv>>
    BY DEF Draw
  <1> QED BY <1>2, <1>3 DEF OwnInv, OwnOf

LEMMA LaunchKeeps == ASSUME OwnInv, NEW t \in Thread, Launch(t) PROVE OwnInv'
  <1>1. t # None /\ None \notin Thread
    BY DEF Thread, None
  <1>2. /\ drawn = NumQuerys[mode] /\ lock = None
        /\ lock' = t /\ dpu' = Answers(sent[t])
        /\ pc' = [pc EXCEPT ![t] = "fetch"]
        /\ UNCHANGED <<mode, drawn, sent, recv>>
    BY DEF Launch
  <1>3. \A u \in Thread \ {t} : pc[u] # "fetch"
    BY <1>1, <1>2 DEF OwnInv, OwnOf
  <1> QED BY <1>2, <1>3 DEF OwnInv, OwnOf

LEMMA FetchKeeps == ASSUME OwnInv, NEW t \in Thread, Fetch(t) PROVE OwnInv'
  <1>1. /\ pc[t] = "fetch"
        /\ recv' = [recv EXCEPT ![t] = dpu] /\ lock' = None
        /\ pc' = [pc EXCEPT ![t] = "work"]
        /\ UNCHANGED <<mode, drawn, sent, dpu>>
    BY DEF Fetch
  <1>2. \A u \in Thread \ {t} : pc[u] # "fetch"
    BY <1>1 DEF OwnInv, OwnOf
  <1> QED BY <1>1, <1>2 DEF OwnInv, OwnOf

\* Working off answers takes neither the mutex nor the buffers.
LEMMA WorkKeeps ==
  ASSUME OwnInv, NEW t \in Thread, pc[t] \notin {"launch", "fetch"},
         NEW label, pc' = pc \/ pc' = [pc EXCEPT ![t] = label],
         label \notin {"launch", "fetch"},
         UNCHANGED <<mode, drawn, lock, dpu, sent, recv>>
  PROVE  OwnInv'
  BY DEF OwnInv, OwnOf

LEMMA StepKeeps == ASSUME OwnInv, NEW t \in Thread, Step(t) PROVE OwnInv'
  <1> USE DEF Advance, Return, At
  <1>1. CASE Launch(t) BY <1>1, LaunchKeeps
  <1>2. CASE Fetch(t) BY <1>2, FetchKeeps
  <1>3. CASE Finish(t) BY <1>3, WorkKeeps DEF Finish
  <1>4. ASSUME NEW p \in Part, GetHit(t, p) PROVE OwnInv'
    BY <1>4, WorkKeeps DEF GetHit
  <1>5. ASSUME NEW p \in Part, GetPage(t, p) PROVE OwnInv'
    BY <1>5, WorkKeeps DEF GetPage
  <1>6. ASSUME NEW p \in Part, GetTree(t, p) PROVE OwnInv'
    BY <1>6, WorkKeeps DEF GetTree
  <1>7. ASSUME NEW p \in Part, GetFallback(t, p) PROVE OwnInv'
    BY ZenonT(60), <1>7, WorkKeeps DEF GetFallback
  <1>8. ASSUME NEW p \in Part, Insert(t, p) PROVE OwnInv'
    BY <1>8, WorkKeeps DEF Insert
  <1>9. ASSUME NEW p \in Part, InsertOverflow(t, p) PROVE OwnInv'
    BY ZenonT(60), <1>9, WorkKeeps DEF InsertOverflow
  <1>10. ASSUME NEW p \in Part, Scan(t, p) PROVE OwnInv'
    BY <1>10, WorkKeeps DEF Scan
  <1> QED
    BY <1>1, <1>2, <1>3, <1>4, <1>5, <1>6, <1>7, <1>8, <1>9, <1>10 DEF Step

LEMMA OwnStep == OwnInv /\ [Next]_vars => OwnInv'
  <1> SUFFICES ASSUME OwnInv, [Next]_vars PROVE OwnInv'
    OBVIOUS
  <1>1. CASE Draw BY <1>1, DrawKeeps
  <1>2. CASE \E t \in Thread : Step(t) BY <1>2, StepKeeps
  <1>3. CASE UNCHANGED vars BY <1>3 DEF vars, OwnInv, OwnOf
  <1> QED BY <1>1, <1>2, <1>3 DEF Next

\* A thread works off the answers to its own tasks, although all share the
\* DPUs and their buffers.
THEOREM AnswersAreOwn == Spec => []OwnAnswers
  <1>1. OwnInv => OwnAnswers
    BY DEF OwnInv, OwnOf, OwnAnswers
  <1> QED BY OwnInit, OwnStep, <1>1, PTL DEF Spec
-----------------------------------------------------------------------------
(* What every step keeps.                                                  *)

\* The queries a thread has for a partition.
Asked(p) ==
  {q \in [op : {"get", "insert", "scan"}, key : Nat, end : Int] :
     /\ MinKey <= q.key /\ Partition(q.key) = p
     /\ q.op = "get" => q.key = MinKey + 1 \/ \E i \in 0 .. Elements - 1 : q.key = Key(i)
     /\ q.op = "insert" => mode \in {"insert", "mix"} /\ MinKey < q.key /\ q.key % 3 # 0
     /\ q.op = "scan" =>
          \E i \in 0 .. Elements - 1 :
            q.key = Key(i) /\ q.end = Key(Min({i + ScanLength, Elements - 1})) % Width}

Shapes ==
  /\ Bounds
  /\ DOMAIN pc = Thread
  /\ DOMAIN sent = Thread
  /\ \A t \in Thread : DOMAIN sent[t] = Part /\ \A p \in Part : sent[t][p] \in Seq(Asked(p))
  /\ done \in [Thread -> [Part -> Nat]]
  /\ \A t \in Thread : \A p \in Part : done[t][p] <= Len(sent[t][p])
  /\ DOMAIN ret = Thread /\ DOMAIN rows = Thread
  /\ \A k \in fresh : k \in Nat /\ k % 3 # 0
  /\ \A t \in Thread : order[t] \in Bijection(Part, Part)
  /\ pages \in [0 .. Total \div IL -> Seq(Nat)]
  /\ DOMAIN trees = Part

\* An insert is in one queue only, and once in it no longer among those to come.
Once ==
  /\ \A t, u \in Thread : \A p, r \in Part :
       \A j \in DOMAIN sent[t][p] : \A k \in DOMAIN sent[u][r] :
         /\ sent[t][p][j].op = "insert" /\ sent[u][r][k].op = "insert"
         /\ sent[t][p][j].key = sent[u][r][k].key
         => t = u /\ p = r /\ j = k
  /\ \A t \in Thread : \A p \in Part : \A j \in DOMAIN sent[t][p] :
       sent[t][p][j].op = "insert" => sent[t][p][j].key \notin fresh

\* A key that is not yet inserted is nowhere, and one that is has its place.
Absent(k) == Stored(k) = {} /\ Behind(k) = {}
Landed(k) ==
  IF Lost(k) THEN Absent(k)
  ELSE \/ \E i \in DOMAIN pages : Stored(k) = {i} /\ Behind(k) = {}
       \/ \E p \in Part : Stored(k) = {} /\ Behind(k) = {p}

Landings ==
  /\ \A k \in fresh : Absent(k)
  /\ \A t \in Thread : \A p \in Part : \A j \in DOMAIN sent[t][p] :
       sent[t][p][j].op = "insert" =>
         IF j <= done[t][p] THEN Landed(sent[t][p][j].key) ELSE Absent(sent[t][p][j].key)

\* Behind a full page, and while a thread is on its way to the tree there is one.
FullPage(k) == k \in Nat /\ \E i \in DOMAIN pages : Fits(i, k) /\ Len(pages[i]) = BufSize[mode]
Overflows ==
  /\ \A p \in Part : \A k \in trees[p] \ Seeds(p) : FullPage(k)
  /\ \A t \in Thread : \A p \in Part :
       At(t, p, "overflow", "insert") =>
         \E i \in Places(t, p) : Len(pages[i]) = BufSize[mode]

\* A thread that is done has worked off everything.
Rested == \A t \in Thread : pc[t] = "done" => Open(t) = {}

\* A GET that is on its way to a tree or the host's own search was not found
\* where the DPU says; it is on its way to a tree only if the DPU says something.
Waiting ==
  \A t \in Thread : \A p \in Part :
    At(t, p, "lookup", "get") \/ At(t, p, "fallback", "get") =>
      /\ ~Hit(Pos(t, p), Task(t, p).key)
      /\ pc[t] = "lookup" => Pos(t, p) < Total

\* The thread t works on the next task for the partition p.
Active(t, p) == pc[t] \notin {"launch", "fetch"} /\ InTurn(t, p)

\* It is one of those routed to p, and the thread has the DPU's answer to it.
LEMMA Current ==
  ASSUME OwnInv, Shapes, NEW t \in Thread, NEW p \in Part, Active(t, p)
  PROVE  /\ done[t][p] \in Nat
         /\ done[t][p] + 1 \in DOMAIN sent[t][p]
         /\ Task(t, p) = sent[t][p][done[t][p] + 1]
         /\ Task(t, p) \in Asked(p)
         /\ Pos(t, p) = Answer(p, Task(t, p).key)
  <1> DEFINE q == sent[t][p]
             r == recv[t][p]
             d == done[t][p]
  <1>1. q \in Seq(Asked(p)) /\ d \in Nat
    BY DEF Shapes
  <1>2. recv[t] = Answers(sent[t])
    BY DEF OwnInv, OwnOf, Active
  <1>3. r = [j \in DOMAIN q |-> Answer(p, q[j].key)]
    BY <1>2 DEF Answers
  <1>4. d < Tasks(t, p) /\ Tasks(t, p) = IF mode = "scan" THEN Max({Len(r) - 1, 0}) ELSE Len(r)
    BY DEF Active, InTurn, Open, Tasks
  <1>5. Task(t, p) = q[d + 1] /\ Pos(t, p) = r[d + 1]
    BY DEF Task, Pos
  <1> HIDE DEF q, r, d
  <1>6. DOMAIN q = 1 .. Len(q) /\ Len(q) \in Nat
    BY <1>1
  <1>7. Len(r) = Len(q)
    BY <1>3, <1>6
  <1>8. Tasks(t, p) \in Int /\ (Tasks(t, p) > 0 => Tasks(t, p) <= Len(q))
    <2>1. Len(q) - 1 \in Int
      BY <1>6
    <2>2. Max({Len(q) - 1, 0}) = IF Len(q) - 1 >= 0 THEN Len(q) - 1 ELSE 0
      BY <2>1 DEF Max
    <2> QED BY <1>4, <1>6, <1>7, <2>2
  <1>9. d + 1 \in DOMAIN q
    BY <1>1, <1>4, <1>6, <1>8
  <1>10. q[d + 1] \in Asked(p)
    BY <1>1, <1>6, <1>9
  <1>11. r[d + 1] = Answer(p, q[d + 1].key)
    BY <1>3, <1>9
  <1> QED BY <1>1, <1>5, <1>9, <1>10, <1>11 DEF q, d

\* At any time it is one partition's turn.
LEMMA OneInTurn ==
  ASSUME Shapes, NEW t \in Thread, NEW p \in Part, NEW r \in Part, InTurn(t, p), InTurn(t, r)
  PROVE  p = r
  <1>1. order[t] \in Bijection(Part, Part) /\ \A x \in Part : x \in Nat
    BY DEF Shapes, Part
  <1>2. order[t][p] <= order[t][r] /\ order[t][r] <= order[t][p]
    BY DEF InTurn
  <1>3. order[t][p] \in Nat /\ order[t][r] \in Nat
    BY <1>1 DEF Bijection, Injection, Surjection
  <1>4. order[t][p] = order[t][r]
    BY <1>2, <1>3
  <1> QED BY <1>1, <1>4 DEF Bijection, Injection, IsInjective

-----------------------------------------------------------------------------
(* Where a key goes.                                                       *)

\* The interval it fits into is the one a routed insert is placed in, and there
\* is none for those that are lost.
LEMMA PlacesOf ==
  ASSUME OwnInv, Shapes, NEW t \in Thread, NEW p \in Part, Active(t, p), Task(t, p).op = "insert"
  PROVE  /\ Places(t, p) = {} <=> Lost(Task(t, p).key)
         /\ \A i \in Places(t, p) : i \in DOMAIN pages /\ i \in Nat /\ Fits(i, Task(t, p).key)
  <1> DEFINE key == Task(t, p).key
             pos == Pos(t, p)
             i == IF pos # INVALID THEN pos \div IL ELSE Fallback(key)
  <1>1. /\ key \in Nat /\ MinKey <= key /\ Partition(key) = p /\ MinKey < key
        /\ mode \in {"insert", "mix"} /\ pos = Answer(p, key) /\ Bounds /\ p \in Int
        /\ DOMAIN pages = 0 .. Total \div IL
    <2>1. Task(t, p) \in Asked(p) /\ pos = Answer(p, key)
      BY Current
    <2>2. Bounds /\ DOMAIN pages = 0 .. Total \div IL /\ p \in Int
      BY DEF Shapes, Part
    <2> QED BY <2>1, <2>2 DEF Asked
  <1>2. Places(t, p) = IF (pos # INVALID \/ mode = "insert") /\ Fits(i, key) THEN {i} ELSE {}
    BY DEF Places
  <1>3. /\ P \in Nat /\ N \in Nat /\ P >= 1 /\ N >= 1 /\ IL \in Nat
        /\ P * N \in Nat /\ P * N <= PartialTotal /\ PartialTotal \in Nat /\ PartialTotal = Total \div IL
    BY <1>1, Sizes DEF PartialTotal
  <1> HIDE DEF key, pos
  <1>4. p <= P - 1
    BY <1>3 DEF Part
  <1>5. Lost(key) <=> IF mode = "insert" THEN key >= Partial(Min({P * N, PartialTotal - 1}))
                      ELSE Unanswered(p, key)
    BY <1>1 DEF Lost, Unanswered
  <1>6. Min({P * N, PartialTotal - 1}) = IF P * N <= PartialTotal - 1 THEN P * N ELSE PartialTotal - 1
    BY <1>3, SmallerOne
  <1> DEFINE e == Min({P * N, PartialTotal - 1})
  <1>7. e \in Int /\ P * N - 1 <= e /\ e <= PartialTotal - 1 /\ e <= P * N
    BY <1>3, <1>6
  <1>8. MinKey = Partial(0)
    <2>1. 0 * IL = 0
      BY <1>3
    <2> QED BY <2>1 DEF MinKey, Partial
  <1> HIDE DEF e
  <1>9. CASE ~Unanswered(p, key)
    <2>1. PICK x \in Nat : /\ x \in p * N .. p * N + N - 2
                           /\ Partial(x) <= key /\ key < Partial(x + 1)
                           /\ pos \div IL = x /\ pos # INVALID
                           /\ x < PartialTotal - 1
      BY <1>1, <1>9, AnswerIs
    <2>2. i = x /\ Fits(i, key)
      BY <1>1, <2>1, Partials DEF Fits
    <2>3. Places(t, p) = {x}
      BY <1>2, <2>1, <2>2
    <2>4. ~Lost(key)
      <3>1. CASE mode = "insert"
        <4>1. p * N + N <= P * N /\ p * N \in Int
          <5>1. p < P BY <1>1, <1>3, <1>4
          <5> QED BY <1>1, <1>3, <5>1, Product
        <4>2. x + 1 <= e
          BY <1>3, <1>7, <2>1, <4>1
        <4>3. Partial(x + 1) <= Partial(e) /\ Partial(x + 1) \in Int /\ Partial(e) \in Int
          BY <1>7, <4>2, Partials
        <4> QED BY <1>1, <1>5, <2>1, <3>1, <4>3 DEF e
      <3>2. CASE mode = "mix"
        BY <1>5, <1>9, <3>2
      <3> QED BY <1>1, <3>1, <3>2
    <2>5. x \in DOMAIN pages /\ Fits(x, key)
      BY <1>1, <1>3, <2>1, <2>2
    <2> QED BY <2>3, <2>4, <2>5 DEF key
  <1>10. CASE Unanswered(p, key) /\ mode = "mix"
    <2>1. pos = INVALID
      BY <1>1, <1>10, AnswerIs
    <2> QED BY <1>2, <1>5, <1>10, <2>1 DEF key
  <1>11. CASE Unanswered(p, key) /\ mode = "insert"
    <2> DEFINE h == (p + 1) * N
    <2>1. pos = INVALID /\ i = Fallback(key)
      BY <1>1, <1>11, AnswerIs
    <2>2. /\ h \in Nat /\ h <= P * N
          /\ Fallback(key) = IF h <= PartialTotal - 1 THEN h - 1 ELSE PartialTotal - 2
          /\ Partial(h - 1) <= key
          /\ p < P - 1 => key < Partial(h) /\ h <= PartialTotal - 1
          /\ p = P - 1 => h = P * N
      BY <1>1, <1>11, FallbackIs
    <2> HIDE DEF i, h
    <2>3. i \in Int /\ i + 1 <= h /\ i <= h - 1 /\ i < PartialTotal - 1
      BY <1>3, <2>1, <2>2
    <2>4. Partial(i) <= key
      <3>1. Partial(i) <= Partial(h - 1) /\ Partial(i) \in Int /\ Partial(h - 1) \in Int
        BY <2>2, <2>3, Partials
      <3> QED BY <1>1, <2>2, <3>1
    <2>5. Fits(i, key) <=> key < Partial(i + 1)
      BY <1>1, <2>3, <2>4, Partials DEF Fits
    <2>6. Fits(i, key) <=> ~Lost(key)
      <3>1. CASE p < P - 1
        <4>1. i + 1 = h /\ key < Partial(h)
          BY <2>1, <2>2, <3>1
        <4>2. h <= e
          BY <1>7, <1>6, <2>2, <3>1 DEF e
        <4>3. Partial(h) <= Partial(e) /\ Partial(h) \in Int /\ Partial(e) \in Int
          BY <1>7, <2>2, <4>2, Partials
        <4> QED BY <1>1, <1>5, <1>11, <2>5, <4>1, <4>3 DEF e
      <3>2. CASE p = P - 1
        <4>1. i + 1 = e
          BY <1>3, <1>6, <2>1, <2>2, <3>2 DEF e
        <4>2. Partial(e) \in Int
          BY <1>7, Partials
        <4> QED BY <1>1, <1>5, <1>11, <2>5, <4>1, <4>2 DEF e
      <3> QED BY <1>1, <1>3, <1>4, <3>1, <3>2
    <2>7. Fits(i, key) => i \in Nat
      <3>1. SUFFICES ASSUME key < Partial(i + 1), i < 0 PROVE FALSE
        BY <2>3, <2>5
      <3>2. Partial(i + 1) <= Partial(0) /\ Partial(i + 1) \in Int /\ Partial(0) \in Int
        BY <2>3, <3>1, Partials
      <3> QED BY <1>1, <1>8, <3>1, <3>2
    <2>8. Places(t, p) = IF Fits(i, key) THEN {i} ELSE {}
      BY <1>2, <1>11, <2>1
    <2>9. Fits(i, key) => i \in DOMAIN pages
      BY <1>1, <1>3, <2>3, <2>7
    <2> QED BY <2>6, <2>7, <2>8, <2>9 DEF key
  <1> QED BY <1>1, <1>9, <1>10, <1>11

\* Partial keys bound the keys of an interval.
LEMMA FitsOnce ==
  ASSUME NEW key \in Int, NEW i \in Int, NEW j \in Int, Fits(i, key), Fits(j, key)
  PROVE  i = j
  BY OneInterval DEF Fits

LEMMA FitsLargest ==
  ASSUME Bounds, NEW key \in Int, NEW i \in Nat, Fits(i, key)
  PROVE  Max({x \in 0 .. PartialTotal - 1 : Partial(x) <= key}) = i
  <1> DEFINE T == {x \in 0 .. PartialTotal - 1 : Partial(x) <= key}
  <1>1. PartialTotal \in Nat /\ i < PartialTotal - 1 /\ Partial(i) <= key /\ key < Partial(i + 1)
    BY Sizes, Partials DEF Fits
  <1>2. i \in T /\ \A x \in T : x \in Int
    BY <1>1
  <1>3. ASSUME NEW x \in T PROVE x <= i
    <2>1. x \in Int /\ Partial(x) <= key
      OBVIOUS
    <2>2. i + 1 <= x => Partial(i + 1) <= Partial(x)
      BY <2>1, Partials
    <2>3. Partial(i + 1) \in Int /\ Partial(x) \in Int
      BY <2>1, Partials
    <2> QED BY <1>1, <2>1, <2>2, <2>3
  <1> HIDE DEF T
  <1>4. Max(T) \in T /\ \A x \in T : x <= Max(T)
    BY <1>2, <1>3, Largest
  <1>5. Max(T) \in Int /\ Max(T) <= i /\ i <= Max(T)
    BY <1>2, <1>3, <1>4
  <1>6. Max(T) = i
    BY <1>5
  <1> QED BY <1>6 DEF T

\* A page with one key more is in order, and has that key more.
Rising(page) == \A j \in DOMAIN page : j > 1 => page[j - 1] < page[j]

LEMMA RisesAll ==
  ASSUME NEW page \in Seq(Nat), Rising(page), NEW b \in DOMAIN page
  PROVE  \A a \in DOMAIN page : a < b => page[a] < page[b]
  <1>1. DOMAIN page = 1 .. Len(page) /\ Len(page) \in Nat /\ b \in Nat
    OBVIOUS
  <1> DEFINE Odd == {b - a : a \in {a \in DOMAIN page : a < b /\ ~(page[a] < page[b])}}
  <1>2. Odd = {}
    <2> SUFFICES ASSUME Odd # {} PROVE FALSE
      OBVIOUS
    <2>1. \A d \in Odd : d \in Nat
      BY <1>1
    <2>2. PICK d \in Odd : \A x \in Odd : d <= x
      <3> HIDE DEF Odd
      <3> QED BY <2>1, LeastNumber
    <2>3. PICK a \in DOMAIN page : a < b /\ ~(page[a] < page[b]) /\ d = b - a
      OBVIOUS
    <2>4. a + 1 \in DOMAIN page /\ a + 1 > 1 /\ a \in Nat
      BY <1>1, <2>3
    <2>5. page[a] < page[a + 1]
      <3>1. (a + 1) - 1 = a
        BY <2>4
      <3> QED BY <2>4, <3>1 DEF Rising
    <2>6. a + 1 # b
      BY <2>3, <2>5, Zenon
    <2>7. a + 1 < b
      BY <1>1, <2>3, <2>4, <2>6
    <2>8. page[a + 1] < page[b]
      <3>1. SUFFICES ASSUME ~(page[a + 1] < page[b]) PROVE FALSE
        OBVIOUS
      <3>2. b - (a + 1) \in Odd
        BY <2>4, <2>7, <3>1
      <3>3. d <= b - (a + 1)
        BY <2>2, <3>2
      <3> QED BY <1>1, <2>3, <2>4, <3>3
    <2>9. page[a] \in Nat /\ page[a + 1] \in Nat /\ page[b] \in Nat
      BY <2>3, <2>4
    <2> QED BY SMTT(60), <2>3, <2>5, <2>8, <2>9
  <1> QED BY <1>2

LEMMA PlacedIs ==
  ASSUME NEW page \in Seq(Nat), Rising(page), NEW key \in Nat, \A j \in DOMAIN page : page[j] # key
  PROVE  /\ Placed(page, key) \in Seq(Nat)
         /\ Len(Placed(page, key)) = Len(page) + 1
         /\ Rising(Placed(page, key))
         /\ \A x : (\E j \in DOMAIN Placed(page, key) : Placed(page, key)[j] = x)
                     <=> x = key \/ \E j \in DOMAIN page : page[j] = x
  <1> DEFINE T == {j \in DOMAIN page : page[j] <= key}
             c == Cardinality(T)
             e == Len(page)
             new == Placed(page, key)
  <1>1. e \in Nat /\ DOMAIN page = 1 .. e /\ \A j \in 1 .. e : page[j] \in Nat
    OBVIOUS
  <1>2. c \in 0 .. e /\ \A j \in 1 .. e : page[j] <= key <=> j <= c
    <2>1. CASE T = {}
      <3>1. c = 0
        BY <2>1, FS_EmptySet
      <3>2. \A j \in 1 .. e : ~(page[j] <= key)
        BY <1>1, <2>1
      <3> HIDE DEF c, T
      <3> QED BY <1>1, <3>1, <3>2
    <2>2. CASE T # {}
      <3> DEFINE m == Max(T)
      <3>1. \A j \in T : j \in Int /\ j <= e
        BY <1>1
      <3>2. m \in T /\ \A j \in T : j <= m
        <4> HIDE DEF T
        <4> QED BY <1>1, <2>2, <3>1, Largest
      <3>3. m \in 1 .. e /\ page[m] <= key
        BY <1>1, <3>2
      <3>4. \A j \in 1 .. e : page[j] <= key => j <= m
        BY <1>1, <3>2
      <3> HIDE DEF m
      <3>5. ASSUME NEW j \in 1 .. e, j <= m PROVE page[j] <= key
        <4>1. CASE j = m
          BY <3>3, <4>1
        <4>2. CASE j < m
          <5>1. page[j] < page[m]
            BY <1>1, <3>3, <4>2, RisesAll
          <5> QED BY <1>1, <3>3, <5>1
        <4> QED BY <1>1, <3>3, <3>5, <4>1, <4>2
      <3>6. T = 1 .. m
        BY <1>1, <3>3, <3>4, <3>5
      <3>7. c = m
        <4> HIDE DEF T
        <4> QED BY <3>3, <3>6, FS_Interval
      <3> HIDE DEF c
      <3> QED BY <1>1, <3>3, <3>4, <3>5, <3>7
    <2> QED BY <2>1, <2>2
  <1>3. new = SubSeq(page, 1, (c + 1) - 1) \o <<key>> \o SubSeq(page, c + 1, e)
    BY DEF Placed, InsertAt
  <1> HIDE DEF c, e, new
  <1> DEFINE front == SubSeq(page, 1, c)
             back  == SubSeq(page, c + 1, e)
  <1>4. (c + 1) - 1 = c
    BY <1>1, <1>2
  <1>5. /\ front \in Seq(Nat) /\ Len(front) = c /\ \A j \in 1 .. c : front[j] = page[j]
        /\ back \in Seq(Nat) /\ Len(back) = e - c /\ \A j \in 1 .. e - c : back[j] = page[c + j]
    <2>1. \A j \in 1 .. c : j \in 1 .. e
      BY <1>1, <1>2
    <2>2. \A j \in c + 1 .. e : j \in 1 .. e
      BY <1>1, <1>2
    <2>3. c \in Nat /\ c <= e /\ (IF 1 <= c THEN c - 1 + 1 ELSE 0) = c
      BY <1>1, <1>2
    <2>4. (IF c + 1 <= e THEN e - (c + 1) + 1 ELSE 0) = e - c
      BY <1>1, <2>3
    <2>5. \A j \in 1 .. e - c : (c + 1) + j - 1 = c + j
      BY <1>1, <2>3
    <2>6. front \in Seq(Nat) /\ back \in Seq(Nat)
      BY <1>1, <2>1, <2>2, <2>3, SubSeqProperties
    <2>7. Len(front) = c /\ \A j \in 1 .. c : front[j] = page[j]
      <3>1. Len(front) = IF 1 <= c THEN c - 1 + 1 ELSE 0
        BY <1>1, <2>1, <2>3, SubSeqProperties
      <3>2. \A j \in 1 .. c - 1 + 1 : front[j] = page[1 + j - 1]
        BY <1>1, <2>1, <2>3, SubSeqProperties
      <3>3. \A j \in 1 .. c : j \in 1 .. c - 1 + 1 /\ 1 + j - 1 = j
        BY <2>3
      <3> QED BY <2>3, <3>1, <3>2, <3>3
    <2>8. Len(back) = e - c /\ \A j \in 1 .. e - c : back[j] = page[c + j]
      <3>1. Len(back) = IF c + 1 <= e THEN e - (c + 1) + 1 ELSE 0
        BY <1>1, <2>2, <2>3, SubSeqProperties
      <3>2. \A j \in 1 .. e - (c + 1) + 1 : back[j] = page[(c + 1) + j - 1]
        BY <1>1, <2>2, <2>3, SubSeqProperties
      <3>3. \A j \in 1 .. e - c : j \in 1 .. e - (c + 1) + 1
        BY <1>1, <2>3
      <3> QED BY <2>4, <2>5, <3>1, <3>2, <3>3
    <2> QED BY <2>6, <2>7, <2>8
  <1>6. <<key>> \in Seq(Nat) /\ Len(<<key>>) = 1 /\ <<key>>[1] = key
    OBVIOUS
  <1>7. new = front \o <<key>> \o back
    BY <1>3, <1>4
  <1> HIDE DEF front, back
  <1> DEFINE head == front \o <<key>>
  <1>8. new \in Seq(Nat) /\ Len(new) = e + 1
    <2>1. head \in Seq(Nat) /\ Len(head) = c + 1
      BY <1>5, <1>6, ConcatProperties
    <2> HIDE DEF head
    <2>2. head \o back \in Seq(Nat) /\ Len(head \o back) = (c + 1) + (e - c)
      <3>1. head \o back \in Seq(Nat) /\ Len(head \o back) = Len(head) + Len(back)
        BY ZenonT(60), <1>5, <2>1, ConcatProperties
      <3> QED BY <1>5, <2>1, <3>1
    <2>3. (c + 1) + (e - c) = e + 1
      BY <1>1, <1>2
    <2> QED BY <1>7, <2>2, <2>3 DEF head
  <1>9. \A j \in 1 .. e + 1 : new[j] = IF j <= c THEN page[j] ELSE IF j = c + 1 THEN key ELSE page[j - 1]
    <2>1. head \in Seq(Nat) /\ Len(head) = c + 1 /\ c \in Nat
      BY <1>1, <1>2, <1>5, <1>6, ConcatProperties
    <2>2. ASSUME NEW j \in 1 .. c PROVE head[j] = page[j]
      <3>1. j \in 1 .. c + 1 /\ j <= c
        BY <2>1
      <3> QED BY <1>5, <1>6, <3>1, ConcatProperties
    <2>3. head[c + 1] = key
      <3>1. c + 1 \in 1 .. c + 1 /\ ~(c + 1 <= c) /\ (c + 1) - c = 1
        BY <2>1
      <3>2. \A j \in 1 .. c + 1 : head[j] = IF j <= c THEN front[j] ELSE <<key>>[j - c]
        BY <1>5, <1>6, ConcatProperties
      <3> QED BY <1>6, <3>1, <3>2
    <2>4. new = head \o back
      BY <1>7
    <2> HIDE DEF head
    <2>5. ASSUME NEW j \in 1 .. e + 1, j <= c + 1 PROVE new[j] = head[j]
      BY <1>5, <2>1, <2>4, <2>5
    <2>6. ASSUME NEW j \in 1 .. e + 1, j > c + 1 PROVE new[j] = page[j - 1]
      <3>1. /\ j - (c + 1) \in 1 .. e - c /\ c + (j - (c + 1)) = j - 1
            /\ j \in (c + 1) + 1 .. (c + 1) + (e - c) /\ j \in Nat
        BY <1>1, <2>1, <2>6
      <3>2. new[j] = back[j - (c + 1)]
        <4>1. j > Len(head) /\ j <= Len(head) + Len(back) /\ j \in Nat
          BY <1>1, <1>5, <2>1, <2>6
        <4> QED BY SMTT(60), <1>5, <2>1, <2>4, <4>1
      <3> QED BY <1>5, <3>1, <3>2
    <2>7. ASSUME NEW j \in 1 .. e + 1
          PROVE  new[j] = IF j <= c THEN page[j] ELSE IF j = c + 1 THEN key ELSE page[j - 1]
      <3>1. CASE j <= c
        <4>1. j \in 1 .. c /\ j <= c + 1
          BY <1>1, <2>1, <3>1
        <4> QED BY <2>2, <2>5, <3>1, <4>1
      <3>2. CASE j = c + 1
        <4>1. ~(j <= c) /\ j <= c + 1
          BY <2>1, <3>2
        <4> QED BY <2>3, <2>5, <3>2, <4>1
      <3>3. CASE j > c + 1
        <4>1. ~(j <= c) /\ j # c + 1
          BY <1>1, <2>1, <3>3
        <4> QED BY <2>6, <3>3, <4>1
      <3>4. j \in Nat
        BY <1>1
      <3> QED BY <2>1, <3>1, <3>2, <3>3, <3>4
    <2> QED BY <2>7
  <1>10. DOMAIN new = 1 .. e + 1
    BY <1>8
  <1>11. Rising(new)
    <2>1. ASSUME NEW j \in 1 .. e + 1, j > 1 PROVE new[j - 1] < new[j]
      <3>1. j \in Nat /\ j - 1 \in 1 .. e + 1 /\ c \in Nat
        BY <1>1, <1>2, <2>1
      <3>2. CASE j <= c
        <4>1. j \in DOMAIN page /\ j - 1 \in 1 .. e + 1 /\ j - 1 <= c
          BY <1>1, <1>2, <2>1, <3>1, <3>2
        <4>2. page[j - 1] < page[j]
          BY <2>1, <4>1 DEF Rising
        <4>3. new[j] = page[j] /\ new[j - 1] = page[j - 1]
          BY <1>9, <3>2, <4>1
        <4> QED BY <4>2, <4>3
      <3>3. CASE j = c + 1
        <4>1. j - 1 = c /\ c \in 1 .. e /\ page[c] <= key
          BY <1>1, <1>2, <2>1, <3>1, <3>3
        <4>2. page[c] < key
          BY <1>1, <4>1
        <4> QED BY <1>9, <3>1, <3>3, <4>1, <4>2
      <3>4. CASE j = c + 2
        <4>1. j - 1 = c + 1 /\ c + 1 \in 1 .. e /\ ~(page[c + 1] <= key)
          BY <1>1, <1>2, <2>1, <3>1, <3>4
        <4>2. key < page[c + 1]
          BY <1>1, <4>1
        <4> QED BY <1>9, <3>1, <3>4, <4>1, <4>2
      <3>5. CASE j > c + 2
        <4>1. /\ j - 1 \in 1 .. e /\ j - 1 > 1 /\ ~(j - 1 <= c) /\ j - 1 # c + 1
              /\ ~(j <= c) /\ j # c + 1
          BY <1>1, <2>1, <3>1, <3>5
        <4>2. page[j - 1 - 1] < page[j - 1]
          BY <1>1, <4>1 DEF Rising
        <4> QED BY <1>9, <3>1, <4>1, <4>2
      <3> QED BY <3>1, <3>2, <3>3, <3>4, <3>5
    <2> QED BY <1>10, <2>1 DEF Rising
  <1>12. ASSUME NEW x
         PROVE  (\E j \in 1 .. e + 1 : new[j] = x) <=> x = key \/ \E j \in 1 .. e : page[j] = x
    <2>1. ASSUME NEW j \in 1 .. e + 1, new[j] = x PROVE x = key \/ \E i \in 1 .. e : page[i] = x
      BY <1>1, <1>2, <1>9, <2>1
    <2>2. c + 1 \in 1 .. e + 1 /\ new[c + 1] = key
      BY <1>1, <1>2, <1>9
    <2>3. ASSUME NEW j \in 1 .. e, page[j] = x PROVE \E i \in 1 .. e + 1 : new[i] = x
      <3>1. CASE j <= c
        <4>1. j \in 1 .. e + 1 /\ new[j] = x
          BY <1>1, <1>9, <2>3, <3>1
        <4> QED BY <4>1
      <3>2. CASE ~(j <= c)
        <4>1. j + 1 \in 1 .. e + 1 /\ ~(j + 1 <= c) /\ j + 1 # c + 1 /\ (j + 1) - 1 = j
          BY <1>1, <1>2, <3>2
        <4>2. new[j + 1] = x
          BY <1>9, <2>3, <4>1
        <4> QED BY <4>1, <4>2
      <3> QED BY <3>1, <3>2
    <2> QED BY <2>1, <2>2, <2>3
  <1> QED BY <1>1, <1>8, <1>10, <1>11, <1>12 DEF new, e
-----------------------------------------------------------------------------
(* The invariant.                                                          *)

QueryInv ==
  /\ OwnInv /\ Shapes /\ Once /\ Landings /\ Overflows /\ PagesInOrder
  /\ Rested /\ Waiting

LEMMA InitHolds == Init => QueryInv
  <1> SUFFICES ASSUME Init PROVE QueryInv
    OBVIOUS
  <1>1. /\ mode \in Mode /\ rest \in Rests /\ fresh \in NewKeySets[mode]
        /\ order \in [Thread -> Bijection(Part, Part)]
        /\ pages = [i \in 0 .. Total \div IL |-> <<>>]
        /\ trees = [p \in Part |-> Seeds(p)]
        /\ pc = [t \in Thread |-> "launch"]
        /\ sent = [t \in Thread |-> [p \in Part |-> <<>>]]
        /\ done = [t \in Thread |-> [p \in Part |-> 0]]
        /\ ret = [t \in Thread |-> Nothing]
        /\ rows = [t \in Thread |-> {}]
    BY DEF Init
  <1>2. \A p : <<>> \in Seq(Asked(p)) /\ Len(<<>>) = 0 /\ DOMAIN <<>> = {}
    OBVIOUS
  <1>3. \A t \in Thread : \A p \in Part : sent[t][p] = <<>> /\ DOMAIN sent[t] = Part /\ done[t][p] = 0
    BY <1>1
  <1>4. Shapes
    <2>1. \A k \in fresh : k \in Nat /\ k % 3 # 0
      BY <1>1, NewKeysAssumption
    <2>2. pages \in [0 .. Total \div IL -> Seq(Nat)]
      BY <1>1
    <2>3. done \in [Thread -> [Part -> Nat]]
      BY <1>1
    <2>4. \A t \in Thread : DOMAIN sent[t] = Part /\ \A p \in Part : sent[t][p] \in Seq(Asked(p))
      <3> TAKE t \in Thread
      <3>1. DOMAIN sent[t] = Part
        BY <1>1
      <3>2. ASSUME NEW p \in Part PROVE sent[t][p] \in Seq(Asked(p))
        <4>1. sent[t][p] = <<>>
          BY <1>3
        <4>2. <<>> \in Seq(Asked(p))
          BY <1>2
        <4> QED BY <4>1, <4>2
      <3> QED BY <3>1, <3>2
    <2>5. \A t \in Thread : \A p \in Part : done[t][p] <= Len(sent[t][p])
      BY <1>2, <1>3
    <2>6. \A t \in Thread : order[t] \in Bijection(Part, Part)
      BY <1>1
    <2> QED BY <1>1, <2>1, <2>2, <2>3, <2>4, <2>5, <2>6 DEF Shapes, Bounds
  <1>5. Once
    BY <1>2, <1>3 DEF Once
  <1>6. Landings /\ Overflows
    <2>1. \A k : Stored(k) = {}
      BY <1>1, <1>2 DEF Stored
    <2>2. \A p \in Part : trees[p] \ Seeds(p) = {}
      BY <1>1
    <2>3. \A k : Absent(k)
      BY <2>1, <2>2 DEF Absent, Behind
    <2>4. \A t \in Thread : \A p \in Part : ~At(t, p, "overflow", "insert")
      BY <1>1 DEF At
    <2> QED BY <1>2, <1>3, <2>2, <2>3, <2>4 DEF Landings, Overflows
  <1>7. PagesInOrder
    <2>1. BufSize[mode] \in Nat /\ 0 <= BufSize[mode]
      BY <1>1, QuerysAssumption
    <2> QED BY <1>1, <1>2, <2>1 DEF PagesInOrder
  <1>8. Rested /\ Waiting
    BY <1>1 DEF Rested, Waiting, At
  <1> QED BY OwnInit, <1>4, <1>5, <1>6, <1>7, <1>8 DEF QueryInv
-----------------------------------------------------------------------------
(* What a step leaves alone.                                               *)

LEMMA SameMeaning ==
  ASSUME UNCHANGED <<mode, rest, pages, trees>>, NEW k
  PROVE  /\ Absent(k)' <=> Absent(k)
         /\ Landed(k)' <=> Landed(k)
         /\ FullPage(k)' <=> FullPage(k)
  <1>1. Total' = Total /\ PartialTotal' = PartialTotal
    BY DEF Total, PartialTotal
  <1>2. \A p : Seeds(p)' = Seeds(p)
    BY <1>1 DEF Seeds
  <1>3. Stored(k)' = Stored(k) /\ Behind(k)' = Behind(k)
    BY <1>2 DEF Stored, Behind
  <1>4. Lost(k)' <=> Lost(k)
    BY <1>1 DEF Lost
  <1>5. \A i : Fits(i, k)' <=> Fits(i, k)
    BY <1>1 DEF Fits
  <1> QED BY <1>3, <1>4, <1>5 DEF Absent, Landed, FullPage

\* A thread whose place and answers do not change has the same task before it.
LEMMA SameTask ==
  ASSUME NEW t \in Thread, UNCHANGED <<mode, rest, order, sent>>,
         recv'[t] = recv[t], done'[t] = done[t]
  PROVE  /\ Open(t)' = Open(t)
         /\ \A p \in Part : /\ InTurn(t, p)' <=> InTurn(t, p)
                            /\ Task(t, p)' = Task(t, p)
                            /\ Pos(t, p)' = Pos(t, p)
                            /\ Total' = Total
                            /\ Hit(Pos(t, p), Task(t, p).key)' <=> Hit(Pos(t, p), Task(t, p).key)
  <1>1. Open(t)' = Open(t)
    BY DEF Open, Tasks
  <1>2. ASSUME NEW p \in Part
        PROVE  /\ InTurn(t, p)' <=> InTurn(t, p)
               /\ Task(t, p)' = Task(t, p)
               /\ Pos(t, p)' = Pos(t, p)
               /\ Total' = Total
               /\ Hit(Pos(t, p), Task(t, p).key)' <=> Hit(Pos(t, p), Task(t, p).key)
    <2>1. InTurn(t, p)' <=> InTurn(t, p)
      BY <1>1 DEF InTurn
    <2>2. Task(t, p)' = Task(t, p) /\ Pos(t, p)' = Pos(t, p) /\ Total' = Total
      BY DEF Task, Pos, Total
    <2>3. Hit(Pos(t, p), Task(t, p).key)' <=> Hit(Pos(t, p), Task(t, p).key)
      BY <2>2 DEF Hit
    <2> QED BY <2>1, <2>2, <2>3
  <1> QED BY <1>1, <1>2

LEMMA SamePlaces ==
  ASSUME NEW t \in Thread, NEW p \in Part, UNCHANGED <<mode, rest, order, sent>>,
         recv'[t] = recv[t], done'[t] = done[t]
  PROVE  Places(t, p)' = Places(t, p)
  <1>1. Total' = Total /\ PartialTotal' = PartialTotal
    BY DEF Total, PartialTotal
  <1>2. Task(t, p)' = Task(t, p) /\ Pos(t, p)' = Pos(t, p)
    BY DEF Task, Pos
  <1>3. Fallback(Task(t, p).key)' = Fallback(Task(t, p).key)
    BY <1>1, <1>2 DEF Fallback
  <1> QED BY <1>1, <1>2, <1>3 DEF Places, Fits

\* Of the tasks of a thread only the one in turn is worked off.
Works(t) ==
  \A p \in Part : done'[t][p] = done[t][p] \/ (Active(t, p) /\ done'[t][p] = done[t][p] + 1)

\* A step of the thread t after which the queues are the same.
WorkStep(t) ==
  /\ UNCHANGED <<mode, rest, fresh, sent, order>>
  /\ DOMAIN pc' = Thread /\ DOMAIN ret' = Thread /\ DOMAIN rows' = Thread
  /\ done' \in [Thread -> [Part -> Nat]]
  /\ Works(t)
  /\ \A u \in Thread \ {t} :
       pc'[u] = pc[u] /\ recv'[u] = recv[u] /\ done'[u] = done[u] /\ ret'[u] = ret[u]

LEMMA ShapesKept ==
  ASSUME QueryInv, NEW t \in Thread, WorkStep(t),
         pages' \in [0 .. Total \div IL -> Seq(Nat)], DOMAIN trees' = Part
  PROVE  Shapes' /\ Once'
  <1> USE DEF WorkStep
  <1>1. Total' = Total
    BY DEF Total
  <1>2. \A p : Asked(p)' = Asked(p)
    BY DEF Asked
  <1>3. ASSUME NEW u \in Thread, NEW p \in Part PROVE done'[u][p] <= Len(sent[u][p])
    <2>1. done[u][p] <= Len(sent[u][p])
      BY DEF QueryInv, Shapes
    <2>2. CASE u # t
      BY <2>1, <2>2
    <2>3. CASE u = t /\ done'[t][p] = done[t][p]
      BY <2>1, <2>3
    <2>4. CASE u = t /\ Active(t, p) /\ done'[t][p] = done[t][p] + 1
      <3>1. done[t][p] + 1 \in DOMAIN sent[t][p]
        BY <2>4, Current DEF QueryInv
      <3>2. sent[t][p] \in Seq(Asked(p))
        BY DEF QueryInv, Shapes
      <3> HIDE DEF WorkStep
      <3>3. DOMAIN sent[t][p] = 1 .. Len(sent[t][p]) /\ Len(sent[t][p]) \in Nat
        BY <3>2
      <3> QED BY <2>4, <3>1, <3>3
    <2> QED BY <2>2, <2>3, <2>4 DEF Works
  <1>4. Shapes'
    <2>1. Shapes
      BY DEF QueryInv
    <2>2. Bounds'
      BY <2>1 DEF Shapes, Bounds
    <2>3. \A u \in Thread : DOMAIN sent'[u] = Part /\ \A p \in Part : sent'[u][p] \in Seq(Asked(p)')
      BY <1>2, <2>1, Zenon DEF Shapes
    <2>4. DOMAIN sent' = Thread /\ \A u \in Thread : order'[u] \in Bijection(Part, Part)
      BY <2>1 DEF Shapes
    <2>5. \A k \in fresh' : k \in Nat /\ k % 3 # 0
      BY <2>1 DEF Shapes
    <2>6. pages' \in [0 .. Total' \div IL -> Seq(Nat)]
      BY <1>1
    <2> QED BY <1>3, <2>2, <2>3, <2>4, <2>5, <2>6 DEF Shapes
  <1>5. Once'
    BY DEF QueryInv, Once
  <1> QED BY <1>4, <1>5
\* The pages and trees stay; a task that is worked off asks for no insert, or
\* for one whose key has its place.
LEMMA LandingsKept ==
  ASSUME QueryInv, NEW t \in Thread, WorkStep(t), UNCHANGED <<pages, trees>>,
         \A p \in Part : done'[t][p] # done[t][p] /\ Task(t, p).op = "insert" => Landed(Task(t, p).key)
  PROVE  Landings'
  <1>1. UNCHANGED <<mode, rest, fresh, sent>>
    BY DEF WorkStep
  <1>2. \A k : (Absent(k)' <=> Absent(k)) /\ (Landed(k)' <=> Landed(k))
    BY <1>1, SameMeaning
  <1>3. \A k \in fresh' : Absent(k)'
    BY <1>1, <1>2 DEF QueryInv, Landings
  <1>4. ASSUME NEW u \in Thread, NEW p \in Part, NEW j \in DOMAIN sent[u][p], sent[u][p][j].op = "insert",
               NEW k, k = sent[u][p][j].key
        PROVE  IF j <= done'[u][p] THEN Landed(k)' ELSE Absent(k)'
    <2>1. IF j <= done[u][p] THEN Landed(k) ELSE Absent(k)
      BY <1>4 DEF QueryInv, Landings
    <2>2. CASE done'[u][p] = done[u][p]
      BY <1>2, <2>1, <2>2
    <2>3. CASE done'[u][p] # done[u][p]
      <3>1. u = t /\ Active(t, p) /\ done'[t][p] = done[t][p] + 1
        BY <2>3 DEF WorkStep, Works
      <3>2. done[t][p] \in Nat /\ Task(t, p) = sent[t][p][done[t][p] + 1]
        BY <3>1, Current DEF QueryInv
      <3>3. j \in Nat
        <4>1. sent[u][p] \in Seq(Asked(p))
          BY DEF QueryInv, Shapes
        <4>2. DOMAIN sent[u][p] = 1 .. Len(sent[u][p]) /\ Len(sent[u][p]) \in Nat
          BY <4>1
        <4> QED BY <4>2
      <3>4. CASE j <= done[t][p]
        <4>1. j <= done[t][p] + 1 /\ Landed(k)
          BY <2>1, <3>1, <3>2, <3>3, <3>4
        <4> QED BY <1>2, <3>1, <4>1
      <3>5. CASE j = done[t][p] + 1
        <4>1. Task(t, p).op = "insert" /\ Task(t, p).key = k
          BY <1>4, <3>1, <3>2, <3>5
        <4>2. Landed(k) /\ j <= done[t][p] + 1
          BY <2>3, <3>1, <3>2, <3>5, <4>1
        <4> QED BY <1>2, <3>1, <4>2
      <3>6. CASE j > done[t][p] + 1
        <4>1. ~(j <= done[t][p]) /\ ~(j <= done[t][p] + 1)
          BY <3>2, <3>3, <3>6
        <4> QED BY <1>2, <2>1, <3>1, <4>1
      <3> QED BY <3>2, <3>3, <3>4, <3>5, <3>6
    <2> QED BY <2>2, <2>3
  <1> QED BY <1>1, <1>3, <1>4 DEF Landings

\* The key of the insert that is worked off finds its place, and no other moves.
LEMMA LandingsGain ==
  ASSUME QueryInv, NEW t \in Thread, WorkStep(t), NEW p \in Part, Active(t, p),
         Task(t, p).op = "insert", done' = [done EXCEPT ![t][p] = @ + 1],
         NEW key, key = Task(t, p).key, Landed(key)',
         \A k : k # key => (Absent(k)' <=> Absent(k)) /\ (Landed(k)' <=> Landed(k))
  PROVE  Landings'
  <1> DEFINE d == done[t][p]
  <1>1. UNCHANGED <<mode, rest, fresh, sent>>
    BY DEF WorkStep
  <1>2. d \in Nat /\ d + 1 \in DOMAIN sent[t][p] /\ Task(t, p) = sent[t][p][d + 1]
    BY Current DEF QueryInv
  <1>3. key \notin fresh
    BY <1>2 DEF QueryInv, Once
  <1>4. \A k \in fresh' : Absent(k)'
    BY <1>1, <1>3 DEF QueryInv, Landings
  <1>5. ASSUME NEW u \in Thread, NEW r \in Part, NEW j \in DOMAIN sent[u][r], sent[u][r][j].op = "insert",
               NEW k, k = sent[u][r][j].key
        PROVE  IF j <= done'[u][r] THEN Landed(k)' ELSE Absent(k)'
    <2>1. IF j <= done[u][r] THEN Landed(k) ELSE Absent(k)
      BY <1>5 DEF QueryInv, Landings
    <2>2. j \in Nat
      <3>1. sent[u][r] \in Seq(Asked(r))
        BY DEF QueryInv, Shapes
      <3>2. DOMAIN sent[u][r] = 1 .. Len(sent[u][r]) /\ Len(sent[u][r]) \in Nat
        BY <3>1
      <3> QED BY <3>2
    <2>3. \A x \in Thread : \A y \in Part :
             done'[x][y] = IF x = t /\ y = p THEN d + 1 ELSE done[x][y]
      BY DEF QueryInv, Shapes
    <2> HIDE DEF d
    <2>4. CASE u = t /\ r = p /\ j = d + 1
      <3>1. k = key /\ j <= done'[u][r]
        BY <1>2, <1>5, <2>3, <2>4
      <3> QED BY <3>1
    <2>5. CASE ~(u = t /\ r = p /\ j = d + 1)
      <3>1. k # key
        BY <1>2, <1>5, <2>5 DEF QueryInv, Once
      <3>2. (Absent(k)' <=> Absent(k)) /\ (Landed(k)' <=> Landed(k))
        BY <3>1
      <3>3. j <= done'[u][r] <=> j <= done[u][r]
        <4>1. CASE u = t /\ r = p
          <5>1. done'[u][r] = d + 1 /\ done[u][r] = d /\ d \in Nat
            BY <1>2, <2>3, <4>1 DEF d
          <5> QED BY <2>2, <2>5, <4>1, <5>1
        <4>2. CASE ~(u = t /\ r = p)
          BY <2>3, <4>2, Zenon
        <4> QED BY <4>1, <4>2
      <3> QED BY <2>1, <3>2, <3>3
    <2> QED BY <2>4, <2>5
  <1> QED BY <1>1, <1>4, <1>5 DEF Landings

\* The threads other than t are on the same way.
LEMMA OthersWait ==
  ASSUME QueryInv, NEW t \in Thread, WorkStep(t), NEW u \in Thread, u # t
  PROVE  /\ pc'[u] = "done" => Open(u)' = {}
         /\ \A p \in Part :
              At(u, p, "lookup", "get")' \/ At(u, p, "fallback", "get")' =>
                /\ ~Hit(Pos(u, p), Task(u, p).key)'
                /\ pc'[u] = "lookup" => Pos(u, p)' < Total'
         /\ \A p \in Part : At(u, p, "overflow", "insert")' =>
              At(u, p, "overflow", "insert") /\ Places(u, p)' = Places(u, p)
  <1>1. UNCHANGED <<mode, rest, order, sent>> /\ pc'[u] = pc[u] /\ recv'[u] = recv[u] /\ done'[u] = done[u]
        /\ ret'[u] = ret[u]
    BY DEF WorkStep
  <1>2. Open(u)' = Open(u)
    BY <1>1, SameTask
  <1>3. \A p \in Part : /\ InTurn(u, p)' <=> InTurn(u, p)
                        /\ Task(u, p)' = Task(u, p)
                        /\ Pos(u, p)' = Pos(u, p)
                        /\ Total' = Total
                        /\ Hit(Pos(u, p), Task(u, p).key)' <=> Hit(Pos(u, p), Task(u, p).key)
    BY <1>1, SameTask
  <1>4. \A p \in Part : \A label, op : At(u, p, label, op)' <=> At(u, p, label, op)
    BY <1>1, <1>3 DEF At
  <1>5. \A p \in Part : Places(u, p)' = Places(u, p)
    BY <1>1, SamePlaces
  <1>6. pc'[u] = "done" => Open(u)' = {}
    BY <1>1, <1>2 DEF QueryInv, Rested
  <1>7. ASSUME NEW p \in Part, At(u, p, "lookup", "get")' \/ At(u, p, "fallback", "get")'
        PROVE  ~Hit(Pos(u, p), Task(u, p).key)' /\ (pc'[u] = "lookup" => Pos(u, p)' < Total')
    <2>1. At(u, p, "lookup", "get") \/ At(u, p, "fallback", "get")
      BY <1>4, <1>7
    <2>2. ~Hit(Pos(u, p), Task(u, p).key) /\ (pc[u] = "lookup" => Pos(u, p) < Total)
      BY <2>1 DEF QueryInv, Waiting
    <2> QED BY <1>1, <1>3, <2>2
  <1> QED BY <1>4, <1>5, <1>6, <1>7

\* A step that leaves the pages and the trees alone, and what has to be known
\* about the thread that takes it.
LEMMA QuietStep ==
  ASSUME QueryInv, OwnInv', NEW t \in Thread, WorkStep(t), UNCHANGED <<pages, trees>>,
         \A p \in Part : done'[t][p] # done[t][p] /\ Task(t, p).op = "insert" => Landed(Task(t, p).key),
         pc'[t] = "done" => Open(t)' = {},
         \A p \in Part :
           At(t, p, "lookup", "get")' \/ At(t, p, "fallback", "get")' =>
             /\ ~Hit(Pos(t, p), Task(t, p).key)'
             /\ pc'[t] = "lookup" => Pos(t, p)' < Total',
         \A p \in Part : At(t, p, "overflow", "insert")' => \E i \in Places(t, p)' : Len(pages[i]) = BufSize[mode]
  PROVE  QueryInv'
  <1>1. UNCHANGED <<mode, rest>>
    BY DEF WorkStep
  <1>2. Shapes' /\ Once'
    <2>1. pages' \in [0 .. Total \div IL -> Seq(Nat)] /\ DOMAIN trees' = Part
      BY DEF QueryInv, Shapes
    <2> QED BY <2>1, ShapesKept
  <1>3. Landings'
    BY LandingsKept
  <1>4. Overflows'
    <2>1. \A k : FullPage(k)' <=> FullPage(k)
      BY <1>1, SameMeaning
    <2>2. \A p : Seeds(p)' = Seeds(p)
      BY <1>1 DEF Seeds, PartialTotal, Total
    <2>3. \A p \in Part : \A k \in trees'[p] \ Seeds(p)' : FullPage(k)'
      BY <2>1, <2>2 DEF QueryInv, Overflows
    <2>4. ASSUME NEW u \in Thread, NEW p \in Part, At(u, p, "overflow", "insert")'
          PROVE  \E i \in Places(u, p)' : Len(pages'[i]) = BufSize[mode']
      <3>1. CASE u = t
        BY <1>1, <2>4, <3>1
      <3>2. CASE u # t
        <4>1. At(u, p, "overflow", "insert") /\ Places(u, p)' = Places(u, p)
          BY <2>4, <3>2, OthersWait
        <4>2. \E i \in Places(u, p) : Len(pages[i]) = BufSize[mode]
          BY <4>1 DEF QueryInv, Overflows
        <4> QED BY <1>1, <4>1, <4>2
      <3> QED BY <3>1, <3>2
    <2> QED BY <2>3, <2>4 DEF Overflows
  <1>5. PagesInOrder'
    BY <1>1 DEF QueryInv, PagesInOrder
  <1>6. Rested' /\ Waiting'
    <2>1. \A u \in Thread : pc'[u] = "done" => Open(u)' = {}
      BY OthersWait
    <2>2. \A u \in Thread : \A p \in Part :
            At(u, p, "lookup", "get")' \/ At(u, p, "fallback", "get")' =>
              /\ ~Hit(Pos(u, p), Task(u, p).key)'
              /\ pc'[u] = "lookup" => Pos(u, p)' < Total'
      BY OthersWait
    <2> QED BY <2>1, <2>2 DEF Rested, Waiting
  <1> QED BY <1>2, <1>3, <1>4, <1>5, <1>6 DEF QueryInv

-----------------------------------------------------------------------------
(* The steps of a thread.                                                  *)

LEMMA Advances ==
  ASSUME QueryInv, NEW t \in Thread, NEW p \in Part, NEW label, NEW op, At(t, p, label, op),
         label \notin {"launch", "fetch"}, done' = [done EXCEPT ![t][p] = @ + 1]
  PROVE  /\ done' \in [Thread -> [Part -> Nat]]
         /\ Works(t)
         /\ \A u \in Thread \ {t} : done'[u] = done[u]
         /\ \A r \in Part : done'[t][r] # done[t][r] => r = p
         /\ Active(t, p)
  <1>1. done \in [Thread -> [Part -> Nat]]
    BY DEF QueryInv, Shapes
  <1>2. Active(t, p)
    BY DEF At, Active
  <1>3. /\ done' \in [Thread -> [Part -> Nat]]
        /\ \A u \in Thread \ {t} : done'[u] = done[u]
        /\ \A r \in Part : done'[t][r] = IF r = p THEN done[t][p] + 1 ELSE done[t][r]
    BY <1>1
  <1> QED BY <1>2, <1>3 DEF Works

\* The steps that put a thread back to work on its answers, or end its work.
LEMMA PlainStep ==
  ASSUME QueryInv, OwnInv', NEW t \in Thread, NEW label,
         label \in {"fetch", "work", "done"},
         UNCHANGED <<mode, rest, fresh, sent, order, pages, trees>>,
         pc' = [pc EXCEPT ![t] = label],
         \A u \in Thread \ {t} : recv'[u] = recv[u] /\ done'[u] = done[u] /\ ret'[u] = ret[u],
         done' \in [Thread -> [Part -> Nat]], Works(t),
         DOMAIN ret' = Thread, DOMAIN rows' = Thread,
         \A p \in Part : done'[t][p] # done[t][p] /\ Task(t, p).op = "insert" => Landed(Task(t, p).key),
         label = "done" => Open(t)' = {}
  PROVE  QueryInv'
  <1>1. DOMAIN pc = Thread
    BY DEF QueryInv, Shapes
  <1>2. WorkStep(t)
    BY <1>1 DEF WorkStep
  <1>3. pc'[t] = label
    BY <1>1
  <1>4. \A p \in Part : ~At(t, p, "lookup", "get")' /\ ~At(t, p, "fallback", "get")' /\ ~At(t, p, "overflow", "insert")'
    BY <1>3 DEF At
  <1> QED BY <1>2, <1>3, <1>4, QuietStep

LEMMA LaunchFetchFinish ==
  ASSUME QueryInv, OwnInv', NEW t \in Thread, Launch(t) \/ Fetch(t) \/ Finish(t)
  PROVE  QueryInv'
  <1>1. /\ done \in [Thread -> [Part -> Nat]] /\ DOMAIN ret = Thread /\ DOMAIN rows = Thread
        /\ DOMAIN recv = Thread
    BY DEF QueryInv, Shapes, OwnInv
  <1>2. /\ UNCHANGED <<mode, rest, fresh, sent, order, pages, trees, done, ret, rows>>
        /\ \A u \in Thread \ {t} : recv'[u] = recv[u]
    BY <1>1 DEF Launch, Fetch, Finish
  <1>3. PICK label \in {"fetch", "work", "done"} :
           pc' = [pc EXCEPT ![t] = label] /\ (label = "done" => Finish(t))
    BY DEF Launch, Fetch, Finish
  <1>4. label = "done" => Open(t)' = {}
    <2>1. Finish(t) => Open(t) = {} /\ recv' = recv
      BY DEF Finish
    <2>2. recv' = recv => Open(t)' = Open(t)
      BY <1>2, SameTask
    <2> QED BY <1>3, <2>1, <2>2
  <1>5. Works(t)
    BY <1>2 DEF Works
  <1> QED BY <1>1, <1>2, <1>3, <1>4, <1>5, PlainStep
-----------------------------------------------------------------------------
(* GETs.                                                                   *)

\* A loaded key is among the elements of its interval, and only there.
LEMMA HitIs ==
  ASSUME Bounds, NEW key \in Int, NEW i \in Int
  PROVE  /\ Hit(i * IL, key) => Partial(i) <= key /\ key < Partial(i + 1)
         /\ \A x \in 0 .. Total - 1 :
              key = Key(x) /\ Partial(i) <= key /\ key < Partial(i + 1) => Hit(i * IL, key)
  <1>1. IL \in Nat /\ IL >= 1 /\ Total \in Nat
    BY Sizes
  <1>2. i * IL \in Int /\ (i + 1) * IL = i * IL + IL
    BY <1>1, Product
  <1> DEFINE w == i * IL
  <1>3. Partial(i) = 3 * (w + 1) /\ Partial(i + 1) = 3 * (w + IL + 1)
    BY <1>1, <1>2 DEF Partial, Key
  <1> HIDE DEF w
  <1>4. w \in Int
    BY <1>2 DEF w
  <1>5. ASSUME Hit(w, key) PROVE Partial(i) <= key /\ key < Partial(i + 1)
    <2>1. PICK k \in 0 .. IL - 1 : Key(w + k) = key
      BY <1>5 DEF Hit
    <2>2. key = 3 * (w + k + 1)
      BY <2>1 DEF Key
    <2> QED BY <1>1, <1>3, <1>4, <2>2
  <1>6. ASSUME NEW x \in 0 .. Total - 1, key = Key(x), Partial(i) <= key, key < Partial(i + 1)
        PROVE  Hit(w, key)
    <2>1. key = 3 * (x + 1) /\ x \in Int
      BY <1>1, <1>6 DEF Key
    <2>2. w <= x /\ x < w + IL
      BY <1>1, <1>3, <1>4, <1>6, <2>1
    <2>3. x - w \in 0 .. IL - 1 /\ w + (x - w) = x
      BY <1>1, <1>4, <2>1, <2>2
    <2>4. w + (x - w) < Total /\ Key(w + (x - w)) = key
      BY <1>1, <1>6, <2>1, <2>3 DEF Key
    <2> QED BY <2>3, <2>4 DEF Hit
  <1> QED BY <1>5, <1>6 DEF w

\* The host's own search does not find a key behind the last partial key of
\* all, and it does find every other one the DPUs have no answer for.
LEMMA FallbackFinds ==
  ASSUME Bounds, NEW key \in Int, MinKey <= key, Unanswered(Partition(key), key)
  PROVE  /\ Partition(key) * N + N = PartialTotal => ~Hit(Fallback(key) * IL, key)
         /\ Partition(key) * N + N # PartialTotal =>
              \A x \in 0 .. Elements - 1 : key = Key(x) => Hit(Fallback(key) * IL, key)
  <1> DEFINE p == Partition(key)
             e == (p + 1) * N
  <1>1. /\ e \in Nat /\ e <= P * N /\ e - 1 = p * N + N - 1
        /\ Fallback(key) = IF e <= PartialTotal - 1 THEN e - 1 ELSE PartialTotal - 2
        /\ Partial(e - 1) <= key
        /\ p < P - 1 => key < Partial(e) /\ e <= PartialTotal - 1
        /\ p = P - 1 => e = P * N
    BY FallbackIs
  <1>2. /\ PartialTotal \in Nat /\ P * N \in Nat /\ P * N <= PartialTotal /\ N \in Nat /\ P \in Nat
        /\ Elements \in Nat /\ Elements = (P * N) * IL /\ IL \in Nat /\ IL >= 1
        /\ Total \in Nat /\ Elements <= Total
    BY Sizes
  <1>3. p \in Part /\ p \in Int /\ p <= P - 1
    BY <1>2, PartitionIs DEF Part
  <1> HIDE DEF p
  <1>4. p * N \in Int
    BY <1>2, <1>3, Product
  <1> HIDE DEF e
  <1>5. e = p * N + N
    BY <1>1, <1>2, <1>4
  <1>6. ASSUME e = PartialTotal PROVE ~Hit(Fallback(key) * IL, key)
    <2>1. Fallback(key) = e - 2 /\ e - 2 \in Int /\ (e - 2) + 1 = e - 1
      BY <1>1, <1>2, <1>6
    <2>2. Partial(e - 1) \in Int /\ ~(key < Partial(e - 1))
      BY <1>1, Partials
    <2> QED BY <2>1, <2>2, HitIs
  <1>7. ASSUME e # PartialTotal, NEW x \in 0 .. Elements - 1, key = Key(x)
        PROVE  Hit(Fallback(key) * IL, key)
    <2>1. e <= PartialTotal - 1
      BY <1>1, <1>2, <1>7
    <2>2. Fallback(key) = e - 1 /\ e - 1 \in Int /\ (e - 1) + 1 = e
      BY <1>1, <2>1
    <2>3. key < Partial(e)
      <3>1. CASE p < P - 1
        BY <1>1, <3>1
      <3>2. CASE p = P - 1
        <4>1. e * IL = Elements
          BY <1>1, <1>2, <3>2
        <4>2. Partial(e) = 3 * (Elements + 1) /\ key = 3 * (x + 1) /\ x < Elements /\ x \in Int
          BY <1>2, <1>7, <4>1 DEF Partial, Key
        <4> QED BY <1>2, <4>2
      <3> QED BY <1>2, <1>3, <3>1, <3>2
    <2>4. x \in 0 .. Total - 1
      BY <1>2
    <2> QED BY <1>1, <1>7, <2>2, <2>3, <2>4, HitIs
  <1> QED BY <1>5, <1>6, <1>7 DEF p

\* The key of a GET that is in turn.
LEMMA CurrentGet ==
  ASSUME QueryInv, NEW t \in Thread, NEW p \in Part, Active(t, p)
  PROVE  LET key == Task(t, p).key
         IN  /\ Bounds /\ key \in Nat /\ MinKey <= key /\ Partition(key) = p
             /\ Pos(t, p) = Answer(p, key)
             /\ Pos(t, p) = INVALID <=> Unanswered(p, key)
             /\ Pos(t, p) # INVALID =>
                  \E i \in Nat : /\ i < PartialTotal - 1 /\ Pos(t, p) = i * IL /\ Pos(t, p) < Total
                                 /\ Partial(i) <= key /\ key < Partial(i + 1)
  <1> DEFINE key == Task(t, p).key
  <1>1. Task(t, p) \in Asked(p) /\ Pos(t, p) = Answer(p, key)
    BY Current DEF QueryInv
  <1>2. key \in Nat /\ MinKey <= key /\ Partition(key) = p /\ Bounds
    BY <1>1 DEF Asked, QueryInv, Shapes
  <1> HIDE DEF key
  <1>3. Unanswered(p, key) => Answer(p, key) = INVALID
    BY <1>2, AnswerIs
  <1>4. ~Unanswered(p, key) =>
             \E i \in Nat :
                    /\ Partial(i) <= key /\ key < Partial(i + 1)
                    /\ Answer(p, key) = i * IL
                    /\ Answer(p, key) < Total /\ Answer(p, key) # INVALID
                    /\ i < PartialTotal - 1
    BY <1>2, AnswerIs
  <1> QED BY <1>1, <1>2, <1>3, <1>4 DEF key

\* A GET that is worked off.
LEMMA GetDone ==
  ASSUME QueryInv, OwnInv', NEW t \in Thread, NEW p \in Part, NEW label, At(t, p, label, "get"),
         label \notin {"launch", "fetch"}, Advance(t, p),
         UNCHANGED <<flags, index, device, order, sent, recv, rows>>,
         ret' = ret \/ \E v : ret' = [ret EXCEPT ![t] = v]
  PROVE  QueryInv'
  <1>1. done' = [done EXCEPT ![t][p] = @ + 1] /\ pc' = [pc EXCEPT ![t] = "work"]
    BY DEF Advance
  <1>2. /\ done' \in [Thread -> [Part -> Nat]]
        /\ Works(t)
        /\ \A u \in Thread \ {t} : done'[u] = done[u]
        /\ \A r \in Part : done'[t][r] # done[t][r] => r = p
    BY <1>1, Advances
  <1>3. DOMAIN ret = Thread /\ DOMAIN rows = Thread
    BY DEF QueryInv, Shapes
  <1>4. DOMAIN ret' = Thread /\ \A u \in Thread \ {t} : ret'[u] = ret[u]
    BY <1>3
  <1>5. Task(t, p).op # "insert"
    BY DEF At
  <1> QED BY <1>1, <1>2, <1>3, <1>4, <1>5, PlainStep

LEMMA GetHitKeeps ==
  ASSUME QueryInv, OwnInv', NEW t \in Thread, NEW p \in Part, GetHit(t, p) PROVE QueryInv'
  <1>1. /\ At(t, p, "work", "get") /\ Pos(t, p) # INVALID
        /\ ret' = [ret EXCEPT ![t] = Task(t, p).key] /\ Advance(t, p)
        /\ UNCHANGED <<flags, index, device, order, sent, recv, rows>>
    BY DEF GetHit, Return
  <1>2. "work" \notin {"launch", "fetch"}
    OBVIOUS
  <1> QED BY <1>1, <1>2, GetDone, Zenon

LEMMA GetFallbackKeeps ==
  ASSUME QueryInv, OwnInv', NEW t \in Thread, NEW p \in Part, GetFallback(t, p) PROVE QueryInv'
  <1>1. /\ At(t, p, "fallback", "get") /\ Advance(t, p)
        /\ UNCHANGED <<flags, index, device, order, sent, recv, rows>>
        /\ ret' = ret \/ \E v : ret' = [ret EXCEPT ![t] = v]
    BY DEF GetFallback, Return
  <1>2. "fallback" \notin {"launch", "fetch"}
    OBVIOUS
  <1> QED BY <1>1, <1>2, GetDone, Zenon

\* A GET that goes on to the tree or to the host's own search.
LEMMA GetGoesOn ==
  ASSUME QueryInv, OwnInv', NEW t \in Thread, NEW p \in Part, NEW label, At(t, p, label, "get"),
         label \notin {"launch", "fetch"}, NEW next, next \in {"lookup", "fallback"},
         pc' = [pc EXCEPT ![t] = next],
         ~Hit(Pos(t, p), Task(t, p).key), next = "lookup" => Pos(t, p) < Total,
         UNCHANGED <<flags, index, device, order, sent, recv, done, ret, rows>>
  PROVE  QueryInv'
  <1>1. /\ DOMAIN pc = Thread /\ done \in [Thread -> [Part -> Nat]] /\ DOMAIN ret = Thread /\ DOMAIN rows = Thread
    BY DEF QueryInv, Shapes
  <1>2. WorkStep(t)
    BY <1>1 DEF WorkStep, Works
  <1>3. pc'[t] = next
    BY <1>1
  <1>4. /\ Open(t)' = Open(t)
        /\ \A r \in Part : /\ InTurn(t, r)' <=> InTurn(t, r)
                           /\ Task(t, r)' = Task(t, r)
                           /\ Pos(t, r)' = Pos(t, r)
                           /\ Total' = Total
                           /\ Hit(Pos(t, r), Task(t, r).key)' <=> Hit(Pos(t, r), Task(t, r).key)
    BY SameTask
  <1>5. ASSUME NEW r \in Part, At(t, r, "lookup", "get")' \/ At(t, r, "fallback", "get")'
        PROVE  ~Hit(Pos(t, r), Task(t, r).key)' /\ (pc'[t] = "lookup" => Pos(t, r)' < Total')
    <2>1. InTurn(t, r) /\ InTurn(t, p)
      BY <1>4, <1>5 DEF At
    <2>2. r = p
      BY <2>1, OneInTurn DEF QueryInv
    <2> QED BY <1>3, <1>4, <2>2
  <1>6. \A r \in Part : ~At(t, r, "overflow", "insert")'
    BY <1>3 DEF At
  <1> QED BY <1>2, <1>3, <1>5, <1>6, QuietStep

LEMMA GetPageKeeps ==
  ASSUME QueryInv, OwnInv', NEW t \in Thread, NEW p \in Part, GetPage(t, p) PROVE QueryInv'
  <1>1. /\ At(t, p, "work", "get") /\ ~Hit(Pos(t, p), Task(t, p).key)
        /\ UNCHANGED <<flags, index, device, order, sent, recv, rows>>
    BY DEF GetPage
  <1>2. \/ pc' = [pc EXCEPT ![t] = "fallback"] /\ UNCHANGED <<done, ret>>
        \/ ret' = [ret EXCEPT ![t] = Zero] /\ Advance(t, p)
        \/ ~(Pos(t, p) >= Total) /\ pc' = [pc EXCEPT ![t] = "lookup"] /\ UNCHANGED <<done, ret>>
    BY DEF GetPage, Return
  <1>3. ~(Pos(t, p) >= Total) => Pos(t, p) < Total
    <2>1. Bounds /\ (Pos(t, p) # INVALID => Pos(t, p) < Total)
      BY <1>1, CurrentGet DEF At, Active
    <2>2. Total \in Nat /\ Total < INVALID /\ INVALID \in Int
      BY <2>1, Sizes DEF INVALID
    <2> QED BY <2>1, <2>2
  <1> QED BY <1>1, <1>2, <1>3, GetDone, GetGoesOn

LEMMA GetTreeKeeps ==
  ASSUME QueryInv, OwnInv', NEW t \in Thread, NEW p \in Part, GetTree(t, p) PROVE QueryInv'
  <1>1. /\ At(t, p, "lookup", "get")
        /\ UNCHANGED <<flags, index, device, order, sent, recv, ret, rows>>
        /\ (pc' = [pc EXCEPT ![t] = "fallback"] /\ UNCHANGED done) \/ Advance(t, p)
    BY DEF GetTree
  <1>2. ~Hit(Pos(t, p), Task(t, p).key)
    BY <1>1 DEF QueryInv, Waiting
  <1>3. CASE Advance(t, p)
    BY <1>1, <1>3, GetDone
  <1>4. CASE pc' = [pc EXCEPT ![t] = "fallback"] /\ UNCHANGED done
    BY <1>1, <1>2, <1>4, GetGoesOn
  <1> QED BY <1>1, <1>3, <1>4

LEMMA ScanKeeps ==
  ASSUME QueryInv, OwnInv', NEW t \in Thread, NEW p \in Part, Scan(t, p) PROVE QueryInv'
  <1>1. /\ At(t, p, "work", "scan")
        /\ done' = [done EXCEPT ![t][p] = @ + 1] /\ pc' = [pc EXCEPT ![t] = "work"]
        /\ UNCHANGED <<flags, index, device, order, sent, recv, ret>>
    BY DEF Scan, Advance
  <1>2. /\ done' \in [Thread -> [Part -> Nat]]
        /\ Works(t)
        /\ \A u \in Thread \ {t} : done'[u] = done[u]
        /\ \A r \in Part : done'[t][r] # done[t][r] => r = p
    <2>1. "work" \notin {"launch", "fetch"}
      OBVIOUS
    <2> QED BY <1>1, <2>1, Advances, Zenon
  <1>3. DOMAIN ret = Thread /\ DOMAIN rows' = Thread
    BY DEF QueryInv, Shapes, Scan
  <1>4. Task(t, p).op # "insert"
    BY <1>1 DEF At
  <1> QED BY <1>1, <1>2, <1>3, <1>4, PlainStep
-----------------------------------------------------------------------------
(* Inserts.                                                                *)

\* The key of an insert that is in turn is nowhere yet.
LEMMA CurrentInsert ==
  ASSUME QueryInv, NEW t \in Thread, NEW p \in Part, Active(t, p), Task(t, p).op = "insert"
  PROVE  LET key == Task(t, p).key
         IN  key \in Nat /\ key % 3 # 0 /\ MinKey < key /\ Absent(key)
  <1> DEFINE key == Task(t, p).key
             d == done[t][p]
  <1>1. d \in Nat /\ d + 1 \in DOMAIN sent[t][p] /\ Task(t, p) = sent[t][p][d + 1] /\ Task(t, p) \in Asked(p)
    BY Current DEF QueryInv
  <1>2. key \in Nat /\ key % 3 # 0 /\ MinKey < key
    BY <1>1 DEF Asked
  <1>3. ~(d + 1 <= d)
    BY <1>1
  <1>4. Absent(key)
    BY <1>1, <1>3 DEF QueryInv, Landings
  <1> QED BY <1>2, <1>4

\* An insert that is dropped, and one that finds its page full.
LEMMA InsertQuietKeeps ==
  ASSUME QueryInv, OwnInv', NEW t \in Thread, NEW p \in Part, At(t, p, "work", "insert"),
         UNCHANGED <<flags, pages, trees, device, order, sent, recv, ret, rows>>,
         \/ Places(t, p) = {} /\ Advance(t, p)
         \/ \E i \in Places(t, p) : Full(pages[i]) /\ Set(t, "overflow") /\ UNCHANGED done
  PROVE  QueryInv'
  <1>1. Active(t, p) /\ Task(t, p).op = "insert"
    BY DEF Active, At
  <1>2. DOMAIN ret = Thread /\ DOMAIN rows = Thread /\ DOMAIN pc = Thread /\ done \in [Thread -> [Part -> Nat]]
    BY DEF QueryInv, Shapes
  <1>3. CASE Places(t, p) = {} /\ Advance(t, p)
    <2>1. done' = [done EXCEPT ![t][p] = @ + 1] /\ pc' = [pc EXCEPT ![t] = "work"]
      BY <1>3 DEF Advance
    <2>2. "work" \notin {"launch", "fetch"}
      OBVIOUS
    <2>3. /\ done' \in [Thread -> [Part -> Nat]]
          /\ Works(t)
          /\ \A u \in Thread \ {t} : done'[u] = done[u]
          /\ \A r \in Part : done'[t][r] # done[t][r] => r = p
      BY <2>1, <2>2, Advances, Zenon
    <2>4. Landed(Task(t, p).key)
      <3>1. Lost(Task(t, p).key)
        BY <1>1, <1>3, PlacesOf DEF QueryInv
      <3>2. Absent(Task(t, p).key)
        BY <1>1, CurrentInsert
      <3> QED BY <3>1, <3>2 DEF Landed
    <2> QED BY <1>2, <2>1, <2>3, <2>4, PlainStep
  <1>4. ASSUME NEW i \in Places(t, p), Full(pages[i]), pc' = [pc EXCEPT ![t] = "overflow"], UNCHANGED done
        PROVE  QueryInv'
    <2>1. WorkStep(t)
      BY <1>2, <1>4 DEF WorkStep, Works
    <2>2. pc'[t] = "overflow"
      BY <1>2, <1>4
    <2>3. \A r \in Part : ~At(t, r, "lookup", "get")' /\ ~At(t, r, "fallback", "get")'
      BY <2>2 DEF At
    <2>4. i \in DOMAIN pages
      BY <1>1, PlacesOf DEF QueryInv
    <2>5. Len(pages[i]) = BufSize[mode]
      <3>1. Len(pages[i]) <= BufSize[mode]
        BY <2>4 DEF QueryInv, PagesInOrder
      <3>2. pages[i] \in Seq(Nat) /\ BufSize[mode] \in Nat
        BY <2>4, QuerysAssumption DEF QueryInv, Shapes, Bounds
      <3>3. Len(pages[i]) \in Nat
        BY <3>2
      <3> QED BY <1>4, <3>1, <3>2, <3>3 DEF Full
    <2>6. ASSUME NEW r \in Part, At(t, r, "overflow", "insert")'
          PROVE  \E x \in Places(t, r)' : Len(pages[x]) = BufSize[mode]
      <3>1. InTurn(t, r)' <=> InTurn(t, r)
        BY <1>4, SameTask
      <3>2. r = p
        BY <1>1, <2>6, <3>1, OneInTurn DEF QueryInv, Active, At
      <3>3. Places(t, p)' = Places(t, p)
        BY <1>4, SamePlaces
      <3> QED BY <1>4, <2>5, <3>2, <3>3
    <2> QED BY <1>4, <2>1, <2>2, <2>3, <2>6, QuietStep
  <1> QED BY <1>3, <1>4

\* An insert that is worked off and leaves its key where it belongs.
LEMMA InsertDone ==
  ASSUME QueryInv, OwnInv', NEW t \in Thread, NEW p \in Part, NEW label, At(t, p, label, "insert"),
         label \notin {"launch", "fetch"}, Advance(t, p),
         UNCHANGED <<flags, device, order, sent, recv, ret, rows>>,
         pages' \in [0 .. Total \div IL -> Seq(Nat)], DOMAIN trees' = Part, PagesInOrder',
         NEW key, key = Task(t, p).key, Landed(key)',
         \A k : k # key => (Absent(k)' <=> Absent(k)) /\ (Landed(k)' <=> Landed(k)),
         \A x \in DOMAIN pages : Len(pages[x]) = BufSize[mode] => Len(pages'[x]) = BufSize[mode],
         \A r \in Part : \A k \in trees'[r] \ Seeds(r) : FullPage(k)
  PROVE  QueryInv'
  <1>1. done' = [done EXCEPT ![t][p] = @ + 1] /\ pc' = [pc EXCEPT ![t] = "work"]
    BY DEF Advance
  <1>2. /\ done' \in [Thread -> [Part -> Nat]]
        /\ Works(t)
        /\ \A u \in Thread \ {t} : done'[u] = done[u]
        /\ Active(t, p)
    BY <1>1, Advances
  <1>3. DOMAIN ret = Thread /\ DOMAIN rows = Thread /\ DOMAIN pc = Thread
        /\ DOMAIN pages = 0 .. Total \div IL
    BY DEF QueryInv, Shapes
  <1>4. WorkStep(t)
    BY <1>1, <1>2, <1>3 DEF WorkStep
  <1>5. pc'[t] = "work"
    BY <1>1, <1>3
  <1>6. Shapes' /\ Once'
    BY <1>4, ShapesKept
  <1>7. Landings'
    <2>1. Task(t, p).op = "insert"
      BY DEF At
    <2> QED BY <1>1, <1>2, <1>4, <2>1, LandingsGain
  <1>8. Overflows'
    <2>1. \A r : Seeds(r)' = Seeds(r)
      BY DEF Seeds, PartialTotal, Total
    <2>2. DOMAIN pages' = DOMAIN pages
      BY <1>3
    <2>3. ASSUME NEW k, FullPage(k) PROVE FullPage(k)'
      <3>1. \A x : Fits(x, k)' <=> Fits(x, k)
        BY DEF Fits, PartialTotal, Total
      <3> QED BY <2>2, <2>3, <3>1 DEF FullPage
    <2>4. \A r \in Part : \A k \in trees'[r] \ Seeds(r)' : FullPage(k)'
      BY <2>1, <2>3
    <2>5. ASSUME NEW u \in Thread, NEW r \in Part, At(u, r, "overflow", "insert")'
          PROVE  \E x \in Places(u, r)' : Len(pages'[x]) = BufSize[mode']
      <3>1. u # t
        BY <1>5, <2>5 DEF At
      <3>2. At(u, r, "overflow", "insert") /\ Places(u, r)' = Places(u, r)
        BY <1>4, <2>5, <3>1, OthersWait
      <3>3. PICK x \in Places(u, r) : Len(pages[x]) = BufSize[mode]
        BY <3>2 DEF QueryInv, Overflows
      <3>4. x \in DOMAIN pages
        <4>1. pc[u] = "overflow" /\ InTurn(u, r) /\ Task(u, r).op = "insert"
          BY <3>2 DEF At
        <4>2. Active(u, r)
          BY <4>1 DEF Active
        <4> QED BY <4>1, <4>2, PlacesOf DEF QueryInv
      <3> QED BY <3>2, <3>3, <3>4
    <2> QED BY <2>4, <2>5 DEF Overflows
  <1>9. Rested' /\ Waiting'
    <2>1. \A u \in Thread : pc'[u] = "done" => Open(u)' = {}
      BY <1>4, <1>5, OthersWait
    <2>2. \A r \in Part : ~At(t, r, "lookup", "get")' /\ ~At(t, r, "fallback", "get")'
      BY <1>5 DEF At
    <2>3. \A u \in Thread : \A r \in Part :
            At(u, r, "lookup", "get")' \/ At(u, r, "fallback", "get")' =>
              /\ ~Hit(Pos(u, r), Task(u, r).key)'
              /\ pc'[u] = "lookup" => Pos(u, r)' < Total'
      BY <1>4, <2>2, OthersWait
    <2> QED BY <2>1, <2>3 DEF Rested, Waiting
  <1> QED BY <1>6, <1>7, <1>8, <1>9 DEF QueryInv

\* A key that finds room in its page.
LEMMA InsertPlacedKeeps ==
  ASSUME QueryInv, OwnInv', NEW t \in Thread, NEW p \in Part, At(t, p, "work", "insert"),
         Advance(t, p), UNCHANGED <<flags, trees, device, order, sent, recv, ret, rows>>,
         NEW i \in Places(t, p), ~Full(pages[i]),
         pages' = [pages EXCEPT ![i] = Placed(@, Task(t, p).key)]
  PROVE  QueryInv'
  <1>1. PICK key : key = Task(t, p).key
    OBVIOUS
  <1> DEFINE page == pages[i]
             new == Placed(page, key)
  <1>2. Active(t, p) /\ Task(t, p).op = "insert"
    BY DEF Active, At
  <1>3. i \in DOMAIN pages /\ i \in Nat /\ Fits(i, key) /\ ~Lost(key)
    BY <1>1, <1>2, PlacesOf DEF QueryInv
  <1>4. key \in Nat /\ Absent(key)
    BY <1>1, <1>2, CurrentInsert
  <1>5. /\ pages \in [0 .. Total \div IL -> Seq(Nat)] /\ DOMAIN pages = 0 .. Total \div IL
        /\ DOMAIN trees = Part /\ page \in Seq(Nat) /\ Len(page) \in Nat
    <2>1. pages \in [0 .. Total \div IL -> Seq(Nat)] /\ DOMAIN trees = Part
      BY DEF QueryInv, Shapes
    <2>2. page \in Seq(Nat)
      BY <1>3, <2>1
    <2> QED BY <2>1, <2>2
  <1>6. \A j \in DOMAIN page : page[j] # key
    BY <1>3, <1>4 DEF Absent, Stored
  <1>7. Rising(page)
    BY <1>3 DEF QueryInv, PagesInOrder, Rising
  <1>8. /\ new \in Seq(Nat) /\ Len(new) = Len(page) + 1 /\ Rising(new)
        /\ \A x : (\E j \in DOMAIN new : new[j] = x) <=> x = key \/ \E j \in DOMAIN page : page[j] = x
    BY <1>4, <1>5, <1>6, <1>7, PlacedIs
  <1> HIDE DEF new
  <1>9. pages' = [pages EXCEPT ![i] = new]
    BY <1>1 DEF new
  <1>10. /\ pages' \in [0 .. Total \div IL -> Seq(Nat)] /\ DOMAIN pages' = DOMAIN pages
        /\ pages'[i] = new /\ \A x \in DOMAIN pages : x # i => pages'[x] = pages[x]
    BY <1>3, <1>5, <1>8, <1>9
  <1>11. \A k : k # key => Stored(k)' = Stored(k)
    <2>1. ASSUME NEW k, k # key, NEW x \in DOMAIN pages
          PROVE  (\E j \in DOMAIN pages'[x] : pages'[x][j] = k) <=> \E j \in DOMAIN pages[x] : pages[x][j] = k
      <3>1. CASE x # i
        BY <1>10, <3>1
      <3>2. CASE x = i
        BY ZenonT(60), <1>8, <1>10, <2>1, <3>2
      <3> QED BY <3>1, <3>2
    <2>2. ASSUME NEW k, k # key PROVE Stored(k)' = Stored(k)
      <3>1. DOMAIN pages' = DOMAIN pages
        BY <1>10
      <3>2. \A x \in DOMAIN pages : (\E j \in DOMAIN pages'[x] : pages'[x][j] = k)
                                      <=> \E j \in DOMAIN pages[x] : pages[x][j] = k
        BY <2>1, <2>2
      <3> QED BY <3>1, <3>2, Zenon DEF Stored
    <2> QED BY <2>2
  <1>12. Stored(key)' = {i}
    <2>1. Stored(key) = {}
      BY <1>4 DEF Absent
    <2>2. \A x \in DOMAIN pages : x # i => x \notin Stored(key)'
      BY <1>10, <2>1 DEF Stored
    <2>3. i \in Stored(key)'
      BY <1>3, <1>8, <1>10 DEF Stored
    <2>4. Stored(key)' \subseteq DOMAIN pages
      BY <1>10 DEF Stored
    <2> QED BY <2>2, <2>3, <2>4
  <1>13. /\ \A r : Seeds(r)' = Seeds(r)
         /\ \A k : Behind(k)' = Behind(k)
         /\ \A k : Lost(k)' <=> Lost(k)
    BY DEF Behind, Seeds, Lost, PartialTotal, Total
  <1>14. Landed(key)'
    <2>1. Behind(key)' = {} /\ ~Lost(key)'
      BY <1>3, <1>4, <1>13 DEF Absent
    <2> QED BY <1>3, <1>10, <1>12, <2>1 DEF Landed
  <1>15. \A k : k # key => (Absent(k)' <=> Absent(k)) /\ (Landed(k)' <=> Landed(k))
    BY <1>10, <1>11, <1>13 DEF Absent, Landed
  <1>16. BufSize[mode] \in Nat
    BY QuerysAssumption DEF QueryInv, Shapes, Bounds
  <1>17. ~(Len(page) >= BufSize[mode])
    BY DEF Full
  <1>18. PagesInOrder'
    <2>1. ASSUME NEW x \in DOMAIN pages
          PROVE  /\ Len(pages'[x]) <= BufSize[mode]
                 /\ \A j \in DOMAIN pages'[x] :
                      /\ Partial(x) <= pages'[x][j] /\ pages'[x][j] < Partial(x + 1)
                      /\ j > 1 => pages'[x][j - 1] < pages'[x][j]
      <3>1. CASE x # i
        BY <1>10, <3>1 DEF QueryInv, PagesInOrder
      <3>2. CASE x = i
        <4>1. Len(new) <= BufSize[mode]
          BY <1>5, <1>8, <1>16, <1>17
        <4>2. \A j \in DOMAIN new : new[j] = key \/ \E h \in DOMAIN page : page[h] = new[j]
          BY <1>8
        <4>3. Partial(i) <= key /\ key < Partial(i + 1)
          <5>1. Partial(i + 1) > key
            BY <1>3 DEF Fits
          <5>2. Partial(i + 1) \in Int
            BY <1>3, Partials
          <5> QED BY <1>3, <1>4, <5>1, <5>2 DEF Fits
        <4>4. \A h \in DOMAIN page : Partial(i) <= page[h] /\ page[h] < Partial(i + 1)
          BY <1>3 DEF QueryInv, PagesInOrder
        <4>5. \A j \in DOMAIN new : Partial(i) <= new[j] /\ new[j] < Partial(i + 1)
          BY <4>2, <4>3, <4>4
        <4> QED BY <1>8, <1>10, <3>2, <4>1, <4>5 DEF Rising
      <3> QED BY <3>1, <3>2
    <2> QED BY <1>10, <2>1 DEF PagesInOrder
  <1>19. \A x \in DOMAIN pages : Len(pages[x]) = BufSize[mode] => Len(pages'[x]) = BufSize[mode]
    BY <1>5, <1>10, <1>16, <1>17
  <1>20. \A r \in Part : \A k \in trees'[r] \ Seeds(r) : FullPage(k)
    BY DEF QueryInv, Overflows
  <1>21. "work" \notin {"launch", "fetch"} /\ key = Task(t, p).key /\ DOMAIN trees' = Part
    BY <1>1, <1>5
  <1> QED BY <1>10, <1>14, <1>15, <1>18, <1>19, <1>20, <1>21, InsertDone, Zenon

LEMMA InsertKeeps ==
  ASSUME QueryInv, OwnInv', NEW t \in Thread, NEW p \in Part, Insert(t, p) PROVE QueryInv'
  <1>1. /\ At(t, p, "work", "insert")
        /\ UNCHANGED <<flags, trees, device, order, sent, recv, ret, rows>>
    BY DEF Insert
  <1>2. CASE Places(t, p) = {} /\ Advance(t, p) /\ UNCHANGED pages
    BY <1>1, <1>2, InsertQuietKeeps
  <1>3. ASSUME NEW i \in Places(t, p), Full(pages[i]), Set(t, "overflow"), UNCHANGED <<pages, done>>
        PROVE  QueryInv'
    BY <1>1, <1>3, InsertQuietKeeps
  <1>4. ASSUME NEW i \in Places(t, p), ~Full(pages[i]), Advance(t, p),
               pages' = [pages EXCEPT ![i] = Placed(@, Task(t, p).key)]
        PROVE  QueryInv'
    BY <1>1, <1>4, InsertPlacedKeeps
  <1> QED BY <1>2, <1>3, <1>4 DEF Insert

\* A key that does not, in the tree behind it.
LEMMA InsertOverflowKeeps ==
  ASSUME QueryInv, OwnInv', NEW t \in Thread, NEW p \in Part, InsertOverflow(t, p) PROVE QueryInv'
  <1>1. PICK key : key = Task(t, p).key
    OBVIOUS
  <1>2. /\ At(t, p, "overflow", "insert") /\ Advance(t, p)
        /\ trees' = [trees EXCEPT ![p] = @ \cup {key}]
        /\ UNCHANGED <<flags, pages, device, order, sent, recv, ret, rows>>
    BY <1>1 DEF InsertOverflow
  <1>3. Active(t, p) /\ Task(t, p).op = "insert"
    BY <1>2 DEF Active, At
  <1>4. PICK i \in Places(t, p) : Len(pages[i]) = BufSize[mode]
    BY <1>2 DEF QueryInv, Overflows
  <1>5. i \in DOMAIN pages /\ Fits(i, key) /\ ~Lost(key)
    BY <1>1, <1>3, PlacesOf DEF QueryInv
  <1>6. key \in Nat /\ key % 3 # 0 /\ MinKey < key /\ Absent(key)
    BY <1>1, <1>3, CurrentInsert
  <1>7. pages \in [0 .. Total \div IL -> Seq(Nat)] /\ DOMAIN trees = Part /\ PagesInOrder
    BY DEF QueryInv, Shapes
  <1>8. \A r \in Part : key \notin Seeds(r)
    <2>1. \A x \in Int : key # Partial(x)
      <3> TAKE x \in Int
      <3>1. x * IL + 1 \in Int /\ Partial(x) = 3 * (x * IL + 1)
        BY SizesAssumption, Product, Partials
      <3> DEFINE y == x * IL + 1
      <3> HIDE DEF y
      <3>2. y \in Int => (3 * y) % 3 = 0
        OBVIOUS
      <3> QED BY <1>6, <3>1, <3>2 DEF y
    <2>2. key # 1
      BY <1>6 DEF MinKey, Key
    <2>3. \A r \in Part : \A j \in 0 .. SeedNum - 1 :
             Min({r * N + j * SeedStride, PartialTotal - 1}) \in Int
      <3> SUFFICES ASSUME NEW r \in Part, NEW j \in 0 .. SeedNum - 1
                   PROVE  Min({r * N + j * SeedStride, PartialTotal - 1}) \in Int
        OBVIOUS
      <3>1. PICK a \in Int : a = r * N + j * SeedStride
        <4>1. r \in Int /\ N \in Nat /\ j \in Int /\ SeedStride \in Nat
          BY SizesAssumption, QuerysAssumption DEF Part
        <4> DEFINE x == r * N
                   y == j * SeedStride
        <4>2. x \in Int /\ y \in Int
          BY <4>1, Product
        <4> HIDE DEF x, y
        <4>3. x + y \in Int
          BY <4>2
        <4> QED BY <4>3 DEF x, y
      <3>2. PICK b \in Int : b = PartialTotal - 1
        <4>1. PartialTotal \in Nat
          BY Sizes DEF QueryInv, Shapes
        <4> QED BY <4>1
      <3> QED BY <3>1, <3>2, SmallerOne
    <2> QED BY <2>1, <2>2, <2>3 DEF Seeds
  <1>9. /\ \A r : Seeds(r)' = Seeds(r)
        /\ \A k : Stored(k)' = Stored(k)
        /\ \A k : Lost(k)' <=> Lost(k)
    BY <1>2 DEF Stored, Seeds, Lost, PartialTotal, Total
  <1>10. \A r \in Part : trees'[r] = IF r = p THEN trees[r] \cup {key} ELSE trees[r]
    BY <1>1, <1>2, <1>7
  <1>11. \A k : k # key => Behind(k)' = Behind(k)
    BY <1>9, <1>10 DEF Behind
  <1>12. Behind(key)' = {p}
    <2>1. \A r \in Part : key \notin trees[r]
      BY <1>6, <1>8 DEF Absent, Behind
    <2> QED BY <1>8, <1>9, <1>10, <2>1 DEF Behind
  <1>13. Landed(key)'
    <2>1. Stored(key)' = {}
      BY <1>6, <1>9 DEF Absent
    <2> QED BY <1>5, <1>9, <1>12, <2>1 DEF Landed
  <1>14. \A k : k # key => (Absent(k)' <=> Absent(k)) /\ (Landed(k)' <=> Landed(k))
    <2>1. pages' = pages
      BY <1>2
    <2> QED BY <1>9, <1>11, <2>1 DEF Absent, Landed
  <1>15. FullPage(key)
    BY <1>4, <1>5, <1>6 DEF FullPage
  <1>16. \A r \in Part : \A k \in trees'[r] \ Seeds(r) : FullPage(k)
    BY <1>10, <1>15 DEF QueryInv, Overflows
  <1>17. PagesInOrder'
    BY <1>2, <1>7 DEF PagesInOrder
  <1>18. /\ "overflow" \notin {"launch", "fetch"} /\ key = Task(t, p).key /\ DOMAIN trees' = Part
         /\ pages' \in [0 .. Total \div IL -> Seq(Nat)]
         /\ \A x \in DOMAIN pages : Len(pages[x]) = BufSize[mode] => Len(pages'[x]) = BufSize[mode]
    BY <1>1, <1>2, <1>7
  <1> QED BY <1>2, <1>13, <1>14, <1>16, <1>17, <1>18, InsertDone, Zenon
-----------------------------------------------------------------------------
(* Generating a query.                                                     *)

LEMMA RoutedTo ==
  ASSUME Shapes, NEW q \in Queries, Routed(q)
  PROVE  /\ Partition(q.key) \in Part /\ q \in Asked(Partition(q.key))
         /\ q.op = "insert" => q.key \in fresh
  <1>1. /\ Bounds /\ mode \in Mode /\ \A k \in fresh : k \in Nat /\ k % 3 # 0
        /\ Elements \in Nat /\ ScanLength \in Nat /\ Width \in Nat /\ Width > 0
    BY Sizes, QuerysAssumption, BoundsAssumption DEF Shapes, Bounds
  <1>2. Sampled[mode] \subseteq 0 .. Elements - 1
    BY <1>1, QuerysAssumption
  <1>3. MinKey = 3 /\ \A i \in 0 .. Elements - 1 : Key(i) \in Nat /\ MinKey <= Key(i)
    BY <1>1 DEF MinKey, Key
  <1>4. \A i \in 0 .. Elements - 1 : Key(Min({i + ScanLength, Elements - 1})) % Width \in Int
    <2> TAKE i \in 0 .. Elements - 1
    <2>1. i + ScanLength \in Int /\ Elements - 1 \in Int
      BY <1>1
    <2>2. Min({i + ScanLength, Elements - 1}) \in Int
      BY <2>1, SmallerOne
    <2> DEFINE m == Min({i + ScanLength, Elements - 1})
    <2> HIDE DEF m
    <2>3. Key(m) \in Int
      BY <2>2 DEF m, Key
    <2> DEFINE k == Key(m)
    <2> HIDE DEF k
    <2>4. k % Width \in Int
      BY <1>1, <2>3 DEF k
    <2> QED BY <2>4 DEF k, m
  <1>5. CASE q \in Gets
    <2>1. PICK i \in 0 .. Elements - 1 : q = Query("get", Key(i), 0)
      BY <1>2, <1>5 DEF Gets
    <2>2. q.op = "get" /\ q.key = Key(i) /\ q \in [op : {"get", "insert", "scan"}, key : Nat, end : Int]
      BY <1>3, <2>1 DEF Query
    <2>3. Partition(q.key) \in Part /\ MinKey <= q.key
      BY <1>1, <1>3, <2>2, PartitionIs
    <2> QED BY <2>2, <2>3 DEF Asked
  <1>6. CASE q \in Inserts /\ mode \in {"insert", "mix"}
    <2>1. PICK k \in fresh : q = Query("insert", k, 0)
      BY <1>6 DEF Inserts
    <2>2. q.op = "insert" /\ q.key = k /\ q \in [op : {"get", "insert", "scan"}, key : Nat, end : Int]
      BY <1>1, <2>1 DEF Query
    <2>3. MinKey < q.key /\ MinKey <= q.key
      BY <1>1, <1>3, <1>6, <2>2 DEF Routed
    <2>4. Partition(q.key) \in Part
      BY <1>1, <2>2, <2>3, PartitionIs
    <2> QED BY <1>1, <1>6, <2>2, <2>3, <2>4 DEF Asked
  <1>7. CASE q = Query("get", MinKey + 1, 0)
    <2>1. q.op = "get" /\ q.key = MinKey + 1 /\ q \in [op : {"get", "insert", "scan"}, key : Nat, end : Int]
      BY <1>3, <1>7 DEF Query
    <2>2. Partition(q.key) \in Part /\ MinKey <= q.key
      BY <1>1, <1>3, <2>1, PartitionIs
    <2> QED BY <2>1, <2>2 DEF Asked
  <1>8. CASE q \in Scans
    <2>1. PICK i \in 0 .. Elements - 1 :
             q = Query("scan", Key(i), Key(Min({i + ScanLength, Elements - 1})) % Width)
      BY <1>2, <1>8 DEF Scans
    <2>2. /\ q.op = "scan" /\ q.key = Key(i) /\ q.end = Key(Min({i + ScanLength, Elements - 1})) % Width
          /\ q \in [op : {"get", "insert", "scan"}, key : Nat, end : Int]
      BY <1>3, <1>4, <2>1 DEF Query
    <2>3. Partition(q.key) \in Part /\ MinKey <= q.key
      BY <1>1, <1>3, <2>2, PartitionIs
    <2> QED BY <2>2, <2>3 DEF Asked
  <1> QED BY <1>1, <1>5, <1>6, <1>7, <1>8 DEF Queries, MixInserts, Mode

LEMMA DrawHolds ==
  ASSUME QueryInv, OwnInv', Draw PROVE QueryInv'
  <1>1. /\ drawn < NumQuerys[mode]
        /\ UNCHANGED <<mode, pure, rest, pages, trees, lock, dpu, order, pc, recv, done, ret, rows>>
    BY DEF Draw
  <1>2. PICK q \in Queries :
          /\ fresh' = fresh \ {q.key}
          /\ sent' = IF Routed(q)
                     THEN [sent EXCEPT ![Owner(drawn)][Partition(q.key)] = Append(@, q)]
                     ELSE sent
    BY DEF Draw
  <1>3. Shapes /\ OwnInv
    BY DEF QueryInv
  <1>4. \A t \in Thread : pc[t] = "launch"
    <2>1. NumQuerys[mode] \in Nat
      BY <1>3, QuerysAssumption DEF Shapes, Bounds
    <2> QED BY <1>1, <1>3, <2>1 DEF OwnInv, OwnOf
  <1>5. /\ DOMAIN sent = Thread
        /\ \A t \in Thread : DOMAIN sent[t] = Part /\ \A p \in Part : sent[t][p] \in Seq(Asked(p))
    BY <1>3 DEF Shapes
  <1>6. \A t \in Thread : \A p \in Part :
          /\ DOMAIN sent[t][p] = 1 .. Len(sent[t][p]) /\ Len(sent[t][p]) \in Nat
          /\ done[t][p] \in Nat /\ done[t][p] <= Len(sent[t][p])
    <2> TAKE t \in Thread
    <2> TAKE p \in Part
    <2>1. sent[t][p] \in Seq(Asked(p)) /\ done[t][p] \in Nat /\ done[t][p] <= Len(sent[t][p])
      BY <1>3 DEF Shapes
    <2> QED BY <2>1
  \* What a queue holds: what it held, and perhaps the new query behind it.
  <1>7. /\ DOMAIN sent' = Thread
        /\ \A t \in Thread : DOMAIN sent'[t] = Part
        /\ \/ \A t \in Thread : \A p \in Part : sent'[t][p] = sent[t][p]
           \/ /\ Routed(q)
              /\ \E w \in Thread : \A t \in Thread : \A p \in Part :
                   sent'[t][p] = IF t = w /\ p = Partition(q.key) THEN Append(sent[t][p], q) ELSE sent[t][p]
    <2>1. CASE ~Routed(q)
      BY <1>2, <1>5, <2>1
    <2>2. CASE Routed(q)
      <3>1. Partition(q.key) \in Part
        BY <1>3, <2>2, RoutedTo
      <3> DEFINE w == Owner(drawn)
                 z == Partition(q.key)
      <3>2. sent' = [sent EXCEPT ![w] = [sent[w] EXCEPT ![z] = Append(sent[w][z], q)]]
        BY <1>2, <2>2
      <3> HIDE DEF w, z
      <3>3. DOMAIN sent' = Thread
        BY <1>5, <3>2
      <3>4. \A t \in Thread : sent'[t] = IF t = w THEN [sent[t] EXCEPT ![z] = Append(sent[t][z], q)] ELSE sent[t]
        BY <1>5, <3>2
      <3>5. \A t \in Thread : DOMAIN sent'[t] = Part
        BY <1>5, <3>4
      <3>6. \A t \in Thread : \A p \in Part :
              sent'[t][p] = IF t = w /\ p = z THEN Append(sent[t][p], q) ELSE sent[t][p]
        BY ZenonT(60), <1>5, <3>4
      <3>7. CASE w \in Thread
        <4>1. \E x \in Thread : \A t \in Thread : \A p \in Part :
                 sent'[t][p] = IF t = x /\ p = z THEN Append(sent[t][p], q) ELSE sent[t][p]
          BY <3>6, <3>7
        <4> QED BY <2>2, <3>3, <3>5, <4>1 DEF z
      <3>8. CASE w \notin Thread
        <4>1. \A t \in Thread : \A p \in Part : sent'[t][p] = sent[t][p]
          BY <3>6, <3>8
        <4> QED BY <3>3, <3>5, <4>1
      <3> QED BY <3>7, <3>8
    <2> QED BY <2>1, <2>2
  <1>8. ASSUME NEW t \in Thread, NEW p \in Part
        PROVE  /\ sent'[t][p] \in Seq(Asked(p))
               /\ DOMAIN sent[t][p] \subseteq DOMAIN sent'[t][p]
               /\ Len(sent[t][p]) <= Len(sent'[t][p])
               /\ \A j \in DOMAIN sent[t][p] : sent'[t][p][j] = sent[t][p][j]
               /\ \A j \in DOMAIN sent'[t][p] : j \notin DOMAIN sent[t][p] =>
                    /\ sent'[t][p][j] = q /\ j = Len(sent[t][p]) + 1
                    /\ q.op = "insert" => q.key \in fresh
    <2>1. CASE sent'[t][p] = sent[t][p]
      BY <1>5, <1>6, <2>1
    <2>2. CASE sent'[t][p] = Append(sent[t][p], q) /\ p = Partition(q.key) /\ Routed(q)
      <3>1. q \in Asked(p) /\ (q.op = "insert" => q.key \in fresh)
        BY <1>3, <2>2, RoutedTo
      <3> DEFINE s == sent[t][p]
                 A == Asked(p)
      <3>2. s \in Seq(A) /\ q \in A
        BY <1>5, <3>1
      <3> HIDE DEF s, A
      <3>3. /\ Append(s, q) \in Seq(A) /\ Len(Append(s, q)) = Len(s) + 1 /\ Len(s) \in Nat
            /\ DOMAIN Append(s, q) = 1 .. Len(s) + 1 /\ DOMAIN s = 1 .. Len(s)
            /\ \A j \in 1 .. Len(s) : Append(s, q)[j] = s[j]
            /\ Append(s, q)[Len(s) + 1] = q
        BY <3>2
      <3>4. \A j \in 1 .. Len(s) + 1 : j \notin 1 .. Len(s) => j = Len(s) + 1
        BY <3>3
      <3>5. 1 .. Len(s) \subseteq 1 .. Len(s) + 1 /\ Len(s) <= Len(s) + 1
        BY <3>3
      <3> QED BY <2>2, <3>1, <3>3, <3>4, <3>5 DEF s, A
    <2> QED BY <1>7, <2>1, <2>2
  <1>9. Total' = Total /\ \A p : Asked(p)' = Asked(p)
    BY <1>1 DEF Total, Asked
  <1>10. Shapes'
    <2>1. Bounds' /\ DOMAIN pc' = Thread
      BY <1>1, <1>3 DEF Shapes, Bounds
    <2>2. \A t \in Thread : DOMAIN sent'[t] = Part /\ \A p \in Part : sent'[t][p] \in Seq(Asked(p)')
      BY <1>7, <1>8, <1>9, Zenon
    <2>3. done' \in [Thread -> [Part -> Nat]] /\ DOMAIN ret' = Thread /\ DOMAIN rows' = Thread
      BY <1>1, <1>3 DEF Shapes
    <2>4. ASSUME NEW t \in Thread, NEW p \in Part PROVE done'[t][p] <= Len(sent'[t][p])
      <3>1. done'[t][p] = done[t][p] /\ done[t][p] \in Nat
        BY <1>1, <1>6
      <3>2. Len(sent'[t][p]) \in Nat
        BY <1>8
      <3> QED BY <1>6, <1>8, <3>1, <3>2
    <2>5. \A k \in fresh' : k \in Nat /\ k % 3 # 0
      BY <1>2, <1>3 DEF Shapes
    <2>6. /\ \A t \in Thread : order'[t] \in Bijection(Part, Part)
          /\ pages' \in [0 .. Total' \div IL -> Seq(Nat)] /\ DOMAIN trees' = Part
      BY <1>1, <1>3, <1>9 DEF Shapes
    <2> QED BY <1>7, <2>1, <2>2, <2>3, <2>4, <2>5, <2>6 DEF Shapes
  <1>11. Once'
    <2>1. ASSUME NEW t \in Thread, NEW u \in Thread, NEW p \in Part, NEW r \in Part,
                 NEW j \in DOMAIN sent'[t][p], NEW k \in DOMAIN sent'[u][r],
                 sent'[t][p][j].op = "insert", sent'[u][r][k].op = "insert",
                 sent'[t][p][j].key = sent'[u][r][k].key
          PROVE  t = u /\ p = r /\ j = k
      <3>1. CASE j \in DOMAIN sent[t][p] /\ k \in DOMAIN sent[u][r]
        <4>1. sent'[t][p][j] = sent[t][p][j] /\ sent'[u][r][k] = sent[u][r][k]
          BY <1>8, <3>1
        <4> QED BY <2>1, <3>1, <4>1 DEF QueryInv, Once
      <3>2. CASE j \notin DOMAIN sent[t][p] /\ k \in DOMAIN sent[u][r]
        <4>1. sent'[t][p][j] = q /\ q.key \in fresh /\ sent'[u][r][k] = sent[u][r][k]
          BY <1>8, <2>1, <3>2
        <4> QED BY <2>1, <3>2, <4>1 DEF QueryInv, Once
      <3>3. CASE j \in DOMAIN sent[t][p] /\ k \notin DOMAIN sent[u][r]
        <4>1. sent'[u][r][k] = q /\ q.key \in fresh /\ sent'[t][p][j] = sent[t][p][j]
          BY <1>8, <2>1, <3>3
        <4> QED BY <2>1, <3>3, <4>1 DEF QueryInv, Once
      <3>4. CASE j \notin DOMAIN sent[t][p] /\ k \notin DOMAIN sent[u][r]
        <4>1. sent'[t][p] # sent[t][p] /\ sent'[u][r] # sent[u][r]
          BY <3>4
        <4>2. t = u /\ p = r
          BY <1>7, <4>1
        <4>3. j = Len(sent[t][p]) + 1 /\ k = Len(sent[u][r]) + 1
          BY <1>8, <3>4
        <4> QED BY <4>2, <4>3
      <3> QED BY <3>1, <3>2, <3>3, <3>4
    <2>2. ASSUME NEW t \in Thread, NEW p \in Part, NEW j \in DOMAIN sent'[t][p], sent'[t][p][j].op = "insert"
          PROVE  sent'[t][p][j].key \notin fresh'
      <3>1. CASE j \in DOMAIN sent[t][p]
        <4>1. sent'[t][p][j] = sent[t][p][j]
          BY <1>8, <3>1
        <4> QED BY <1>2, <2>2, <3>1, <4>1 DEF QueryInv, Once
      <3>2. CASE j \notin DOMAIN sent[t][p]
        BY <1>2, <1>8, <3>2
      <3> QED BY <3>1, <3>2
    <2> QED BY <2>1, <2>2 DEF Once
  <1>12. Landings'
    <2>1. \A k : (Absent(k)' <=> Absent(k)) /\ (Landed(k)' <=> Landed(k))
      BY <1>1, SameMeaning
    <2>2. \A k \in fresh' : Absent(k)'
      BY <1>2, <2>1 DEF QueryInv, Landings
    <2>3. ASSUME NEW t \in Thread, NEW p \in Part, NEW j \in DOMAIN sent'[t][p], sent'[t][p][j].op = "insert",
                 NEW k, k = sent'[t][p][j].key
          PROVE  IF j <= done'[t][p] THEN Landed(k)' ELSE Absent(k)'
      <3>1. CASE j \in DOMAIN sent[t][p]
        <4>1. sent'[t][p][j] = sent[t][p][j]
          BY <1>8, <3>1
        <4>2. IF j <= done[t][p] THEN Landed(k) ELSE Absent(k)
          BY <2>3, <3>1, <4>1 DEF QueryInv, Landings
        <4> QED BY <1>1, <2>1, <4>2
      <3>2. CASE j \notin DOMAIN sent[t][p]
        <4>1. k \in fresh /\ j = Len(sent[t][p]) + 1
          BY <1>8, <2>3, <3>2
        <4>2. ~(j <= done'[t][p])
          BY <1>1, <1>6, <4>1
        <4>3. Absent(k)
          BY <4>1 DEF QueryInv, Landings
        <4> QED BY <2>1, <4>2, <4>3
      <3> QED BY <3>1, <3>2
    <2> QED BY <2>2, <2>3 DEF Landings
  <1>13. Overflows'
    <2>1. \A k : FullPage(k)' <=> FullPage(k)
      BY <1>1, SameMeaning
    <2>2. \A p : Seeds(p)' = Seeds(p)
      BY <1>1 DEF Seeds, PartialTotal, Total
    <2>3. \A t \in Thread : \A p \in Part : ~At(t, p, "overflow", "insert")'
      BY <1>1, <1>4 DEF At
    <2> QED BY <1>1, <2>1, <2>2, <2>3 DEF QueryInv, Overflows
  <1>14. PagesInOrder'
    BY <1>1 DEF QueryInv, PagesInOrder
  <1>15. Rested' /\ Waiting'
    BY <1>1, <1>4 DEF QueryInv, Rested, Waiting, At
  <1> QED BY <1>10, <1>11, <1>12, <1>13, <1>14, <1>15 DEF QueryInv
-----------------------------------------------------------------------------
(* What holds all along.                                                   *)

LEMMA QueryStep == QueryInv /\ [Next]_vars => QueryInv'
  <1> SUFFICES ASSUME QueryInv, [Next]_vars PROVE QueryInv'
    OBVIOUS
  <1>1. OwnInv'
    BY OwnStep DEF QueryInv
  <1>2. CASE Draw BY <1>1, <1>2, DrawHolds
  <1>3. ASSUME NEW t \in Thread, Step(t) PROVE QueryInv'
    BY <1>1, <1>3, LaunchFetchFinish, GetHitKeeps, GetPageKeeps, GetTreeKeeps, GetFallbackKeeps,
       InsertKeeps, InsertOverflowKeeps, ScanKeeps DEF Step
  <1>4. CASE UNCHANGED vars
    <2>1. \A k : (Absent(k)' <=> Absent(k)) /\ (Landed(k)' <=> Landed(k)) /\ (FullPage(k)' <=> FullPage(k))
      BY <1>4, SameMeaning DEF vars
    <2>2. UNCHANGED <<mode, pure, rest, drawn, fresh, pages, trees, lock, dpu, order, pc, sent, recv, done, ret, rows>>
      BY <1>4 DEF vars
    <2>3. /\ \A p : Seeds(p)' = Seeds(p) /\ Asked(p)' = Asked(p)
          /\ Total' = Total /\ PartialTotal' = PartialTotal
      BY <2>2 DEF Seeds, PartialTotal, Total, Asked
    <2>4. \A t \in Thread : /\ Open(t)' = Open(t)
                            /\ \A p \in Part : /\ InTurn(t, p)' <=> InTurn(t, p)
                                               /\ Task(t, p)' = Task(t, p)
                                               /\ Pos(t, p)' = Pos(t, p)
                                               /\ Places(t, p)' = Places(t, p)
                                               /\ Hit(Pos(t, p), Task(t, p).key)' <=> Hit(Pos(t, p), Task(t, p).key)
      BY <2>2, SameTask, SamePlaces
    <2>5. Shapes' /\ Once'
      <3>1. \A t \in Thread : DOMAIN sent'[t] = Part /\ \A p \in Part : sent'[t][p] \in Seq(Asked(p)')
        BY <2>2, <2>3, Zenon DEF QueryInv, Shapes
      <3> QED BY <2>2, <2>3, <3>1 DEF QueryInv, Shapes, Bounds, Once
    <2>6. Landings'
      BY <2>1, <2>2 DEF QueryInv, Landings
    <2>7. Overflows'
      BY <2>1, <2>2, <2>3, <2>4 DEF QueryInv, Overflows, At
    <2>8. PagesInOrder'
      BY <2>2 DEF QueryInv, PagesInOrder
    <2>9. Rested' /\ Waiting'
      BY <2>2, <2>3, <2>4 DEF QueryInv, Rested, Waiting, At
    <2> QED BY <1>1, <2>5, <2>6, <2>7, <2>8, <2>9 DEF QueryInv
  <1> QED BY <1>2, <1>3, <1>4 DEF Next

LEMMA QueryInvHolds == Spec => []QueryInv
  BY InitHolds, QueryStep, PTL DEF Spec

\* A page holds at most BUF_SIZE keys, those of its own interval and in order,
\* whatever threads insert into it.
THEOREM PagesStayInOrder == Spec => []PagesInOrder
  <1>1. QueryInv => PagesInOrder
    BY DEF QueryInv
  <1> QED BY QueryInvHolds, <1>1, PTL

\* A key goes to a tree only behind a full page.
THEOREM TreeBehindFullPage == Spec => []FullBeforeTree
  <1>1. QueryInv => FullBeforeTree
    <2> SUFFICES ASSUME QueryInv, NEW p \in Part, NEW k \in trees[p] \ Seeds(p)
                 PROVE  Len(pages[Max({i \in 0 .. PartialTotal - 1 : Partial(i) <= k})]) = BufSize[mode]
      BY DEF FullBeforeTree
    <2>1. FullPage(k) /\ Bounds /\ DOMAIN pages = 0 .. Total \div IL
      BY DEF QueryInv, Overflows, Shapes
    <2>2. PICK i \in DOMAIN pages : Fits(i, k) /\ Len(pages[i]) = BufSize[mode]
      BY <2>1 DEF FullPage
    <2>3. i \in Nat /\ k \in Int
      BY <2>1, <2>2 DEF FullPage
    <2>4. Max({x \in 0 .. PartialTotal - 1 : Partial(x) <= k}) = i
      BY <2>1, <2>2, <2>3, FitsLargest
    <2> QED BY <2>2, <2>4
  <1> QED BY QueryInvHolds, <1>1, PTL

\* When all is done, every insert is in one page or one tree, and in one only,
\* or it is one of those the code drops.
THEOREM EveryInsertLands == Spec => []InsertsLand
  <1>1. QueryInv => InsertsLand
    <2> SUFFICES ASSUME QueryInv, AllDone, NEW k \in Inserted
                 PROVE  Cardinality(Stored(k)) + Cardinality(Behind(k)) = IF Lost(k) THEN 0 ELSE 1
      BY DEF InsertsLand
    <2>1. PICK t \in Thread, p \in Part : \E q \in Range(sent[t][p]) : q.op = "insert" /\ q.key = k
      BY DEF Inserted
    <2>2. PICK j \in DOMAIN sent[t][p] : sent[t][p][j].op = "insert" /\ sent[t][p][j].key = k
      BY <2>1 DEF Range
    <2>3. /\ sent[t][p] \in Seq(Asked(p)) /\ done[t][p] \in Nat /\ Open(t) = {}
          /\ recv[t] = Answers(sent[t])
      BY DEF QueryInv, Shapes, Rested, AllDone, OwnInv, OwnOf
    <2>4. mode \in {"insert", "mix"}
      BY <2>2, <2>3 DEF Asked
    <2>5. j \in 1 .. Len(sent[t][p]) /\ Len(sent[t][p]) \in Nat
      BY <2>2, <2>3
    <2>6. Len(recv[t][p]) = Len(sent[t][p])
      <3>1. recv[t][p] = [i \in DOMAIN sent[t][p] |-> Answer(p, sent[t][p][i].key)]
        BY <2>3 DEF Answers
      <3>2. DOMAIN sent[t][p] = 1 .. Len(sent[t][p])
        BY <2>3
      <3> QED BY <2>5, <3>1, <3>2
    <2>7. j <= done[t][p]
      <3>1. ~(done[t][p] < Len(sent[t][p]))
        BY <2>3, <2>4, <2>6 DEF Open, Tasks
      <3> QED BY <2>3, <2>5, <3>1
    <2>8. Landed(k)
      BY <2>2, <2>7 DEF QueryInv, Landings
    <2>9. CASE Lost(k)
      <3>1. Stored(k) = {} /\ Behind(k) = {}
        BY <2>8, <2>9 DEF Landed, Absent
      <3> QED BY <2>9, <3>1, FS_EmptySet
    <2>10. ASSUME NEW i, Stored(k) = {i}, Behind(k) = {}, ~Lost(k)
           PROVE  Cardinality(Stored(k)) + Cardinality(Behind(k)) = 1
      <3>1. Cardinality({i}) = 1 /\ Cardinality({}) = 0
        BY FS_Singleton, FS_EmptySet
      <3> QED BY <2>10, <3>1
    <2>11. ASSUME NEW i, Stored(k) = {}, Behind(k) = {i}, ~Lost(k)
           PROVE  Cardinality(Stored(k)) + Cardinality(Behind(k)) = 1
      <3>1. Cardinality({i}) = 1 /\ Cardinality({}) = 0
        BY FS_Singleton, FS_EmptySet
      <3> QED BY <2>11, <3>1
    <2> QED BY <2>8, <2>9, <2>10, <2>11 DEF Landed
  <1> QED BY QueryInvHolds, <1>1, PTL
-----------------------------------------------------------------------------
(* What a query returns.                                                   *)

\* A task is worked off by an action of its own thread.
LEMMA WhoFinishes ==
  ASSUME QueryInv, Next, NEW t \in Thread, NEW p \in Part, Finishing(t, p)
  PROVE  /\ Advance(t, p)
         /\ \/ GetHit(t, p) \/ GetPage(t, p) \/ GetTree(t, p) \/ GetFallback(t, p)
            \/ Insert(t, p) \/ InsertOverflow(t, p) \/ Scan(t, p)
  <1>1. done'[t][p] # done[t][p] /\ done \in [Thread -> [Part -> Nat]]
    BY DEF Finishing, QueryInv, Shapes
  <1>2. PICK u \in Thread : Step(u)
    BY <1>1 DEF Next, Draw, vars
  <1>3. PICK r \in Part : \/ GetHit(u, r) \/ GetPage(u, r) \/ GetTree(u, r) \/ GetFallback(u, r)
                          \/ Insert(u, r) \/ InsertOverflow(u, r) \/ Scan(u, r)
    BY <1>1, <1>2 DEF Step, Launch, Fetch, Finish
  <1>4. UNCHANGED done \/ Advance(u, r)
    BY <1>3 DEF GetHit, GetPage, GetTree, GetFallback, Insert, InsertOverflow, Scan
  <1>5. Advance(u, r)
    BY <1>1, <1>4
  <1>6. u = t /\ r = p
    BY <1>1, <1>5 DEF Advance
  <1> QED BY <1>3, <1>5, <1>6

LEMMA GetOutcome ==
  ASSUME QueryInv, Next, NEW t \in Thread, NEW p \in Part,
         Finishing(t, p), Task(t, p).op = "get", Task(t, p).key \in Loaded
  PROVE  LET key  == Task(t, p).key
             last == key >= Partial(p * N + N - 1)
         IN  ~(last /\ (mode = "mix" \/ p * N + N = PartialTotal)) => ret'[t] = key
  <1> DEFINE key == Task(t, p).key
  <1>1. /\ Advance(t, p)
        /\ GetHit(t, p) \/ GetPage(t, p) \/ GetTree(t, p) \/ GetFallback(t, p)
    <2>1. ~Insert(t, p) /\ ~InsertOverflow(t, p) /\ ~Scan(t, p)
      BY DEF Insert, InsertOverflow, Scan, At
    <2> QED BY <2>1, WhoFinishes
  <1>2. Active(t, p) /\ DOMAIN ret = Thread /\ DOMAIN pc = Thread /\ Pos(t, p) = Answer(p, key)
        /\ Task(t, p) \in Asked(p)
    <2>1. Active(t, p)
      BY <1>1 DEF GetHit, GetPage, GetTree, GetFallback, At, Active
    <2> QED BY <2>1, Current DEF QueryInv, Shapes
  <1>3. /\ Bounds /\ key \in Nat /\ MinKey <= key /\ Partition(key) = p
        /\ Pos(t, p) = INVALID <=> Unanswered(p, key)
        /\ Pos(t, p) # INVALID =>
              \E i \in Nat : /\ i < PartialTotal - 1 /\ Pos(t, p) = i * IL /\ Pos(t, p) < Total
                             /\ Partial(i) <= key /\ key < Partial(i + 1)
    BY <1>2, CurrentGet
  <1>4. PICK y \in 0 .. Total - 1 : key = Key(y)
    BY DEF Loaded
  <1>5. \E x \in 0 .. Elements - 1 : key = Key(x)
    <2>1. key = MinKey + 1 \/ \E x \in 0 .. Elements - 1 : key = Key(x)
      BY <1>2 DEF Asked
    <2>2. key # MinKey + 1
      <3>1. Total \in Nat
        BY <1>3, Sizes
      <3> QED BY <1>4, <3>1 DEF MinKey, Key
    <2> QED BY <2>1, <2>2
  <1> HIDE DEF key
  <1>6. Pos(t, p) # INVALID => Hit(Pos(t, p), key)
    BY <1>3, <1>4, HitIs
  <1>7. CASE GetHit(t, p)
    <2>1. ret'[t] = key /\ Pos(t, p) # INVALID
      BY <1>2, <1>7 DEF GetHit, Return, key
    <2> QED BY <1>3, <2>1 DEF Unanswered, key
  <1>8. ~(Hit(Pos(t, p), key)) => Pos(t, p) >= Total
    <2>1. Total \in Nat /\ Total < INVALID /\ INVALID \in Nat
      BY <1>3, Sizes DEF INVALID
    <2> QED BY <1>6, <2>1
  <1>9. CASE GetPage(t, p)
    <2>1. ~Hit(Pos(t, p), key) /\ pc'[t] = "work"
      BY <1>1, <1>2, <1>9 DEF GetPage, Advance, key
    <2>2. pc'[t] = "fallback"
      BY <1>2, <1>8, <1>9, <2>1 DEF GetPage
    <2> QED BY <2>1, <2>2
  <1>10. CASE GetTree(t, p)
    <2>1. ~Hit(Pos(t, p), key) /\ Pos(t, p) < Total
      BY <1>10 DEF GetTree, QueryInv, Waiting, At, key
    <2>2. Total \in Nat /\ Total < INVALID /\ INVALID \in Int
      BY <1>3, Sizes DEF INVALID
    <2> QED BY <1>6, <2>1, <2>2
  <1>11. CASE GetFallback(t, p)
    <2> DEFINE off == Fallback(key)
    <2>1. /\ At(t, p, "fallback", "get")
          /\ IF Hit(off * IL, key)
             THEN ret' = [ret EXCEPT ![t] = IF mode = "mix" /\ Pos(t, p) = INVALID THEN Wild ELSE key]
             ELSE Pos(t, p) < Total \/ ret' = ret
      BY <1>11 DEF GetFallback, Return, key
    <2>2. ~Hit(Pos(t, p), key)
      BY <2>1 DEF QueryInv, Waiting, key
    <2>3. Pos(t, p) = INVALID /\ Unanswered(p, key) /\ ~(Pos(t, p) < Total)
      <3>1. Total \in Nat /\ Total < INVALID /\ INVALID \in Int
        BY <1>3, Sizes DEF INVALID
      <3> QED BY <1>3, <1>6, <2>2, <3>1
    <2>4. CASE p * N + N = PartialTotal
      BY <2>3, <2>4 DEF Unanswered, key
    <2>5. CASE p * N + N # PartialTotal
      <3>1. Hit(off * IL, key)
        BY <1>3, <1>5, <2>3, <2>5, FallbackFinds
      <3>2. ret'[t] = IF mode = "mix" THEN Wild ELSE key
        BY <1>2, <2>1, <2>3, <3>1
      <3>3. Wild # key
        BY <1>3 DEF Wild
      <3> QED BY <2>3, <2>5, <3>2, <3>3 DEF Unanswered, key
    <2> QED BY <2>4, <2>5
  <1> QED BY <1>1, <1>7, <1>9, <1>10, <1>11

\* A GET of a loaded key returns its payload, in whatever order the threads are
\* served, except behind the last partial key of a partition in MIX, and behind
\* the last one of all.
THEOREM GetsReturnTheirPayload == Spec => GetsOwnPayload
  <1>1. QueryInv /\ [Next]_vars =>
          [\A t \in Thread, p \in Part :
             Finishing(t, p) /\ Task(t, p).op = "get" /\ Task(t, p).key \in Loaded =>
               LET key  == Task(t, p).key
                   last == key >= Partial(p * N + N - 1)
               IN  ~(last /\ (mode = "mix" \/ p * N + N = PartialTotal)) => ret'[t] = key]_vars
    BY GetOutcome
  <1> QED BY QueryInvHolds, <1>1, PTL DEF Spec, GetsOwnPayload

LEMMA ScanOutcome ==
  ASSUME QueryInv, Next, NEW t \in Thread, NEW p \in Part,
         Finishing(t, p), Task(t, p).op = "scan", Pos(t, p) # INVALID
  PROVE  LET q == Task(t, p)
             i == CHOOSE e \in 0 .. Total - 1 : Key(e) = q.key
             e == Key(Min({i + ScanLength, Elements - 1}))
         IN  /\ i % IL # 0 => rows'[t] = {}
             /\ i % IL = 0 /\ e < Width => rows'[t] = {k \in Loaded : q.key <= k /\ k < e}
  <1> DEFINE q == Task(t, p)
  <1>1. Scan(t, p)
    <2>1. ~Insert(t, p) /\ ~InsertOverflow(t, p) /\ ~GetHit(t, p) /\ ~GetPage(t, p)
          /\ ~GetTree(t, p) /\ ~GetFallback(t, p)
      BY DEF Insert, InsertOverflow, GetHit, GetPage, GetTree, GetFallback, At
    <2> QED BY <2>1, WhoFinishes
  <1>2. Active(t, p) /\ DOMAIN rows = Thread
    BY <1>1 DEF Scan, At, Active, QueryInv, Shapes
  <1>3. /\ Bounds /\ q.key \in Nat
        /\ \E i \in Nat : /\ Pos(t, p) = i * IL /\ Pos(t, p) < Total
                          /\ Partial(i) <= q.key /\ q.key < Partial(i + 1)
    BY <1>2, CurrentGet
  <1>4. PICK x \in 0 .. Elements - 1 :
          q.key = Key(x) /\ q.end = Key(Min({x + ScanLength, Elements - 1})) % Width
    <2>1. q \in Asked(p)
      BY <1>2, Current DEF QueryInv
    <2> QED BY <2>1 DEF Asked
  <1>5. rows'[t] = {Key(i) : i \in Taken(q, Pos(t, p))}
    BY <1>1, <1>2 DEF Scan
  <1> DEFINE pos == Pos(t, p)
             e == Key(Min({x + ScanLength, Elements - 1}))
  <1> HIDE DEF q, pos
  <1>6. /\ IL \in Nat /\ IL >= 1 /\ Total \in Nat /\ Elements \in Nat /\ Elements <= Total
        /\ ScanLength \in Nat /\ Width \in Nat /\ Width >= 1
    BY <1>3, Sizes, QuerysAssumption, BoundsAssumption
  <1>7. x \in Nat /\ x < Total /\ (CHOOSE i \in 0 .. Total - 1 : Key(i) = q.key) = x
    <2>1. x \in 0 .. Total - 1
      BY <1>6
    <2>2. \A i \in 0 .. Total - 1 : Key(i) = Key(x) => i = x
      BY <1>6, <2>1 DEF Key
    <2> QED BY <1>4, <1>6, <2>1, <2>2
  \* The DPU answers with the first position of the interval.
  <1>8. PICK m \in Nat : pos = m * IL /\ m * IL \in Nat /\ m * IL <= x /\ x < m * IL + IL
    <2>1. PICK m \in Nat : pos = m * IL /\ Partial(m) <= q.key /\ q.key < Partial(m + 1)
      BY <1>3 DEF pos
    <2>2. m * IL \in Nat /\ (m + 1) * IL = m * IL + IL
      BY <1>6, <2>1
    <2>3. Partial(m) = 3 * (m * IL + 1) /\ Partial(m + 1) = 3 * (m * IL + IL + 1) /\ q.key = 3 * (x + 1)
      BY <1>4, <2>2 DEF Partial, Key
    <2> DEFINE w == m * IL
    <2> HIDE DEF w
    <2>4. w <= x /\ x < w + IL
      BY <1>6, <1>7, <2>1, <2>2, <2>3 DEF w
    <2> QED BY <2>1, <2>2, <2>4 DEF w
  <1>9. x % IL = x - m * IL
    <2>1. x \div IL = m
      BY <1>6, <1>7, <1>8, Quotient
    <2>2. x % IL = x - IL * (x \div IL)
      BY <1>6, <1>7
    <2>3. IL * m = m * IL
      BY <1>6
    <2> QED BY <2>1, <2>2, <2>3
  <1>10. ASSUME x % IL # 0 PROVE rows'[t] = {}
    <2>1. pos < x /\ pos \in Nat
      BY <1>7, <1>8, <1>9, <1>10
    <2>2. ~(q.key <= Key(pos))
      BY <1>4, <1>7, <2>1 DEF Key
    <2>3. Taken(q, pos) = {}
      <3>1. \A i \in pos .. Total - 1 : pos \in pos .. i
        BY <1>6, <2>1
      <3> QED BY <2>2, <3>1 DEF Taken
    <2> QED BY <1>5, <2>3 DEF pos
  <1>11. ASSUME x % IL = 0, e < Width PROVE rows'[t] = {k \in Loaded : q.key <= k /\ k < e}
    <2>1. pos = x
      BY <1>7, <1>8, <1>9, <1>11
    <2>2. e \in Int /\ e >= 0
      <3>1. x + ScanLength \in Int /\ Elements - 1 \in Int
        BY <1>6, <1>7
      <3>2. Min({x + ScanLength, Elements - 1}) \in Int /\ Min({x + ScanLength, Elements - 1}) >= 0
        BY <1>6, <1>7, <3>1, SmallerOne
      <3> DEFINE n == Min({x + ScanLength, Elements - 1})
      <3> HIDE DEF n
      <3>3. Key(n) \in Int /\ Key(n) >= 0
        BY <3>2 DEF n, Key
      <3> QED BY <3>3 DEF n
    <2>3. q.end = e
      <3> HIDE DEF e
      <3>1. e % Width = e
        BY <1>6, <1>11, <2>2
      <3> QED BY <1>4, <3>1 DEF e
    <2> HIDE DEF e
    <2>4. ASSUME NEW i \in x .. Total - 1
          PROVE  (\A j \in x .. i : q.key <= Key(j) /\ Key(j) < q.end) <=> Key(i) < e
      <3>1. i \in x .. i /\ i \in Int
        BY <1>6, <1>7
      <3>2. \A j \in x .. i : q.key <= Key(j) /\ Key(j) <= Key(i) /\ Key(j) \in Int /\ Key(i) \in Int
        BY <1>4, <1>7, <3>1 DEF Key
      <3>3. ASSUME Key(i) < e, NEW j \in x .. i PROVE q.key <= Key(j) /\ Key(j) < q.end
        BY <2>2, <2>3, <3>2, <3>3
      <3> QED BY <2>3, <3>1, <3>3
    <2>5. Taken(q, pos) = {i \in x .. Total - 1 : Key(i) < e}
      BY <2>1, <2>4 DEF Taken
    <2>6. \A i \in 0 .. Total - 1 : q.key <= Key(i) <=> i \in x .. Total - 1
      BY <1>4, <1>6, <1>7 DEF Key
    <2>7. x .. Total - 1 \subseteq 0 .. Total - 1
      BY <1>6, <1>7
    <2>8. {Key(i) : i \in {i \in x .. Total - 1 : Key(i) < e}} = {k \in Loaded : q.key <= k /\ k < e}
      BY <2>6, <2>7 DEF Loaded
    <2> QED BY <1>5, <2>5, <2>8 DEF pos
  <1> QED BY <1>7, <1>10, <1>11 DEF q

\* A scan the DPU has a position for returns what lies in its range, if it starts
\* at the first key of an interval and its end key fits in 32 bits, and nothing if
\* it starts within an interval.
THEOREM ScansReturnTheirRange == Spec => ScanExact
  <1>1. QueryInv /\ [Next]_vars =>
          [\A t \in Thread, p \in Part :
             Finishing(t, p) /\ Task(t, p).op = "scan" /\ Pos(t, p) # INVALID =>
               LET q == Task(t, p)
                   i == CHOOSE e \in 0 .. Total - 1 : Key(e) = q.key
                   e == Key(Min({i + ScanLength, Elements - 1}))
               IN  /\ i % IL # 0 => rows'[t] = {}
                   /\ i % IL = 0 /\ e < Width => rows'[t] = {k \in Loaded : q.key <= k /\ k < e}]_vars
    BY ScanOutcome
  <1> QED BY QueryInvHolds, <1>1, PTL DEF Spec, ScanExact
=============================================================================
