----------------------------- MODULE DpuKernel ------------------------------
(***************************************************************************)
(* The program of one DPU, main_kernel1 in dpu/task.c, and the launches of *)
(* the host that give it work: INIT (op 0), the position search (op 1) and *)
(* the search of the overflow entries (op 2).  NR_TASKLETS tasklets share  *)
(* a launch: each cuts its slice out of the n queries, and barriers        *)
(* separate the launch from the work and the work from the end.            *)
(*                                                                         *)
(* The learned models are external: a segment predicts the position of a   *)
(* key it is responsible for up to an error, and of other keys anything.   *)
(* Blocks of queries are read ahead; what is read is what the send buffer  *)
(* holds during the whole launch.                                          *)
(***************************************************************************)
EXTENDS Integers, Sequences, FiniteSetsExt

CONSTANTS NT,              \* NR_TASKLETS
          Cap,             \* MAX_BUFFER_SIZE
          S,               \* input_size
          StartPos,        \* start_pos
          MaxKey,          \* bound: the largest key
          Levels,          \* per PGM level, the first keys of its segments
          Epsilons,        \* the values of setEpsilon
          EpsRec,          \* EpsilonRecursive_dpu
          AccessCost,      \* access_wram_cost
          PredictionCost,  \* prediction_cost
          Overflows,       \* the lists of overflow entries the host pushes
          Firsts,          \* bound: the queries a batch may begin with
          Launches         \* bound: launches after INIT

ASSUME NTAssumption  == NT \in Nat \ {0}
ASSUME CapAssumption == Cap \in Nat /\ Cap % 2 = 0
ASSUME EpsAssumption == EpsRec \in Nat /\ Epsilons \subseteq Nat \ {0}
ASSUME CostAssumption == AccessCost \in Nat /\ PredictionCost \in Nat
ASSUME SAssumption   == S \in Nat \ {0} /\ MaxKey \in Nat /\ MaxKey >= 2 * S /\ Firsts \subseteq Nat

\* Every level starts with the first key of the partition and rises, and the
\* top level is one segment.  Overflow entries rise, too.
Rising(q) == \A i, j \in DOMAIN q : i < j => q[i] < q[j]
ASSUME LevelsAssumption ==
  /\ Levels \in Seq(Seq(2 .. MaxKey)) /\ Levels # <<>> /\ Len(Levels[Len(Levels)]) = 1
  /\ \A l \in DOMAIN Levels : Levels[l] # <<>> /\ Levels[l][1] = 2 /\ Rising(Levels[l])
ASSUME OverflowsAssumption == Overflows \subseteq Seq(Nat) /\ \A q \in Overflows : Rising(q)

Tasklets == 0 .. NT - 1
Slots    == 0 .. Cap - 1
INVALID  == -1
MaxOf(a, b) == Max({a, b})
MinOf(a, b) == Min({a, b})

\* The keys of the partition, and the queries that are routed to it.
Keys    == [i \in -1 .. S - 1 |-> 2 * (i + 1)]
Queries == 2 .. MaxKey

VARIABLES eps,          \* setEpsilon
          startLevel,   \* start_level
          entries,      \* dpu_overflow_keys, overflow_len of them
          op,           \* op_type
          n,            \* n_tasks
          sbuffer,      \* dpu_sbuffer
          rbuffer,      \* dpu_recv_buffer
          recvN,        \* its n_tasks
          obuffer,      \* dpu_overflow_recv_buffer
          orecvN,       \* its n_tasks
          pc,           \* where each tasklet is
          cur,          \* current_mram_query
          left,         \* total_ops still to do
          pair,         \* temp_pos
          launched      \* launches begun

state   == <<eps, startLevel, entries>>
request == <<op, n, sbuffer, launched>>
result  == <<rbuffer, recvN>>
oresult == <<obuffer, orecvN>>
regs    == <<cur, left, pair>>
vars    == <<state, request, result, oresult, pc, regs>>

Set(t, label) == pc' = [pc EXCEPT ![t] = label]

-----------------------------------------------------------------------------
(* The position search.                                                    *)

\* level_offset and model_array: the levels one after the other, each with a
\* sentinel segment behind it.
Infinity   == MaxKey + 1
Offset[l \in 0 .. Len(Levels)] == IF l = 0 THEN 0 ELSE Offset[l - 1] + Len(Levels[l]) + 1
LevelOf(j) == CHOOSE l \in 1 .. Len(Levels) : Offset[l - 1] <= j /\ j < Offset[l]
SegmentKey == [j \in 0 .. Offset[Len(Levels)] - 1 |->
                 LET l == LevelOf(j) IN Append(Levels[l], Infinity)[j - Offset[l - 1] + 1]]

\* FastLog2: the exponent of the float.
FastLog2(x) == Max({e \in 0 .. x : 2 ^ e <= x})

\* INIT: the levels that are too large to be bisected are skipped.
TooLarge(level, e) ==
  AccessCost * FastLog2(Offset[level + 1] - Offset[level])
    > PredictionCost + AccessCost * FastLog2(2 * e)
StartLevel(e) == Min({l \in 0 .. Len(Levels) : l = Len(Levels) \/ ~TooLarge(l, e)})

\* The first position in lo .. hi whose value is above the key.
Bisect(f, lo, hi, key) ==
  LET b[w \in (lo .. hi) \X (lo .. hi)] ==
        LET m == w[1] + (w[2] - w[1]) \div 2
        IN  IF w[1] >= w[2] THEN w[1]
            ELSE IF f[m] <= key THEN b[<<m + 1, w[2]>>] ELSE b[<<w[1], m>>]
  IN  IF lo < hi THEN b[<<lo, hi>>] ELSE lo

\* The segment of a level that is responsible for a key.
Responsible(level, key) ==
  Max({j \in Offset[level] .. Offset[level + 1] - 1 : SegmentKey[j] <= key})

\* What a segment of a level above predicts, on the level below.
Guesses(level, j, key) ==
  IF j = Responsible(level + 1, key)
  THEN LET i == Responsible(level, key) - Offset[level]
       IN  MaxOf(i - EpsRec, 0) .. MinOf(i + EpsRec + 1, Offset[level + 1] - 1 - Offset[level])
  ELSE 0 .. Offset[level + 1] - 1 - Offset[level]

\* The walk over the next segments, from far enough before the guess.
Walk(level, pos, key) ==
  LET lo == Offset[level] + MaxOf(pos - EpsRec - 1, 0)
  IN  Max({j \in lo .. Offset[Len(Levels)] - 1 : \A i \in lo + 1 .. j : SegmentKey[i] <= key})

\* The segments the descent may end at, from start_level to the bottom.
Segments(key) ==
  LET at[level \in 0 .. startLevel] ==
        IF level = startLevel
        THEN {Bisect(SegmentKey, Offset[level], Offset[level + 1] - 1, key) - 1}
        ELSE UNION {{Walk(level, pos, key) : pos \in Guesses(level, j, key)} : j \in at[level + 1]}
  IN  at[0]

Rank(key) == Bisect(Keys, 0, S, key)

\* The position a bottom segment predicts; intercept is that of its first key.
Intercept(j) == Rank(SegmentKey[j]) - 1
Predicted(j, key) ==
  LET cap(p) == IF j + 1 < Offset[1] - 1 THEN MinOf(p, Intercept(j + 1)) ELSE p
  IN  {cap(p) : p \in IF j = Responsible(0, key) THEN Rank(key) - 1 - eps .. Rank(key) + eps
                                                 ELSE 0 .. S}

\* The window around the prediction; one that is a key too narrow.
WindowNarrow(p) == <<MaxOf(p - eps, 0), MinOf(p + eps, S)>>
Window(p)       == <<MaxOf(p - eps, 0), MinOf(p + eps + 2, S)>>

\* The pair of keys around the end of the bisection is checked once more.
Position(l, key) ==
  IF /\ l <= S - 1
     /\ l = S - 1 \/ (Keys[l - 1] <= key /\ Keys[l] > key)
  THEN (l - 1 + StartPos) * 8 ELSE INVALID

Answers(key) ==
  {Position(Bisect(Keys, Window(p)[1], Window(p)[2], key), key) :
     p \in UNION {Predicted(j, key) : j \in Segments(key)}}

\* The overflow entry that leads a key, by the other bisection of the kernel:
\* both ends of its window are still to be searched, and -1 is none.
LastEntry(key) ==
  LET b[w \in (0 .. Len(entries)) \X (-1 .. Len(entries) - 1)] ==
        LET m == w[1] + (w[2] - w[1]) \div 2
        IN  IF w[1] > w[2] THEN w[2]
            ELSE IF entries[m + 1] > key THEN b[<<w[1], m - 1>>] ELSE b[<<m + 1, w[2]>>]
  IN  b[<<0, Len(entries) - 1>>]

\* A bisection that ends at the entry below an equal one.
LeadingBelow(key) ==
  LET r == LastEntry(key - 1) IN IF r < 0 \/ r > S - 1 THEN INVALID ELSE r + 1

\* The entries are those of the whole tree, but the position of the one found
\* is compared with the number of keys.
Leading(key) ==
  LET r == LastEntry(key) IN IF r < 0 \/ r > S - 1 THEN INVALID ELSE r + 1

-----------------------------------------------------------------------------
(* The host.                                                               *)

Idle == \A t \in Tasklets : pc[t] = "idle"

Init ==
  /\ eps \in Epsilons /\ startLevel = 0 /\ entries = <<>>
  /\ op = 0 /\ n = 0 /\ sbuffer = [i \in Slots |-> 2] /\ launched = 0
  /\ rbuffer = [i \in Slots |-> INVALID] /\ recvN = 0
  /\ obuffer = [i \in Slots |-> INVALID] /\ orecvN = 0
  /\ pc = [t \in Tasklets |-> "bar1"]
  /\ cur = [t \in Tasklets |-> 0] /\ left = [t \in Tasklets |-> 0]
  /\ pair = [t \in Tasklets |-> <<>>]

\* A launch of n queries; the rest of the send buffer is what it was.
Launch(o) ==
  /\ Idle /\ launched < Launches
  /\ launched' = launched + 1
  /\ op' = o
  /\ n' \in 0 .. Cap
  /\ \E first \in Firsts :
       sbuffer' = [i \in Slots |->
         IF i < n' THEN 2 + ((first + 3 * i) % (MaxKey - 1)) ELSE sbuffer[i]]
  /\ pc' = [t \in Tasklets |-> "bar1"]

LaunchSearch == Launch(1) /\ UNCHANGED <<state, result, oresult, regs>>

\* collect_overflow_tree_to_dpu may have pushed the entries of the tree.
LaunchOverflow ==
  /\ Launch(2)
  /\ entries' \in {entries} \cup Overflows
  /\ UNCHANGED <<eps, startLevel, result, oresult, regs>>

-----------------------------------------------------------------------------
(* A tasklet.                                                              *)

Waiting == [bar1 |-> "in1", barInit |-> "inInit", bar2 |-> "in2"]
Passing == [in1 |-> "op", inInit |-> "bar2", in2 |-> "idle"]

\* barrier_wait: the last one to come lets all of them go.
Barrier(t) ==
  /\ pc[t] \in DOMAIN Waiting
  /\ LET at == [pc EXCEPT ![t] = Waiting[@]]
     IN  pc' = IF \A u \in Tasklets : at[u] \in DOMAIN Passing
               THEN [u \in Tasklets |-> Passing[at[u]]] ELSE at
  /\ UNCHANGED <<state, request, result, oresult, regs>>

InitIndex(t) ==
  /\ pc[t] = "op" /\ op = 0
  /\ IF t = 0 THEN startLevel' = StartLevel(eps) /\ entries' = <<>>
              ELSE UNCHANGED <<startLevel, entries>>
  /\ Set(t, "barInit")
  /\ UNCHANGED <<eps, request, result, oresult, regs>>

Quota == n \div NT

SliceStartOdd(t) == t * Quota

\* A slice starts at an even slot and has an even length, so that results can
\* be written in pairs; slices may overlap.  The last one takes the rest.
SliceStart(t) == IF (t * Quota) % 2 = 0 THEN t * Quota ELSE t * Quota - 1

SliceLen(t) ==
  LET len == IF t = NT - 1 THEN n - SliceStart(t) ELSE (t + 1) * Quota - SliceStart(t)
  IN  IF len % 2 = 0 THEN len ELSE len + 1

BeginSearch(t) ==
  /\ pc[t] = "op" /\ op = 1
  /\ cur' = [cur EXCEPT ![t] = SliceStart(t)]
  /\ left' = [left EXCEPT ![t] = SliceLen(t)]
  /\ pair' = [pair EXCEPT ![t] = <<>>]
  /\ recvN' = n
  /\ Set(t, "search")
  /\ UNCHANGED <<state, request, rbuffer, oresult>>

\* One query; two positions are written with one transfer.
Search(t) ==
  /\ pc[t] = "search" /\ left[t] > 0
  /\ \E a \in Answers(sbuffer[cur[t]]) :
       IF pair[t] = <<>>
       THEN pair' = [pair EXCEPT ![t] = <<a>>] /\ UNCHANGED rbuffer
       ELSE /\ rbuffer' = [rbuffer EXCEPT ![cur[t] - 1] = pair[t][1], ![cur[t]] = a]
            /\ pair' = [pair EXCEPT ![t] = <<>>]
  /\ cur' = [cur EXCEPT ![t] = @ + 1]
  /\ left' = [left EXCEPT ![t] = @ - 1]
  /\ UNCHANGED <<state, request, recvN, oresult, pc>>

BeginOverflow(t) ==
  /\ pc[t] = "op" /\ op = 2
  /\ cur' = [cur EXCEPT ![t] = t * Quota]
  /\ left' = [left EXCEPT ![t] = IF t = NT - 1 THEN n - t * Quota ELSE Quota]
  /\ IF entries = <<>> THEN orecvN' = 0 /\ Set(t, "bar2")
                       ELSE UNCHANGED orecvN /\ Set(t, "overflow")
  /\ UNCHANGED <<state, request, result, obuffer, pair>>

SearchOverflow(t) ==
  /\ pc[t] = "overflow" /\ left[t] > 0
  /\ obuffer' = [obuffer EXCEPT ![cur[t]] = Leading(sbuffer[cur[t]])]
  /\ cur' = [cur EXCEPT ![t] = @ + 1]
  /\ left' = [left EXCEPT ![t] = @ - 1]
  /\ UNCHANGED <<state, request, result, orecvN, pc, pair>>

Done(t) ==
  /\ pc[t] \in {"search", "overflow"} /\ left[t] = 0
  /\ IF op = 2 THEN orecvN' = n ELSE UNCHANGED orecvN
  /\ Set(t, "bar2")
  /\ UNCHANGED <<state, request, result, obuffer, regs>>

Step(t) ==
  \/ Barrier(t) \/ InitIndex(t) \/ BeginSearch(t) \/ Search(t)
  \/ BeginOverflow(t) \/ SearchOverflow(t) \/ Done(t)

Finished == Idle /\ launched = Launches

Next ==
  \/ LaunchSearch \/ LaunchOverflow
  \/ \E t \in Tasklets : Step(t)
  \/ Finished /\ UNCHANGED vars

Spec == Init /\ [][Next]_vars

-----------------------------------------------------------------------------
\* When a search has ended the host finds in every slot below n the position
\* of the last key of the partition that is not above its query, times eight,
\* or INVAILD_POS for a query at or behind the last key, whatever tasklet
\* answered it and however the models erred.
Place(key) ==
  LET below == {i \in 0 .. S - 1 : Keys[i] <= key}
  IN  IF S - 1 \in below THEN INVALID ELSE (Max(below) + StartPos) * 8

SearchAnswered ==
  Idle /\ op = 1 =>
    /\ recvN = n
    /\ \A i \in 0 .. n - 1 : rbuffer[i] = Place(sbuffer[i])

\* mram_write moves eight bytes to an address that is a multiple of eight: a
\* pair of positions is only written to an even slot, inside the buffer.
PairsAligned ==
  \A t \in Tasklets :
    pc[t] = "search" => (pair[t] = <<>> <=> cur[t] % 2 = 0) /\ cur[t] + left[t] <= Cap

\* When a search of the overflow entries has ended each slot below n has the
\* number of the entry that leads its query; there is none, or, when there
\* are more entries than keys, it may be reported as none.
OverflowAnswered ==
  Idle /\ op = 2 =>
    /\ orecvN = (IF entries = <<>> THEN 0 ELSE n)
    /\ \A i \in 0 .. orecvN - 1 :
         LET leads == {j \in 1 .. Len(entries) : entries[j] <= sbuffer[i]}
         IN  IF leads = {} THEN obuffer[i] = INVALID
             ELSE \/ obuffer[i] = Max(leads)
                  \/ Len(entries) > S /\ obuffer[i] = INVALID
=============================================================================
