------------------------------ MODULE Replicas ------------------------------
(***************************************************************************)
(* The distribution of the partitions over the DPUs: bulk_load_for_dpu     *)
(* gives every partition the same number of DPUs; a warm-up routes some    *)
(* queries, calculate_partition_skew turns their counts into numbers of    *)
(* replicas, and load_hot_replica (in a merge, its copy in                 *)
(* bulk_load_for_dpu_parallel) rebuilds the routing table and pushes the   *)
(* arguments, the keys and the model of one partition to each DPU.         *)
(*                                                                         *)
(* Ratios are compared by cross-multiplication: partition_ratio is acc     *)
(* over an average that all partitions share, per_dpu_ratio is that over   *)
(* num.  std::sort leaves the order of equal ratios open.                  *)
(***************************************************************************)
EXTENDS Integers, FiniteSets, Functions, FiniteSetsExt

CONSTANTS P,        \* NR_PARTITION
          K,        \* NR_DPUS / NR_PARTITION
          Samples,  \* queries of one warm-up
          Passes    \* bound: recalculations

ASSUME PAssumption       == P \in Nat \ {0}
ASSUME KAssumption       == K \in Nat \ {0}
ASSUME SamplesAssumption == Samples \in Nat /\ Samples >= P
ASSUME PassesAssumption  == Passes \in Nat

D == K * P   \* NR_DPUS

Part == 0 .. P - 1
Dpu  == 0 .. D - 1
Kind == {"args", "keys", "model"}

VARIABLES pc,        \* where the host is
          pass,      \* recalculations begun
          taken,     \* req: queries the warm-up has routed
          access,    \* access_num
          lost,      \* queries counted in access_num[-1]
          rank,      \* record_ratio
          todo,      \* overflow_dpu_num or less_dpu_num, or loops left
          off,       \* min_available_off or max_available_off
          replicas,  \* nr_replicas_per_partition
          start,     \* start_dpu_id
          homes,     \* dpu_id_to_partition
          kind,      \* what is being pushed
          curDpu,    \* cur_dpu
          curRet,    \* cur_ret_partition
          held       \* what each DPU has received

sampling == <<pass, taken, access, lost>>
ranking  == <<rank, todo, off>>
routing  == <<replicas, start, homes>>
pushing  == <<kind, curDpu, curRet, held>>
vars     == <<pc, sampling, ranking, routing, pushing>>

\* The low bounds of the partitions; each is a key, and so is one between.
Key    == 0 .. 2 * P
Low(p) == 2 * p + 1

\* search_upper_level: bisect low_bound_key; -1 for a key below all.
Bisect(key) ==
  LET b[w \in (0 .. P) \X (0 .. P)] ==
        LET m == w[1] + (w[2] - w[1]) \div 2
        IN  IF w[1] >= w[2] THEN w[1]
            ELSE IF Low(m) <= key THEN b[<<m + 1, w[2]>>] ELSE b[<<w[1], m>>]
  IN  b[<<0, P>>] - 1

Total(f) == FoldFunction(+, 0, f)

\* The DPUs of the partitions before p.
Before(p) == FoldFunctionOnSet(+, 0, replicas, 0 .. p - 1)

Goto(label) == pc' = label

Init ==
  /\ pc = "start" /\ pass = 0
  /\ taken = 0 /\ access = [p \in Part |-> 0] /\ lost = 0
  /\ rank = [j \in Part |-> [id |-> j, acc |-> 0, num |-> 0]]
  /\ todo = 0 /\ off = 0
  /\ replicas = [p \in Part |-> K]
  /\ start = [p \in Part |-> 0]
  /\ homes = [d \in Dpu |-> 0]
  /\ kind = "args" /\ curDpu = 0 /\ curRet = 0
  /\ held = [d \in Dpu |-> [k \in Kind |-> P]]

-----------------------------------------------------------------------------
(* The warm-up.                                                            *)

\* Queries have been served; a merge or the start of main begins a warm-up.
WarmUp ==
  /\ pc = "serve" /\ pass < Passes
  /\ pass' = pass + 1
  /\ taken' = 0 /\ access' = [p \in Part |-> 0] /\ lost' = 0
  /\ Goto("sample")
  /\ UNCHANGED <<ranking, routing, pushing>>

\* One query is routed and counted.  There is no test for the first key: a
\* query below it is counted in front of the array.
Sample ==
  /\ pc = "sample" /\ taken < Samples
  /\ taken' = taken + 1
  /\ \E key \in Key :
       IF Bisect(key) \in Part
       THEN access' = [access EXCEPT ![Bisect(key)] = @ + 1] /\ UNCHANGED lost
       ELSE lost' = lost + 1 /\ UNCHANGED access
  /\ UNCHANGED <<pc, pass, ranking, routing, pushing>>

-----------------------------------------------------------------------------
(* calculate_partition_skew.                                               *)

Hotter(a, b) == a.acc * b.num > b.acc * a.num

Sorted(r) == \A i, j \in Part : i < j => ~Hotter(r[j], r[i])

\* avg_access_num, rounded down; and a version that rounds up.
AverageUp == (Samples + P) \div P
Average   == Samples \div P

\* A share without the minimum of one DPU.
ShareDown(p) == [id  |-> p,
                 acc |-> access[p],
                 num |-> (access[p] * K) \div Average]

Share(p) == [id  |-> p,
             acc |-> access[p],
             num |-> Max({(access[p] * K) \div Average, 1})]

Granted(r) == Total([j \in Part |-> r[j].num])

\* The shares, hottest per DPU first; then too many DPUs are taken back, or
\* those left over are given away.
Ratios ==
  /\ pc = "sample" /\ taken = Samples
  /\ rank' \in {[j \in Part |-> Share(f[j])] : f \in Bijection(Part, Part)}
  /\ Sorted(rank')
  /\ LET total == Granted(rank')
     IN  \/ total > D /\ Goto("shrink") /\ todo' = total - D /\ off' = P - 1
         \/ total < D /\ Goto("grow") /\ todo' = D - total /\ off' = 0
         \/ total = D /\ Goto("adjust") /\ todo' = 4 /\ off' = P - 1
  /\ UNCHANGED <<sampling, routing, pushing>>

\* Take out the record at i and put it back at k.
Move(r, i, k) ==
  [j \in Part |-> CASE j = k           -> r[i]
                    [] k < j /\ j <= i -> r[j - 1]
                    [] i <= j /\ j < k -> r[j + 1]
                    [] OTHER           -> r[j]]

\* One DPU less for the record at i, which goes before the first colder one;
\* one more, and it changes places with the first colder one or goes last.
Colder(r, i, from, to, else) ==
  Min({j \in from .. to : Hotter(r[i], r[j])} \cup {else})

Less(i) ==
  LET r == [rank EXCEPT ![i].num = @ - 1] IN Move(r, i, Colder(r, i, 0, i - 1, i))
More(r0, i) ==
  LET r == [r0 EXCEPT ![i].num = @ + 1] IN Move(r, i, Colder(r, i, i, P - 1, P - 1))

\* Take a DPU from the coldest partition that has more than one.  With none
\* left the code asserts; here the host would be stuck.
Shrink ==
  /\ pc = "shrink" /\ todo > 0
  /\ LET some == {j \in 0 .. off : rank[j].num # 1}
     IN  some # {} /\ off' = Max(some)
  /\ rank' = Less(off')
  /\ todo' = todo - 1
  /\ UNCHANGED <<pc, sampling, routing, pushing>>

\* Give a DPU to the hottest partition that has more than one.  The search
\* runs off the array when no partition has.
Grow ==
  /\ pc = "grow" /\ todo > 0
  /\ LET some == {j \in off .. P - 1 : rank[j].num # 1}
     IN  \/ some = {} /\ Goto("wild") /\ UNCHANGED ranking
         \/ /\ some # {}
            /\ off' = Min(some)
            /\ rank' = More(rank, off')
            /\ todo' = todo - 1
            /\ UNCHANGED pc
  /\ UNCHANGED <<sampling, routing, pushing>>

\* All DPUs are given away: four tries to move one to the hottest partition.
Balanced ==
  /\ pc \in {"shrink", "grow"} /\ todo = 0
  /\ todo' = 4 /\ off' = P - 1
  /\ Goto("adjust")
  /\ UNCHANGED <<rank, sampling, routing, pushing>>

\* The record at i is colder than the hottest before it gives up a DPU.
GainsBefore(i) == rank[i].num > 1 /\ rank[i].acc * rank[0].num < rank[0].acc * rank[i].num

\* With one DPU less the record at i stays colder than the hottest.
Gains(i) == rank[i].num > 1 /\ rank[i].acc * rank[0].num < rank[0].acc * (rank[i].num - 1)

\* max_dpu_num_off
MostDpus == Min({i \in Part : \A j \in Part : rank[j].num <= rank[i].num})

Giver == IF Gains(off) THEN off ELSE MostDpus

Adjust ==
  /\ pc = "adjust" /\ todo > 0
  /\ Gains(Giver)
  /\ off' = Giver
  /\ rank' = More(Less(Giver), 0)
  /\ todo' = todo - 1
  /\ UNCHANGED <<pc, sampling, routing, pushing>>

\* The records are sorted by partition and become the numbers of replicas.
Settle ==
  /\ pc = "adjust" /\ (todo = 0 \/ ~Gains(Giver))
  /\ replicas' = [p \in Part |-> rank[CHOOSE j \in Part : rank[j].id = p].num]
  /\ Goto("start")
  /\ UNCHANGED <<sampling, ranking, start, homes, pushing>>

-----------------------------------------------------------------------------
(* load_hot_replica.                                                       *)

\* get_start_dpu_id.  An entry nobody writes keeps its partition.
GetStartDpuId ==
  /\ pc = "start"
  /\ start' = [p \in Part |-> Before(p)]
  /\ homes' = [d \in Dpu |->
       LET owners == {p \in Part : Before(p) <= d /\ d < Before(p + 1)}
       IN  IF owners = {} THEN homes[d] ELSE Max(owners)]
  /\ curDpu' = 0 /\ curRet' = 0 /\ kind' = "args"
  /\ Goto("push")
  /\ UNCHANGED <<sampling, ranking, replicas, held>>

\* next_partition: the partition of the DPU at the cursor.
NextPartition == {p \in curRet .. P - 1 : curDpu < Before(p + 1)}

Following == [args |-> "keys", keys |-> "model", model |-> "model"]

\* One DPU is given its part of the transfer; a cursor behind the last
\* partition would be stuck.  The last DPU ends the transfer, and the next one
\* starts from a reset cursor.
Push ==
  /\ pc = "push" /\ curDpu < D
  /\ NextPartition # {}
  /\ curRet' = Min(NextPartition)
  /\ held' = [held EXCEPT ![curDpu][kind] = curRet']
  /\ curDpu' = curDpu + 1
  /\ UNCHANGED <<pc, sampling, ranking, routing, kind>>

\* A transfer that starts where the last one has left the cursor.
PushedNoReset ==
  /\ pc = "push" /\ curDpu = D
  /\ kind' = Following[kind]
  /\ curDpu' = 0 /\ UNCHANGED curRet
  /\ Goto(IF kind = "model" THEN "serve" ELSE "push")
  /\ UNCHANGED <<sampling, ranking, routing, held>>

Pushed ==
  /\ pc = "push" /\ curDpu = D
  /\ kind' = Following[kind]
  /\ curDpu' = 0 /\ curRet' = 0
  /\ Goto(IF kind = "model" THEN "serve" ELSE "push")
  /\ UNCHANGED <<sampling, ranking, routing, held>>

Finished == pc = "wild" \/ (pc = "serve" /\ pass = Passes)

Next ==
  \/ WarmUp \/ Sample \/ Ratios \/ Shrink \/ Grow \/ Balanced \/ Adjust
  \/ Settle \/ GetStartDpuId \/ Push \/ Pushed
  \/ Finished /\ UNCHANGED vars

Spec == Init /\ [][Next]_vars

-----------------------------------------------------------------------------
\* The shares add up to the DPUs there are, and every partition keeps one,
\* however often the loops of calculate_partition_skew move a DPU: otherwise
\* rd % replicas divides by zero, or next_partition leaves its array.
DpusShared ==
  pc \in {"start", "push", "serve"}
    => Total(replicas) = D /\ \A p \in Part : replicas[p] >= 1

\* The DPU that search_upper_level chooses has received arguments, keys and
\* model of the partition in whose range the key lies, and the host looks up
\* its answers in the overflow tree of that partition.
Home(key) == Max({p \in Part : Low(p) <= key})

RoutedHome ==
  pc = "serve" =>
    \A key \in Key \ {0}, rd \in 0 .. D :
      LET p == Bisect(key)
          d == start[p] + (rd % replicas[p])
      IN  /\ d \in Dpu
          /\ homes[d] = Home(key)
          /\ \A k \in Kind : held[d][k] = Home(key)

\* No search of the tables leaves them unless warm-up queries lie below the
\* first key.
WildOnlyIfLost == pc = "wild" => lost > 0

\* A move takes one DPU from a partition and gives it to another one, and
\* both are colder afterwards than the receiver was: no DPU becomes hotter than
\* one was before, and the giver never gets its own DPU back.  The loop gives
\* to whoever stands at index 0 after the giver has been put back into the
\* list, and reads per_dpu_ratio at positions that the move before has changed.
\* Index 0 need not be the hottest partition: a receiver is put in front of the
\* first colder record, whatever stands behind it.
Records(r) == {r[j] : j \in Part}

AdjustHelps ==
  [][pc = "adjust" /\ todo' < todo =>
       \E giver, receiver \in Records(rank) :
         LET less == [giver EXCEPT !.num = @ - 1]
             more == [receiver EXCEPT !.num = @ + 1]
         IN  /\ Records(rank') = (Records(rank) \ {giver, receiver}) \cup {less, more}
             /\ Hotter(receiver, less) /\ Hotter(receiver, more)]_vars
=============================================================================
