------------------------- MODULE InsertRoundsProofs -------------------------
(***************************************************************************)
(* For any number of threads and rounds and any page size: the types, the  *)
(* exclusion of mergers, and the freshness of what a thread holds while    *)
(* the version of merge_lock stands; and from the latter two, what happens *)
(* to the keys in the pages during a merge, and what the counter that      *)
(* triggers a merge knows of them.                                         *)
(***************************************************************************)
EXTENDS InsertRounds, FiniteSetTheorems, TLAPS

USE DEF Structures, Routing, Dpu

\* The keys are finitely many, so what the pages hold can be counted.
LEMMA KeysFinite == IsFiniteSet(Keys)
  <1>1. IsFiniteSet(1 .. Rounds)
    BY FS_Interval, RoundsAssumption
  <1>2. IsFiniteSet(Batches)
    BY <1>1, FS_Product, ThreadsAssumption DEF Batches
  <1> QED
    BY <1>2, FS_Union, InitAssumption DEF Keys

LEMMA CardinalityOfKeys ==
  ASSUME NEW S, S \subseteq Keys
  PROVE  Cardinality(S) \in Nat
  BY KeysFinite, FS_Subset, FS_CardinalityType

\* The words stay words.
LEMMA WordArithmetic ==
  ASSUME NEW w \in Word
  PROVE  /\ WithLock(w) \in Word /\ Released(w) \in Word
         /\ Masked(w) \in 0 .. LockSet - 1
  BY LockSetAssumption DEF Word, WithLock, Released, Masked, IsSet

-----------------------------------------------------------------------------
LEMMA TypeInit == Init => TypeOK
  <1> SUFFICES ASSUME Init PROVE TypeOK
    OBVIOUS
  <1>1. Cardinality(InitKeys) \in Nat
    BY FS_CardinalityType, InitAssumption
  <1>2. 0 \in Word /\ 1 \in 1 .. Rounds
    BY LockSetAssumption, RoundsAssumption DEF Word
  <1>3. live \in [Structures -> Nat] /\ Unrouted \in [Routing -> Nat]
    BY DEF Init, Unrouted
  <1>4. answer \in [Threads -> [Dpu -> Nat]]
    BY DEF Init
  <1>5. routed \in [Threads -> [Routing -> Nat]]
    BY <1>3 DEF Init
  <1>6. pc \in [Threads -> PC]
    BY DEF Init, PC
  <1>7. late \in BOOLEAN
    BY DEF Init
  <1> QED
    BY <1>1, <1>2, <1>3, <1>4, <1>5, <1>6, <1>7 DEF Init, TypeOK, Keys

LEMMA TypeStep == TypeOK /\ [Next]_vars => TypeOK'
  <1> SUFFICES ASSUME TypeOK, [Next]_vars PROVE TypeOK'
    OBVIOUS
  <1> USE DEF TypeOK, Goto, PC, Waiting, Merging, Writing,
              locks, counts, data, regs, ghosts
  <1>1. ASSUME NEW t \in Threads, Step(t) PROVE TypeOK'
    <2> USE <1>1
    <2>1. CASE Gate(t) BY <2>1 DEF Gate
    <2>2. CASE Version(t) BY <2>2 DEF Version
    <2>3. CASE RouteBounds(t) BY <2>3 DEF RouteBounds
    <2>4. CASE RouteReplicas(t) BY <2>4 DEF RouteReplicas
    <2>5. CASE Check(t)
      <3>1. Unrouted \in [Routing -> Nat]
        BY DEF Unrouted
      <3>2. routed' \in [Threads -> [Routing -> Nat]]
        BY SMTT(60), <2>5, <3>1 DEF Check, ClearSendBuffer
      <3>3. pc' \in [Threads -> PC]
        BY SMTT(60), <2>5 DEF Check
      <3> QED BY <2>5, <3>2, <3>3 DEF Check
    <2>6. CASE Lock(t) BY <2>6 DEF Lock
    <2>7. CASE Launch(t) BY <2>7 DEF Launch
    <2>8. CASE Search(t) BY <2>8 DEF Search
    <2>9. CASE Unlock(t) BY <2>9 DEF Unlock, ClearSendBuffer, Unrouted
    <2>10. CASE Count(t) BY <2>10 DEF Count
    <2>11. CASE Decide(t) BY <2>11 DEF Decide
    <2>12. CASE TryLoad(t) BY <2>12 DEF TryLoad
    <2>13. CASE TryCas(t) BY <2>13, WordArithmetic DEF TryCas
    <2>14. CASE MergeShard(t) BY <2>14 DEF MergeShard
    <2>15. CASE MergeWait(t) BY <2>15 DEF MergeWait
    <2>16. CASE MergeCount(t) BY <2>16 DEF MergeCount
    <2>17. CASE MergeKeys(t) BY <2>17 DEF MergeKeys
    <2>18. CASE PublishKeys(t)
      <3>1. Masked(mergeWord) + 1 \in Nat
        BY WordArithmetic, LockSetAssumption
      <3>2. total + Cardinality(counted) \in Nat
        BY CardinalityOfKeys
      <3> QED BY <2>18, <3>1, <3>2 DEF PublishKeys, Publish
    <2>19. ASSUME PublishPages(t) \/ PublishBounds(t) \/ PublishReplicas(t)
                    \/ PushArgs(t) \/ PushKeys(t) \/ PushModel(t)
                    \/ MergeInit(t)
           PROVE  TypeOK'
      <3>1. Masked(mergeWord) + 1 \in Nat
        BY WordArithmetic, LockSetAssumption
      <3>2. CASE PublishPages(t) BY <3>1, <3>2 DEF PublishPages, Publish
      <3>3. CASE PublishBounds(t) BY <3>1, <3>3 DEF PublishBounds, Publish
      <3>4. CASE PublishReplicas(t) BY <3>1, <3>4 DEF PublishReplicas, Publish
      <3>5. CASE PushArgs(t) BY <3>1, <3>5 DEF PushArgs, Publish
      <3>6. CASE PushKeys(t) BY <3>1, <3>6 DEF PushKeys, Publish
      <3>7. CASE PushModel(t) BY <3>1, <3>7 DEF PushModel, Publish
      <3>8. CASE MergeInit(t) BY <3>1, <3>8 DEF MergeInit, Publish
      <3> QED BY <2>19, <3>2, <3>3, <3>4, <3>5, <3>6, <3>7, <3>8
    <2>20. CASE ClearOverflow(t) BY <2>20 DEF ClearOverflow
    <2>21. CASE MergeLock(t) BY <2>21 DEF MergeLock
    <2>22. CASE MergeUnlock(t) BY <2>22 DEF MergeUnlock
    <2>23. CASE ResetCount(t) BY <2>23 DEF ResetCount
    <2>24. CASE ReleaseShard(t) BY <2>24 DEF ReleaseShard
    <2>25. CASE Release(t) BY <2>25, WordArithmetic DEF Release
    <2>26. CASE Enter(t) BY <2>26 DEF Enter
    <2>27. CASE Guard(t) BY <2>27 DEF Guard
    <2>28. CASE FindPage(t) BY <2>28 DEF FindPage
    <2>29. CASE Insert(t)
      <3>1. Batch(t) \in Keys
        BY DEF Batch, Keys, Batches
      <3> QED BY <2>29, <3>1 DEF Insert
    <2>30. CASE Exit(t)
      <3>1. round' \in [Threads -> 1 .. Rounds]
        BY <2>30, RoundsAssumption DEF Exit
      <3>2. pc' \in [Threads -> PC]
        BY SMTT(60), <2>30 DEF Exit
      <3>3. writers' \in Int
        BY <2>30 DEF Exit
      <3> QED BY <2>30, <3>1, <3>2, <3>3 DEF Exit
    <2> QED
      BY <2>1, <2>2, <2>3, <2>4, <2>5, <2>6, <2>7, <2>8, <2>9, <2>10, <2>11,
         <2>12, <2>13, <2>14, <2>15, <2>16, <2>17, <2>18, <2>19, <2>20,
         <2>21, <2>22, <2>23, <2>24, <2>25, <2>26, <2>27, <2>28, <2>29,
         <2>30 DEF Step
  <1>2. CASE UNCHANGED vars
    BY <1>2 DEF vars
  <1> QED
    BY <1>1, <1>2 DEF Next

\* Every variable keeps its type, for any number of threads and rounds.
THEOREM TypeCorrect == Spec => []TypeOK
  BY TypeInit, TypeStep, PTL DEF Spec

-----------------------------------------------------------------------------
(* The strengthening of MergeExclusive and FreshWhileVersionUnchanged.      *)

\* The merger holds merge_lock.
MergerHoldsLock == \A m \in Threads : Merger(m) => IsSet(mergeWord)

\* The labels at which the merger has yet to replace a structure.
BeforeKeys     == {"mShard", "mWait", "mCount", "mMerge", "mKeys"}
BeforePages    == BeforeKeys \cup {"mPages"}
BeforeBounds   == BeforePages \cup {"mBounds"}
BeforeReplicas == BeforeBounds \cup {"mReplicas"}
BeforeArgs     == BeforeReplicas \cup {"mArgs"}
BeforeDpuKeys  == BeforeArgs \cup {"mDpuKeys"}
BeforeModel    == BeforeDpuKeys \cup {"mModel"}
BeforeInit     == BeforeModel \cup {"mOverflow", "mLock", "mInit"}

\* The generation of a structure while merger m runs.
Generation(m, before) ==
  IF pc[m] \in before THEN Masked(mergeWord) ELSE Masked(mergeWord) + 1

\* The version of a free merge_lock is the generation of every structure; a
\* merger has brought those it has replaced to the next one.
LiveFollowsLock ==
  /\ ~IsSet(mergeWord) => \A s \in Structures : live[s] = mergeWord
  /\ \A m \in Threads : Merger(m) =>
       /\ live["keys"] = Generation(m, BeforeKeys)
       /\ live["pages"] = Generation(m, BeforePages)
       /\ live["bounds"] = Generation(m, BeforeBounds)
       /\ live["replicas"] = Generation(m, BeforeReplicas)
       /\ live["dpuArgs"] = Generation(m, BeforeArgs)
       /\ live["dpuKeys"] = Generation(m, BeforeDpuKeys)
       /\ live["dpuModel"] = Generation(m, BeforeModel)
       /\ live["dpuInit"] = Generation(m, BeforeInit)

RoutedReplicas == {"check", "lock", "launch", "search", "unlock"}
RoutedBounds   == {"replicas"} \cup RoutedReplicas
Searched       == {"unlock", "count", "decide", "enter"} \cup Writing
Launched       == {"search"} \cup Searched
Versioned      == {"bounds", "tryCas"} \cup RoutedBounds \cup Launched

\* A thread has seen merge_lock free, and its version has not gone back since:
\* a version that overflows leaves the lock set, with no merger to free it.
SeenIsPast ==
  \A t \in Threads : pc[t] \in Versioned =>
    /\ ~IsSet(seen[t])
    /\ ~IsSet(mergeWord) \/ (\E m \in Threads : Merger(m))
         => seen[t] <= Masked(mergeWord)

\* What it has read is of the generation of the version it has seen.
HeldIsFresh ==
  \A t \in Threads : pc[t] \in Versioned /\ mergeWord = seen[t] =>
    /\ pc[t] \in RoutedBounds => routed[t]["bounds"] = seen[t]
    /\ pc[t] \in RoutedReplicas => routed[t]["replicas"] = seen[t]
    /\ pc[t] \in Launched => /\ answer[t]["dpuArgs"] = seen[t]
                             /\ answer[t]["dpuInit"] = seen[t]
    /\ pc[t] \in Searched => /\ answer[t]["dpuModel"] = seen[t]
                             /\ answer[t]["dpuKeys"] = seen[t]

IInv == /\ TypeOK /\ MergeExclusive /\ MergerHoldsLock
        /\ LiveFollowsLock /\ SeenIsPast /\ HeldIsFresh

-----------------------------------------------------------------------------
(* What a step may do to the lock, the mergers and the structures.          *)

OthersKeep(t) ==
  \A u \in Threads : u # t => /\ pc'[u] = pc[u] /\ seen'[u] = seen[u]
                             /\ routed'[u] = routed[u]
                             /\ answer'[u] = answer[u]

\* A step of a thread that is no merger and does not become one.
Outside(t) == /\ ~Merger(t) /\ ~Merger(t)'
              /\ mergeWord' = mergeWord /\ live' = live

\* A step within the merge.
Inside(t) == /\ Merger(t) /\ Merger(t)'
             /\ UNCHANGED <<mergeWord, seen, routed, answer>>

\* The step that takes merge_lock.
Acquires(t) == /\ pc[t] = "tryCas" /\ pc'[t] = "mShard"
               /\ mergeWord = seen[t] /\ mergeWord' = WithLock(seen[t])
               /\ UNCHANGED <<live, seen, routed, answer>>

\* The step that releases it.
Releases(t) == /\ pc[t] = "mRelease" /\ pc'[t] = "gate"
               /\ mergeWord' = Released(mergeWord)
               /\ UNCHANGED <<live, seen, routed, answer>>

LEMMA Effects ==
  ASSUME TypeOK, NEW t \in Threads, Step(t)
  PROVE  /\ OthersKeep(t)
         /\ Outside(t) \/ Inside(t) \/ Acquires(t) \/ Releases(t)
  <1> USE DEF TypeOK, Goto, OthersKeep, Merger, Waiting, Merging,
              locks, counts, data, regs
  <1>1. CASE Gate(t) BY <1>1 DEF Gate, Outside
  <1>2. CASE Version(t) BY <1>2 DEF Version, Outside
  <1>3. CASE RouteBounds(t) BY <1>3 DEF RouteBounds, Outside
  <1>4. CASE RouteReplicas(t) BY <1>4 DEF RouteReplicas, Outside
  <1>5. CASE Check(t) BY <1>5 DEF Check, ClearSendBuffer, Outside
  <1>6. CASE Lock(t) BY <1>6 DEF Lock, Outside
  <1>7. CASE Launch(t) BY <1>7 DEF Launch, Outside
  <1>8. CASE Search(t) BY <1>8 DEF Search, Outside
  <1>9. CASE Unlock(t) BY <1>9 DEF Unlock, ClearSendBuffer, Outside
  <1>10. CASE Count(t) BY <1>10 DEF Count, Outside
  <1>11. CASE Decide(t) BY <1>11 DEF Decide, Outside
  <1>12. CASE TryLoad(t) BY <1>12 DEF TryLoad, Outside
  <1>13. CASE TryCas(t) BY <1>13 DEF TryCas, Outside, Acquires
  <1>14. CASE MergeShard(t) BY <1>14 DEF MergeShard, Inside
  <1>15. CASE MergeWait(t) BY <1>15 DEF MergeWait, Inside
  <1>16. CASE MergeCount(t) BY <1>16 DEF MergeCount, Inside
  <1>17. CASE MergeKeys(t) BY <1>17 DEF MergeKeys, Inside
  <1>18. CASE PublishKeys(t) BY <1>18 DEF PublishKeys, Inside
  <1>19. CASE PublishPages(t) BY <1>19 DEF PublishPages, Inside
  <1>20. CASE PublishBounds(t) BY <1>20 DEF PublishBounds, Inside
  <1>21. CASE PublishReplicas(t) BY <1>21 DEF PublishReplicas, Inside
  <1>22. CASE PushArgs(t) BY <1>22 DEF PushArgs, Inside
  <1>23. CASE PushKeys(t) BY <1>23 DEF PushKeys, Inside
  <1>24. CASE PushModel(t) BY <1>24 DEF PushModel, Inside
  <1>25. CASE ClearOverflow(t) BY <1>25 DEF ClearOverflow, Inside
  <1>26. CASE MergeLock(t) BY <1>26 DEF MergeLock, Inside
  <1>27. CASE MergeInit(t) BY <1>27 DEF MergeInit, Inside
  <1>28. CASE MergeUnlock(t) BY <1>28 DEF MergeUnlock, Inside
  <1>29. CASE ResetCount(t) BY <1>29 DEF ResetCount, Inside
  <1>30. CASE ReleaseShard(t) BY <1>30 DEF ReleaseShard, Inside
  <1>31. CASE Release(t) BY <1>31 DEF Release, Releases
  <1>32. CASE Enter(t) BY <1>32 DEF Enter, Outside
  <1>33. CASE Guard(t) BY <1>33 DEF Guard, Outside
  <1>34. CASE FindPage(t) BY <1>34 DEF FindPage, Outside
  <1>35. CASE Insert(t) BY <1>35 DEF Insert, Outside
  <1>36. CASE Exit(t) BY <1>36 DEF Exit, Outside
  <1> QED
    BY <1>1, <1>2, <1>3, <1>4, <1>5, <1>6, <1>7, <1>8, <1>9, <1>10, <1>11,
       <1>12, <1>13, <1>14, <1>15, <1>16, <1>17, <1>18, <1>19, <1>20, <1>21,
       <1>22, <1>23, <1>24, <1>25, <1>26, <1>27, <1>28, <1>29, <1>30, <1>31,
       <1>32, <1>33, <1>34, <1>35, <1>36 DEF Step

\* Word arithmetic behind the steps that take and release merge_lock.
LEMMA Acquisition ==
  ASSUME NEW w \in Word, ~IsSet(w)
  PROVE  /\ IsSet(WithLock(w)) /\ Masked(WithLock(w)) = w /\ Masked(w) = w
  BY LockSetAssumption DEF Word, WithLock, Masked, IsSet

LEMMA Releasing ==
  ASSUME NEW w \in Word, IsSet(w), ~IsSet(Released(w))
  PROVE  Released(w) = Masked(w) + 1 /\ Masked(Released(w)) = Masked(w) + 1
  BY LockSetAssumption DEF Word, Released, Masked, IsSet

-----------------------------------------------------------------------------
(* The parts of the invariant, one lemma each.                              *)

LEMMA LockStep ==
  ASSUME IInv, NEW t \in Threads, Step(t)
  PROVE  MergeExclusive' /\ MergerHoldsLock'
  <1> USE DEF IInv
  <1>1. /\ OthersKeep(t)
        /\ Outside(t) \/ Inside(t) \/ Acquires(t) \/ Releases(t)
    BY Effects
  <1>2. \A u \in Threads : u # t => (Merger(u)' <=> Merger(u))
    BY <1>1 DEF OthersKeep, Merger
  <1>3. CASE Outside(t)
    BY <1>2, <1>3 DEF Outside, MergeExclusive, MergerHoldsLock
  <1>4. CASE Inside(t)
    BY <1>2, <1>4 DEF Inside, MergeExclusive, MergerHoldsLock
  <1>5. CASE Acquires(t)
    <2>1. ~IsSet(mergeWord) /\ seen[t] \in Word
      BY <1>5 DEF Acquires, SeenIsPast, Versioned, TypeOK
    <2>2. IsSet(mergeWord')
      BY <1>5, <2>1, Acquisition DEF Acquires
    <2>3. \A u \in Threads : ~Merger(u)
      BY <2>1 DEF MergerHoldsLock
    <2> QED
      BY <1>2, <2>2, <2>3 DEF MergeExclusive, MergerHoldsLock
  <1>6. CASE Releases(t)
    <2>1. \A u \in Threads : ~Merger(u)'
      BY <1>2, <1>6
         DEF Releases, MergeExclusive, Merger, Waiting, Merging
    <2> QED BY <2>1 DEF MergeExclusive, MergerHoldsLock
  <1> QED
    BY <1>1, <1>3, <1>4, <1>5, <1>6

LEMMA LiveStep ==
  ASSUME IInv, NEW t \in Threads, Step(t)
  PROVE  LiveFollowsLock'
  <1> USE DEF IInv
  <1>1. /\ OthersKeep(t)
        /\ Outside(t) \/ Inside(t) \/ Acquires(t) \/ Releases(t)
    BY Effects
  <1>2. \A u \in Threads : u # t => pc'[u] = pc[u] /\ (Merger(u)' <=> Merger(u))
    BY <1>1 DEF OthersKeep, Merger
  <1>3. CASE Outside(t)
    BY <1>2, <1>3 DEF Outside, LiveFollowsLock, Generation
  <1>4. CASE Inside(t)
    <2>1. IsSet(mergeWord) /\ mergeWord' = mergeWord
      BY <1>4 DEF Inside, MergerHoldsLock
    <2>2. \A u \in Threads : Merger(u)' => u = t
      BY <1>2, <1>4 DEF Inside, MergeExclusive
    <2>3. Masked(mergeWord) \in Nat
      BY WordArithmetic, LockSetAssumption DEF TypeOK
    <2> SUFFICES
          /\ live'["keys"] = Generation(t, BeforeKeys)'
          /\ live'["pages"] = Generation(t, BeforePages)'
          /\ live'["bounds"] = Generation(t, BeforeBounds)'
          /\ live'["replicas"] = Generation(t, BeforeReplicas)'
          /\ live'["dpuArgs"] = Generation(t, BeforeArgs)'
          /\ live'["dpuKeys"] = Generation(t, BeforeDpuKeys)'
          /\ live'["dpuModel"] = Generation(t, BeforeModel)'
          /\ live'["dpuInit"] = Generation(t, BeforeInit)'
      BY <2>1, <2>2 DEF LiveFollowsLock
    <2>4. /\ live["keys"] = Generation(t, BeforeKeys)
          /\ live["pages"] = Generation(t, BeforePages)
          /\ live["bounds"] = Generation(t, BeforeBounds)
          /\ live["replicas"] = Generation(t, BeforeReplicas)
          /\ live["dpuArgs"] = Generation(t, BeforeArgs)
          /\ live["dpuKeys"] = Generation(t, BeforeDpuKeys)
          /\ live["dpuModel"] = Generation(t, BeforeModel)
          /\ live["dpuInit"] = Generation(t, BeforeInit)
      BY <1>4 DEF Inside, LiveFollowsLock
    <2> USE <1>4, <2>1, <2>3, <2>4
        DEF Generation, BeforeKeys, BeforePages, BeforeBounds, BeforeReplicas,
            BeforeArgs, BeforeDpuKeys, BeforeModel, BeforeInit, Goto, Publish,
            TypeOK, data
    <2>5. CASE PublishKeys(t) BY <2>5 DEF PublishKeys
    <2>6. CASE PublishPages(t) BY <2>6 DEF PublishPages
    <2>7. CASE PublishBounds(t) BY <2>7 DEF PublishBounds
    <2>8. CASE PublishReplicas(t) BY <2>8 DEF PublishReplicas
    <2>9. CASE PushArgs(t) BY <2>9 DEF PushArgs
    <2>10. CASE PushKeys(t) BY <2>10 DEF PushKeys
    <2>11. CASE PushModel(t) BY <2>11 DEF PushModel
    <2>12. CASE MergeInit(t) BY <2>12 DEF MergeInit
    <2>13. CASE MergeShard(t) BY <2>13 DEF MergeShard
    <2>14. CASE MergeWait(t) BY <2>14 DEF MergeWait
    <2>15. CASE MergeCount(t) BY <2>15 DEF MergeCount
    <2>16. CASE MergeKeys(t) BY <2>16 DEF MergeKeys
    <2>17. CASE ClearOverflow(t) BY <2>17 DEF ClearOverflow
    <2>18. CASE MergeLock(t) BY <2>18 DEF MergeLock
    <2>19. CASE MergeUnlock(t) BY <2>19 DEF MergeUnlock
    <2>20. CASE ResetCount(t) BY <2>20 DEF ResetCount
    <2>21. CASE ReleaseShard(t) BY <2>21 DEF ReleaseShard
    <2>22. CASE Release(t)
      BY <2>22 DEF Release, Inside, Merger, Waiting, Merging
    <2>23. pc[t] \in Waiting \cup Merging
      BY <1>4 DEF Inside, Merger
    <2> QED
      BY <2>5, <2>6, <2>7, <2>8, <2>9, <2>10, <2>11, <2>12, <2>13, <2>14,
         <2>15, <2>16, <2>17, <2>18, <2>19, <2>20, <2>21, <2>22, <2>23
      DEF Step, Waiting, Merging, Gate, Version, RouteBounds, RouteReplicas,
          Check, Lock, Launch, Search, Unlock, Count, Decide, TryLoad, TryCas,
          Enter, Guard, FindPage, Insert, Exit
  <1>5. CASE Acquires(t)
    <2>1. ~IsSet(mergeWord) /\ seen[t] \in Word /\ mergeWord = seen[t]
      BY <1>5 DEF Acquires, SeenIsPast, Versioned, TypeOK
    <2>2. IsSet(mergeWord') /\ Masked(mergeWord)' = mergeWord
      BY <1>5, <2>1, Acquisition DEF Acquires
    <2>3. \A u \in Threads : Merger(u)' => u = t
      BY <1>2, <2>1 DEF MergerHoldsLock
    <2>4. \A s \in Structures : live'[s] = mergeWord
      BY <1>5, <2>1 DEF Acquires, LiveFollowsLock
    <2> QED
      BY <1>5, <2>2, <2>3, <2>4
      DEF Acquires, LiveFollowsLock, Generation, BeforeKeys, BeforePages,
          BeforeBounds, BeforeReplicas, BeforeArgs, BeforeDpuKeys,
          BeforeModel, BeforeInit
  <1>6. CASE Releases(t)
    <2>1. Merger(t) /\ mergeWord \in Word /\ IsSet(mergeWord)
      BY <1>6 DEF Releases, Merger, Merging, MergerHoldsLock, TypeOK
    <2>2. \A u \in Threads : ~Merger(u)'
      BY <1>2, <1>6, <2>1 DEF Releases, MergeExclusive, Merger, Waiting, Merging
    <2>3. \A s \in Structures : live[s] = Masked(mergeWord) + 1
      BY <1>6, <2>1
      DEF Releases, LiveFollowsLock, Generation, BeforeKeys, BeforePages,
          BeforeBounds, BeforeReplicas, BeforeArgs, BeforeDpuKeys,
          BeforeModel, BeforeInit
    <2>4. ~IsSet(mergeWord') => mergeWord' = Masked(mergeWord) + 1
      BY <1>6, <2>1, Releasing DEF Releases
    <2> QED
      BY <1>6, <2>2, <2>3, <2>4 DEF Releases, LiveFollowsLock
  <1> QED
    BY <1>1, <1>3, <1>4, <1>5, <1>6

\* A thread holds on to the version it has seen, or has just seen the present
\* one.
LEMMA Sees ==
  ASSUME TypeOK, NEW t \in Threads, Step(t), Outside(t), pc'[t] \in Versioned
  PROVE  \/ pc[t] \in Versioned /\ seen'[t] = seen[t]
         \/ /\ pc'[t] \in {"bounds", "tryCas"}
            /\ seen'[t] = mergeWord /\ ~IsSet(mergeWord)
  <1> USE DEF TypeOK, Goto, Versioned, RoutedBounds, RoutedReplicas, Launched,
              Searched, Writing, regs
  <1>1. CASE Version(t) BY <1>1 DEF Version
  <1>2. CASE TryLoad(t) BY <1>2 DEF TryLoad
  <1>3. CASE RouteBounds(t) BY <1>3 DEF RouteBounds
  <1>4. CASE RouteReplicas(t) BY <1>4 DEF RouteReplicas
  <1>5. CASE Check(t) BY <1>5 DEF Check
  <1>6. CASE Lock(t) BY <1>6 DEF Lock
  <1>7. CASE Launch(t) BY <1>7 DEF Launch
  <1>8. CASE Search(t) BY <1>8 DEF Search
  <1>9. CASE Unlock(t) BY <1>9 DEF Unlock
  <1>10. CASE Count(t) BY <1>10 DEF Count
  <1>11. CASE Decide(t) BY <1>11 DEF Decide
  <1>12. CASE Enter(t) BY <1>12 DEF Enter
  <1>13. CASE Guard(t) BY <1>13 DEF Guard
  <1>14. CASE FindPage(t) BY <1>14 DEF FindPage
  <1>15. CASE Insert(t) BY <1>15 DEF Insert
  <1>16. CASE Exit(t) BY <1>16 DEF Exit
  <1>17. CASE Gate(t) BY <1>17 DEF Gate
  <1>18. CASE TryCas(t)
    BY <1>18 DEF TryCas, Outside, Merger, Waiting, Merging
  <1>19. pc[t] \notin Waiting \cup Merging
    BY DEF Outside, Merger
  <1> QED
    BY <1>1, <1>2, <1>3, <1>4, <1>5, <1>6, <1>7, <1>8, <1>9, <1>10, <1>11,
       <1>12, <1>13, <1>14, <1>15, <1>16, <1>17, <1>18, <1>19
    DEF Step, Waiting, Merging, MergeShard, MergeWait, MergeCount, MergeKeys,
        PublishKeys, PublishPages, PublishBounds, PublishReplicas, PushArgs,
        PushKeys, PushModel, ClearOverflow, MergeLock, MergeInit, MergeUnlock,
        ResetCount, ReleaseShard, Release

LEMMA SeenStep ==
  ASSUME IInv, TypeOK', NEW t \in Threads, Step(t)
  PROVE  SeenIsPast'
  <1> USE DEF IInv
  <1>1. /\ OthersKeep(t)
        /\ Outside(t) \/ Inside(t) \/ Acquires(t) \/ Releases(t)
    BY Effects
  <1>2. \A u \in Threads : u # t => (Merger(u)' <=> Merger(u))
    BY <1>1 DEF OthersKeep, Merger
  <1>3. mergeWord \in Word /\ Masked(mergeWord) \in Nat
        /\ seen \in [Threads -> Word]
    BY WordArithmetic, LockSetAssumption DEF TypeOK
  <1>4. CASE Outside(t) \/ Inside(t)
    <2>1. mergeWord' = mergeWord /\ (Merger(t)' <=> Merger(t))
      BY <1>4 DEF Outside, Inside
    <2>2. (\E m \in Threads : Merger(m)') <=> (\E m \in Threads : Merger(m))
      BY <1>2, <2>1
    <2>3. ASSUME NEW u \in Threads, pc'[u] \in Versioned
          PROVE  \/ pc[u] \in Versioned /\ seen'[u] = seen[u]
                 \/ seen'[u] = mergeWord /\ ~IsSet(mergeWord)
      <3>1. CASE u # t
        BY <1>1, <2>3, <3>1 DEF OthersKeep
      <3>2. CASE u = t /\ Outside(t)
        BY <2>3, <3>2, Sees
      <3>3. CASE u = t /\ Inside(t)
        BY <2>3, <3>3 DEF Inside, Merger, Waiting, Merging, Versioned,
           RoutedBounds, RoutedReplicas, Launched, Searched, Writing
      <3> QED BY <1>4, <3>1, <3>2, <3>3
    <2>4. ~IsSet(mergeWord) => Masked(mergeWord) = mergeWord
      BY DEF Masked
    <2>5. mergeWord <= mergeWord
      BY <1>3 DEF Word
    <2> QED
      BY <2>1, <2>2, <2>3, <2>4, <2>5 DEF SeenIsPast
  <1>5. CASE Acquires(t)
    <2>1. ~IsSet(mergeWord) /\ mergeWord = seen[t]
      BY <1>5 DEF Acquires, SeenIsPast, Versioned
    <2>2. Masked(mergeWord)' = Masked(mergeWord)
      BY <1>3, <1>5, <2>1, Acquisition DEF Acquires
    <2>3. \A u \in Threads : pc'[u] \in Versioned
                             => pc[u] \in Versioned /\ seen'[u] = seen[u]
      BY <1>1, <1>5
      DEF Acquires, OthersKeep, Versioned, RoutedBounds, RoutedReplicas,
          Launched, Searched, Writing
    <2> QED
      BY <2>1, <2>2, <2>3 DEF SeenIsPast
  <1>6. CASE Releases(t)
    <2>1. Merger(t) /\ IsSet(mergeWord)
      BY <1>6 DEF Releases, Merger, Merging, MergerHoldsLock
    <2>2. \A u \in Threads : ~Merger(u)'
      BY <1>2, <1>6, <2>1 DEF Releases, MergeExclusive, Merger, Waiting, Merging
    <2>3. ~IsSet(mergeWord') => Masked(mergeWord)' = Masked(mergeWord) + 1
      BY <1>3, <1>6, <2>1, Releasing DEF Releases
    <2>4. \A u \in Threads : pc'[u] \in Versioned
                             => pc[u] \in Versioned /\ seen'[u] = seen[u]
      BY <1>1, <1>6
      DEF Releases, OthersKeep, Versioned, RoutedBounds, RoutedReplicas,
          Launched, Searched, Writing
    <2>5. \A u \in Threads : pc[u] \in Versioned
                             => ~IsSet(seen[u]) /\ seen[u] <= Masked(mergeWord)
      BY <2>1 DEF SeenIsPast
    <2> SUFFICES ASSUME NEW u \in Threads, pc'[u] \in Versioned
                 PROVE  /\ ~IsSet(seen'[u])
                        /\ ~IsSet(mergeWord') => seen'[u] <= Masked(mergeWord)'
      BY <2>2 DEF SeenIsPast
    <2>6. seen'[u] = seen[u] /\ seen[u] <= Masked(mergeWord) /\ ~IsSet(seen[u])
      BY <2>4, <2>5
    <2>7. seen[u] \in Nat
      BY <1>3, LockSetAssumption DEF Word
    <2> QED
      BY <1>3, <2>3, <2>6, <2>7
  <1> QED
    BY <1>1, <1>4, <1>5, <1>6

LEMMA FreshStep ==
  ASSUME IInv, NEW t \in Threads, Step(t)
  PROVE  HeldIsFresh'
  <1> USE DEF IInv
  <1>1. /\ OthersKeep(t)
        /\ Outside(t) \/ Inside(t) \/ Acquires(t) \/ Releases(t)
    BY Effects
  <1>2. mergeWord \in Word /\ Masked(mergeWord) \in Nat
        /\ seen \in [Threads -> Word]
    BY WordArithmetic, LockSetAssumption DEF TypeOK
  <1>3. \A u \in Threads : pc[u] \in Versioned => ~IsSet(seen[u])
    BY DEF SeenIsPast
  <1>4. CASE Outside(t)
    <2>1. mergeWord' = mergeWord /\ live' = live
      BY <1>4 DEF Outside
    <2>2. ASSUME NEW u \in Threads, u # t
          PROVE  /\ pc'[u] = pc[u] /\ seen'[u] = seen[u]
                 /\ routed'[u] = routed[u] /\ answer'[u] = answer[u]
      BY <1>1, <2>2 DEF OthersKeep
    <2>3. ASSUME pc'[t] \in Versioned, mergeWord' = seen'[t]
          PROVE  /\ pc'[t] \in RoutedBounds => routed'[t]["bounds"] = seen'[t]
                 /\ pc'[t] \in RoutedReplicas
                      => routed'[t]["replicas"] = seen'[t]
                 /\ pc'[t] \in Launched => /\ answer'[t]["dpuArgs"] = seen'[t]
                                           /\ answer'[t]["dpuInit"] = seen'[t]
                 /\ pc'[t] \in Searched => /\ answer'[t]["dpuModel"] = seen'[t]
                                           /\ answer'[t]["dpuKeys"] = seen'[t]
      <3>1. \/ pc[t] \in Versioned /\ seen'[t] = seen[t]
            \/ pc'[t] \in {"bounds", "tryCas"}
        BY <1>4, <2>3, Sees
      <3>2. CASE pc'[t] \in {"bounds", "tryCas"}
        BY <3>2 DEF RoutedBounds, RoutedReplicas, Launched, Searched, Writing
      <3>3. CASE pc[t] \in Versioned /\ seen'[t] = seen[t]
        <4>1. mergeWord = seen[t] /\ ~IsSet(mergeWord)
          BY <1>3, <2>1, <2>3, <3>3
        <4>2. \A s \in Structures : live[s] = seen[t]
          BY <4>1 DEF LiveFollowsLock
        <4>3. /\ pc[t] \in RoutedBounds => routed[t]["bounds"] = seen[t]
              /\ pc[t] \in RoutedReplicas => routed[t]["replicas"] = seen[t]
              /\ pc[t] \in Launched => /\ answer[t]["dpuArgs"] = seen[t]
                                       /\ answer[t]["dpuInit"] = seen[t]
              /\ pc[t] \in Searched => /\ answer[t]["dpuModel"] = seen[t]
                                       /\ answer[t]["dpuKeys"] = seen[t]
          BY <3>3, <4>1 DEF HeldIsFresh
        <4> USE <2>3, <3>3, <4>2, <4>3
            DEF Goto, Versioned, RoutedBounds, RoutedReplicas, Launched,
                Searched, Writing, TypeOK, regs
        <4>4. CASE Gate(t) BY <4>4 DEF Gate
        <4>5. CASE Version(t) BY <4>5 DEF Version
        <4>6. CASE RouteBounds(t) BY <4>6 DEF RouteBounds
        <4>7. CASE RouteReplicas(t) BY <4>7 DEF RouteReplicas
        <4>8. CASE Check(t) BY <4>8 DEF Check
        <4>9. CASE Lock(t) BY <4>9 DEF Lock
        <4>10. CASE Launch(t) BY <4>10 DEF Launch
        <4>11. CASE Search(t) BY <4>11 DEF Search
        <4>12. CASE Unlock(t) BY <4>12 DEF Unlock
        <4>13. CASE Count(t) BY <4>13 DEF Count
        <4>14. CASE Decide(t) BY <4>14 DEF Decide
        <4>15. CASE TryLoad(t) BY <4>15 DEF TryLoad
        <4>16. CASE TryCas(t)
          BY <1>4, <4>16 DEF TryCas, Outside, Merger, Waiting, Merging
        <4>17. CASE Enter(t) BY <4>17 DEF Enter
        <4>18. CASE Guard(t) BY <4>18 DEF Guard
        <4>19. CASE FindPage(t) BY <4>19 DEF FindPage
        <4>20. CASE Insert(t) BY <4>20 DEF Insert
        <4>21. CASE Exit(t) BY <4>21 DEF Exit
        <4>22. pc[t] \notin Waiting \cup Merging
          BY <1>4 DEF Outside, Merger
        <4> QED
          BY <4>4, <4>5, <4>6, <4>7, <4>8, <4>9, <4>10, <4>11, <4>12, <4>13,
             <4>14, <4>15, <4>16, <4>17, <4>18, <4>19, <4>20, <4>21, <4>22
          DEF Step, Waiting, Merging, MergeShard, MergeWait, MergeCount,
              MergeKeys, PublishKeys, PublishPages, PublishBounds,
              PublishReplicas, PushArgs, PushKeys, PushModel, ClearOverflow,
              MergeLock, MergeInit, MergeUnlock, ResetCount, ReleaseShard,
              Release
      <3> QED BY <3>1, <3>2, <3>3
    <2> QED
      BY <2>1, <2>2, <2>3 DEF HeldIsFresh
  <1>5. CASE Inside(t) \/ Acquires(t)
    <2>1. IsSet(mergeWord')
      <3>1. CASE Inside(t)
        BY <3>1 DEF Inside, MergerHoldsLock
      <3>2. CASE Acquires(t)
        BY <1>2, <1>3, <3>2, Acquisition DEF Acquires, Versioned
      <3> QED BY <1>5, <3>1, <3>2
    <2>2. \A u \in Threads : pc'[u] \in Versioned
                             => pc[u] \in Versioned /\ seen'[u] = seen[u]
      BY <1>1, <1>5
      DEF Inside, Acquires, OthersKeep, Merger, Waiting, Merging, Versioned,
          RoutedBounds, RoutedReplicas, Launched, Searched, Writing
    <2> QED
      BY <1>3, <2>1, <2>2 DEF HeldIsFresh
  <1>6. CASE Releases(t)
    <2>1. Merger(t) /\ IsSet(mergeWord)
      BY <1>6 DEF Releases, Merger, Merging, MergerHoldsLock
    <2>2. ~IsSet(mergeWord') => mergeWord' = Masked(mergeWord) + 1
      BY <1>2, <1>6, <2>1, Releasing DEF Releases
    <2>3. \A u \in Threads : pc'[u] \in Versioned
                             => pc[u] \in Versioned /\ seen'[u] = seen[u]
      BY <1>1, <1>6
      DEF Releases, OthersKeep, Versioned, RoutedBounds, RoutedReplicas,
          Launched, Searched, Writing
    <2>4. \A u \in Threads : pc[u] \in Versioned
                             => ~IsSet(seen[u]) /\ seen[u] <= Masked(mergeWord)
      BY <2>1 DEF SeenIsPast
    <2>5. ASSUME NEW u \in Threads, pc'[u] \in Versioned
          PROVE  mergeWord' # seen'[u]
      <3>1. seen'[u] = seen[u] /\ ~IsSet(seen[u])
            /\ seen[u] <= Masked(mergeWord)
        BY <2>3, <2>4, <2>5
      <3>2. seen[u] \in Nat
        BY <1>2, LockSetAssumption DEF Word
      <3> QED BY <1>2, <2>2, <3>1, <3>2
    <2> QED
      BY <2>5 DEF HeldIsFresh
  <1> QED
    BY <1>1, <1>4, <1>5, <1>6

-----------------------------------------------------------------------------
LEMMA IInvInit == Init => IInv
  <1> SUFFICES ASSUME Init PROVE IInv
    OBVIOUS
  <1>1. TypeOK
    BY TypeInit
  <1>2. \A t \in Threads : pc[t] = "gate"
    BY DEF Init
  <1>3. \A t \in Threads : ~Merger(t) /\ pc[t] \notin Versioned
    BY <1>2 DEF Merger, Waiting, Merging, Versioned, RoutedBounds,
       RoutedReplicas, Launched, Searched, Writing
  <1>4. \A s \in Structures : live[s] = mergeWord
    BY DEF Init
  <1> QED
    BY <1>1, <1>3, <1>4
    DEF IInv, MergeExclusive, MergerHoldsLock, LiveFollowsLock, SeenIsPast,
        HeldIsFresh

LEMMA IInvStep == IInv /\ [Next]_vars => IInv'
  <1> SUFFICES ASSUME IInv, [Next]_vars PROVE IInv'
    OBVIOUS
  <1>1. TypeOK'
    BY TypeStep DEF IInv
  <1>2. ASSUME NEW t \in Threads, Step(t) PROVE IInv'
    BY <1>1, <1>2, LockStep, LiveStep, SeenStep, FreshStep DEF IInv
  <1>3. CASE UNCHANGED vars
    BY <1>3
    DEF vars, locks, counts, data, regs, ghosts, IInv, TypeOK, MergeExclusive,
        MergerHoldsLock, LiveFollowsLock, SeenIsPast, HeldIsFresh, Merger,
        Generation
  <1> QED
    BY <1>2, <1>3 DEF Next

\* The strengthened invariant: it relates the merger's position in the merge
\* (lines 2844-2862) to the generation of every structure it replaces.
THEOREM Invariance == Spec => []IInv
  BY IInvInit, IInvStep, PTL DEF Spec

\* At most one thread is in the merge branch (lines 2839-2862), however many
\* threads try merge_lock.
THEOREM MergersExclude == Spec => []MergeExclusive
  <1>1. IInv => MergeExclusive
    BY DEF IInv
  <1> QED
    BY <1>1, Invariance, PTL

LEMMA FreshFromIInv == IInv => FreshWhileVersionUnchanged
  <1> SUFFICES ASSUME IInv, NEW t \in Threads,
                      pc[t] \in {"lock", "launch", "search", "unlock", "count",
                                 "decide", "enter"} \cup Writing,
                      mergeWord = seen[t]
               PROVE  /\ pc[t] \in {"lock", "launch", "search", "unlock"}
                           => \A s \in Routing : routed[t][s] = live[s]
                      /\ pc[t] \notin {"lock", "launch", "search"}
                           => \A s \in Dpu : answer[t][s] = live[s]
                      /\ \A s \in Structures : live[s] = live["keys"]
    BY DEF FreshWhileVersionUnchanged
  <1>1. pc[t] \in Versioned
    BY DEF Versioned, RoutedBounds, RoutedReplicas, Launched, Searched, Writing
  <1>2. ~IsSet(mergeWord)
    BY <1>1 DEF IInv, SeenIsPast
  <1>3. \A s \in Structures : live[s] = seen[t]
    BY <1>2 DEF IInv, LiveFollowsLock
  <1>4. pc[t] \in {"lock", "launch", "search", "unlock"}
          => routed[t]["bounds"] = seen[t] /\ routed[t]["replicas"] = seen[t]
    BY <1>1 DEF IInv, HeldIsFresh, RoutedBounds, RoutedReplicas
  <1>5. pc[t] \notin {"lock", "launch", "search"}
          => \A s \in Dpu : answer[t][s] = seen[t]
    BY <1>1 DEF IInv, HeldIsFresh, Launched, Searched, Writing
  <1> QED
    BY <1>3, <1>4, <1>5

\* While the version a thread took at the start of its round stands, what it
\* has routed and what the DPUs have answered are of the current generation of
\* every structure, even across an overflow of the version.
THEOREM Freshness == Spec => []FreshWhileVersionUnchanged
  BY FreshFromIInv, Invariance, PTL

-----------------------------------------------------------------------------
(* Keys accepted by a page survive.                                        *)

Writers == {t \in Threads : pc[t] \in Writing}

\* thread_in_write is the number of threads within insert_payload.
WritersCounted == writers = Cardinality(Writers)

\* Without a late writer nobody is there while a merger is past its wait.
MergesAlone ==
  ~late => \A m \in Threads : pc[m] \in Merging => Writers = {}

\* So the pages stand still while they are counted, merged and replaced, ...
MergeCopies ==
  ~late => \A m \in Threads :
    /\ pc[m] \in {"mMerge", "mKeys"} => counted = pages
    /\ pc[m] = "mKeys" => merged = index \cup pages
    /\ pc[m] = "mPages" => pages \subseteq index

\* ... and the array a writer has found is the one in use.
TargetStands ==
  ~late => \A t \in Threads : pc[t] = "insert" => target[t] = live["pages"]

KeysInv == /\ IInv /\ WritersCounted /\ MergesAlone /\ MergeCopies
           /\ TargetStands /\ StoredKeysSurvive

\* The ways of a step over the borders of insert_payload.
Enters(t) == /\ pc[t] = "enter" /\ pc'[t] = "guard"
             /\ writers' = writers + 1
             /\ late' = (late \/ \E m \in Threads : pc[m] \in Merging)
Leaves(t) == /\ pc[t] = "exit" /\ pc'[t] \in {"gate", "done"}
             /\ writers' = writers - 1 /\ late' = late
Remains(t) == /\ pc'[t] \in Writing <=> pc[t] \in Writing
              /\ UNCHANGED <<writers, late>>

\* What happens to the keys: the merger or a writer moves them, or nobody.
Merges(t)  == /\ pc[t] \in Merging
              /\ UNCHANGED <<stored, target>>
Inserts(t) == Insert(t)
Spares(t)  == UNCHANGED <<live, pages, index, counted, merged, stored>>

LEMMA KeyEffects ==
  ASSUME TypeOK, NEW t \in Threads, Step(t)
  PROVE  /\ \A u \in Threads \ {t} : pc'[u] = pc[u] /\ target'[u] = target[u]
         /\ Enters(t) \/ Leaves(t) \/ Remains(t)
         /\ Merges(t) \/ Inserts(t) \/ Spares(t)
         /\ pc'[t] \in Merging => pc[t] \in Merging \/ (pc[t] = "mWait" /\ writers = 0)
  <1> USE DEF TypeOK, Goto, Merging, Writing, locks, counts, data, regs, ghosts,
              Enters, Leaves, Remains, Merges, Inserts, Spares
  <1>1. CASE Gate(t) BY <1>1 DEF Gate
  <1>2. CASE Version(t) BY <1>2 DEF Version
  <1>3. CASE RouteBounds(t) BY <1>3 DEF RouteBounds
  <1>4. CASE RouteReplicas(t) BY <1>4 DEF RouteReplicas
  <1>5. CASE Check(t) BY <1>5 DEF Check
  <1>6. CASE Lock(t) BY <1>6 DEF Lock
  <1>7. CASE Launch(t) BY <1>7 DEF Launch
  <1>8. CASE Search(t) BY <1>8 DEF Search
  <1>9. CASE Unlock(t) BY <1>9 DEF Unlock
  <1>10. CASE Count(t) BY <1>10 DEF Count
  <1>11. CASE Decide(t) BY <1>11 DEF Decide
  <1>12. CASE TryLoad(t) BY <1>12 DEF TryLoad
  <1>13. CASE TryCas(t) BY <1>13 DEF TryCas
  <1>14. CASE MergeShard(t) BY <1>14 DEF MergeShard
  <1>15. CASE MergeWait(t) BY <1>15 DEF MergeWait
  <1>16. CASE MergeCount(t) BY <1>16 DEF MergeCount
  <1>17. CASE MergeKeys(t) BY <1>17 DEF MergeKeys
  <1>18. CASE PublishKeys(t) BY <1>18 DEF PublishKeys
  <1>19. CASE PublishPages(t) BY <1>19 DEF PublishPages
  <1>20. CASE PublishBounds(t) BY <1>20 DEF PublishBounds
  <1>21. CASE PublishReplicas(t) BY <1>21 DEF PublishReplicas
  <1>22. CASE PushArgs(t) BY <1>22 DEF PushArgs
  <1>23. CASE PushKeys(t) BY <1>23 DEF PushKeys
  <1>24. CASE PushModel(t) BY <1>24 DEF PushModel
  <1>25. CASE ClearOverflow(t) BY <1>25 DEF ClearOverflow
  <1>26. CASE MergeLock(t) BY <1>26 DEF MergeLock
  <1>27. CASE MergeInit(t) BY <1>27 DEF MergeInit
  <1>28. CASE MergeUnlock(t) BY <1>28 DEF MergeUnlock
  <1>29. CASE ResetCount(t) BY <1>29 DEF ResetCount
  <1>30. CASE ReleaseShard(t) BY <1>30 DEF ReleaseShard
  <1>31. CASE Release(t) BY <1>31 DEF Release
  <1>32. CASE Enter(t) BY <1>32 DEF Enter
  <1>33. CASE Guard(t) BY <1>33 DEF Guard
  <1>34. CASE FindPage(t) BY <1>34 DEF FindPage
  <1>35. CASE Insert(t) BY <1>35 DEF Insert
  <1>36. CASE Exit(t) BY <1>36 DEF Exit
  <1> QED
    BY <1>1, <1>2, <1>3, <1>4, <1>5, <1>6, <1>7, <1>8, <1>9, <1>10, <1>11,
       <1>12, <1>13, <1>14, <1>15, <1>16, <1>17, <1>18, <1>19, <1>20, <1>21,
       <1>22, <1>23, <1>24, <1>25, <1>26, <1>27, <1>28, <1>29, <1>30, <1>31,
       <1>32, <1>33, <1>34, <1>35, <1>36 DEF Step

LEMMA SubsetsOfThreads ==
  ASSUME NEW S, S \subseteq Threads
  PROVE  IsFiniteSet(S) /\ Cardinality(S) \in Nat
  BY ThreadsAssumption, FS_Subset, FS_CardinalityType

LEMMA WritersStep ==
  ASSUME KeysInv, NEW t \in Threads, Step(t)
  PROVE  WritersCounted' /\ MergesAlone'
  <1> USE DEF KeysInv
  <1>1. /\ \A u \in Threads \ {t} : pc'[u] = pc[u]
        /\ Enters(t) \/ Leaves(t) \/ Remains(t)
        /\ pc'[t] \in Merging => pc[t] \in Merging \/ (pc[t] = "mWait" /\ writers = 0)
    BY KeyEffects DEF IInv
  <1>2. IsFiniteSet(Writers) /\ Cardinality(Writers) \in Nat
    BY SubsetsOfThreads DEF Writers
  <1>3. CASE Enters(t)
    <2>1. Writers' = Writers \cup {t} /\ t \notin Writers
      BY <1>1, <1>3 DEF Enters, Writers, Writing
    <2>2. WritersCounted'
      BY <1>2, <1>3, <2>1, FS_AddElement DEF Enters, WritersCounted
    <2>3. ~late' => \A m \in Threads : pc'[m] \notin Merging
      BY <1>1, <1>3 DEF Enters, Merging
    <2> QED BY <2>2, <2>3 DEF MergesAlone
  <1>4. CASE Leaves(t)
    <2>1. Writers' = Writers \ {t} /\ t \in Writers
      BY <1>1, <1>4 DEF Leaves, Writers, Writing
    <2>2. WritersCounted'
      BY <1>2, <1>4, <2>1, FS_RemoveElement DEF Leaves, WritersCounted
    <2>3. \A m \in Threads : pc'[m] \in Merging => pc[m] \in Merging
      BY <1>1, <1>4 DEF Leaves, Merging
    <2> QED BY <1>4, <2>1, <2>2, <2>3 DEF MergesAlone, Leaves
  <1>5. CASE Remains(t)
    <2>1. Writers' = Writers
      BY <1>1, <1>5 DEF Remains, Writers
    <2>2. WritersCounted'
      BY <1>5, <2>1 DEF Remains, WritersCounted
    <2>3. writers = 0 => Writers = {}
      BY <1>2, FS_EmptySet DEF WritersCounted
    <2> QED BY <1>1, <1>5, <2>1, <2>2, <2>3 DEF MergesAlone, Remains
  <1> QED BY <1>1, <1>3, <1>4, <1>5

\* A step of another thread than the merger, when nobody is late.
LEMMA MergerUndisturbed ==
  ASSUME KeysInv, NEW t \in Threads, Step(t), ~late,
         NEW m \in Threads \ {t}, pc[m] \in Merging
  PROVE  Spares(t)
  <1>1. pc[t] \notin Merging
    BY DEF KeysInv, IInv, MergeExclusive, Merger
  <1>2. pc[t] \notin Writing
    BY DEF KeysInv, MergesAlone, Writers
  <1>3. ~Inserts(t)
    BY <1>2 DEF Inserts, Insert, Writing
  <1> QED
    BY <1>1, <1>3, KeyEffects DEF KeysInv, IInv, Merges

LEMMA LateStays ==
  ASSUME KeysInv, NEW t \in Threads, Step(t), ~late'
  PROVE  ~late
  BY KeyEffects DEF KeysInv, IInv, TypeOK, Enters, Leaves, Remains

LEMMA CopiesStep ==
  ASSUME KeysInv, NEW t \in Threads, Step(t)
  PROVE  MergeCopies'
  <1> SUFFICES ASSUME ~late', NEW m \in Threads
               PROVE  /\ pc'[m] \in {"mMerge", "mKeys"} => counted' = pages'
                      /\ pc'[m] = "mKeys" => merged' = index' \cup pages'
                      /\ pc'[m] = "mPages" => pages' \subseteq index'
    BY DEF MergeCopies
  <1>1. ~late
    BY LateStays
  <1>2. /\ pc[m] \in {"mMerge", "mKeys"} => counted = pages
        /\ pc[m] = "mKeys" => merged = index \cup pages
        /\ pc[m] = "mPages" => pages \subseteq index
    BY <1>1 DEF KeysInv, MergeCopies
  <1>3. CASE m # t
    <2>1. pc'[m] = pc[m]
      BY <1>3, KeyEffects DEF KeysInv, IInv
    <2>2. CASE pc[m] \in Merging
      BY <1>1, <1>2, <1>3, <2>1, <2>2, MergerUndisturbed DEF Spares
    <2>3. CASE pc[m] \notin Merging
      BY <2>1, <2>3 DEF Merging
    <2> QED BY <2>2, <2>3
  <1>4. CASE m = t
    <2> USE <1>2, <1>4 DEF KeysInv, IInv, TypeOK, Goto, data
    <2>1. CASE MergeCount(t) BY <2>1 DEF MergeCount
    <2>2. CASE MergeKeys(t) BY <2>2 DEF MergeKeys
    <2>3. CASE PublishKeys(t) BY <2>3 DEF PublishKeys
    <2>4. ASSUME ~MergeCount(t), ~MergeKeys(t), ~PublishKeys(t)
          PROVE  pc'[t] \notin {"mMerge", "mKeys", "mPages"}
      BY <2>4
      DEF Step, Gate, Version, RouteBounds, RouteReplicas, Check, Lock, Launch,
          Search, Unlock, Count, Decide, TryLoad, TryCas, MergeShard,
          MergeWait, PublishPages, PublishBounds, PublishReplicas, PushArgs,
          PushKeys, PushModel, ClearOverflow, MergeLock, MergeInit,
          MergeUnlock, ResetCount, ReleaseShard, Release, Enter, Guard,
          FindPage, Insert, Exit
    <2> QED BY <2>1, <2>2, <2>3, <2>4
  <1> QED BY <1>3, <1>4

LEMMA TargetStep ==
  ASSUME KeysInv, NEW t \in Threads, Step(t)
  PROVE  TargetStands'
  <1> SUFFICES ASSUME ~late', NEW u \in Threads, pc'[u] = "insert"
               PROVE  target'[u] = live'["pages"]
    BY DEF TargetStands
  <1> USE DEF KeysInv, IInv, TypeOK
  <1>1. ~late
    BY LateStays
  <1>2. pc[u] = "insert" => target[u] = live["pages"]
    BY <1>1 DEF TargetStands
  <1>3. CASE u # t
    <2>1. pc[u] = "insert" /\ target'[u] = target[u]
      BY <1>3, KeyEffects
    <2>2. pc[t] \notin Merging
      BY <1>1, <2>1 DEF MergesAlone, Writers, Writing
    <2>3. live' = live
      BY <2>2, KeyEffects DEF Merges, Inserts, Insert, Spares
    <2> QED BY <1>2, <2>1, <2>3
  <1>4. CASE u = t
    <2>1. FindPage(t)
      BY <1>4
      DEF Step, Goto, Gate, Version, RouteBounds, RouteReplicas, Check, Lock,
          Launch, Search, Unlock, Count, Decide, TryLoad, TryCas, MergeShard,
          MergeWait, MergeCount, MergeKeys, PublishKeys, PublishPages,
          PublishBounds, PublishReplicas, PushArgs, PushKeys, PushModel,
          ClearOverflow, MergeLock, MergeInit, MergeUnlock, ResetCount,
          ReleaseShard, Release, Enter, Guard, Insert, Exit
    <2> QED BY <1>4, <2>1 DEF FindPage, data
  <1> QED BY <1>3, <1>4

LEMMA SurviveStep ==
  ASSUME KeysInv, NEW t \in Threads, Step(t)
  PROVE  StoredKeysSurvive'
  <1> SUFFICES ASSUME ~late' PROVE stored' \subseteq pages' \cup index'
    BY DEF StoredKeysSurvive
  <1> USE DEF KeysInv, IInv
  <1>1. ~late
    BY LateStays
  <1>2. stored \subseteq pages \cup index
    BY <1>1 DEF StoredKeysSurvive
  <1>3. CASE Spares(t)
    BY <1>2, <1>3 DEF Spares
  <1>4. CASE Inserts(t)
    <2>1. target[t] = live["pages"]
      BY <1>1, <1>4 DEF Inserts, Insert, TargetStands
    <2> QED BY <1>2, <1>4, <2>1 DEF Inserts, Insert
  <1>5. CASE Merges(t) /\ ~Spares(t)
    <2>1. CASE PublishKeys(t)
      <3>1. index' = index \cup pages /\ pages' = pages /\ stored' = stored
        BY <1>1, <2>1 DEF PublishKeys, MergeCopies, ghosts
      <3> QED BY <1>2, <3>1
    <2>2. CASE PublishPages(t)
      <3>1. pages \subseteq index /\ index' = index /\ stored' = stored
        BY <1>1, <2>2 DEF PublishPages, MergeCopies, ghosts
      <3> QED BY <1>2, <3>1
    <2>3. ASSUME ~PublishKeys(t), ~PublishPages(t)
          PROVE  UNCHANGED <<pages, index, stored>>
      BY <1>5, <2>3
      DEF Step, data, ghosts, Merges, Merging, Gate, Version, RouteBounds,
          RouteReplicas, Check, Lock, Launch, Search, Unlock, Count, Decide,
          TryLoad, TryCas, MergeShard, MergeWait, MergeCount, MergeKeys,
          PublishBounds, PublishReplicas, PushArgs, PushKeys, PushModel,
          ClearOverflow, MergeLock, MergeInit, MergeUnlock, ResetCount,
          ReleaseShard, Release, Enter, Guard, FindPage, Insert, Exit
    <2> QED BY <1>2, <2>1, <2>2, <2>3
  <1> QED
    BY <1>3, <1>4, <1>5, KeyEffects

LEMMA KeysInit == Init => KeysInv
  <1> SUFFICES ASSUME Init PROVE KeysInv
    OBVIOUS
  <1>1. Writers = {}
    BY DEF Init, Writers, Writing
  <1>2. WritersCounted
    BY <1>1, FS_EmptySet DEF Init, WritersCounted
  <1>3. MergesAlone /\ MergeCopies /\ TargetStands /\ StoredKeysSurvive
    BY <1>1 DEF Init, MergesAlone, MergeCopies, TargetStands, StoredKeysSurvive
  <1> QED BY <1>2, <1>3, IInvInit DEF KeysInv

LEMMA KeysStep == KeysInv /\ [Next]_vars => KeysInv'
  <1> SUFFICES ASSUME KeysInv, [Next]_vars PROVE KeysInv'
    OBVIOUS
  <1>1. IInv'
    BY IInvStep DEF KeysInv
  <1>2. ASSUME NEW t \in Threads, Step(t) PROVE KeysInv'
    BY <1>1, <1>2, WritersStep, CopiesStep, TargetStep, SurviveStep DEF KeysInv
  <1>3. CASE UNCHANGED vars
    BY <1>1, <1>3
    DEF vars, locks, counts, data, regs, ghosts, KeysInv, WritersCounted,
        Writers, MergesAlone, MergeCopies, TargetStands, StoredKeysSurvive
  <1> QED BY <1>2, <1>3 DEF Next

\* A key some page has accepted is in the pages or in the key array, through
\* all merges, unless a writer has slipped in behind the wait of a merger.
THEOREM KeysSurvive == Spec => []StoredKeysSurvive
  <1>1. KeysInv => StoredKeysSurvive
    BY DEF KeysInv
  <1> QED BY KeysInit, KeysStep, <1>1, PTL DEF Spec

-----------------------------------------------------------------------------
(* The counter.                                                            *)

\* The threads whose batch is counted but not yet in the pages, and those that
\* get there without passing the gate and the version check again.
Pending   == {t \in Threads : pc[t] \in {"decide", "enter", "guard", "page", "insert"}}
CanInsert == {t \in Threads :
                pc[t] \in {"lock", "launch", "search", "unlock", "count"}} \cup Pending

\* Who is in the pages or on its way there has been counted; what a reset
\* forgets is one batch for each thread but the merger.
CountedOrPending ==
  Cardinality(pages) + Cardinality(overflow) + Cardinality(Pending)
    <= written + Cardinality(Threads) - 1

\* The merger has emptied the pages, and then the trees: what is in them now is
\* of threads that were past their check, each with one batch, and while
\* merge_lock is held nobody passes a check.
RefilledOnce ==
  \A m \in Threads :
    /\ pc[m] \in {"mBounds", "mReplicas", "mArgs", "mDpuKeys", "mModel", "mOverflow"} =>
         Cardinality(pages) + Cardinality(CanInsert) <= Cardinality(Threads) - 1
    /\ pc[m] \in {"mLock", "mInit", "mUnlock", "mReset"} =>
         Cardinality(pages) + Cardinality(overflow) + Cardinality(CanInsert)
           <= Cardinality(Threads) - 1

CountInv == IInv /\ CountedOrPending /\ RefilledOnce

LEMMA AddOne ==
  ASSUME NEW S, IsFiniteSet(S), NEW x
  PROVE  Cardinality(S \cup {x}) \in Nat /\ Cardinality(S \cup {x}) <= Cardinality(S) + 1
  <1>1. IsFiniteSet(S \cup {x})
    BY FS_AddElement
  <1>2. Cardinality(S \cup {x}) = Cardinality(S) \/ Cardinality(S \cup {x}) = Cardinality(S) + 1
    BY FS_AddElement
  <1>3. Cardinality(S) \in Nat /\ Cardinality(S \cup {x}) \in Nat
    BY <1>1, FS_CardinalityType
  <1> QED BY <1>2, <1>3

LEMMA Counting ==
  ASSUME CountInv
  PROVE  /\ IsFiniteSet(pages) /\ IsFiniteSet(overflow)
         /\ IsFiniteSet(Pending) /\ IsFiniteSet(CanInsert)
         /\ Cardinality(pages) \in Nat /\ Cardinality(overflow) \in Nat
         /\ Cardinality(Pending) \in Nat /\ Cardinality(CanInsert) \in Nat
         /\ Cardinality(Pending) <= Cardinality(CanInsert)
         /\ written \in Nat /\ Cardinality(Threads) \in Nat
  <1>1. pages \subseteq Keys /\ overflow \subseteq Keys /\ written \in Nat
    BY DEF CountInv, IInv, TypeOK
  <1>2. Pending \subseteq CanInsert /\ CanInsert \subseteq Threads
    BY DEF Pending, CanInsert
  <1>3. Cardinality(Pending) <= Cardinality(CanInsert)
    BY <1>2, SubsetsOfThreads, FS_Subset
  <1> QED
    BY <1>1, <1>2, <1>3, SubsetsOfThreads, KeysFinite, FS_Subset, FS_CardinalityType

\* A step that leaves the keys and the counter alone, by which nobody begins to
\* be pending, or able to insert but through the check.
Quiet(t) ==
  /\ UNCHANGED <<pages, overflow, written>>
  /\ pc'[t] \in {"decide", "enter", "guard", "page", "insert"}
       => pc[t] \in {"decide", "enter", "guard", "page", "insert"}
  /\ pc'[t] \in {"lock", "launch", "search", "unlock", "count"}
       => pc[t] \in {"lock", "launch", "search", "unlock", "count"}
            \/ (pc[t] = "check" /\ mergeWord = seen[t])
  /\ pc'[t] \in Merging => pc[t] \in Waiting \cup Merging
  /\ pc'[t] \in {"mBounds", "mReplicas", "mArgs", "mDpuKeys", "mModel", "mOverflow"}
       => pc[t] \in {"mBounds", "mReplicas", "mArgs", "mDpuKeys", "mModel", "mOverflow"}
  /\ pc'[t] \in {"mLock", "mInit", "mUnlock", "mReset"}
       => pc[t] \in {"mLock", "mInit", "mUnlock", "mReset"}

\* The other steps.
Loud(t) == Count(t) \/ Insert(t) \/ PublishPages(t) \/ ClearOverflow(t) \/ ResetCount(t)

LEMMA CountEffects ==
  ASSUME TypeOK, NEW t \in Threads, Step(t), ~Loud(t)
  PROVE  Quiet(t)
  <1> USE DEF TypeOK, Goto, Merging, Waiting, locks, counts, data, Quiet
  <1>1. CASE Gate(t) BY <1>1 DEF Gate
  <1>2. CASE Version(t) BY <1>2 DEF Version
  <1>3. CASE RouteBounds(t) BY <1>3 DEF RouteBounds
  <1>4. CASE RouteReplicas(t) BY <1>4 DEF RouteReplicas
  <1>5. CASE Check(t) BY <1>5 DEF Check
  <1>6. CASE Lock(t) BY <1>6 DEF Lock
  <1>7. CASE Launch(t) BY <1>7 DEF Launch
  <1>8. CASE Search(t) BY <1>8 DEF Search
  <1>9. CASE Unlock(t) BY <1>9 DEF Unlock
  <1>11. CASE Decide(t) BY <1>11 DEF Decide
  <1>12. CASE TryLoad(t) BY <1>12 DEF TryLoad
  <1>13. CASE TryCas(t) BY <1>13 DEF TryCas
  <1>14. CASE MergeShard(t) BY <1>14 DEF MergeShard
  <1>15. CASE MergeWait(t) BY <1>15 DEF MergeWait
  <1>16. CASE MergeCount(t) BY <1>16 DEF MergeCount
  <1>17. CASE MergeKeys(t) BY <1>17 DEF MergeKeys
  <1>18. CASE PublishKeys(t) BY <1>18 DEF PublishKeys
  <1>20. CASE PublishBounds(t) BY <1>20 DEF PublishBounds
  <1>21. CASE PublishReplicas(t) BY <1>21 DEF PublishReplicas
  <1>22. CASE PushArgs(t) BY <1>22 DEF PushArgs
  <1>23. CASE PushKeys(t) BY <1>23 DEF PushKeys
  <1>24. CASE PushModel(t) BY <1>24 DEF PushModel
  <1>26. CASE MergeLock(t) BY <1>26 DEF MergeLock
  <1>27. CASE MergeInit(t) BY <1>27 DEF MergeInit
  <1>28. CASE MergeUnlock(t) BY <1>28 DEF MergeUnlock
  <1>30. CASE ReleaseShard(t) BY <1>30 DEF ReleaseShard
  <1>31. CASE Release(t) BY <1>31 DEF Release
  <1>32. CASE Enter(t) BY <1>32 DEF Enter
  <1>33. CASE Guard(t) BY <1>33 DEF Guard
  <1>34. CASE FindPage(t) BY <1>34 DEF FindPage
  <1>36. CASE Exit(t) BY <1>36 DEF Exit
  <1> QED
    BY <1>1, <1>2, <1>3, <1>4, <1>5, <1>6, <1>7, <1>8, <1>9, <1>11, <1>12,
       <1>13, <1>14, <1>15, <1>16, <1>17, <1>18, <1>20, <1>21, <1>22, <1>23,
       <1>24, <1>26, <1>27, <1>28, <1>30, <1>31, <1>32, <1>33, <1>34, <1>36
    DEF Step, Loud

\* While a merger is past its wait nobody passes the check, for the lock bit
\* is set, and there is no other merger.
LEMMA NobodyPasses ==
  ASSUME CountInv, NEW m \in Threads, pc[m] \in Merging, NEW t \in Threads \ {m}
  PROVE  pc[t] \notin Waiting \cup Merging /\ ~(pc[t] = "check" /\ mergeWord = seen[t])
  <1>1. IsSet(mergeWord)
    BY DEF CountInv, IInv, MergerHoldsLock, Merger
  <1>2. pc[t] = "check" => ~IsSet(seen[t])
    BY DEF CountInv, IInv, SeenIsPast, Versioned, RoutedBounds, RoutedReplicas
  <1> QED BY <1>1, <1>2 DEF CountInv, IInv, MergeExclusive, Merger

Refilling == {"mBounds", "mReplicas", "mArgs", "mDpuKeys", "mModel", "mOverflow"}
Refilled  == {"mLock", "mInit", "mUnlock", "mReset"}

LEMMA QuietStep ==
  ASSUME CountInv, NEW t \in Threads, Step(t), ~Loud(t)
  PROVE  CountedOrPending' /\ RefilledOnce'
  <1>1. Quiet(t) /\ \A u \in Threads \ {t} : pc'[u] = pc[u]
    BY CountEffects, KeyEffects DEF CountInv, IInv
  <1>2. Pending' \subseteq Pending
    BY <1>1 DEF Quiet, Pending
  <1>3. Cardinality(Pending') \in Nat /\ Cardinality(Pending') <= Cardinality(Pending)
    BY <1>2, Counting, FS_Subset, FS_CardinalityType
  <1>4. CountedOrPending'
    BY <1>1, <1>3, Counting DEF CountInv, CountedOrPending, Quiet
  <1>5. ASSUME NEW m \in Threads, pc'[m] \in Refilling \cup Refilled
        PROVE  /\ pc[m] \in Refilling \cup Refilled
               /\ pc'[m] \in Refilling => pc[m] \in Refilling
               /\ pc'[m] \in Refilled => pc[m] \in Refilled
               /\ Cardinality(CanInsert') \in Nat
               /\ Cardinality(CanInsert') <= Cardinality(CanInsert)
    <2>1. /\ pc'[m] \in Refilling => pc[m] \in Refilling
          /\ pc'[m] \in Refilled => pc[m] \in Refilled
      BY <1>1 DEF Quiet, Refilling, Refilled
    <2>2. pc[m] \in Merging
      BY <1>5, <2>1 DEF Refilling, Refilled, Merging
    <2>3. CanInsert' \subseteq CanInsert
      <3>1. CASE m = t
        BY <1>1, <1>5, <3>1 DEF CanInsert, Pending, Refilling, Refilled
      <3>2. CASE m # t
        BY <1>1, <2>2, <3>2, NobodyPasses DEF CanInsert, Pending, Quiet
      <3> QED BY <3>1, <3>2
    <2> QED
      BY <1>5, <2>1, <2>3, Counting, FS_Subset, FS_CardinalityType
  <1>6. RefilledOnce'
    <2> SUFFICES ASSUME NEW m \in Threads
                 PROVE  /\ pc'[m] \in Refilling =>
                             Cardinality(pages)' + Cardinality(CanInsert)'
                               <= Cardinality(Threads) - 1
                        /\ pc'[m] \in Refilled =>
                             Cardinality(pages)' + Cardinality(overflow)' + Cardinality(CanInsert)'
                               <= Cardinality(Threads) - 1
      BY DEF RefilledOnce, Refilling, Refilled
    <2>1. pages' = pages /\ overflow' = overflow
      BY <1>1 DEF Quiet
    <2>2. /\ pc[m] \in Refilling =>
               Cardinality(pages) + Cardinality(CanInsert) <= Cardinality(Threads) - 1
          /\ pc[m] \in Refilled =>
               Cardinality(pages) + Cardinality(overflow) + Cardinality(CanInsert)
                 <= Cardinality(Threads) - 1
      BY DEF CountInv, RefilledOnce, Refilling, Refilled
    <2> QED BY <1>5, <2>1, <2>2, Counting
  <1> QED BY <1>4, <1>6

\* The steps that move keys or count them.
LEMMA LoudStep ==
  ASSUME CountInv, NEW t \in Threads, Step(t), Loud(t)
  PROVE  CountedOrPending' /\ RefilledOnce'
  <1>1. \A u \in Threads \ {t} : pc'[u] = pc[u]
    BY KeyEffects DEF CountInv, IInv
  <1>2. t \in DOMAIN pc
    BY DEF CountInv, IInv, TypeOK
  <1>3. CASE Count(t)
    <2>1. /\ pc[t] = "count" /\ pc'[t] = "decide" /\ written' = written + 1
          /\ UNCHANGED <<pages, overflow>>
      BY <1>2, <1>3 DEF Count, Goto, data
    <2>2. Pending' = Pending \cup {t} /\ CanInsert' = CanInsert
      BY <1>1, <2>1 DEF Pending, CanInsert
    <2>3. Cardinality(Pending') <= Cardinality(Pending) + 1 /\ Cardinality(Pending') \in Nat
      BY <2>2, Counting, AddOne
    <2>4. CountedOrPending'
      BY <2>1, <2>3, Counting DEF CountInv, CountedOrPending
    <2>5. RefilledOnce'
      BY <1>1, <2>1, <2>2 DEF CountInv, RefilledOnce
    <2> QED BY <2>4, <2>5
  <1>4. CASE Insert(t)
    <2>1. pc[t] = "insert" /\ pc'[t] = "exit" /\ written' = written
      BY <1>2, <1>4 DEF Insert, Goto, counts
    <2>2. \/ pages' = pages /\ overflow' = overflow
          \/ pages' = pages \cup {Batch(t)} /\ overflow' = overflow
          \/ pages' = pages /\ overflow' = overflow \cup {Batch(t)}
      BY <1>4 DEF Insert
    <2>3. /\ Cardinality(pages') \in Nat /\ Cardinality(overflow') \in Nat
          /\ Cardinality(pages') <= Cardinality(pages) + 1
          /\ Cardinality(pages') + Cardinality(overflow')
               <= Cardinality(pages) + Cardinality(overflow) + 1
      <3>1. /\ Cardinality(pages \cup {Batch(t)}) \in Nat
            /\ Cardinality(pages \cup {Batch(t)}) <= Cardinality(pages) + 1
            /\ Cardinality(overflow \cup {Batch(t)}) \in Nat
            /\ Cardinality(overflow \cup {Batch(t)}) <= Cardinality(overflow) + 1
        BY Counting, AddOne
      <3>2. CASE pages' = pages /\ overflow' = overflow BY <3>2, Counting
      <3>3. CASE pages' = pages \cup {Batch(t)} /\ overflow' = overflow
        BY <3>1, <3>3, Counting
      <3>4. CASE pages' = pages /\ overflow' = overflow \cup {Batch(t)}
        BY <3>1, <3>4, Counting
      <3> QED BY <2>2, <3>2, <3>3, <3>4
    <2>4. /\ Pending' = Pending \ {t} /\ t \in Pending
          /\ CanInsert' = CanInsert \ {t} /\ t \in CanInsert
      BY <1>1, <2>1 DEF Pending, CanInsert
    <2>5. /\ Cardinality(Pending') = Cardinality(Pending) - 1
          /\ Cardinality(CanInsert') = Cardinality(CanInsert) - 1
      BY <2>4, Counting, FS_RemoveElement
    <2>6. CountedOrPending'
      BY <2>1, <2>3, <2>5, Counting DEF CountInv, CountedOrPending
    <2>7. \A m \in Threads : pc'[m] \in Refilling \cup Refilled => pc[m] = pc'[m]
      BY <1>1, <2>1 DEF Refilling, Refilled
    <2>8. RefilledOnce'
      BY <2>3, <2>5, <2>7, Counting DEF CountInv, RefilledOnce, Refilling, Refilled
    <2> QED BY <2>6, <2>8
  <1>5. ASSUME PublishPages(t) \/ ClearOverflow(t) \/ ResetCount(t)
        PROVE  CountedOrPending' /\ RefilledOnce'
    <2>1. /\ pc[t] \in Merging /\ pc[t] \notin {"mLock", "mInit", "mUnlock"}
          /\ pc'[t] \in {"mBounds", "mLock", "mShardRel"}
      BY <1>2, <1>5 DEF PublishPages, ClearOverflow, ResetCount, Goto, Merging
    <2>2. Pending' = Pending /\ CanInsert' = CanInsert
      BY <1>1, <2>1 DEF Pending, CanInsert, Merging
    <2>3. \A m \in Threads : pc'[m] \in Refilling \cup Refilled => m = t
      BY <1>1, <2>1, NobodyPasses DEF Refilling, Refilled, Merging
    <2>4. CASE PublishPages(t)
      <3>1. /\ pages' = {} /\ pc'[t] = "mBounds"
            /\ UNCHANGED <<overflow, written>>
        BY <1>2, <2>4 DEF PublishPages, Goto, counts
      <3>2. Cardinality(pages') = 0
        BY <3>1, FS_EmptySet
      <3>3. CanInsert \subseteq Threads \ {t}
        BY <2>1 DEF CanInsert, Pending, Merging
      <3>4. Cardinality(CanInsert) <= Cardinality(Threads) - 1
        <4>1. /\ IsFiniteSet(Threads \ {t})
              /\ Cardinality(Threads \ {t}) = Cardinality(Threads) - 1
          BY ThreadsAssumption, FS_RemoveElement
        <4> QED BY <3>3, <4>1, FS_Subset
      <3>5. CountedOrPending'
        BY <2>2, <3>1, <3>2, Counting DEF CountInv, CountedOrPending
      <3>6. RefilledOnce'
        BY <2>2, <2>3, <3>1, <3>2, <3>4, Counting DEF RefilledOnce, Refilling, Refilled
      <3> QED BY <3>5, <3>6
    <2>5. CASE ClearOverflow(t)
      <3>1. /\ overflow' = {} /\ pc[t] = "mOverflow" /\ pc'[t] = "mLock"
            /\ UNCHANGED <<pages, written>>
        BY <1>2, <2>5 DEF ClearOverflow, Goto, counts
      <3>2. Cardinality(overflow') = 0
        BY <3>1, FS_EmptySet
      <3>3. CountedOrPending'
        BY <2>2, <3>1, <3>2, Counting DEF CountInv, CountedOrPending
      <3>4. Cardinality(pages) + Cardinality(CanInsert) <= Cardinality(Threads) - 1
        BY <3>1 DEF CountInv, RefilledOnce
      <3>5. RefilledOnce'
        BY <2>2, <2>3, <3>1, <3>2, <3>4, Counting DEF RefilledOnce, Refilling, Refilled
      <3> QED BY <3>3, <3>5
    <2>6. CASE ResetCount(t)
      <3>1. /\ written' = 0 /\ pc[t] = "mReset" /\ pc'[t] = "mShardRel"
            /\ UNCHANGED <<pages, overflow>>
        BY <1>2, <2>6 DEF ResetCount, Goto, data
      <3>2. Cardinality(pages) + Cardinality(overflow) + Cardinality(CanInsert)
              <= Cardinality(Threads) - 1
        BY <3>1 DEF CountInv, RefilledOnce
      <3>3. CountedOrPending'
        BY <2>2, <3>1, <3>2, Counting DEF CountedOrPending
      <3>4. RefilledOnce'
        BY <2>3, <3>1 DEF RefilledOnce, Refilling, Refilled
      <3> QED BY <3>3, <3>4
    <2> QED BY <1>5, <2>4, <2>5, <2>6
  <1> QED BY <1>3, <1>4, <1>5 DEF Loud

LEMMA CountInit == Init => CountInv
  <1> SUFFICES ASSUME Init PROVE CountInv
    OBVIOUS
  <1>1. pages = {} /\ overflow = {} /\ Pending = {} /\ written = 0
    BY DEF Init, Pending
  <1>2. Cardinality(Threads) \in Nat /\ Cardinality(Threads) # 0
    BY ThreadsAssumption, FS_CardinalityType, FS_EmptySet
  <1>3. CountedOrPending
    BY <1>1, <1>2, FS_EmptySet DEF CountedOrPending
  <1>4. RefilledOnce
    BY DEF Init, RefilledOnce
  <1> QED BY <1>3, <1>4, IInvInit DEF CountInv

LEMMA CountStep == CountInv /\ [Next]_vars => CountInv'
  <1> SUFFICES ASSUME CountInv, [Next]_vars PROVE CountInv'
    OBVIOUS
  <1>1. IInv'
    BY IInvStep DEF CountInv
  <1>2. ASSUME NEW t \in Threads, Step(t) PROVE CountInv'
    BY <1>1, <1>2, QuietStep, LoudStep DEF CountInv
  <1>3. CASE UNCHANGED vars
    BY <1>1, <1>3
    DEF vars, locks, counts, data, regs, ghosts, CountInv, CountedOrPending,
        RefilledOnce, Pending, CanInsert
  <1> QED BY <1>2, <1>3 DEF Next

\* The counter that triggers a merge misses at most one batch for each thread
\* but one, for any number of threads and merges.
THEOREM CounterKeepsUp == Spec => []BufferedIsCounted
  <1>1. CountInv => BufferedIsCounted
    <2> SUFFICES ASSUME CountInv PROVE BufferedIsCounted
      OBVIOUS
    <2> QED BY Counting DEF CountInv, CountedOrPending, BufferedIsCounted
  <1> QED BY CountInit, CountStep, <1>1, PTL DEF Spec
=============================================================================
