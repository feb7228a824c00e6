----------------------------- MODULE PageMerge -----------------------------
(***************************************************************************)
(* The merge of the buffer pages into the key array: the threads that      *)
(* merge_and_retrain (host/pimlex_host.cpp) starts, up to their join.      *)
(* Each counts the keys of its pages; behind a barrier thread 0 lays out   *)
(* the new array; behind a second barrier each merges its pages with its   *)
(* slice of the old keys into its slice of the new ones; behind a third    *)
(* each copies every Ratio-th key of a slice to the partial keys.          *)
(*                                                                         *)
(* Arrays are functions from 0, as in the code.  Payloads go where their   *)
(* keys go and are left out.  PAGE_RATIO and INTERLEAVE are both Ratio.    *)
(***************************************************************************)
EXTENDS Integers, FiniteSets, Functions, FiniteSetsExt

CONSTANTS NumThreads,   \* MERGE_THREAD_NUM (32 in the code)
          Ratio,        \* keys of the array for each page (8 in the code)
          Arrays,       \* the sets of keys the array may hold
          Inserted,     \* the sets of keys that may have been inserted
          None          \* what nobody has written

ASSUME NumThreadsAssumption == NumThreads \in Nat \ {0}
ASSUME RatioAssumption      == Ratio \in Nat \ {0}
ASSUME ArraysAssumption     == \A S \in Arrays : IsFiniteSet(S) /\ S # {}
ASSUME KeysAssumption       == Arrays \cup Inserted \subseteq SUBSET Nat

VARIABLES
  keys,        \* dindex.keys
  bufferPages, \* dindex.buffer_pages, the keys of each
  pc,          \* where each thread is
  keyCount,    \* key_count
  mergeOffset, \* merge_offset_array
  newTotal,    \* new_total_size
  newKeys,     \* new_keys
  newPartial,  \* new_partial_keys and the slot behind it
  cursor,      \* the locals of each thread's merge loop
  error        \* "error in merge" has been printed

dindex == <<keys, bufferPages>>
layout == <<keyCount, mergeOffset, newTotal>>
vars   == <<dindex, pc, layout, newKeys, newPartial, cursor, error>>

Threads == 0 .. NumThreads - 1
Last    == NumThreads - 1

\* The keys of S in order, from slot 0.
Sorted(S) ==
  [i \in 0 .. Cardinality(S) - 1 |->
     CHOOSE k \in S : Cardinality({x \in S : x < k}) = i]

Values(a) == {a[i] : i \in DOMAIN a}
Size(a)   == Cardinality(DOMAIN a)

TotalSize == Size(keys)
NumPages  == Size(bufferPages)

\* data_size of each page.
PageSizes == [p \in DOMAIN bufferPages |-> Size(bufferPages[p])]

SumOver(f, S) == FoldFunctionOnSet(+, 0, f, S)

\* The page insert_payload puts k into: the keys between two neighbours in
\* partial_keys.  The last interval has no neighbour; its keys are dropped.
PagesFor(old, S) ==
  LET partial == [i \in 0 .. Size(old) \div Ratio - 1 |-> old[Ratio * i]]
  IN [p \in 0 .. Size(old) \div Ratio |->
        Sorted({k \in S : /\ p < Size(partial) - 1
                          /\ partial[p] <= k /\ k < partial[p + 1]})]

Goto(t, label) == pc' = [pc EXCEPT ![t] = label]

PC == {"count", "bar1", "plan", "bar2", "start", "merge", "bar3", "partial",
       "done"}

NoCursor == [page |-> 0, inPage |-> 0, old |-> 0, new |-> 0, targets |-> 0,
             oldKey |-> None, bufKey |-> None, oldEnd |-> FALSE,
             bufEnd |-> FALSE]

Init ==
  /\ \E A \in Arrays, S \in Inserted :
       /\ keys = Sorted(A)
       /\ bufferPages = PagesFor(Sorted(A), S)
  /\ pc = [t \in Threads |-> "count"]
  /\ keyCount = [t \in Threads |-> 0]
  /\ mergeOffset = [t \in Threads |-> 0]
  /\ newTotal = 0
  /\ newKeys = <<>> /\ newPartial = <<>>
  /\ cursor = [t \in Threads |-> NoCursor]
  /\ error = FALSE

-----------------------------------------------------------------------------
(* The slices.                                                             *)

StartPage(t) == (NumPages \div NumThreads) * t
EndPage(t) ==
  IF t = Last THEN NumPages ELSE (NumPages \div NumThreads) * (t + 1)

\* cur_old_off at the start, and max_old_input_size.
StartOld(t) == StartPage(t) * Ratio
EndOld(t)   == IF t = Last THEN TotalSize ELSE EndPage(t) * Ratio

\* One iteration more than there are inputs.
TotalOpsMore(t) == EndOld(t) - StartOld(t) + keyCount[t] + 1

TotalOps(t) == EndOld(t) - StartOld(t) + keyCount[t]

-----------------------------------------------------------------------------
(* Count, and lay out.                                                     *)

Count(t) ==
  /\ pc[t] = "count"
  /\ keyCount' = [keyCount EXCEPT ![t] =
                    SumOver(PageSizes, StartPage(t) .. EndPage(t) - 1)]
  /\ Goto(t, "bar1")
  /\ UNCHANGED <<dindex, mergeOffset, newTotal, newKeys, newPartial, cursor,
                 error>>

\* A barrier that lets everybody pass.
PassBarrierAlone(t, barrier, before, label) ==
  /\ pc[t] = barrier
  /\ Goto(t, label)
  /\ UNCHANGED <<dindex, layout, newKeys, newPartial, cursor, error>>

\* A barrier that lets a thread pass while all others are at it.
PassBarrierTogether(t, barrier, before, label) ==
  /\ pc[t] = barrier
  /\ \A u \in Threads : pc[u] \in {barrier, "plan"}
  /\ Goto(t, label)
  /\ UNCHANGED <<dindex, layout, newKeys, newPartial, cursor, error>>

\* pthread_barrier_wait: go on when no thread is still before the barrier.
PassBarrier(t, barrier, before, label) ==
  /\ pc[t] = barrier
  /\ \A u \in Threads : pc[u] \notin before
  /\ Goto(t, label)
  /\ UNCHANGED <<dindex, layout, newKeys, newPartial, cursor, error>>

Before1 == {"count"}
Before2 == Before1 \cup {"bar1", "plan"}
Before3 == Before2 \cup {"bar2", "start", "merge"}

Barrier1(t) ==
  PassBarrier(t, "bar1", Before1, IF t = 0 THEN "plan" ELSE "bar2")
Barrier2(t) == PassBarrier(t, "bar2", Before2, "start")
Barrier3(t) == PassBarrier(t, "bar3", Before3, "partial")

\* The keys counted by the threads up to t, t included.
OffsetBehind(t) == SumOver(keyCount, 0 .. t)

\* The keys counted by the threads before t.
Offset(t) == SumOver(keyCount, 0 .. t - 1)

Plan(t) ==
  /\ pc[t] = "plan"
  /\ LET total == TotalSize + SumOver(keyCount, Threads)
     IN /\ newTotal' = total
        /\ newKeys' = [i \in 0 .. total - 1 |-> None]
        /\ newPartial' = [i \in 0 .. total \div Ratio |-> None]
  /\ mergeOffset' = [u \in Threads |-> Offset(u)]
  /\ Goto(t, "bar2")
  /\ UNCHANGED <<dindex, keyCount, cursor, error>>

-----------------------------------------------------------------------------
(* Merge.                                                                  *)

\* The next old key, as long as there is one below the limit.
FetchOld(c, limit) ==
  IF c.old < limit THEN [c EXCEPT !.oldKey = keys[c.old], !.old = @ + 1]
  ELSE [c EXCEPT !.oldEnd = TRUE]

\* The next page that is not empty.  The code looks for it without a bound:
\* behind the pages it stops at whatever memory is there that is not zero.
NextPage(p) ==
  Min({q \in p .. NumPages : q = NumPages \/ Size(bufferPages[q]) # 0})

\* The first key of the next page, unless that is no longer one of t's.
FetchPage(c, t, p) ==
  LET q == NextPage(p)
  IN IF q < EndPage(t)
     THEN [c EXCEPT !.page = q, !.bufKey = bufferPages[q][0], !.inPage = 1]
     ELSE [c EXCEPT !.page = q, !.inPage = 0, !.bufEnd = TRUE]

\* The next key of the pages.
FetchBuf(c, t) ==
  IF c.inPage < Size(bufferPages[c.page])
  THEN [c EXCEPT !.bufKey = bufferPages[c.page][c.inPage], !.inPage = @ + 1]
  ELSE FetchPage(c, t, c.page + 1)

\* The first key of either input.  The old one is read without a look at the
\* end of the array; behind it the thread has nothing to merge.
Start(t) ==
  /\ pc[t] = "start"
  /\ LET old == StartOld(t)
         c == [NoCursor EXCEPT
                 !.new = old + mergeOffset[t], !.old = old + 1,
                 !.oldKey = IF old < TotalSize THEN keys[old] ELSE None]
     IN cursor' = [cursor EXCEPT ![t] = FetchPage(c, t, StartPage(t))]
  /\ Goto(t, "merge")
  /\ UNCHANGED <<dindex, layout, newKeys, newPartial, error>>

\* The iterations of the loop: k goes to the next slot, c is the cursor after.
Put(t, k, c) ==
  /\ newKeys' = [newKeys EXCEPT ![c.new] = k]
  /\ cursor' = [cursor EXCEPT ![t] =
                  [c EXCEPT !.new = @ + 1, !.targets = @ + 1]]
  /\ UNCHANGED <<dindex, pc, layout, newPartial, error>>

Iterating(t, oldEnd, bufEnd) ==
  /\ pc[t] = "merge" /\ cursor[t].targets < TotalOps(t)
  /\ cursor[t].oldEnd = oldEnd /\ cursor[t].bufEnd = bufEnd

\* The old key is smaller.
PutOld(t) ==
  LET c == cursor[t]
  IN /\ Iterating(t, FALSE, FALSE) /\ c.oldKey < c.bufKey
     /\ Put(t, c.oldKey, FetchOld(c, EndOld(t)))

\* The buffered key is smaller, or both are equal and the old one is skipped.
PutBuf(t) ==
  LET c == cursor[t]
      d == IF c.oldKey = c.bufKey THEN FetchOld(c, EndOld(t)) ELSE c
  IN /\ Iterating(t, FALSE, FALSE) /\ c.oldKey >= c.bufKey
     /\ Put(t, c.bufKey, FetchBuf(d, t))

\* Only old keys are left.  The limit is the end of the array, not that of the
\* slice: the iterations end the loop, not the keys.
PutRestOld(t) ==
  LET c == cursor[t]
  IN /\ Iterating(t, FALSE, TRUE)
     /\ Put(t, c.oldKey, FetchOld(c, TotalSize))

\* Only buffered keys are left.
PutRestBuf(t) ==
  LET c == cursor[t]
  IN /\ Iterating(t, TRUE, FALSE)
     /\ Put(t, c.bufKey, FetchBuf(c, t))

\* "error in merge"
PutNothing(t) ==
  /\ Iterating(t, TRUE, TRUE)
  /\ error' = TRUE
  /\ cursor' = [cursor EXCEPT ![t].targets = @ + 1]
  /\ UNCHANGED <<dindex, pc, layout, newKeys, newPartial>>

EndMerge(t) ==
  /\ pc[t] = "merge" /\ cursor[t].targets = TotalOps(t)
  /\ Goto(t, "bar3")
  /\ UNCHANGED <<dindex, layout, newKeys, newPartial, cursor, error>>

-----------------------------------------------------------------------------
(* Partial keys.                                                           *)

\* The end of a slice with no rest for the last thread.
EndProcessingEven(t) ==
  ((newTotal \div NumThreads) - ((newTotal \div NumThreads) % Ratio)) * (t + 1)

\* processing_num_keys: the keys of a thread, rounded down to a multiple of
\* Ratio; the last thread takes the rest.
Processing ==
  (newTotal \div NumThreads) - ((newTotal \div NumThreads) % Ratio)
EndProcessing(t) == IF t = Last THEN newTotal ELSE Processing * (t + 1)

\* Each key of the slice that is at a multiple of Ratio.
Partial(t) ==
  /\ pc[t] = "partial"
  /\ newPartial' = [i \in DOMAIN newPartial |->
       IF Ratio * i \in Processing * t .. EndProcessing(t) - 1
       THEN newKeys[Ratio * i] ELSE newPartial[i]]
  /\ Goto(t, "done")
  /\ UNCHANGED <<dindex, layout, newKeys, cursor, error>>

-----------------------------------------------------------------------------
Step(t) ==
  \/ Count(t) \/ Barrier1(t) \/ Plan(t) \/ Barrier2(t)
  \/ Start(t) \/ PutOld(t) \/ PutBuf(t) \/ PutRestOld(t) \/ PutRestBuf(t)
  \/ PutNothing(t) \/ EndMerge(t) \/ Barrier3(t) \/ Partial(t)

Joined == \A t \in Threads : pc[t] = "done"

Next == (\E t \in Threads : Step(t)) \/ (Joined /\ UNCHANGED vars)

Spec == Init /\ [][Next]_vars

\* Each thread is an OS thread that the scheduler keeps running.
FairSpec == Spec /\ \A t \in Threads : WF_vars(Step(t))

-----------------------------------------------------------------------------
\* The keys in the pages.
Buffered == UNION {Values(bufferPages[p]) : p \in DOMAIN bufferPages}

\* No slot of the new arrays is written twice, by one thread or by two: the
\* slices the threads have computed for themselves do not overlap, whatever
\* the pages hold and whether or not a buffered key is in the array, too.
WrittenOnce ==
  [][/\ \A i \in DOMAIN newKeys :
          newKeys[i] # None => newKeys'[i] = newKeys[i]
     /\ \A i \in DOMAIN newPartial :
          newPartial[i] # None => newPartial'[i] = newPartial[i]]_vars

\* What the merge promises: see MergeResult.  The result is there when the
\* last thread has filled its slice: who reads it before, as partial keys or as
\* the array, does so behind the third barrier.
Merged == \A t \in Threads : pc[t] \notin Before3
Abstract == INSTANCE MergeResult
              WITH old <- Values(keys), buffered <- Buffered,
                   result <- IF Merged THEN newKeys ELSE <<>>
ImplementsMergeResult == Abstract!Spec

\* At the join the partial keys are what the new array has at the multiples of
\* Ratio, though each thread has filled slots of keys others have merged.
PartialKeysSampled ==
  Joined => \A i \in 0 .. newTotal \div Ratio - 1 :
              newPartial[i] = newKeys[Ratio * i]

\* A merge runs out of inputs before it has made total_ops iterations only
\* where two equal keys, the "update" of the code, have made one output of two
\* inputs; the slices neither share a key nor lose one.
ErrorOnlyOnUpdates ==
  error => \E p \in DOMAIN bufferPages : Values(bufferPages[p]) \cap Values(keys) # {}

\* No thread waits at a barrier forever: the threads are joined.
Termination == <>Joined
=============================================================================
