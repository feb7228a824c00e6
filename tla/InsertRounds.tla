---------------------------- MODULE InsertRounds ----------------------------
(***************************************************************************)
(* The INSERT mode of the host (main, host/pimlex_host.cpp): every thread  *)
(* pushes its queries through the index in rounds.  A round routes a batch *)
(* to the DPUs, has them look up the insert positions and puts the keys    *)
(* into the buffer pages.  The thread that finds too many writes counted   *)
(* becomes the merger: it takes merge_lock, waits until the writers have   *)
(* left insert_payload, merges pages and index, publishes the new index    *)
(* structure by structure and retries its round.                           *)
(*                                                                         *)
(* A batch is one key and counts one write.  Every shared structure that   *)
(* the merger replaces carries the generation that wrote it: the version   *)
(* of merge_lock under which it is the current one.                        *)
(***************************************************************************)
EXTENDS LockWord, FiniteSets

CONSTANTS Threads,   \* the worker threads
          Rounds,    \* rounds each thread runs (2 in the code)
          InitKeys,  \* the keys loaded before the threads start
          BufSize,   \* batches the buffer pages hold before they overflow
          None       \* no owner

ASSUME ThreadsAssumption ==
  IsFiniteSet(Threads) /\ Threads # {} /\ None \notin Threads
ASSUME RoundsAssumption  == Rounds \in Nat \ {0}
ASSUME InitAssumption    == IsFiniteSet(InitKeys)
ASSUME BufSizeAssumption == BufSize \in Nat

VARIABLES
  mergeWord,   \* merge_lock.lock_
  shardOwner,  \* holder of merge_shard_lock
  dpuOwner,    \* holder of lock, the mutex around the DPU set
  writers,     \* thread_in_write
  written,     \* current_write_num
  total,       \* dindex.total_size
  live,        \* the generation of each shared structure
  pages,       \* the keys in dindex.buffer_pages
  overflow,    \* the keys in dindex.opt_overflow_trees
  index,       \* the keys in dindex.keys
  counted,     \* the keys the merger has counted
  merged,      \* the keys of the merger's new_keys
  pc,          \* where each thread is
  round,       \* its round
  seen,        \* version, and v of its try_get_lock
  routed,      \* the generations its routing has read
  answer,      \* the generations of the DPU data its positions come from
  fetched,     \* fetch_write_num
  target,      \* the generation of the page array it inserts into
  stored,      \* history: the keys some insert_page has accepted
  late         \* history: a writer entered behind the back of a merger

locks  == <<mergeWord, shardOwner, dpuOwner>>
counts == <<writers, written, total>>
data   == <<live, pages, overflow, index, counted, merged>>
regs   == <<seen, routed, answer, fetched, target>>
ghosts == <<stored, late>>
vars   == <<locks, counts, data, pc, round, regs, ghosts>>

\* What the merger replaces: the routing table of the host, the key array and
\* the buffer pages, and the arguments, keys, models and level cache of a DPU.
Routing    == {"bounds", "replicas"}
Dpu        == {"dpuArgs", "dpuKeys", "dpuModel", "dpuInit"}
Structures == Routing \cup {"keys", "pages"} \cup Dpu

Batches == Threads \X (1 .. Rounds)
Keys    == Batches \cup InitKeys
Batch(t) == <<t, round[t]>>

\* The merger between its merge_lock and its wait, and past the wait.
Waiting == {"mShard", "mWait"}
Merging == {"mCount", "mMerge", "mKeys", "mPages", "mBounds", "mReplicas",
            "mArgs", "mDpuKeys", "mModel", "mOverflow", "mLock", "mInit",
            "mUnlock", "mReset", "mShardRel", "mRelease"}
Writing == {"guard", "page", "insert", "exit"}
PC == {"gate", "version", "bounds", "replicas", "check", "lock", "launch",
       "search", "unlock", "count", "decide", "tryLoad", "tryCas", "enter",
       "done"} \cup Waiting \cup Merging \cup Writing

Goto(t, label) == pc' = [pc EXCEPT ![t] = label]

\* clear_send_buffer: the routed batch is dropped.
Unrouted == [s \in Routing |-> 0]
ClearSendBuffer(t) == routed' = [routed EXCEPT ![t] = Unrouted]

Init ==
  /\ mergeWord = 0 /\ shardOwner = None /\ dpuOwner = None
  /\ writers = 0 /\ written = 0 /\ total = Cardinality(InitKeys)
  /\ live = [s \in Structures |-> 0]
  /\ pages = {} /\ overflow = {} /\ index = InitKeys
  /\ counted = {} /\ merged = {}
  /\ pc = [t \in Threads |-> "gate"]
  /\ round = [t \in Threads |-> 1]
  /\ seen = [t \in Threads |-> 0]
  /\ routed = [t \in Threads |-> Unrouted]
  /\ answer = [t \in Threads |-> [s \in Dpu |-> 0]]
  /\ fetched = [t \in Threads |-> 0]
  /\ target = [t \in Threads |-> 0]
  /\ stored = {} /\ late = FALSE

-----------------------------------------------------------------------------
(* The start of a round: wait for the merger, route the batch.             *)

\* Lock and unlock merge_shard_lock: go on once nobody holds it.
Gate(t) ==
  /\ pc[t] = "gate"
  /\ shardOwner = None
  /\ Goto(t, "version")
  /\ UNCHANGED <<locks, counts, data, round, regs, ghosts>>

\* A version taken without waiting for the merger.
VersionAnyway(t) ==
  /\ pc[t] = "version"
  /\ seen' = [seen EXCEPT ![t] = mergeWord]
  /\ Goto(t, "bounds")
  /\ UNCHANGED <<locks, counts, data, round, routed, answer, fetched, target,
                 ghosts>>

\* Spin until merge_lock is free and keep its version.
Version(t) ==
  /\ pc[t] = "version"
  /\ ~IsSet(mergeWord)
  /\ seen' = [seen EXCEPT ![t] = mergeWord]
  /\ Goto(t, "bounds")
  /\ UNCHANGED <<locks, counts, data, round, routed, answer, fetched, target,
                 ghosts>>

\* search_upper_level reads low_bound_key ...
RouteBounds(t) ==
  /\ pc[t] = "bounds"
  /\ routed' = [routed EXCEPT ![t]["bounds"] = live["bounds"]]
  /\ Goto(t, "replicas")
  /\ UNCHANGED <<locks, counts, data, round, seen, answer, fetched, target,
                 ghosts>>

\* ... and then start_dpu_id and nr_replicas_per_partition.
RouteReplicas(t) ==
  /\ pc[t] = "replicas"
  /\ routed' = [routed EXCEPT ![t]["replicas"] = live["replicas"]]
  /\ Goto(t, "check")
  /\ UNCHANGED <<locks, counts, data, round, seen, answer, fetched, target,
                 ghosts>>

\* Drop the batch and start over when merge_lock has moved since Version.
Check(t) ==
  /\ pc[t] = "check"
  /\ \/ mergeWord = seen[t] /\ Goto(t, "lock") /\ UNCHANGED routed
     \/ mergeWord # seen[t] /\ Goto(t, "gate") /\ ClearSendBuffer(t)
  /\ UNCHANGED <<locks, counts, data, round, seen, answer, fetched, target,
                 ghosts>>

-----------------------------------------------------------------------------
(* The lookup on the DPUs, under lock, and the decision to merge.          *)

Lock(t) ==
  /\ pc[t] = "lock"
  /\ dpuOwner = None
  /\ dpuOwner' = t
  /\ Goto(t, "launch")
  /\ UNCHANGED <<mergeWord, shardOwner, counts, data, round, regs, ghosts>>

\* The kernel starts from the arguments and from the level INIT has chosen ...
Launch(t) ==
  /\ pc[t] = "launch"
  /\ answer' = [answer EXCEPT ![t]["dpuArgs"] = live["dpuArgs"],
                              ![t]["dpuInit"] = live["dpuInit"]]
  /\ Goto(t, "search")
  /\ UNCHANGED <<locks, counts, data, round, seen, routed, fetched, target,
                 ghosts>>

\* ... and searches the models and the keys.
Search(t) ==
  /\ pc[t] = "search"
  /\ answer' = [answer EXCEPT ![t]["dpuModel"] = live["dpuModel"],
                              ![t]["dpuKeys"] = live["dpuKeys"]]
  /\ Goto(t, "unlock")
  /\ UNCHANGED <<locks, counts, data, round, seen, routed, fetched, target,
                 ghosts>>

\* The lock is free again and the send buffer is cleared; the batch itself
\* stays in the buffer until the next one is routed.
Unlock(t) ==
  /\ pc[t] = "unlock"
  /\ dpuOwner' = None
  /\ ClearSendBuffer(t)
  /\ Goto(t, "count")
  /\ UNCHANGED <<mergeWord, shardOwner, counts, data, round, seen, answer,
                 fetched, target, ghosts>>

\* Counting a batch only when it does not lead to a merge attempt.
CountNothing(t) ==
  /\ pc[t] = "count"
  /\ fetched' = [fetched EXCEPT ![t] = written]
  /\ Goto(t, "decide")
  /\ UNCHANGED <<locks, counts, data, round, seen, routed, answer, target,
                 ghosts>>

\* current_write_num.fetch_add
Count(t) ==
  /\ pc[t] = "count"
  /\ fetched' = [fetched EXCEPT ![t] = written]
  /\ written' = written + 1
  /\ Goto(t, "decide")
  /\ UNCHANGED <<locks, writers, total, data, round, seen, routed, answer,
                 target, ghosts>>

\* More than 0.45 of the index size has been written.
Full(t) == 100 * fetched[t] > 45 * total

Decide(t) ==
  /\ pc[t] = "decide"
  /\ Goto(t, IF Full(t) THEN "tryLoad" ELSE "enter")
  /\ UNCHANGED <<locks, counts, data, round, regs, ghosts>>

\* try_get_lock of merge_lock; who fails starts the round over.
TryLoad(t) ==
  /\ pc[t] = "tryLoad"
  /\ seen' = [seen EXCEPT ![t] = mergeWord]
  /\ Goto(t, IF IsSet(mergeWord) THEN "gate" ELSE "tryCas")
  /\ UNCHANGED <<locks, counts, data, round, routed, answer, fetched, target,
                 ghosts>>

\* A try_get_lock that stores instead of comparing and swapping.
TryStore(t) ==
  /\ pc[t] = "tryCas"
  /\ mergeWord' = WithLock(seen[t])
  /\ Goto(t, "mShard")
  /\ UNCHANGED <<shardOwner, dpuOwner, counts, data, round, regs, ghosts>>

TryCas(t) ==
  /\ pc[t] = "tryCas"
  /\ \/ /\ mergeWord = seen[t]
        /\ mergeWord' = WithLock(seen[t])
        /\ Goto(t, "mShard")
     \/ /\ mergeWord # seen[t]
        /\ Goto(t, "gate")
        /\ UNCHANGED mergeWord
  /\ UNCHANGED <<shardOwner, dpuOwner, counts, data, round, regs, ghosts>>

-----------------------------------------------------------------------------
(* merge_and_retrain, from the wait for the writers to the release.        *)

MergeShard(t) ==
  /\ pc[t] = "mShard"
  /\ shardOwner = None
  /\ shardOwner' = t
  /\ Goto(t, "mWait")
  /\ UNCHANGED <<mergeWord, dpuOwner, counts, data, round, regs, ghosts>>

\* A merger that does not wait for the writers.
MergeNoWait(t) ==
  /\ pc[t] = "mWait"
  /\ Goto(t, "mCount")
  /\ UNCHANGED <<locks, counts, data, round, regs, ghosts>>

\* Spin until thread_in_write is zero.
MergeWait(t) ==
  /\ pc[t] = "mWait"
  /\ writers = 0
  /\ Goto(t, "mCount")
  /\ UNCHANGED <<locks, counts, data, round, regs, ghosts>>

\* key_count: how many keys the pages hold, which sizes new_keys.
MergeCount(t) ==
  /\ pc[t] = "mCount"
  /\ counted' = pages
  /\ Goto(t, "mMerge")
  /\ UNCHANGED <<locks, counts, live, pages, overflow, index, merged, round,
                 regs, ghosts>>

\* The merge of the key array and the pages into new_keys.  It takes exactly
\* as many keys as were counted: when the pages have changed since, by a late
\* writer, keys beyond that number are left out, whosever they are, and a scan
\* that meets the shift of an insertion may read one key twice.
MergeKeys(t) ==
  /\ pc[t] = "mMerge"
  /\ \/ pages = counted /\ merged' = index \cup pages
     \/ /\ pages # counted
        /\ \E kept \in SUBSET (index \cup pages) :
             /\ Cardinality(index) <= Cardinality(kept)
             /\ Cardinality(kept) <= total + Cardinality(counted)
             /\ merged' = kept
  /\ Goto(t, "mKeys")
  /\ UNCHANGED <<locks, counts, live, pages, overflow, index, counted, round,
                 regs, ghosts>>

\* The structures are replaced one after the other.
Publish(t, structure) ==
  live' = [live EXCEPT ![structure] = Masked(mergeWord) + 1]

\* partial_keys, keys, payloads and the sizes.
PublishKeys(t) ==
  /\ pc[t] = "mKeys"
  /\ Publish(t, "keys")
  /\ index' = merged
  /\ total' = total + Cardinality(counted)
  /\ merged' = {}
  /\ Goto(t, "mPages")
  /\ UNCHANGED <<locks, writers, written, pages, overflow, counted, round,
                 regs, ghosts>>

\* A new, empty array of buffer pages; the old one is abandoned.
PublishPages(t) ==
  /\ pc[t] = "mPages"
  /\ Publish(t, "pages")
  /\ pages' = {}
  /\ counted' = {}
  /\ Goto(t, "mBounds")
  /\ UNCHANGED <<locks, counts, overflow, index, merged, round, regs, ghosts>>

\* low_bound_key, written while the models are trained.
PublishBounds(t) ==
  /\ pc[t] = "mBounds"
  /\ Publish(t, "bounds")
  /\ Goto(t, "mReplicas")
  /\ UNCHANGED <<locks, counts, pages, overflow, index, counted, merged, round,
                 regs, ghosts>>

\* The replicas of each partition, from the warm-up queries.
PublishReplicas(t) ==
  /\ pc[t] = "mReplicas"
  /\ Publish(t, "replicas")
  /\ Goto(t, "mArgs")
  /\ UNCHANGED <<locks, counts, pages, overflow, index, counted, merged, round,
                 regs, ghosts>>

\* The three pushes to the DPUs, which do not take lock.
PushArgs(t) ==
  /\ pc[t] = "mArgs"
  /\ Publish(t, "dpuArgs")
  /\ Goto(t, "mDpuKeys")
  /\ UNCHANGED <<locks, counts, pages, overflow, index, counted, merged, round,
                 regs, ghosts>>

PushKeys(t) ==
  /\ pc[t] = "mDpuKeys"
  /\ Publish(t, "dpuKeys")
  /\ Goto(t, "mModel")
  /\ UNCHANGED <<locks, counts, pages, overflow, index, counted, merged, round,
                 regs, ghosts>>

PushModel(t) ==
  /\ pc[t] = "mModel"
  /\ Publish(t, "dpuModel")
  /\ Goto(t, "mOverflow")
  /\ UNCHANGED <<locks, counts, pages, overflow, index, counted, merged, round,
                 regs, ghosts>>

\* The overflow trees are read, cleared and reinserted: getAllData finds
\* nothing (see OverflowTree), so they are cleared.
ClearOverflow(t) ==
  /\ pc[t] = "mOverflow"
  /\ overflow' = {}
  /\ Goto(t, "mLock")
  /\ UNCHANGED <<locks, counts, live, pages, index, counted, merged, round,
                 regs, ghosts>>

MergeLock(t) ==
  /\ pc[t] = "mLock"
  /\ dpuOwner = None
  /\ dpuOwner' = t
  /\ Goto(t, "mInit")
  /\ UNCHANGED <<mergeWord, shardOwner, counts, data, round, regs, ghosts>>

\* A merger that forgets the INIT launch.
SkipInit(t) ==
  /\ pc[t] = "mInit"
  /\ Goto(t, "mUnlock")
  /\ UNCHANGED <<locks, counts, data, round, regs, ghosts>>

\* The INIT launch: every DPU computes its start level from its arguments.
MergeInit(t) ==
  /\ pc[t] = "mInit"
  /\ Publish(t, "dpuInit")
  /\ Goto(t, "mUnlock")
  /\ UNCHANGED <<locks, counts, pages, overflow, index, counted, merged, round,
                 regs, ghosts>>

MergeUnlock(t) ==
  /\ pc[t] = "mUnlock"
  /\ dpuOwner' = None
  /\ Goto(t, "mReset")
  /\ UNCHANGED <<mergeWord, shardOwner, counts, data, round, regs, ghosts>>

\* current_write_num.store(0)
ResetCount(t) ==
  /\ pc[t] = "mReset"
  /\ written' = 0
  /\ Goto(t, "mShardRel")
  /\ UNCHANGED <<locks, writers, total, data, round, regs, ghosts>>

\* A merger that keeps merge_shard_lock.
KeepShard(t) ==
  /\ pc[t] = "mShardRel"
  /\ Goto(t, "mRelease")
  /\ UNCHANGED <<locks, counts, data, round, regs, ghosts>>

ReleaseShard(t) ==
  /\ pc[t] = "mShardRel"
  /\ shardOwner' = None
  /\ Goto(t, "mRelease")
  /\ UNCHANGED <<mergeWord, dpuOwner, counts, data, round, regs, ghosts>>

\* release_lock of merge_lock; the merger retries its round.
Release(t) ==
  /\ pc[t] = "mRelease"
  /\ mergeWord' = Released(mergeWord)
  /\ Goto(t, "gate")
  /\ UNCHANGED <<shardOwner, dpuOwner, counts, data, round, regs, ghosts>>

-----------------------------------------------------------------------------
(* insert_payload, between the two updates of thread_in_write.             *)

Enter(t) ==
  /\ pc[t] = "enter"
  /\ writers' = writers + 1
  /\ late' = (late \/ \E m \in Threads : pc[m] \in Merging)
  /\ Goto(t, "guard")
  /\ UNCHANGED <<locks, written, total, data, round, regs, stored>>

\* Is the key in the interval of partial_keys its position names?  A position
\* of an older generation and a key of the last interval do not pass, and the
\* key is dropped.
Guard(t) ==
  /\ pc[t] = "guard"
  /\ \E label \in {"page", "exit"} : Goto(t, label)
  /\ UNCHANGED <<locks, counts, data, round, regs, ghosts>>

\* dindex.buffer_pages[ipos]: the array is fixed before its page is locked.
FindPage(t) ==
  /\ pc[t] = "page"
  /\ target' = [target EXCEPT ![t] = live["pages"]]
  /\ Goto(t, "insert")
  /\ UNCHANGED <<locks, counts, data, round, seen, routed, answer, fetched,
                 ghosts>>

\* insert_page, or the overflow tree when the page is full.  What goes into
\* the page of an abandoned array is gone, and that page may be full, too.
Insert(t) ==
  /\ pc[t] = "insert"
  /\ \/ /\ target[t] # live["pages"]
        /\ stored' = stored \cup {Batch(t)}
        /\ UNCHANGED <<pages, overflow>>
     \/ /\ target[t] = live["pages"]
        /\ Cardinality(pages) < BufSize
        /\ pages' = pages \cup {Batch(t)}
        /\ stored' = stored \cup {Batch(t)}
        /\ UNCHANGED overflow
     \/ /\ target[t] # live["pages"] \/ Cardinality(pages) >= BufSize
        /\ overflow' = overflow \cup {Batch(t)}
        /\ UNCHANGED <<pages, stored>>
  /\ Goto(t, "exit")
  /\ UNCHANGED <<locks, counts, live, index, counted, merged, round, regs,
                 late>>

\* A round loop with one iteration too many.
ExitOneMore(t) ==
  /\ pc[t] = "exit"
  /\ writers' = writers - 1
  /\ \/ round[t] <= Rounds /\ Goto(t, "gate")
        /\ round' = [round EXCEPT ![t] = @ + 1]
     \/ round[t] > Rounds /\ Goto(t, "done") /\ UNCHANGED round
  /\ UNCHANGED <<locks, written, total, data, regs, ghosts>>

\* The thread leaves insert_payload, and goes on to its next round.
Exit(t) ==
  /\ pc[t] = "exit"
  /\ writers' = writers - 1
  /\ \/ round[t] < Rounds /\ Goto(t, "gate")
        /\ round' = [round EXCEPT ![t] = @ + 1]
     \/ round[t] = Rounds /\ Goto(t, "done") /\ UNCHANGED round
  /\ UNCHANGED <<locks, written, total, data, regs, ghosts>>

-----------------------------------------------------------------------------
Step(t) ==
  \/ Gate(t) \/ Version(t) \/ RouteBounds(t) \/ RouteReplicas(t) \/ Check(t)
  \/ Lock(t) \/ Launch(t) \/ Search(t) \/ Unlock(t) \/ Count(t) \/ Decide(t)
  \/ TryLoad(t) \/ TryCas(t)
  \/ MergeShard(t) \/ MergeWait(t) \/ MergeCount(t) \/ MergeKeys(t)
  \/ PublishKeys(t) \/ PublishPages(t) \/ PublishBounds(t)
  \/ PublishReplicas(t) \/ PushArgs(t) \/ PushKeys(t) \/ PushModel(t)
  \/ ClearOverflow(t) \/ MergeLock(t) \/ MergeInit(t) \/ MergeUnlock(t)
  \/ ResetCount(t) \/ ReleaseShard(t) \/ Release(t)
  \/ Enter(t) \/ Guard(t) \/ FindPage(t) \/ Insert(t) \/ Exit(t)

Finished == \A t \in Threads : pc[t] = "done"

Next == (\E t \in Threads : Step(t)) \/ (Finished /\ UNCHANGED vars)

Spec == Init /\ [][Next]_vars

\* Each thread is an OS thread that the scheduler keeps running; a mutex and
\* a spin lock let a waiting thread in when it stays free.
FairSpec == Spec /\ \A t \in Threads : WF_vars(Step(t))

-----------------------------------------------------------------------------
Merger(t) == pc[t] \in Waiting \cup Merging

TypeOK ==
  /\ mergeWord \in Word
  /\ shardOwner \in Threads \cup {None}
  /\ dpuOwner \in Threads \cup {None}
  /\ writers \in Int /\ written \in Nat /\ total \in Nat
  /\ live \in [Structures -> Nat]
  /\ pages \subseteq Keys /\ overflow \subseteq Keys /\ index \subseteq Keys
  /\ counted \subseteq Keys /\ merged \subseteq Keys
  /\ pc \in [Threads -> PC]
  /\ round \in [Threads -> 1 .. Rounds]
  /\ seen \in [Threads -> Word]
  /\ routed \in [Threads -> [Routing -> Nat]]
  /\ answer \in [Threads -> [Dpu -> Nat]]
  /\ fetched \in [Threads -> Nat]
  /\ target \in [Threads -> Nat]
  /\ stored \subseteq Keys /\ late \in BOOLEAN

\* Two threads are never in the merge branch together, from try_get_lock to
\* release_lock.
MergeExclusive ==
  \A t, u \in Threads : Merger(t) /\ Merger(u) => t = u

\* A thread past its version check whose version still stands has routed its
\* batch by one generation of the routing table, and holds positions computed
\* from one generation of the DPU data, both the current one: the version of
\* merge_lock vouches for all eight structures, whatever the merger has
\* replaced in between and in whatever order.
FreshWhileVersionUnchanged ==
  \A t \in Threads :
    /\ pc[t] \in {"lock", "launch", "search", "unlock", "count", "decide",
                  "enter"} \cup Writing
    /\ mergeWord = seen[t]
    => /\ pc[t] \in {"lock", "launch", "search", "unlock"}
            => \A s \in Routing : routed[t][s] = live[s]
       /\ pc[t] \notin {"lock", "launch", "search"}
            => \A s \in Dpu : answer[t][s] = live[s]
       /\ \A s \in Structures : live[s] = live["keys"]

\* As long as every writer counted itself in thread_in_write before a merger
\* looked at it, a key accepted by a buffer page is in the pages or in the
\* key array at any time, through every merge.
StoredKeysSurvive == ~late => stored \subseteq pages \cup index

\* The counter that triggers the merge misses no more than the batches that
\* were on their way when it was reset: one for each thread but the merger.
BufferedIsCounted ==
  Cardinality(pages) + Cardinality(overflow)
    <= written + Cardinality(Threads) - 1

\* The block that sets dindex says of itself "w-lock": no thread is inside
\* insert_payload while the merger replaces the index.
SwapExcludesInserts ==
  ~ \E t, u \in Threads :
      /\ pc[t] \in {"mKeys", "mPages", "mBounds", "mReplicas", "mArgs",
                    "mDpuKeys", "mModel"}
      /\ pc[u] \in Writing

\* Every thread gets all its rounds through: no spin, no lock and no retry
\* holds a batch back forever.
Termination == <>Finished
=============================================================================
