# PIMLex in TLA+

PIMLex is a learned index whose lower part runs on processing-in-memory
modules (DPUs). The host keeps the keys, payloads and write buffers, routes
batches of queries to the DPUs and merges the buffers into the key array when
they have grown; the DPUs hold a sparse copy of the keys and find positions in
it. These modules model the locks, the rounds of the threads in each mode, the
merge, the overflow trees, the distribution of the partitions and the program
of a DPU.

## The system

| Part | State | Operations | Meets |
| --- | --- | --- | --- |
| `ol_lock` (`support/concurrent.h`) | one 32-bit word: lock bit and version | `get_lock`, `try_get_lock`, `release_lock`, `test_lock_set`, `test_lock_version_change` | embedded in pages, tree nodes, payload stripes, `merge_lock` |
| Worker threads, INSERT mode (`main`, `host/pimlex_host.cpp`) | round, send and receive buffers, `merge_lock`, `merge_shard_lock`, `lock`, `thread_in_write`, `current_write_num` | route, look up, insert, merge | DPUs, pages, trees, each other |
| Merge (`merge_and_retrain`) | `new_keys`, `new_partial_keys`, then all of `dindex`, `upper_dram_level` and the DPU data | count, merge, publish, retrain, push | stops or repeats the rounds of the workers |
| `dindex` (`host/dram_index.h`) | `keys`, `partial_keys`, `payloads`, `buffer_pages`, `opt_overflow_trees` | replaced by the merge, read by all | |
| `buf_page` | up to 16 sorted keys under a lock word | `insert_page`, `find_key_page`, `update_key_page` | the merge reads pages without their locks |
| `OptBTree` (`support/opt_overflow_tree.h`) | nodes with keys, pointers, a lock | `insert`, `update`, `lookup`, `getAllInner`, `getAllData`, `clear` | takes what a full page refuses |
| `dram_level`, `replicas_info_t` | first key, first DPU and replica count of each partition | `search_upper_level`, `calculate_partition_skew`, `next_partition` | written by load and merge, read by routing |
| DPU kernel (`dpu/task.c`) | arguments, keys, model, start level, overflow entries | INIT, position search, overflow search | 12 tasklets share a batch; the host pushes its data |
| SEARCH, MIX, SCAN modes | send and receive buffers, the mutex `lock` | lookups with host fallback, GET, INSERT, scan | DPUs, pages, trees |
| Skewed INSERT mode | as INSERT, `enable_pim_overflow` | two launches a round; keys wait for the second | DPUs, pages, trees |
| PGM index, flags, workload, timers | | | |

What is hard in it: optimistic reads validated by a version only; a merge that
replaces eight structures one by one while threads run up to two different
checks; a writer that is invisible to the merger between its check and its
counter; tree nodes that change their type under a descent; slices of arrays
computed by 32 threads from counts taken before a barrier; tasklets whose
slices overlap; a send buffer that is refilled from the front while it is read;
numbers of replicas that must add up after every rounding; binary searches over
arrays with unwritten ends. `hazards` of `PROJECT.json` lists each one at its
line.

What makes each part correct:

- lock: writers exclude each other, a validated read is one whole payload, and
  a free lock can be taken;
- rounds: one merger at a time; a batch that passes its check used one
  generation of everything; a key the pages accepted stays in the index; the
  trigger of the merge does not lose count; nobody waits forever;
- tree: a key inserted stays reachable through splits; lookups miss no key that
  was there when they began; what the DPUs get is sorted and leads to the right
  leaf; every lock taken is given back;
- merge: slices are disjoint and cover the result, which is sorted and complete;
- routing: all DPUs are shared out, and the DPU a key is routed to holds the
  partition of the key;
- DPU search: the position of a key is the last key not above it; every query
  of a batch is answered by the position of its own key;
- modes: answers reach the thread that asked; an insert ends in one place; a
  GET returns the payload of its key; a scan returns its range.

## Modules

| Module | Models |
| --- | --- |
| `LockWord` | the arithmetic of the lock word, with `LockSet` for 2^31 and wrap-around at `2 * LockSet` |
| `SeqLock` | a payload slot under an `ol_lock`: `get_lock` and `try_get_lock` as load and compare-and-swap, `release_lock` as load and store, payloads copied part by part, GET as the loop of `mix_payload` |
| `InsertRounds` | the INSERT mode: gate, version, routing, check, DPU lookup, counting, the decision to merge, the merge step by step, `insert_payload` |
| `OverflowTree` | `OptBTree`: descents, the split, the three steps of `insertLeaf`, update, optimistic lookup, the traversals |
| `PageMerge` | the merge threads with their three barriers, from counting the pages to the partial keys |
| `MergeResult` | what the merge promises: the new array in one step. `PageMerge` implements it |
| `Replicas` | the warm-up, `calculate_partition_skew`, the routing table and the transfers to the DPUs |
| `DpuKernel` | `main_kernel1` on one DPU: INIT, position search, overflow search, with barriers and slices |
| `Queries` | the SEARCH, MIX and SCAN modes and the inserts of the INSERT mode, with the pages |
| `SkewInsert` | the rounds of the skewed INSERT mode |
| `MC...` | constants for TLC (`Replicas` needs none) |
| `SeqLockProofs`, `InsertRoundsProofs`, `OverflowTreeProofs`, `PageMergeProofs`, `ReplicasProofs`, `DpuKernelProofs`, `QueriesProofs`, `SkewInsertProofs` | theorems |

How they fit together. `InsertRounds` extends `LockWord` and uses its word for
`merge_lock`; `OverflowTree` extends it for the lock of each node. In both the
acquisition is the one `SeqLock` has shown exclusive; `InsertRounds` still
splits `try_get_lock` into load and swap, because losing the race sends a
thread back to the gate. `InsertRounds` takes from `PageMerge` that a merge
yields the union of array and pages. `Queries` and `SkewInsert` take from
`Replicas` that a key reaches a DPU with its partition, from `DpuKernel` what a
DPU answers, and from `SeqLock` that `insert_page` is one step. `SkewInsert`
takes from `Queries` which keys a page accepts and treats a launch under the
mutex, which `Queries` splits, as one step; the gathering of overflow entries,
also under the mutex, is split, because its flags are read outside.

### SeqLock

State: `word` is `lock_`, `payload` the slot, and `pc`, `reg`, `pos`, `val`,
`ret` a thread's place and registers. One action per atomic access. A spin is a
guard: loads that find the lock held change nothing. A release of the last
version gives `LockSet`, the carry of `v + 1 - lockSet`.

### InsertRounds

A batch is one key and counts one write (in the code `per_round_ops` keys and
as many writes). What a merger replaces is not modelled by value but by the
generation that wrote it: `live[s]` for the eight structures, `routed` and
`answer` for what a thread has taken from them. The keys themselves are modelled
where the properties need them: `pages`, `overflow`, `index`, and the merger's
`counted` and `merged`. `current_write_num`, `thread_in_write` and the threshold
`0.45 * total_size` are as in the code.

The body of the merge is a step per structure in the order of the code:
count the pages, merge, publish keys and sizes, new pages, bounds, replicas,
arguments, DPU keys, models, then the overflow trees, then, under `lock`, the
INIT launch. A merge that finds the pages it counted takes their union with the
key array. If a late writer has changed them in between, it may take any set
of at most the counted size. `Guard` lets a batch pass or drops it, as the
comparison with `partial_keys` does for a key in the last interval or one
routed by old positions; the code drops it silently.

`ClearOverflow` empties the overflow trees: `getAllData` finds nothing in them
(see the run `overflow_collect`).

### OverflowTree

Nodes are numbers in order of allocation, payloads are left out (`Value`). The
loop of the split writes pointers that no other thread follows before the type
is set, so the split is one step; from then on the child chosen is visible and
not locked, and `InsertLeaf`, `Shift` and `Bump` on it are steps of their own.
`apart` remembers whether writers have ever met there: two of them inserting
into one leaf, of which the second came by the new inner node, or an update that
waits for a leaf while it is split and will write into it all the same. What can
go wrong between writers starts with one of these two (`WritesApart`), and most
properties of the tree speak of behaviours before it.
`smallnode` is never initialised in the code: following it leads to `wild`. So
does following the payload an update has put where a child was, and writing
past the end of a node. After `wild` and after a failed assertion
(`abort`) the program stops. `completed` records the keys whose insert returned
true, `due` whether the key of a lookup was among them when it began. The
traversals (`getAllInner`, `getAllData`, the descent to a leaf) are recursive
functions over the nodes.

`Init` has the two trees the program hands to its threads: the one `bulk_load`
leaves, whose root has been split over a leaf per key, and the empty one a merge
leaves. Only the first has a sentinel below all keys. Merges, and so cleared
trees, are there in the INSERT mode alone, which only inserts into them; the
model lets threads look up and update there, too.

### PageMerge

One action per stretch between barriers for the counting, the layout and the
partial keys; the merge loop is an action per iteration, because there the
threads write one array side by side. `cursor` holds the locals of the loop
(`cur_page`, `inpage_off`, `cur_old_off`, `cur_new_off`, `targets`, the two keys
in hand, the two end flags). The initial states take a key array and a set of
inserted keys and put each key into the page `insert_payload` would choose; the
last interval takes none. `NextPage` is the scan for a page that is not empty. In
the code it has no bound, and the last two pages are always empty, so the last
thread scans past the array; here it stops at its end. `new_partial_keys` has
one slot more than the code allocates, the one it writes when the total is no
multiple of 8.

The refinement maps `result` to the new array once all threads have finished
their slices. `MergeResult` promises sorted keys for insertions of new keys
only. For a key the array holds already it promises that the array is there in
one step, with a slot for each key counted: the code counts both copies, writes
one, and its loop ends with iterations that have no input left ("error in
merge"). `ErrorOnlyOnUpdates` says that nothing else leads there.

### Replicas

`access` is `access_num`; a query below the first key gets index -1 from
`search_upper_level`, and the code has no test for it in the warm-up: `lost`
counts what is written in front of the array. `Ratios` computes the shares
(never less than one DPU) and sorts them; `rank` is `record_ratio` in that order.
`Shrink`, `Grow` and `Adjust` are one iteration each of the three loops of
`calculate_partition_skew`: take a DPU from the coldest, give one to the hottest,
up to four moves to the record at index 0. That one need not be the hottest: a
partition that has been given a DPU is put in front of the first colder record,
whatever stands behind it. What `AdjustHelps` says of a move is that giver and
receiver differ and are both colder afterwards than the receiver was. Ratios are compared by cross-multiplication,
since all share one divisor; the order of equal ratios is open, as it is for
`std::sort`. When `Grow` finds no partition with more than one DPU its search
leaves the array: `pc` becomes `wild`. `GetStartDpuId` writes the routing table;
`Push` gives one DPU one part of a transfer, with the cursor of
`next_partition`, and `Pushed` resets the cursor between the transfers of
arguments, keys and models.

### DpuKernel

The host launches INIT once and then batches for either search; a batch has
from no query to a full buffer. The rest of the send buffer, and all of the
receive buffers, are what earlier launches have left. `Barrier` is one
`barrier_wait`: the last one to come lets all go. `SliceStart` and `SliceLen`
are the rounding in `task.c`, by which slices overlap and positions are written
in pairs (`Search` holds the first of a pair in `pair`). `entries` are the
overflow entries the host pushes before an overflow search.

Of the PGM index the layout of the levels, the choice of the start level, the
bisection, the walk to the next segment and the windows are as in the code.
What a segment predicts is its promise: for a key it is responsible for any
position within its error, for other keys anything. Bisections are recursive
functions, and `Answers` is the set of all that one query can be answered. With
the constants of the code the start level is always 0; the descent through the
levels, also compiled, is reached only with the small constants used here.

### Queries

Generation and routing are one action, `Draw`, since the tables do not change
here. `Launch` and `Fetch` are the two halves of the section under the mutex:
the DPUs' buffers are shared by all threads. After that each thread works off
its tasks DPU by DPU (in MIX in an order of its own), one action per branch of
`get_real_payload`, `mix_payload`, `insert_payload` and `scan_payload`:
`GetHit`, `GetPage`, `GetTree`, `GetFallback`, `Insert`, `InsertOverflow`, `Scan`.
`find_key_page` and `lookup` are used as the code uses them: the first is true
for every page with a key and sets a pointer of its own only, the second is
taken for its opposite. A payload is named by the key it was loaded with, so a
GET that reads another slot is seen. `rest` elements behind the last partition
belong to no DPU.

### SkewInsert

A round is `Route` (behind what the last round has left in the send buffer),
`Search`, a `Visit` of each DPU in any order, a task at a time (`IntoPage`,
`IntoTree`, `Wait`, `NoPage`), `Leave`, the second launch (`SearchOverflow`, or
`SkipOverflow` if no key waits), `Past`, `Decide`, `ResetCount` and the gathering
of the overflow entries. A visit sets `n_tasks` to 0 and then writes the keys
that wait to the front of the very buffer it reads; `asked` keeps what was
there. The last task of a DPU is dropped, as the loop's bound `n_tasks - 1` does.
`Past` inserts only where the DPU has answered exactly one task; otherwise the
code calls `lookupFromNode`, which changes nothing.

`collect_overflow_tree_to_dpu` is `TakeLock`, a `GatherInner` and a `ClearFlag`
for each partition, and `PushEntries`, as in the code: the flag
`enable_pim_overflow` is set when a tree turns out to be split, the entries reach
the DPUs only at the end. `holder` has the mutex meanwhile. `Wait` and `IntoTree`
read the flag without the mutex, so a key may wait for a DPU whose entries are
still to be pushed; the launches wait for the mutex.

A tree is how often it holds each key. A key that is left in a send buffer after
it has been inserted is inserted again with the next second launch that has one
task. If its leaf is full then, the split puts the copy into the child before the
one with the key (`Inserted`); later descents end at the child that begins with
the key and find it, so two is the most. Whether the leaf is full is open, since
the other keys of a tree are not modelled. `StoredOnce` allows this double and no
other.

The send buffer has `MaxBufferSize` slots. The code has 2^15 and does not test
for it where it takes a slot (2672); `BufferAssumption` says that the rounds of a
thread fit, and the proofs show that no slot behind the end is taken then. The
last round's waiting keys that are only looked up stay in the buffer: nothing
stores them.

## Runs

| Run | Instance | Shows |
| --- | --- | --- |
| `seqlock` | 2 threads, 3 operations, the version overflows after 3 releases, fair | exclusion, atomic reads, every operation ends unless the lock has overflowed |
| `rounds` | 2 threads, 2 rounds, 3 loaded keys, pages of 2 keys, fair | type, exclusion of mergers, freshness, survival of keys, counting; every batch gets through |
| `rounds_swap` | 2 threads, 2 rounds, 2 loaded keys | violated: a late writer during the swap |
| `overflow_one` | loaded tree, 2 inserters, one of which updates, and a reader, 2, 1 and 1 operations, nodes of 3 keys | type, reachability, lookups, sorted entries |
| `overflow_two` | cleared tree, 2 inserters, one of which updates and looks up, 3 and 2 operations, nodes of 2 keys, fair | each lock held by one thread and released, the only ways to a wild pointer; all operations end |
| `overflow_assert` | loaded tree, 2 writers | violated: the assertion of `insertLeaf` |
| `overflow_collect` | loaded tree, 1 writer | violated: nothing collected from a split tree |
| `merge_all` | 3 threads, arrays of 3, 10, 11 and 15 keys, 20 sets of inserted keys, fair | no slot written twice, `MergeResult`, partial keys, the error branch; all threads joined |
| `replicas` | 3 partitions on 6 DPUs, 2 warm-ups of 6 queries each | shares, routing, the only way off the tables, the moves of DPUs |
| `dpu` | 3 tasklets, 6 slots, 6 keys under 4 segments, 2 launches | every query answered rightly, pairs aligned, overflow entries found |
| `queries` | 2 threads, 2 partitions of 2 intervals of 2 elements, 3 or 4 queries, each mode | own answers, pages in order, where inserts end, what GETs and scans return |
| `skew` | 2 threads, 2 rounds of 3 keys, 2 partitions, pages of one key | own keys read, nothing sent or stored twice, waiting keys answered while entries are gathered, only the last task dropped |

Bounds.

- `seqlock`: three operations of each thread are enough for a version to
  overflow while another thread holds a copy of it.
- `rounds`: with the threshold of 0.45 and 3 loaded keys the third batch counted
  makes a merger, and a batch that has merged or lost the race counts again, so
  four batches have mergers, losers, late writers and a second merge; pages of
  two keys overflow at the third insert.
- overflow trees: nodes of 2 keys split at the third insert, and two more in one
  child split that, which is the deepest case the code distinguishes (root,
  child of a split node); nodes of 3 keys are the smallest in which an insertion
  moves a key that stays. In `overflow_one` the last leaf of the loaded tree has
  two keys and all keys asked for belong there: the first insert fills it, the
  second splits it and the third goes into one of its children, the same as the
  second or another. `MaxNodes` is what these operations can allocate.
- `merge_all`: three threads are a first, a middle and a last one; the arrays are
  and are not a multiple of `Ratio`, and the smallest has fewer pages than
  threads. Inserted keys are new, in the array, both, and above all loaded keys.
- `replicas`: 6 queries over 3 partitions can ask for all, none or too many of
  the 6 DPUs; two warm-ups start the second from uneven replicas.
- `dpu`: 3 tasklets have slices that start at odd and even slots for the batch
  sizes from 0 to 6, the three first queries of `Firsts` lead to batches that ask
  for every key, and two launches leave answers of the first behind the second.
  Epsilon 1 starts the descent on the second of three levels, 2 on the bottom one.
- `queries`: two intervals make one that is followed by its own partition and one
  that is not; with and without elements behind the last partition. Three or
  four queries fill a page and overflow it, and use up the keys MIX can insert.
- `skew`: a page of one key makes the second key wait; three keys of one batch
  can go to one DPU, where one is inserted, one waits and one is dropped, and be
  met by leftovers in the second round; by one of `MCHomes` a key that waits is
  alone in the second launch of both rounds, so that it is inserted twice.
  `MaxBufferSize` is what two rounds can fill. `Threshold` 5 collects the entries
  after every second batch.
- `LockSet` is small in `seqlock` so that versions overflow, and large enough
  elsewhere that they do not.

Fairness. `FairSpec` of `SeqLock`, `InsertRounds`, `OverflowTree` and
`PageMerge` asks that a thread which can step does so eventually: threads are
OS threads, and DPU launches are synchronous and return. Mutexes and spin locks
are not fair in the code; weak fairness per thread means that a waiter gets in
when the lock stays free. It does not promise that a waiter wins against others
that keep coming; the bounds on rounds and operations end that race.
`Termination` therefore shows the absence of deadlocks and of livelocks among
waiting threads, not a bound on waiting. The other modules have no loop that
waits on another thread but mutex and barriers; for them TLC's deadlock check is
the question whether all of them end. Deadlock is checked in all passing runs but
`seqlock`, where an overflow leaves the lock set for good; its `Termination`
excepts exactly that.

## Proofs

TLAPS proves every safety and action property of the passing runs, and the
refinement of `MergeResult`, for all values of the constants. For `OverflowTree`
some of them need a hypothesis on the tree or on versions, given below.

- `SeqLockProofs`: `TypeCorrect`, `WritersExclude`, `AtomicReads`. The invariant
  says that the holder has the bit set and the word it will release, that the
  part of the slot it has copied is its payload, that a free slot is whole, and
  that a reader whose version still stands has read the slot as it is. Versions
  may overflow: after an overflow the bit stays set, so no version that a reader
  may hold comes back.
- `InsertRoundsProofs`: `TypeCorrect`, `MergersExclude`, `Freshness`. The
  invariant `IInv` relates the merger's place to the lock bit and to which
  structures have the new generation, and bounds every version a thread has kept
  by the current word, so that an equal word means that no merge has come in
  between. Over the same steps `KeysSurvive` (`KeysInv`) and `CounterKeepsUp`
  (`CountInv`). The first follows a key from page to `counted`, `merged` and the
  array: without a late writer nobody is in `insert_payload` while a merger is
  past its wait, so the pages stand still while they are counted and replaced.
  The second says that keys in pages and trees, together with counted batches
  still on their way, are at most the counter and one batch for each thread but
  the merger: between the emptying of the pages and the reset only threads
  already past their check can insert.
- `OverflowTreeProofs`, for any tree and any writers: `TreeTypeCorrect`, whose
  invariant adds to the types that inner nodes have been allocated and are full,
  that a node about to be split is full, and that threads stand at nodes which
  exist; and `LocksHaveHolders`, for behaviours in which no version comes to its
  last value (`NoLastVersion`).
- `OverflowTreeProofs`, for any number of threads that insert, update and look up
  at the same time, up to the moment at which two writers meet below a split
  (`apart`): the run `overflow_assert` shows what may happen from then on. For any
  tree `LeavesHaveRoom`, and for a cleared or a
  loaded one `DescentsStayInTree`, rest on `RoomInv`: an inner node has a child in
  each slot, and the leaf a thread inserts into has room, since no other thread
  inserts there. In a tree that has grown from a cleared one, descents may still
  follow `smallnode`. For a loaded tree, the one `bulk_load` seeds with its
  sentinel: `InsertedStaysReachable`, `LookupsFindInserted`,
  `EntriesLeadToLeaves`. A cleared tree has no sentinel and drops keys, so they do
  not hold of it; the mode that clears trees looks nothing up.

  The invariant `ReachInv` behind these three says: children come after
  their parents and begin with the key the parent has for them (`Shape`), nodes
  are sorted, with the key that is not counted yet (`Sorted`); there is a set of
  bounds for each node, handed down from its ancestors, that no key in the node
  nor a key on its way there exceeds (`Bounded`); a descent that has come to a
  node ends where one from the root would (`Paths`); and a completed key is in
  the leaf its descent ends at (`Stored`); of several writers of one key that end
  at the same leaf, one writes it (`Sole`). The bounds are what an insertion needs
  to keep the order of the leaves, and `Grows` (inner nodes never change, leaves
  only gain keys) is what lets a descent go on where it ended before a split. A
  lookup misses a completed key only while an insertion has moved it behind the
  count of its leaf; that leaf is locked then, and the word is not the one the
  lookup has read, unless an overflow has left the lock stuck, in which case no
  equal word comes back (`Stuck`). Into the child of a split, which is not locked,
  an insertion moves no key: until writers meet there the child has one, below the
  new key. `EntriesLeadToLeaves` follows from `ReachInv` by joining, for each inner node
  from the last to the first, what `getAllInner` visits below its children
  (`Part`, `RowJoins`).
- `PageMergeProofs`: `PartialKeysAreSampled`, `SlotsAreWrittenOnce`,
  `ErrorsAreUpdates` and the refinement `MergeResultIsImplemented`. `MergeInv`
  says that the slices of pages, old keys and slots of the threads join and do
  not overlap, since the sums over the pages add up; that a thread fills its own
  slots from the first on; and, if no key is in both inputs, that the slots
  filled hold in order just the keys before the next two (`Contents`, `Inputs`).
  That the slices of different threads are in order rests on the place of a page
  between two keys of the array (`DataInv`). Every step but the last iteration of
  the last thread maps to a stutter of `MergeResult`, and that one to its step.
- `ReplicasProofs`: `EveryDpuIsShared`, `QueriesGoHome`, `TheSearchStaysInside`,
  `MovesHelp`. The invariant `ReplicaInv` says that the queries counted and lost
  are those taken, that what each loop still has to take back or give away is what
  the shares are wrong by, that the table names the owner of each DPU, and that
  the cursor of a transfer stands on the owner of the DPU pushed to last.
  `TheSearchStaysInside` adds that behind the cursor of `Grow` there is a
  partition with more than one DPU, unless queries lay below the first key.
- `DpuKernelProofs`: `PairsStayAligned`, `OneKeyExact`, `BatchAnswered`,
  `OverflowBatchAnswered`. That one key has exactly one answer, its place, is
  proved for any levels of segments, any errors within the bound and any start
  level INIT can choose: the bisection of the first level and the walks below it
  end at the segment responsible, and the last window holds the key. The rest is
  about tasklets: the rounded slices stay in the buffer and cover all `n` slots,
  and what a tasklet has done has been answered, which one with an overlapping
  slice can only confirm.
- `QueriesProofs`: `AnswersAreOwn` (while a thread holds the mutex, the buffer of
  the DPUs has the answers to its tasks, which do not change after all queries
  are drawn), and from `QueryInv` `PagesStayInOrder`, `TreeBehindFullPage`,
  `EveryInsertLands`, `GetsReturnTheirPayload`, `ScansReturnTheirRange`. A queue
  holds queries of its own partition, an insert is in one queue once, and its key
  is nowhere until its thread comes to it; the interval it goes to is worked out
  from the sizes alone.
- `SkewInsertProofs`: `LoopReadsOwnKey` (the keys moved to the front are never
  more than the tasks worked off), `WaitingIsAnswered` (while nobody holds the
  mutex, flags and entries of the DPUs are equal; while somebody gathers, the
  flags run ahead of the entries by what `gathered` has; and a flag once set stays
  set, because trees only grow),
  `KeysAreSentOnce`, `KeysAreStoredOnce`, `OnlyTheLastIsLost`. A send buffer holds
  different keys of rounds that have been routed, and a key that a page has taken
  is in no send buffer from then on; one the tree has taken may still be, but it
  has met its page full, and pages stay full. It is inserted a second time only
  after the round in which it was routed, and then into the same tree.

They assume what the modules name in their `ASSUME`s: sizes and bounds are
positive where the code needs it, sets of threads and keys are finite, `None` is
no thread and no partition, a partition's levels of segments rise from its first
key and end in one segment, overflow entries rise, positions stay below
`INVALID`, and new keys are not among the loaded ones (multiples of 3).
`StoredKeysSurvive` is stated for behaviours without the late writer of
`rounds_swap`: with one, keys can be lost.

What a bisection, a sum over a set, a descent or a traversal yields is proved
without induction over data: they are recursive functions or folds, and a claim
about them is shown by taking the least number, or a smallest set, for which it
fails (`LeastNumber`, `Downwards`, `Upwards`). That a recursive function over the
nodes exists follows from each node looking only at later ones (`TopDown`).

Only model-checked: the liveness properties (`Termination` of `seqlock`,
`rounds`, `overflow_two` and `merge_all`), since fairness is out of the prover's
reach, and the three violated properties.

## Found while modelling

Three runs exhibit disagreements with what the code says of itself; `findings`
in `PROJECT.json` quotes the lines: the w-lock of the merge does not keep
writers out (`rounds_swap`); the split of an overflow tree leaves a child
unlocked, so that the assertion of `insertLeaf` can fail (`overflow_assert`);
`getAllData` collects nothing, so that a merge drops the keys in overflow trees
(`overflow_collect`).

Other things the models show or had to follow, in `host/pimlex_host.cpp` unless
another file is named:

- a lock whose version overflows stays set, since `release_lock` carries into
  the lock bit;
- merging a key the array holds already ends in "error in merge" and leaves a
  slot unwritten;
- a fallback of MIX finds the slot of its key but reads the payload at the DPU's
  answer, which is `INVAILD_POS` there (1515); that of SEARCH clips its bound and
  misses the last interval of all (1355); `GetsOwnPayload` states both;
- inserts behind the last partial key of the guard, and in MIX those in the last
  interval of a partition, are dropped (1574); `InsertsLand` states which;
- the last task of every DPU is dropped in SCAN (1784) and in the skewed INSERT
  mode (1631), where keys that wait are then only looked up unless exactly one
  was sent;
- the end keys of scans are cut to 32 bits, and a scan that starts within an
  interval returns nothing, as its loop stops at the first element of the interval,
  which is below its range (1805, 1822); one that starts at or behind the last
  partial key of a partition has no position and returns nothing either
  (`ScanExact`);
- in the skewed mode a key that waits may be inserted twice into its tree (1710),
  and one that waits at the end may be in no tree at all; the send buffer is
  filled without a test for its end (2672);
- the moves of `calculate_partition_skew` go to the record at index 0, which need
  not be the hottest after the re-placement (303);
- `find_key_page` is true for every page with a key and never sets its caller's
  value, and the result of the tree lookup is used inverted;
- UPDATE is never drawn: the tests for GET and UPDATE are the same (2504, 2509);
- the warm-up reads 1,000,000 queries whatever `num_querys` is (2606), and counts
  queries below the first key at index -1 (368);
- the search for an epsilon that fits a DPU halves it, which makes the model
  larger (888).

## Plan

What is left, in this order:

1. An abstract index (a set of keys) that `InsertRounds` without late writers
   implements, as a refinement beside `StoredKeysSurvive`.
2. Several replicas per partition in `Queries`.

## Not modelled

Weak memory: accesses take effect in program order. Floating point, and how the
segments of the PGM index are fitted (`piecewise_linear_model.hpp`,
`pgm_index.hpp`, a vendored library). The search for an epsilon at load time.
Code that is compiled out (`HOT_CHANGE`, `QUICK_HOT_CHANGE`, `UNBLOCKED_OPS`,
`USE_LUT`). `insertFromNode`, which nothing calls, `lookupFromNode`, which
changes nothing, and the range collection of the overflow tree; `update_key_page`, which nothing reaches. Block transfers between
the memories of a DPU. The unbounded scan for a page with keys (1977), which
stops at the end of the array here. Flags, files, workload generation beyond
what the modes draw, timing, statistics. Memory is never freed in the code, so
there is no reclamation.
