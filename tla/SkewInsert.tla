----------------------------- MODULE SkewInsert -----------------------------
(***************************************************************************)
(* The skewed INSERT mode (--insert_skew).  As in INSERT mode a thread     *)
(* routes a batch, has the DPUs find the positions and inserts into the    *)
(* pages.  But a key whose page is full waits in the send buffer, if the   *)
(* DPUs hold the inner entries of its overflow tree, and a second launch   *)
(* has the DPUs find the node below which it belongs.  Every time enough   *)
(* keys have been written, a thread gathers the inner entries anew.        *)
(*                                                                         *)
(* Under the mutex lock a launch is one step (Queries splits it), but the  *)
(* gathering is not: its flags are read outside.  A partition is one DPU,  *)
(* and a key is known by its page: None if the guard before insert_page    *)
(* holds for no page (InsertsLand of Queries says for which keys).  A tree *)
(* is how often it holds each key.  The code that would merge is commented *)
(* out, so the gate is always open.                                        *)
(***************************************************************************)
EXTENDS Integers, FiniteSets, SequencesExt

CONSTANTS Thread,     \* the threads
          P,          \* NR_PARTITION
          PagesOf,    \* how many pages a partition has, and
          Homes,      \* which page each key may belong to: a set of functions
          Rounds,     \* rounds of a thread, 2 in the code
          Batch,      \* per_round_ops
          BufSize,    \* BUF_SIZE
          MaxBufferSize,  \* MAX_BUFFER_SIZE, the slots of a send buffer
          Threshold,  \* 0.2 * num_querys
          SplitAt,    \* keys that split a tree, per partition; 0: seeds do
          None

ASSUME RoundsAssumption == Rounds \in Nat \ {0} /\ Batch \in Nat
ASSUME SizesAssumption  == P \in Nat \ {0} /\ BufSize \in Nat \ {0} /\ Threshold \in Nat

\* Not checked where the slot is taken: the rounds must fit the send buffer.
ASSUME BufferAssumption == MaxBufferSize \in Nat /\ Rounds * Batch <= MaxBufferSize

Part   == 0 .. P - 1
Page   == {<<p, i>> : p \in Part, i \in 1 .. PagesOf}
Key    == Thread \X (1 .. Rounds) \X (1 .. Batch)
Slots  == 1 .. MaxBufferSize

ASSUME NoneAssumption    == None \notin Part \cup Thread
ASSUME HomesAssumption   == Homes \subseteq [Key -> Part \X (0 .. PagesOf)]
ASSUME SplitAtAssumption == SplitAt \in [Part -> Nat]

VARIABLES home,     \* partition and page of each key; page 0 is no page
          pages,    \* the keys in each page
          trees,    \* opt_overflow_trees
          enabled,  \* enable_pim_overflow
          entries,  \* overflow_len # 0, on the DPUs
          holder,   \* of the mutex lock while the entries are gathered
          gathered, \* the partitions the holder has found inner_keys of
          written,  \* current_write_num
          pc, round,
          sbuffer, n,   \* per thread and DPU: host_send_buffer and its n_tasks
          asked,        \* what was sent when the positions were searched
          answered,     \* n_tasks of host_overflow_buffer
          todo, at, j   \* DPUs to visit, the one in hand, and its task

index   == <<home, pages, trees>>
pim     == <<enabled, entries, holder, gathered>>
buffers == <<sbuffer, n>>
loop    == <<todo, at, j>>
vars    == <<index, pim, written, pc, round, buffers, asked, answered, loop>>

Set(t, label) == pc' = [pc EXCEPT ![t] = label]

\* The root of a tree is split by its seeds or by the keys that follow.
Held(p)    == {k \in Key : trees[p][k] # 0}
IsSplit(p) == Cardinality(Held(p)) >= SplitAt[p]

\* How often a tree holds a key that it held so often and that is inserted: if
\* the leaf is full and has the key, the split puts another one into the child
\* before, unless the key is the first of all; later descents end at the child
\* that begins with the key.
Inserted(often, full) == IF often = 0 THEN 1 ELSE IF full THEN 2 ELSE often

\* collect_overflow_tree_to_dpu has run once before the threads.
Init ==
  /\ home \in Homes
  /\ pages = [g \in Page |-> <<>>]
  /\ trees = [p \in Part |-> [k \in Key |-> 0]]
  /\ enabled = [p \in Part |-> SplitAt[p] = 0]
  /\ entries = enabled
  /\ holder = None /\ gathered = enabled
  /\ written = 0
  /\ pc = [t \in Thread |-> "route"] /\ round = [t \in Thread |-> 1]
  /\ sbuffer = [t \in Thread |-> [p \in Part |-> [s \in Slots |-> None]]]
  /\ n = [t \in Thread |-> [p \in Part |-> 0]]
  /\ asked = [t \in Thread |-> [p \in Part |-> <<>>]]
  /\ answered = [t \in Thread |-> [p \in Part |-> 0]]
  /\ todo = [t \in Thread |-> {}]
  /\ at = [t \in Thread |-> None] /\ j = [t \in Thread |-> 0]

Sent(t, p) == [s \in 1 .. n[t][p] |-> sbuffer[t][p][s]]

-----------------------------------------------------------------------------
\* The loop that routes the batch: it puts each key of a partition behind the
\* tasks there are.
Routed(t, p, tasks) ==
  LET key(i) == <<t, round[t], i>>
      queue[i \in 0 .. Batch] ==
        IF i = 0 THEN tasks
        ELSE IF home[key(i)][1] = p THEN Append(queue[i - 1], key(i)) ELSE queue[i - 1]
  IN  queue[Batch]

Filled(t, all) ==
  /\ n' = [n EXCEPT ![t] = [p \in Part |-> Len(all[p])]]
  /\ sbuffer' = [sbuffer EXCEPT ![t] = [p \in Part |->
       [s \in Slots |-> IF s \in 1 .. Len(all[p]) THEN all[p][s] ELSE sbuffer[t][p][s]]]]

\* The batch goes behind what the last round has left in the send buffers; a
\* version that empties them first.
RouteCleared(t) ==
  /\ pc[t] = "route"
  /\ Filled(t, [p \in Part |-> Routed(t, p, <<>>)])
  /\ Set(t, "search")
  /\ UNCHANGED <<index, pim, written, round, asked, answered, loop>>

Route(t) ==
  /\ pc[t] = "route"
  /\ Filled(t, [p \in Part |-> Routed(t, p, Sent(t, p))])
  /\ Set(t, "search")
  /\ UNCHANGED <<index, pim, written, round, asked, answered, loop>>

\* The first launch, and the count of the batch.
Search(t) ==
  /\ pc[t] = "search" /\ holder = None
  /\ asked' = [asked EXCEPT ![t] = [p \in Part |-> Sent(t, p)]]
  /\ written' = written + Batch
  /\ todo' = [todo EXCEPT ![t] = Part]
  /\ Set(t, "insert")
  /\ UNCHANGED <<index, pim, round, buffers, answered, at, j>>

-----------------------------------------------------------------------------
(* insert_payload_skew: the DPUs in a shuffled order.                      *)

\* A visit that does not start the send buffer over.
VisitKeep(t) ==
  /\ pc[t] = "insert" /\ at[t] = None
  /\ \E p \in todo[t] :
       /\ at' = [at EXCEPT ![t] = p]
       /\ todo' = [todo EXCEPT ![t] = @ \ {p}]
       /\ j' = [j EXCEPT ![t] = 0]
  /\ UNCHANGED <<index, pim, written, pc, round, buffers, asked, answered>>

Visit(t) ==
  /\ pc[t] = "insert" /\ at[t] = None
  /\ \E p \in todo[t] :
       /\ at' = [at EXCEPT ![t] = p]
       /\ todo' = [todo EXCEPT ![t] = @ \ {p}]
       /\ n' = [n EXCEPT ![t][p] = 0]
       /\ j' = [j EXCEPT ![t] = 0]
  /\ UNCHANGED <<index, pim, written, pc, round, sbuffer, asked, answered>>

\* task_num is n_tasks - 1: the last task of a DPU is not worked off.
Tasks(t) == Len(asked[t][at[t]]) - 1

\* The task in hand; the key is read from the send buffer, the position is
\* the answer to the same slot.
Working(t)  == pc[t] = "insert" /\ at[t] # None /\ j[t] < Tasks(t)
InHand(t)   == sbuffer[t][at[t]][j[t] + 1]
Asked(t)    == asked[t][at[t]][j[t] + 1]
HasPage(t)  == home[Asked(t)] \in Page

\* The next task; a key that waits moves to the front of the send buffer.
NextTask(t) == j' = [j EXCEPT ![t] = @ + 1]

\* A key that is moved one slot too far.
MoveAhead(t) ==
  /\ n' = [n EXCEPT ![t][at[t]] = @ + 1]
  /\ sbuffer' = [sbuffer EXCEPT ![t][at[t]][n[t][at[t]] + 2] = InHand(t)]

Move(t) ==
  /\ n' = [n EXCEPT ![t][at[t]] = @ + 1]
  /\ sbuffer' = [sbuffer EXCEPT ![t][at[t]][n[t][at[t]] + 1] = InHand(t)]

\* The page takes the key, but the key is kept for the DPUs, too.
IntoPageKept(t) ==
  /\ Working(t) /\ HasPage(t)
  /\ LET g == home[Asked(t)]
     IN  Len(pages[g]) < BufSize /\ pages' = [pages EXCEPT ![g] = Append(@, InHand(t))]
  /\ Move(t)
  /\ NextTask(t)
  /\ UNCHANGED <<home, trees, pim, written, pc, round, asked, answered, todo, at>>

IntoPage(t) ==
  /\ Working(t) /\ HasPage(t)
  /\ LET g == home[Asked(t)]
     IN  Len(pages[g]) < BufSize /\ pages' = [pages EXCEPT ![g] = Append(@, InHand(t))]
  /\ NextTask(t)
  /\ UNCHANGED <<home, trees, pim, written, pc, round, buffers, asked, answered, todo, at>>

PageFull(t) == HasPage(t) /\ Len(pages[home[Asked(t)]]) >= BufSize

IntoTree(t) ==
  /\ Working(t) /\ PageFull(t) /\ ~enabled[at[t]]
  /\ \E full \in BOOLEAN :
       trees' = [trees EXCEPT ![at[t]][InHand(t)] = Inserted(@, full)]
  /\ NextTask(t)
  /\ UNCHANGED <<home, pages, pim, written, pc, round, buffers, asked, answered, todo, at>>

Wait(t) ==
  /\ Working(t) /\ PageFull(t) /\ enabled[at[t]]
  /\ Move(t)
  /\ NextTask(t)
  /\ UNCHANGED <<index, pim, written, pc, round, asked, answered, todo, at>>

NoPage(t) ==
  /\ Working(t) /\ ~HasPage(t)
  /\ NextTask(t)
  /\ UNCHANGED <<index, pim, written, pc, round, buffers, asked, answered, todo, at>>

Leave(t) ==
  /\ pc[t] = "insert" /\ at[t] # None /\ j[t] >= Tasks(t)
  /\ at' = [at EXCEPT ![t] = None]
  /\ UNCHANGED <<index, pim, written, pc, round, buffers, asked, answered, todo, j>>

-----------------------------------------------------------------------------
(* The second launch, insert_payload_skew_past, and the next round.        *)

\* Only if some DPU has a key; one without entries answers with no task.
Launch(t) ==
  /\ pc[t] = "insert" /\ at[t] = None /\ todo[t] = {}
  /\ \E p \in Part : n[t][p] # 0
  /\ answered' = [answered EXCEPT ![t] = [p \in Part |-> IF entries[p] THEN n[t][p] ELSE 0]]
  /\ Set(t, "past")
  /\ UNCHANGED <<index, pim, written, round, buffers, asked, loop>>

\* A second launch that does not wait for who gathers the entries.
SearchOverflowUnlocked(t) == Launch(t)

SearchOverflow(t) == holder = None /\ Launch(t)

SkipOverflow(t) ==
  /\ pc[t] = "insert" /\ at[t] = None /\ todo[t] = {}
  /\ \A p \in Part : n[t][p] = 0
  /\ Set(t, "collect")
  /\ UNCHANGED <<index, pim, written, round, buffers, asked, answered, loop>>

\* A DPU that has answered one task: the key is inserted from the root.  For
\* more tasks the keys are looked up (lookupFromNode), which changes nothing.
\* The send buffer keeps the keys in both cases.
Past(t) ==
  /\ pc[t] = "past"
  /\ \E full \in SUBSET UNION {Range(Sent(t, p)) : p \in Part} :
       trees' = [p \in Part |-> [k \in Key |->
         IF answered[t][p] = 1 /\ k \in Range(Sent(t, p))
         THEN Inserted(trees[p][k], k \in full) ELSE trees[p][k]]]
  /\ Set(t, "collect")
  /\ UNCHANGED <<home, pages, pim, written, round, buffers, asked, answered, loop>>

NextRound(t) ==
  IF round[t] = Rounds
  THEN Set(t, "done") /\ UNCHANGED round
  ELSE Set(t, "route") /\ round' = [round EXCEPT ![t] = @ + 1]

\* The count is read, set to zero, and the entries are collected, in steps of
\* their own: two threads may both find the count high enough.
Decide(t) ==
  /\ pc[t] = "collect"
  /\ IF written > Threshold THEN Set(t, "reset") /\ UNCHANGED round ELSE NextRound(t)
  /\ UNCHANGED <<index, pim, written, buffers, asked, answered, loop>>

ResetCount(t) ==
  /\ pc[t] = "reset"
  /\ written' = 0
  /\ Set(t, "gather")
  /\ UNCHANGED <<index, pim, round, buffers, asked, answered, loop>>

(* collect_overflow_tree_to_dpu, under the mutex lock.                     *)

TakeLock(t) ==
  /\ pc[t] = "gather" /\ holder = None
  /\ holder' = t
  /\ j' = [j EXCEPT ![t] = 0]
  /\ gathered' = [p \in Part |-> FALSE]
  /\ Set(t, "flags")
  /\ UNCHANGED <<index, enabled, entries, written, round, buffers, asked, answered, todo, at>>

\* The partition in hand, of either loop; the loop goes on with the next one.
InTurn(t, label) == pc[t] = label /\ j[t] \in Part

Onward(t, label) ==
  IF j[t] = P - 1 THEN Set(t, label) /\ j' = [j EXCEPT ![t] = 0]
                  ELSE UNCHANGED pc /\ j' = [j EXCEPT ![t] = @ + 1]

\* getAllInner, and the flag of a tree that is split.
GatherInner(t) ==
  /\ InTurn(t, "flags")
  /\ gathered' = [gathered EXCEPT ![j[t]] = IsSplit(j[t])]
  /\ enabled' = [enabled EXCEPT ![j[t]] = @ \/ IsSplit(j[t])]
  /\ Onward(t, "clear")
  /\ UNCHANGED <<index, entries, holder, written, round, buffers, asked, answered, todo, at>>

\* A split tree has at least ChildNum entries, so the test for fewer than ten
\* only meets trees without any.
ClearFlag(t) ==
  /\ InTurn(t, "clear")
  /\ enabled' = [enabled EXCEPT ![j[t]] = @ /\ gathered[j[t]]]
  /\ Onward(t, "push")
  /\ UNCHANGED <<index, entries, holder, gathered, written, round, buffers, asked, answered,
                 todo, at>>

PushEntries(t) ==
  /\ pc[t] = "push"
  /\ entries' = gathered /\ holder' = None
  /\ NextRound(t)
  /\ UNCHANGED <<index, enabled, gathered, written, buffers, asked, answered, loop>>

AllDone == \A t \in Thread : pc[t] = "done"

Step(t) ==
  \/ Route(t) \/ Search(t) \/ Visit(t) \/ IntoPage(t) \/ IntoTree(t) \/ Wait(t)
  \/ NoPage(t) \/ Leave(t) \/ SearchOverflow(t) \/ SkipOverflow(t) \/ Past(t)
  \/ Decide(t) \/ ResetCount(t) \/ TakeLock(t) \/ GatherInner(t) \/ ClearFlag(t)
  \/ PushEntries(t)

Next == (\E t \in Thread : Step(t)) \/ (AllDone /\ UNCHANGED vars)

Spec == Init /\ [][Next]_vars

-----------------------------------------------------------------------------
TypeOK ==
  /\ home \in Homes
  /\ \A g \in Page : Range(pages[g]) \subseteq Key /\ Len(pages[g]) <= BufSize
  /\ trees \in [Part -> [Key -> 0 .. 2]]
  /\ enabled \in [Part -> BOOLEAN] /\ entries \in [Part -> BOOLEAN]
  /\ holder \in Thread \cup {None} /\ gathered \in [Part -> BOOLEAN]
  /\ written \in 0 .. Batch * Rounds * Cardinality(Thread)
  /\ pc \in [Thread -> {"route", "search", "insert", "past", "collect",
                        "reset", "gather", "flags", "clear", "push", "done"}]
  /\ round \in [Thread -> 1 .. Rounds]
  /\ sbuffer \in [Thread -> [Part -> [Slots -> Key \cup {None}]]]
  /\ n \in [Thread -> [Part -> 0 .. Rounds * Batch]]
  /\ answered \in [Thread -> [Part -> 0 .. Rounds * Batch]]
  /\ todo \in [Thread -> SUBSET Part] /\ at \in [Thread -> Part \cup {None}]
  /\ j \in [Thread -> Nat]

\* The keys still to be read from the send buffer of the DPU in hand are those
\* the answers belong to, though keys that wait are written into the same
\* buffer (insert_payload_skew).
ReadsOwnKey ==
  \A t \in Thread : at[t] # None =>
    \A s \in Slots \cap DOMAIN asked[t][at[t]] :
      s > j[t] => sbuffer[t][at[t]][s] = asked[t][at[t]][s]

\* What a DPU is sent are different keys, each of its own partition: what is
\* left over from one round and sent again never meets itself.
SentOnce ==
  \A t \in Thread, p \in Part :
    LET keys == Range(Sent(t, p))
    IN  Cardinality(keys) = n[t][p] /\ \A k \in keys : home[k][1] = p /\ k[1] = t

InPages(k) ==
  {c \in Page \X (1 .. BufSize) : c[2] \in DOMAIN pages[c[1]] /\ pages[c[1]][c[2]] = k}

InTrees(k) == {c \in Part \X {1, 2} : trees[c[1]][k] >= c[2]}

\* A key ends in one page or one tree, and there once, though it may be sent
\* again after it has been inserted into the tree: its page stays full.  Only
\* the tree of its own partition, whose entries the DPU has, may hold it twice,
\* and only if it was left over from an earlier round.
StoredOnce ==
  \A k \in Key :
    \/ Cardinality(InPages(k)) + Cardinality(InTrees(k)) <= 1
    \/ /\ InPages(k) = {} /\ InTrees(k) = {home[k][1]} \X {1, 2}
       /\ k[2] < round[k[1]] /\ enabled[home[k][1]]

\* A DPU answers all the keys that wait for it.  The flag that makes a key wait
\* is read without the mutex lock and set before the entries are pushed, but
\* the launch waits for the lock.
PimAnswers ==
  \A t \in Thread, p \in Part : pc[t] = "past" => answered[t][p] = n[t][p]

Kept(k) == (\E g \in Page : k \in Range(pages[g])) \/ (\E p \in Part : k \in Held(p))

\* The keys of a send buffer: its tasks, and while it is worked off those not
\* worked off yet and those moved to the front.
Pending(t, p) ==
  Range(Sent(t, p)) \cup
    IF at[t] = p THEN {asked[t][p][s] : s \in j[t] + 1 .. Len(asked[t][p])} ELSE {}

\* A key leaves a send buffer only into a page or a tree, unless it has no
\* page or is the last task of its DPU, which is dropped.  In particular no
\* key is lost between rounds while others wait.
LeavesOnlyAsLast ==
  [][\A t \in Thread, p \in Part : \A k \in Pending(t, p) \ Pending(t, p)' :
       \/ Kept(k)' \/ home[k] \notin Page
       \/ at[t] = p /\ at'[t] = None /\ k = Last(asked[t][p])]_vars
=============================================================================
