---------------------------- MODULE OverflowTree ----------------------------
(***************************************************************************)
(* OptBTree (support/opt_overflow_tree.h), the tree that takes the keys of *)
(* a partition that no buffer page has room for.  A node is split by       *)
(* turning it, full, into an inner node over one new leaf per key.         *)
(* Writers lock the leaf they change; a lookup goes down without locks and *)
(* validates the version of the leaf it has searched.                      *)
(*                                                                         *)
(* Nodes are numbers handed out in order; payloads are left out, so the    *)
(* pointer of a leaf is Value.  insertLeaf is three steps: its checks, the  *)
(* memmove with the write of the key, and the count that makes it visible. *)
(* A failed assertion, and an access outside the arrays or through a       *)
(* pointer that is not one to a node, end the program.                     *)
(***************************************************************************)
EXTENDS LockWord, SequencesExt

CONSTANTS Threads,   \* all threads
          Inserters, \* those that insert
          Updaters,  \* those that update
          Readers,   \* those that look up
          Keys,      \* the keys they ask for
          Seed,      \* the keys bulk_load has inserted: a sentinel and enough
                     \* others to split the root; none after a clear()
          ChildNum,  \* capacity of a node (32 in the code)
          MaxNodes,  \* bound: nodes that can be allocated
          MaxOps     \* bound: operations of each thread

ASSUME RolesAssumption ==
  Inserters \cup Updaters \cup Readers = Threads
ASSUME KeysAssumption   == Keys \subseteq Nat \ {0} /\ Keys # {}
ASSUME SeedAssumption ==
  /\ Seed \in Seq(Nat \ {0}) /\ Len(Seed) \in {0, ChildNum + 1}
  /\ \A i, j \in DOMAIN Seed : i < j => Seed[i] < Seed[j]
ASSUME SizesAssumption ==
  /\ ChildNum \in Nat \ {0, 1} /\ MaxOps \in [Threads -> Nat]
  /\ MaxNodes \in Nat /\ MaxNodes > ChildNum + 1

VARIABLES
  type, count, keys, pointers,  \* the members of each node
  word,       \* nodelock of each node
  next,       \* the next node to allocate
  pc, key,    \* what each thread does, and for which key
  node,       \* the node it stands at
  leaf,       \* the node it inserts into: node, or a child of node
  pos,        \* the slots of leaf that stay below the key it inserts
  version,    \* the version its lookup has read
  ret,        \* what its lookup has found
  left,       \* the operations it has left
  completed,  \* history: the keys whose insert has returned true
  due,        \* history: whether its key was completed when a lookup began
  apart       \* history: whether writers have kept apart so far

tree  == <<type, count, keys, pointers>>
registers == <<key, node, leaf, version, ret, left>>
mine  == <<registers, pos>>
ghost == <<completed, due>>
vars  == <<tree, word, next, pc, mine, ghost, apart>>

Nodes == 1 .. MaxNodes
Root  == 1
Value == 0      \* a pointer to a payload
Slots == 1 .. ChildNum

PC == {"idle", "insDescend", "insLock", "insType", "split", "leaf", "shift",
       "bump", "insRelease", "updDescend", "updLock", "updLeaf", "updRelease",
       "getDescend", "getVersion", "getSearch", "getCheck", "abort", "wild"}

\* Between a get_lock and its release_lock.
Holds == {"insType", "split", "leaf", "shift", "bump", "insRelease",
          "updLeaf", "updRelease"}

\* From the checks of insertLeaf to its count.
Inserting == {"leaf", "shift", "bump"}

Alive == \A t \in Threads : pc[t] \notin {"abort", "wild"}

Goto(t, label) == pc' = [pc EXCEPT ![t] = label]

\* A cleared tree is an empty leaf.  A loaded one has a leaf for each key but
\* the last, which has split the root and joined the key before it.
Cleared == Seed = <<>>
SeedKeys == {Seed[i] : i \in DOMAIN Seed}
LeafOf(i) == Root + i

Init ==
  /\ type = [n \in Nodes |-> IF n = Root /\ ~Cleared THEN "inner" ELSE "leaf"]
  /\ count = [n \in Nodes |->
       IF Cleared \/ n > LeafOf(ChildNum) THEN 0
       ELSE IF n = Root THEN ChildNum
       ELSE IF n = LeafOf(ChildNum) THEN 2 ELSE 1]
  /\ keys = [n \in Nodes |-> [i \in Slots |->
       IF i > count[n] THEN 0
       ELSE IF n = Root THEN Seed[i] ELSE Seed[n - Root + i - 1]]]
  /\ pointers = [n \in Nodes |-> [i \in Slots |->
       IF n = Root /\ ~Cleared THEN LeafOf(i) ELSE Value]]
  /\ word = [n \in Nodes |-> 0]
  /\ next = IF Cleared THEN Root + 1 ELSE LeafOf(ChildNum) + 1
  /\ pc = [t \in Threads |-> "idle"]
  /\ key = [t \in Threads |-> CHOOSE k \in Keys : TRUE]
  /\ node = [t \in Threads |-> Root]
  /\ leaf = [t \in Threads |-> Root]
  /\ pos = [t \in Threads |-> 0]
  /\ version = [t \in Threads |-> 0]
  /\ ret = [t \in Threads |-> FALSE]
  /\ left = MaxOps
  /\ completed = SeedKeys
  /\ due = [t \in Threads |-> FALSE]
  /\ apart = TRUE

-----------------------------------------------------------------------------
\* The slots in use whose key is below k, and those whose key is not above k.
\* On a sorted node their numbers are what lowerBound and lowerBoundInner
\* return.
lowerBound(n, k) == Cardinality({i \in 1 .. count[n] : keys[n][i] < k})
lowerBoundInner(n, k) == Cardinality({i \in 1 .. count[n] : keys[n][i] <= k})

\* searchLeaf
Found(n, k) == \E i \in 1 .. count[n] : keys[n][i] = k

IsInner(n) == type[n] = "inner"

\* A thread starts an operation at the root.
Begin(t) ==
  /\ pc[t] = "idle" /\ left[t] > 0
  /\ left' = [left EXCEPT ![t] = @ - 1]
  /\ node' = [node EXCEPT ![t] = Root]
  /\ \E k \in Keys, label \in {"insDescend", "updDescend", "getDescend"} :
       /\ label = "insDescend" => t \in Inserters
       /\ label = "updDescend" => t \in Updaters
       /\ label = "getDescend" => t \in Readers
       /\ key' = [key EXCEPT ![t] = k]
       /\ due' = [due EXCEPT ![t] = k \in completed]
       /\ Goto(t, label)
  /\ UNCHANGED <<tree, word, next, leaf, pos, version, ret, completed>>

-----------------------------------------------------------------------------
(* insert                                                                  *)

\* One level down; a key that is not above the first key of an inner node is
\* not inserted.
InsDescend(t) ==
  /\ pc[t] = "insDescend"
  /\ \/ /\ IsInner(node[t]) /\ key[t] <= keys[node[t]][1]
        /\ Goto(t, "idle")
        /\ UNCHANGED node
     \/ /\ IsInner(node[t]) /\ key[t] > keys[node[t]][1]
        /\ LET child == pointers[node[t]][lowerBoundInner(node[t], key[t])]
           IN IF child = Value THEN Goto(t, "wild") /\ UNCHANGED node
              ELSE node' = [node EXCEPT ![t] = child] /\ UNCHANGED pc
     \/ /\ ~IsInner(node[t])
        /\ Goto(t, "insLock")
        /\ UNCHANGED node
  /\ UNCHANGED <<tree, word, next, key, leaf, pos, version, ret, left, ghost>>

\* get_lock: an atomic acquisition once the lock is free (see SeqLock).
GetLock(t) ==
  /\ ~IsSet(word[node[t]])
  /\ word' = [word EXCEPT ![node[t]] = WithLock(@)]

ReleaseLock(t) == word' = [word EXCEPT ![node[t]] = Released(@)]

InsLock(t) ==
  /\ pc[t] = "insLock"
  /\ GetLock(t)
  /\ Goto(t, "insType")
  /\ UNCHANGED <<tree, next, mine, ghost>>

\* The leaf may have become an inner node before the lock was taken.
InsType(t) ==
  /\ pc[t] = "insType"
  /\ leaf' = [leaf EXCEPT ![t] = node[t]]
  /\ \/ /\ IsInner(node[t])
        /\ ReleaseLock(t)
        /\ Goto(t, "insDescend")
     \/ /\ ~IsInner(node[t])
        /\ Goto(t, IF count[node[t]] = ChildNum THEN "split" ELSE "leaf")
        /\ UNCHANGED word
  /\ UNCHANGED <<tree, next, key, node, pos, version, ret, left, ghost>>

\* One new node too far.
ChildrenShifted(n) == [i \in Slots |-> next + i]

\* The new nodes, one for each slot of n.
Children(n) == [i \in Slots |-> next + i - 1]

\* n is an inner node, and each of them a leaf with one of its keys.
Grown(n) ==
  /\ type' = [type EXCEPT ![n] = "inner"]
  /\ count' = [m \in Nodes |->
                 IF m \in next .. next + ChildNum - 1 THEN 1 ELSE count[m]]
  /\ keys' = [m \in Nodes |->
                IF m \in next .. next + ChildNum - 1
                THEN [keys[m] EXCEPT ![1] = keys[n][m - next + 1]]
                ELSE keys[m]]

\* A split that leaves the pointers of the payloads in the inner node.
SplitUnlinked(t) ==
  LET n == node[t]
      chosen == {i \in Slots : key[t] > keys[n][i]}
  IN /\ pc[t] = "split"
     /\ next + ChildNum <= MaxNodes + 1
     /\ next' = next + ChildNum
     /\ Grown(n)
     /\ \/ /\ chosen # {}
           /\ leaf' = [leaf EXCEPT ![t] = Children(n)[Cardinality(chosen)]]
           /\ Goto(t, "leaf")
        \/ chosen = {} /\ Goto(t, "insRelease") /\ UNCHANGED leaf
     /\ UNCHANGED <<pointers, word, key, node, pos, version, ret, left, ghost>>

\* A split that chooses the first child for every key.
SplitFirst(t) ==
  LET n == node[t]
      chosen == {i \in Slots : key[t] > keys[n][i]}
  IN /\ pc[t] = "split"
     /\ next + ChildNum <= MaxNodes + 1
     /\ next' = next + ChildNum
     /\ Grown(n)
     /\ pointers' = [pointers EXCEPT ![n] = Children(n)]
     /\ \/ /\ chosen # {}
           /\ leaf' = [leaf EXCEPT ![t] = Children(n)[1]]
           /\ Goto(t, "leaf")
        \/ chosen = {} /\ Goto(t, "insRelease") /\ UNCHANGED leaf
     /\ UNCHANGED <<word, key, node, pos, version, ret, left, ghost>>

\* The split of a full leaf.  The node is an inner node from here on, and the
\* child that takes the new key, the last one whose key is below it, is not
\* locked.  A key below them all is left out.
Split(t) ==
  LET n == node[t]
      chosen == {i \in Slots : key[t] > keys[n][i]}
  IN /\ pc[t] = "split"
     /\ next + ChildNum <= MaxNodes + 1
     /\ next' = next + ChildNum
     /\ Grown(n)
     /\ pointers' = [pointers EXCEPT ![n] = Children(n)]
     /\ \/ /\ chosen # {}
           /\ leaf' = [leaf EXCEPT ![t] = Children(n)[Cardinality(chosen)]]
           /\ Goto(t, "leaf")
        \/ chosen = {} /\ Goto(t, "insRelease") /\ UNCHANGED leaf
     /\ UNCHANGED <<word, key, node, pos, version, ret, left, ghost>>

\* insertLeaf as far as the memmove: nothing is inserted into an inner node,
\* nor a key that is there.
InsertLeaf(t) ==
  LET n == leaf[t]
  IN /\ pc[t] = "leaf"
     /\ Goto(t, IF IsInner(n) THEN "insRelease"
                ELSE IF count[n] >= ChildNum THEN "abort"
                ELSE IF Found(n, key[t]) THEN "insRelease" ELSE "shift")
     /\ pos' = [pos EXCEPT ![t] = lowerBound(n, key[t])]
     /\ UNCHANGED <<tree, word, next, registers, ghost>>

\* The memmove and the key.  It moves what is in the leaf now, so a leaf that
\* has grown full since the checks is overrun.
Shift(t) ==
  LET n == leaf[t]
  IN /\ pc[t] = "shift"
     /\ \/ /\ count[n] < ChildNum
           /\ keys' = [keys EXCEPT ![n] = [i \in Slots |->
                         IF i = pos[t] + 1 THEN key[t]
                         ELSE IF i \in pos[t] + 2 .. count[n] + 1
                              THEN keys[n][i - 1]
                         ELSE keys[n][i]]]
           /\ Goto(t, "bump")
        \/ count[n] = ChildNum /\ Goto(t, "wild") /\ UNCHANGED keys
     /\ UNCHANGED <<type, count, pointers, word, next, mine, ghost>>

\* count++
Bump(t) ==
  LET n == leaf[t]
  IN /\ pc[t] = "bump"
     /\ \/ /\ count[n] < ChildNum
           /\ count' = [count EXCEPT ![n] = @ + 1]
           /\ Goto(t, "insRelease")
        \/ count[n] = ChildNum /\ Goto(t, "wild") /\ UNCHANGED count
     /\ UNCHANGED <<type, keys, pointers, word, next, mine, ghost>>

\* An insert that returns with the leaf locked.
InsKeep(t) ==
  /\ pc[t] = "insRelease"
  /\ completed' = completed \cup {key[t]}
  /\ Goto(t, "idle")
  /\ UNCHANGED <<tree, word, next, mine, due>>

\* An insert that after a split releases the child it has inserted into.
InsReleaseLeaf(t) ==
  /\ pc[t] = "insRelease"
  /\ word' = [word EXCEPT ![leaf[t]] = Released(@)]
  /\ completed' = completed \cup {key[t]}
  /\ Goto(t, "idle")
  /\ UNCHANGED <<tree, next, mine, due>>

\* The lock of the leaf, or of what was the leaf, is released: true.
InsRelease(t) ==
  /\ pc[t] = "insRelease"
  /\ ReleaseLock(t)
  /\ completed' = completed \cup {key[t]}
  /\ Goto(t, "idle")
  /\ UNCHANGED <<tree, next, mine, due>>

-----------------------------------------------------------------------------
(* update and lookup                                                       *)

\* One level down for update and lookup.  A key below the first key of an
\* inner node follows smallnode, which is never set; the pointer it follows
\* may also be the payload an update has put in its place.
Descend(t, here, there) ==
  LET n == node[t]
      child == IF key[t] < keys[n][1] THEN Value
               ELSE pointers[n][lowerBoundInner(n, key[t])]
  IN /\ pc[t] = here
     /\ \/ ~IsInner(n) /\ Goto(t, there) /\ UNCHANGED node
        \/ IsInner(n) /\ child = Value /\ Goto(t, "wild") /\ UNCHANGED node
        \/ /\ IsInner(n) /\ child # Value
           /\ node' = [node EXCEPT ![t] = child]
           /\ UNCHANGED pc
     /\ UNCHANGED <<tree, word, next, key, leaf, pos, version, ret, left,
                    ghost>>

UpdDescend(t) == Descend(t, "updDescend", "updLock")

UpdLock(t) ==
  /\ pc[t] = "updLock"
  /\ GetLock(t)
  /\ Goto(t, "updLeaf")
  /\ UNCHANGED <<tree, next, mine, ghost>>

\* updateLeaf: the type is not looked at again, so the pointer that a payload
\* replaces may be that of a child by now.
UpdLeaf(t) ==
  LET n == node[t]
      p == lowerBound(n, key[t]) + 1
  IN /\ pc[t] = "updLeaf"
     /\ \/ /\ Found(n, key[t])
           /\ pointers' = [pointers EXCEPT ![n][p] = Value]
        \/ ~Found(n, key[t]) /\ UNCHANGED pointers
     /\ Goto(t, "updRelease")
     /\ UNCHANGED <<type, count, keys, word, next, mine, ghost>>

UpdRelease(t) ==
  /\ pc[t] = "updRelease"
  /\ ReleaseLock(t)
  /\ Goto(t, "idle")
  /\ UNCHANGED <<tree, next, mine, ghost>>

GetDescend(t) == Descend(t, "getDescend", "getVersion")

\* Spin until the leaf is free and keep its version.
GetVersion(t) ==
  /\ pc[t] = "getVersion"
  /\ ~IsSet(word[node[t]])
  /\ version' = [version EXCEPT ![t] = word[node[t]]]
  /\ Goto(t, "getSearch")
  /\ UNCHANGED <<tree, word, next, key, node, leaf, pos, ret, left, ghost>>

GetSearch(t) ==
  /\ pc[t] = "getSearch"
  /\ ret' = [ret EXCEPT ![t] = Found(node[t], key[t])]
  /\ Goto(t, "getCheck")
  /\ UNCHANGED <<tree, word, next, key, node, leaf, pos, version, left, ghost>>

\* A lookup that does not validate what it has searched.
GetUnchecked(t) ==
  /\ pc[t] = "getCheck"
  /\ Goto(t, "idle")
  /\ UNCHANGED <<tree, word, next, mine, ghost>>

\* Start over from this node when its version has changed.
GetCheck(t) ==
  /\ pc[t] = "getCheck"
  /\ Goto(t, IF word[node[t]] = version[t] THEN "idle" ELSE "getDescend")
  /\ UNCHANGED <<tree, word, next, mine, ghost>>

-----------------------------------------------------------------------------
Step(t) ==
  \/ Begin(t)
  \/ InsDescend(t) \/ InsLock(t) \/ InsType(t) \/ Split(t) \/ InsertLeaf(t)
  \/ Shift(t) \/ Bump(t) \/ InsRelease(t)
  \/ UpdDescend(t) \/ UpdLock(t) \/ UpdLeaf(t) \/ UpdRelease(t)
  \/ GetDescend(t) \/ GetVersion(t) \/ GetSearch(t) \/ GetCheck(t)

\* The two ways in which the writers of a tree get at each other.  A split
\* leaves the child it goes on to insert into unlocked, and another writer may
\* insert into it at the same time; and an update that waits for a leaf writes
\* into whatever a split has made of it.
WritesApart ==
  \A t, u \in Threads : t # u =>
    /\ ~(pc[t] \in Inserting /\ pc[u] \in Inserting /\ leaf[t] = leaf[u])
    /\ ~(pc[t] = "split" /\ pc[u] = "updLock" /\ node[t] = node[u])

Move(t) == Step(t) /\ apart' = (apart /\ WritesApart')

Finished == \A t \in Threads : pc[t] = "idle" /\ left[t] = 0

\* The program goes on until all threads are done or it has been killed.
Next ==
  \/ Alive /\ \E t \in Threads : Move(t)
  \/ (Finished \/ ~Alive) /\ UNCHANGED vars

Spec == Init /\ [][Next]_vars

\* Each thread is an OS thread that the scheduler keeps running.
FairSpec == Spec /\ \A t \in Threads : WF_vars(Alive /\ Move(t))

-----------------------------------------------------------------------------
\* Pointers lead to nodes that have been allocated.
TypeOK ==
  /\ type \in [Nodes -> {"leaf", "inner"}]
  /\ count \in [Nodes -> 0 .. ChildNum]
  /\ keys \in [Nodes -> [Slots -> Nat]]
  /\ pointers \in [Nodes -> [Slots -> {Value} \cup 1 .. next - 1]]
  /\ word \in [Nodes -> Word]
  /\ next \in 2 .. MaxNodes + 1
  /\ pc \in [Threads -> PC]
  /\ key \in [Threads -> Keys]
  /\ node \in [Threads -> Nodes] /\ leaf \in [Threads -> Nodes]
  /\ pos \in [Threads -> 0 .. ChildNum]
  /\ version \in [Threads -> Word]
  /\ ret \in [Threads -> BOOLEAN]
  /\ left \in [Threads -> Nat]
  /\ completed \subseteq Nat /\ due \in [Threads -> BOOLEAN]
  /\ apart \in BOOLEAN

\* The leaf a descent for k ends at; a key below the first of a node goes no
\* further.
LeafFor(k) ==
  LET from[n \in Nodes] ==
        IF IsInner(n) /\ lowerBoundInner(n, k) # 0
        THEN from[pointers[n][lowerBoundInner(n, k)]] ELSE n
  IN  from[Root]

\* The entry of an inner node for its i-th child.
Entry(n, i) == <<[key |-> keys[n][i], leaf |-> pointers[n][i]]>>

\* A traversal that visits the inner children of a node before its leaves.
InnerEntriesDeep ==
  LET below[n \in Nodes] ==
        FlattenSeq([i \in 1 .. count[n] |->
          IF IsInner(pointers[n][i]) THEN below[pointers[n][i]] ELSE <<>>])
        \o FlattenSeq([i \in 1 .. count[n] |->
          IF IsInner(pointers[n][i]) THEN <<>> ELSE Entry(n, i)])
  IN  below[Root]

\* getAllInner: the leaves below the inner nodes, with the key the parent has
\* for each, in the order it visits them.
InnerEntries ==
  LET below[n \in Nodes] ==
        IF IsInner(n)
        THEN FlattenSeq([i \in 1 .. count[n] |->
               IF IsInner(pointers[n][i]) THEN below[pointers[n][i]] ELSE Entry(n, i)])
        ELSE <<>>
  IN  below[Root]
AllInner == IF IsInner(Root) THEN InnerEntries ELSE <<>>

\* getAllData: helpGetAllData is called on inner nodes only, and of an inner
\* node it visits the inner children.
AllData ==
  LET below[n \in Nodes] ==
        IF IsInner(n)
        THEN UNION {below[pointers[n][i]] : i \in {j \in 1 .. count[n] : IsInner(pointers[n][j])}}
        ELSE {keys[n][i] : i \in 1 .. count[n]}
  IN  IF IsInner(Root) THEN below[Root] ELSE {}

\* "assert(count < ChildNum)" in insertLeaf: a writer never finds the leaf it
\* inserts into full.
AssertionHolds == \A t \in Threads : pc[t] # "abort"

\* Nothing is read or written outside a node, however many writers there are:
\* no descent follows a payload, and no insertion overruns its leaf, unless
\* two have come together below a split.  An update or a lookup follows
\* smallnode in a tree that has grown from a cleared one, for a key below the
\* first of an inner node, and nowhere else.
NoWildPointer ==
  \A t \in Threads : pc[t] = "wild" =>
    \/ ~apart
    \/ Cleared /\ IsInner(node[t]) /\ key[t] < keys[node[t]][1]

\* The lock of a node is held exactly while one thread is between get_lock
\* and release_lock on it, whichever way through split, recheck and drop the
\* thread takes, and whatever the other writers do to the node meanwhile.
LockedByOne ==
  Alive => \A n \in Nodes :
    LET holders == {t \in Threads : pc[t] \in Holds /\ node[t] = n}
    IN IF IsSet(word[n]) THEN Cardinality(holders) = 1 ELSE holders = {}

\* A key whose insert has returned true is where a descent for it ends, also
\* while several writers split leaves, this one too, unless two of them have
\* come together below a split.
CompletedReachable ==
  apart => \A k \in completed :
    \/ Found(LeafFor(k), k)
    \/ \E t \in Threads : pc[t] = "bump" /\ leaf[t] = LeafFor(k)

\* What getAllInner hands to the DPUs, which search it by bisection, is
\* sorted, and the entry a search for a completed key ends at leads to it,
\* unless two writers have come together below a split.
InnerEntriesLead ==
  LET entries == AllInner
      last(k) == Cardinality({i \in DOMAIN entries : entries[i].key <= k})
  IN apart =>
     /\ \A i \in 2 .. Len(entries) : entries[i - 1].key <= entries[i].key
     /\ \A k \in completed : entries # <<>> =>
          last(k) > 0 /\ entries[last(k)].leaf = LeafFor(k)

\* A lookup that returns false looked for a key whose insert had not returned
\* when the lookup began, unless two writers have come together below a split.
LookupFindsCompleted ==
  [][\A t \in Threads : apart /\ pc[t] = "getCheck" /\ pc'[t] = "idle" /\ due[t]
                          => ret[t]]_vars

\* The merge calls getAllData to "get overflow keys", clears the trees and then
\* inserts what it got: between operations it gets the keys that have been
\* inserted since the tree was loaded.
GetAllDataComplete ==
  (\A t \in Threads : pc[t] = "idle") => completed \ SeedKeys \subseteq AllData

\* Lookups and updates get past every writer, and everybody finishes, unless
\* the program is killed.
Termination == <>(Finished \/ ~Alive)
=============================================================================
