------------------------- MODULE OverflowTreeProofs -------------------------
(***************************************************************************)
(* For any number of threads, keys and operations and any node size: nodes *)
(* and pointers stay well formed, however writers run into each other in a *)
(* split, and the lock of a node belongs to one thread.                    *)
(*                                                                         *)
(* The rest is what holds until two writers come together below a split,   *)
(* which `apart` remembers.  For any tree: leaves have room, and a descent *)
(* leaves the tree by smallnode only (RoomInv).  For a loaded one: no      *)
(* descent does, keys stay reachable, lookups find them, and what the DPUs *)
(* get leads to them.  ReachInv says why; its hardest parts are the bounds *)
(* a node has from its ancestors and that a key is where its descent ends. *)
(***************************************************************************)
EXTENDS OverflowTree, NaturalsInduction, WellFoundedInduction, FiniteSetTheorems, TLAPS

USE DEF tree, registers, mine, ghost, Goto

-----------------------------------------------------------------------------
(* Counting slots.                                                         *)

LEMMA CountSlots ==
  ASSUME NEW c \in Nat, NEW A, A \subseteq 1 .. c
  PROVE  /\ Cardinality(A) \in 0 .. c
         /\ A # {} => Cardinality(A) # 0
  <1>1. IsFiniteSet(1 .. c) /\ Cardinality(1 .. c) = c
    BY FS_Interval
  <1>2. IsFiniteSet(A) /\ Cardinality(A) \in Nat /\ Cardinality(A) <= c
    BY <1>1, FS_Subset, FS_CardinalityType
  <1> QED BY <1>2, FS_EmptySet

LEMMA Bounds ==
  ASSUME TypeOK, NEW n \in Nodes, NEW k \in Nat
  PROVE  /\ lowerBound(n, k) \in 0 .. ChildNum
         /\ lowerBoundInner(n, k) \in 0 .. ChildNum
         /\ count[n] = ChildNum /\ k >= keys[n][1] => lowerBoundInner(n, k) \in Slots
  <1>1. count[n] \in Nat /\ count[n] <= ChildNum /\ ChildNum \in Nat /\ ChildNum > 0
    BY SizesAssumption DEF TypeOK
  <1>2. lowerBound(n, k) \in 0 .. count[n] /\ lowerBoundInner(n, k) \in 0 .. count[n]
    BY <1>1, CountSlots DEF lowerBound, lowerBoundInner
  <1>3. ASSUME count[n] = ChildNum, k >= keys[n][1]
        PROVE  lowerBoundInner(n, k) # 0
    <2>1. 1 \in {i \in 1 .. count[n] : keys[n][i] <= k}
      <3>1. keys[n][1] \in Nat /\ 1 \in 1 .. count[n]
        BY <1>1, <1>3 DEF TypeOK, Slots
      <3> QED BY <1>3, <3>1
    <2> QED BY <1>1, <2>1, CountSlots DEF lowerBoundInner
  <1> QED BY <1>1, <1>2, <1>3 DEF Slots

-----------------------------------------------------------------------------
(* Type correctness.                                                       *)

\* A node that has been split was full, and nothing makes it less so; threads
\* stand at nodes that have been allocated.
TreeInv ==
  /\ TypeOK
  /\ \A t \in Threads : node[t] < next /\ leaf[t] < next
  /\ \A n \in Nodes : IsInner(n) => n < next /\ count[n] = ChildNum
  /\ \A t \in Threads : pc[t] = "split" => count[node[t]] = ChildNum

LEMMA InitApart == Init => apart
  BY DEF Init

LEMMA TreeInit == Init => TreeInv
  <1> SUFFICES ASSUME Init PROVE TreeInv
    OBVIOUS
  <1> USE SizesAssumption, SeedAssumption, KeysAssumption, LockSetAssumption
  <1>1. /\ next \in 2 .. MaxNodes + 1 /\ Root \in Nodes /\ Root < next
        /\ next = IF Cleared THEN 2 ELSE ChildNum + 2
    BY DEF Init, Root, LeafOf, Nodes
  <1>2. type \in [Nodes -> {"leaf", "inner"}] /\ count \in [Nodes -> 0 .. ChildNum]
    BY DEF Init
  <1>3. keys \in [Nodes -> [Slots -> Nat]]
    <2> SUFFICES ASSUME NEW n \in Nodes, NEW i \in Slots
                 PROVE  (IF i > count[n] THEN 0 ELSE IF n = Root THEN Seed[i] ELSE Seed[n - Root + i - 1]) \in Nat
      BY DEF Init
    <2>1. CASE i > count[n] BY <2>1
    <2>2. CASE i <= count[n]
      <3>1. ~Cleared /\ Len(Seed) = ChildNum + 1 /\ n <= ChildNum + 1
        BY <2>2 DEF Init, LeafOf, Root, Cleared, Slots, Nodes
      <3>2. (IF n = Root THEN i ELSE n - Root + i - 1) \in 1 .. Len(Seed)
        BY <2>2, <3>1 DEF Init, LeafOf, Root, Slots, Nodes
      <3>3. \A j \in 1 .. Len(Seed) : Seed[j] \in Nat
        OBVIOUS
      <3> QED BY <2>2, <3>2, <3>3 DEF Nodes, Slots
    <2> QED BY <1>2, <2>1, <2>2 DEF Slots
  <1>4. pointers \in [Nodes -> [Slots -> {Value} \cup 1 .. next - 1]]
    BY <1>1 DEF Init, LeafOf, Root, Slots
  <1>5. word \in [Nodes -> Word]
    BY DEF Init, Word
  <1>6. /\ pc \in [Threads -> PC] /\ key \in [Threads -> Keys]
        /\ node \in [Threads -> Nodes] /\ leaf \in [Threads -> Nodes]
        /\ pos \in [Threads -> 0 .. ChildNum] /\ version \in [Threads -> Word]
        /\ ret \in [Threads -> BOOLEAN] /\ left \in [Threads -> Nat]
        /\ due \in [Threads -> BOOLEAN]
    <2>1. (CHOOSE k \in Keys : TRUE) \in Keys
      OBVIOUS
    <2> QED BY <1>1, <2>1 DEF Init, PC, Word
  <1>7. completed \subseteq Nat
    BY DEF Init, SeedKeys
  <1>8. TypeOK
    BY <1>1, <1>2, <1>3, <1>4, <1>5, <1>6, <1>7, InitApart DEF TypeOK
  <1>9. \A n \in Nodes : IsInner(n) => n < next /\ count[n] = ChildNum
    BY <1>1 DEF Init, IsInner, LeafOf, Root, Nodes
  <1>10. \A t \in Threads : pc[t] = "idle" /\ node[t] < next /\ leaf[t] < next
    BY <1>1 DEF Init
  <1> QED BY <1>8, <1>9, <1>10 DEF TreeInv

\* What a thread does to nobody but itself.
LEMMA Moves ==
  ASSUME TreeInv, apart' \in BOOLEAN, NEW t \in Threads, NEW label \in PC \ {"split"},
         pc' = [pc EXCEPT ![t] = label] \/ pc' = pc,
         key' \in [Threads -> Keys], node' \in [Threads -> Nodes],
         leaf' \in [Threads -> Nodes], pos' \in [Threads -> 0 .. ChildNum],
         version' \in [Threads -> Word], ret' \in [Threads -> BOOLEAN],
         left' \in [Threads -> Nat], due' \in [Threads -> BOOLEAN],
         completed' \subseteq Nat,
         \A u \in Threads : node'[u] < next /\ leaf'[u] < next,
         \A u \in Threads : pc'[u] = "split" => node'[u] = node[u],
         word' \in [Nodes -> Word], UNCHANGED <<tree, next>>
  PROVE  TreeInv'
  <1>1. pc' \in [Threads -> PC]
    BY DEF TreeInv, TypeOK
  <1>2. TypeOK'
    BY <1>1 DEF TreeInv, TypeOK
  <1>3. \A u \in Threads : pc'[u] = "split" => pc[u] = "split"
    BY DEF TreeInv, TypeOK
  <1> QED BY <1>2, <1>3 DEF TreeInv, IsInner

LEMMA Words ==
  /\ 0 \in Word
  /\ \A w \in Word : WithLock(w) \in Word /\ Released(w) \in Word
  BY LockSetAssumption DEF Word, WithLock, Masked, IsSet, Released

LEMMA LocksKept ==
  ASSUME TypeOK, NEW t \in Threads, GetLock(t) \/ ReleaseLock(t)
  PROVE  word' \in [Nodes -> Word]
  <1>1. word \in [Nodes -> Word] /\ node[t] \in Nodes
    BY DEF TypeOK
  <1>2. word' = [word EXCEPT ![node[t]] = WithLock(@)] \/ word' = [word EXCEPT ![node[t]] = Released(@)]
    BY DEF GetLock, ReleaseLock
  <1> QED BY <1>1, <1>2, Words

\* The child a descent follows has been allocated, unless it is no node.
LEMMA ChildIsNode ==
  ASSUME TreeInv, NEW n \in Nodes, IsInner(n), NEW k \in Nat, k >= keys[n][1],
         NEW child, child = pointers[n][lowerBoundInner(n, k)], child # Value
  PROVE  child \in Nodes /\ child < next
  <1>1. lowerBoundInner(n, k) \in Slots
    BY Bounds DEF TreeInv
  <1>2. child \in 1 .. next - 1 /\ next \in 2 .. MaxNodes + 1
    BY <1>1 DEF TreeInv, TypeOK
  <1> QED BY <1>2, SizesAssumption DEF Nodes

\* What a thread knows of its registers.
LEMMA Registers ==
  ASSUME TreeInv, NEW t \in Threads
  PROVE  /\ node[t] \in Nodes /\ leaf[t] \in Nodes /\ key[t] \in Nat
         /\ pc \in [Threads -> PC] /\ key \in [Threads -> Keys]
         /\ node \in [Threads -> Nodes] /\ leaf \in [Threads -> Nodes]
         /\ pos \in [Threads -> 0 .. ChildNum] /\ version \in [Threads -> Word]
         /\ ret \in [Threads -> BOOLEAN] /\ left \in [Threads -> Nat]
         /\ completed \subseteq Nat /\ due \in [Threads -> BOOLEAN]
         /\ word \in [Nodes -> Word]
         /\ \A u \in Threads : node[u] < next /\ leaf[u] < next
         /\ Root \in Nodes /\ Root < next
         /\ \A n \in Nodes : keys[n][1] \in Nat
  <1>1. TypeOK /\ \A u \in Threads : node[u] < next /\ leaf[u] < next
    BY DEF TreeInv
  <1>2. key[t] \in Nat
    BY <1>1, KeysAssumption DEF TypeOK
  <1>3. Root \in Nodes /\ Root < next
    BY <1>1, SizesAssumption DEF TypeOK, Root, Nodes
  <1>4. \A n \in Nodes : keys[n][1] \in Nat
    <2>1. 1 \in Slots
      BY SizesAssumption DEF Slots
    <2> QED BY <1>1, <2>1 DEF TypeOK
  <1> QED BY <1>1, <1>2, <1>3, <1>4 DEF TypeOK

LEMMA DescendKeeps ==
  ASSUME TreeInv, apart' \in BOOLEAN, NEW t \in Threads, NEW here, NEW there \in PC \ {"split"},
         here # "split", Descend(t, here, there)
  PROVE  TreeInv'
  <1> DEFINE n == node[t]
             child == IF key[t] < keys[n][1] THEN Value ELSE pointers[n][lowerBoundInner(n, key[t])]
  <1>1. /\ pc[t] = here
        /\ UNCHANGED <<tree, word, next, key, leaf, pos, version, ret, left, ghost>>
        /\ \/ ~IsInner(n) /\ pc' = [pc EXCEPT ![t] = there] /\ UNCHANGED node
           \/ IsInner(n) /\ child = Value /\ pc' = [pc EXCEPT ![t] = "wild"] /\ UNCHANGED node
           \/ /\ IsInner(n) /\ child # Value
              /\ node' = [node EXCEPT ![t] = child]
              /\ UNCHANGED pc
    BY DEF Descend
  <1>2. /\ n \in Nodes /\ key[t] \in Nat /\ keys[n][1] \in Nat
        /\ key \in [Threads -> Keys] /\ leaf \in [Threads -> Nodes]
        /\ pos \in [Threads -> 0 .. ChildNum] /\ version \in [Threads -> Word]
        /\ ret \in [Threads -> BOOLEAN] /\ left \in [Threads -> Nat]
        /\ completed \subseteq Nat /\ due \in [Threads -> BOOLEAN]
        /\ word \in [Nodes -> Word] /\ node \in [Threads -> Nodes]
        /\ \A u \in Threads : node[u] < next /\ leaf[u] < next
    BY Registers
  <1>3. IsInner(n) /\ child # Value => child \in Nodes /\ child < next
    BY <1>2, ChildIsNode
  <1> HIDE DEF child
  <1>4. node' \in [Threads -> Nodes] /\ \A u \in Threads : node'[u] < next
    BY <1>1, <1>2, <1>3
  <1>5. pc' = pc => pc[t] # "split"
    BY <1>1
  <1>6. \A u \in Threads : pc'[u] = "split" => node'[u] = node[u]
    BY <1>1, <1>2, <1>5 DEF TreeInv, TypeOK
  <1>7. \E label \in PC \ {"split"} : pc' = [pc EXCEPT ![t] = label] \/ pc' = pc
    BY <1>1 DEF PC
  <1> QED BY <1>1, <1>2, <1>4, <1>6, <1>7, Moves

\* The steps that leave all nodes alone.
LEMMA MovingKeeps ==
  ASSUME TreeInv, apart' \in BOOLEAN, NEW t \in Threads,
         \/ Begin(t) \/ InsDescend(t) \/ InsLock(t) \/ InsertLeaf(t) \/ InsRelease(t)
         \/ UpdDescend(t) \/ UpdLock(t) \/ UpdRelease(t)
         \/ GetDescend(t) \/ GetVersion(t) \/ GetSearch(t) \/ GetCheck(t)
  PROVE  TreeInv'
  <1>1. /\ node[t] \in Nodes /\ leaf[t] \in Nodes /\ key[t] \in Nat
        /\ pc \in [Threads -> PC] /\ key \in [Threads -> Keys]
        /\ node \in [Threads -> Nodes] /\ leaf \in [Threads -> Nodes]
        /\ pos \in [Threads -> 0 .. ChildNum] /\ version \in [Threads -> Word]
        /\ ret \in [Threads -> BOOLEAN] /\ left \in [Threads -> Nat]
        /\ completed \subseteq Nat /\ due \in [Threads -> BOOLEAN]
        /\ word \in [Nodes -> Word]
        /\ \A u \in Threads : node[u] < next /\ leaf[u] < next
        /\ Root \in Nodes /\ Root < next
    BY Registers
  <1>2. CASE Begin(t)
    <2>1. /\ left[t] > 0 /\ left' = [left EXCEPT ![t] = @ - 1]
          /\ node' = [node EXCEPT ![t] = Root]
          /\ UNCHANGED <<tree, word, next, leaf, pos, version, ret, completed>>
      BY <1>2 DEF Begin
    <2>2. PICK k \in Keys, label \in {"insDescend", "updDescend", "getDescend"} :
            /\ key' = [key EXCEPT ![t] = k]
            /\ due' = [due EXCEPT ![t] = k \in completed]
            /\ pc' = [pc EXCEPT ![t] = label]
      BY <1>2 DEF Begin
    <2>3. label \in PC \ {"split"} /\ pc'[t] # "split"
      BY <1>1, <2>2 DEF PC
    <2>4. left' \in [Threads -> Nat]
      BY <1>1, <2>1, SizesAssumption
    <2>5. (k \in completed) \in BOOLEAN
      OBVIOUS
    <2>6. due' \in [Threads -> BOOLEAN]
      BY <1>1, <2>2, <2>5
    <2> QED BY <1>1, <2>1, <2>2, <2>3, <2>4, <2>6, Moves
  <1>3. CASE InsDescend(t)
    <2> DEFINE child == pointers[node[t]][lowerBoundInner(node[t], key[t])]
    <2>1. /\ pc[t] = "insDescend"
          /\ UNCHANGED <<tree, word, next, key, leaf, pos, version, ret, left, ghost>>
          /\ \/ pc' = [pc EXCEPT ![t] = "idle"] /\ UNCHANGED node
             \/ pc' = [pc EXCEPT ![t] = "wild"] /\ UNCHANGED node
             \/ pc' = [pc EXCEPT ![t] = "insLock"] /\ UNCHANGED node
             \/ /\ IsInner(node[t]) /\ key[t] > keys[node[t]][1] /\ child # Value
                /\ node' = [node EXCEPT ![t] = child] /\ UNCHANGED pc
      BY <1>3 DEF InsDescend
    <2>2. IsInner(node[t]) /\ key[t] > keys[node[t]][1] /\ child # Value => child \in Nodes /\ child < next
      <3>1. key[t] > keys[node[t]][1] => key[t] >= keys[node[t]][1]
        BY Registers
      <3> QED BY <1>1, <3>1, ChildIsNode
    <2> HIDE DEF child
    <2>3. node' \in [Threads -> Nodes] /\ \A u \in Threads : node'[u] < next
      BY <1>1, <2>1, <2>2
    <2>4. \A u \in Threads : pc'[u] = "split" => node'[u] = node[u]
      BY <1>1, <2>1
    <2>5. \E label \in PC \ {"split"} : pc' = [pc EXCEPT ![t] = label] \/ pc' = pc
      BY <2>1 DEF PC
    <2> QED BY <1>1, <2>1, <2>3, <2>4, <2>5, Moves
  <1>4. CASE InsLock(t) \/ UpdLock(t) \/ UpdRelease(t)
    <2>1. word' \in [Nodes -> Word]
      BY <1>4, LocksKept DEF InsLock, UpdLock, UpdRelease, TreeInv
    <2>2. /\ \E label \in PC \ {"split"} : pc' = [pc EXCEPT ![t] = label]
          /\ UNCHANGED <<tree, next, mine, ghost>>
      BY <1>4 DEF InsLock, UpdLock, UpdRelease, PC
    <2> QED BY <1>1, <2>1, <2>2, Moves
  <1>5. CASE InsRelease(t)
    <2>1. word' \in [Nodes -> Word]
      BY <1>5, LocksKept DEF InsRelease, TreeInv
    <2>2. /\ pc' = [pc EXCEPT ![t] = "idle"] /\ "idle" \in PC \ {"split"}
          /\ completed' = completed \cup {key[t]}
          /\ UNCHANGED <<tree, next, mine, due>>
      BY <1>5 DEF InsRelease, PC
    <2>3. completed' \subseteq Nat
      BY <1>1, <2>2
    <2> QED BY <1>1, <2>1, <2>2, <2>3, Moves
  <1>6. CASE InsertLeaf(t)
    <2>1. /\ \E label \in PC \ {"split"} : pc' = [pc EXCEPT ![t] = label]
          /\ pos' = [pos EXCEPT ![t] = lowerBound(leaf[t], key[t])]
          /\ UNCHANGED <<tree, word, next, registers, ghost>>
      BY <1>6 DEF InsertLeaf, PC
    <2>2. pos' \in [Threads -> 0 .. ChildNum]
      BY <1>1, <2>1, Bounds DEF TreeInv
    <2> QED BY <1>1, <2>1, <2>2, Moves
  <1>7. CASE UpdDescend(t)
    BY <1>7, DescendKeeps DEF UpdDescend, PC
  <1>8. CASE GetDescend(t)
    BY <1>8, DescendKeeps DEF GetDescend, PC
  <1>9. CASE GetVersion(t)
    <2>1. /\ pc' = [pc EXCEPT ![t] = "getSearch"] /\ "getSearch" \in PC \ {"split"}
          /\ version' = [version EXCEPT ![t] = word[node[t]]]
          /\ UNCHANGED <<tree, word, next, key, node, leaf, pos, ret, left, ghost>>
      BY <1>9 DEF GetVersion, PC
    <2>2. version' \in [Threads -> Word]
      BY <1>1, <2>1
    <2> QED BY <1>1, <2>1, <2>2, Moves
  <1>10. CASE GetSearch(t)
    <2>1. /\ pc' = [pc EXCEPT ![t] = "getCheck"] /\ "getCheck" \in PC \ {"split"}
          /\ ret' = [ret EXCEPT ![t] = Found(node[t], key[t])]
          /\ UNCHANGED <<tree, word, next, key, node, leaf, pos, version, left, ghost>>
      BY <1>10 DEF GetSearch, PC
    <2>2. Found(node[t], key[t]) \in BOOLEAN
      BY DEF Found
    <2>3. ret' \in [Threads -> BOOLEAN]
      BY <1>1, <2>1, <2>2
    <2> QED BY <1>1, <2>1, <2>3, Moves
  <1>11. CASE GetCheck(t)
    <2>1. /\ \E label \in PC \ {"split"} : pc' = [pc EXCEPT ![t] = label]
          /\ UNCHANGED <<tree, word, next, mine, ghost>>
      BY <1>11 DEF GetCheck, PC
    <2> QED BY <1>1, <2>1, Moves
  <1> QED
    BY <1>2, <1>3, <1>4, <1>5, <1>6, <1>7, <1>8, <1>9, <1>10, <1>11

\* A writer that finds its leaf full under the lock.
LEMMA InsTypeKeeps ==
  ASSUME TreeInv, apart' \in BOOLEAN, NEW t \in Threads, InsType(t)
  PROVE  TreeInv'
  <1>1. /\ leaf' = [leaf EXCEPT ![t] = node[t]]
        /\ UNCHANGED <<tree, next, key, node, pos, version, ret, left, ghost>>
        /\ \E label \in PC : /\ pc' = [pc EXCEPT ![t] = label]
                             /\ label = "split" => count[node[t]] = ChildNum
    BY DEF InsType, PC
  <1>2. word' \in [Nodes -> Word]
    BY LocksKept DEF InsType, TreeInv, TypeOK
  <1>3. leaf' \in [Threads -> Nodes] /\ \A u \in Threads : leaf'[u] < next
    BY <1>1, Registers
  <1>4. pc' \in [Threads -> PC]
    BY <1>1, Registers
  <1>5. TypeOK'
    BY <1>1, <1>2, <1>3, <1>4 DEF TreeInv, TypeOK
  <1>6. \A u \in Threads : pc'[u] = "split" => count[node[u]] = ChildNum
    BY <1>1, Registers DEF TreeInv
  <1> QED BY <1>1, <1>3, <1>5, <1>6 DEF TreeInv, IsInner

\* A step that changes a node but not which nodes there are.
LEMMA ChangesKeep ==
  ASSUME TreeInv, apart' \in BOOLEAN, NEW t \in Threads, NEW label \in PC \ {"split"},
         pc' = [pc EXCEPT ![t] = label],
         count' \in [Nodes -> 0 .. ChildNum], keys' \in [Nodes -> [Slots -> Nat]],
         pointers' \in [Nodes -> [Slots -> {Value} \cup 1 .. next - 1]],
         \A n \in Nodes : count[n] = ChildNum => count'[n] = ChildNum,
         UNCHANGED <<type, word, next, mine, ghost>>
  PROVE  TreeInv'
  <1>1. pc' \in [Threads -> PC] /\ \A u \in Threads : pc'[u] = "split" => pc[u] = "split"
    BY Registers
  <1>2. TypeOK'
    BY <1>1 DEF TreeInv, TypeOK
  <1>3. \A u \in Threads : node[u] \in Nodes
    BY Registers
  <1> QED BY <1>1, <1>2, <1>3 DEF TreeInv, IsInner

LEMMA LeafKeeps ==
  ASSUME TreeInv, apart' \in BOOLEAN, NEW t \in Threads, Shift(t) \/ Bump(t) \/ UpdLeaf(t)
  PROVE  TreeInv'
  <1> DEFINE n == leaf[t]
  <1>1. /\ count \in [Nodes -> 0 .. ChildNum] /\ keys \in [Nodes -> [Slots -> Nat]]
        /\ pointers \in [Nodes -> [Slots -> {Value} \cup 1 .. next - 1]]
        /\ n \in Nodes /\ key[t] \in Nat /\ pos[t] \in 0 .. ChildNum /\ ChildNum \in Nat
    BY Registers, SizesAssumption DEF TreeInv, TypeOK
  <1>2. CASE Shift(t)
    <2>1. /\ UNCHANGED <<type, count, pointers, word, next, mine, ghost>>
          /\ \E label \in PC \ {"split"} : pc' = [pc EXCEPT ![t] = label]
          /\ \/ UNCHANGED keys
             \/ /\ count[n] < ChildNum
                /\ keys' = [keys EXCEPT ![n] = [i \in Slots |->
                              IF i = pos[t] + 1 THEN key[t]
                              ELSE IF i \in pos[t] + 2 .. count[n] + 1
                                   THEN keys[n][i - 1]
                              ELSE keys[n][i]]]
      BY <1>2 DEF Shift, PC
    <2>2. ASSUME count[n] < ChildNum, NEW i \in Slots
          PROVE  (IF i = pos[t] + 1 THEN key[t]
                  ELSE IF i \in pos[t] + 2 .. count[n] + 1 THEN keys[n][i - 1]
                  ELSE keys[n][i]) \in Nat
      <3>1. i \in pos[t] + 2 .. count[n] + 1 => i - 1 \in Slots
        BY <1>1 DEF Slots
      <3> QED BY <1>1, <3>1
    <2> DEFINE shifted == [i \in Slots |->
                             IF i = pos[t] + 1 THEN key[t]
                             ELSE IF i \in pos[t] + 2 .. count[n] + 1 THEN keys[n][i - 1]
                             ELSE keys[n][i]]
    <2>3. count[n] < ChildNum => shifted \in [Slots -> Nat]
      BY <2>2
    <2>4. UNCHANGED keys \/ (count[n] < ChildNum /\ keys' = [keys EXCEPT ![n] = shifted])
      BY <2>1
    <2> HIDE DEF shifted
    <2>5. keys' \in [Nodes -> [Slots -> Nat]]
      BY <1>1, <2>3, <2>4
    <2> QED BY <1>1, <2>1, <2>5, ChangesKeep
  <1>3. CASE Bump(t)
    <2>1. /\ UNCHANGED <<type, keys, pointers, word, next, mine, ghost>>
          /\ \E label \in PC \ {"split"} : pc' = [pc EXCEPT ![t] = label]
          /\ UNCHANGED count \/ (count[n] < ChildNum /\ count' = [count EXCEPT ![n] = @ + 1])
      BY <1>3 DEF Bump, PC
    <2>2. /\ count' \in [Nodes -> 0 .. ChildNum]
          /\ \A m \in Nodes : count[m] = ChildNum => count'[m] = ChildNum
      <3>1. count[n] < ChildNum => count[n] + 1 \in 0 .. ChildNum /\ count[n] # ChildNum
        BY <1>1
      <3> QED BY <1>1, <2>1, <3>1, SMTT(60)
    <2> QED BY <1>1, <2>1, <2>2, ChangesKeep
  <1>4. CASE UpdLeaf(t)
    <2> DEFINE m == node[t]
               p == lowerBound(m, key[t]) + 1
    <2>1. /\ UNCHANGED <<type, count, keys, word, next, mine, ghost>>
          /\ pc' = [pc EXCEPT ![t] = "updRelease"] /\ "updRelease" \in PC \ {"split"}
          /\ UNCHANGED pointers \/ pointers' = [pointers EXCEPT ![m][p] = Value]
      BY <1>4 DEF UpdLeaf, PC
    <2> HIDE DEF p
    <2>2. pointers' \in [Nodes -> [Slots -> {Value} \cup 1 .. next - 1]]
      <3> DEFINE Target == {Value} \cup 1 .. next - 1
      <3>1. Value \in Target /\ pointers \in [Nodes -> [Slots -> Target]]
        BY <1>1
      <3> HIDE DEF Target
      <3>2. \A a \in Nodes : [pointers[a] EXCEPT ![p] = Value] \in [Slots -> Target]
        BY <3>1
      <3>3. UNCHANGED pointers \/ pointers' = [pointers EXCEPT ![m] = [pointers[m] EXCEPT ![p] = Value]]
        BY <2>1
      <3>4. pointers' \in [Nodes -> [Slots -> Target]]
        BY <3>1, <3>2, <3>3
      <3> QED BY <3>4 DEF Target
    <2> QED BY <1>1, <2>1, <2>2, ChangesKeep
  <1> QED BY <1>2, <1>3, <1>4

\* The new nodes follow those there are, and the child that takes the key is
\* one of them.
LEMMA SplitKeeps ==
  ASSUME TreeInv, apart' \in BOOLEAN, NEW t \in Threads, Split(t)
  PROVE  TreeInv'
  <1> DEFINE n == node[t]
             chosen == {i \in Slots : key[t] > keys[n][i]}
             New == next .. next + ChildNum - 1
  <1>1. /\ pc[t] = "split" /\ next + ChildNum <= MaxNodes + 1
        /\ next' = next + ChildNum
        /\ type' = [type EXCEPT ![n] = "inner"]
        /\ count' = [m \in Nodes |-> IF m \in New THEN 1 ELSE count[m]]
        /\ keys' = [m \in Nodes |-> IF m \in New
                      THEN [keys[m] EXCEPT ![1] = keys[n][m - next + 1]] ELSE keys[m]]
        /\ pointers' = [pointers EXCEPT ![n] = Children(n)]
        /\ UNCHANGED <<word, key, node, pos, version, ret, left, ghost>>
        /\ \/ /\ chosen # {}
              /\ leaf' = [leaf EXCEPT ![t] = Children(n)[Cardinality(chosen)]]
              /\ pc' = [pc EXCEPT ![t] = "leaf"]
           \/ pc' = [pc EXCEPT ![t] = "insRelease"] /\ UNCHANGED leaf
    BY DEF Split, Grown
  <1>2. /\ n \in Nodes /\ n < next /\ next \in 2 .. MaxNodes + 1
        /\ ChildNum \in Nat /\ ChildNum > 1 /\ MaxNodes \in Nat
        /\ type \in [Nodes -> {"leaf", "inner"}]
        /\ count \in [Nodes -> 0 .. ChildNum] /\ keys \in [Nodes -> [Slots -> Nat]]
        /\ pointers \in [Nodes -> [Slots -> {Value} \cup 1 .. next - 1]]
    BY Registers, SizesAssumption DEF TreeInv, TypeOK
  <1>3. \A i \in Slots : next + i - 1 \in Nodes /\ next + i - 1 < next'
    BY SMTT(60), <1>1, <1>2 DEF Slots, Nodes
  <1>4. next' \in 2 .. MaxNodes + 1 /\ next < next'
    BY <1>1, <1>2
  <1>5. Children(n) \in [Slots -> 1 .. next' - 1]
    BY <1>1, <1>2, <1>3 DEF Children, Slots
  <1>6. leaf' \in [Threads -> Nodes] /\ \A u \in Threads : leaf'[u] < next'
    <2>1. chosen # {} => Cardinality(chosen) \in Slots
      <3>1. chosen \subseteq 1 .. ChildNum
        BY DEF Slots
      <3> HIDE DEF chosen
      <3>2. ChildNum \in Nat
        BY <1>2
      <3>3. Cardinality(chosen) \in 0 .. ChildNum /\ (chosen # {} => Cardinality(chosen) # 0)
        BY <3>1, <3>2, CountSlots
      <3> QED BY <3>2, <3>3 DEF Slots
    <2> DEFINE c == Cardinality(chosen)
    <2>2. chosen # {} => Children(n)[c] \in Nodes /\ Children(n)[c] < next'
      BY <1>3, <2>1 DEF Children
    <2> HIDE DEF c, chosen
    <2>3. /\ leaf \in [Threads -> Nodes] /\ \A u \in Threads : leaf[u] < next
          /\ leaf' = leaf \/ (chosen # {} /\ leaf' = [leaf EXCEPT ![t] = Children(n)[c]])
      BY <1>1, Registers DEF c
    <2>4. \A u \in Threads : leaf[u] < next'
      BY <1>2, <1>4, <2>3 DEF Nodes
    <2> QED BY <2>2, <2>3, <2>4
  <1>7. count' \in [Nodes -> 0 .. ChildNum] /\ \A m \in Nodes : m < next => count'[m] = count[m]
    BY <1>1, <1>2 DEF Nodes
  <1>8. keys' \in [Nodes -> [Slots -> Nat]]
    <2>1. \A m \in New : keys[n][m - next + 1] \in Nat
      BY <1>2 DEF Slots
    <2> QED BY <1>1, <1>2, <2>1
  <1>9. pointers' \in [Nodes -> [Slots -> {Value} \cup 1 .. next' - 1]]
    BY <1>1, <1>2, <1>4, <1>5
  <1>10. type' \in [Nodes -> {"leaf", "inner"}]
    BY <1>1, <1>2
  <1>11. pc' \in [Threads -> PC] /\ \A u \in Threads : pc'[u] = "split" => pc[u] = "split"
    <2>1. "leaf" \in PC /\ "insRelease" \in PC
      BY DEF PC
    <2> QED BY <1>1, <2>1, Registers
  <1>12. TypeOK'
    <2>1. UNCHANGED <<word, key, node, pos, version, ret, left, ghost>>
      BY <1>1
    <2> HIDE DEF New
    <2>2. /\ word' \in [Nodes -> Word] /\ key' \in [Threads -> Keys]
          /\ node' \in [Threads -> Nodes] /\ pos' \in [Threads -> 0 .. ChildNum]
          /\ version' \in [Threads -> Word] /\ ret' \in [Threads -> BOOLEAN]
          /\ left' \in [Threads -> Nat] /\ due' \in [Threads -> BOOLEAN]
          /\ completed' \subseteq Nat
      BY <2>1 DEF TreeInv, TypeOK
    <2> QED
      BY <1>4, <1>6, <1>7, <1>8, <1>9, <1>10, <1>11, <2>2 DEF TypeOK
  <1>13. \A u \in Threads : node'[u] < next' /\ node[u] \in Nodes /\ node[u] < next
    <2> HIDE DEF New
    <2>1. \A u \in Threads : node[u] \in Nodes /\ node[u] < next
      BY Registers
    <2>2. node' = node /\ \A i \in Nodes : i < next => i < next'
      BY <1>1, <1>2 DEF Nodes
    <2> QED BY <2>1, <2>2
  <1>14. ASSUME NEW m \in Nodes, type'[m] = "inner"
         PROVE  m < next' /\ count'[m] = ChildNum
    <2>1. m < next /\ count[m] = ChildNum
      <3>1. CASE m = n BY <1>1, <1>2, <3>1 DEF TreeInv
      <3>2. CASE m # n BY <1>1, <1>2, <1>14, <3>2 DEF TreeInv, IsInner
      <3> QED BY <3>1, <3>2
    <2> QED BY <1>2, <1>4, <1>7, <2>1 DEF Nodes
  <1>15. \A u \in Threads : pc'[u] = "split" => count'[node'[u]] = ChildNum
    BY <1>1, <1>7, <1>11, <1>13 DEF TreeInv
  <1> QED BY <1>6, <1>12, <1>13, <1>14, <1>15 DEF TreeInv, IsInner

LEMMA MoveIs ==
  ASSUME NEW t \in Threads, Move(t)
  PROVE  Step(t) /\ (apart' <=> apart /\ WritesApart') /\ apart' \in BOOLEAN
  BY Zenon DEF Move

LEMMA TreeStep == TreeInv /\ [Next]_vars => TreeInv'
  <1> SUFFICES ASSUME TreeInv, [Next]_vars PROVE TreeInv'
    OBVIOUS
  <1>1. ASSUME NEW t \in Threads, Move(t) PROVE TreeInv'
    <2>1. Step(t) /\ apart' \in BOOLEAN
      BY <1>1, MoveIs DEF TreeInv, TypeOK
    <2> QED BY <2>1, MovingKeeps, InsTypeKeeps, LeafKeeps, SplitKeeps DEF Step
  <1>2. CASE UNCHANGED vars
    BY <1>2 DEF vars, TreeInv, TypeOK, IsInner
  <1> QED BY <1>1, <1>2 DEF Next

\* Pointers lead to nodes that have been allocated and counts stay in the
\* arrays, for any number of writers in one split.
THEOREM TreeTypeCorrect == Spec => []TypeOK
  <1>1. TreeInv => TypeOK
    BY DEF TreeInv
  <1> QED BY TreeInit, TreeStep, <1>1, PTL DEF Spec

-----------------------------------------------------------------------------
(* The locks of the nodes.                                                 *)

Holding(t) == pc[t] \in Holds

\* A holder has the bit of its node set, and the node for itself.
HoldersInv ==
  /\ TreeInv
  /\ \A t \in Threads : Holding(t) => IsSet(word[node[t]])
  /\ \A t, u \in Threads : Holding(t) /\ Holding(u) /\ t # u => node[t] # node[u]

\* What a step of t can mean for the locks: it takes the lock of its node,
\* gives it back, keeps it, has none before and after, or ends the program.
OthersStay(t) == \A u \in Threads \ {t} : pc'[u] = pc[u] /\ node'[u] = node[u]

Acquires(t) ==
  /\ ~Holding(t) /\ Holding(t)' /\ node'[t] = node[t]
  /\ ~IsSet(word[node[t]]) /\ word' = [word EXCEPT ![node[t]] = WithLock(@)]

GivesBack(t) ==
  /\ Holding(t) /\ ~Holding(t)' /\ node'[t] = node[t]
  /\ word' = [word EXCEPT ![node[t]] = Released(@)]

Retains(t) == Holding(t) /\ Holding(t)' /\ node'[t] = node[t] /\ UNCHANGED word

GoesWithout(t) == ~Holding(t) /\ ~Holding(t)' /\ UNCHANGED word

Ends(t) == pc'[t] \in {"abort", "wild"} /\ ~Holding(t)' /\ UNCHANGED word

LEMMA Kinds ==
  ASSUME TreeInv, NEW t \in Threads, Step(t)
  PROVE  /\ OthersStay(t)
         /\ Acquires(t) \/ GivesBack(t) \/ Retains(t) \/ GoesWithout(t) \/ Ends(t)
  <1> USE DEF OthersStay, Holding, Holds
  <1>1. DOMAIN pc = Threads /\ DOMAIN node = Threads
    BY DEF TreeInv, TypeOK
  <1>2. CASE InsLock(t) \/ UpdLock(t)
    <2>1. Acquires(t) BY <1>1, <1>2 DEF InsLock, UpdLock, GetLock, Acquires
    <2> QED BY <1>1, <1>2, <2>1 DEF InsLock, UpdLock
  <1>3. CASE InsRelease(t) \/ UpdRelease(t)
    <2>1. GivesBack(t) BY <1>1, <1>3 DEF InsRelease, UpdRelease, ReleaseLock, GivesBack
    <2> QED BY <1>1, <1>3, <2>1 DEF InsRelease, UpdRelease
  <1>4. CASE InsType(t)
    <2>1. GivesBack(t) \/ Retains(t) BY <1>1, <1>4 DEF InsType, ReleaseLock, GivesBack, Retains
    <2> QED BY <1>1, <1>4, <2>1 DEF InsType
  <1>5. CASE Split(t)
    <2>1. /\ pc[t] = "split" /\ UNCHANGED <<word, node>>
          /\ pc' = [pc EXCEPT ![t] = "leaf"] \/ pc' = [pc EXCEPT ![t] = "insRelease"]
      BY <1>5 DEF Split
    <2> QED BY <1>1, <2>1 DEF Retains
  <1>6. CASE InsertLeaf(t) \/ Shift(t) \/ Bump(t) \/ UpdLeaf(t)
    <2>1. Retains(t) \/ Ends(t)
      BY <1>1, <1>6 DEF InsertLeaf, Shift, Bump, UpdLeaf, Retains, Ends
    <2> QED BY <1>1, <1>6, <2>1 DEF InsertLeaf, Shift, Bump, UpdLeaf
  <1>7. CASE \/ Begin(t) \/ InsDescend(t) \/ UpdDescend(t) \/ GetDescend(t)
             \/ GetVersion(t) \/ GetSearch(t) \/ GetCheck(t)
    <2>1. GoesWithout(t)
      BY <1>1, <1>7 DEF Begin, InsDescend, UpdDescend, GetDescend, Descend,
                        GetVersion, GetSearch, GetCheck, GoesWithout
    <2> QED
      BY <1>1, <1>7, <2>1 DEF Begin, InsDescend, UpdDescend, GetDescend, Descend,
                              GetVersion, GetSearch, GetCheck
  <1> QED
    BY <1>2, <1>3, <1>4, <1>5, <1>6, <1>7 DEF Step

LEMMA LockBits ==
  ASSUME NEW w \in Word
  PROVE  /\ IsSet(WithLock(w))
         /\ IsSet(w) /\ Masked(w) # LockSet - 1 => ~IsSet(Released(w))
  BY LockSetAssumption DEF Word, WithLock, Masked, IsSet, Released

LEMMA HoldersInit == Init => HoldersInv
  <1>1. Init => \A t \in Threads : ~Holding(t)
    BY DEF Init, Holding, Holds
  <1> QED BY <1>1, TreeInit DEF HoldersInv

LEMMA HoldersStep == HoldersInv /\ [Next]_vars => HoldersInv'
  <1> SUFFICES ASSUME HoldersInv, [Next]_vars PROVE HoldersInv'
    OBVIOUS
  <1>1. TreeInv'
    BY TreeStep DEF HoldersInv
  <1>2. CASE UNCHANGED vars
    BY <1>1, <1>2 DEF vars, HoldersInv, Holding
  <1>3. ASSUME NEW t \in Threads, Move(t) PROVE HoldersInv'
    <2>1. Step(t)
      BY <1>3, MoveIs
    <2>2. OthersStay(t) /\ \A u \in Threads \ {t} : Holding(u)' <=> Holding(u)
      BY <2>1, Kinds DEF HoldersInv, OthersStay, Holding
    <2>3. word \in [Nodes -> Word] /\ \A u \in Threads : node[u] \in Nodes
      BY Registers DEF HoldersInv
    <2>4. CASE Acquires(t)
      <3>1. \A u \in Threads \ {t} : Holding(u) => node[u] # node[t]
        BY <2>4 DEF HoldersInv, Acquires
      <3>2. IsSet(word'[node[t]]) /\ \A n \in Nodes \ {node[t]} : word'[n] = word[n]
        BY <2>3, <2>4, LockBits DEF Acquires
      <3> QED BY <1>1, <2>2, <2>3, <2>4, <3>1, <3>2 DEF HoldersInv, OthersStay, Acquires
    <2>5. CASE GivesBack(t)
      <3>1. \A u \in Threads \ {t} : Holding(u) => node[u] # node[t]
        BY <2>5 DEF HoldersInv, GivesBack
      <3>2. \A n \in Nodes \ {node[t]} : word'[n] = word[n]
        BY <2>3, <2>5 DEF GivesBack
      <3> QED BY <1>1, <2>2, <2>3, <2>5, <3>1, <3>2 DEF HoldersInv, OthersStay, GivesBack
    <2>6. CASE Retains(t)
      BY <1>1, <2>2, <2>6 DEF HoldersInv, OthersStay, Retains
    <2>7. CASE GoesWithout(t) \/ Ends(t)
      BY <1>1, <2>2, <2>7 DEF HoldersInv, OthersStay, GoesWithout, Ends
    <2> QED BY <2>1, <2>4, <2>5, <2>6, <2>7, Kinds DEF HoldersInv
  <1> QED BY <1>2, <1>3 DEF Next

\* No node is at its last version, the one whose release carries into the lock
\* bit: 2^31 - 1 releases in the code.
NoLastVersion == \A n \in Nodes : Masked(word[n]) # LockSet - 1

\* A set bit has its holder.
HeldInv ==
  /\ HoldersInv
  /\ Alive => \A n \in Nodes : IsSet(word[n]) => \E t \in Threads : Holding(t) /\ node[t] = n

LEMMA HeldInit == Init => HeldInv
  <1>1. Init => \A n \in Nodes : ~IsSet(word[n])
    BY LockSetAssumption DEF Init, IsSet
  <1> QED BY <1>1, HoldersInit DEF HeldInv

LEMMA HeldStep == NoLastVersion /\ HeldInv /\ [Next]_vars => HeldInv'
  <1> SUFFICES ASSUME NoLastVersion, HeldInv, [Next]_vars PROVE HeldInv'
    OBVIOUS
  <1>1. HoldersInv'
    BY HoldersStep DEF HeldInv
  <1>2. CASE UNCHANGED vars
    BY <1>1, <1>2 DEF vars, HeldInv, Holding, Alive
  <1>3. ASSUME Alive, NEW t \in Threads, Move(t) PROVE HeldInv'
    <2>1. Step(t)
      BY <1>3, MoveIs
    <2>2. OthersStay(t) /\ \A u \in Threads \ {t} : (Holding(u)' <=> Holding(u)) /\ node'[u] = node[u]
      BY <2>1, Kinds DEF HeldInv, HoldersInv, OthersStay, Holding
    <2>3. word \in [Nodes -> Word] /\ node[t] \in Nodes
      BY Registers DEF HeldInv, HoldersInv
    <2>4. \A n \in Nodes : IsSet(word[n]) => \E u \in Threads : Holding(u) /\ node[u] = n
      BY <1>3 DEF HeldInv
    <2>5. CASE Acquires(t)
      <3>1. \A n \in Nodes \ {node[t]} : word'[n] = word[n]
        BY <2>3, <2>5 DEF Acquires
      <3>2. Holding(t)' /\ node'[t] = node[t] /\ ~Holding(t)
        BY <2>5 DEF Acquires
      <3> QED BY <1>1, <2>2, <2>4, <3>1, <3>2 DEF HeldInv
    <2>6. CASE GivesBack(t)
      <3>1. \A n \in Nodes \ {node[t]} : word'[n] = word[n]
        BY <2>3, <2>6 DEF GivesBack
      <3>2. IsSet(word[node[t]]) /\ Masked(word[node[t]]) # LockSet - 1
        BY <2>3, <2>6 DEF GivesBack, HeldInv, HoldersInv, NoLastVersion
      <3>3. ~IsSet(word'[node[t]])
        BY <2>3, <2>6, <3>2, LockBits DEF GivesBack
      <3> QED BY <1>1, <2>2, <2>4, <3>1, <3>3 DEF HeldInv
    <2>7. CASE Retains(t)
      BY <1>1, <2>2, <2>4, <2>7 DEF HeldInv, Retains
    <2>8. CASE GoesWithout(t)
      BY <1>1, <2>2, <2>4, <2>8 DEF HeldInv, GoesWithout
    <2>9. CASE Ends(t)
      BY <1>1, <2>9 DEF HeldInv, Ends, Alive
    <2> QED
      BY <2>1, <2>5, <2>6, <2>7, <2>8, <2>9, Kinds DEF HeldInv, HoldersInv
  <1> QED BY <1>2, <1>3 DEF Next

\* As long as no version overflows, the lock of a node is held exactly while
\* one thread is between its get_lock and its release_lock, for any number of
\* writers and whatever they do to the node meanwhile.
THEOREM LocksHaveHolders == Spec /\ []NoLastVersion => []LockedByOne
  <1>1. ASSUME HeldInv, Alive, NEW n \in Nodes
        PROVE  LET holders == {t \in Threads : pc[t] \in Holds /\ node[t] = n}
               IN  IF IsSet(word[n]) THEN Cardinality(holders) = 1 ELSE holders = {}
    <2> DEFINE holders == {t \in Threads : pc[t] \in Holds /\ node[t] = n}
    <2>1. \A t, u \in holders : t = u
      BY <1>1 DEF HeldInv, HoldersInv, Holding
    <2>2. CASE IsSet(word[n])
      <3>1. PICK t \in Threads : Holding(t) /\ node[t] = n
        BY <1>1, <2>2 DEF HeldInv
      <3>2. t \in holders
        BY <3>1 DEF Holding
      <3>3. holders = {t}
        BY <2>1, <3>2
      <3> HIDE DEF holders
      <3>4. Cardinality(holders) = 1
        BY <3>3, FS_Singleton
      <3> QED BY <2>2, <3>4 DEF holders
    <2>3. CASE ~IsSet(word[n])
      BY <1>1, <2>3 DEF HeldInv, HoldersInv, Holding
    <2> QED BY <2>2, <2>3
  <1>2. HeldInv => LockedByOne
    BY <1>1 DEF LockedByOne
  <1> QED BY HeldInit, HeldStep, <1>2, PTL DEF Spec

-----------------------------------------------------------------------------
(* Room in the leaves of any tree, loaded or cleared.                      *)

\* An inner node has a child in every slot, the leaf a thread inserts into has
\* room, and a thread that splits or updates a node has a leaf there; only a
\* descent that follows smallnode goes wild.
Roomy ==
  /\ \A n \in Nodes : IsInner(n) => \A i \in Slots : pointers[n][i] # Value
  /\ \A t \in Threads : pc[t] \in Inserting => ~IsInner(leaf[t]) /\ count[leaf[t]] < ChildNum
  /\ \A t \in Threads : pc[t] \in {"split", "updLock", "updLeaf"} => ~IsInner(node[t])
  /\ \A t \in Threads : pc[t] # "abort"
  /\ \A t \in Threads : pc[t] = "wild" => IsInner(node[t]) /\ key[t] < keys[node[t]][1]

RoomInv == HoldersInv /\ (apart => WritesApart /\ Roomy)

\* What t alone has to see to when no leaf fills and no node is split.
OwnRoom(t) ==
  /\ pc'[t] \in Inserting => ~IsInner(leaf'[t]) /\ count[leaf'[t]] < ChildNum
  /\ pc'[t] \in {"split", "updLock", "updLeaf"} => ~IsInner(node'[t])
  /\ pc'[t] # "abort"
  /\ pc'[t] = "wild" => IsInner(node'[t]) /\ key'[t] < keys'[node'[t]][1]

OthersKeep(t) ==
  \A u \in Threads \ {t} : pc'[u] = pc[u] /\ node'[u] = node[u] /\ leaf'[u] = leaf[u]

LEMMA RoomKept ==
  ASSUME TreeInv, Roomy, Alive, NEW t \in Threads, OthersKeep(t), OwnRoom(t),
         UNCHANGED <<type, count>>, \A n \in Nodes : IsInner(n) => pointers'[n] = pointers[n]
  PROVE  Roomy'
  <1>1. \A u \in Threads \ {t} : pc'[u] \notin {"abort", "wild"}
    BY DEF Alive, OthersKeep
  <1>2. \A n : IsInner(n)' <=> IsInner(n)
    BY DEF IsInner
  <1>3. \A n \in Nodes : IsInner(n)' => \A i \in Slots : pointers'[n][i] # Value
    BY <1>2 DEF Roomy
  <1>4. \A u \in Threads : pc'[u] \in Inserting => ~IsInner(leaf[u])' /\ count'[leaf'[u]] < ChildNum
    BY <1>2 DEF Roomy, OwnRoom, OthersKeep, IsInner
  <1>5. \A u \in Threads : pc'[u] \in {"split", "updLock", "updLeaf"} => ~IsInner(node[u])'
    BY <1>2 DEF Roomy, OwnRoom, OthersKeep, IsInner
  <1>6. \A u \in Threads : pc'[u] = "wild" => IsInner(node[u])' /\ key'[u] < keys'[node'[u]][1]
    BY <1>1, <1>2 DEF OwnRoom, IsInner
  <1> QED BY <1>1, <1>3, <1>4, <1>5, <1>6 DEF Roomy, OwnRoom

\* A descent has a child to go to.
LEMMA DescentHasChild ==
  ASSUME TreeInv, Roomy, NEW n \in Nodes, IsInner(n), NEW k \in Nat, k >= keys[n][1]
  PROVE  pointers[n][lowerBoundInner(n, k)] # Value
  BY Bounds DEF TreeInv, Roomy

LEMMA RoomDescend ==
  ASSUME TreeInv, Roomy, Alive, NEW t \in Threads, NEW here,
         NEW there \in {"updLock", "getVersion"}, here \notin Inserting \cup {"split", "updLock", "updLeaf"},
         Descend(t, here, there)
  PROVE  Roomy'
  <1> DEFINE n == node[t]
             child == IF key[t] < keys[n][1] THEN Value ELSE pointers[n][lowerBoundInner(n, key[t])]
  <1>1. /\ n \in Nodes /\ key[t] \in Nat /\ keys[n][1] \in Nat
        /\ pc \in [Threads -> PC] /\ node \in [Threads -> Nodes]
    BY Registers
  <1>2. IsInner(n) /\ child = Value => key[t] < keys[n][1]
    BY <1>1, DescentHasChild
  <1> HIDE DEF child
  <1>3. /\ pc[t] = here
        /\ UNCHANGED <<tree, word, next, key, leaf, pos, version, ret, left, ghost>>
        /\ \/ ~IsInner(n) /\ pc' = [pc EXCEPT ![t] = there] /\ UNCHANGED node
           \/ IsInner(n) /\ child = Value /\ pc' = [pc EXCEPT ![t] = "wild"] /\ UNCHANGED node
           \/ /\ IsInner(n) /\ child # Value
              /\ node' = [node EXCEPT ![t] = child]
              /\ UNCHANGED pc
    BY DEF Descend, child
  <1>4. OthersKeep(t)
    BY <1>1, <1>3 DEF OthersKeep
  <1>5. OwnRoom(t)
    <2>1. CASE ~IsInner(n) /\ pc' = [pc EXCEPT ![t] = there] /\ UNCHANGED node
      BY <1>1, <2>1 DEF OwnRoom, Inserting
    <2>2. CASE IsInner(n) /\ child = Value /\ pc' = [pc EXCEPT ![t] = "wild"] /\ UNCHANGED node
      BY <1>1, <1>2, <1>3, <2>2 DEF OwnRoom, Inserting
    <2>3. CASE IsInner(n) /\ child # Value /\ UNCHANGED pc
      BY <1>1, <1>3, <2>3 DEF OwnRoom, Alive
    <2> QED BY <1>3, <2>1, <2>2, <2>3
  <1> QED BY <1>3, <1>4, <1>5, RoomKept

LEMMA RoomMoving ==
  ASSUME TreeInv, Roomy, Alive, NEW t \in Threads,
         \/ Begin(t) \/ InsDescend(t) \/ InsLock(t) \/ InsType(t) \/ InsertLeaf(t) \/ InsRelease(t)
         \/ Shift(t) \/ UpdLock(t) \/ UpdLeaf(t) \/ UpdRelease(t)
         \/ GetVersion(t) \/ GetSearch(t) \/ GetCheck(t)
  PROVE  Roomy'
  <1>1. /\ node[t] \in Nodes /\ leaf[t] \in Nodes /\ key[t] \in Nat /\ keys[node[t]][1] \in Nat
        /\ pc \in [Threads -> PC] /\ node \in [Threads -> Nodes] /\ leaf \in [Threads -> Nodes]
        /\ count \in [Nodes -> 0 .. ChildNum] /\ ChildNum \in Nat
    BY Registers, SizesAssumption DEF TreeInv, TypeOK
  <1>2. CASE Begin(t)
    <2>1. /\ UNCHANGED <<type, count, pointers, leaf>>
          /\ node' = [node EXCEPT ![t] = Root]
          /\ \E label \in {"insDescend", "updDescend", "getDescend"} : pc' = [pc EXCEPT ![t] = label]
      BY <1>2 DEF Begin
    <2>2. OthersKeep(t) /\ OwnRoom(t)
      BY <1>1, <2>1 DEF OthersKeep, OwnRoom, Inserting
    <2> QED BY <2>1, <2>2, RoomKept
  <1>3. CASE InsDescend(t)
    <2> DEFINE child == pointers[node[t]][lowerBoundInner(node[t], key[t])]
    <2>1. /\ pc[t] = "insDescend" /\ UNCHANGED <<tree, key, leaf>>
          /\ \/ pc' = [pc EXCEPT ![t] = "idle"] /\ UNCHANGED node
             \/ /\ IsInner(node[t]) /\ key[t] > keys[node[t]][1] /\ child = Value
             \/ pc' = [pc EXCEPT ![t] = "insLock"] /\ UNCHANGED node
             \/ node' = [node EXCEPT ![t] = child] /\ UNCHANGED pc
      BY <1>3 DEF InsDescend
    <2>2. ~(IsInner(node[t]) /\ key[t] > keys[node[t]][1] /\ child = Value)
      <3>1. key[t] > keys[node[t]][1] => key[t] >= keys[node[t]][1]
        BY <1>1
      <3> QED BY <1>1, <3>1, DescentHasChild
    <2> HIDE DEF child
    <2>3. OthersKeep(t) /\ OwnRoom(t)
      BY <1>1, <2>1, <2>2 DEF OthersKeep, OwnRoom, Inserting
    <2> QED BY <2>1, <2>3, RoomKept
  <1>4. CASE InsType(t)
    <2>1. /\ leaf' = [leaf EXCEPT ![t] = node[t]] /\ UNCHANGED <<tree, node>>
          /\ \/ pc' = [pc EXCEPT ![t] = "insDescend"]
             \/ ~IsInner(node[t]) /\ count[node[t]] = ChildNum /\ pc' = [pc EXCEPT ![t] = "split"]
             \/ ~IsInner(node[t]) /\ count[node[t]] # ChildNum /\ pc' = [pc EXCEPT ![t] = "leaf"]
      BY <1>4 DEF InsType
    <2>2. count[node[t]] # ChildNum => count[node[t]] < ChildNum
      BY <1>1
    <2>3. OthersKeep(t) /\ OwnRoom(t)
      BY <1>1, <2>1, <2>2 DEF OthersKeep, OwnRoom, Inserting
    <2> QED BY <2>1, <2>3, RoomKept
  <1>5. CASE InsertLeaf(t)
    <2>1. ~IsInner(leaf[t]) /\ count[leaf[t]] < ChildNum
      BY <1>5 DEF InsertLeaf, Roomy, Inserting
    <2>2. ~(count[leaf[t]] >= ChildNum)
      BY <1>1, <2>1
    <2>3. /\ UNCHANGED <<tree, node, leaf>>
          /\ pc' = [pc EXCEPT ![t] = "insRelease"] \/ pc' = [pc EXCEPT ![t] = "shift"]
      BY <1>5, <2>1, <2>2, Zenon DEF InsertLeaf
    <2>4. OthersKeep(t) /\ OwnRoom(t)
      BY <1>1, <2>1, <2>3 DEF OthersKeep, OwnRoom, Inserting
    <2> QED BY <2>3, <2>4, RoomKept
  <1>6. CASE Shift(t)
    <2>1. ~IsInner(leaf[t]) /\ count[leaf[t]] < ChildNum
      BY <1>6 DEF Shift, Roomy, Inserting
    <2>2. UNCHANGED <<type, count, pointers, node, leaf>> /\ pc' = [pc EXCEPT ![t] = "bump"]
      BY <1>1, <1>6, <2>1 DEF Shift
    <2>3. OthersKeep(t) /\ OwnRoom(t)
      BY <1>1, <2>1, <2>2 DEF OthersKeep, OwnRoom, Inserting
    <2> QED BY <2>2, <2>3, RoomKept
  <1>7. CASE UpdLock(t) \/ UpdLeaf(t)
    <2>1. ~IsInner(node[t])
      BY <1>7 DEF UpdLock, UpdLeaf, Roomy
    <2>2. /\ UNCHANGED <<type, count, node, leaf>>
          /\ pc' = [pc EXCEPT ![t] = "updLeaf"] \/ pc' = [pc EXCEPT ![t] = "updRelease"]
          /\ \A n \in Nodes \ {node[t]} : pointers'[n] = pointers[n]
      <3>1. CASE UpdLock(t) BY <3>1 DEF UpdLock
      <3>2. CASE UpdLeaf(t)
        <4>1. pointers \in [Nodes -> [Slots -> {Value} \cup 1 .. next - 1]]
          BY DEF TreeInv, TypeOK
        <4> QED BY <3>2, <4>1 DEF UpdLeaf
      <3> QED BY <1>7, <3>1, <3>2
    <2>3. OthersKeep(t) /\ OwnRoom(t)
      BY <1>1, <2>1, <2>2 DEF OthersKeep, OwnRoom, Inserting
    <2> QED BY <2>1, <2>2, <2>3, RoomKept
  <1>8. CASE InsLock(t) \/ InsRelease(t) \/ UpdRelease(t) \/ GetVersion(t) \/ GetSearch(t) \/ GetCheck(t)
    <2>1. /\ UNCHANGED <<type, count, pointers, node, leaf>>
          /\ \E label \in {"insType", "idle", "getSearch", "getCheck", "getDescend"} :
               pc' = [pc EXCEPT ![t] = label]
      BY <1>8 DEF InsLock, InsRelease, UpdRelease, GetVersion, GetSearch, GetCheck
    <2>2. OthersKeep(t) /\ OwnRoom(t)
      BY <1>1, <2>1 DEF OthersKeep, OwnRoom, Inserting
    <2> QED BY <2>1, <2>2, RoomKept
  <1> QED BY <1>2, <1>3, <1>4, <1>5, <1>6, <1>7, <1>8

\* The leaf that fills is that of one writer.
LEMMA RoomBump ==
  ASSUME TreeInv, WritesApart, Roomy, Alive, NEW t \in Threads, Bump(t)
  PROVE  Roomy'
  <1>1. /\ leaf[t] \in Nodes /\ pc \in [Threads -> PC] /\ leaf \in [Threads -> Nodes]
        /\ count \in [Nodes -> 0 .. ChildNum] /\ ChildNum \in Nat
    BY Registers, SizesAssumption DEF TreeInv, TypeOK
  <1>2. /\ pc[t] = "bump" /\ pc' = [pc EXCEPT ![t] = "insRelease"]
        /\ count' = [count EXCEPT ![leaf[t]] = @ + 1]
        /\ UNCHANGED <<type, keys, pointers, mine>>
    BY <1>1 DEF Bump, Roomy, Inserting
  <1>3. \A u \in Threads \ {t} : pc[u] \in Inserting => leaf[u] # leaf[t]
    BY <1>2 DEF WritesApart, Inserting
  <1>4. \A u \in Threads \ {t} : pc'[u] = pc[u] /\ pc[u] \notin {"abort", "wild"}
    BY <1>1, <1>2 DEF Alive
  <1>5. pc'[t] = "insRelease"
    BY <1>1, <1>2
  <1>6. \A u \in Threads : pc'[u] \in Inserting => ~IsInner(leaf[u])' /\ count'[leaf'[u]] < ChildNum
    <2> SUFFICES ASSUME NEW u \in Threads, pc'[u] \in Inserting
                 PROVE  ~IsInner(leaf[u])' /\ count'[leaf'[u]] < ChildNum
      OBVIOUS
    <2>1. u # t /\ pc[u] \in Inserting
      BY <1>4, <1>5 DEF Inserting
    <2>2. leaf[u] # leaf[t] /\ leaf[u] \in Nodes /\ count'[leaf[u]] = count[leaf[u]]
      BY <1>1, <1>2, <1>3, <2>1
    <2> QED BY <1>2, <2>1, <2>2 DEF Roomy, IsInner
  <1> QED BY <1>2, <1>4, <1>5, <1>6 DEF Roomy, IsInner

LEMMA RoomSplit ==
  ASSUME HoldersInv, WritesApart, Roomy, Alive, NEW t \in Threads, Split(t)
  PROVE  Roomy'
  <1> DEFINE n == node[t]
             chosen == {i \in Slots : key[t] > keys[n][i]}
             New == next .. next + ChildNum - 1
  <1>1. /\ pc[t] = "split" /\ next + ChildNum <= MaxNodes + 1
        /\ type' = [type EXCEPT ![n] = "inner"]
        /\ count' = [m \in Nodes |-> IF m \in New THEN 1 ELSE count[m]]
        /\ pointers' = [pointers EXCEPT ![n] = Children(n)]
        /\ UNCHANGED node
        /\ \/ /\ chosen # {}
              /\ leaf' = [leaf EXCEPT ![t] = Children(n)[Cardinality(chosen)]]
              /\ pc' = [pc EXCEPT ![t] = "leaf"]
           \/ pc' = [pc EXCEPT ![t] = "insRelease"] /\ UNCHANGED leaf
    BY DEF Split, Grown
  <1>2. /\ TreeInv /\ n \in Nodes /\ n < next /\ next \in 2 .. MaxNodes + 1
        /\ ChildNum \in Nat /\ ChildNum > 1 /\ MaxNodes \in Nat
        /\ type \in [Nodes -> {"leaf", "inner"}] /\ count \in [Nodes -> 0 .. ChildNum]
        /\ pointers \in [Nodes -> [Slots -> {Value} \cup 1 .. next - 1]]
        /\ pc \in [Threads -> PC] /\ leaf \in [Threads -> Nodes] /\ node \in [Threads -> Nodes]
        /\ \A u \in Threads : leaf[u] < next
    BY Registers, SizesAssumption DEF HoldersInv, TreeInv, TypeOK
  <1>3. \A i \in Slots : Children(n)[i] \in New /\ Children(n)[i] \in Nodes /\ Children(n)[i] # Value
    <2>1. \A i \in Slots : next + i - 1 \in New /\ next + i - 1 \in Nodes /\ next + i - 1 # 0
      BY SMTT(60), <1>1, <1>2 DEF Slots, Nodes
    <2> QED BY <2>1 DEF Children, Value
  <1>4. chosen # {} => Cardinality(chosen) \in Slots
    <2>1. chosen \subseteq 1 .. ChildNum
      BY DEF Slots
    <2> HIDE DEF chosen
    <2>2. Cardinality(chosen) \in 0 .. ChildNum /\ (chosen # {} => Cardinality(chosen) # 0)
      BY <1>2, <2>1, CountSlots
    <2> QED BY <1>2, <2>2 DEF Slots
  <1> HIDE DEF chosen
  <1>5. \A m \in New : m \in Nodes => type'[m] = "leaf" /\ count'[m] = 1 /\ m # n
    <2> SUFFICES ASSUME NEW m \in New, m \in Nodes PROVE type'[m] = "leaf" /\ count'[m] = 1 /\ m # n
      OBVIOUS
    <2>1. m >= next /\ m # n
      BY <1>2 DEF Nodes
    <2>2. ~IsInner(m)
      BY <1>2, <2>1 DEF TreeInv, Nodes
    <2> HIDE DEF New
    <2> QED BY <1>1, <1>2, <2>1, <2>2 DEF IsInner
  <1>6. \A m \in Nodes : m < next /\ m # n => type'[m] = type[m] /\ count'[m] = count[m]
    BY <1>1, <1>2 DEF Nodes
  <1> HIDE DEF New
  <1>7. \A u \in Threads \ {t} : pc'[u] = pc[u] /\ leaf'[u] = leaf[u] /\ pc[u] \notin {"abort", "wild"}
    BY <1>1, <1>2 DEF Alive
  <1>8. \A u \in Threads \ {t} : pc[u] \in {"split", "updLock", "updLeaf"} => node[u] # n
    <2>1. \A u \in Threads \ {t} : pc[u] = "updLock" => node[u] # n
      BY <1>1 DEF WritesApart
    <2>2. \A u \in Threads \ {t} : Holding(u) => node[u] # n
      BY <1>1 DEF HoldersInv, Holding, Holds
    <2> QED BY <2>1, <2>2 DEF Holding, Holds
  <1>9. \A u \in Threads \ {t} : pc[u] \in Inserting => leaf[u] # n
    BY <1>1, <1>2 DEF HoldersInv, TreeInv, Roomy
  <1>10. \A m \in Nodes : type'[m] = "inner" => \A i \in Slots : pointers'[m][i] # Value
    <2> SUFFICES ASSUME NEW m \in Nodes, type'[m] = "inner", NEW i \in Slots PROVE pointers'[m][i] # Value
      OBVIOUS
    <2>1. CASE m = n BY <1>1, <1>2, <1>3, <2>1
    <2>2. CASE m # n BY <1>1, <1>2, <2>2 DEF Roomy, IsInner
    <2> QED BY <2>1, <2>2
  <1>11. \A u \in Threads : pc'[u] \in Inserting => type'[leaf'[u]] # "inner" /\ count'[leaf'[u]] < ChildNum
    <2> SUFFICES ASSUME NEW u \in Threads, pc'[u] \in Inserting
                 PROVE  type'[leaf'[u]] # "inner" /\ count'[leaf'[u]] < ChildNum
      OBVIOUS
    <2>1. CASE u = t
      <3>1. chosen # {} /\ leaf'[t] = Children(n)[Cardinality(chosen)]
        BY <1>1, <1>2, <2>1 DEF Inserting
      <3>2. leaf'[t] \in New /\ leaf'[t] \in Nodes
        BY <1>3, <1>4, <3>1
      <3> QED BY <1>2, <1>5, <2>1, <3>2
    <2>2. CASE u # t
      <3>1. pc[u] \in Inserting /\ leaf'[u] = leaf[u] /\ leaf[u] # n /\ leaf[u] \in Nodes /\ leaf[u] < next
        BY <1>2, <1>7, <1>9, <2>2
      <3> QED BY <1>6, <3>1 DEF Roomy, IsInner
    <2> QED BY <2>1, <2>2
  <1>12. \A u \in Threads : pc'[u] \in {"split", "updLock", "updLeaf"} => type'[node'[u]] # "inner"
    BY <1>1, <1>2, <1>7, <1>8 DEF Roomy, IsInner
  <1>13. \A u \in Threads : pc'[u] \notin {"abort", "wild"}
    BY <1>1, <1>2, <1>7
  <1> QED BY <1>10, <1>11, <1>12, <1>13 DEF Roomy, IsInner

LEMMA RoomStep == RoomInv /\ [Next]_vars => RoomInv'
  <1> SUFFICES ASSUME RoomInv, [Next]_vars PROVE RoomInv'
    OBVIOUS
  <1>1. HoldersInv'
    BY HoldersStep DEF RoomInv
  <1>2. CASE UNCHANGED vars
    <2>1. WritesApart => WritesApart'
      BY <1>2 DEF vars, WritesApart
    <2>2. Roomy => Roomy'
      BY <1>2 DEF vars, Roomy, IsInner
    <2> QED BY <1>1, <1>2, <2>1, <2>2 DEF vars, RoomInv
  <1>3. ASSUME Alive, NEW t \in Threads, Move(t) PROVE RoomInv'
    <2> SUFFICES ASSUME apart' PROVE WritesApart' /\ Roomy'
      BY <1>1 DEF RoomInv
    <2>1. Step(t) /\ apart /\ WritesApart'
      BY <1>3, MoveIs
    <2>2. TreeInv /\ HoldersInv /\ WritesApart /\ Roomy
      BY <2>1 DEF RoomInv, HoldersInv
    <2>3. CASE UpdDescend(t) \/ GetDescend(t)
      BY <1>3, <2>1, <2>2, <2>3, RoomDescend DEF UpdDescend, GetDescend, Inserting
    <2>4. CASE ~(UpdDescend(t) \/ GetDescend(t))
      BY <1>3, <2>1, <2>2, <2>4, RoomMoving, RoomBump, RoomSplit DEF Step
    <2> QED BY <2>1, <2>3, <2>4
  <1> QED BY <1>2, <1>3 DEF Next

LEMMA RoomInit == Init => RoomInv
  <1> SUFFICES ASSUME Init PROVE RoomInv
    OBVIOUS
  <1>1. \A t \in Threads : pc[t] = "idle"
    BY DEF Init
  <1>2. WritesApart
    BY <1>1 DEF WritesApart, Inserting
  <1>3. ASSUME NEW n \in Nodes, IsInner(n), NEW i \in Slots PROVE pointers[n][i] # Value
    <2>1. n = Root /\ ~Cleared
      BY <1>3 DEF Init, IsInner
    <2>2. pointers[n][i] = Root + i
      BY <2>1 DEF Init, LeafOf
    <2> QED BY <2>2, SizesAssumption DEF Root, Value, Slots
  <1>4. Roomy
    BY <1>1, <1>3 DEF Roomy, Inserting
  <1> QED BY <1>2, <1>4, HoldersInit DEF RoomInv

\* Unless two writers have come together below a split, the leaf a key is
\* inserted into has room, for any number of writers and any tree.
THEOREM LeavesHaveRoom == Spec => [](apart => AssertionHolds)
  <1>1. RoomInv => (apart => AssertionHolds)
    BY DEF RoomInv, Roomy, AssertionHolds
  <1> QED BY RoomInit, RoomStep, <1>1, PTL DEF Spec

-----------------------------------------------------------------------------
(* Counting and induction.                                                 *)

LEMMA LeastNumber ==
  ASSUME NEW T, T # {}, \A x \in T : x \in Nat
  PROVE  \E m \in T : \A i \in T : m <= i
  <1> DEFINE R == OpToRel(<, Nat)
  <1>1. IsWellFoundedOn(R, Nat)
    BY NatLessThanWellFounded
  <1>2. \A x, y \in Nat : <<x, y>> \in R <=> x < y
    BY DEF R, OpToRel
  <1> HIDE DEF R
  <1>3. PICK x \in T : \A y \in T : ~(<<y, x>> \in R)
    BY <1>1, WFMin
  <1>4. \A y \in T : ~(y < x)
    BY <1>2, <1>3
  <1> QED BY <1>4

\* A set of slots that has all slots before any of its own.
LEMMA FirstSlots ==
  ASSUME NEW c \in Nat, NEW A, A \subseteq 1 .. c, \A i \in A : \A j \in 1 .. i : j \in A
  PROVE  Cardinality(A) \in 0 .. c /\ A = 1 .. Cardinality(A)
  <1> DEFINE Out == {j \in 1 .. c + 1 : j \notin A}
  <1>1. c + 1 \in Out
    OBVIOUS
  <1>2. PICK m \in Out : \A i \in Out : m <= i
    <2>1. \A x \in Out : x \in Nat
      OBVIOUS
    <2> HIDE DEF Out
    <2> QED BY <1>1, <2>1, LeastNumber
  <1>3. \A j \in 1 .. m - 1 : j \in A
    BY <1>2
  <1>4. \A j \in A : j \in 1 .. m - 1
    BY <1>2
  <1>5. m - 1 \in Nat /\ m - 1 <= c
    BY <1>2
  <1> HIDE DEF Out
  <1>6. A = 1 .. m - 1
    BY <1>3, <1>4
  <1>7. Cardinality(1 .. m - 1) = m - 1
    BY <1>5, FS_Interval
  <1> QED BY <1>5, <1>6, <1>7

\* What holds of a number when it holds of all above it.
LEMMA Downwards ==
  ASSUME NEW N \in Nat, NEW S, \A n \in 1 .. N : (\A m \in n + 1 .. N : m \in S) => n \in S
  PROVE  \A n \in 1 .. N : n \in S
  <1> SUFFICES ASSUME NEW o \in 1 .. N, o \notin S PROVE FALSE
    OBVIOUS
  <1> DEFINE T == {N - n : n \in {x \in 1 .. N : x \notin S}}
  <1>1. T # {} /\ \A x \in T : x \in Nat
    OBVIOUS
  <1>2. PICK d \in T : \A x \in T : d <= x
    <2> HIDE DEF T
    <2> QED BY <1>1, LeastNumber
  <1>3. PICK n \in 1 .. N : n \notin S /\ d = N - n
    BY <1>2
  <1>4. ASSUME NEW m \in n + 1 .. N, m \notin S PROVE FALSE
    <2>1. m \in 1 .. N /\ N - m < d /\ N - m \in Nat
      BY <1>3
    <2>2. N - m \in T
      BY <1>4, <2>1
    <2>3. d \in Nat /\ d <= N - m
      BY <1>1, <1>2, <2>2
    <2> QED BY <2>1, <2>3
  <1> QED BY <1>3, <1>4

\* H gives the value of a function at each number of D = 1 .. N, and looks only
\* at those above.
FromAbove(N, D, V, H) ==
  /\ N \in Nat /\ D = 1 .. N /\ V # {}
  /\ H \in [D -> [[D -> V] -> V]]
  /\ \A n \in D : \A f, g \in [D -> V] :
       (\A m \in n + 1 .. N : f[m] = g[m]) => H[n][f] = H[n][g]

\* Such a function exists.
Solved(D, V, H) == \E f \in [D -> V] : f = [n \in D |-> H[n][f]]

LEMMA TopDown ==
  ASSUME NEW N, NEW D, NEW V, NEW H, FromAbove(N, D, V, H)
  PROVE  Solved(D, V, H)
  <1> SUFFICES ASSUME N \in Nat, D = 1 .. N, V # {}, H \in [D -> [[D -> V] -> V]],
                      \A n \in D : \A f, g \in [D -> V] :
                        (\A m \in n + 1 .. N : f[m] = g[m]) => H[n][f] = H[n][g]
               PROVE  \E f \in [D -> V] : f = [n \in D |-> H[n][f]]
    BY Zenon DEF FromAbove, Solved
  <1> PICK v \in V : TRUE
    OBVIOUS
  <1> DEFINE Solves(f, n) == \A m \in n .. N : f[m] = H[m][f]
             S == {n \in 1 .. N + 1 : \E f \in [1 .. N -> V] : Solves(f, n)}
  <1>1. N + 1 \in S
    <2>1. [x \in 1 .. N |-> v] \in [1 .. N -> V] /\ N + 1 .. N = {}
      OBVIOUS
    <2>2. Solves([x \in 1 .. N |-> v], N + 1)
      BY <2>1
    <2> QED BY <2>1, <2>2
  <1>2. ASSUME NEW n \in 1 .. N, n + 1 \in S PROVE n \in S
    <2>1. PICK f \in [1 .. N -> V] : Solves(f, n + 1)
      BY <1>2
    <2>2. PICK g \in [1 .. N -> V] : g = [f EXCEPT ![n] = H[n][f]]
      <3>1. H[n][f] \in V
        OBVIOUS
      <3> QED BY <3>1
    <2>3. \A m \in n + 1 .. N : g[m] = f[m] /\ f[m] = H[m][f]
      BY <2>1, <2>2
    <2>4. g[n] = H[n][f] /\ H[n][f] = H[n][g]
      <3>1. \A m \in n + 1 .. N : f[m] = g[m]
        BY <2>3
      <3>2. H[n][f] = H[n][g]
        BY <3>1
      <3> QED BY <2>2, <3>2
    <2>5. ASSUME NEW m \in n + 1 .. N PROVE H[m][f] = H[m][g]
      <3>1. m \in 1 .. N /\ \A l \in m + 1 .. N : f[l] = g[l]
        BY <2>3
      <3> QED BY <3>1
    <2>6. Solves(g, n)
      BY SMTT(60), <2>3, <2>4, <2>5
    <2> QED BY <2>6
  <1>3. 1 \in S
    <2> DEFINE T == {n \in 1 .. N + 1 : n \in S}
    <2> HIDE DEF S
    <2>1. T # {} /\ \A x \in T : x \in Nat
      BY <1>1
    <2>2. PICK m \in T : \A x \in T : m <= x
      <3> HIDE DEF T
      <3> QED BY <2>1, LeastNumber
    <2>3. CASE m = 1
      BY <2>2, <2>3
    <2>4. CASE m # 1
      <3>1. m - 1 \in 1 .. N /\ (m - 1) + 1 = m /\ m \in S
        BY <2>2, <2>4
      <3>2. m - 1 \in S
        BY <1>2, <3>1
      <3>3. m - 1 \in T
        BY <3>1, <3>2
      <3> QED BY <2>2, <3>1, <3>3
    <2> QED BY <2>3, <2>4
  <1>4. PICK f \in [1 .. N -> V] : Solves(f, 1)
    BY <1>3
  <1>5. f = [n \in 1 .. N |-> H[n][f]]
    BY <1>4
  <1> QED BY <1>5

-----------------------------------------------------------------------------
(* Searching a node.                                                       *)

LEMMA SearchNode ==
  ASSUME TypeOK, NEW n \in Nodes, NEW k \in Nat,
         \A i, j \in 1 .. count[n] : i < j => keys[n][i] < keys[n][j]
  PROVE  /\ lowerBound(n, k) \in 0 .. count[n]
         /\ \A i \in 1 .. count[n] : i <= lowerBound(n, k) <=> keys[n][i] < k
         /\ lowerBoundInner(n, k) \in 0 .. count[n]
         /\ \A i \in 1 .. count[n] : i <= lowerBoundInner(n, k) <=> keys[n][i] <= k
  <1> DEFINE c == count[n]
             A == {i \in 1 .. c : keys[n][i] < k}
             B == {i \in 1 .. c : keys[n][i] <= k}
  <1>1. c \in Nat /\ c <= ChildNum /\ ChildNum \in Nat
    BY SizesAssumption DEF TypeOK
  <1>2. \A i \in 1 .. c : keys[n][i] \in Nat
    BY <1>1 DEF TypeOK, Slots
  <1>3. \A i \in A : \A j \in 1 .. i : j \in A
    <2> SUFFICES ASSUME NEW i \in A, NEW j \in 1 .. i PROVE j \in A
      OBVIOUS
    <2>1. i \in 1 .. c /\ j \in 1 .. c /\ keys[n][i] < k /\ (j = i \/ j < i)
      BY <1>1
    <2>2. keys[n][j] < k
      BY <1>2, <2>1
    <2> QED BY <2>1, <2>2
  <1>4. \A i \in B : \A j \in 1 .. i : j \in B
    <2> SUFFICES ASSUME NEW i \in B, NEW j \in 1 .. i PROVE j \in B
      OBVIOUS
    <2>1. i \in 1 .. c /\ j \in 1 .. c /\ keys[n][i] <= k /\ (j = i \/ j < i)
      BY <1>1
    <2>2. keys[n][j] <= k
      BY <1>2, <2>1
    <2> QED BY <2>1, <2>2
  <1>5. A \subseteq 1 .. c /\ B \subseteq 1 .. c
    OBVIOUS
  <1>6. lowerBound(n, k) = Cardinality(A) /\ lowerBoundInner(n, k) = Cardinality(B)
    BY DEF lowerBound, lowerBoundInner
  <1>7. \A i \in 1 .. c : (i \in A <=> keys[n][i] < k) /\ (i \in B <=> keys[n][i] <= k)
    OBVIOUS
  <1> HIDE DEF A, B, c
  <1>8. Cardinality(A) \in 0 .. c /\ A = 1 .. Cardinality(A)
    BY <1>1, <1>3, <1>5, FirstSlots
  <1>9. Cardinality(B) \in 0 .. c /\ B = 1 .. Cardinality(B)
    BY <1>1, <1>4, <1>5, FirstSlots
  <1>10. \A i \in 1 .. c : (i <= lowerBound(n, k) <=> keys[n][i] < k)
                        /\ (i <= lowerBoundInner(n, k) <=> keys[n][i] <= k)
    <2> SUFFICES ASSUME NEW i \in 1 .. c
                 PROVE  (i <= Cardinality(A) <=> i \in A) /\ (i <= Cardinality(B) <=> i \in B)
      BY <1>6, <1>7
    <2> QED BY <1>8, <1>9
  <1> QED BY <1>6, <1>8, <1>9, <1>10 DEF c

-----------------------------------------------------------------------------
(* The shape of a loaded tree.                                             *)

\* The tree bulk_load leaves: its sentinel is below every key asked for.
Loaded == Seed # <<>> /\ \A k \in Keys : k >= Seed[1]

Made == 1 .. next - 1

\* The slots of n with a key, the one that is not counted yet included.
Bumping(n) == \E t \in Threads : pc[t] = "bump" /\ leaf[t] = n
Used(n) == IF Bumping(n) THEN count[n] + 1 ELSE count[n]
KeysIn(n) == {keys[n][i] : i \in 1 .. Used(n)}

\* Children come after their parents and begin with the key their parents
\* have for them.
Shape ==
  /\ IsInner(Root) /\ keys[Root][1] = Seed[1]
  /\ \A n \in Made : count[n] >= 1
  /\ \A n \in Made : IsInner(n) => \A i \in Slots :
       /\ pointers[n][i] \in n + 1 .. next - 1
       /\ keys[pointers[n][i]][1] = keys[n][i]

Sorted == \A n \in Made : \A i, j \in 1 .. Used(n) : i < j => keys[n][i] < keys[n][j]

\* Where a descent for k goes from n, and where it ends.
Child(n, k) == pointers[n][lowerBoundInner(n, k)]
Follows(n, k) == IsInner(n) /\ lowerBoundInner(n, k) # 0
EndsAt(k) == CHOOSE f : f = [n \in Nodes |-> IF Follows(n, k) THEN f[Child(n, k)] ELSE n]

TreeShape == TreeInv /\ Shape /\ Sorted

LEMMA MadeNodes ==
  ASSUME TypeOK
  PROVE  /\ Made \subseteq Nodes /\ Root \in Made /\ next \in Nat /\ Root = 1
         /\ \A m : m \in Made <=> m \in Nat /\ 1 <= m /\ m < next
         /\ \A m \in Nodes : m \in Made <=> m < next
  BY SizesAssumption DEF TypeOK, Made, Nodes, Root

LEMMA KeysAreNumbers ==
  ASSUME TypeOK, NEW n \in Nodes
  PROVE  /\ ChildNum \in Nat /\ ChildNum >= 2 /\ 1 \in Slots /\ Slots = 1 .. ChildNum
         /\ count[n] \in Nat /\ count[n] <= ChildNum
         /\ \A i \in Slots : keys[n][i] \in Nat
  BY SizesAssumption DEF TypeOK, Slots

LEMMA FirstKey ==
  ASSUME TypeOK, NEW n \in Nodes
  PROVE  keys[n][1] \in Nat
  BY KeysAreNumbers

LEMMA Sorts ==
  ASSUME TreeShape, NEW n \in Made
  PROVE  \A i, j \in 1 .. count[n] : i < j => keys[n][i] < keys[n][j]
  <1>1. n \in Nodes
    BY MadeNodes DEF TreeShape, TreeInv
  <1>2. count[n] \in Nat
    BY <1>1, KeysAreNumbers DEF TreeShape, TreeInv
  <1>3. \A i \in 1 .. count[n] : i \in 1 .. Used(n)
    BY <1>2 DEF Used
  <1> QED BY <1>3, Zenon DEF TreeShape, Sorted

\* One step of a descent.
LEMMA Descent ==
  ASSUME TreeShape, NEW n \in Made, NEW k \in Nat, IsInner(n)
  PROVE  /\ lowerBoundInner(n, k) \in 0 .. ChildNum
         /\ lowerBoundInner(n, k) # 0 <=> k >= keys[n][1]
         /\ k >= keys[n][1] =>
              /\ lowerBoundInner(n, k) \in Slots
              /\ Child(n, k) \in Made /\ Child(n, k) > n /\ Child(n, k) # Value
              /\ keys[Child(n, k)][1] = keys[n][lowerBoundInner(n, k)]
              /\ keys[Child(n, k)][1] <= k
              /\ \A i \in Slots : i > lowerBoundInner(n, k) => k < keys[n][i]
  <1> DEFINE b == lowerBoundInner(n, k)
  <1>1. n \in Nodes /\ next \in Nat /\ n \in Nat /\ n >= 1 /\ TypeOK
    BY MadeNodes DEF TreeShape, TreeInv
  <1>2. count[n] = ChildNum /\ 1 \in Slots /\ ChildNum \in Nat /\ ChildNum >= 2 /\ Slots = 1 .. ChildNum
        /\ \A i \in Slots : keys[n][i] \in Nat
    BY <1>1, KeysAreNumbers DEF TreeShape, TreeInv
  <1>3. \A i, j \in 1 .. count[n] : i < j => keys[n][i] < keys[n][j]
    BY Sorts
  <1>4. b \in 0 .. ChildNum /\ \A i \in Slots : i <= b <=> keys[n][i] <= k
    BY <1>1, <1>2, <1>3, SearchNode
  <1>5. \A i \in Slots : pointers[n][i] \in n + 1 .. next - 1 /\ keys[pointers[n][i]][1] = keys[n][i]
    BY DEF TreeShape, Shape
  <1>6. Child(n, k) = pointers[n][b]
    BY DEF Child
  <1> HIDE DEF b
  <1>7. b # 0 <=> k >= keys[n][1]
    <2>1. b \in Nat /\ (b # 0 <=> 1 <= b)
      BY <1>4
    <2>2. 1 <= b <=> keys[n][1] <= k
      BY <1>2, <1>4
    <2> QED BY <1>2, <2>1, <2>2
  <1>8. ASSUME k >= keys[n][1]
        PROVE  /\ b \in Slots
               /\ Child(n, k) \in Made /\ Child(n, k) > n /\ Child(n, k) # Value
               /\ keys[Child(n, k)][1] = keys[n][b]
               /\ keys[Child(n, k)][1] <= k
               /\ \A i \in Slots : i > b => k < keys[n][i]
    <2>1. b \in Slots
      BY <1>2, <1>4, <1>7, <1>8
    <2>2. pointers[n][b] \in n + 1 .. next - 1 /\ keys[pointers[n][b]][1] = keys[n][b]
      BY <1>5, <2>1
    <2>3. pointers[n][b] \in Made /\ pointers[n][b] > n /\ pointers[n][b] # Value
      BY <1>1, <2>2 DEF Made, Value
    <2>4. keys[n][b] <= k
      BY <1>4, <2>1
    <2>5. \A i \in Slots : i > b => k < keys[n][i]
      BY <1>2, <1>4, <2>1
    <2> QED BY <1>6, <2>1, <2>2, <2>3, <2>4, <2>5
  <1> QED BY <1>4, <1>7, <1>8 DEF b

LEMMA FollowsChild ==
  ASSUME TreeShape, NEW n \in Nodes, NEW k \in Nat, Follows(n, k)
  PROVE  /\ n \in Made /\ IsInner(n) /\ k >= keys[n][1]
         /\ Child(n, k) \in Made /\ Child(n, k) > n
         /\ keys[Child(n, k)][1] <= k
  <1>1. n \in Made /\ IsInner(n)
    BY MadeNodes DEF TreeShape, TreeInv, Follows
  <1>2. k >= keys[n][1]
    BY <1>1, Descent DEF Follows
  <1> QED BY <1>1, <1>2, Descent

\* Descents are defined.
LEMMA EndsAtIs ==
  ASSUME TreeShape, NEW k \in Nat
  PROVE  /\ EndsAt(k) = [n \in Nodes |-> IF Follows(n, k) THEN EndsAt(k)[Child(n, k)] ELSE n]
         /\ LeafFor(k) = EndsAt(k)[Root]
  <1> DEFINE V == [Nodes -> Nodes]
             H == [n \in Nodes |-> [f \in V |-> IF Follows(n, k) THEN f[Child(n, k)] ELSE n]]
  <1>1. MaxNodes \in Nat /\ Root \in Nodes /\ Nodes = 1 .. MaxNodes /\ Made \subseteq Nodes
    BY SizesAssumption, MadeNodes DEF Root, Nodes, TreeShape, TreeInv
  <1>2. \A n \in Nodes : Follows(n, k) => Child(n, k) \in n + 1 .. MaxNodes
    <2> SUFFICES ASSUME NEW n \in Nodes, Follows(n, k) PROVE Child(n, k) \in n + 1 .. MaxNodes
      OBVIOUS
    <2>1. Child(n, k) \in Nodes /\ Child(n, k) > n
      BY <1>1, FollowsChild
    <2> QED BY <1>1, <2>1
  <1>3. H \in [Nodes -> [V -> Nodes]]
    <2> SUFFICES ASSUME NEW n \in Nodes, NEW f \in V
                 PROVE  (IF Follows(n, k) THEN f[Child(n, k)] ELSE n) \in Nodes
      OBVIOUS
    <2>1. Follows(n, k) => Child(n, k) \in Nodes
      BY <1>1, <1>2
    <2> QED BY <2>1
  <1>4. ASSUME NEW n \in Nodes, NEW f \in V, NEW g \in V, \A m \in n + 1 .. MaxNodes : f[m] = g[m]
        PROVE  H[n][f] = H[n][g]
    <2>1. Follows(n, k) => f[Child(n, k)] = g[Child(n, k)]
      BY <1>2, <1>4
    <2> QED BY <2>1
  <1> HIDE DEF H
  <1>5. PICK f \in V : f = [n \in Nodes |-> H[n][f]]
    <2>1. MaxNodes \in Nat /\ Nodes = 1 .. MaxNodes /\ Nodes # {}
      BY <1>1
    <2>2. FromAbove(MaxNodes, Nodes, Nodes, H)
      BY <1>3, <1>4, <2>1, Zenon DEF FromAbove
    <2>3. Solved(Nodes, Nodes, H)
      BY <2>2, TopDown
    <2> QED BY <2>3, Zenon DEF Solved
  <1>6. f = [n \in Nodes |-> IF Follows(n, k) THEN f[Child(n, k)] ELSE n]
    BY <1>5 DEF H
  <1>7. EndsAt(k) = [n \in Nodes |-> IF Follows(n, k) THEN EndsAt(k)[Child(n, k)] ELSE n]
    <2> DEFINE P(h) == h = [n \in Nodes |-> IF Follows(n, k) THEN h[Child(n, k)] ELSE n]
    <2>1. P(f)
      BY <1>6
    <2>2. P(CHOOSE h : P(h))
      <3> HIDE DEF P
      <3> QED BY <2>1
    <2> QED BY <2>2 DEF EndsAt
  <1>8. LeafFor(k) = EndsAt(k)[Root]
    BY Zenon DEF LeafFor, EndsAt, Follows, Child
  <1> QED BY <1>7, <1>8

\* Where a descent ends the key is not below the first one.
LEMMA EndsInLeaf ==
  ASSUME TreeShape, NEW k \in Nat, NEW n \in Made
  PROVE  /\ EndsAt(k)[n] \in Made
         /\ ~IsInner(n) => EndsAt(k)[n] = n
         /\ k >= keys[n][1] => ~IsInner(EndsAt(k)[n]) /\ keys[EndsAt(k)[n]][1] <= k
  <1> DEFINE e == EndsAt(k)
             S == {m \in Nodes : m \in Made => /\ e[m] \in Made
                                               /\ k >= keys[m][1] => ~IsInner(e[m]) /\ keys[e[m]][1] <= k}
  <1>1. MaxNodes \in Nat /\ Nodes = 1 .. MaxNodes /\ Made \subseteq Nodes
    BY SizesAssumption, MadeNodes DEF Nodes, TreeShape, TreeInv
  <1>2. \A m \in Nodes : e[m] = IF Follows(m, k) THEN e[Child(m, k)] ELSE m
    <2>1. e = [m \in Nodes |-> IF Follows(m, k) THEN e[Child(m, k)] ELSE m]
      BY EndsAtIs
    <2> HIDE DEF e
    <2> QED BY <2>1
  <1> HIDE DEF e
  <1>3. ASSUME NEW m \in Nodes, \A l \in m + 1 .. MaxNodes : l \in S PROVE m \in S
    <2> SUFFICES ASSUME m \in Made
                 PROVE  /\ e[m] \in Made
                        /\ k >= keys[m][1] => ~IsInner(e[m]) /\ keys[e[m]][1] <= k
      OBVIOUS
    <2>1. CASE Follows(m, k)
      <3>1. Child(m, k) \in Made /\ Child(m, k) > m /\ keys[Child(m, k)][1] <= k
        BY <2>1, FollowsChild
      <3>2. Child(m, k) \in m + 1 .. MaxNodes /\ keys[Child(m, k)][1] \in Nat
        <4>1. Child(m, k) \in Nodes
          BY <1>1, <3>1
        <4> QED BY <1>1, <3>1, <4>1, FirstKey DEF TreeShape, TreeInv
      <3>3. Child(m, k) \in S
        BY <1>3, <3>2
      <3> QED BY <1>2, <2>1, <3>1, <3>2, <3>3
    <2>2. CASE ~Follows(m, k)
      <3>1. e[m] = m
        BY <1>2, <2>2
      <3>2. k >= keys[m][1] => ~IsInner(m)
        BY <2>2, Descent DEF Follows
      <3>3. keys[m][1] \in Nat
        BY FirstKey DEF TreeShape, TreeInv
      <3> QED BY <3>1, <3>2, <3>3
    <2> QED BY <2>1, <2>2
  <1>4. n \in S
    <2> HIDE DEF S
    <2> QED BY <1>1, <1>3, Downwards
  <1>5. ~IsInner(n) => e[n] = n
    BY <1>1, <1>2 DEF Follows
  <1> QED BY <1>1, <1>4, <1>5 DEF e

LEMMA EndsThroughChild ==
  ASSUME TreeShape, NEW k \in Nat, NEW n \in Made, IsInner(n), k >= keys[n][1]
  PROVE  EndsAt(k)[n] = EndsAt(k)[Child(n, k)]
  <1>1. Follows(n, k) /\ n \in Nodes
    BY Descent, MadeNodes DEF Follows, TreeShape, TreeInv
  <1>2. \A e : e = [m \in Nodes |-> IF Follows(m, k) THEN e[Child(m, k)] ELSE m] => e[n] = e[Child(n, k)]
    BY <1>1
  <1> QED BY <1>2, EndsAtIs

-----------------------------------------------------------------------------
(* What a step leaves of the tree.                                         *)

\* Inner nodes stay as they are, every node keeps its first key, and a leaf
\* loses none.
Grows ==
  /\ next <= next'
  /\ \A n \in Made : IsInner(n) => /\ type'[n] = type[n] /\ count'[n] = count[n]
                                   /\ keys'[n] = keys[n] /\ pointers'[n] = pointers[n]
  /\ \A n \in Made : keys'[n][1] = keys[n][1] /\ KeysIn(n) \subseteq KeysIn(n)'

\* Descents step down and end in a leaf whose first key is not above theirs.
DescentsEnd ==
  /\ \A k \in Nat : \A n \in Nodes :
       EndsAt(k)[n] = IF Follows(n, k) THEN EndsAt(k)[Child(n, k)] ELSE n
  /\ \A k \in Nat : LeafFor(k) = EndsAt(k)[Root] /\ LeafFor(k) \in Made
  /\ \A k \in Nat : \A n \in Made :
       /\ EndsAt(k)[n] \in Made
       /\ ~IsInner(n) => EndsAt(k)[n] = n
       /\ k >= keys[n][1] => ~IsInner(EndsAt(k)[n]) /\ keys[EndsAt(k)[n]][1] <= k

LEMMA Descents == TreeShape => DescentsEnd
  <1> SUFFICES ASSUME TreeShape PROVE DescentsEnd
    OBVIOUS
  <1>1. ASSUME NEW k \in Nat, NEW n \in Nodes
        PROVE  EndsAt(k)[n] = IF Follows(n, k) THEN EndsAt(k)[Child(n, k)] ELSE n
    <2>1. \A e : e = [m \in Nodes |-> IF Follows(m, k) THEN e[Child(m, k)] ELSE m] =>
                    e[n] = IF Follows(n, k) THEN e[Child(n, k)] ELSE n
      OBVIOUS
    <2> QED BY <2>1, EndsAtIs
  <1>2. \A k \in Nat : LeafFor(k) = EndsAt(k)[Root]
    BY EndsAtIs
  <1>3. Root \in Made
    BY MadeNodes DEF TreeShape, TreeInv
  <1>4. \A k \in Nat : \A n \in Made :
              /\ EndsAt(k)[n] \in Made
              /\ ~IsInner(n) => EndsAt(k)[n] = n
              /\ k >= keys[n][1] => ~IsInner(EndsAt(k)[n]) /\ keys[EndsAt(k)[n]][1] <= k
    BY EndsInLeaf
  <1>5. \A k \in Nat : LeafFor(k) \in Made
    BY <1>2, <1>3, <1>4
  <1> QED BY <1>1, <1>2, <1>4, <1>5 DEF DescentsEnd

\* A descent goes on from where it ended before.
LEMMA EndsGrow ==
  ASSUME TreeShape, TreeShape', Grows, NEW k \in Nat
  PROVE  /\ \A n \in Made : EndsAt(k)'[n] = EndsAt(k)'[EndsAt(k)[n]]
         /\ LeafFor(k)' = EndsAt(k)'[LeafFor(k)]
  <1> DEFINE S == {n \in Nodes : n \in Made => EndsAt(k)'[n] = EndsAt(k)'[EndsAt(k)[n]]}
  <1>1. MaxNodes \in Nat /\ Nodes = 1 .. MaxNodes /\ Made \subseteq Nodes /\ Root \in Made
    BY SizesAssumption, MadeNodes DEF Nodes, TreeShape, TreeInv
  <1>2. \A n \in Nodes : EndsAt(k)[n] = IF Follows(n, k) THEN EndsAt(k)[Child(n, k)] ELSE n
    BY Descents, Zenon DEF DescentsEnd
  <1>3. DescentsEnd'
    BY Descents, PTL
  <1>4. \A n \in Nodes : EndsAt(k)'[n] = IF Follows(n, k)' THEN EndsAt(k)'[Child(n, k)'] ELSE n
    BY <1>3, Zenon DEF DescentsEnd
  <1>5. ASSUME NEW n \in Nodes, Follows(n, k)
        PROVE  Follows(n, k)' /\ Child(n, k)' = Child(n, k)
    <2>1. n \in Made /\ IsInner(n) /\ n \in Nodes
      BY <1>5, FollowsChild
    <2>2. type'[n] = type[n] /\ count'[n] = count[n] /\ keys'[n] = keys[n] /\ pointers'[n] = pointers[n]
      BY <2>1, Zenon DEF Grows
    <2>3. lowerBoundInner(n, k)' = lowerBoundInner(n, k)
      BY <2>2 DEF lowerBoundInner
    <2>4. IsInner(n)' <=> IsInner(n)
      BY <2>2 DEF IsInner
    <2> QED BY <1>5, <2>2, <2>3, <2>4 DEF Follows, Child
  <1>6. ASSUME NEW n \in Nodes, \A m \in n + 1 .. MaxNodes : m \in S PROVE n \in S
    <2> SUFFICES ASSUME n \in Made PROVE EndsAt(k)'[n] = EndsAt(k)'[EndsAt(k)[n]]
      OBVIOUS
    <2>1. CASE Follows(n, k)
      <3>1. Child(n, k) \in Made /\ Child(n, k) > n
        BY <2>1, FollowsChild
      <3>2. Child(n, k) \in n + 1 .. MaxNodes
        <4>1. PICK c \in Nodes : c = Child(n, k) /\ c > n
          BY <1>1, <3>1
        <4>2. c \in n + 1 .. MaxNodes
          BY <1>1, <4>1
        <4> QED BY <4>1, <4>2
      <3>3. EndsAt(k)'[Child(n, k)] = EndsAt(k)'[EndsAt(k)[Child(n, k)]]
        BY <1>6, <3>1, <3>2
      <3>4. EndsAt(k)'[n] = EndsAt(k)'[Child(n, k)]
        BY <1>4, <1>5, <2>1, Zenon
      <3>5. EndsAt(k)[n] = EndsAt(k)[Child(n, k)]
        BY <1>2, <2>1, Zenon
      <3> QED BY <3>3, <3>4, <3>5, Zenon
    <2>2. CASE ~Follows(n, k)
      BY <1>2, <2>2, Zenon
    <2> QED BY <2>1, <2>2
  <1>7. \A n \in Nodes : n \in S
    <2> HIDE DEF S
    <2> QED BY <1>1, <1>6, Downwards
  <1>8. \A n \in Made : EndsAt(k)'[n] = EndsAt(k)'[EndsAt(k)[n]]
    BY <1>1, <1>7, Zenon
  <1>9. LeafFor(k)' = EndsAt(k)'[Root] /\ LeafFor(k) = EndsAt(k)[Root]
    BY <1>3, Descents, Zenon DEF DescentsEnd
  <1> QED BY <1>1, <1>8, <1>9, Zenon

\* A leaf that stays one is where descents still end.
LEMMA EndsStay ==
  ASSUME TreeShape, TreeShape', Grows, NEW k \in Nat
  PROVE  /\ \A n, e \in Made : EndsAt(k)[n] = e /\ ~IsInner(e)' => EndsAt(k)'[n] = e
         /\ \A e \in Made : LeafFor(k) = e /\ ~IsInner(e)' => LeafFor(k)' = e
         /\ \A n \in Made : EndsAt(k)[n] = LeafFor(k) => EndsAt(k)'[n] = LeafFor(k)'
  <1>1. DescentsEnd'
    BY Descents, PTL
  <1>2. \A n \in Made : n \in Made'
    <2>1. next \in Nat /\ next' \in Nat /\ next <= next'
      BY MadeNodes DEF Grows, TreeShape, TreeInv, TypeOK
    <2>2. Made' = 1 .. next' - 1
      BY DEF Made
    <2>3. \A n \in 1 .. next - 1 : n \in 1 .. next' - 1
      <3>1. \A a, b \in Nat : a <= b => \A n \in 1 .. a - 1 : n \in 1 .. b - 1
        OBVIOUS
      <3> QED BY <2>1, <3>1, Zenon
    <2> QED BY <2>2, <2>3 DEF Made
  <1>3. \A n \in Made : ~IsInner(n)' => EndsAt(k)'[n] = n
    BY <1>1, <1>2, Zenon DEF DescentsEnd
  <1>4. \A n \in Made : EndsAt(k)'[n] = EndsAt(k)'[EndsAt(k)[n]]
    BY EndsGrow
  <1>5. LeafFor(k)' = EndsAt(k)'[LeafFor(k)]
    BY EndsGrow
  <1> QED BY <1>3, <1>4, <1>5, Zenon

-----------------------------------------------------------------------------
(* The invariant.                                                          *)

\* Keys and searches below a child stay below the next key of the parent.
BoundsOf(hi) ==
  /\ hi \in [Nodes -> SUBSET Nat] /\ hi[Root] = {}
  /\ \A n \in Made : IsInner(n) => \A i \in Slots :
       hi[pointers[n][i]] = IF i < ChildNum THEN hi[n] \cup {keys[n][i + 1]} ELSE hi[n]
  /\ \A n \in Made : \A i \in 1 .. Used(n) : \A x \in hi[n] : keys[n][i] <= x

Below(hi) ==
  /\ \A t \in Threads : \A x \in hi[node[t]] : key[t] < x
  /\ \A t \in Threads : pc[t] \in {"leaf", "shift"} => \A x \in hi[leaf[t]] : key[t] <= x

Bounded == \E hi : BoundsOf(hi) /\ Below(hi)

\* Every thread stands where a descent for its key comes by.
Paths == \A t \in Threads :
  keys[node[t]][1] <= key[t] /\ EndsAt(key[t])[node[t]] = LeafFor(key[t])

Stored == \A k \in completed : k >= Seed[1] /\ k \in KeysIn(LeafFor(k))

\* A writer at the leaf for its key, or at the child before it if the key is
\* there already.
AtLeaf(t) ==
  /\ ~IsInner(leaf[t]) /\ count[leaf[t]] < ChildNum /\ keys[leaf[t]][1] <= key[t]
  /\ leaf[t] = node[t] \/ count[leaf[t]] = 1
  /\ LeafFor(key[t]) = leaf[t] \/ key[t] \in KeysIn(LeafFor(key[t]))

WriterOK(t) ==
  /\ pc[t] \notin {"abort", "wild"}
  /\ pc[t] \in {"split", "updLock", "updLeaf"} => ~IsInner(node[t])
  /\ pc[t] \in {"leaf", "shift", "bump"} => AtLeaf(t)
  /\ pc[t] = "shift" => key[t] \notin KeysIn(leaf[t]) /\ pos[t] = lowerBound(leaf[t], key[t])
  /\ pc[t] = "bump" => /\ pos[t] \in 1 .. count[leaf[t]] /\ keys[leaf[t]][pos[t] + 1] = key[t]
                       /\ LeafFor(key[t]) = leaf[t] => key[t] \notin completed
  /\ pc[t] = "insRelease" => key[t] \in KeysIn(LeafFor(key[t]))

\* A lock that an overflow has left set.
Stuck(n) == IsSet(word[n]) /\ \A t \in Threads : ~(Holding(t) /\ node[t] = n)

\* A reader whose key was completed has it in its leaf, or has read a version
\* that is over.
ReaderOK(t) ==
  /\ due[t] => key[t] \in completed
  /\ pc[t] \in {"getVersion", "getSearch", "getCheck"} /\ due[t] => key[t] \in KeysIn(node[t])
  /\ pc[t] \in {"getSearch", "getCheck"} =>
       ~IsSet(version[t]) /\ (version[t] <= Masked(word[node[t]]) \/ Stuck(node[t]))
  /\ pc[t] = "getCheck" /\ due[t] /\ ~ret[t] => word[node[t]] # version[t]

\* Of the writers of one key that end at the same leaf, one gets to write it.
Sole(w) ==
  pc[w] = "bump" /\ leaf[w] = LeafFor(key[w]) =>
    \A t \in Threads \ {w} :
      key[t] = key[w] => pc[t] \notin Inserting \cup {"insRelease"}

ReachInv ==
  /\ HoldersInv /\ WritesApart /\ Roomy /\ Shape /\ Sorted /\ Bounded /\ Paths /\ Stored
  /\ \A t \in Threads : WriterOK(t) /\ ReaderOK(t) /\ Sole(t)

-----------------------------------------------------------------------------
(* What each step does to the tree.                                        *)

Quiet ==
  /\ UNCHANGED <<type, count, keys, next>>
  /\ \A n \in Nodes : IsInner(n) => pointers'[n] = pointers[n]
  /\ \A n \in Nodes : Used(n)' = Used(n)

LEMMA QuietSteps ==
  ASSUME ReachInv, NEW t \in Threads, Step(t)
  PROVE  Quiet \/ Shift(t) \/ Bump(t) \/ Split(t)
  <1> SUFFICES ASSUME ~Shift(t), ~Bump(t), ~Split(t) PROVE Quiet
    OBVIOUS
  <1>1. /\ DOMAIN pc = Threads /\ DOMAIN leaf = Threads
        /\ pointers \in [Nodes -> [Slots -> {Value} \cup 1 .. next - 1]]
        /\ pc[t] = "updLeaf" => ~IsInner(node[t])
    BY DEF ReachInv, HoldersInv, TreeInv, TypeOK, WriterOK
  <1>2. UNCHANGED <<type, count, keys, next>>
    BY DEF Step, Begin, InsDescend, InsLock, InsType, InsertLeaf, InsRelease, UpdDescend, UpdLock, UpdLeaf,
           UpdRelease, GetDescend, Descend, GetVersion, GetSearch, GetCheck
  <1>3. \A n \in Nodes : IsInner(n) => pointers'[n] = pointers[n]
    <2>1. CASE UpdLeaf(t)
      <3>1. ~IsInner(node[t]) /\ \A n \in Nodes : n # node[t] => pointers'[n] = pointers[n]
        BY <1>1, <2>1 DEF UpdLeaf
      <3> QED BY <3>1
    <2>2. CASE ~UpdLeaf(t)
      BY <2>2 DEF Step, Begin, InsDescend, InsLock, InsType, InsertLeaf, InsRelease, UpdDescend, UpdLock,
                  UpdRelease, GetDescend, Descend, GetVersion, GetSearch, GetCheck
    <2> QED BY <2>1, <2>2
  <1>4. \A u \in Threads : (pc'[u] = "bump" <=> pc[u] = "bump") /\ (pc[u] = "bump" => leaf'[u] = leaf[u])
    <2>1. CASE Begin(t) \/ InsLock(t) \/ InsType(t)
      BY <1>1, <2>1 DEF Begin, InsLock, InsType
    <2>2. CASE InsDescend(t)
      BY <1>1, <2>2 DEF InsDescend
    <2>3. CASE InsertLeaf(t) \/ InsRelease(t)
      BY <1>1, <2>3 DEF InsertLeaf, InsRelease
    <2>4. CASE UpdLock(t) \/ UpdLeaf(t) \/ UpdRelease(t)
      BY <1>1, <2>4 DEF UpdLock, UpdLeaf, UpdRelease
    <2>5. CASE UpdDescend(t) \/ GetDescend(t)
      BY <1>1, <2>5 DEF UpdDescend, GetDescend, Descend
    <2>6. CASE GetVersion(t) \/ GetSearch(t) \/ GetCheck(t)
      BY <1>1, <2>6 DEF GetVersion, GetSearch, GetCheck
    <2> QED BY <2>1, <2>2, <2>3, <2>4, <2>5, <2>6 DEF Step
  <1>5. \A n \in Nodes : Bumping(n)' <=> Bumping(n)
    BY <1>4, Zenon DEF Bumping
  <1>6. \A n \in Nodes : Used(n)' = Used(n)
    BY <1>2, <1>5 DEF Used
  <1> QED BY <1>2, <1>3, <1>6 DEF Quiet

LEMMA QuietKeeps ==
  ASSUME ReachInv, Quiet
  PROVE  Shape' /\ Sorted' /\ Grows /\ Made' = Made /\ \A n \in Nodes : KeysIn(n)' = KeysIn(n)
  <1>1. Made' = Made /\ Made \subseteq Nodes /\ Root \in Made
    BY MadeNodes DEF Quiet, Made, ReachInv, HoldersInv, TreeInv
  <1>2. \A n \in Nodes : (IsInner(n)' <=> IsInner(n)) /\ keys'[n] = keys[n] /\ count'[n] = count[n]
    BY DEF Quiet, IsInner
  <1>3. \A n \in Nodes : KeysIn(n)' = KeysIn(n)
    BY DEF Quiet, KeysIn
  <1>4. Sorted'
    <2> SUFFICES ASSUME NEW n \in Made', NEW i \in 1 .. Used(n)', NEW j \in 1 .. Used(n)', i < j
                 PROVE  keys'[n][i] < keys'[n][j]
      BY DEF Sorted
    <2>1. n \in Nodes /\ n \in Made /\ Used(n)' = Used(n) /\ keys' = keys
      BY <1>1 DEF Quiet
    <2> QED BY <2>1 DEF ReachInv, Sorted
  <1>5. Shape'
    <2>1. IsInner(Root)' /\ keys'[Root][1] = Seed[1]
      BY <1>1, <1>2 DEF ReachInv, Shape
    <2>2. \A n \in Made' : count'[n] >= 1
      BY <1>1, <1>2 DEF ReachInv, Shape
    <2>3. ASSUME NEW n \in Made', IsInner(n)', NEW i \in Slots
          PROVE  pointers'[n][i] \in n + 1 .. next' - 1 /\ keys'[pointers'[n][i]][1] = keys'[n][i]
      <3>1. n \in Made /\ n \in Nodes /\ IsInner(n) /\ pointers'[n] = pointers[n] /\ keys' = keys /\ next' = next
        BY <1>1, <1>2, <2>3 DEF Quiet
      <3> QED BY <3>1 DEF ReachInv, Shape
    <2> QED BY <2>1, <2>2, <2>3 DEF Shape
  <1>6. Grows
    <2>1. next <= next'
      BY MadeNodes DEF Quiet, ReachInv, HoldersInv, TreeInv
    <2> QED BY <1>1, <1>3, <2>1 DEF Grows, Quiet
  <1> QED BY <1>1, <1>3, <1>4, <1>5, <1>6

LEMMA QuietBounds ==
  ASSUME ReachInv, Quiet, NEW hi, BoundsOf(hi)
  PROVE  BoundsOf(hi)'
  <1>1. Made' = Made /\ Made \subseteq Nodes
    BY MadeNodes DEF Quiet, Made, ReachInv, HoldersInv, TreeInv
  <1>2. \A n \in Nodes : IsInner(n)' <=> IsInner(n)
    BY DEF Quiet, IsInner
  <1>3. ASSUME NEW n \in Made', IsInner(n)', NEW i \in Slots
        PROVE  hi[pointers'[n][i]] = IF i < ChildNum THEN hi[n] \cup {keys'[n][i + 1]} ELSE hi[n]
    <2>1. n \in Made /\ IsInner(n) /\ pointers'[n] = pointers[n] /\ keys' = keys
      BY <1>1, <1>2, <1>3 DEF Quiet
    <2>2. hi[pointers[n][i]] = IF i < ChildNum THEN hi[n] \cup {keys[n][i + 1]} ELSE hi[n]
      BY <2>1, Zenon DEF BoundsOf
    <2> QED BY <2>1, <2>2, Zenon
  <1>4. ASSUME NEW n \in Made', NEW i \in 1 .. Used(n)', NEW x \in hi[n]
        PROVE  keys'[n][i] <= x
    <2>1. n \in Made /\ Used(n)' = Used(n) /\ keys' = keys
      BY <1>1 DEF Quiet
    <2> QED BY <2>1 DEF BoundsOf
  <1> QED BY <1>3, <1>4, Zenon DEF BoundsOf

-----------------------------------------------------------------------------
(* The three steps of an insertion.                                        *)

\* g has the first c numbers of f, and k between those below it and those above.
Between(c, p, k, f, g) ==
  /\ c \in Nat /\ p \in 0 .. c /\ k \in Nat
  /\ \A i \in 1 .. c : f[i] \in Nat /\ f[i] # k /\ (i <= p <=> f[i] < k)
  /\ \A i, j \in 1 .. c : i < j => f[i] < f[j]
  /\ \A i \in 1 .. c + 1 : g[i] = IF i = p + 1 THEN k
                                 ELSE IF i \in p + 2 .. c + 1 THEN f[i - 1] ELSE f[i]

\* What that makes of them.
Inserted(c, k, f, g) ==
  /\ \A i, j \in 1 .. c + 1 : i < j => g[i] < g[j]
  /\ {g[i] : i \in 1 .. c + 1} = {f[i] : i \in 1 .. c} \cup {k}

LEMMA BetweenInserted ==
  ASSUME NEW c, NEW p, NEW k, NEW f, NEW g, Between(c, p, k, f, g)
  PROVE  Inserted(c, k, f, g)
  <1> SUFFICES
        ASSUME c \in Nat, p \in 0 .. c, k \in Nat,
               \A i \in 1 .. c : f[i] \in Nat /\ f[i] # k /\ (i <= p <=> f[i] < k),
               \A i, j \in 1 .. c : i < j => f[i] < f[j],
               \A i \in 1 .. c + 1 : g[i] = IF i = p + 1 THEN k
                                            ELSE IF i \in p + 2 .. c + 1 THEN f[i - 1] ELSE f[i]
        PROVE  /\ \A i, j \in 1 .. c + 1 : i < j => g[i] < g[j]
               /\ {g[i] : i \in 1 .. c + 1} = {f[i] : i \in 1 .. c} \cup {k}
    BY Zenon DEF Between, Inserted
  <1>1. \A i \in 1 .. c : i <= p => g[i] = f[i] /\ f[i] < k
    OBVIOUS
  <1>2. \A i \in 1 .. c : i > p => g[i + 1] = f[i] /\ f[i] > k
    <2> SUFFICES ASSUME NEW i \in 1 .. c, i > p PROVE g[i + 1] = f[i] /\ f[i] > k
      OBVIOUS
    <2>1. i + 1 \in 1 .. c + 1 /\ i + 1 \in p + 2 .. c + 1 /\ i + 1 # p + 1 /\ (i + 1) - 1 = i
      OBVIOUS
    <2> QED BY <2>1
  <1>3. g[p + 1] = k /\ p + 1 \in 1 .. c + 1
    OBVIOUS
  <1>4. \A i \in 1 .. c + 1 : \/ i <= p /\ i \in 1 .. c
                              \/ i = p + 1
                              \/ i > p + 1 /\ i - 1 \in 1 .. c /\ i - 1 > p /\ (i - 1) + 1 = i
    OBVIOUS
  <1>5. ASSUME NEW i \in 1 .. c + 1, NEW j \in 1 .. c + 1, i < j PROVE g[i] < g[j]
    <2>1. CASE i <= p /\ j <= p
      BY <1>1, <1>4, <1>5, <2>1
    <2>2. CASE i <= p /\ j = p + 1
      BY <1>1, <1>3, <1>4, <2>2
    <2>3. CASE i <= p /\ j > p + 1
      <3>1. g[i] = f[i] /\ g[j] = f[j - 1] /\ i < j - 1 /\ j - 1 \in 1 .. c /\ i \in 1 .. c
        BY <1>1, <1>2, <1>4, <2>3
      <3> QED BY <3>1
    <2>4. CASE i = p + 1 /\ j > p + 1
      BY <1>2, <1>3, <1>4, <2>4
    <2>5. CASE i > p + 1 /\ j > p + 1
      <3>1. g[i] = f[i - 1] /\ g[j] = f[j - 1] /\ i - 1 < j - 1 /\ j - 1 \in 1 .. c /\ i - 1 \in 1 .. c
        BY <1>2, <1>4, <1>5, <2>5
      <3> QED BY <3>1
    <2> QED BY <1>5, <2>1, <2>2, <2>3, <2>4, <2>5
  <1>6. \A i \in 1 .. c + 1 : g[i] \in {f[x] : x \in 1 .. c} \cup {k}
    BY <1>1, <1>2, <1>3, <1>4
  <1>7. \A x \in 1 .. c : f[x] \in {g[i] : i \in 1 .. c + 1}
    <2> SUFFICES ASSUME NEW x \in 1 .. c PROVE \E i \in 1 .. c + 1 : f[x] = g[i]
      OBVIOUS
    <2>1. CASE x <= p BY <1>1, <2>1
    <2>2. CASE x > p BY <1>2, <2>2
    <2> QED BY <2>1, <2>2
  <1>8. k \in {g[i] : i \in 1 .. c + 1}
    BY <1>3
  <1>9. {g[i] : i \in 1 .. c + 1} = {f[i] : i \in 1 .. c} \cup {k}
    BY <1>6, <1>7, <1>8
  <1> QED BY <1>5, <1>9

\* A full leaf, and one that another writer inserts into, is in no bump.
LEMMA NoBump ==
  ASSUME ReachInv, NEW n,
         count[n] = ChildNum \/ \E t \in Threads : pc[t] \in {"leaf", "shift"} /\ leaf[t] = n
  PROVE  ~Bumping(n) /\ Used(n) = count[n]
  <1>1. CASE count[n] = ChildNum
    <2>1. \A u \in Threads : pc[u] = "bump" => count[leaf[u]] < ChildNum
      BY DEF ReachInv, Roomy, Inserting
    <2>2. ~(ChildNum < ChildNum)
      BY SizesAssumption
    <2> QED BY <1>1, <2>1, <2>2 DEF Bumping, Used
  <1>2. CASE \E t \in Threads : pc[t] \in {"leaf", "shift"} /\ leaf[t] = n
    <2>1. PICK t \in Threads : pc[t] \in {"leaf", "shift"} /\ leaf[t] = n
      BY <1>2
    <2>2. \A u \in Threads : pc[u] = "bump" => leaf[u] # n
      BY <2>1 DEF ReachInv, WritesApart, Inserting
    <2> QED BY <2>2 DEF Bumping, Used
  <1> QED BY <1>1, <1>2

\* What one that is about to write knows.
LEMMA ShiftFacts ==
  ASSUME ReachInv, NEW t \in Threads, Shift(t)
  PROVE  LET n == leaf[t]
             c == count[n]
         IN /\ n \in Made /\ n \in Nodes /\ ~IsInner(n)
            /\ c \in Nat /\ c >= 1 /\ c < ChildNum /\ ChildNum \in Nat
            /\ key[t] \in Nat /\ pos[t] \in 1 .. c
            /\ Used(n) = c
            /\ UNCHANGED <<type, count, pointers, word, next, mine, ghost>>
            /\ pc' = [pc EXCEPT ![t] = "bump"] /\ pc[t] = "shift"
            /\ \A m \in Nodes : Used(m)' = IF m = n THEN c + 1 ELSE Used(m)
            /\ \A m \in Nodes : m # n => keys'[m] = keys[m]
            /\ keys'[n][1] = keys[n][1] /\ keys'[n][pos[t] + 1] = key[t]
            /\ \A i, j \in 1 .. c + 1 : i < j => keys'[n][i] < keys'[n][j]
            /\ KeysIn(n)' = KeysIn(n) \cup {key[t]}
            /\ key[t] \notin KeysIn(n)
  <1> DEFINE n == leaf[t]
             c == count[n]
             p == pos[t]
             k == key[t]
  <1>1. /\ pc[t] = "shift" /\ pc' = [pc EXCEPT ![t] = "bump"]
        /\ UNCHANGED <<type, count, pointers, word, next, mine, ghost>>
        /\ keys' = [keys EXCEPT ![n] = [i \in Slots |->
                         IF i = p + 1 THEN k
                         ELSE IF i \in p + 2 .. c + 1 THEN keys[n][i - 1]
                         ELSE keys[n][i]]]
        /\ ~IsInner(n) /\ c < ChildNum /\ keys[n][1] <= k
        /\ k \notin KeysIn(n) /\ p = lowerBound(n, k)
    <2>1. WriterOK(t) /\ pc[t] = "shift"
      BY DEF ReachInv, Shift
    <2>2. AtLeaf(t) /\ k \notin KeysIn(n) /\ p = lowerBound(n, k)
      BY <2>1 DEF WriterOK
    <2>3. ~(count[leaf[t]] = ChildNum)
      BY <2>2, KeysAreNumbers DEF AtLeaf, ReachInv, HoldersInv, TreeInv, TypeOK
    <2> QED BY <2>1, <2>2, <2>3 DEF Shift, AtLeaf
  <1>2. /\ TypeOK /\ n \in Nodes /\ n \in Made /\ k \in Nat /\ Made \subseteq Nodes
        /\ leaf \in [Threads -> Nodes] /\ pc \in [Threads -> PC]
    <2>1. TypeOK /\ TreeInv
      BY DEF ReachInv, HoldersInv, TreeInv
    <2>2. n \in Nodes /\ n < next
      BY <2>1, Registers
    <2> QED BY <2>1, <2>2, MadeNodes, Registers
  <1>3. c \in Nat /\ c >= 1 /\ ChildNum \in Nat /\ Slots = 1 .. ChildNum /\ \A i \in Slots : keys[n][i] \in Nat
    BY <1>2, KeysAreNumbers DEF ReachInv, Shape
  <1>4. ~Bumping(n) /\ Used(n) = c
    BY <1>1, NoBump
  <1>5. \A u \in Threads : (pc'[u] = "bump" <=> pc[u] = "bump" \/ u = t) /\ leaf'[u] = leaf[u]
    BY <1>1, <1>2
  <1>6. \A m \in Nodes : Bumping(m)' <=> Bumping(m) \/ m = n
    BY <1>1, <1>5, Zenon DEF Bumping
  <1>7. \A m \in Nodes : Used(m)' = IF m = n THEN c + 1 ELSE Used(m)
    BY <1>1, <1>6 DEF Used
  <1>8. \A m \in Nodes : m # n => keys'[m] = keys[m]
    BY <1>1, <1>2 DEF TypeOK
  <1>9. keys'[n] = [i \in Slots |-> IF i = p + 1 THEN k
                         ELSE IF i \in p + 2 .. c + 1 THEN keys[n][i - 1] ELSE keys[n][i]]
    BY <1>1, <1>2 DEF TypeOK
  <1>10. \A i \in 1 .. c + 1 : i \in Slots
    BY <1>1, <1>3
  <1>11. \A i \in 1 .. c + 1 : keys'[n][i] = IF i = p + 1 THEN k
                         ELSE IF i \in p + 2 .. c + 1 THEN keys[n][i - 1] ELSE keys[n][i]
    BY <1>9, <1>10
  <1>12. \A i, j \in 1 .. c : i < j => keys[n][i] < keys[n][j]
    BY <1>2, Sorts DEF TreeShape, ReachInv, HoldersInv
  <1>13. p \in 0 .. c /\ \A i \in 1 .. c : i <= p <=> keys[n][i] < k
    BY <1>1, <1>2, <1>12, SearchNode
  <1>14. KeysIn(n) = {keys[n][i] : i \in 1 .. c} /\ KeysIn(n)' = {keys'[n][i] : i \in 1 .. c + 1}
    <2>1. Used(n) = c /\ Used(n)' = c + 1 /\ leaf' = leaf
      BY <1>1, <1>2, <1>4, <1>7
    <2>2. \A m : KeysIn(m)' = {keys'[m][i] : i \in 1 .. Used(m)'}
      BY DEF KeysIn
    <2>3. \A m \in Nodes : m = n => KeysIn(m)' = {keys'[m][i] : i \in 1 .. c + 1}
      BY <1>2, <1>7, <2>2
    <2> QED BY <1>2, <2>1, <2>3 DEF KeysIn
  <1>15. \A i \in 1 .. c : keys[n][i] # k
    BY <1>1, <1>14
  <1>16. /\ \A i, j \in 1 .. c + 1 : i < j => keys'[n][i] < keys'[n][j]
         /\ {keys'[n][i] : i \in 1 .. c + 1} = {keys[n][i] : i \in 1 .. c} \cup {k}
    <2>1. PICK f, g : f = keys[n] /\ g = keys'[n]
      OBVIOUS
    <2>2. \A i \in 1 .. c : f[i] \in Nat /\ f[i] # k /\ (i <= p <=> f[i] < k)
      BY <1>3, <1>10, <1>13, <1>15, <2>1
    <2>3. /\ \A i, j \in 1 .. c : i < j => f[i] < f[j]
          /\ \A i \in 1 .. c + 1 : g[i] = IF i = p + 1 THEN k
                                      ELSE IF i \in p + 2 .. c + 1 THEN f[i - 1] ELSE f[i]
      BY <1>11, <1>12, <2>1, Zenon
    <2>4. Between(c, p, k, f, g)
      BY <1>2, <1>3, <1>13, <2>2, <2>3, Zenon DEF Between
    <2>5. Inserted(c, k, f, g)
      BY <2>4, BetweenInserted
    <2> QED BY <2>1, <2>5, Zenon DEF Inserted
  <1>17. p >= 1 /\ keys'[n][1] = keys[n][1] /\ keys'[n][p + 1] = k
    <2>1. 1 \in 1 .. c /\ 1 \in Slots
      BY <1>1, <1>3
    <2>2. 1 \in 1 .. c /\ keys[n][1] # k /\ keys[n][1] \in Nat
      BY <1>3, <1>15, <2>1
    <2>3. keys[n][1] < k
      BY <1>1, <1>2, <2>2
    <2>4. 1 <= p
      BY <1>13, <2>2, <2>3
    <2>5. 1 \in 1 .. c + 1 /\ p + 1 \in 1 .. c + 1 /\ 1 # p + 1 /\ 1 \notin p + 2 .. c + 1
      BY <1>3, <1>13, <2>4
    <2> QED BY <1>11, <2>4, <2>5
  <1>18. KeysIn(n)' = KeysIn(n) \cup {k}
    BY <1>14, <1>16
  <1>19. p \in 1 .. c
    BY <1>3, <1>13, <1>17
  <1>20. Used(n) = c
    BY <1>4
  <1>21. UNCHANGED <<type, count, pointers, word, next, mine, ghost>>
    BY <1>1
  <1> HIDE DEF n, c, p, k
  <1> QED BY <1>1, <1>2, <1>3, <1>7, <1>8, <1>16, <1>17, <1>18, <1>19, <1>20, <1>21, Zenon DEF n, c, p, k

LEMMA ShiftKeeps ==
  ASSUME ReachInv, NEW t \in Threads, Shift(t),
         NEW hi, BoundsOf(hi), Below(hi)
  PROVE  /\ Shape' /\ Sorted' /\ Grows /\ BoundsOf(hi)' /\ Made' = Made
         /\ \A m \in Nodes : KeysIn(m)' = IF m = leaf[t] THEN KeysIn(m) \cup {key[t]} ELSE KeysIn(m)
  <1> PICK n, c, k : n = leaf[t] /\ c = count[n] /\ k = key[t]
    OBVIOUS
  <1>1. /\ n \in Made /\ n \in Nodes /\ ~IsInner(n)
        /\ c \in Nat /\ c >= 1 /\ c < ChildNum /\ ChildNum \in Nat
        /\ k \in Nat
        /\ UNCHANGED <<type, count, pointers, next, leaf>> /\ pc[t] = "shift"
        /\ \A m \in Nodes : Used(m)' = IF m = n THEN c + 1 ELSE Used(m)
        /\ \A m \in Nodes : m # n => keys'[m] = keys[m]
        /\ keys'[n][1] = keys[n][1]
        /\ \A i, j \in 1 .. c + 1 : i < j => keys'[n][i] < keys'[n][j]
        /\ KeysIn(n)' = KeysIn(n) \cup {k}
    BY ShiftFacts
  <1>2. /\ Made' = Made /\ Made \subseteq Nodes /\ Root \in Made
        /\ \A m \in Nodes : IsInner(m)' <=> IsInner(m)
    BY <1>1, MadeNodes DEF Made, IsInner, ReachInv, HoldersInv, TreeInv
  <1>3. \A m \in Nodes : keys'[m][1] = keys[m][1]
    BY <1>1
  <1>4. \A m \in Nodes : KeysIn(m)' = IF m = n THEN KeysIn(m) \cup {k} ELSE KeysIn(m)
    <2>1. ASSUME NEW m \in Nodes, m # n PROVE KeysIn(m)' = KeysIn(m)
      <3>1. Used(m)' = Used(m) /\ keys'[m] = keys[m]
        BY <1>1, <2>1
      <3> QED BY <3>1 DEF KeysIn
    <2>2. \A m : m = n => KeysIn(m)' = KeysIn(n)'
      OBVIOUS
    <2> QED BY <1>1, <2>1, <2>2
  <1>5. Sorted'
    <2> SUFFICES ASSUME NEW m \in Made', NEW i \in 1 .. Used(m)', NEW j \in 1 .. Used(m)', i < j
                 PROVE  keys'[m][i] < keys'[m][j]
      BY DEF Sorted
    <2>1. m \in Nodes /\ m \in Made
      BY <1>2
    <2>2. CASE m = n
      <3>1. Used(m)' = c + 1
        BY <1>1, <2>1, <2>2
      <3> QED BY <1>1, <2>2, <3>1
    <2>3. CASE m # n
      <3>1. Used(m)' = Used(m) /\ keys'[m] = keys[m]
        BY <1>1, <2>1, <2>3
      <3> QED BY <2>1, <3>1 DEF ReachInv, Sorted
    <2> QED BY <2>2, <2>3
  <1>6. Shape'
    <2>1. IsInner(Root)' /\ keys'[Root][1] = Seed[1]
      BY <1>2, <1>3 DEF ReachInv, Shape
    <2>2. \A m \in Made' : count'[m] >= 1
      BY <1>1, <1>2 DEF ReachInv, Shape
    <2>3. ASSUME NEW m \in Made', IsInner(m)', NEW i \in Slots
          PROVE  pointers'[m][i] \in m + 1 .. next' - 1 /\ keys'[pointers'[m][i]][1] = keys'[m][i]
      <3>1. m \in Made /\ m \in Nodes /\ IsInner(m) /\ m # n /\ pointers' = pointers /\ next' = next
        BY <1>1, <1>2, <2>3
      <3>2. keys'[m] = keys[m]
        BY <1>1, <3>1
      <3>3. pointers[m][i] \in m + 1 .. next - 1 /\ keys[pointers[m][i]][1] = keys[m][i]
        BY <3>1 DEF ReachInv, Shape
      <3>4. pointers[m][i] \in Nodes
        <4>1. next \in 2 .. MaxNodes + 1 /\ MaxNodes \in Nat /\ m \in 1 .. MaxNodes
          BY <3>1, SizesAssumption DEF ReachInv, HoldersInv, TreeInv, TypeOK, Nodes
        <4>2. pointers[m][i] \in 1 .. MaxNodes
          BY <3>3, <4>1
        <4> QED BY <4>2 DEF Nodes
      <3> QED BY <1>3, <3>1, <3>2, <3>3, <3>4
    <2> QED BY <2>1, <2>2, <2>3 DEF Shape
  <1>7. Grows
    <2>1. next <= next'
      BY <1>1, MadeNodes DEF ReachInv, HoldersInv, TreeInv
    <2>2. \A m \in Made : IsInner(m) => keys'[m] = keys[m]
      BY <1>1, <1>2
    <2>3. \A m \in Made : keys'[m][1] = keys[m][1] /\ KeysIn(m) \subseteq KeysIn(m)'
      BY <1>2, <1>3, <1>4
    <2>4. type' = type /\ count' = count /\ pointers' = pointers
      BY <1>1
    <2> QED BY <2>1, <2>2, <2>3, <2>4, Zenon DEF Grows
  <1>8. BoundsOf(hi)'
    <2>1. ASSUME NEW m \in Made', IsInner(m)', NEW i \in Slots
          PROVE  hi[pointers'[m][i]] = IF i < ChildNum THEN hi[m] \cup {keys'[m][i + 1]} ELSE hi[m]
      <3>1. m \in Made /\ m \in Nodes /\ IsInner(m) /\ m # n /\ pointers' = pointers
        BY <1>1, <1>2, <2>1
      <3>2. keys'[m] = keys[m]
        BY <1>1, <3>1
      <3>3. hi[pointers[m][i]] = IF i < ChildNum THEN hi[m] \cup {keys[m][i + 1]} ELSE hi[m]
        BY <3>1, Zenon DEF BoundsOf
      <3> QED BY <3>1, <3>2, <3>3, Zenon
    <2>2. ASSUME NEW m \in Made', NEW i \in 1 .. Used(m)', NEW x \in hi[m]
          PROVE  keys'[m][i] <= x
      <3>1. m \in Made /\ m \in Nodes
        BY <1>2
      <3>2. CASE m = n
        <4>1. k <= x
          BY <1>1, <3>2 DEF Below
        <4>2. \A y \in KeysIn(n) : y <= x
          BY <1>1, <3>2 DEF KeysIn, BoundsOf
        <4>3. keys'[n][i] \in KeysIn(n)'
          <5>1. \A z : z = n => KeysIn(z)' = {keys'[z][j] : j \in 1 .. Used(z)'}
            BY DEF KeysIn
          <5>2. n = m => keys'[m][i] \in KeysIn(m)'
            BY <5>1
          <5>3. KeysIn(m)' = KeysIn(n) \cup {k}
            BY <1>4, <3>1, <3>2
          <5> QED BY <1>1, <3>2, <5>2, <5>3
        <4>4. keys'[n][i] \in KeysIn(n) \cup {k}
          BY <1>1, <4>3
        <4> QED BY <3>2, <4>1, <4>2, <4>4
      <3>3. CASE m # n
        <4>1. Used(m)' = Used(m) /\ keys'[m] = keys[m]
          BY <1>1, <3>1, <3>3
        <4> QED BY <3>1, <4>1 DEF BoundsOf
      <3> QED BY <3>2, <3>3
    <2> QED BY <2>1, <2>2, Zenon DEF BoundsOf
  <1> QED BY <1>2, <1>4, <1>5, <1>6, <1>7, <1>8

\* The count makes the key that has been written visible.
LEMMA BumpFacts ==
  ASSUME ReachInv, NEW t \in Threads, Bump(t)
  PROVE  /\ leaf[t] \in Made /\ leaf[t] \in Nodes /\ ~IsInner(leaf[t])
         /\ UNCHANGED <<type, keys, pointers, word, next, mine, ghost>>
         /\ pc[t] = "bump" /\ pc' = [pc EXCEPT ![t] = "insRelease"]
         /\ \A m \in Nodes : count'[m] = IF m = leaf[t] THEN count[m] + 1 ELSE count[m]
         /\ \A m \in Nodes : Used(m)' = Used(m)
         /\ Used(leaf[t]) = count[leaf[t]] + 1
  <1> PICK n : n = leaf[t]
    OBVIOUS
  <1>1. /\ TypeOK /\ TreeInv /\ n \in Nodes /\ n \in Made
        /\ pc \in [Threads -> PC] /\ leaf \in [Threads -> Nodes]
        /\ count \in [Nodes -> 0 .. ChildNum]
    <2>1. TypeOK /\ TreeInv
      BY DEF ReachInv, HoldersInv, TreeInv
    <2>2. n \in Nodes /\ n < next
      BY <2>1, Registers
    <2> QED BY <2>1, <2>2, MadeNodes, Registers DEF TypeOK
  <1>2. /\ pc[t] = "bump" /\ pc' = [pc EXCEPT ![t] = "insRelease"]
        /\ UNCHANGED <<type, keys, pointers, word, next, mine, ghost>>
        /\ count' = [count EXCEPT ![n] = @ + 1] /\ ~IsInner(n)
    <2>1. WriterOK(t) /\ pc[t] = "bump"
      BY DEF ReachInv, Bump
    <2>2. AtLeaf(t)
      BY <2>1 DEF WriterOK
    <2>3. ~(count[leaf[t]] = ChildNum)
      BY <1>1, <2>2, KeysAreNumbers DEF AtLeaf
    <2> QED BY <2>1, <2>2, <2>3 DEF Bump, AtLeaf
  <1>3. \A u \in Threads : pc[u] = "bump" /\ leaf[u] = n => u = t
    BY <1>2 DEF ReachInv, WritesApart, Inserting
  <1>4. \A u \in Threads : (pc'[u] = "bump" <=> pc[u] = "bump" /\ u # t) /\ leaf'[u] = leaf[u]
    BY <1>1, <1>2
  <1>5. Bumping(n)
    BY <1>2 DEF Bumping
  <1>6. Bumping(n) /\ \A m \in Nodes : Bumping(m)' <=> Bumping(m) /\ m # n
    <2>1. \A m \in Nodes : Bumping(m)' <=> \E u \in Threads : pc[u] = "bump" /\ u # t /\ leaf[u] = m
      BY <1>4, Zenon DEF Bumping
    <2>2. \A m \in Nodes : (\E u \in Threads : pc[u] = "bump" /\ u # t /\ leaf[u] = m) <=> Bumping(m) /\ m # n
      BY <1>3, Zenon DEF Bumping
    <2> QED BY <1>5, <2>1, <2>2, Zenon
  <1>7. \A m \in Nodes : count'[m] = IF m = n THEN count[m] + 1 ELSE count[m]
    BY <1>1, <1>2
  <1>8. \A m \in Nodes : Used(m)' = Used(m)
    BY <1>6, <1>7 DEF Used
  <1>9. Used(n) = count[n] + 1
    BY <1>1, <1>6 DEF Used
  <1> QED BY <1>1, <1>2, <1>7, <1>8, <1>9

LEMMA BumpKeeps ==
  ASSUME ReachInv, NEW t \in Threads, Bump(t),
         NEW hi, BoundsOf(hi)
  PROVE  /\ Shape' /\ Sorted' /\ Grows /\ BoundsOf(hi)' /\ Made' = Made
         /\ \A m \in Nodes : KeysIn(m)' = KeysIn(m)
  <1> PICK n : n = leaf[t]
    OBVIOUS
  <1>1. /\ n \in Made /\ n \in Nodes /\ ~IsInner(n)
        /\ UNCHANGED <<type, keys, pointers, next>>
        /\ \A m \in Nodes : count'[m] = IF m = n THEN count[m] + 1 ELSE count[m]
        /\ \A m \in Nodes : Used(m)' = Used(m)
    BY BumpFacts
  <1>2. /\ Made' = Made /\ Made \subseteq Nodes /\ Root \in Made
        /\ \A m \in Nodes : IsInner(m)' <=> IsInner(m)
        /\ \A m \in Nodes : count[m] \in Nat
    BY <1>1, MadeNodes, KeysAreNumbers DEF Made, IsInner, ReachInv, HoldersInv, TreeInv
  <1>3. \A m \in Nodes : KeysIn(m)' = KeysIn(m)
    BY <1>1 DEF KeysIn
  <1>4. Sorted'
    BY <1>1, <1>2 DEF ReachInv, Sorted
  <1>5. Shape'
    <2>1. IsInner(Root)' /\ keys'[Root][1] = Seed[1]
      BY <1>1, <1>2 DEF ReachInv, Shape
    <2>2. \A m \in Made' : count'[m] >= 1
      <3> SUFFICES ASSUME NEW m \in Made' PROVE count'[m] >= 1
        OBVIOUS
      <3>1. m \in Made /\ m \in Nodes /\ count[m] >= 1 /\ count[m] \in Nat
        BY <1>2 DEF ReachInv, Shape
      <3> QED BY <1>1, <3>1
    <2>3. ASSUME NEW m \in Made', IsInner(m)', NEW i \in Slots
          PROVE  pointers'[m][i] \in m + 1 .. next' - 1 /\ keys'[pointers'[m][i]][1] = keys'[m][i]
      <3>1. m \in Made /\ m \in Nodes /\ IsInner(m) /\ pointers' = pointers /\ next' = next /\ keys' = keys
        BY <1>1, <1>2, <2>3
      <3> QED BY <3>1 DEF ReachInv, Shape
    <2> QED BY <2>1, <2>2, <2>3 DEF Shape
  <1>6. Grows
    <2>1. next <= next'
      BY <1>1, MadeNodes DEF ReachInv, HoldersInv, TreeInv
    <2>2. \A m \in Made : IsInner(m) => count'[m] = count[m]
      BY <1>1, <1>2
    <2>3. type' = type /\ keys' = keys /\ pointers' = pointers
      BY <1>1
    <2> QED BY <1>2, <1>3, <2>1, <2>2, <2>3 DEF Grows
  <1>7. BoundsOf(hi)'
    <2>1. ASSUME NEW m \in Made', IsInner(m)', NEW i \in Slots
          PROVE  hi[pointers'[m][i]] = IF i < ChildNum THEN hi[m] \cup {keys'[m][i + 1]} ELSE hi[m]
      <3>1. m \in Made /\ IsInner(m) /\ pointers' = pointers /\ keys' = keys
        BY <1>1, <1>2, <2>1
      <3> QED BY <3>1, Zenon DEF BoundsOf
    <2>2. ASSUME NEW m \in Made', NEW i \in 1 .. Used(m)', NEW x \in hi[m]
          PROVE  keys'[m][i] <= x
      <3>1. m \in Made /\ m \in Nodes /\ Used(m)' = Used(m) /\ keys' = keys
        BY <1>1, <1>2
      <3> QED BY <3>1 DEF BoundsOf
    <2> QED BY <2>1, <2>2, Zenon DEF BoundsOf
  <1> QED BY <1>2, <1>3, <1>4, <1>5, <1>6, <1>7

\* n is a full leaf that a split makes an inner node over leaves from f on.
SplitOf(n, f) ==
  /\ n \in Made /\ n \in Nodes /\ ~IsInner(n) /\ f = next
  /\ next' = f + ChildNum /\ f \in Nat /\ f + ChildNum <= MaxNodes + 1
  /\ count[n] = ChildNum
  /\ \A m \in Nodes : IsInner(m)' <=> IsInner(m) \/ m = n
  /\ \A m \in Made : count'[m] = count[m] /\ keys'[m] = keys[m]
  /\ \A m \in Made : m # n => pointers'[m] = pointers[m] /\ type'[m] = type[m]
  /\ Used(n) = count[n] /\ \A m \in Made : Used(m)' = Used(m)
  /\ \A i \in Slots : /\ f + i - 1 \in Nodes /\ f + i - 1 \in Made'
                      /\ f + i - 1 \notin Made /\ ~IsInner(f + i - 1)'
                      /\ pointers'[n][i] = f + i - 1
                      /\ count'[f + i - 1] = 1 /\ Used(f + i - 1)' = 1
                      /\ keys'[f + i - 1][1] = keys[n][i]
  /\ \A m \in Made' : m \in Made \/ \E i \in Slots : m = f + i - 1
  /\ \A m \in Made : m \in Made'

\* Where the split leaves the thread.
SplitTo(t, n, f) ==
  \/ /\ pc' = [pc EXCEPT ![t] = "leaf"]
     /\ lowerBound(n, key[t]) \in Slots
     /\ leaf' = [leaf EXCEPT ![t] = f + lowerBound(n, key[t]) - 1]
  \/ /\ pc' = [pc EXCEPT ![t] = "insRelease"] /\ leaf' = leaf
     /\ lowerBound(n, key[t]) = 0

LEMMA SplitFacts ==
  ASSUME ReachInv, NEW t \in Threads, Split(t)
  PROVE  /\ SplitOf(node[t], next) /\ SplitTo(t, node[t], next)
         /\ UNCHANGED <<word, key, node, pos, version, ret, left, ghost>>
         /\ pc[t] = "split"
  <1> PICK n, f, C : n = node[t] /\ f = next /\ C = ChildNum
    OBVIOUS
  <1> DEFINE chosen == {i \in Slots : key[t] > keys[n][i]}
             New == f .. f + C - 1
  <1>1. /\ pc[t] = "split" /\ f + C <= MaxNodes + 1
        /\ next' = f + C
        /\ type' = [type EXCEPT ![n] = "inner"]
        /\ count' = [m \in Nodes |-> IF m \in New THEN 1 ELSE count[m]]
        /\ keys' = [m \in Nodes |-> IF m \in New
                      THEN [keys[m] EXCEPT ![1] = keys[n][m - f + 1]] ELSE keys[m]]
        /\ pointers' = [pointers EXCEPT ![n] = [i \in Slots |-> f + i - 1]]
        /\ UNCHANGED <<word, key, node, pos, version, ret, left, ghost>>
        /\ \/ /\ chosen # {}
              /\ leaf' = [leaf EXCEPT ![t] = [i \in Slots |-> f + i - 1][Cardinality(chosen)]]
              /\ pc' = [pc EXCEPT ![t] = "leaf"]
           \/ chosen = {} /\ pc' = [pc EXCEPT ![t] = "insRelease"] /\ UNCHANGED leaf
    BY DEF Split, Grown, Children
  <1>2. /\ TypeOK /\ n \in Nodes /\ n \in Made /\ ~IsInner(n) /\ count[n] = C
        /\ type \in [Nodes -> {"leaf", "inner"}]
        /\ count \in [Nodes -> 0 .. C] /\ keys \in [Nodes -> [Slots -> Nat]]
        /\ pointers \in [Nodes -> [Slots -> {Value} \cup 1 .. next - 1]]
        /\ \A m \in Nodes : IsInner(m) => m < f
        /\ pc \in [Threads -> PC] /\ key[t] \in Nat
    <2>1. TypeOK /\ TreeInv /\ WriterOK(t)
      BY DEF ReachInv, HoldersInv, TreeInv
    <2>2. n \in Nodes /\ n < next /\ key[t] \in Nat /\ pc \in [Threads -> PC]
      BY <2>1, Registers
    <2>3. ~IsInner(n) /\ count[n] = C
      BY <1>1, <2>1 DEF WriterOK, TreeInv
    <2>4. \A m \in Nodes : IsInner(m) => m < f
      BY <2>1 DEF TreeInv
    <2> QED BY <2>1, <2>2, <2>3, <2>4, MadeNodes DEF TypeOK
  <1>3. /\ C \in Nat /\ C >= 2 /\ MaxNodes \in Nat /\ Nodes = 1 .. MaxNodes /\ Slots = 1 .. C
        /\ f \in Nat /\ f >= 2 /\ f <= MaxNodes + 1 /\ n \in Nat /\ n >= 1 /\ n < f
        /\ \A m : m \in Made <=> m \in Nat /\ 1 <= m /\ m < f
        /\ \A m : m \in Made' <=> m \in Nat /\ 1 <= m /\ m < f + C
    <2>1. /\ C \in Nat /\ C >= 2 /\ MaxNodes \in Nat /\ Nodes = 1 .. MaxNodes /\ Slots = 1 .. C
          /\ f \in Nat /\ f >= 2 /\ f <= MaxNodes + 1
      BY <1>2, SizesAssumption DEF TypeOK, Nodes, Slots
    <2>2. next' = f + C /\ f = next
      BY <1>1
    <2>3. Made = 1 .. f - 1 /\ Made' = 1 .. (f + C) - 1
      BY <2>2 DEF Made
    <2>4. \A a \in Nat : \A m : m \in 1 .. a - 1 <=> m \in Nat /\ 1 <= m /\ m < a
      OBVIOUS
    <2>5. f + C \in Nat
      BY <2>1
    <2>6. \A m : m \in Made <=> m \in Nat /\ 1 <= m /\ m < f
      BY <2>1, <2>3, <2>4, Zenon
    <2>7. \A m : m \in Made' <=> m \in Nat /\ 1 <= m /\ m < f + C
      BY <2>3, <2>4, <2>5, Zenon
    <2>8. n \in Nat /\ n >= 1 /\ n < f
      BY <1>2, <2>6
    <2> QED BY <2>1, <2>6, <2>7, <2>8
  <1>4. \A m \in Made : m \notin New /\ m \in Nodes /\ m \in Made'
    BY <1>3
  <1>5. \A i \in Slots : /\ f + i - 1 \in New /\ f + i - 1 \in Nodes /\ f + i - 1 \in Made'
                         /\ f + i - 1 \notin Made /\ f + i - 1 # n /\ (f + i - 1) - f + 1 = i
    <2> SUFFICES ASSUME NEW i \in Slots
                 PROVE  /\ f + i - 1 \in New /\ f + i - 1 \in Nodes /\ f + i - 1 \in Made'
                        /\ f + i - 1 \notin Made /\ f + i - 1 # n /\ (f + i - 1) - f + 1 = i
      OBVIOUS
    <2> PICK m \in Nat : m = f + i - 1
      BY <1>3
    <2>1. i \in Nat /\ 1 <= i /\ i <= C /\ f + C <= MaxNodes + 1
      BY <1>1, <1>3
    <2>2. m >= f /\ m < f + C /\ m <= MaxNodes /\ m >= 1 /\ m - f + 1 = i
      BY <1>3, <2>1
    <2>3. m \in New /\ m \in Nodes /\ m # n
      BY <1>3, <2>2
    <2>4. m \in Made' /\ m \notin Made
      <3>1. ~(m < f)
        BY <1>3, <2>2
      <3> QED BY <1>3, <2>2, <3>1
    <2> QED BY <2>2, <2>3, <2>4
  <1>6. \A m \in Made' : m \in Made \/ \E i \in Slots : m = f + i - 1
    <2> SUFFICES ASSUME NEW m \in Made', m \notin Made PROVE \E i \in Slots : m = f + i - 1
      OBVIOUS
    <2>1. m - f + 1 \in Slots /\ m = f + (m - f + 1) - 1
      BY <1>3
    <2> QED BY <2>1
  <1>7. \A m \in Nodes : IsInner(m)' <=> IsInner(m) \/ m = n
    BY <1>1, <1>2 DEF IsInner
  <1>8. \A m \in Made : count'[m] = count[m] /\ keys'[m] = keys[m]
    <2> HIDE DEF New
    <2> QED BY <1>1, <1>4
  <1>9. \A m \in Made : m # n => pointers'[m] = pointers[m] /\ type'[m] = type[m]
    <2> HIDE DEF New
    <2> QED BY <1>1, <1>2, <1>4
  <1>10. /\ Used(n) = count[n]
         /\ \A m \in Made : Used(m)' = Used(m)
         /\ \A m \in Nodes : m \notin Made => Used(m)' = count'[m]
    <2>1. Used(n) = count[n]
      BY <1>2, NoBump
    <2>2. \A u \in Threads : (pc'[u] = "bump" <=> pc[u] = "bump") /\ (pc[u] = "bump" => leaf'[u] = leaf[u])
      <3>1. \/ pc' = [pc EXCEPT ![t] = "leaf"] /\ \A u \in Threads \ {t} : leaf'[u] = leaf[u]
            \/ pc' = [pc EXCEPT ![t] = "insRelease"] /\ leaf' = leaf
        BY <1>1, Registers DEF ReachInv, HoldersInv
      <3> QED BY <1>1, <1>2, <3>1
    <2>3. \A m \in Nodes : Bumping(m)' <=> Bumping(m)
      <3>1. \A m \in Nodes, u \in Threads :
              pc'[u] = "bump" /\ leaf'[u] = m <=> pc[u] = "bump" /\ leaf[u] = m
        BY <2>2
      <3> QED BY <3>1, Zenon DEF Bumping
    <2>4. \A u \in Threads : leaf[u] < next /\ leaf[u] \in Nodes
      BY Registers DEF ReachInv, HoldersInv
    <2>5. \A m \in Nodes : m \notin Made => ~Bumping(m)
      BY <1>3, <2>4 DEF Bumping
    <2>6. \A m \in Made : Used(m)' = Used(m)
      BY <1>4, <1>8, <2>3 DEF Used
    <2>7. \A m \in Nodes : m \notin Made => Used(m)' = count'[m]
      BY <2>3, <2>5 DEF Used
    <2> QED BY <2>1, <2>6, <2>7
  <1>11. ASSUME NEW i \in Slots
         PROVE  /\ ~IsInner(f + i - 1)' /\ pointers'[n][i] = f + i - 1
                /\ count'[f + i - 1] = 1 /\ keys'[f + i - 1][1] = keys[n][i]
    <2> PICK m : m = f + i - 1
      OBVIOUS
    <2>1. m \in New /\ m \in Nodes /\ m # n /\ m - f + 1 = i /\ m \notin Made
      BY <1>5
    <2>2. m >= f /\ m \in Nat
      BY <1>3
    <2>3. ~IsInner(m)
      BY <1>2, <1>3, <2>1, <2>2
    <2>4. ~IsInner(m)'
      BY <1>7, <2>1, <2>3
    <2> HIDE DEF New
    <2>5. pointers'[n][i] = f + i - 1
      BY <1>1, <1>2
    <2>6. count'[m] = 1
      BY <1>1, <2>1
    <2>7. keys'[m][1] = keys[n][i]
      <3>1. keys'[m] = [keys[m] EXCEPT ![1] = keys[n][m - f + 1]]
        BY <1>1, <2>1
      <3>2. 1 \in Slots /\ DOMAIN keys[m] = Slots
        BY <1>2, <1>3, <2>1
      <3> QED BY <2>1, <3>1, <3>2
    <2> QED BY <2>4, <2>5, <2>6, <2>7
  <1>12. SplitOf(n, f)
    <2>1. Used(n) = count[n] /\ \A m \in Made : Used(m)' = Used(m)
      BY <1>10
    <2>2. \A i \in Slots : Used(f + i - 1)' = 1
      <3> SUFFICES ASSUME NEW i \in Slots PROVE Used(f + i - 1)' = 1
        OBVIOUS
      <3>1. \A m \in Nodes : m = f + i - 1 => Used(m)' = count'[m]
        BY <1>5, <1>10
      <3>2. \A m \in Nodes : m = f + i - 1 => Used(m)' = Used(f + i - 1)'
        BY DEF Used, Bumping
      <3> QED BY <1>5, <1>11, <3>1, <3>2
    <2> QED BY <1>1, <1>2, <1>3, <1>4, <1>5, <1>6, <1>7, <1>8, <1>9, <1>11, <2>1, <2>2 DEF SplitOf
  <1>13. SplitTo(t, n, f)
    <2>1. lowerBound(n, key[t]) = Cardinality(chosen)
      <3>1. \A i \in Slots : keys[n][i] < key[t] <=> key[t] > keys[n][i]
        BY <1>2
      <3>2. {i \in 1 .. count[n] : keys[n][i] < key[t]} = chosen
        BY <1>2, <1>3, <3>1
      <3> QED BY <3>2 DEF lowerBound
    <2>2. chosen \subseteq 1 .. C
      BY <1>3
    <2> HIDE DEF chosen
    <2>3. Cardinality(chosen) \in 0 .. C /\ (chosen # {} => Cardinality(chosen) # 0)
      BY <1>3, <2>2, CountSlots
    <2>4. chosen = {} => Cardinality(chosen) = 0
      BY FS_EmptySet
    <2>5. chosen # {} => Cardinality(chosen) \in Slots
      BY <1>3, <2>3
    <2> QED BY <1>1, <2>1, <2>4, <2>5 DEF SplitTo
  <1> QED BY <1>1, <1>12, <1>13

LEMMA SplitGrows ==
  ASSUME ReachInv, NEW n, NEW f, SplitOf(n, f)
  PROVE  /\ Shape' /\ Sorted' /\ Grows
         /\ \A m \in Made : KeysIn(m)' = KeysIn(m)
         /\ \A i \in Slots : \A m : m = f + i - 1 => KeysIn(m)' = {keys[n][i]}
  <1>1. /\ Made \subseteq Nodes /\ Root \in Made /\ ChildNum \in Nat /\ ChildNum >= 2
        /\ Slots = 1 .. ChildNum /\ n \in Nat /\ n < f /\ f \in Nat
        /\ \A m \in Nodes : count[m] \in Nat /\ \A i \in Slots : keys[m][i] \in Nat
        /\ \A m : m \in Made <=> m \in Nat /\ 1 <= m /\ m < f
    BY MadeNodes, KeysAreNumbers DEF ReachInv, HoldersInv, TreeInv, SplitOf
  <1>2. \A m \in Made : KeysIn(m)' = KeysIn(m)
    BY DEF KeysIn, SplitOf
  <1>3. \A i \in Slots : \A m : m = f + i - 1 => KeysIn(m)' = {keys[n][i]}
    <2> SUFFICES ASSUME NEW i \in Slots, NEW m, m = f + i - 1 PROVE KeysIn(m)' = {keys[n][i]}
      OBVIOUS
    <2>1. Used(f + i - 1)' = 1 /\ keys'[f + i - 1][1] = keys[n][i]
      BY DEF SplitOf
    <2>2. Used(m)' = Used(f + i - 1)'
      BY <1>1 DEF Used, Bumping, SplitOf
    <2>3. KeysIn(m)' = {keys'[m][j] : j \in 1 .. 1}
      BY <2>1, <2>2 DEF KeysIn
    <2>4. 1 .. 1 = {1}
      OBVIOUS
    <2> QED BY <2>1, <2>3, <2>4
  <1>4. Sorted'
    <2> SUFFICES ASSUME NEW m \in Made', NEW i \in 1 .. Used(m)', NEW j \in 1 .. Used(m)', i < j
                 PROVE  keys'[m][i] < keys'[m][j]
      BY DEF Sorted
    <2>1. CASE m \in Made
      <3>1. Used(m)' = Used(m) /\ keys'[m] = keys[m]
        BY <2>1 DEF SplitOf
      <3> QED BY <2>1, <3>1 DEF ReachInv, Sorted
    <2>2. CASE m \notin Made
      <3>1. PICK l \in Slots : m = f + l - 1
        BY <2>2 DEF SplitOf
      <3>2. Used(m)' = Used(f + l - 1)' /\ Used(f + l - 1)' = 1
        BY <3>1 DEF Used, Bumping, SplitOf
      <3> QED BY <3>2
    <2> QED BY <2>1, <2>2
  <1>5. Shape'
    <2>1. IsInner(Root)' /\ keys'[Root][1] = Seed[1]
      BY <1>1 DEF ReachInv, Shape, SplitOf
    <2>2. \A m \in Made' : count'[m] >= 1
      <3> SUFFICES ASSUME NEW m \in Made' PROVE count'[m] >= 1
        OBVIOUS
      <3>1. CASE m \in Made
        BY <3>1 DEF SplitOf, ReachInv, Shape
      <3>2. CASE m \notin Made
        BY <3>2 DEF SplitOf
      <3> QED BY <3>1, <3>2
    <2>3. ASSUME NEW m \in Made', IsInner(m)', NEW i \in Slots
          PROVE  pointers'[m][i] \in m + 1 .. next' - 1 /\ keys'[pointers'[m][i]][1] = keys'[m][i]
      <3>1. m \in Made
        <4>1. \A j \in Slots : m = f + j - 1 => ~IsInner(m)'
          BY DEF SplitOf, IsInner
        <4> QED BY <2>3, <4>1 DEF SplitOf
      <3>2. CASE m = n
        <4>1. pointers'[m][i] = f + i - 1 /\ keys'[f + i - 1][1] = keys[n][i] /\ keys'[n] = keys[n]
              /\ next' = f + ChildNum
          BY <3>2 DEF SplitOf
        <4>2. f + i - 1 \in n + 1 .. (f + ChildNum) - 1
          BY <1>1
        <4> QED BY <3>2, <4>1, <4>2
      <3>3. CASE m # n
        <4>1. m \in Nodes /\ IsInner(m) /\ pointers'[m] = pointers[m] /\ keys'[m] = keys[m] /\ next = f
              /\ next' = f + ChildNum
          BY <1>1, <2>3, <3>1, <3>3 DEF SplitOf
        <4>2. pointers[m][i] \in m + 1 .. f - 1 /\ keys[pointers[m][i]][1] = keys[m][i]
          BY <3>1, <4>1 DEF ReachInv, Shape
        <4>3. m \in Nat
          BY <1>1, <3>1
        <4>4. pointers[m][i] \in Made /\ pointers[m][i] \in m + 1 .. (f + ChildNum) - 1
          <5>1. \A p \in m + 1 .. f - 1 : p \in Nat /\ 1 <= p /\ p < f /\ p \in m + 1 .. (f + ChildNum) - 1
            BY <1>1, <4>3
          <5> QED BY <1>1, <4>2, <5>1
        <4>5. keys'[pointers[m][i]] = keys[pointers[m][i]]
          BY <4>4 DEF SplitOf
        <4> QED BY <4>1, <4>2, <4>4, <4>5
      <3> QED BY <3>2, <3>3
    <2> QED BY <2>1, <2>2, <2>3 DEF Shape
  <1>6. Grows
    <2>1. next <= next'
      BY <1>1 DEF SplitOf
    <2>2. \A m \in Made : IsInner(m) => /\ type'[m] = type[m] /\ count'[m] = count[m]
                                        /\ keys'[m] = keys[m] /\ pointers'[m] = pointers[m]
      BY DEF SplitOf
    <2>3. \A m \in Made : keys'[m][1] = keys[m][1] /\ KeysIn(m) \subseteq KeysIn(m)'
      BY <1>2 DEF SplitOf
    <2> QED BY <2>1, <2>2, <2>3 DEF Grows
  <1> QED BY <1>2, <1>3, <1>4, <1>5, <1>6

\* Where the keys of a full leaf are, in order.
LEMMA FullLeaf ==
  ASSUME ReachInv, NEW n, NEW f, SplitOf(n, f), NEW k \in Nat
  PROVE  /\ lowerBound(n, k) \in 0 .. ChildNum /\ lowerBoundInner(n, k) \in 0 .. ChildNum
         /\ \A i \in Slots : /\ i <= lowerBound(n, k) <=> keys[n][i] < k
                             /\ i <= lowerBoundInner(n, k) <=> keys[n][i] <= k
         /\ \A i \in Slots : keys[n][i] \in Nat
         /\ \A i, j \in Slots : i < j => keys[n][i] < keys[n][j]
         /\ Slots = 1 .. ChildNum /\ ChildNum \in Nat /\ ChildNum >= 2 /\ 1 \in Slots
         /\ f \in Nat
  <1>1. /\ TypeOK /\ n \in Nodes /\ n \in Made /\ count[n] = ChildNum /\ TreeShape /\ f \in Nat
        /\ Slots = 1 .. ChildNum
    BY DEF ReachInv, HoldersInv, TreeInv, TreeShape, SplitOf, Slots
  <1>2. \A i, j \in 1 .. count[n] : i < j => keys[n][i] < keys[n][j]
    BY <1>1, Sorts
  <1>3. /\ lowerBound(n, k) \in 0 .. count[n]
        /\ \A i \in 1 .. count[n] : i <= lowerBound(n, k) <=> keys[n][i] < k
        /\ lowerBoundInner(n, k) \in 0 .. count[n]
        /\ \A i \in 1 .. count[n] : i <= lowerBoundInner(n, k) <=> keys[n][i] <= k
    BY <1>1, <1>2, SearchNode
  <1>4. ChildNum \in Nat /\ ChildNum >= 2 /\ 1 \in Slots /\ \A i \in Slots : keys[n][i] \in Nat
    BY <1>1, KeysAreNumbers
  <1> QED BY <1>1, <1>2, <1>3, <1>4

\* A descent that ended in a leaf ends, after its split, in the child for the
\* last of its keys that is not above k.
LEMMA SplitEnds ==
  ASSUME ReachInv, NEW n, NEW f, SplitOf(n, f), TreeShape', NEW k \in Nat,
         LeafFor(k) = n, k >= keys[n][1]
  PROVE  \E b \in Slots : \E e \in Nodes :
           /\ b = lowerBoundInner(n, k) /\ e = f + b - 1 /\ LeafFor(k)' = e
           /\ keys[n][b] <= k /\ \A i \in Slots : i > b => k < keys[n][i]
           /\ KeysIn(e)' = {keys[n][b]}
  <1> PICK b : b = lowerBoundInner(n, k)
    OBVIOUS
  <1>1. /\ b \in 0 .. ChildNum /\ \A i \in Slots : i <= b <=> keys[n][i] <= k
        /\ \A i \in Slots : keys[n][i] \in Nat
        /\ Slots = 1 .. ChildNum /\ ChildNum \in Nat /\ 1 \in Slots /\ f \in Nat
    BY FullLeaf
  <1>2. b \in Slots
    <2>1. 1 <= b
      BY <1>1
    <2> QED BY <1>1, <2>1
  <1>3. keys[n][b] <= k /\ \A i \in Slots : i > b => k < keys[n][i]
    BY <1>1, <1>2
  <1> PICK e : e = f + b - 1
    OBVIOUS
  <1>4. e \in Nodes /\ e \in Made' /\ ~IsInner(e)' /\ pointers'[n][b] = e
    <2>1. \A i \in Slots : f + i - 1 = e => ~IsInner(e)'
      BY DEF SplitOf, IsInner
    <2> QED BY <1>2, <2>1 DEF SplitOf
  <1>5. KeysIn(e)' = {keys[n][b]}
    BY <1>2, SplitGrows
  <1>6. Follows(n, k)' /\ Child(n, k)' = e
    <2>1. count'[n] = count[n] /\ keys'[n] = keys[n] /\ IsInner(n)'
      BY DEF SplitOf
    <2>2. lowerBoundInner(n, k)' = b
      BY <2>1 DEF lowerBoundInner
    <2>3. b # 0
      BY <1>1, <1>2
    <2> QED BY <1>4, <2>1, <2>2, <2>3 DEF Follows, Child
  <1>7. DescentsEnd'
    BY Descents, PTL
  <1>8. EndsAt(k)'[n] = e
    <2>1. n \in Nodes
      BY DEF SplitOf
    <2>2. EndsAt(k)'[n] = EndsAt(k)'[Child(n, k)']
      BY <1>6, <1>7, <2>1, Zenon DEF DescentsEnd
    <2>3. EndsAt(k)'[e] = e
      BY <1>4, <1>7, Zenon DEF DescentsEnd
    <2> QED BY <1>6, <2>2, <2>3
  <1>9. LeafFor(k)' = e
    <2>1. Grows /\ TreeShape
      BY SplitGrows DEF ReachInv, HoldersInv, TreeShape
    <2>2. LeafFor(k)' = EndsAt(k)'[LeafFor(k)]
      BY <2>1, EndsGrow
    <2> QED BY <1>8, <2>2
  <1> QED BY <1>2, <1>3, <1>4, <1>5, <1>9

LEMMA SplitBounds ==
  ASSUME ReachInv, NEW n, NEW f, SplitOf(n, f), NEW hi, BoundsOf(hi)
  PROVE  \E h : /\ BoundsOf(h)'
                /\ \A m \in Made : h[m] = hi[m]
                /\ \A i \in Slots : h[f + i - 1] =
                     IF i < ChildNum THEN hi[n] \cup {keys[n][i + 1]} ELSE hi[n]
  <1>1. /\ \A i \in Slots : keys[n][i] \in Nat
        /\ \A i, j \in Slots : i < j => keys[n][i] < keys[n][j]
        /\ Slots = 1 .. ChildNum /\ ChildNum \in Nat /\ f \in Nat
    BY FullLeaf, 0 \in Nat
  <1>2. /\ Made \subseteq Nodes /\ Root \in Made /\ n \in Nodes /\ n \in Made
        /\ \A i \in Slots : f + i - 1 \in Nodes /\ f + i - 1 \notin Made
    BY MadeNodes DEF ReachInv, HoldersInv, TreeInv, SplitOf
  <1>3. /\ hi \in [Nodes -> SUBSET Nat] /\ hi[Root] = {}
        /\ \A m \in Made : \A i \in 1 .. Used(m) : \A x \in hi[m] : keys[m][i] <= x
    BY DEF BoundsOf
  <1> DEFINE above(i) == IF i < ChildNum THEN hi[n] \cup {keys[n][i + 1]} ELSE hi[n]
  <1>4. \A i \in Slots : above(i) \in SUBSET Nat
    <2> SUFFICES ASSUME NEW i \in Slots PROVE above(i) \in SUBSET Nat
      OBVIOUS
    <2>1. i < ChildNum => i + 1 \in Slots
      BY <1>1
    <2> QED BY <1>1, <1>2, <1>3, <2>1
  <1> HIDE DEF above
  <1> PICK h : h = [m \in Nodes |-> IF m \in Made THEN hi[m]
                                   ELSE IF m - f + 1 \in Slots THEN above(m - f + 1) ELSE {}]
    OBVIOUS
  <1>5. \A m \in Made : h[m] = hi[m]
    BY <1>2
  <1>6. \A i \in Slots : h[f + i - 1] = above(i)
    <2> SUFFICES ASSUME NEW i \in Slots PROVE h[f + i - 1] = above(i)
      OBVIOUS
    <2>1. PICK m \in Nodes : m = f + i - 1 /\ m \notin Made
      BY <1>2
    <2>2. m - f + 1 = i
      BY <1>1, <2>1
    <2>3. h[m] = above(i)
      BY <2>1, <2>2
    <2> QED BY <2>1, <2>3
  <1>7. h \in [Nodes -> SUBSET Nat] /\ h[Root] = {}
    BY <1>2, <1>3, <1>4, <1>5
  <1>8. ASSUME NEW m \in Made', IsInner(m)', NEW i \in Slots
        PROVE  h[pointers'[m][i]] = IF i < ChildNum THEN h[m] \cup {keys'[m][i + 1]} ELSE h[m]
    <2>1. m \in Made
      <3>1. \A j \in Slots : m = f + j - 1 => ~IsInner(m)'
        BY DEF SplitOf, IsInner
      <3> QED BY <1>8, <3>1 DEF SplitOf
    <2>2. CASE m = n
      <3>1. pointers'[n][i] = f + i - 1 /\ keys'[n] = keys[n] /\ h[n] = hi[n]
        BY <1>2, <1>5 DEF SplitOf
      <3>2. h[pointers'[n][i]] = above(i)
        BY <1>6, <3>1
      <3> QED BY <2>2, <3>1, <3>2 DEF above
    <2>3. CASE m # n
      <3>1. m \in Nodes /\ IsInner(m) /\ pointers'[m] = pointers[m] /\ keys'[m] = keys[m] /\ next = f
        BY <1>2, <1>8, <2>1, <2>3 DEF SplitOf
      <3>2. hi[pointers[m][i]] = IF i < ChildNum THEN hi[m] \cup {keys[m][i + 1]} ELSE hi[m]
        BY <2>1, <3>1, Zenon DEF BoundsOf
      <3>3. pointers[m][i] \in Made
        <4>1. pointers[m][i] \in m + 1 .. next - 1 /\ m \in Nat /\ next \in Nat
          BY <2>1, <3>1, MadeNodes DEF ReachInv, HoldersInv, TreeInv, Shape
        <4> QED BY <4>1 DEF Made
      <3> QED BY <1>5, <2>1, <3>1, <3>2, <3>3, Zenon
    <2> QED BY <2>2, <2>3
  <1>9. ASSUME NEW m \in Made', NEW i \in 1 .. Used(m)', NEW x \in h[m]
        PROVE  keys'[m][i] <= x
    <2>1. CASE m \in Made
      <3>1. Used(m)' = Used(m) /\ keys'[m] = keys[m] /\ h[m] = hi[m]
        BY <1>5, <2>1 DEF SplitOf
      <3> QED BY <1>3, <2>1, <3>1
    <2>2. CASE m \notin Made
      <3>1. PICK l \in Slots : m = f + l - 1
        BY <2>2 DEF SplitOf
      <3>2. Used(m)' = Used(f + l - 1)' /\ Used(f + l - 1)' = 1 /\ keys'[f + l - 1][1] = keys[n][l]
        BY <3>1 DEF Used, Bumping, SplitOf
      <3>3. i = 1
        BY <3>2
      <3>4. x \in above(l)
        BY <1>6, <3>1
      <3>5. keys[n][l] <= x
        <4>1. CASE x \in hi[n]
          <5>1. Used(n) = ChildNum
            BY DEF SplitOf
          <5> QED BY <1>1, <1>2, <1>3, <4>1, <5>1
        <4>2. CASE l < ChildNum /\ x = keys[n][l + 1]
          <5>1. l + 1 \in Slots /\ l < l + 1
            BY <1>1, <4>2
          <5>2. keys[n][l] < keys[n][l + 1]
            BY <1>1, <5>1
          <5> QED BY <1>1, <4>2, <5>1, <5>2
        <4> QED BY <3>4, <4>1, <4>2 DEF above
      <3> QED BY <3>1, <3>2, <3>3, <3>5
    <2> QED BY <2>1, <2>2
  <1>10. BoundsOf(h)'
    BY <1>7, <1>8, <1>9, Zenon DEF BoundsOf
  <1> QED BY <1>5, <1>6, <1>10 DEF above

\* A version that has been read stays in the past.
LEMMA WordsAge ==
  ASSUME HoldersInv, NEW t \in Threads, Step(t), NEW n \in Nodes,
         NEW v \in Word, ~IsSet(v), v <= Masked(word[n]) \/ Stuck(n)
  PROVE  /\ v <= Masked(word'[n]) \/ Stuck(n)'
         /\ word[n] # v => word'[n] # v
  <1>1. /\ LockSet \in Nat /\ LockSet >= 1 /\ word \in [Nodes -> Word] /\ node[t] \in Nodes
        /\ word[n] \in Word
    BY LockSetAssumption, Registers DEF HoldersInv
  <1>2. OthersStay(t) /\ \A u \in Threads \ {t} : (Holding(u)' <=> Holding(u)) /\ node'[u] = node[u]
    BY Kinds DEF HoldersInv, OthersStay, Holding
  <1>3. ASSUME word'[n] = word[n], ~(Holding(t)' /\ node'[t] = n) \/ (Holding(t) /\ node[t] = n)
        PROVE  /\ v <= Masked(word'[n]) \/ Stuck(n)'
               /\ word[n] # v => word'[n] # v
    <2>1. Stuck(n) => Stuck(n)'
      BY <1>2, <1>3 DEF Stuck
    <2> QED BY <1>3, <2>1
  <1>4. CASE Acquires(t)
    <2>1. CASE n = node[t]
      <3>1. ~IsSet(word[n]) /\ word'[n] = WithLock(word[n])
        BY <1>1, <1>4, <2>1 DEF Acquires
      <3>2. v <= Masked(word[n])
        BY <3>1 DEF Stuck
      <3>3. IsSet(WithLock(word[n])) /\ Masked(WithLock(word[n])) = Masked(word[n])
        BY <1>1, <3>1 DEF WithLock, Masked, IsSet, Word
      <3> QED BY <3>1, <3>2, <3>3
    <2>2. CASE n # node[t]
      BY <1>1, <1>3, <1>4, <2>2 DEF Acquires
    <2> QED BY <2>1, <2>2
  <1>5. CASE GivesBack(t)
    <2>1. CASE n = node[t]
      <3>1. IsSet(word[n]) /\ word'[n] = Released(word[n]) /\ ~Stuck(n)
        BY <1>1, <1>5, <2>1 DEF GivesBack, HoldersInv, Stuck
      <3>2. v <= Masked(word[n])
        BY <3>1
      <3>3. CASE word[n] = 2 * LockSet - 1
        <4>1. Released(word[n]) = LockSet /\ IsSet(LockSet)
          BY <1>1, <3>3 DEF Released, IsSet
        <4>2. Stuck(n)'
          BY <1>2, <1>5, <2>1, <3>1, <4>1 DEF Stuck, GivesBack, HoldersInv
        <4> QED BY <3>1, <4>1, <4>2
      <3>4. CASE word[n] # 2 * LockSet - 1
        <4>1. Released(word[n]) = word[n] + 1 - LockSet /\ ~IsSet(Released(word[n]))
              /\ Masked(word[n]) = word[n] - LockSet
          BY <1>1, <3>1, <3>4 DEF Released, IsSet, Masked, Word
        <4>2. Masked(Released(word[n])) = Masked(word[n]) + 1 /\ Released(word[n]) = Masked(word[n]) + 1
          BY <1>1, <4>1 DEF Masked, Word
        <4>3. v \in Nat /\ Masked(word[n]) \in Int
          BY <1>1, <4>1 DEF Word
        <4> QED BY <3>1, <3>2, <4>2, <4>3
      <3> QED BY <3>3, <3>4
    <2>2. CASE n # node[t]
      BY <1>1, <1>3, <1>5, <2>2 DEF GivesBack
    <2> QED BY <2>1, <2>2
  <1>6. CASE Retains(t)
    BY <1>3, <1>6 DEF Retains
  <1>7. CASE GoesWithout(t) \/ Ends(t)
    BY <1>3, <1>7 DEF GoesWithout, Ends
  <1> QED BY <1>4, <1>5, <1>6, <1>7, Kinds DEF HoldersInv

LEMMA PathKept ==
  ASSUME TreeShape, TreeShape', Grows, NEW n \in Made, NEW k \in Nat,
         keys[n][1] <= k, EndsAt(k)[n] = LeafFor(k)
  PROVE  keys'[n][1] <= k /\ EndsAt(k)'[n] = LeafFor(k)'
  <1>1. keys'[n][1] = keys[n][1]
    BY DEF Grows
  <1> QED BY <1>1, EndsStay

\* The root is passed by every key asked for.
LEMMA FromRoot ==
  ASSUME TreeShape, NEW k \in Nat, k >= Seed[1]
  PROVE  /\ Root \in Made /\ keys[Root][1] <= k /\ EndsAt(k)[Root] = LeafFor(k)
         /\ LeafFor(k) \in Made /\ ~IsInner(LeafFor(k)) /\ keys[LeafFor(k)][1] <= k
  <1>1. Root \in Made /\ keys[Root][1] = Seed[1]
    BY MadeNodes DEF TreeShape, TreeInv, Shape
  <1>2. keys[Root][1] <= k
    BY <1>1
  <1>3. LeafFor(k) = EndsAt(k)[Root]
    BY EndsAtIs
  <1>4. LeafFor(k) \in Made /\ ~IsInner(LeafFor(k)) /\ keys[LeafFor(k)][1] <= k
    <2>1. EndsAt(k)[Root] \in Made /\ ~IsInner(EndsAt(k)[Root]) /\ keys[EndsAt(k)[Root]][1] <= k
      BY <1>1, <1>2, EndsInLeaf
    <2> QED BY <1>3, <2>1
  <1> QED BY <1>1, <1>2, <1>3, <1>4

\* A descent that comes by a leaf ends there.
LEMMA AtTheEnd ==
  ASSUME TreeShape, NEW k \in Nat, NEW n \in Made, ~IsInner(n), EndsAt(k)[n] = LeafFor(k)
  PROVE  LeafFor(k) = n
  BY EndsInLeaf

\* A key that can be found still can.
LEMMA KeyStays ==
  ASSUME ReachInv, TreeShape', Grows, NEW k \in Nat, k >= Seed[1],
         k \in KeysIn(LeafFor(k)),
         \/ \A m \in Nodes : IsInner(m)' <=> IsInner(m)
         \/ \E n, f : SplitOf(n, f)
  PROVE  (k \in KeysIn(LeafFor(k)))'
  <1> PICK e : e = LeafFor(k)
    OBVIOUS
  <1>1. TreeShape
    BY DEF ReachInv, HoldersInv, TreeShape
  <1>2. e \in Made /\ e \in Nodes /\ ~IsInner(e) /\ keys[e][1] <= k
    BY <1>1, FromRoot, MadeNodes DEF TreeShape, TreeInv
  <1>3. KeysIn(e) \subseteq KeysIn(e)'
    BY <1>2 DEF Grows
  <1>4. CASE ~IsInner(e)'
    <2>1. LeafFor(k)' = e
      BY <1>1, <1>2, <1>4, EndsStay
    <2>2. k \in KeysIn(e)'
      BY <1>3
    <2>3. \A m : m = LeafFor(k)' => KeysIn(m)' = KeysIn(LeafFor(k))'
      BY DEF KeysIn, Used, Bumping
    <2> QED BY <2>1, <2>2, <2>3
  <1>5. CASE IsInner(e)'
    <2>1. PICK n, f : SplitOf(n, f)
      BY <1>2, <1>5
    <2>2. n = e
      BY <1>2, <1>5, <2>1 DEF SplitOf
    <2>3. keys[n][1] <= k
      BY <1>2, <2>2
    <2>4. k >= keys[n][1]
      BY <2>3, FirstKey DEF ReachInv, HoldersInv, TreeInv, SplitOf
    <2>5. PICK b \in Slots, ee \in Nodes :
             /\ LeafFor(k)' = ee /\ keys[n][b] <= k /\ \A i \in Slots : i > b => k < keys[n][i]
             /\ KeysIn(ee)' = {keys[n][b]}
      BY <2>1, <2>2, <2>4, SplitEnds
    <2>6. PICK i \in Slots : k = keys[n][i]
      <3>1. Used(n) = ChildNum
        BY <2>1 DEF SplitOf
      <3> QED BY <2>2, <3>1 DEF KeysIn, Slots
    <2>7. keys[n][b] = k
      <3>1. /\ \A x \in Slots : keys[n][x] \in Nat
            /\ \A x, y \in Slots : x < y => keys[n][x] < keys[n][y]
            /\ \A x \in Slots : x \in Nat
        BY <2>1, FullLeaf DEF Slots
      <3>2. ~(i > b) /\ ~(i < b)
        BY <2>5, <2>6, <3>1
      <3> QED BY <2>6, <3>1, <3>2
    <2>8. k \in KeysIn(ee)'
      BY <2>5, <2>7
    <2>9. \A m : m = LeafFor(k)' => KeysIn(m)' = KeysIn(LeafFor(k))'
      BY DEF KeysIn, Used, Bumping
    <2> QED BY <2>5, <2>8, <2>9
  <1> QED BY <1>4, <1>5

\* Where a step leaves a thread is on the path of its key already.
LEMMA Standing ==
  ASSUME ReachInv, Loaded, NEW t \in Threads, Step(t), NEW u \in Threads,
         NEW hi, BoundsOf(hi), Below(hi)
  PROVE  /\ node'[u] \in Made /\ key'[u] \in Nat /\ key'[u] \in Keys /\ key'[u] >= Seed[1]
         /\ keys[node'[u]][1] <= key'[u]
         /\ EndsAt(key'[u])[node'[u]] = LeafFor(key'[u])
         /\ \A x \in hi[node'[u]] : key'[u] < x
  <1>1. TreeShape /\ TypeOK /\ TreeInv
    BY DEF ReachInv, HoldersInv, TreeShape, TreeInv
  <1>2. /\ node \in [Threads -> Nodes] /\ key \in [Threads -> Keys]
        /\ \A w \in Threads : node[w] \in Made /\ key[w] \in Nat /\ key[w] \in Keys
        /\ Keys \subseteq Nat
    BY <1>1, Registers, MadeNodes, KeysAssumption
  <1>3. \A k \in Keys : k \in Nat /\ k >= Seed[1]
    BY <1>2 DEF Loaded
  <1>4. ASSUME node'[u] = node[u], key'[u] = key[u]
        PROVE  /\ node'[u] \in Made /\ key'[u] \in Nat /\ key'[u] \in Keys /\ key'[u] >= Seed[1]
               /\ keys[node'[u]][1] <= key'[u]
               /\ EndsAt(key'[u])[node'[u]] = LeafFor(key'[u])
               /\ \A x \in hi[node'[u]] : key'[u] < x
    BY <1>2, <1>3, <1>4 DEF ReachInv, Paths, Below
  <1>5. ASSUME key'[u] = key[u], IsInner(node[u]), node'[u] = Child(node[u], key[u])
        PROVE  /\ node'[u] \in Made /\ key'[u] \in Nat /\ key'[u] \in Keys /\ key'[u] >= Seed[1]
               /\ keys[node'[u]][1] <= key'[u]
               /\ EndsAt(key'[u])[node'[u]] = LeafFor(key'[u])
               /\ \A x \in hi[node'[u]] : key'[u] < x
    <2> PICK n, k, c, b : n = node[u] /\ k = key[u] /\ c = Child(n, k) /\ b = lowerBoundInner(n, k)
      OBVIOUS
    <2>1. n \in Made /\ k \in Nat /\ k \in Keys /\ IsInner(n) /\ keys[n][1] <= k /\ EndsAt(k)[n] = LeafFor(k)
          /\ \A x \in hi[n] : k < x
      BY <1>2, <1>5 DEF ReachInv, Paths, Below
    <2>2. k >= keys[n][1]
      <3>1. keys[n][1] \in Nat
        BY <1>1, <2>1, MadeNodes, FirstKey
      <3> QED BY <2>1, <3>1
    <2>3. /\ b \in Slots /\ c \in Made /\ keys[c][1] <= k
          /\ \A i \in Slots : i > b => k < keys[n][i]
      BY <1>1, <2>1, <2>2, Descent
    <2>4. EndsAt(k)[c] = LeafFor(k)
      BY <1>1, <2>1, <2>2, EndsThroughChild
    <2>5. \A x \in hi[c] : k < x
      <3>1. hi[pointers[n][b]] = IF b < ChildNum THEN hi[n] \cup {keys[n][b + 1]} ELSE hi[n]
        BY <2>1, <2>3, Zenon DEF BoundsOf
      <3>2. c = pointers[n][b]
        BY DEF Child
      <3>3. b < ChildNum => b + 1 \in Slots /\ b + 1 > b
        BY <2>3, SizesAssumption DEF Slots
      <3> QED BY <2>1, <2>3, <3>1, <3>2, <3>3
    <2> QED BY <1>3, <1>5, <2>1, <2>3, <2>4, <2>5
  <1>6. CASE Begin(t) /\ u = t
    <2>1. node'[u] = Root /\ key'[u] \in Keys
      BY <1>2, <1>6 DEF Begin
    <2>2. PICK k \in Nat : k = key'[u] /\ k >= Seed[1] /\ k \in Keys
      BY <1>3, <2>1
    <2>3. Root \in Made /\ keys[Root][1] <= k /\ EndsAt(k)[Root] = LeafFor(k)
      BY <1>1, <2>2, FromRoot
    <2>4. hi[Root] = {}
      BY DEF BoundsOf
    <2> QED BY <2>1, <2>2, <2>3, <2>4
  <1>7. CASE InsDescend(t) /\ u = t
    <2>1. key'[u] = key[u]
      BY <1>7 DEF InsDescend
    <2>2. CASE node' = node
      BY <1>4, <2>1, <2>2
    <2>3. CASE node' # node
      <3>1. IsInner(node[t]) /\ node' = [node EXCEPT ![t] = Child(node[t], key[t])]
        BY <1>7, <2>3 DEF InsDescend, Child
      <3> QED BY <1>2, <1>5, <1>7, <2>1, <3>1
    <2> QED BY <2>2, <2>3
  <1>8. CASE (UpdDescend(t) \/ GetDescend(t)) /\ u = t
    <2>1. key'[u] = key[u]
      BY <1>8 DEF UpdDescend, GetDescend, Descend
    <2>2. CASE node' = node
      BY <1>4, <2>1, <2>2
    <2>3. CASE node' # node
      <3>1. ~(key[t] < keys[node[t]][1])
        <4>1. keys[node[t]][1] \in Nat /\ keys[node[t]][1] <= key[t] /\ key[t] \in Nat
          BY <1>1, <1>2, MadeNodes, FirstKey DEF ReachInv, Paths
        <4> QED BY <4>1
      <3>2. IsInner(node[t]) /\ node' = [node EXCEPT ![t] = Child(node[t], key[t])]
        BY <1>8, <2>3, <3>1 DEF UpdDescend, GetDescend, Descend, Child
      <3> QED BY <1>2, <1>5, <1>8, <2>1, <3>2
    <2> QED BY <2>2, <2>3
  <1>9. CASE u # t \/ ~(Begin(t) \/ InsDescend(t) \/ UpdDescend(t) \/ GetDescend(t))
    <2>1. node'[u] = node[u]
      <3>1. CASE u # t
        BY <1>1, <3>1, Kinds DEF OthersStay
      <3>2. CASE ~(Begin(t) \/ InsDescend(t) \/ UpdDescend(t) \/ GetDescend(t))
        BY <3>2 DEF Step, InsLock, InsType, Split, InsertLeaf, Shift, Bump, InsRelease, UpdLock, UpdLeaf,
                    UpdRelease, GetVersion, GetSearch, GetCheck
      <3> QED BY <1>9, <3>1, <3>2
    <2>2. key'[u] = key[u]
      <3>1. CASE Begin(t)
        BY <1>2, <1>9, <3>1 DEF Begin
      <3>2. CASE ~Begin(t)
        BY <3>2 DEF Step, InsDescend, InsLock, InsType, Split, InsertLeaf, Shift, Bump, InsRelease, UpdDescend,
                    UpdLock, UpdLeaf, UpdRelease, GetDescend, Descend, GetVersion, GetSearch, GetCheck
      <3> QED BY <3>1, <3>2
    <2> QED BY <1>4, <2>1, <2>2
  <1> QED BY <1>6, <1>7, <1>8, <1>9

\* Every step leaves a tree of the same kind that has grown.
LEMMA TreeAfter ==
  ASSUME ReachInv, NEW t \in Threads, Step(t), apart' \in BOOLEAN,
         NEW hi, BoundsOf(hi), Below(hi)
  PROVE  /\ TreeInv' /\ Shape' /\ Sorted' /\ TreeShape' /\ Grows
         /\ \/ \A m \in Nodes : IsInner(m)' <=> IsInner(m)
            \/ \E n, f : SplitOf(n, f)
         /\ \E h : /\ BoundsOf(h)' /\ \A m \in Made : h[m] = hi[m]
                   /\ Split(t) /\ pc'[t] = "leaf" => \A x \in h[leaf'[t]] : key[t] <= x
  <1>1. TreeInv'
    BY MovingKeeps, InsTypeKeeps, LeafKeeps, SplitKeeps DEF Step, ReachInv, HoldersInv
  <1>2. CASE Quiet /\ ~Split(t)
    <2>1. Shape' /\ Sorted' /\ Grows /\ BoundsOf(hi)'
      BY <1>2, QuietKeeps, QuietBounds
    <2>2. \A m \in Nodes : IsInner(m)' <=> IsInner(m)
      BY <1>2 DEF Quiet, IsInner
    <2> QED BY <1>1, <1>2, <2>1, <2>2 DEF TreeShape
  <1>3. CASE Shift(t)
    <2>1. Shape' /\ Sorted' /\ Grows /\ BoundsOf(hi)'
      BY <1>3, ShiftKeeps
    <2>2. \A m \in Nodes : IsInner(m)' <=> IsInner(m)
      BY <1>3, ShiftFacts DEF IsInner
    <2>3. ~Split(t)
      BY <1>3 DEF Shift, Split
    <2> QED BY <1>1, <2>1, <2>2, <2>3 DEF TreeShape
  <1>4. CASE Bump(t)
    <2>1. Shape' /\ Sorted' /\ Grows /\ BoundsOf(hi)'
      BY <1>4, BumpKeeps
    <2>2. \A m \in Nodes : IsInner(m)' <=> IsInner(m)
      BY <1>4, BumpFacts DEF IsInner
    <2>3. ~Split(t)
      BY <1>4 DEF Bump, Split
    <2> QED BY <1>1, <2>1, <2>2, <2>3 DEF TreeShape
  <1>5. CASE Split(t)
    <2> PICK n, f, k : n = node[t] /\ f = next /\ k = key[t]
      OBVIOUS
    <2>1. SplitOf(n, f) /\ SplitTo(t, n, f)
      BY <1>5, SplitFacts
    <2>2. Shape' /\ Sorted' /\ Grows
      BY <2>1, SplitGrows
    <2>3. PICK h : /\ BoundsOf(h)'
                   /\ \A m \in Made : h[m] = hi[m]
                   /\ \A i \in Slots : h[f + i - 1] =
                        IF i < ChildNum THEN hi[n] \cup {keys[n][i + 1]} ELSE hi[n]
      BY <2>1, SplitBounds
    <2>4. ASSUME pc'[t] = "leaf", NEW x \in h[leaf'[t]] PROVE k <= x
      <3>1. pc \in [Threads -> PC] /\ leaf \in [Threads -> Nodes] /\ k \in Nat
        BY Registers DEF ReachInv, HoldersInv
      <3> PICK j : j = lowerBound(n, k)
        OBVIOUS
      <3>2. j \in Slots /\ leaf'[t] = f + j - 1
        BY <2>1, <2>4, <3>1 DEF SplitTo
      <3>3. /\ \A i \in Slots : i <= j <=> keys[n][i] < k
            /\ \A i \in Slots : keys[n][i] \in Nat
            /\ Slots = 1 .. ChildNum /\ ChildNum \in Nat
        BY <2>1, <3>1, FullLeaf
      <3>4. CASE x \in hi[n]
        BY <3>1, <3>4 DEF Below, BoundsOf
      <3>5. CASE j < ChildNum /\ x = keys[n][j + 1]
        <4>1. j + 1 \in Slots /\ ~(j + 1 <= j)
          BY <3>2, <3>3, <3>5
        <4> QED BY <3>1, <3>3, <3>5, <4>1
      <3>6. h[f + j - 1] = IF j < ChildNum THEN hi[n] \cup {keys[n][j + 1]} ELSE hi[n]
        BY <2>3, <3>2
      <3>7. x \in h[f + j - 1]
        BY <2>4, <3>2
      <3> QED BY <3>4, <3>5, <3>6, <3>7
    <2> QED BY <1>1, <2>1, <2>2, <2>3, <2>4 DEF TreeShape
  <1>6. ~Split(t) => Quiet \/ Shift(t) \/ Bump(t)
    BY QuietSteps
  <1> QED BY <1>2, <1>3, <1>4, <1>5, <1>6

LEMMA PathsAfter ==
  ASSUME ReachInv, Loaded, NEW t \in Threads, Step(t), apart' \in BOOLEAN
  PROVE  Paths' /\ Bounded'
  <1>1. PICK hi : BoundsOf(hi) /\ Below(hi)
    BY DEF ReachInv, Bounded
  <1>2. /\ TreeShape /\ TreeShape' /\ Grows
    BY <1>1, TreeAfter DEF ReachInv, HoldersInv, TreeShape
  <1>3. \A u \in Threads : /\ node'[u] \in Made /\ key'[u] \in Nat
                           /\ keys[node'[u]][1] <= key'[u]
                           /\ EndsAt(key'[u])[node'[u]] = LeafFor(key'[u])
                           /\ \A x \in hi[node'[u]] : key'[u] < x
    BY <1>1, Standing
  <1>4. Paths'
    <2> SUFFICES ASSUME NEW u \in Threads
                 PROVE  (keys[node[u]][1] <= key[u] /\ EndsAt(key[u])[node[u]] = LeafFor(key[u]))'
      BY DEF Paths
    <2> PICK n, k : n = node'[u] /\ k = key'[u]
      OBVIOUS
    <2>1. keys'[n][1] <= k /\ EndsAt(k)'[n] = LeafFor(k)'
      BY <1>2, <1>3, PathKept
    <2>2. \A x : x = key'[u] => EndsAt(x)' = EndsAt(key[u])' /\ LeafFor(x)' = LeafFor(key[u])'
      BY DEF EndsAt, LeafFor, Follows, Child
    <2> QED BY <2>1, <2>2
  <1>5. PICK h : /\ BoundsOf(h)' /\ \A m \in Made : h[m] = hi[m]
                 /\ Split(t) /\ pc'[t] = "leaf" => \A x \in h[leaf'[t]] : key[t] <= x
    BY <1>1, TreeAfter
  <1>6. \A u \in Threads : \A x \in h[node'[u]] : key'[u] < x
    BY <1>3, <1>5
  <1>7. ASSUME NEW u \in Threads, pc'[u] \in {"leaf", "shift"}, NEW x \in h[leaf'[u]]
        PROVE  key'[u] <= x
    <2>1. \A w \in Threads : leaf[w] \in Made /\ node[w] \in Made /\ key[w] \in Nat
      BY Registers, MadeNodes DEF ReachInv, HoldersInv, TreeInv
    <2>2. DOMAIN pc = Threads /\ DOMAIN leaf = Threads /\ DOMAIN key = Threads
      BY DEF ReachInv, HoldersInv, TreeInv, TypeOK
    <2>3. CASE leaf'[u] = leaf[u] /\ key'[u] = key[u] /\ pc[u] \in {"leaf", "shift"}
      BY <1>1, <1>5, <1>7, <2>1, <2>3 DEF Below
    <2>4. CASE u = t /\ InsType(t)
      <3>1. leaf'[u] = node'[u] /\ node'[u] \in Made
        BY <1>3, <2>2, <2>4 DEF InsType
      <3>2. key'[u] < x
        BY <1>6, <1>7, <3>1
      <3>3. key'[u] \in Nat /\ x \in Nat
        <4>1. node'[u] \in Nodes
          BY <3>1, MadeNodes DEF ReachInv, HoldersInv, TreeInv
        <4>2. hi[node'[u]] \subseteq Nat
          BY <1>1, <4>1 DEF BoundsOf
        <4>3. x \in hi[node'[u]]
          BY <1>5, <1>7, <3>1
        <4> QED BY <1>3, <4>2, <4>3
      <3> QED BY <3>2, <3>3
    <2>5. CASE u = t /\ Split(t)
      <3>1. pc'[t] = "leaf" /\ key'[t] = key[t]
        BY <1>7, <2>2, <2>5 DEF Split
      <3> QED BY <1>5, <1>7, <2>5, <3>1
    <2>6. CASE u # t
      <3>1. /\ pc'[u] = pc[u] /\ leaf'[u] = leaf[u] /\ key'[u] = key[u]
        <4>1. pc'[u] = pc[u]
          BY <2>6, Kinds DEF OthersStay, ReachInv, HoldersInv
        <4>2. leaf' = leaf \/ \E y : leaf' = [leaf EXCEPT ![t] = y]
          BY DEF Step, Begin, InsDescend, InsLock, InsType, Split, InsertLeaf, Shift, Bump, InsRelease,
                 UpdDescend, UpdLock, UpdLeaf, UpdRelease, GetDescend, Descend, GetVersion, GetSearch, GetCheck
        <4>3. key' = key \/ \E y : key' = [key EXCEPT ![t] = y]
          BY DEF Step, Begin, InsDescend, InsLock, InsType, Split, InsertLeaf, Shift, Bump, InsRelease,
                 UpdDescend, UpdLock, UpdLeaf, UpdRelease, GetDescend, Descend, GetVersion, GetSearch, GetCheck
        <4> QED BY <2>2, <2>6, <4>1, <4>2, <4>3
      <3> QED BY <1>7, <2>3, <3>1
    <2>7. CASE u = t /\ ~InsType(t) /\ ~Split(t)
      <3>1. leaf' = leaf /\ (pc'[t] \in {"leaf", "shift"} => key' = key /\ pc[t] \in {"leaf", "shift"})
        BY <2>2, <2>7 DEF Step, Begin, InsDescend, InsLock, InsertLeaf, Shift, Bump, InsRelease,
               UpdDescend, UpdLock, UpdLeaf, UpdRelease, GetDescend, Descend, GetVersion, GetSearch, GetCheck
      <3> QED BY <1>7, <2>3, <2>7, <3>1
    <2> QED BY <2>4, <2>5, <2>6, <2>7
  <1>8. Below(h)'
    BY <1>6, <1>7, Zenon DEF Below
  <1> QED BY <1>4, <1>5, <1>8, Zenon DEF Bounded

\* A step changes no registers of another thread.
LEMMA Others ==
  ASSUME TreeInv, NEW t \in Threads, Step(t), NEW u \in Threads, u # t
  PROVE  /\ pc'[u] = pc[u] /\ node'[u] = node[u] /\ key'[u] = key[u] /\ leaf'[u] = leaf[u]
         /\ pos'[u] = pos[u] /\ version'[u] = version[u] /\ ret'[u] = ret[u] /\ due'[u] = due[u]
  <1>1. /\ DOMAIN leaf = Threads /\ DOMAIN key = Threads /\ DOMAIN pos = Threads
        /\ DOMAIN version = Threads /\ DOMAIN ret = Threads /\ DOMAIN due = Threads
    BY DEF TreeInv, TypeOK
  <1> USE DEF Step, Begin, InsDescend, InsLock, InsType, Split, InsertLeaf, Shift, Bump, InsRelease,
              UpdDescend, UpdLock, UpdLeaf, UpdRelease, GetDescend, Descend, GetVersion, GetSearch, GetCheck
  <1>2. pc'[u] = pc[u] /\ node'[u] = node[u]
    <2>1. OthersStay(t)
      BY Kinds
    <2> QED BY <2>1, Zenon DEF OthersStay
  <1>3. key' = key \/ \E y : key' = [key EXCEPT ![t] = y]
    OBVIOUS
  <1>4. leaf' = leaf \/ \E y : leaf' = [leaf EXCEPT ![t] = y]
    OBVIOUS
  <1>5. pos' = pos \/ \E y : pos' = [pos EXCEPT ![t] = y]
    OBVIOUS
  <1>6. version' = version \/ \E y : version' = [version EXCEPT ![t] = y]
    OBVIOUS
  <1>7. ret' = ret \/ \E y : ret' = [ret EXCEPT ![t] = y]
    OBVIOUS
  <1>8. due' = due \/ \E y : due' = [due EXCEPT ![t] = y]
    OBVIOUS
  <1> QED BY <1>1, <1>2, <1>3, <1>4, <1>5, <1>6, <1>7, <1>8

LEMMA CompletedGrows ==
  ASSUME NEW t \in Threads, Step(t)
  PROVE  completed' = completed \/ (InsRelease(t) /\ completed' = completed \cup {key[t]})
  <1>1. CASE InsRelease(t)
    BY <1>1 DEF InsRelease
  <1>2. CASE ~InsRelease(t)
    BY <1>2 DEF Step, Begin, InsDescend, InsLock, InsType, Split, InsertLeaf, Shift, Bump,
         UpdDescend, UpdLock, UpdLeaf, UpdRelease, GetDescend, Descend, GetVersion, GetSearch, GetCheck
  <1> QED BY <1>1, <1>2

LEMMA StoredAfter ==
  ASSUME ReachInv, Loaded, NEW t \in Threads, Step(t), apart' \in BOOLEAN
  PROVE  Stored'
  <1>1. PICK hi : BoundsOf(hi) /\ Below(hi)
    BY DEF ReachInv, Bounded
  <1>2. /\ TreeShape' /\ Grows
        /\ (\A m \in Nodes : IsInner(m)' <=> IsInner(m)) \/ \E n, f : SplitOf(n, f)
    BY <1>1, TreeAfter
  <1>3. completed \subseteq Nat /\ key[t] \in Nat /\ key[t] >= Seed[1]
    <2>1. key[t] \in Keys /\ key[t] \in Nat /\ completed \subseteq Nat
      BY Registers DEF ReachInv, HoldersInv
    <2> QED BY <2>1 DEF Loaded
  <1>4. ASSUME NEW k \in completed' PROVE k \in Nat /\ k >= Seed[1] /\ k \in KeysIn(LeafFor(k))
    <2>1. CASE k \in completed
      BY <1>3, <2>1 DEF ReachInv, Stored
    <2>2. CASE k \notin completed
      <3>1. InsRelease(t) /\ k = key[t]
        BY <1>4, <2>2, CompletedGrows
      <3>2. key[t] \in KeysIn(LeafFor(key[t]))
        BY <3>1 DEF ReachInv, WriterOK, InsRelease
      <3> QED BY <1>3, <3>1, <3>2
    <2> QED BY <2>1, <2>2
  <1>5. ASSUME NEW k \in completed' PROVE (k \in KeysIn(LeafFor(k)))'
    BY <1>2, <1>4, KeyStays
  <1> QED BY <1>4, <1>5 DEF Stored

-----------------------------------------------------------------------------
(* The writers.                                                            *)

\* What a step changes of the thread that takes it.
LEMMA AfterStep ==
  ASSUME ReachInv, Loaded, NEW t \in Threads, Step(t), apart' \in BOOLEAN
  PROVE  /\ TreeShape /\ TreeShape' /\ Grows /\ TreeInv
         /\ DOMAIN pc = Threads /\ DOMAIN leaf = Threads /\ DOMAIN node = Threads /\ DOMAIN pos = Threads
         /\ DOMAIN version = Threads /\ DOMAIN ret = Threads /\ DOMAIN due = Threads /\ DOMAIN key = Threads
         /\ \A u \in Threads : /\ node[u] \in Made /\ leaf[u] \in Made /\ node[u] \in Nodes /\ leaf[u] \in Nodes
                               /\ key[u] \in Nat /\ key[u] >= Seed[1]
                               /\ keys[node[u]][1] <= key[u] /\ EndsAt(key[u])[node[u]] = LeafFor(key[u])
                               /\ LeafFor(key[u]) \in Made /\ LeafFor(key[u]) \in Nodes
                               /\ ~IsInner(LeafFor(key[u]))
                               /\ ~IsInner(node[u]) => LeafFor(key[u]) = node[u]
  <1>1. PICK hi : BoundsOf(hi) /\ Below(hi)
    BY DEF ReachInv, Bounded
  <1>2. /\ TreeShape /\ TreeShape' /\ Grows /\ TreeInv
    BY <1>1, TreeAfter DEF ReachInv, HoldersInv, TreeShape
  <1>3. /\ DOMAIN pc = Threads /\ DOMAIN leaf = Threads /\ DOMAIN node = Threads /\ DOMAIN pos = Threads
        /\ DOMAIN version = Threads /\ DOMAIN ret = Threads /\ DOMAIN due = Threads /\ DOMAIN key = Threads
    BY <1>2 DEF TreeInv, TypeOK
  <1>4. \A u \in Threads : /\ node[u] \in Made /\ leaf[u] \in Made /\ node[u] \in Nodes /\ leaf[u] \in Nodes
                           /\ key[u] \in Nat /\ key[u] >= Seed[1]
    BY <1>2, Registers, MadeNodes DEF TreeInv, Loaded
  <1>5. \A u \in Threads : keys[node[u]][1] <= key[u] /\ EndsAt(key[u])[node[u]] = LeafFor(key[u])
    BY DEF ReachInv, Paths
  <1>6. \A u \in Threads : LeafFor(key[u]) \in Made /\ LeafFor(key[u]) \in Nodes /\ ~IsInner(LeafFor(key[u]))
    BY <1>2, <1>4, FromRoot, MadeNodes DEF TreeInv
  <1>7. \A u \in Threads : ~IsInner(node[u]) => LeafFor(key[u]) = node[u]
    BY <1>2, <1>4, <1>5, AtTheEnd
  <1> QED BY <1>2, <1>3, <1>4, <1>5, <1>6, <1>7

\* A key that can be found still can.
LEMMA FoundStill ==
  ASSUME ReachInv, Loaded, NEW t \in Threads, Step(t), apart' \in BOOLEAN,
         NEW u \in Threads, NEW k, k = key[u], k \in KeysIn(LeafFor(k))
  PROVE  (k \in KeysIn(LeafFor(k)))'
  <1>1. PICK hi : BoundsOf(hi) /\ Below(hi)
    BY DEF ReachInv, Bounded
  <1>2. /\ TreeShape' /\ Grows
        /\ (\A m \in Nodes : IsInner(m)' <=> IsInner(m)) \/ \E n, f : SplitOf(n, f)
    BY <1>1, TreeAfter
  <1>3. k \in Nat /\ k >= Seed[1]
    BY AfterStep
  <1> QED BY <1>2, <1>3, KeyStays

\* The leaf that a writer inserts into, the others leave alone.
LEMMA Aside ==
  ASSUME ReachInv, Loaded, NEW t \in Threads, Step(t), apart' \in BOOLEAN,
         NEW u \in Threads, u # t, pc[u] \in Inserting,
         NEW l, l = leaf[u], NEW k, k = key[u], ~IsInner(l)'
  PROVE  /\ count'[l] = count[l] /\ keys'[l] = keys[l] /\ KeysIn(l)' = KeysIn(l)
         /\ LeafFor(k)' = l <=> LeafFor(k) = l
  <1>1. /\ l \in Made /\ l \in Nodes /\ k \in Nat /\ TreeShape /\ TreeShape' /\ Grows
    BY AfterStep
  <1>2. count'[l] = count[l] /\ keys'[l] = keys[l] /\ KeysIn(l)' = KeysIn(l)
    <2>1. CASE Quiet
      BY <1>1, <2>1, QuietKeeps DEF Quiet
    <2>2. CASE Shift(t)
      <3>1. l # leaf[t]
        BY <2>2 DEF ReachInv, WritesApart, Shift, Inserting
      <3>2. count'[l] = count[l] /\ keys'[l] = keys[l] /\ Used(l)' = Used(l)
        BY <1>1, <2>2, <3>1, ShiftFacts
      <3> QED BY <3>2 DEF KeysIn
    <2>3. CASE Bump(t)
      <3>1. l # leaf[t]
        BY <2>3 DEF ReachInv, WritesApart, Bump, Inserting
      <3>2. count'[l] = count[l] /\ keys'[l] = keys[l] /\ Used(l)' = Used(l)
        BY <1>1, <2>3, <3>1, BumpFacts
      <3> QED BY <3>2 DEF KeysIn
    <2>4. CASE Split(t)
      <3>1. SplitOf(node[t], next)
        BY <2>4, SplitFacts
      <3>2. count'[l] = count[l] /\ keys'[l] = keys[l] /\ Used(l)' = Used(l)
        BY <1>1, <3>1 DEF SplitOf
      <3> QED BY <3>2 DEF KeysIn
    <2> QED BY <2>1, <2>2, <2>3, <2>4, QuietSteps
  <1>3. LeafFor(k) = l => LeafFor(k)' = l
    BY <1>1, EndsStay
  <1>4. ASSUME LeafFor(k)' = l PROVE LeafFor(k) = l
    <2> PICK e : e = LeafFor(k)
      OBVIOUS
    <2>1. e \in Made /\ e \in Nodes /\ ~IsInner(e) /\ k >= Seed[1] /\ keys[e][1] <= k
      BY <1>1, AfterStep, FromRoot
    <2>2. CASE ~IsInner(e)'
      BY <1>1, <1>4, <2>1, <2>2, EndsStay
    <2>3. CASE IsInner(e)'
      <3>1. PICK hi : BoundsOf(hi) /\ Below(hi)
        BY DEF ReachInv, Bounded
      <3>2. PICK n, f : SplitOf(n, f)
        BY <2>1, <2>3, <3>1, TreeAfter
      <3>3. n = e
        BY <2>1, <2>3, <3>2 DEF SplitOf
      <3>4. k >= keys[n][1]
        BY <1>1, <2>1, <3>3, FirstKey DEF TreeShape, TreeInv
      <3>5. PICK b \in Slots, ee \in Nodes : ee = f + b - 1 /\ LeafFor(k)' = ee
        BY <1>1, <3>2, <3>3, <3>4, SplitEnds
      <3>6. f + b - 1 \notin Made
        BY <3>2, <3>5 DEF SplitOf
      <3> QED BY <1>1, <1>4, <3>5, <3>6
    <2> QED BY <2>2, <2>3
  <1> QED BY <1>2, <1>3, <1>4

\* What the others know is not disturbed.
LEMMA WriterKept ==
  ASSUME ReachInv, Loaded, NEW t \in Threads, Step(t), apart' \in BOOLEAN, Roomy',
         NEW u \in Threads, u # t
  PROVE  WriterOK(u)'
  <1> PICK n, l, k, p : n = node[u] /\ l = leaf[u] /\ k = key[u] /\ p = pos[u]
    OBVIOUS
  <1>1. /\ pc'[u] = pc[u] /\ node'[u] = n /\ leaf'[u] = l /\ key'[u] = k /\ pos'[u] = p
    BY Others DEF ReachInv, HoldersInv
  <1>2. WriterOK(u)
    BY DEF ReachInv
  <1>3. /\ LeafFor(key[u])' = LeafFor(k)' /\ KeysIn(LeafFor(key[u]))' = KeysIn(LeafFor(k))'
        /\ KeysIn(leaf[u])' = KeysIn(l)' /\ (IsInner(leaf[u])' <=> IsInner(l)')
        /\ lowerBound(leaf[u], key[u])' = lowerBound(l, k)'
    <2>1. \A x : x = key'[u] => LeafFor(x)' = LeafFor(key[u])'
      BY DEF LeafFor
    <2>2. LeafFor(key[u])' = LeafFor(k)'
      BY <1>1, <2>1
    <2>3. \A x : x = LeafFor(key[u])' => KeysIn(x)' = KeysIn(LeafFor(key[u]))'
      BY DEF KeysIn, Used, Bumping
    <2>4. \A x : x = LeafFor(k)' => KeysIn(x)' = KeysIn(LeafFor(k))'
      BY DEF KeysIn, Used, Bumping
    <2>5. \A x : x = leaf'[u] => KeysIn(x)' = KeysIn(leaf[u])' /\ (IsInner(x)' <=> IsInner(leaf[u])')
      BY DEF KeysIn, Used, Bumping, IsInner
    <2>6. lowerBound(leaf[u], key[u])' = lowerBound(l, k)'
      BY <1>1 DEF lowerBound
    <2> QED BY <1>1, <2>2, <2>3, <2>4, <2>5, <2>6
  <1>4. CASE pc[u] \notin Inserting \cup {"insRelease"}
    <2>1. pc[u] \in {"split", "updLock", "updLeaf"} => ~IsInner(node[u])'
      BY <1>1 DEF Roomy
    <2> QED BY <1>1, <1>2, <1>4, <2>1 DEF WriterOK, Inserting
  <1>5. CASE pc[u] = "insRelease"
    <2>1. (k \in KeysIn(LeafFor(k)))'
      BY <1>2, <1>5, FoundStill DEF WriterOK
    <2> QED BY <1>1, <1>3, <1>5, <2>1 DEF WriterOK
  <1>6. CASE pc[u] \in Inserting
    <2>1. ~IsInner(l)' /\ count'[l] < ChildNum
      BY <1>1, <1>3, <1>6 DEF Roomy
    <2>2. /\ count'[l] = count[l] /\ keys'[l] = keys[l] /\ KeysIn(l)' = KeysIn(l)
          /\ LeafFor(k)' = l <=> LeafFor(k) = l
      BY <1>6, <2>1, Aside
    <2>3. AtLeaf(u)
      BY <1>2, <1>6 DEF WriterOK, Inserting
    <2>4. LeafFor(k)' = l \/ (k \in KeysIn(LeafFor(k)))'
      BY <2>2, <2>3, FoundStill DEF AtLeaf
    <2>5. AtLeaf(u)'
      BY <1>1, <1>3, <2>1, <2>2, <2>3, <2>4 DEF AtLeaf
    <2>6. CASE pc[u] = "leaf"
      BY <1>1, <2>5, <2>6 DEF WriterOK
    <2>7. CASE pc[u] = "shift"
      <3>1. lowerBound(l, k)' = lowerBound(l, k)
        BY <2>2 DEF lowerBound
      <3> QED BY <1>1, <1>2, <1>3, <2>2, <2>5, <2>7, <3>1 DEF WriterOK
    <2>8. CASE pc[u] = "bump"
      <3>1. ASSUME LeafFor(k)' = l PROVE k \notin completed'
        <4>1. LeafFor(k) = l /\ k \notin completed
          BY <1>2, <2>2, <2>8, <3>1 DEF WriterOK
        <4>2. ~(InsRelease(t) /\ key[t] = k)
          BY <2>8, <4>1 DEF ReachInv, Sole, InsRelease
        <4> QED BY <4>1, <4>2, CompletedGrows
      <3> QED BY <1>1, <1>2, <1>3, <2>2, <2>5, <2>8, <3>1 DEF WriterOK
    <2> QED BY <1>6, <2>6, <2>7, <2>8 DEF Inserting
  <1> QED BY <1>4, <1>5, <1>6

\* Of the writers of one key one writes it where it belongs.
LEMMA SoleAfter ==
  ASSUME ReachInv, Loaded, NEW t \in Threads, Step(t), apart' \in BOOLEAN, WritesApart', Roomy',
         NEW w \in Threads
  PROVE  Sole(w)'
  <1> PICK l, k : l = leaf'[w] /\ k = key'[w]
    OBVIOUS
  <1> SUFFICES ASSUME pc'[w] = "bump", LeafFor(k)' = l,
                      NEW u \in Threads \ {w}, key'[u] = k, pc'[u] \in Inserting \cup {"insRelease"}
               PROVE  FALSE
    <2>1. \A x : x = key'[w] => LeafFor(x)' = LeafFor(key[w])'
      BY DEF LeafFor
    <2>2. LeafFor(key[w])' = LeafFor(k)'
      BY <2>1
    <2> QED BY <2>2 DEF Sole
  <1>1. \A x \in Threads : x # t => pc'[x] = pc[x] /\ key'[x] = key[x] /\ leaf'[x] = leaf[x]
    BY Others DEF ReachInv, HoldersInv
  <1>2. /\ DOMAIN pc = Threads /\ DOMAIN leaf = Threads
        /\ TreeShape /\ TreeShape' /\ Grows
    BY AfterStep
  <1>3. CASE w = t
    <2>1. Shift(t)
      BY <1>2, <1>3 DEF Step, Begin, InsDescend, InsLock, InsType, Split, InsertLeaf, Bump, InsRelease,
           UpdDescend, UpdLock, UpdLeaf, UpdRelease, GetDescend, Descend, GetVersion, GetSearch, GetCheck
    <2>2. l = leaf[t] /\ k = key[t] /\ k \notin KeysIn(l) /\ type' = type
      BY <1>3, <2>1, ShiftFacts
    <2>3. LeafFor(k) = l
      <3> PICK e : e = LeafFor(k)
        OBVIOUS
      <3>1. e \in Made /\ ~IsInner(e) /\ k \in Nat
        BY <2>2, AfterStep
      <3>2. ~IsInner(e)'
        BY <2>2, <3>1 DEF IsInner
      <3> QED BY <1>2, <3>1, <3>2, EndsStay
    <2>4. u # t /\ key[u] = k /\ pc[u] \in Inserting \cup {"insRelease"} /\ WriterOK(u)
      BY <1>1, <1>3 DEF ReachInv
    <2>5. pc[u] \in Inserting /\ LeafFor(k) = leaf[u]
      BY <2>2, <2>3, <2>4 DEF WriterOK, AtLeaf, Inserting
    <2>6. leaf[u] = leaf[t] /\ pc[t] \in Inserting
      BY <2>1, <2>2, <2>3, <2>5 DEF Shift, Inserting
    <2>7. ~(pc[t] \in Inserting /\ pc[u] \in Inserting /\ leaf[t] = leaf[u])
      BY <2>4 DEF ReachInv, WritesApart
    <2> QED BY <2>5, <2>6, <2>7
  <1>4. CASE w # t
    <2>1. pc[w] = "bump" /\ leaf[w] = l /\ key[w] = k
      BY <1>1, <1>4
    <2>2. ~IsInner(l)'
      <3>1. ~IsInner(leaf[w])'
        BY DEF Roomy, Inserting
      <3>2. \A x : x = leaf'[w] => (IsInner(x)' <=> IsInner(leaf[w])')
        BY DEF IsInner
      <3> QED BY <3>1, <3>2
    <2>3. LeafFor(k) = l
      BY <1>4, <2>1, <2>2, Aside DEF Inserting
    <2>4. \A x \in Threads \ {w} : key[x] = k => pc[x] \notin Inserting \cup {"insRelease"}
      BY <2>1, <2>3 DEF ReachInv, Sole
    <2>5. u = t
      BY <1>1, <2>4
    <2>6. key[t] = k /\ pc[t] \notin Inserting
      <3>1. key'[t] = key[t]
        BY <1>2, <2>5 DEF Step, Begin, InsDescend, InsLock, InsType, Split, InsertLeaf, Shift, Bump, InsRelease,
           UpdDescend, UpdLock, UpdLeaf, UpdRelease, GetDescend, Descend, GetVersion, GetSearch, GetCheck,
           Inserting
      <3> QED BY <2>4, <2>5, <3>1
    <2>7. InsType(t) \/ Split(t)
      BY <1>2, <2>5, <2>6 DEF Step, Begin, InsDescend, InsLock, InsertLeaf, Shift, Bump, InsRelease,
           UpdDescend, UpdLock, UpdLeaf, UpdRelease, GetDescend, Descend, GetVersion, GetSearch, GetCheck,
           Inserting
    <2>8. CASE InsType(t)
      <3>1. ~IsInner(node[t]) /\ leaf'[t] = node[t] /\ pc'[t] \in Inserting
        BY <1>2, <2>5, <2>8 DEF InsType, Inserting
      <3>2. LeafFor(k) = node[t]
        BY <2>6, <3>1, AfterStep
      <3> QED BY <1>4, <2>3, <3>1, <3>2 DEF WritesApart, Inserting
    <2>9. CASE Split(t)
      <3>1. ~IsInner(node[t]) /\ count[node[t]] = ChildNum
        BY <2>9, SplitFacts DEF SplitOf
      <3>2. node[t] = l
        BY <2>3, <2>6, <3>1, AfterStep
      <3>3. count[l] < ChildNum
        BY <2>1 DEF ReachInv, Roomy, Inserting
      <3> QED BY <3>1, <3>2, <3>3, SizesAssumption
    <2> QED BY <2>7, <2>8, <2>9
  <1> QED BY <1>3, <1>4

\* A thread that has not changed the tree.
LEMMA QuietLeaf ==
  ASSUME ReachInv, Loaded, NEW t \in Threads, Step(t), apart' \in BOOLEAN, Quiet,
         NEW k, k = key[t], key'[t] = k, NEW l \in Nodes, leaf'[t] = l
  PROVE  /\ LeafFor(key[t])' = LeafFor(k)
         /\ KeysIn(LeafFor(key[t]))' = KeysIn(LeafFor(k))
         /\ KeysIn(leaf[t])' = KeysIn(l) /\ (IsInner(leaf[t])' <=> IsInner(l))
         /\ count' = count /\ keys' = keys
         /\ lowerBound(leaf[t], key[t])' = lowerBound(l, k)
  <1> PICK e : e = LeafFor(k)
    OBVIOUS
  <1>1. /\ \A m \in Nodes : (IsInner(m)' <=> IsInner(m)) /\ KeysIn(m)' = KeysIn(m)
        /\ count' = count /\ keys' = keys
    BY QuietKeeps DEF Quiet, IsInner
  <1>2. e \in Made /\ e \in Nodes /\ ~IsInner(e) /\ k \in Nat /\ TreeShape /\ TreeShape' /\ Grows
    BY AfterStep
  <1>3. LeafFor(k)' = e
    BY <1>1, <1>2, EndsStay
  <1>4. LeafFor(key[t])' = e
    <2>1. \A x : x = key'[t] => LeafFor(x)' = LeafFor(key[t])'
      BY DEF LeafFor
    <2> QED BY <1>3, <2>1
  <1>5. KeysIn(LeafFor(key[t]))' = KeysIn(e)
    <2>1. \A x : x = LeafFor(key[t])' => KeysIn(x)' = KeysIn(LeafFor(key[t]))'
      BY DEF KeysIn, Used, Bumping
    <2> QED BY <1>1, <1>2, <1>4, <2>1
  <1>6. KeysIn(leaf[t])' = KeysIn(l) /\ (IsInner(leaf[t])' <=> IsInner(l))
    <2>1. \A x : x = leaf'[t] => KeysIn(x)' = KeysIn(leaf[t])' /\ IsInner(x)' = IsInner(leaf[t])'
      BY DEF KeysIn, Used, Bumping, IsInner
    <2> QED BY <1>1, <2>1
  <1>7. lowerBound(leaf[t], key[t])' = lowerBound(l, k)
    BY <1>1 DEF lowerBound
  <1> QED BY <1>1, <1>4, <1>5, <1>6, <1>7

\* No descent reads a pointer that is not one to a node.
LEMMA DescendsWell ==
  ASSUME ReachInv, Loaded, NEW t \in Threads, Step(t), apart' \in BOOLEAN
  PROVE  /\ InsDescend(t) => pc'[t] \in {"idle", "insDescend", "insLock"}
         /\ UpdDescend(t) => pc'[t] = "updDescend" \/ (pc'[t] = "updLock" /\ ~IsInner(node[t]) /\ node' = node)
         /\ GetDescend(t) => \/ pc'[t] = "getDescend"
                             \/ pc'[t] = "getVersion" /\ ~IsInner(node[t]) /\ node' = node
  <1> PICK n, k : n = node[t] /\ k = key[t]
    OBVIOUS
  <1>1. /\ TreeShape /\ DOMAIN pc = Threads /\ n \in Made /\ n \in Nodes /\ k \in Nat /\ keys[n][1] <= k
        /\ TreeInv
    BY AfterStep
  <1>2. ~(k < keys[n][1]) /\ k >= keys[n][1]
    BY <1>1, FirstKey DEF TreeInv
  <1>3. IsInner(n) => pointers[n][lowerBoundInner(n, k)] # Value
    BY <1>1, <1>2, Descent DEF Child
  <1>4. InsDescend(t) => pc'[t] \in {"idle", "insDescend", "insLock"}
    BY <1>1, <1>3 DEF InsDescend
  <1>5. UpdDescend(t) => pc'[t] = "updDescend" \/ (pc'[t] = "updLock" /\ ~IsInner(node[t]) /\ node' = node)
    BY <1>1, <1>2, <1>3 DEF UpdDescend, Descend
  <1>6. GetDescend(t) => \/ pc'[t] = "getDescend"
                         \/ pc'[t] = "getVersion" /\ ~IsInner(node[t]) /\ node' = node
    BY <1>1, <1>2, <1>3 DEF GetDescend, Descend
  <1> QED BY <1>4, <1>5, <1>6

LEMMA InsTypeWrites ==
  ASSUME ReachInv, Loaded, NEW t \in Threads, Step(t), apart' \in BOOLEAN, InsType(t)
  PROVE  WriterOK(t)'
  <1> PICK n, k : n = node[t] /\ k = key[t]
    OBVIOUS
  <1>1. /\ DOMAIN pc = Threads /\ DOMAIN leaf = Threads /\ n \in Nodes /\ n \in Made /\ TreeInv
        /\ keys[n][1] <= k /\ (~IsInner(n) => LeafFor(k) = n)
    BY AfterStep
  <1>2. Quiet
    <2>1. ~Shift(t) /\ ~Bump(t) /\ ~Split(t)
      BY DEF InsType, Shift, Bump, Split
    <2> QED BY <2>1, QuietSteps
  <1>3. /\ leaf'[t] = n /\ node'[t] = n /\ key'[t] = k /\ pc[t] = "insType"
        /\ \/ IsInner(n) /\ pc'[t] = "insDescend"
           \/ ~IsInner(n) /\ count[n] = ChildNum /\ pc'[t] = "split"
           \/ ~IsInner(n) /\ count[n] # ChildNum /\ pc'[t] = "leaf"
    BY <1>1 DEF InsType
  <1>4. /\ LeafFor(key[t])' = LeafFor(k)
        /\ (IsInner(leaf[t])' <=> IsInner(n)) /\ count' = count /\ keys' = keys
    BY <1>1, <1>2, <1>3, QuietLeaf
  <1>5. IsInner(node[t])' <=> IsInner(leaf[t])'
    BY <1>3 DEF IsInner
  <1>6. ~IsInner(n) /\ count[n] # ChildNum => AtLeaf(t)'
    <2>1. count[n] \in Nat /\ count[n] <= ChildNum /\ ChildNum \in Nat
      BY <1>1, KeysAreNumbers DEF TreeInv
    <2>2. count[n] # ChildNum => count[n] < ChildNum
      BY <2>1
    <2> QED BY <1>1, <1>3, <1>4, <2>2 DEF AtLeaf
  <1> QED BY <1>3, <1>4, <1>5, <1>6 DEF WriterOK

LEMMA InsertLeafWrites ==
  ASSUME ReachInv, Loaded, NEW t \in Threads, Step(t), apart' \in BOOLEAN, InsertLeaf(t)
  PROVE  WriterOK(t)'
  <1> PICK l, k : l = leaf[t] /\ k = key[t]
    OBVIOUS
  <1>1. /\ DOMAIN pc = Threads /\ DOMAIN pos = Threads /\ l \in Nodes /\ l \in Made /\ TreeInv
    BY AfterStep
  <1>2. Quiet
    <2>1. ~Shift(t) /\ ~Bump(t) /\ ~Split(t)
      BY DEF InsertLeaf, Shift, Bump, Split
    <2> QED BY <2>1, QuietSteps
  <1>3. pc[t] = "leaf" /\ WriterOK(t) /\ leaf' = leaf /\ node' = node /\ key' = key
    BY DEF ReachInv, InsertLeaf
  <1>4. AtLeaf(t)
    BY <1>3 DEF WriterOK
  <1>5. ~(count[l] >= ChildNum) /\ ~IsInner(l)
    BY <1>1, <1>4, KeysAreNumbers DEF AtLeaf, TreeInv
  <1>6. pc'[t] = (IF Found(l, k) THEN "insRelease" ELSE "shift") /\ pos'[t] = lowerBound(l, k)
    BY <1>1, <1>5 DEF InsertLeaf
  <1>7. /\ LeafFor(key[t])' = LeafFor(k)
        /\ KeysIn(LeafFor(key[t]))' = KeysIn(LeafFor(k))
        /\ KeysIn(leaf[t])' = KeysIn(l) /\ (IsInner(leaf[t])' <=> IsInner(l))
        /\ count' = count /\ keys' = keys
        /\ lowerBound(leaf[t], key[t])' = lowerBound(l, k)
    BY <1>1, <1>2, <1>3, QuietLeaf
  <1>8. Found(l, k) <=> k \in KeysIn(l)
    <2>1. Used(l) = count[l]
      BY <1>3, NoBump
    <2> QED BY <2>1 DEF Found, KeysIn
  <1>9. AtLeaf(t)'
    BY <1>3, <1>4, <1>7 DEF AtLeaf
  <1>10. CASE Found(l, k)
    <2>1. k \in KeysIn(LeafFor(k))
      BY <1>4, <1>8, <1>10 DEF AtLeaf
    <2>2. (key[t] \in KeysIn(LeafFor(key[t])))'
      BY <1>3, <1>7, <2>1
    <2> QED BY <1>6, <1>10, <2>2 DEF WriterOK
  <1>11. CASE ~Found(l, k)
    BY <1>3, <1>6, <1>7, <1>8, <1>9, <1>11 DEF WriterOK
  <1> QED BY <1>10, <1>11

LEMMA ShiftWrites ==
  ASSUME ReachInv, Loaded, NEW t \in Threads, Step(t), apart' \in BOOLEAN, Shift(t)
  PROVE  WriterOK(t)'
  <1> PICK l, k, p, e : l = leaf[t] /\ k = key[t] /\ p = pos[t] /\ e = LeafFor(key[t])
    OBVIOUS
  <1>1. /\ TreeShape /\ TreeShape' /\ Grows /\ DOMAIN pc = Threads
        /\ e \in Made /\ e \in Nodes /\ ~IsInner(e) /\ k \in Nat
    BY AfterStep
  <1>2. /\ l \in Made /\ l \in Nodes /\ p \in 1 .. count[l] /\ k \notin KeysIn(l)
        /\ UNCHANGED <<type, count, node, leaf, key, pos, completed>>
        /\ pc' = [pc EXCEPT ![t] = "bump"] /\ pc[t] = "shift"
        /\ keys'[l][1] = keys[l][1] /\ keys'[l][p + 1] = k
    BY ShiftFacts
  <1>3. AtLeaf(t)
    BY <1>2 DEF ReachInv, WriterOK
  <1>4. LeafFor(k)' = e
    <2>1. ~IsInner(e)'
      BY <1>1, <1>2 DEF IsInner
    <2> QED BY <1>1, <2>1, EndsStay
  <1>5. LeafFor(key[t])' = e /\ KeysIn(LeafFor(key[t]))' = KeysIn(e)'
    <2>1. \A x : x = key'[t] => LeafFor(x)' = LeafFor(key[t])'
      BY DEF LeafFor
    <2>2. LeafFor(key[t])' = e
      BY <1>2, <1>4, <2>1
    <2>3. \A x : x = LeafFor(key[t])' => KeysIn(x)' = KeysIn(LeafFor(key[t]))'
      BY DEF KeysIn, Used, Bumping
    <2> QED BY <2>2, <2>3
  <1>6. KeysIn(e) \subseteq KeysIn(e)'
    BY <1>1 DEF Grows
  <1>7. IsInner(leaf[t])' <=> IsInner(leaf[t])
    BY <1>2 DEF IsInner
  <1>8. AtLeaf(t)'
    BY <1>2, <1>3, <1>5, <1>6, <1>7 DEF AtLeaf
  <1>9. e = l => k \notin completed
    BY <1>2 DEF ReachInv, Stored
  <1>10. pc'[t] = "bump"
    BY <1>1, <1>2
  <1> QED BY <1>2, <1>5, <1>8, <1>9, <1>10 DEF WriterOK

LEMMA BumpWrites ==
  ASSUME ReachInv, Loaded, NEW t \in Threads, Step(t), apart' \in BOOLEAN, Bump(t)
  PROVE  WriterOK(t)'
  <1> PICK l, k, p, e : l = leaf[t] /\ k = key[t] /\ p = pos[t] /\ e = LeafFor(key[t])
    OBVIOUS
  <1>1. /\ TreeShape /\ TreeShape' /\ Grows /\ DOMAIN pc = Threads /\ TreeInv
        /\ e \in Made /\ e \in Nodes /\ ~IsInner(e) /\ k \in Nat
    BY AfterStep
  <1>2. /\ l \in Made /\ l \in Nodes
        /\ UNCHANGED <<type, node, leaf, key>>
        /\ pc' = [pc EXCEPT ![t] = "insRelease"] /\ pc[t] = "bump"
        /\ Used(l) = count[l] + 1
    BY BumpFacts
  <1>3. AtLeaf(t) /\ p \in 1 .. count[l] /\ keys[l][p + 1] = k
    BY <1>2 DEF ReachInv, WriterOK
  <1>4. k \in KeysIn(l)
    <2>1. p + 1 \in 1 .. Used(l)
      BY <1>1, <1>2, <1>3, KeysAreNumbers DEF TreeInv
    <2> QED BY <1>3, <2>1 DEF KeysIn
  <1>5. k \in KeysIn(e)
    BY <1>3, <1>4 DEF AtLeaf
  <1>6. LeafFor(k)' = e
    <2>1. ~IsInner(e)'
      BY <1>1, <1>2 DEF IsInner
    <2> QED BY <1>1, <2>1, EndsStay
  <1>7. LeafFor(key[t])' = e /\ KeysIn(LeafFor(key[t]))' = KeysIn(e)'
    <2>1. \A x : x = key'[t] => LeafFor(x)' = LeafFor(key[t])'
      BY DEF LeafFor
    <2>2. LeafFor(key[t])' = e
      BY <1>2, <1>6, <2>1
    <2>3. \A x : x = LeafFor(key[t])' => KeysIn(x)' = KeysIn(LeafFor(key[t]))'
      BY DEF KeysIn, Used, Bumping
    <2> QED BY <2>2, <2>3
  <1>8. KeysIn(e) \subseteq KeysIn(e)'
    BY <1>1 DEF Grows
  <1>9. pc'[t] = "insRelease" /\ key'[t] = k
    BY <1>1, <1>2
  <1> QED BY <1>5, <1>7, <1>8, <1>9 DEF WriterOK

LEMMA SplitWrites ==
  ASSUME ReachInv, Loaded, NEW t \in Threads, Step(t), apart' \in BOOLEAN, Split(t)
  PROVE  WriterOK(t)'
  <1> PICK n, f, k, j : n = node[t] /\ f = next /\ k = key[t] /\ j = lowerBound(n, k)
    OBVIOUS
  <1>1. /\ TreeShape /\ TreeShape' /\ Grows /\ DOMAIN pc = Threads /\ DOMAIN leaf = Threads /\ TreeInv
        /\ k \in Nat /\ keys[n][1] <= k /\ n \in Nodes
        /\ ~IsInner(n) => LeafFor(k) = n
    BY AfterStep
  <1>2. SplitOf(n, f) /\ SplitTo(t, n, f) /\ key' = key /\ node' = node
    BY SplitFacts
  <1>3. LeafFor(k) = n /\ k >= keys[n][1]
    BY <1>1, <1>2, FirstKey DEF SplitOf, TreeInv
  <1>4. PICK b \in Slots, e \in Nodes :
           /\ b = lowerBoundInner(n, k) /\ e = f + b - 1 /\ LeafFor(k)' = e
           /\ keys[n][b] <= k /\ \A i \in Slots : i > b => k < keys[n][i]
           /\ KeysIn(e)' = {keys[n][b]}
    BY <1>1, <1>2, <1>3, SplitEnds
  <1>5. /\ \A i \in Slots : i <= j <=> keys[n][i] < k
        /\ \A i \in Slots : keys[n][i] \in Nat /\ i \in Nat /\ 1 <= i
        /\ \A x, y \in Slots : x < y => keys[n][x] < keys[n][y]
        /\ j \in 0 .. ChildNum /\ 1 \in Slots /\ ChildNum \in Nat /\ ChildNum >= 2 /\ f \in Nat
    BY <1>1, <1>2, FullLeaf DEF Slots
  <1>6. LeafFor(key[t])' = e /\ KeysIn(LeafFor(key[t]))' = KeysIn(e)'
    <2>1. \A x : x = key'[t] => LeafFor(x)' = LeafFor(key[t])'
      BY DEF LeafFor
    <2>2. LeafFor(key[t])' = e
      BY <1>2, <1>4, <2>1
    <2>3. \A x : x = LeafFor(key[t])' => KeysIn(x)' = KeysIn(LeafFor(key[t]))'
      BY DEF KeysIn, Used, Bumping
    <2> QED BY <2>2, <2>3
  <1>7. CASE pc' = [pc EXCEPT ![t] = "insRelease"] /\ j = 0
    <2>1. ~(keys[n][1] < k) /\ k = keys[n][1]
      BY <1>1, <1>3, <1>5, <1>7
    <2>2. ~(1 < b)
      BY <1>4, <1>5, <2>1
    <2>3. keys[n][b] = k
      BY <1>5, <2>1, <2>2
    <2>4. key'[t] = k /\ pc'[t] = "insRelease"
      BY <1>1, <1>2, <1>7
    <2> QED BY <1>4, <1>6, <2>3, <2>4 DEF WriterOK
  <1>8. CASE /\ pc' = [pc EXCEPT ![t] = "leaf"]
             /\ j \in Slots
             /\ leaf' = [leaf EXCEPT ![t] = f + j - 1]
    <2> PICK l : l = f + j - 1
      OBVIOUS
    <2>1. pc'[t] = "leaf" /\ leaf'[t] = l /\ key'[t] = k /\ node'[t] = n
      BY <1>1, <1>2, <1>8
    <2>2. ~IsInner(l)' /\ count'[l] = 1 /\ keys'[l][1] = keys[n][j]
      <3>1. \A x : x = f + j - 1 => (IsInner(x)' <=> IsInner(f + j - 1)')
        BY DEF IsInner
      <3> QED BY <1>2, <1>8, <3>1 DEF SplitOf
    <2>3. ~IsInner(leaf[t])'
      <3>1. \A x : x = leaf'[t] => (IsInner(x)' <=> IsInner(leaf[t])')
        BY DEF IsInner
      <3> QED BY <2>1, <2>2, <3>1
    <2>4. keys[n][j] <= k /\ keys[n][j] < k
      BY <1>1, <1>5, <1>8
    <2>5. e = l \/ k \in KeysIn(e)'
      <3>1. CASE keys[n][b] < k
        <4>1. b <= j
          BY <1>4, <1>5, <3>1
        <4>2. ~(j > b)
          <5>1. j > b => k < keys[n][j]
            BY <1>4, <1>8
          <5>2. keys[n][j] \in Nat
            BY <1>5, <1>8
          <5> QED BY <1>1, <2>4, <5>1, <5>2
        <4>3. b \in Nat /\ j \in Nat
          BY <1>4, <1>5, <1>8
        <4>4. b = j
          BY <4>1, <4>2, <4>3
        <4> QED BY <1>4, <4>4
      <3>2. CASE ~(keys[n][b] < k)
        <4>1. keys[n][b] = k
          BY <1>1, <1>4, <1>5, <3>2
        <4> QED BY <1>4, <4>1
      <3> QED BY <3>1, <3>2
    <2>6. AtLeaf(t)'
      BY <1>5, <1>6, <2>1, <2>2, <2>3, <2>4, <2>5 DEF AtLeaf
    <2> QED BY <2>1, <2>6 DEF WriterOK
  <1> QED BY <1>2, <1>7, <1>8 DEF SplitTo

LEMMA WritersAfter ==
  ASSUME ReachInv, Loaded, NEW t \in Threads, Step(t), apart' \in BOOLEAN, Roomy'
  PROVE  \A u \in Threads : WriterOK(u)'
  <1>1. \A u \in Threads : u # t => WriterOK(u)'
    BY WriterKept
  <1>2. /\ DOMAIN pc = Threads /\ DOMAIN node = Threads /\ WriterOK(t)
    BY AfterStep DEF ReachInv
  <1>3. CASE InsType(t) \/ InsertLeaf(t) \/ Shift(t) \/ Bump(t) \/ Split(t)
    BY <1>1, <1>3, InsTypeWrites, InsertLeafWrites, ShiftWrites, BumpWrites, SplitWrites
  <1>4. CASE UpdLock(t)
    <2>1. pc'[t] = "updLeaf" /\ node'[t] = node[t] /\ type' = type /\ pc[t] = "updLock"
      BY <1>2, <1>4 DEF UpdLock
    <2>2. ~IsInner(node[t])'
      BY <1>2, <2>1 DEF WriterOK, IsInner
    <2> QED BY <1>1, <2>1, <2>2 DEF WriterOK
  <1>5. CASE UpdDescend(t)
    <2>1. type' = type /\ (pc'[t] = "updDescend" \/ (pc'[t] = "updLock" /\ ~IsInner(node[t]) /\ node' = node))
      BY <1>5, DescendsWell DEF UpdDescend, Descend
    <2>2. pc'[t] = "updLock" => ~IsInner(node[t])'
      BY <2>1 DEF IsInner
    <2> QED BY <1>1, <2>1, <2>2 DEF WriterOK
  <1>6. CASE InsDescend(t) \/ GetDescend(t)
    <2>1. pc'[t] \in {"idle", "insDescend", "insLock", "getDescend", "getVersion"}
      BY <1>6, DescendsWell
    <2> QED BY <1>1, <2>1 DEF WriterOK
  <1>7. CASE \/ Begin(t) \/ InsLock(t) \/ InsRelease(t) \/ UpdLeaf(t) \/ UpdRelease(t)
             \/ GetVersion(t) \/ GetSearch(t) \/ GetCheck(t)
    <2>1. pc'[t] \in {"idle", "insDescend", "updDescend", "getDescend", "insType", "updRelease",
                      "getSearch", "getCheck"}
      BY <1>2, <1>7 DEF Begin, InsLock, InsRelease, UpdLeaf, UpdRelease, GetVersion, GetSearch, GetCheck
    <2> QED BY <1>1, <2>1 DEF WriterOK
  <1> QED BY <1>3, <1>4, <1>5, <1>6, <1>7 DEF Step

-----------------------------------------------------------------------------
(* The readers.                                                            *)

LEMMA ReaderKept ==
  ASSUME ReachInv, Loaded, NEW t \in Threads, Step(t), apart' \in BOOLEAN, NEW u \in Threads, u # t
  PROVE  ReaderOK(u)'
  <1> PICK n, k, v : n = node[u] /\ k = key[u] /\ v = version[u]
    OBVIOUS
  <1>1. /\ pc'[u] = pc[u] /\ node'[u] = n /\ key'[u] = k /\ version'[u] = v
        /\ ret'[u] = ret[u] /\ due'[u] = due[u]
    BY Others DEF ReachInv, HoldersInv
  <1>2. ReaderOK(u) /\ HoldersInv /\ v \in Word
    BY Registers DEF ReachInv, HoldersInv
  <1>3. completed \subseteq completed'
    BY CompletedGrows
  <1>4. n \in Made /\ n \in Nodes /\ KeysIn(n) \subseteq KeysIn(n)'
    BY AfterStep DEF Grows
  <1>5. KeysIn(node[u])' = KeysIn(n)' /\ (Stuck(node[u])' <=> Stuck(n)')
    <2>1. \A x : x = node'[u] => KeysIn(x)' = KeysIn(node[u])' /\ (Stuck(node[u])' <=> Stuck(x)')
      BY DEF KeysIn, Used, Bumping, Stuck
    <2> QED BY <1>1, <2>1
  <1>6. ASSUME ~IsSet(v), v <= Masked(word[n]) \/ Stuck(n)
        PROVE  /\ v <= Masked(word'[n]) \/ Stuck(n)'
               /\ word[n] # v => word'[n] # v
    BY <1>2, <1>4, <1>6, WordsAge
  <1> QED BY <1>1, <1>2, <1>3, <1>4, <1>5, <1>6 DEF ReaderOK

\* A leaf whose version is read, and where a completed key is not found, is
\* being written.
LEMMA SearchMisses ==
  ASSUME ReachInv, Loaded, NEW t \in Threads, GetSearch(t), due[t],
         ~Found(node[t], key[t])
  PROVE  word[node[t]] # version[t]
  <1> PICK n, k : n = node[t] /\ k = key[t]
    OBVIOUS
  <1>1. /\ n \in Made /\ n \in Nodes /\ k \in Nat /\ TypeOK /\ TreeInv /\ TreeShape
        /\ EndsAt(k)[n] = LeafFor(k)
    <2>1. TypeOK /\ TreeInv /\ TreeShape
      BY DEF ReachInv, HoldersInv, TreeInv, TreeShape
    <2> QED BY <2>1, Registers, MadeNodes DEF ReachInv, Paths
  <1>2. /\ k \in completed /\ k \in KeysIn(n) /\ ~IsSet(version[t])
    <2>1. ReaderOK(t) /\ pc[t] = "getSearch"
      BY DEF ReachInv, GetSearch
    <2> QED BY <2>1 DEF ReaderOK
  <1>3. count[n] \in Nat /\ \A i \in 1 .. count[n] : keys[n][i] # k
    BY <1>1, KeysAreNumbers DEF Found
  <1>4. Bumping(n) /\ keys[n][count[n] + 1] = k
    <2>1. PICK i \in 1 .. Used(n) : k = keys[n][i]
      BY <1>2 DEF KeysIn
    <2>2. Used(n) = IF Bumping(n) THEN count[n] + 1 ELSE count[n]
      BY DEF Used
    <2>3. Bumping(n)
      BY <1>3, <2>1, <2>2
    <2>4. i = count[n] + 1
      BY <1>3, <2>1, <2>2, <2>3
    <2> QED BY <2>1, <2>3, <2>4
  <1>5. PICK w \in Threads : pc[w] = "bump" /\ leaf[w] = n
    BY <1>4 DEF Bumping
  <1>6. /\ AtLeaf(w) /\ pos[w] \in 1 .. count[n] /\ keys[n][pos[w] + 1] = key[w]
        /\ LeafFor(key[w]) = n => key[w] \notin completed
    BY <1>5 DEF ReachInv, WriterOK
  <1>7. CASE n = node[w]
    <2>1. Holding(w)
      BY <1>5 DEF Holding, Holds
    <2>2. IsSet(word[n])
      BY <1>7, <2>1 DEF ReachInv, HoldersInv
    <2> QED BY <1>2, <2>2
  <1>8. CASE count[n] = 1
    <2>1. key[w] = k
      BY <1>4, <1>6, <1>8
    <2>2. LeafFor(k) = n
      BY <1>1, <1>5, <1>6, AtTheEnd DEF AtLeaf
    <2> QED BY <1>2, <1>6, <2>1, <2>2
  <1> QED BY <1>5, <1>6, <1>7, <1>8 DEF AtLeaf

LEMMA ReaderMoves ==
  ASSUME ReachInv, Loaded, NEW t \in Threads, Step(t), apart' \in BOOLEAN
  PROVE  ReaderOK(t)'
  <1> PICK n, k : n = node[t] /\ k = key[t]
    OBVIOUS
  <1>1. /\ DOMAIN pc = Threads /\ DOMAIN node = Threads /\ DOMAIN version = Threads /\ DOMAIN ret = Threads
        /\ DOMAIN due = Threads /\ DOMAIN key = Threads
        /\ n \in Made /\ n \in Nodes /\ k \in Nat
        /\ ~IsInner(n) => LeafFor(k) = n
        /\ KeysIn(n) \subseteq KeysIn(n)'
    BY AfterStep DEF Grows
  <1>2. ReaderOK(t) /\ HoldersInv /\ word \in [Nodes -> Word] /\ version[t] \in Word
    BY Registers DEF ReachInv, HoldersInv
  <1>3. completed \subseteq completed'
    BY CompletedGrows
  <1>4. ASSUME NEW x, node'[t] = x
        PROVE  KeysIn(node[t])' = KeysIn(x)' /\ (Stuck(node[t])' <=> Stuck(x)')
    BY <1>4 DEF KeysIn, Used, Bumping, Stuck
  <1>5. CASE Begin(t)
    <2>1. pc'[t] \in {"insDescend", "updDescend", "getDescend"} /\ completed' = completed
          /\ due'[t] = (key'[t] \in completed)
      BY <1>1, <1>5 DEF Begin
    <2> QED BY <2>1 DEF ReaderOK
  <1>6. CASE GetDescend(t)
    <2>1. due' = due /\ key' = key
      BY <1>6 DEF GetDescend, Descend
    <2>2. pc'[t] = "getDescend" \/ (pc'[t] = "getVersion" /\ ~IsInner(n) /\ node' = node)
      BY <1>6, DescendsWell
    <2>3. pc'[t] = "getVersion" /\ due[t] => k \in KeysIn(node[t])'
      <3>1. SUFFICES ASSUME pc'[t] = "getVersion", due[t] PROVE k \in KeysIn(node[t])'
        OBVIOUS
      <3>2. ~IsInner(n) /\ node'[t] = n
        BY <2>2, <3>1
      <3>3. k \in KeysIn(LeafFor(k))
        BY <1>2, <3>1 DEF ReaderOK, ReachInv, Stored
      <3> QED BY <1>1, <1>4, <3>2, <3>3
    <2> QED BY <1>2, <1>3, <2>1, <2>2, <2>3 DEF ReaderOK
  <1>7. CASE GetVersion(t)
    <2>1. /\ due' = due /\ key' = key /\ node' = node /\ word' = word /\ pc'[t] = "getSearch"
          /\ version'[t] = word[n] /\ ~IsSet(word[n]) /\ pc[t] = "getVersion"
      BY <1>1, <1>7 DEF GetVersion
    <2>2. version'[t] <= Masked(word'[n]) /\ word[n] \in Word
      <3>1. word[n] \in Word /\ word[n] \in Int
        BY <1>1, <1>2 DEF Word
      <3> QED BY <2>1, <3>1 DEF Masked
    <2>3. KeysIn(node[t])' = KeysIn(n)'
      BY <1>4, <2>1
    <2> QED BY <1>1, <1>2, <1>3, <2>1, <2>2, <2>3 DEF ReaderOK
  <1>8. CASE GetSearch(t)
    <2>1. /\ due' = due /\ key' = key /\ node' = node /\ word' = word /\ pc'[t] = "getCheck"
          /\ version' = version /\ ret'[t] = Found(n, k) /\ pc[t] = "getSearch"
      BY <1>1, <1>8 DEF GetSearch
    <2>2. due[t] /\ ~Found(n, k) => word[n] # version[t]
      BY <1>8, SearchMisses
    <2>3. KeysIn(node[t])' = KeysIn(n)' /\ (Stuck(node[t])' <=> Stuck(n)')
      BY <1>4, <2>1
    <2>4. version[t] <= Masked(word'[n]) \/ Stuck(n)'
      <3>1. ~IsSet(version[t]) /\ (version[t] <= Masked(word[n]) \/ Stuck(n))
        BY <1>2, <2>1 DEF ReaderOK
      <3> QED BY <1>1, <1>2, <3>1, WordsAge
    <2> QED BY <1>1, <1>2, <1>3, <2>1, <2>2, <2>3, <2>4 DEF ReaderOK
  <1>9. CASE ~(Begin(t) \/ GetDescend(t) \/ GetVersion(t) \/ GetSearch(t))
    <2>1. due' = due /\ key' = key
      BY <1>9 DEF Step, InsDescend, InsLock, InsType, Split, InsertLeaf, Shift, Bump, InsRelease,
                  UpdDescend, UpdLock, UpdLeaf, UpdRelease, Descend, GetCheck
    <2>2. pc'[t] \notin {"getVersion", "getSearch", "getCheck"}
      BY <1>1, <1>9 DEF Step, InsDescend, InsLock, InsType, Split, InsertLeaf, Shift, Bump, InsRelease,
                  UpdDescend, UpdLock, UpdLeaf, UpdRelease, Descend, GetCheck
    <2> QED BY <1>2, <1>3, <2>1, <2>2 DEF ReaderOK
  <1> QED BY <1>5, <1>6, <1>7, <1>8, <1>9

-----------------------------------------------------------------------------
(* The invariant holds.                                                    *)

LEMMA ReachStep ==
  ASSUME Loaded, ReachInv, [Next]_vars, apart', HoldersInv', WritesApart', Roomy'
  PROVE  ReachInv'
  <1>2. ASSUME NEW t \in Threads, Move(t) PROVE ReachInv'
    <2>1. Step(t) /\ apart' \in BOOLEAN
      BY <1>2, MoveIs
    <2>2. PICK hi : BoundsOf(hi) /\ Below(hi)
      BY DEF ReachInv, Bounded
    <2>3. Shape' /\ Sorted'
      BY <2>1, <2>2, TreeAfter
    <2>4. Paths' /\ Bounded'
      BY <2>1, PathsAfter
    <2>5. Stored'
      BY <2>1, StoredAfter
    <2>6. \A u \in Threads : WriterOK(u)' /\ ReaderOK(u)'
      BY <2>1, WritersAfter, ReaderKept, ReaderMoves
    <2>7. \A u \in Threads : Sole(u)'
      BY <2>1, SoleAfter
    <2> QED BY <2>3, <2>4, <2>5, <2>6, <2>7 DEF ReachInv
  <1>3. CASE UNCHANGED vars
    <2>1. UNCHANGED <<type, count, keys, pointers, word, next, pc, key, node, leaf, pos, version, ret, left,
                      completed, due>>
      BY <1>3 DEF vars
    <2>2. Made' = Made
      BY <2>1 DEF Made
    <2>3. \A n : /\ Used(n)' = Used(n) /\ KeysIn(n)' = KeysIn(n) /\ (IsInner(n)' <=> IsInner(n))
                 /\ (Stuck(n)' <=> Stuck(n))
      BY <2>1 DEF Used, KeysIn, IsInner, Bumping, Stuck, Holding
    <2>4. \A k : EndsAt(k)' = EndsAt(k) /\ LeafFor(k)' = LeafFor(k)
      BY <2>1 DEF EndsAt, LeafFor, Follows, Child, IsInner, lowerBoundInner
    <2>5. \A n, k : lowerBound(n, k)' = lowerBound(n, k)
      BY <2>1 DEF lowerBound
    <2>6. Shape' /\ Sorted'
      BY <2>1, <2>2, <2>3 DEF ReachInv, Shape, Sorted, IsInner
    <2>7. Bounded'
      <3>1. PICK hi : BoundsOf(hi) /\ Below(hi)
        BY DEF ReachInv, Bounded
      <3>2. BoundsOf(hi)'
        <4>1. /\ \A n \in Made' : IsInner(n)' => \A i \in Slots :
                   hi[pointers'[n][i]] = IF i < ChildNum THEN hi[n] \cup {keys'[n][i + 1]} ELSE hi[n]
          BY <2>1, <2>2, <2>3, <3>1, Zenon DEF BoundsOf
        <4>2. \A n \in Made' : \A i \in 1 .. Used(n)' : \A x \in hi[n] : keys'[n][i] <= x
          BY <2>1, <2>2, <2>3, <3>1, Zenon DEF BoundsOf
        <4> QED BY <3>1, <4>1, <4>2, Zenon DEF BoundsOf
      <3>3. Below(hi)'
        BY <2>1, <3>1, Zenon DEF Below
      <3> QED BY <3>2, <3>3, Zenon DEF Bounded
    <2>8. Paths'
      <3> SUFFICES ASSUME NEW u \in Threads
                   PROVE  (keys[node[u]][1] <= key[u] /\ EndsAt(key[u])[node[u]] = LeafFor(key[u]))'
        BY DEF Paths
      <3>1. \A k : k = key'[u] => EndsAt(k)' = EndsAt(key[u])' /\ LeafFor(k)' = LeafFor(key[u])'
        BY DEF EndsAt, LeafFor, Follows, Child
      <3>2. EndsAt(key[u])' = EndsAt(key[u]) /\ LeafFor(key[u])' = LeafFor(key[u])
        BY <2>1, <2>4, <3>1
      <3> QED BY <2>1, <3>2 DEF ReachInv, Paths
    <2>9. Stored'
      <3> SUFFICES ASSUME NEW k \in completed' PROVE k >= Seed[1] /\ (k \in KeysIn(LeafFor(k)))'
        BY DEF Stored
      <3>1. \A x : x = LeafFor(k)' => KeysIn(x)' = KeysIn(LeafFor(k))'
        BY DEF KeysIn, Used, Bumping
      <3> QED BY <2>1, <2>3, <2>4, <3>1 DEF ReachInv, Stored
    <2>10. ASSUME NEW u \in Threads PROVE WriterOK(u)' /\ ReaderOK(u)' /\ Sole(u)'
      <3>1. \A k : k = key'[u] => LeafFor(k)' = LeafFor(key[u])'
        BY DEF LeafFor
      <3>2. LeafFor(key[u])' = LeafFor(key[u])
        BY <2>1, <2>4, <3>1
      <3>3. \A x : x = LeafFor(key[u])' => KeysIn(x)' = KeysIn(LeafFor(key[u]))'
        BY DEF KeysIn, Used, Bumping
      <3>4. KeysIn(LeafFor(key[u]))' = KeysIn(LeafFor(key[u]))
        BY <2>3, <3>2, <3>3
      <3>5. /\ \A x : x = leaf'[u] => KeysIn(x)' = KeysIn(leaf[u])' /\ (IsInner(x)' <=> IsInner(leaf[u])')
            /\ \A x : x = node'[u] => /\ KeysIn(x)' = KeysIn(node[u])' /\ (IsInner(x)' <=> IsInner(node[u])')
                                      /\ (Stuck(x)' <=> Stuck(node[u])')
        BY DEF KeysIn, Used, Bumping, IsInner, Stuck
      <3>6. /\ KeysIn(leaf[u])' = KeysIn(leaf[u]) /\ (IsInner(leaf[u])' <=> IsInner(leaf[u]))
            /\ KeysIn(node[u])' = KeysIn(node[u]) /\ (IsInner(node[u])' <=> IsInner(node[u]))
            /\ (Stuck(node[u])' <=> Stuck(node[u]))
        BY <2>1, <2>3, <3>5
      <3>7. lowerBound(leaf[u], key[u])' = lowerBound(leaf[u], key[u])
        BY <2>1 DEF lowerBound
      <3>8. AtLeaf(u)' <=> AtLeaf(u)
        BY <2>1, <3>2, <3>4, <3>6 DEF AtLeaf
      <3>9. WriterOK(u)'
        BY <2>1, <3>2, <3>4, <3>6, <3>7, <3>8 DEF ReachInv, WriterOK
      <3>10. ReaderOK(u)'
        BY <2>1, <3>6 DEF ReachInv, ReaderOK
      <3>11. Sole(u)'
        BY <2>1, <3>2 DEF ReachInv, Sole
      <3> QED BY <3>9, <3>10, <3>11
    <2> QED BY <2>6, <2>7, <2>8, <2>9, <2>10 DEF ReachInv
  <1> QED BY <1>2, <1>3 DEF Next

\* The tree that bulk_load leaves.
LEMMA LoadedTree ==
  ASSUME Init, Loaded
  PROVE  /\ ChildNum \in Nat /\ ChildNum >= 2 /\ Slots = 1 .. ChildNum /\ Root = 1
         /\ \A i \in 1 .. ChildNum + 1 : Seed[i] \in Nat
         /\ \A i, j \in 1 .. ChildNum + 1 : i < j => Seed[i] < Seed[j]
         /\ next = ChildNum + 2
         /\ \A m : m \in Made <=> m \in 1 .. ChildNum + 1
         /\ \A m \in 1 .. ChildNum + 1 : m \in Nodes
         /\ \A m \in Nodes : IsInner(m) <=> m = Root
         /\ \A m \in 1 .. ChildNum + 1 :
              count[m] = IF m = 1 THEN ChildNum ELSE IF m = ChildNum + 1 THEN 2 ELSE 1
         /\ \A m \in 1 .. ChildNum + 1 : Used(m) = count[m]
         /\ \A i \in Slots : pointers[Root][i] = 1 + i /\ keys[Root][i] = Seed[i]
         /\ \A i \in Slots : keys[1 + i][1] = Seed[i]
         /\ keys[ChildNum + 1][2] = Seed[ChildNum + 1]
         /\ SeedKeys = {Seed[i] : i \in 1 .. ChildNum + 1}
  <1> PICK C : C = ChildNum
    OBVIOUS
  <1>1. C \in Nat /\ C >= 2 /\ Slots = 1 .. C /\ Root = 1 /\ MaxNodes \in Nat /\ MaxNodes > C + 1
        /\ Nodes = 1 .. MaxNodes
    BY SizesAssumption DEF Slots, Root, Nodes
  <1>2. Len(Seed) = C + 1 /\ DOMAIN Seed = 1 .. C + 1 /\ ~Cleared
    <2>1. Seed \in Seq(Nat \ {0}) /\ Len(Seed) \in {0, C + 1} /\ Seed # <<>>
      BY SeedAssumption DEF Loaded
    <2>2. Len(Seed) = C + 1
      BY <2>1
    <2> QED BY <2>1, <2>2 DEF Cleared
  <1>3. \A i \in 1 .. C + 1 : Seed[i] \in Nat
    <2>1. Seed \in Seq(Nat \ {0})
      BY SeedAssumption
    <2> QED BY <1>2, <2>1
  <1>4. \A i, j \in 1 .. C + 1 : i < j => Seed[i] < Seed[j]
    BY <1>2, SeedAssumption
  <1>5. next = C + 2 /\ Made = 1 .. C + 1
    <2>1. next = C + 2
      BY <1>1, <1>2 DEF Init, LeafOf
    <2>2. (C + 2) - 1 = C + 1
      BY <1>1
    <2> QED BY <2>1, <2>2 DEF Made
  <1>6. \A m \in 1 .. C + 1 : m \in Nodes
    BY <1>1
  <1>7. \A m \in Nodes : IsInner(m) <=> m = Root
    BY <1>2 DEF Init, IsInner
  <1>8. \A m \in 1 .. C + 1 : count[m] = IF m = 1 THEN C ELSE IF m = C + 1 THEN 2 ELSE 1
    <2> SUFFICES ASSUME NEW m \in 1 .. C + 1
                 PROVE  count[m] = IF m = 1 THEN C ELSE IF m = C + 1 THEN 2 ELSE 1
      OBVIOUS
    <2>1. LeafOf(C) = C + 1 /\ ~(m > C + 1)
      BY <1>1 DEF LeafOf
    <2> QED BY <1>1, <1>2, <1>6, <2>1 DEF Init
  <1>9. \A m \in 1 .. C + 1 : Used(m) = count[m]
    BY DEF Init, Used, Bumping
  <1>10. \A i \in Slots : pointers[Root][i] = 1 + i
    BY <1>1, <1>2 DEF Init, LeafOf
  <1>11. ASSUME NEW m \in 1 .. C + 1, NEW i \in Slots, i <= count[m]
         PROVE  keys[m][i] = IF m = 1 THEN Seed[i] ELSE Seed[(m + i) - 2]
    <2>1. ~(i > count[m]) /\ m - Root + i - 1 = (m + i) - 2
      BY <1>1, <1>8, <1>11
    <2>2. keys[m][i] = IF i > count[m] THEN 0 ELSE IF m = Root THEN Seed[i] ELSE Seed[m - Root + i - 1]
      BY <1>6 DEF Init
    <2> QED BY <1>1, <2>1, <2>2
  <1>12. \A i \in Slots : keys[Root][i] = Seed[i]
    <2> SUFFICES ASSUME NEW i \in Slots PROVE keys[Root][i] = Seed[i]
      OBVIOUS
    <2>1. Root \in 1 .. C + 1 /\ i <= count[Root]
      BY <1>1, <1>8
    <2> QED BY <1>1, <1>11, <2>1
  <1>13. \A i \in Slots : keys[1 + i][1] = Seed[i]
    <2> SUFFICES ASSUME NEW i \in Slots PROVE keys[1 + i][1] = Seed[i]
      OBVIOUS
    <2>1. 1 + i \in 1 .. C + 1 /\ 1 \in Slots /\ 1 + i # 1 /\ ((1 + i) + 1) - 2 = i
      BY <1>1
    <2>2. 1 <= count[1 + i]
      BY <1>1, <1>8, <2>1
    <2> QED BY <1>11, <2>1, <2>2
  <1>14. keys[C + 1][2] = Seed[C + 1]
    <2>1. C + 1 \in 1 .. C + 1 /\ 2 \in Slots /\ C + 1 # 1 /\ ((C + 1) + 2) - 2 = C + 1
      BY <1>1
    <2>2. 2 <= count[C + 1]
      BY <1>8, <2>1
    <2> QED BY <1>11, <2>1, <2>2
  <1>15. SeedKeys = {Seed[i] : i \in 1 .. C + 1}
    BY <1>2 DEF SeedKeys
  <1> QED BY <1>1, <1>3, <1>4, <1>5, <1>6, <1>7, <1>8, <1>9, <1>10, <1>12, <1>13, <1>14, <1>15

LEMMA ReachInit == Loaded /\ Init => ReachInv
  <1> SUFFICES ASSUME Loaded, Init PROVE ReachInv
    OBVIOUS
  <1> PICK C : C = ChildNum
    OBVIOUS
  <1>1. /\ C \in Nat /\ C >= 2 /\ Slots = 1 .. C /\ Root = 1
        /\ \A i \in 1 .. C + 1 : Seed[i] \in Nat
        /\ \A i, j \in 1 .. C + 1 : i < j => Seed[i] < Seed[j]
        /\ next = C + 2
        /\ \A m : m \in Made <=> m \in 1 .. C + 1
        /\ \A m \in 1 .. C + 1 : m \in Nodes
        /\ \A m \in Nodes : IsInner(m) <=> m = Root
        /\ \A m \in 1 .. C + 1 : count[m] = IF m = 1 THEN C ELSE IF m = C + 1 THEN 2 ELSE 1
        /\ \A m \in 1 .. C + 1 : Used(m) = count[m]
        /\ \A i \in Slots : pointers[Root][i] = 1 + i /\ keys[Root][i] = Seed[i]
        /\ \A i \in Slots : keys[1 + i][1] = Seed[i]
        /\ keys[C + 1][2] = Seed[C + 1]
        /\ SeedKeys = {Seed[i] : i \in 1 .. C + 1}
    BY LoadedTree
  <1>2. HoldersInv
    BY HoldersInit
  <1>3. \A m \in 1 .. C + 1 : m # 1 => \E i \in Slots : m = 1 + i
    <2> SUFFICES ASSUME NEW m \in 1 .. C + 1, m # 1 PROVE \E i \in Slots : m = 1 + i
      OBVIOUS
    <2>1. m - 1 \in Slots /\ m = 1 + (m - 1)
      BY <1>1
    <2> QED BY <2>1
  <1>4. Shape
    <2>1. IsInner(Root) /\ keys[Root][1] = Seed[1]
      BY <1>1
    <2>2. \A n \in Made : count[n] >= 1
      BY <1>1
    <2>3. \A i \in Slots : pointers[Root][i] \in Root + 1 .. next - 1 /\ keys[pointers[Root][i]][1] = keys[Root][i]
      BY <1>1
    <2> QED BY <1>1, <2>1, <2>2, <2>3 DEF Shape
  <1>5. Sorted
    <2> SUFFICES ASSUME NEW n \in Made, NEW i \in 1 .. Used(n), NEW j \in 1 .. Used(n), i < j
                 PROVE  keys[n][i] < keys[n][j]
      BY DEF Sorted
    <2>1. CASE n = 1
      <3>1. i \in Slots /\ j \in Slots /\ i \in 1 .. C + 1 /\ j \in 1 .. C + 1
        BY <1>1, <2>1
      <3> QED BY <1>1, <2>1, <3>1
    <2>2. CASE n # 1
      <3>1. n = C + 1 /\ i = 1 /\ j = 2
        BY SMTT(60), <1>1, <2>2
      <3>2. keys[1 + C][1] = Seed[C] /\ 1 + C = C + 1
        BY <1>1
      <3>3. Seed[C] < Seed[C + 1]
        BY <1>1
      <3> QED BY <1>1, <3>1, <3>2, <3>3
    <2> QED BY <2>1, <2>2
  <1>6. TreeShape
    BY <1>2, <1>4, <1>5 DEF TreeShape, HoldersInv
  <1>7. Bounded
    <2> PICK h : h = [n \in Nodes |-> IF n \in 2 .. C THEN {Seed[n]} ELSE {}]
      OBVIOUS
    <2>1. \A n \in 2 .. C : n \in Nodes /\ n \in 1 .. C + 1
      BY <1>1
    <2>2. h \in [Nodes -> SUBSET Nat] /\ h[Root] = {}
      BY <1>1, <2>1
    <2>3. \A i \in Slots : h[1 + i] = IF i < C THEN h[1] \cup {Seed[i + 1]} ELSE h[1]
      <3> SUFFICES ASSUME NEW i \in Slots PROVE h[1 + i] = IF i < C THEN h[1] \cup {Seed[i + 1]} ELSE h[1]
        OBVIOUS
      <3>1. 1 + i \in Nodes /\ 1 + i = i + 1 /\ (1 + i \in 2 .. C <=> i < C) /\ h[1] = {}
        BY <1>1, <2>2
      <3> QED BY <3>1
    <2>4. ASSUME NEW n \in Made, IsInner(n), NEW i \in Slots
          PROVE  h[pointers[n][i]] = IF i < ChildNum THEN h[n] \cup {keys[n][i + 1]} ELSE h[n]
      <3>1. n = 1 /\ n = Root
        BY <1>1, <2>4
      <3>2. i < C => keys[Root][i + 1] = Seed[i + 1]
        BY <1>1
      <3>3. pointers[Root][i] = 1 + i
        BY <1>1
      <3>4. h[1 + i] = IF i < C THEN h[n] \cup {keys[n][i + 1]} ELSE h[n]
        <4>1. CASE i < C
          <5>1. h[1 + i] = h[1] \cup {Seed[i + 1]}
            BY <2>3, <4>1
          <5>2. keys[n][i + 1] = Seed[i + 1] /\ h[n] = h[1]
            BY <3>1, <3>2, <4>1
          <5> QED BY <4>1, <5>1, <5>2
        <4>2. CASE ~(i < C)
          <5>1. h[1 + i] = h[1]
            BY <2>3, <4>2
          <5> QED BY <3>1, <4>2, <5>1
        <4> QED BY <4>1, <4>2
      <3>5. h[pointers[n][i]] = h[1 + i]
        BY <3>1, <3>3
      <3> QED BY <3>4, <3>5
    <2>5. ASSUME NEW n \in Made, NEW i \in 1 .. Used(n), NEW x \in h[n]
          PROVE  keys[n][i] <= x
      <3>1. n \in 2 .. C /\ x = Seed[n] /\ n \in 1 .. C + 1
        BY <1>1, <2>5
      <3>2. PICK l \in Slots : n = 1 + l
        BY <1>1, <1>3, <3>1
      <3>3. Used(n) = 1
        BY <1>1, <3>1
      <3>4. i = 1
        BY <3>3
      <3>5. keys[n][i] = Seed[l] /\ l \in 1 .. C + 1 /\ l < n
        BY <1>1, <3>2, <3>4
      <3>6. Seed[l] < Seed[n] /\ Seed[l] \in Nat /\ Seed[n] \in Nat
        BY <1>1, <3>1, <3>5
      <3> QED BY <3>1, <3>5, <3>6
    <2>6. BoundsOf(h)
      BY <2>2, <2>4, <2>5, Zenon DEF BoundsOf
    <2>7. Below(h)
      BY <2>2 DEF Below, Init
    <2> QED BY <2>6, <2>7, Zenon DEF Bounded
  <1>8. Paths
    <2> SUFFICES ASSUME NEW u \in Threads
                 PROVE  keys[node[u]][1] <= key[u] /\ EndsAt(key[u])[node[u]] = LeafFor(key[u])
      BY DEF Paths
    <2>1. node[u] = Root /\ key[u] \in Nat /\ key[u] >= Seed[1]
      BY <1>2, Registers DEF Init, Loaded, HoldersInv
    <2> QED BY <1>6, <2>1, FromRoot
  <1>9. Stored
    <2> SUFFICES ASSUME NEW k \in completed PROVE k >= Seed[1] /\ k \in KeysIn(LeafFor(k))
      BY DEF Stored
    <2>1. PICK j \in 1 .. C + 1 : k = Seed[j]
      BY <1>1 DEF Init
    <2>2. k \in Nat /\ Seed[1] \in Nat /\ k >= Seed[1]
      BY <1>1, <2>1
    <2> PICK b : b = lowerBoundInner(Root, k)
      OBVIOUS
    <2>3. Root \in Made /\ keys[Root][1] = Seed[1] /\ IsInner(Root)
      BY <1>1, <1>4 DEF Shape
    <2>4. /\ b \in Slots /\ Child(Root, k) \in Made
          /\ keys[Child(Root, k)][1] <= k /\ keys[Child(Root, k)][1] = keys[Root][b]
          /\ \A i \in Slots : i > b => k < keys[Root][i]
      BY <1>6, <2>2, <2>3, Descent
    <2>5. Child(Root, k) = 1 + b
      BY <1>1, <2>4 DEF Child
    <2>6. LeafFor(k) = 1 + b
      <3>1. EndsAt(k)[Root] = EndsAt(k)[Child(Root, k)]
        BY <1>6, <2>2, <2>3, EndsThroughChild
      <3>2. 1 + b \in Made /\ ~IsInner(1 + b)
        BY <1>1, <2>4, <2>5
      <3>3. EndsAt(k)[1 + b] = 1 + b
        BY <1>6, <2>2, <3>2, EndsInLeaf
      <3>4. LeafFor(k) = EndsAt(k)[Root]
        BY <1>6, <2>2, FromRoot
      <3> QED BY <2>5, <3>1, <3>3, <3>4
    <2>7. CASE j \in Slots
      <3>1. keys[Root][b] <= k /\ keys[Root][b] = Seed[b] /\ \A i \in Slots : i > b => k < Seed[i]
        BY <1>1, <2>4
      <3>2. b = j
        <4>1. ~(j > b)
          BY <1>1, <2>1, <2>7, <3>1
        <4>2. ~(j < b)
          <5>1. b \in 1 .. C + 1 /\ Seed[b] \in Nat
            BY <1>1, <2>4
          <5>2. j < b => Seed[j] < Seed[b]
            BY <1>1, <5>1
          <5> QED BY <2>1, <2>2, <3>1, <5>1, <5>2
        <4> QED BY <1>1, <2>4, <4>1, <4>2
      <3>3. keys[1 + b][1] = k
        BY <1>1, <2>1, <2>7, <3>2
      <3>4. 1 \in 1 .. Used(1 + b)
        <4>1. 1 + b \in 1 .. C + 1 /\ 1 + b # 1
          BY <1>1, <2>4
        <4> QED BY SMTT(60), <1>1, <4>1
      <3> QED BY <2>2, <2>6, <3>3, <3>4 DEF KeysIn
    <2>8. CASE j \notin Slots
      <3>1. j = C + 1
        BY <1>1, <2>8
      <3>2. b = C
        <4>1. \A i \in Slots : ~(k < Seed[i])
          <5> SUFFICES ASSUME NEW i \in Slots PROVE ~(k < Seed[i])
            OBVIOUS
          <5>1. i \in 1 .. C + 1 /\ i < C + 1 /\ C + 1 \in 1 .. C + 1
            BY <1>1
          <5>2. Seed[i] < Seed[C + 1] /\ Seed[i] \in Nat /\ Seed[C + 1] \in Nat
            BY <1>1, <5>1
          <5> QED BY <2>1, <3>1, <5>2
        <4>2. C \in Slots
          BY <1>1
        <4>3. ~(C > b)
          BY <1>1, <2>4, <4>1, <4>2
        <4> QED BY <1>1, <2>4, <4>3
      <3>3. keys[1 + b][2] = k /\ 1 + b = C + 1
        BY <1>1, <2>1, <3>1, <3>2
      <3>4. 2 \in 1 .. Used(1 + b)
        <4>1. C + 1 \in 1 .. C + 1 /\ C + 1 # 1
          BY <1>1
        <4> QED BY <1>1, <3>3, <4>1
      <3> QED BY <2>2, <2>6, <3>3, <3>4 DEF KeysIn
    <2> QED BY <2>7, <2>8
  <1>10. \A u \in Threads : WriterOK(u) /\ ReaderOK(u) /\ Sole(u)
    BY DEF Init, WriterOK, ReaderOK, Sole
  <1>11. WritesApart /\ Roomy
    BY RoomInit, InitApart DEF RoomInv
  <1> QED BY <1>2, <1>4, <1>5, <1>7, <1>8, <1>9, <1>10, <1>11 DEF ReachInv

-----------------------------------------------------------------------------
(* What any number of writers can rely on.                                 *)

LEMMA ReachAlways == ASSUME Loaded PROVE Spec => [](apart => ReachInv)
  <1> DEFINE Inv == RoomInv /\ (apart => ReachInv)
  <1>1. Init => Inv
    BY RoomInit, ReachInit
  <1>2. Inv /\ [Next]_vars => Inv'
    <2> SUFFICES ASSUME Inv, [Next]_vars PROVE Inv'
      OBVIOUS
    <2>1. RoomInv'
      BY RoomStep
    <2>2. ASSUME apart' PROVE ReachInv'
      <3>1. apart
        <4>1. CASE UNCHANGED vars
          BY <2>2, <4>1 DEF vars
        <4>2. CASE \E t \in Threads : Move(t)
          BY <2>2, <4>2 DEF Move
        <4> QED BY <4>1, <4>2 DEF Next
      <3>2. HoldersInv' /\ WritesApart' /\ Roomy'
        BY <2>1, <2>2 DEF RoomInv
      <3> QED BY <2>2, <3>1, <3>2, ReachStep
    <2> QED BY <2>1, <2>2
  <1> QED BY <1>1, <1>2, PTL DEF Spec

\* A tree that starts as an empty leaf and a loaded one: the code has no other.
\* Unless two writers have come together below a split, no descent follows a
\* payload and no insertion overruns its leaf; smallnode is followed in a tree
\* that has grown from a cleared one, and never in a loaded one.
THEOREM DescentsStayInTree == ASSUME Cleared \/ Loaded PROVE Spec => []NoWildPointer
  <1>1. CASE Cleared
    <2>1. RoomInv => NoWildPointer
      BY <1>1 DEF RoomInv, Roomy, NoWildPointer
    <2> QED BY <2>1, RoomInit, RoomStep, PTL DEF Spec
  <1>2. CASE Loaded
    <2>1. (apart => ReachInv) => NoWildPointer
      BY DEF ReachInv, WriterOK, NoWildPointer
    <2> QED BY <1>2, <2>1, ReachAlways, PTL
  <1> QED BY <1>1, <1>2

\* In a loaded tree a key whose insert has returned true stays where a descent
\* for it ends, however often its leaf is split and however many threads insert,
\* unless two of them have come together below a split.
THEOREM InsertedStaysReachable == ASSUME Loaded PROVE Spec => []CompletedReachable
  <1>1. (apart => ReachInv) => CompletedReachable
    <2> SUFFICES ASSUME ReachInv, NEW k \in completed
                 PROVE  \/ Found(LeafFor(k), k)
                        \/ \E t \in Threads : pc[t] = "bump" /\ leaf[t] = LeafFor(k)
      BY DEF CompletedReachable
    <2>1. PICK i \in 1 .. Used(LeafFor(k)) : k = keys[LeafFor(k)][i]
      BY DEF ReachInv, Stored, KeysIn
    <2> QED BY <2>1 DEF Used, Bumping, Found
  <1> QED BY <1>1, ReachAlways, PTL

\* In a loaded tree a lookup that runs beside any number of writers finds every
\* key whose insert had returned when it began, also when the version of a leaf
\* overflows, unless two writers have come together below a split.
THEOREM LookupsFindInserted == ASSUME Loaded PROVE Spec => LookupFindsCompleted
  <1>1. ASSUME ReachInv, [Next]_vars, NEW t \in Threads, pc[t] = "getCheck", pc'[t] = "idle", due[t]
        PROVE  ret[t]
    <2>1. PICK u \in Threads : Step(u)
      BY <1>1, MoveIs DEF Next, vars
    <2>2. u = t
      BY <1>1, <2>1, Others DEF ReachInv, HoldersInv
    <2>3. GetCheck(t)
      BY <1>1, <2>1, <2>2 DEF Step, Begin, InsDescend, InsLock, InsType, Split, InsertLeaf, Shift, Bump, InsRelease,
         UpdDescend, UpdLock, UpdLeaf, UpdRelease, GetDescend, Descend, GetVersion, GetSearch
    <2>4. word[node[t]] = version[t]
      <3>1. DOMAIN pc = Threads
        BY <1>1 DEF ReachInv, HoldersInv, TreeInv, TypeOK
      <3> QED BY <1>1, <2>3, <3>1 DEF GetCheck
    <2> QED BY <1>1, <2>4 DEF ReachInv, ReaderOK
  <1>2. (apart => ReachInv) /\ [Next]_vars
          => [\A t \in Threads : apart /\ pc[t] = "getCheck" /\ pc'[t] = "idle" /\ due[t] => ret[t]]_vars
    BY <1>1
  <1> QED BY <1>2, ReachAlways, PTL DEF LookupFindsCompleted, Spec

-----------------------------------------------------------------------------
(* The entries of the inner nodes.                                         *)

\* What holds of 1 and is passed on holds of all numbers up to c.
LEMMA Upwards ==
  ASSUME NEW c \in Nat, c >= 1, NEW S, 1 \in S, \A n \in 1 .. c - 1 : n \in S => n + 1 \in S
  PROVE  \A n \in 1 .. c : n \in S
  <1> SUFFICES ASSUME NEW o \in 1 .. c, o \notin S PROVE FALSE
    OBVIOUS
  <1> DEFINE T == {n \in 1 .. c : n \notin S}
  <1>1. T # {} /\ \A x \in T : x \in Nat
    OBVIOUS
  <1>2. PICK m \in T : \A x \in T : m <= x
    <2> HIDE DEF T
    <2> QED BY <1>1, LeastNumber
  <1>3. m \in 1 .. c /\ m \notin S /\ m # 1
    BY <1>2
  <1>4. m - 1 \in 1 .. c - 1 /\ (m - 1) + 1 = m /\ m - 1 \in 1 .. c
    BY <1>3
  <1>5. m - 1 \notin S
    BY <1>3, <1>4
  <1>6. m - 1 \in T
    BY <1>4, <1>5
  <1> HIDE DEF T
  <1>7. m <= m - 1
    BY <1>2, <1>6
  <1> QED BY <1>4, <1>7

\* FlattenSeq joins its parts one after the other.
Pieces(Z, c, s) ==
  /\ c \in Nat /\ c >= 1 /\ s \in [1 .. c -> Z]
  /\ \A x, y \in Z : x \o y \in Z

JoinedUp(Z, c, s) ==
  \E f \in [1 .. c -> Z] :
    /\ f[1] = s[1] /\ \A i \in 2 .. c : f[i] = f[i - 1] \o s[i]
    /\ FlattenSeq(s) = f[c]

LEMMA Flattens ==
  ASSUME NEW Z, NEW c, NEW s, Pieces(Z, c, s)
  PROVE  JoinedUp(Z, c, s)
  <1> SUFFICES ASSUME c \in Nat, c >= 1, s \in [1 .. c -> Z], \A x, y \in Z : x \o y \in Z
               PROVE  \E f \in [1 .. c -> Z] :
                        /\ f[1] = s[1] /\ \A i \in 2 .. c : f[i] = f[i - 1] \o s[i]
                        /\ FlattenSeq(s) = f[c]
    BY Zenon DEF Pieces, JoinedUp
  <1> DEFINE Joined(f, n) == f[1] = s[1] /\ \A i \in 2 .. n : f[i] = f[i - 1] \o s[i]
             S == {n \in 1 .. c : \E f \in [1 .. c -> Z] : Joined(f, n)}
  <1>1. 1 \in S
    <2>1. Joined(s, 1) /\ 1 \in 1 .. c
      OBVIOUS
    <2> QED BY <2>1
  <1>2. ASSUME NEW n \in 1 .. c - 1, n \in S PROVE n + 1 \in S
    <2>1. PICK f \in [1 .. c -> Z] : Joined(f, n)
      BY <1>2
    <2>2. n + 1 \in 1 .. c /\ n \in 1 .. c /\ 1 \in 1 .. c /\ n + 1 # 1 /\ (n + 1) - 1 = n
      OBVIOUS
    <2>3. f[n] \o s[n + 1] \in Z
      BY <2>2
    <2>4. PICK g \in [1 .. c -> Z] : g = [f EXCEPT ![n + 1] = f[n] \o s[n + 1]]
      BY <2>3
    <2>5. \A i \in 1 .. n : g[i] = f[i]
      BY <2>4
    <2>6. \A i \in 2 .. n : g[i] = g[i - 1] \o s[i]
      <3> SUFFICES ASSUME NEW i \in 2 .. n PROVE g[i] = g[i - 1] \o s[i]
        OBVIOUS
      <3>1. i \in 1 .. n /\ i - 1 \in 1 .. n
        OBVIOUS
      <3>2. g[i] = f[i] /\ g[i - 1] = f[i - 1]
        BY <2>5, <3>1
      <3>3. f[i] = f[i - 1] \o s[i]
        BY <2>1
      <3> QED BY <3>2, <3>3
    <2>7. g[n + 1] = g[n] \o s[n + 1]
      <3>1. g[n] = f[n] /\ n \in 1 .. n
        BY <2>5
      <3>2. g[n + 1] = f[n] \o s[n + 1]
        BY <2>2, <2>4
      <3> QED BY <3>1, <3>2
    <2>8. \A i \in 2 .. n + 1 : i \in 2 .. n \/ i = n + 1
      OBVIOUS
    <2>9. g[1] = s[1]
      BY <2>1, <2>5
    <2>10. Joined(g, n + 1)
      BY <2>2, <2>6, <2>7, <2>8, <2>9
    <2> QED BY <2>2, <2>10
  <1>3. c \in S
    <2> HIDE DEF S
    <2>1. c \in 1 .. c
      OBVIOUS
    <2> QED BY <1>1, <1>2, <2>1, Upwards
  <1>4. PICK f \in [1 .. c -> Z] : f[1] = s[1] /\ \A i \in 2 .. c : f[i] = f[i - 1] \o s[i]
    BY <1>3
  <1>5. Len(s) = c /\ Len(s) # 0
    OBVIOUS
  <1> DEFINE P(g) == g = [i \in 1 .. Len(s) |-> IF i = 1 THEN s[i] ELSE g[i - 1] \o s[i]]
  <1>6. P(f)
    <2>1. \A i \in 1 .. c : f[i] = IF i = 1 THEN s[i] ELSE f[i - 1] \o s[i]
      <3> SUFFICES ASSUME NEW i \in 1 .. c PROVE f[i] = IF i = 1 THEN s[i] ELSE f[i - 1] \o s[i]
        OBVIOUS
      <3>1. CASE i = 1
        BY <1>4, <3>1
      <3>2. CASE i # 1
        <4>1. i \in 2 .. c
          BY <3>2
        <4> QED BY <1>4, <3>2, <4>1
      <3> QED BY <3>1, <3>2
    <2>2. f = [i \in 1 .. c |-> IF i = 1 THEN s[i] ELSE f[i - 1] \o s[i]]
      BY <2>1
    <2> QED BY <1>5, <2>2
  <1>7. P(CHOOSE g : P(g))
    <2> HIDE DEF P
    <2> QED BY <1>6
  <1> PICK h : h = CHOOSE g : P(g)
    OBVIOUS
  <1>8. FlattenSeq(s) = h[c]
    BY <1>5, Zenon DEF FlattenSeq
  <1>9. h = [i \in 1 .. c |-> IF i = 1 THEN s[i] ELSE h[i - 1] \o s[i]]
    BY ZenonT(60), <1>5, <1>7
  <1>10. \A i \in 1 .. c : h[i] = f[i]
    <2> DEFINE Q == {i \in 1 .. c : h[i] = f[i]}
    <2>1. 1 \in Q
      <3>1. 1 \in 1 .. c
        OBVIOUS
      <3>2. h[1] = s[1]
        BY <1>9, <3>1
      <3> QED BY <1>4, <3>1, <3>2
    <2>2. ASSUME NEW n \in 1 .. c - 1, n \in Q PROVE n + 1 \in Q
      <3>1. n + 1 \in 2 .. c /\ n + 1 \in 1 .. c /\ (n + 1) - 1 = n /\ n + 1 # 1
        OBVIOUS
      <3>2. h[n + 1] = h[n] \o s[n + 1]
        BY <1>9, <3>1
      <3>3. f[n + 1] = f[n] \o s[n + 1]
        BY <1>4, <3>1
      <3> QED BY <2>2, <3>1, <3>2, <3>3
    <2> HIDE DEF Q
    <2>3. \A n \in 1 .. c : n \in Q
      BY <2>1, <2>2, Upwards
    <2> QED BY <2>3 DEF Q
  <1>11. c \in 1 .. c
    OBVIOUS
  <1> QED BY <1>4, <1>8, <1>10, <1>11

\* Entries: their keys from a on and not above any of U, and a search among them
\* for k ends at the leaf E has for k.
Entries == Seq([key : Nat, leaf : Nodes])

LEMMA EntriesJoin ==
  \A x, y \in Entries : x \o y \in Entries
  BY DEF Entries

Splits(e, k, j, l) ==
  /\ j \in 1 .. Len(e) /\ \A i \in 1 .. Len(e) : i <= j <=> e[i].key <= k
  /\ e[j].leaf = l

Part(e, a, U, E) ==
  /\ e \in Entries /\ Len(e) >= 1 /\ a \in Nat /\ U \subseteq Nat
  /\ \A i \in 1 .. Len(e) : a <= e[i].key /\ \A x \in U : e[i].key <= x
  /\ \A k \in Nat : k >= a => \E j : Splits(e, k, j, E[k])

LEMMA JoinedAt ==
  ASSUME NEW V, NEW a \in Seq(V), NEW b \in Seq(V)
  PROVE  /\ a \o b \in Seq(V) /\ Len(a) \in Nat /\ Len(b) \in Nat /\ Len(a \o b) = Len(a) + Len(b)
         /\ \A i \in 1 .. Len(a) : (a \o b)[i] = a[i] /\ a[i] \in V
         /\ \A i \in 1 .. Len(b) : (a \o b)[Len(a) + i] = b[i] /\ b[i] \in V
  OBVIOUS

LEMMA Joins ==
  ASSUME NEW e1, NEW a1, NEW U1, NEW E1, Part(e1, a1, U1, E1),
         NEW e2, NEW a2, NEW U2, NEW E2, Part(e2, a2, U2, E2),
         a1 <= a2, a2 \in U1, NEW U, U \subseteq U2, \A x \in U : x \in U1 \/ a2 <= x,
         NEW E, \A k \in Nat : k >= a1 => E[k] = IF k < a2 THEN E1[k] ELSE E2[k]
  PROVE  Part(e1 \o e2, a1, U, E)
  <1> PICK e, p, q : e = e1 \o e2 /\ p = Len(e1) /\ q = Len(e2)
    OBVIOUS
  <1>1. /\ e1 \in Entries /\ e2 \in Entries /\ e \in Entries /\ p \in Nat /\ q \in Nat /\ p >= 1 /\ q >= 1
        /\ Len(e) = p + q /\ a1 \in Nat /\ a2 \in Nat /\ U \subseteq Nat
    BY DEF Part, Entries
  <1>2. \A i \in 1 .. p : e[i] = e1[i] /\ e1[i].key \in Nat /\ i \in 1 .. p + q
    <2> SUFFICES ASSUME NEW i \in 1 .. p
                 PROVE  e[i] = e1[i] /\ e1[i].key \in Nat /\ i \in 1 .. p + q
      OBVIOUS
    <2>1. i \in 1 .. p + q
      BY <1>1
    <2>2. e1[i] \in [key : Nat, leaf : Nodes]
      BY <1>1, JoinedAt DEF Entries
    <2>3. e1[i].key \in Nat
      BY <2>2
    <2>4. e[i] = e1[i]
      BY <1>1, JoinedAt DEF Entries
    <2> QED BY <2>1, <2>3, <2>4
  <1>3. \A i \in 1 .. q : e[p + i] = e2[i] /\ e2[i].key \in Nat /\ p + i \in 1 .. p + q
    <2> SUFFICES ASSUME NEW i \in 1 .. q
                 PROVE  e[p + i] = e2[i] /\ e2[i].key \in Nat /\ p + i \in 1 .. p + q
      OBVIOUS
    <2>1. p + i \in 1 .. p + q /\ p + i > p /\ (p + i) - p = i
      BY <1>1
    <2>2. e2[i] \in [key : Nat, leaf : Nodes]
      BY <1>1, JoinedAt DEF Entries
    <2>3. e2[i].key \in Nat
      BY <2>2
    <2>4. e[p + i] = e2[i]
      BY <1>1, JoinedAt DEF Entries
    <2> QED BY <2>1, <2>3, <2>4
  <1>4. \A i \in 1 .. p + q : i \in 1 .. p \/ \E l \in 1 .. q : i = p + l
    <2> SUFFICES ASSUME NEW i \in 1 .. p + q, i \notin 1 .. p PROVE \E l \in 1 .. q : i = p + l
      OBVIOUS
    <2>1. i - p \in 1 .. q /\ i = p + (i - p)
      BY <1>1
    <2> QED BY <2>1
  <1>5. /\ \A i \in 1 .. p : a1 <= e1[i].key /\ e1[i].key <= a2 /\ \A x \in U : e1[i].key <= x
        /\ \A i \in 1 .. q : a2 <= e2[i].key /\ \A x \in U : e2[i].key <= x
    <2>1. /\ \A i \in 1 .. p : a1 <= e1[i].key /\ e1[i].key <= a2 /\ \A x \in U \cap U1 : e1[i].key <= x
          /\ \A i \in 1 .. q : a2 <= e2[i].key /\ \A x \in U : e2[i].key <= x
      BY DEF Part
    <2>2. ASSUME NEW i \in 1 .. p, NEW x \in U PROVE e1[i].key <= x
      <3>1. e1[i].key \in Nat /\ x \in Nat /\ a2 \in Nat /\ e1[i].key <= a2
        BY <1>1, <1>2, <2>1
      <3> QED BY <2>1, <3>1
    <2> QED BY <2>1, <2>2
  <1>6. \A i \in 1 .. p + q : a1 <= e[i].key /\ \A x \in U : e[i].key <= x
    <2> SUFFICES ASSUME NEW i \in 1 .. p + q PROVE a1 <= e[i].key /\ \A x \in U : e[i].key <= x
      OBVIOUS
    <2>1. CASE i \in 1 .. p
      BY <1>2, <1>5, <2>1
    <2>2. CASE i \notin 1 .. p
      <3>1. PICK l \in 1 .. q : i = p + l
        BY <1>4, <2>2
      <3>2. e[i] = e2[l] /\ e2[l].key \in Nat
        BY <1>3, <3>1
      <3> QED BY <1>1, <1>5, <3>1, <3>2
    <2> QED BY <2>1, <2>2
  <1>7. ASSUME NEW k \in Nat, k >= a1 PROVE \E j : Splits(e, k, j, E[k])
    <2>1. CASE k < a2
      <3>1. PICK j : Splits(e1, k, j, E1[k])
        BY <1>7 DEF Part
      <3>2. j \in 1 .. p /\ (\A i \in 1 .. p : i <= j <=> e1[i].key <= k) /\ e1[j].leaf = E[k]
        BY <1>7, <2>1, <3>1 DEF Splits
      <3>3. ASSUME NEW i \in 1 .. p + q PROVE i <= j <=> e[i].key <= k
        <4>1. CASE i \in 1 .. p
          BY <1>2, <3>2, <4>1
        <4>2. CASE i \notin 1 .. p
          <5>1. PICK l \in 1 .. q : i = p + l
            BY <1>4, <4>2
          <5>2. ~(i <= j)
            BY <1>1, <3>2, <5>1
          <5>3. e[i] = e2[l] /\ e2[l].key \in Nat /\ a2 <= e2[l].key
            BY <1>3, <1>5, <5>1
          <5>4. ~(e[i].key <= k)
            BY <1>1, <2>1, <5>3
          <5> QED BY <5>2, <5>4
        <4> QED BY <4>1, <4>2
      <3>4. Splits(e, k, j, E[k])
        BY <1>1, <1>2, <3>2, <3>3 DEF Splits
      <3> QED BY <3>4
    <2>2. CASE ~(k < a2)
      <3>1. k >= a2
        BY <1>1, <2>2
      <3>2. PICK j : Splits(e2, k, j, E2[k])
        BY <3>1 DEF Part
      <3>3. j \in 1 .. q /\ (\A i \in 1 .. q : i <= j <=> e2[i].key <= k) /\ e2[j].leaf = E[k]
        BY <1>7, <2>2, <3>2 DEF Splits
      <3>4. ASSUME NEW i \in 1 .. p + q PROVE i <= p + j <=> e[i].key <= k
        <4>1. CASE i \in 1 .. p
          <5>1. e[i].key \in Nat /\ e[i].key <= a2
            BY <1>2, <1>5, <4>1
          <5>2. i <= p + j
            BY <1>1, <3>3, <4>1
          <5> QED BY <1>1, <3>1, <5>1, <5>2
        <4>2. CASE i \notin 1 .. p
          <5>1. PICK l \in 1 .. q : i = p + l
            BY <1>4, <4>2
          <5>2. e[i] = e2[l]
            BY <1>3, <5>1
          <5>3. i <= p + j <=> l <= j
            BY <1>1, <3>3, <5>1
          <5> QED BY <3>3, <5>2, <5>3
        <4> QED BY <4>1, <4>2
      <3>5. Splits(e, k, p + j, E[k])
        BY <1>1, <1>3, <3>3, <3>4 DEF Splits
      <3> QED BY <3>5
    <2> QED BY <2>1, <2>2
  <1>8. Len(e) >= 1
    BY <1>1
  <1> QED BY <1>1, <1>6, <1>7, <1>8 DEF Part

\* e2 goes on where e1 ends.
Adjoins(e1, a1, U1, E1, e2, a2, U2, E2, E) ==
  /\ Part(e1, a1, U1, E1) /\ Part(e2, a2, U2, E2)
  /\ a1 <= a2 /\ a2 \in U1 /\ \A x \in U2 : x \in U1 \/ a2 <= x
  /\ \A k \in Nat : k >= a1 => E[k] = IF k < a2 THEN E1[k] ELSE E2[k]

LEMMA Adjoined ==
  ASSUME NEW e1, NEW a1, NEW U1, NEW E1, NEW e2, NEW a2, NEW U2, NEW E2, NEW E,
         Adjoins(e1, a1, U1, E1, e2, a2, U2, E2, E)
  PROVE  Part(e1 \o e2, a1, U2, E)
  <1>1. U2 \subseteq U2
    OBVIOUS
  <1> QED BY <1>1, Joins DEF Adjoins

\* c pieces that follow each other, from a[1] on and not above any of U.
Row(c, s, a, U, W, D, E) ==
  /\ c \in Nat /\ c >= 1 /\ s \in [1 .. c -> Entries] /\ a \in [1 .. c -> Nat]
  /\ \A i \in 1 .. c - 1 : a[i] < a[i + 1]
  /\ U \subseteq Nat /\ \A i \in 1 .. c : \A x \in U : a[i] <= x
  /\ \A i \in 1 .. c : W[i] = IF i < c THEN U \cup {a[i + 1]} ELSE U
  /\ \A i \in 1 .. c : Part(s[i], a[i], W[i], D[i])
  /\ \A i \in 1 .. c : \A k \in Nat :
       a[i] <= k /\ (i < c => k < a[i + 1]) => E[k] = D[i][k]

LEMMA RowJoins ==
  ASSUME NEW c, NEW s, NEW a, NEW U, NEW W, NEW D, NEW E, Row(c, s, a, U, W, D, E)
  PROVE  Part(FlattenSeq(s), a[1], U, E)
  <1> SUFFICES
        ASSUME c \in Nat, c >= 1, s \in [1 .. c -> Entries], a \in [1 .. c -> Nat],
               \A i \in 1 .. c - 1 : a[i] < a[i + 1],
               U \subseteq Nat, \A i \in 1 .. c : \A x \in U : a[i] <= x,
               \A i \in 1 .. c : W[i] = IF i < c THEN U \cup {a[i + 1]} ELSE U,
               \A i \in 1 .. c : Part(s[i], a[i], W[i], D[i]),
               \A i \in 1 .. c : \A k \in Nat :
                 a[i] <= k /\ (i < c => k < a[i + 1]) => E[k] = D[i][k]
        PROVE  Part(FlattenSeq(s), a[1], U, E)
    BY Zenon DEF Row
  <1>1. PICK f \in [1 .. c -> Entries] :
           /\ f[1] = s[1] /\ \A i \in 2 .. c : f[i] = f[i - 1] \o s[i]
           /\ FlattenSeq(s) = f[c]
    <2>1. Pieces(Entries, c, s)
      BY EntriesJoin DEF Pieces
    <2>2. JoinedUp(Entries, c, s)
      BY <2>1, Flattens
    <2> QED BY <2>2 DEF JoinedUp
  <1> DEFINE G == [i \in 1 .. c |-> [k \in Nat |-> IF k < a[i] THEN E[k] ELSE D[i][k]]]
             S == {i \in 1 .. c : a[1] <= a[i] /\ Part(f[i], a[1], W[i], G[i])}
  <1>2. \A i \in 1 .. c : \A k \in Nat : G[i][k] = IF k < a[i] THEN E[k] ELSE D[i][k]
    OBVIOUS
  <1>3. 1 \in S
    <2>1. 1 \in 1 .. c /\ a[1] \in Nat
      OBVIOUS
    <2>2. \A k \in Nat : k >= a[1] => G[1][k] = D[1][k]
      BY <1>2, <2>1
    <2>3. Part(s[1], a[1], W[1], D[1])
      BY <2>1
    <2> HIDE DEF G
    <2>4. Part(s[1], a[1], W[1], G[1])
      BY <2>2, <2>3 DEF Part
    <2> QED BY <1>1, <2>1, <2>4
  <1>4. ASSUME NEW i \in 1 .. c - 1, i \in S PROVE i + 1 \in S
    <2>1. /\ i \in 1 .. c /\ i + 1 \in 1 .. c /\ i + 1 \in 2 .. c /\ (i + 1) - 1 = i /\ i < c
          /\ 1 \in 1 .. c
      OBVIOUS
    <2>2. a[1] \in Nat /\ a[i] \in Nat /\ a[i + 1] \in Nat /\ a[i] < a[i + 1]
      BY <2>1
    <2>3. PICK j \in 1 .. c : j = i + 1
      BY <2>1
    <2>4. f[j] = f[i] \o s[j]
      BY <1>1, <2>1, <2>3
    <2>5. Part(f[i], a[1], W[i], G[i]) /\ Part(s[j], a[j], W[j], D[j]) /\ a[1] <= a[i]
      BY <1>4
    <2>6. a[1] <= a[j] /\ W[i] = U \cup {a[j]}
      <3>1. W[i] = IF i < c THEN U \cup {a[i + 1]} ELSE U
        BY <2>1
      <3>2. \A x, y, z \in Nat : x <= y /\ y < z => x <= z
        OBVIOUS
      <3>3. a[1] <= a[i + 1]
        BY <2>2, <2>5, <3>2
      <3> QED BY <2>1, <2>3, <3>1, <3>3
    <2>7. a[j] \in W[i] /\ W[j] \subseteq W[j] /\ \A x \in W[j] : x \in W[i] \/ a[j] <= x
      <3>1. j < c => j \in 1 .. c - 1
        OBVIOUS
      <3>2. j < c => a[j] < a[j + 1] /\ a[j + 1] \in Nat /\ a[j] \in Nat
        BY <3>1
      <3>3. \A x \in W[j] : x \in U \/ (j < c /\ x = a[j + 1])
        OBVIOUS
      <3> QED BY <2>6, <3>2, <3>3
    <2>8. \A k \in Nat : k >= a[1] => G[j][k] = IF k < a[j] THEN G[i][k] ELSE D[j][k]
      <3> SUFFICES ASSUME NEW k \in Nat, k >= a[1], k < a[j] PROVE E[k] = G[i][k]
        BY <1>2
      <3>1. CASE k < a[i]
        BY <1>2, <2>1, <3>1
      <3>2. CASE ~(k < a[i])
        <4>1. a[i] <= k /\ k < a[i + 1]
          BY <2>1, <2>3, <3>2
        <4> QED BY <1>2, <2>1, <3>2, <4>1
      <3> QED BY <3>1, <3>2
    <2> HIDE DEF G
    <2>9. Part(f[i] \o s[j], a[1], W[j], G[j])
      <3> PICK e1, a1, U1, E1, e2, a2, U2, E2 :
            /\ e1 = f[i] /\ a1 = a[1] /\ U1 = W[i] /\ E1 = G[i]
            /\ e2 = s[j] /\ a2 = a[j] /\ U2 = W[j] /\ E2 = D[j]
        OBVIOUS
      <3> PICK E3 : E3 = G[j]
        OBVIOUS
      <3>1. Part(e1, a1, U1, E1) /\ Part(e2, a2, U2, E2)
        BY <2>5, Zenon
      <3>2. a1 <= a2 /\ a2 \in U1 /\ \A x \in U2 : x \in U1 \/ a2 <= x
        BY <2>6, <2>7, Zenon
      <3>3. \A k \in Nat : k >= a1 => E3[k] = IF k < a2 THEN E1[k] ELSE E2[k]
        BY <2>8
      <3>4. Part(e1 \o e2, a1, U2, E3)
        <4>1. Adjoins(e1, a1, U1, E1, e2, a2, U2, E2, E3)
          BY <3>1, <3>2, <3>3, Zenon DEF Adjoins
        <4> QED BY <4>1, Adjoined
      <3> QED BY <3>4, Zenon
    <2> QED BY <2>3, <2>4, <2>6, <2>9
  <1>5. c \in S
    <2> HIDE DEF S
    <2>1. c \in 1 .. c
      OBVIOUS
    <2> QED BY <1>3, <1>4, <2>1, Upwards
  <1>6. Part(f[c], a[1], U, G[c])
    <2>1. W[c] = U
      <3>1. c \in 1 .. c /\ ~(c < c)
        OBVIOUS
      <3> QED BY <3>1
    <2>2. Part(f[c], a[1], W[c], G[c])
      BY <1>5, Zenon
    <2> QED BY <2>1, <2>2, Zenon
  <1>7. \A k \in Nat : G[c][k] = E[k]
    BY <1>2
  <1> HIDE DEF G
  <1> QED BY <1>1, <1>6, <1>7 DEF Part

\* What getAllInner visits of n.
Visits(f, n) ==
  [i \in 1 .. count[n] |-> IF IsInner(pointers[n][i]) THEN f[pointers[n][i]] ELSE Entry(n, i)]
Visited == CHOOSE f : f = [n \in Nodes |-> IF IsInner(n) THEN FlattenSeq(Visits(f, n)) ELSE <<>>]

\* Where descents from n end.
Leads(n) == [k \in Nat |-> EndsAt(k)[n]]

LEMMA InnerNodes ==
  ASSUME TreeShape, NEW n \in Nodes, IsInner(n)
  PROVE  /\ n \in Made /\ count[n] = ChildNum /\ ChildNum \in Nat /\ ChildNum >= 2
         /\ Slots = 1 .. ChildNum
         /\ \A i \in 1 .. ChildNum : /\ pointers[n][i] \in Nodes /\ pointers[n][i] \in Made
                                     /\ pointers[n][i] \in n + 1 .. MaxNodes
                                     /\ keys[n][i] \in Nat
                                     /\ keys[pointers[n][i]][1] = keys[n][i]
  <1>1. n \in Made /\ TypeOK /\ Nodes = 1 .. MaxNodes /\ MaxNodes \in Nat /\ next <= MaxNodes + 1
        /\ n \in Nat /\ n >= 1 /\ next \in Nat
    <2>1. TypeOK /\ n < next
      BY DEF TreeShape, TreeInv
    <2>2. next \in 2 .. MaxNodes + 1
      BY <2>1 DEF TypeOK
    <2>3. Nodes = 1 .. MaxNodes /\ MaxNodes \in Nat
      BY SizesAssumption DEF Nodes
    <2>4. n \in Made
      BY <2>1, MadeNodes
    <2> QED BY <2>1, <2>2, <2>3, <2>4
  <1>2. count[n] = ChildNum /\ ChildNum \in Nat /\ ChildNum >= 2 /\ Slots = 1 .. ChildNum
        /\ \A i \in Slots : keys[n][i] \in Nat
    BY <1>1, KeysAreNumbers DEF TreeShape, TreeInv
  <1>3. \A i \in Slots : pointers[n][i] \in n + 1 .. next - 1 /\ keys[pointers[n][i]][1] = keys[n][i]
    BY <1>1 DEF TreeShape, Shape
  <1>4. \A m \in n + 1 .. next - 1 : m \in Nodes /\ m \in Made /\ m \in n + 1 .. MaxNodes
    BY <1>1 DEF Made
  <1> QED BY <1>1, <1>2, <1>3, <1>4

LEMMA EntryOf ==
  ASSUME TreeShape, NEW n \in Nodes, IsInner(n), NEW i \in 1 .. ChildNum
  PROVE  /\ Entry(n, i) \in Entries /\ Len(Entry(n, i)) = 1
         /\ Entry(n, i)[1].key = keys[n][i] /\ Entry(n, i)[1].leaf = pointers[n][i]
  BY InnerNodes DEF Entry, Entries

LEMMA VisitedIs ==
  ASSUME TreeShape
  PROVE  /\ Visited \in [Nodes -> Entries]
         /\ \A n \in Nodes : IsInner(n) => Visited[n] = FlattenSeq(Visits(Visited, n))
         /\ InnerEntries = Visited[Root]
  <1> DEFINE V == [Nodes -> Entries]
             H == [n \in Nodes |-> [f \in V |-> IF IsInner(n) THEN FlattenSeq(Visits(f, n)) ELSE <<>>]]
  <1>1. MaxNodes \in Nat /\ Root \in Nodes /\ Nodes = 1 .. MaxNodes /\ Made \subseteq Nodes
    BY SizesAssumption, MadeNodes DEF Root, Nodes, TreeShape, TreeInv
  <1>2. ASSUME NEW n \in Nodes, NEW f, \A m \in n + 1 .. MaxNodes : f[m] \in Entries, IsInner(n)
        PROVE  Visits(f, n) \in [1 .. ChildNum -> Entries] /\ FlattenSeq(Visits(f, n)) \in Entries
    <2>1. count[n] = ChildNum /\ ChildNum \in Nat /\ ChildNum >= 1
      BY <1>2, InnerNodes
    <2>2. \A i \in 1 .. ChildNum :
            (IF IsInner(pointers[n][i]) THEN f[pointers[n][i]] ELSE Entry(n, i)) \in Entries
      BY <1>2, InnerNodes, EntryOf
    <2>3. Visits(f, n) \in [1 .. ChildNum -> Entries]
      BY <2>1, <2>2 DEF Visits
    <2>4. Pieces(Entries, ChildNum, Visits(f, n))
      BY <2>1, <2>3, EntriesJoin DEF Pieces
    <2>5. JoinedUp(Entries, ChildNum, Visits(f, n))
      BY <2>4, Flattens
    <2>6. FlattenSeq(Visits(f, n)) \in Entries
      <3> PICK z : z = Visits(f, n)
        OBVIOUS
      <3>1. PICK g \in [1 .. ChildNum -> Entries] : FlattenSeq(z) = g[ChildNum]
        BY <2>5 DEF JoinedUp
      <3>2. ChildNum \in 1 .. ChildNum
        BY <2>1
      <3> QED BY <3>1, <3>2
    <2> QED BY <2>3, <2>6
  <1>3. <<>> \in Entries
    BY DEF Entries
  <1>4. H \in [Nodes -> [V -> Entries]]
    <2> SUFFICES ASSUME NEW n \in Nodes, NEW f \in V, IsInner(n)
                 PROVE  FlattenSeq(Visits(f, n)) \in Entries
      BY <1>3
    <2>1. \A m \in n + 1 .. MaxNodes : f[m] \in Entries
      BY <1>1
    <2> QED BY <1>2, <2>1
  <1>5. ASSUME NEW n \in Nodes, NEW f \in V, NEW g \in V, \A m \in n + 1 .. MaxNodes : f[m] = g[m]
        PROVE  H[n][f] = H[n][g]
    <2>1. CASE IsInner(n)
      <3>1. \A i \in 1 .. count[n] : pointers[n][i] \in n + 1 .. MaxNodes
        BY <2>1, InnerNodes
      <3>2. Visits(f, n) = Visits(g, n)
        BY <1>5, <3>1 DEF Visits
      <3> QED BY <2>1, <3>2
    <2>2. CASE ~IsInner(n)
      BY <2>2
    <2> QED BY <2>1, <2>2
  <1> HIDE DEF H
  <1>6. PICK f \in V : f = [n \in Nodes |-> H[n][f]]
    <2>1. MaxNodes \in Nat /\ Nodes = 1 .. MaxNodes /\ Entries # {}
      BY <1>1, <1>3
    <2>2. FromAbove(MaxNodes, Nodes, Entries, H)
      BY <1>4, <1>5, <2>1, Zenon DEF FromAbove
    <2>3. Solved(Nodes, Entries, H)
      BY <2>2, TopDown
    <2> QED BY <2>3, Zenon DEF Solved
  <1>7. f = [n \in Nodes |-> IF IsInner(n) THEN FlattenSeq(Visits(f, n)) ELSE <<>>]
    BY <1>6 DEF H
  <1>8. Visited = [n \in Nodes |-> IF IsInner(n) THEN FlattenSeq(Visits(Visited, n)) ELSE <<>>]
    <2> DEFINE P(h) == h = [n \in Nodes |-> IF IsInner(n) THEN FlattenSeq(Visits(h, n)) ELSE <<>>]
    <2>1. P(f)
      BY <1>7
    <2>2. P(CHOOSE h : P(h))
      <3> HIDE DEF P
      <3> QED BY <2>1
    <2> QED BY <2>2 DEF Visited
  <1>9. \A n \in Nodes : Visited[n] = IF IsInner(n) THEN FlattenSeq(Visits(Visited, n)) ELSE <<>>
    <2>1. \A h : h = [n \in Nodes |-> IF IsInner(n) THEN FlattenSeq(Visits(h, n)) ELSE <<>>] =>
            \A n \in Nodes : h[n] = IF IsInner(n) THEN FlattenSeq(Visits(h, n)) ELSE <<>>
      OBVIOUS
    <2> QED BY <1>8, <2>1
  <1>10. InnerEntries = Visited[Root]
    BY Zenon DEF InnerEntries, Visited, Visits
  <1>11. \A n \in Nodes : Visited[n] \in Entries
    <2> DEFINE S == {n \in Nodes : Visited[n] \in Entries}
    <2>1. ASSUME NEW n \in 1 .. MaxNodes, \A m \in n + 1 .. MaxNodes : m \in S PROVE n \in S
      <3>1. \A m \in n + 1 .. MaxNodes : Visited[m] \in Entries
        BY <2>1
      <3>2. IsInner(n) => FlattenSeq(Visits(Visited, n)) \in Entries
        BY <1>1, <1>2, <3>1
      <3> QED BY <1>1, <1>3, <1>9, <3>2
    <2>2. \A n \in 1 .. MaxNodes : n \in S
      <3> HIDE DEF S
      <3> QED BY <1>1, <2>1, Downwards
    <2> QED BY <1>1, <2>2
  <1>12. Visited \in [Nodes -> Entries]
    <2>1. \A h : h = [n \in Nodes |-> IF IsInner(n) THEN FlattenSeq(Visits(h, n)) ELSE <<>>]
                   /\ (\A n \in Nodes : h[n] \in Entries) => h \in [Nodes -> Entries]
      OBVIOUS
    <2> QED BY <1>8, <1>11, <2>1
  <1> QED BY <1>9, <1>10, <1>12

LEMMA EntryPart ==
  ASSUME TreeShape, NEW n \in Nodes, IsInner(n), NEW i \in 1 .. ChildNum,
         ~IsInner(pointers[n][i]),
         NEW U, U \subseteq Nat, \A x \in U : keys[n][i] <= x
  PROVE  Part(Entry(n, i), keys[n][i], U, Leads(pointers[n][i]))
  <1> PICK c, e, a : c = pointers[n][i] /\ e = Entry(n, i) /\ a = keys[n][i]
    OBVIOUS
  <1>1. e \in Entries /\ Len(e) = 1 /\ e[1].key = a /\ e[1].leaf = c
    BY EntryOf
  <1>2. c \in Made /\ a \in Nat
    BY InnerNodes
  <1>3. \A k \in Nat : Leads(c)[k] = c
    <2> SUFFICES ASSUME NEW k \in Nat PROVE EndsAt(k)[c] = c
      BY DEF Leads
    <2> QED BY <1>2, EndsInLeaf
  <1>4. ASSUME NEW k \in Nat, k >= a PROVE \E j : Splits(e, k, j, Leads(c)[k])
    <2>1. Splits(e, k, 1, Leads(c)[k])
      BY <1>1, <1>2, <1>3, <1>4 DEF Splits
    <2> QED BY <2>1
  <1>5. \A j \in 1 .. Len(e) : a <= e[j].key /\ \A x \in U : e[j].key <= x
    BY <1>1, <1>2
  <1>6. Part(e, a, U, Leads(c))
    BY <1>1, <1>2, <1>4, <1>5 DEF Part
  <1> QED BY <1>6

\* A descent for a key that is not below the i-th key of n, and below the next,
\* goes to its i-th child.
LEMMA LeadsTo ==
  ASSUME TreeShape, NEW n \in Nodes, IsInner(n), NEW i \in 1 .. ChildNum, NEW k \in Nat,
         keys[n][i] <= k, i < ChildNum => k < keys[n][i + 1]
  PROVE  Leads(n)[k] = Leads(pointers[n][i])[k]
  <1> PICK b : b = lowerBoundInner(n, k)
    OBVIOUS
  <1>1. /\ n \in Made /\ ChildNum \in Nat /\ Slots = 1 .. ChildNum /\ count[n] = ChildNum
        /\ \A j \in 1 .. ChildNum : keys[n][j] \in Nat
    BY InnerNodes
  <1>2. \A j, l \in 1 .. ChildNum : j < l => keys[n][j] < keys[n][l]
    BY <1>1, Sorts
  <1>3. k >= keys[n][1]
    <2>1. 1 \in 1 .. ChildNum /\ (i = 1 \/ 1 < i)
      BY <1>1
    <2>2. i = 1 \/ keys[n][1] < keys[n][i]
      BY <1>2, <2>1
    <2> QED BY <1>1, <2>1, <2>2
  <1>4. b \in 1 .. ChildNum /\ \A j \in 1 .. ChildNum : j <= b <=> keys[n][j] <= k
    <2>1. b \in 0 .. ChildNum /\ \A j \in 1 .. ChildNum : j <= b <=> keys[n][j] <= k
      BY <1>1, <1>2, SearchNode DEF TreeShape, TreeInv
    <2>2. 1 \in 1 .. ChildNum
      BY <1>1
    <2> QED BY <1>3, <2>1, <2>2
  <1>5. i <= b
    BY <1>4
  <1>6. ~(i < b)
    <2> SUFFICES ASSUME i < b PROVE FALSE
      OBVIOUS
    <2>1. i + 1 \in 1 .. ChildNum /\ i + 1 <= b /\ i < ChildNum
      BY <1>1, <1>4
    <2>2. keys[n][i + 1] <= k /\ k < keys[n][i + 1] /\ keys[n][i + 1] \in Nat
      BY <1>1, <1>4, <2>1
    <2> QED BY <2>2
  <1>7. b = i
    BY <1>4, <1>5, <1>6
  <1>8. EndsAt(k)[n] = EndsAt(k)[pointers[n][i]]
    <2>1. Child(n, k) = pointers[n][i]
      BY <1>7 DEF Child
    <2>2. EndsAt(k)[n] = EndsAt(k)[Child(n, k)]
      BY <1>1, <1>3, EndsThroughChild
    <2> QED BY <2>1, <2>2
  <1> QED BY <1>8 DEF Leads

\* What getAllInner gets below an inner node covers what its parent leaves it.
LEMMA VisitedPart ==
  ASSUME TreeShape, NEW hi, BoundsOf(hi), NEW o \in Nodes, IsInner(o)
  PROVE  Part(Visited[o], keys[o][1], hi[o], Leads(o))
  <1> DEFINE S == {n \in Nodes : IsInner(n) => Part(Visited[n], keys[n][1], hi[n], Leads(n))}
  <1>1. MaxNodes \in Nat /\ Nodes = 1 .. MaxNodes
    BY SizesAssumption DEF Nodes
  <1>2. ASSUME NEW n \in 1 .. MaxNodes, \A m \in n + 1 .. MaxNodes : m \in S, IsInner(n)
        PROVE  Part(Visited[n], keys[n][1], hi[n], Leads(n))
    <2> PICK c, s, a, U, W, D :
          /\ c = ChildNum /\ s = Visits(Visited, n) /\ a = [i \in 1 .. ChildNum |-> keys[n][i]]
          /\ U = hi[n] /\ W = [i \in 1 .. ChildNum |-> hi[pointers[n][i]]]
          /\ D = [i \in 1 .. ChildNum |-> Leads(pointers[n][i])]
      OBVIOUS
    <2>1. /\ n \in Nodes /\ n \in Made /\ c \in Nat /\ c >= 1 /\ count[n] = c /\ Slots = 1 .. c
          /\ \A i \in 1 .. c : /\ pointers[n][i] \in Nodes /\ pointers[n][i] \in n + 1 .. MaxNodes
                               /\ keys[n][i] \in Nat /\ keys[pointers[n][i]][1] = keys[n][i]
      BY <1>1, <1>2, InnerNodes
    <2>2. \A i \in 1 .. c :
            /\ a[i] = keys[n][i] /\ W[i] = hi[pointers[n][i]] /\ D[i] = Leads(pointers[n][i])
            /\ s[i] = IF IsInner(pointers[n][i]) THEN Visited[pointers[n][i]] ELSE Entry(n, i)
      BY <2>1 DEF Visits
    <2>3. /\ hi \in [Nodes -> SUBSET Nat]
          /\ \A i \in 1 .. c : W[i] = IF i < c THEN U \cup {a[i + 1]} ELSE U
      <3>1. hi \in [Nodes -> SUBSET Nat]
        BY DEF BoundsOf
      <3>2. \A i \in 1 .. c : hi[pointers[n][i]] = IF i < c THEN U \cup {keys[n][i + 1]} ELSE U
        BY <1>2, <2>1, ZenonT(60) DEF BoundsOf
      <3>3. ASSUME NEW i \in 1 .. c PROVE W[i] = IF i < c THEN U \cup {a[i + 1]} ELSE U
        <4>1. i < c => i + 1 \in 1 .. c
          BY <2>1
        <4> QED BY <2>2, <3>2, <4>1
      <3> QED BY <3>1, <3>3
    <2>4. U \subseteq Nat /\ \A i \in 1 .. c : W[i] \subseteq Nat
      BY <2>1, <2>2, <2>3
    <2>5. \A i \in 1 .. c : \A x \in U : a[i] <= x
      <3>1. \A i \in 1 .. c : i \in 1 .. Used(n)
        BY <2>1 DEF Used
      <3> QED BY <2>1, <2>2, <3>1 DEF BoundsOf
    <2>6. \A i \in 1 .. c - 1 : a[i] < a[i + 1]
      <3> SUFFICES ASSUME NEW i \in 1 .. c - 1 PROVE a[i] < a[i + 1]
        OBVIOUS
      <3>1. i \in 1 .. c /\ i + 1 \in 1 .. c /\ i < i + 1
        BY <2>1
      <3>2. keys[n][i] < keys[n][i + 1]
        BY <2>1, <3>1, Sorts
      <3> QED BY <2>2, <3>1, <3>2
    <2>7. \A i \in 1 .. c : \A x \in W[i] : a[i] <= x
      <3> SUFFICES ASSUME NEW i \in 1 .. c, NEW x \in W[i] PROVE a[i] <= x
        OBVIOUS
      <3>1. x \in U \/ (i < c /\ x = a[i + 1])
        BY ZenonT(60), <2>3
      <3>2. i < c => i \in 1 .. c - 1 /\ i + 1 \in 1 .. c
        BY <2>1
      <3>3. i < c => a[i] < a[i + 1] /\ a[i] \in Nat /\ a[i + 1] \in Nat
        BY <2>1, <2>2, <2>6, <3>2
      <3> QED BY <2>5, <3>1, <3>3
    <2>8. \A i \in 1 .. c : Part(s[i], a[i], W[i], D[i])
      <3> SUFFICES ASSUME NEW i \in 1 .. c PROVE Part(s[i], a[i], W[i], D[i])
        OBVIOUS
      <3>1. CASE IsInner(pointers[n][i])
        <4>1. pointers[n][i] \in S
          BY <1>2, <2>1
        <4>2. Part(Visited[pointers[n][i]], keys[pointers[n][i]][1], hi[pointers[n][i]],
                   Leads(pointers[n][i]))
          BY <3>1, <4>1
        <4> QED BY <2>1, <2>2, <3>1, <4>2
      <3>2. CASE ~IsInner(pointers[n][i])
        <4>1. \A x \in W[i] : keys[n][i] <= x
          BY <2>2, <2>7
        <4>2. Part(Entry(n, i), keys[n][i], W[i], Leads(pointers[n][i]))
          BY <1>2, <2>1, <2>4, <3>2, <4>1, EntryPart
        <4> QED BY <2>2, <3>2, <4>2
      <3> QED BY <3>1, <3>2
    <2>9. s \in [1 .. c -> Entries] /\ a \in [1 .. c -> Nat]
      <3>1. \A i \in 1 .. c : s[i] \in Entries
        BY <2>8 DEF Part
      <3>2. s = [i \in 1 .. c |-> IF IsInner(pointers[n][i]) THEN Visited[pointers[n][i]]
                                  ELSE Entry(n, i)]
        BY <2>1 DEF Visits
      <3>3. s \in [1 .. c -> Entries]
        BY <3>1, <3>2
      <3>4. \A i \in 1 .. ChildNum : keys[n][i] \in Nat
        BY <2>1
      <3> QED BY <3>3, <3>4
    <2>10. \A i \in 1 .. c : \A k \in Nat :
             a[i] <= k /\ (i < c => k < a[i + 1]) => Leads(n)[k] = D[i][k]
      <3> SUFFICES ASSUME NEW i \in 1 .. c, NEW k \in Nat, a[i] <= k, i < c => k < a[i + 1]
                   PROVE  Leads(n)[k] = D[i][k]
        OBVIOUS
      <3>1. i < c => i + 1 \in 1 .. c
        BY <2>1
      <3>2. keys[n][i] <= k /\ (i < c => k < keys[n][i + 1])
        BY <2>2, <3>1
      <3>3. Leads(n)[k] = Leads(pointers[n][i])[k]
        BY <1>2, <2>1, <3>2, LeadsTo
      <3> QED BY <2>2, <3>3
    <2>11. Part(FlattenSeq(s), a[1], U, Leads(n))
      <3> PICK E : E = Leads(n)
        OBVIOUS
      <3>1. \A i \in 1 .. c : \A k \in Nat :
              a[i] <= k /\ (i < c => k < a[i + 1]) => E[k] = D[i][k]
        BY <2>10
      <3>2. Part(FlattenSeq(s), a[1], U, E)
        <4>1. Row(c, s, a, U, W, D, E)
          BY <2>1, <2>3, <2>4, <2>5, <2>6, <2>8, <2>9, <3>1, Zenon DEF Row
        <4> QED BY <4>1, RowJoins
      <3> QED BY <3>2
    <2>12. Visited[n] = FlattenSeq(s) /\ a[1] = keys[n][1]
      <3>1. 1 \in 1 .. c
        BY <2>1
      <3> QED BY <1>2, <2>1, <2>2, <3>1, VisitedIs
    <2> QED BY <2>11, <2>12
  <1>3. ASSUME NEW n \in 1 .. MaxNodes, \A m \in n + 1 .. MaxNodes : m \in S PROVE n \in S
    BY <1>1, <1>2, <1>3
  <1>4. \A n \in 1 .. MaxNodes : n \in S
    <2> HIDE DEF S
    <2> QED BY <1>1, <1>3, Downwards
  <1> QED BY <1>1, <1>4

LEMMA Leading == ReachInv => InnerEntriesLead
  <1> SUFFICES ASSUME ReachInv PROVE InnerEntriesLead
    OBVIOUS
  <1>1. TreeShape /\ IsInner(Root) /\ keys[Root][1] = Seed[1]
    BY DEF ReachInv, TreeShape, HoldersInv, Shape
  <1>2. Root \in Nodes
    BY <1>1, MadeNodes DEF TreeShape, TreeInv
  <1>3. PICK hi : BoundsOf(hi)
    BY DEF ReachInv, Bounded
  <1> PICK e : e = AllInner
    OBVIOUS
  <1>4. Part(e, Seed[1], hi[Root], Leads(Root))
    <2>1. e = Visited[Root]
      BY <1>1, VisitedIs DEF AllInner
    <2> QED BY <1>1, <1>2, <1>3, <2>1, VisitedPart
  <1>5. /\ e \in Entries /\ Len(e) \in Nat /\ DOMAIN e = 1 .. Len(e) /\ Seed[1] \in Nat
        /\ \A i \in 1 .. Len(e) : e[i].key \in Nat /\ e[i].key >= Seed[1]
    <2>1. e \in Seq([key : Nat, leaf : Nodes]) /\ Seed[1] \in Nat
          /\ \A i \in 1 .. Len(e) : Seed[1] <= e[i].key
      BY <1>4 DEF Part, Entries
    <2>2. \A i \in 1 .. Len(e) : e[i] \in [key : Nat, leaf : Nodes]
      <3>1. \A R : e \in Seq(R) => \A i \in 1 .. Len(e) : e[i] \in R
        OBVIOUS
      <3>2. e \in Seq([key : Nat, leaf : Nodes])
        BY <2>1
      <3> QED BY <3>1, <3>2, Zenon
    <2>3. \A i \in 1 .. Len(e) : e[i].key \in Nat
      BY <2>2
    <2>4. Len(e) \in Nat /\ DOMAIN e = 1 .. Len(e)
      BY <2>1
    <2> QED BY <2>1, <2>3, <2>4 DEF Entries
  <1>6. \A k \in Nat : k >= Seed[1] => \E j : Splits(e, k, j, EndsAt(k)[Root])
    BY <1>4 DEF Part, Leads
  <1>7. ASSUME NEW i \in 2 .. Len(e) PROVE e[i - 1].key <= e[i].key
    <2>1. i \in 1 .. Len(e) /\ i - 1 \in 1 .. Len(e)
      BY <1>5
    <2>2. PICK j : Splits(e, e[i].key, j, EndsAt(e[i].key)[Root])
      BY <1>5, <1>6, <2>1
    <2>3. j \in 1 .. Len(e) /\ \A l \in 1 .. Len(e) : l <= j <=> e[l].key <= e[i].key
      BY <2>2 DEF Splits
    <2>4. i <= j
      BY <1>5, <2>1, <2>3
    <2>5. i - 1 <= j
      BY <1>5, <2>3, <2>4
    <2> QED BY <2>1, <2>3, <2>5
  <1>8. ASSUME NEW k \in completed
        PROVE  LET last == Cardinality({i \in DOMAIN e : e[i].key <= k})
               IN  last > 0 /\ e[last].leaf = LeafFor(k)
    <2>1. k \in Nat /\ k >= Seed[1]
      BY DEF ReachInv, Stored, HoldersInv, TreeInv, TypeOK
    <2>2. PICK j : Splits(e, k, j, EndsAt(k)[Root])
      BY <1>6, <2>1
    <2>3. j \in 1 .. Len(e) /\ (\A i \in 1 .. Len(e) : i <= j <=> e[i].key <= k)
          /\ e[j].leaf = EndsAt(k)[Root]
      BY <2>2 DEF Splits
    <2>4. {i \in DOMAIN e : e[i].key <= k} = 1 .. j
      BY <1>5, <2>3
    <2>5. Cardinality(1 .. j) = j /\ j > 0
      BY <1>5, <2>3, FS_Interval
    <2>6. LeafFor(k) = EndsAt(k)[Root]
      BY <1>1, <2>1, EndsAtIs
    <2> QED BY <2>3, <2>4, <2>5, <2>6
  <1> QED BY <1>7, <1>8 DEF InnerEntriesLead

\* In a loaded tree the entries of the inner nodes that getAllInner puts in a
\* row for the DPUs are in the order of their keys, and the last one whose key
\* is not above a completed key has the leaf a descent for the key ends at,
\* unless two of the writers have come together below a split.
THEOREM EntriesLeadToLeaves == ASSUME Loaded PROVE Spec => []InnerEntriesLead
  <1>1. (apart => ReachInv) => InnerEntriesLead
    BY Leading DEF InnerEntriesLead
  <1> QED BY <1>1, ReachAlways, PTL
=============================================================================
