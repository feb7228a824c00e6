-------------------------- MODULE SkewInsertProofs --------------------------
(***************************************************************************)
(* For any number of threads, partitions, rounds and keys: the loop of     *)
(* insert_payload_skew reads the keys it was answered for, though it moves *)
(* keys within the same buffer; no key waits for a DPU that has no entries *)
(* to lead it; what is left from a round never meets itself in the next; a *)
(* key ends in one page or one tree; and only the last task of a DPU, or a *)
(* key without a page, is lost.                                            *)
(*                                                                         *)
(* The argument: a send buffer holds different keys of rounds that have    *)
(* been routed, and a key that a page has taken is in no send buffer from  *)
(* then on.  A key the tree has taken may be in one still, but it has met  *)
(* its page full, and pages stay full.                                     *)
(***************************************************************************)
EXTENDS SkewInsert, FiniteSetTheorems, SequenceTheorems, WellFoundedInduction, TLAPS

USE DEF index, pim, buffers, loop, Set

\* The second launch, if there is one, and the steps that gather the entries.
Sends(t)   == SearchOverflow(t) \/ SkipOverflow(t)
Gathers(t) == TakeLock(t) \/ GatherInner(t) \/ ClearFlag(t) \/ PushEntries(t)

\* The registers are functions of the thread, and where they belong to a DPU
\* or a slot of it of these, too.
Shapes ==
  /\ DOMAIN pc = Thread /\ DOMAIN round = Thread /\ DOMAIN at = Thread
  /\ DOMAIN todo = Thread /\ DOMAIN j = Thread
  /\ DOMAIN asked = Thread /\ DOMAIN answered = Thread
  /\ DOMAIN n = Thread /\ \A t \in Thread : DOMAIN n[t] = Part
  /\ DOMAIN sbuffer = Thread
  /\ \A t \in Thread : DOMAIN sbuffer[t] = Part
  /\ \A t \in Thread, p \in Part : DOMAIN sbuffer[t][p] = Slots

\* What a step of t leaves to the others.
OthersKeep(t) ==
  \A u \in Thread \ {t} :
    /\ pc'[u] = pc[u] /\ round'[u] = round[u]
    /\ at'[u] = at[u] /\ todo'[u] = todo[u] /\ j'[u] = j[u]
    /\ n'[u] = n[u] /\ sbuffer'[u] = sbuffer[u]
    /\ asked'[u] = asked[u] /\ answered'[u] = answered[u]

LEMMA SendsKeeps ==
  ASSUME NEW t, Sends(t)
  PROVE  /\ pc[t] = "insert" /\ at[t] = None /\ todo[t] = {}
         /\ \E label \in {"past", "collect"} : pc' = [pc EXCEPT ![t] = label]
         /\ answered' = answered \/ \E a : answered' = [answered EXCEPT ![t] = a]
         /\ UNCHANGED <<index, pim, written, round, buffers, asked, loop>>
  BY DEF Sends, SearchOverflow, Launch, SkipOverflow

LEMMA GathersKeeps ==
  ASSUME NEW t, Gathers(t)
  PROVE  /\ pc[t] \in {"gather", "flags", "clear", "push"}
         /\ \/ NextRound(t)
            \/ /\ UNCHANGED round
               /\ \/ UNCHANGED pc /\ pc[t] \in {"flags", "clear"}
                  \/ \E label \in {"flags", "clear", "push"} : pc' = [pc EXCEPT ![t] = label]
         /\ UNCHANGED j \/ \E i : j' = [j EXCEPT ![t] = i]
         /\ UNCHANGED <<index, written, buffers, asked, answered, todo, at>>
  BY DEF Gathers, TakeLock, GatherInner, ClearFlag, PushEntries, InTurn, Onward

LEMMA Kinds ==
  ASSUME NEW t, Step(t)
  PROVE  \/ Route(t) \/ Search(t) \/ Visit(t) \/ IntoPage(t) \/ IntoTree(t) \/ Wait(t) \/ NoPage(t)
         \/ Leave(t) \/ Sends(t) \/ Past(t) \/ Decide(t) \/ ResetCount(t) \/ Gathers(t)
  BY DEF Step, Sends, Gathers

LEMMA ShapesInit == Init => Shapes
  BY DEF Init, Shapes

LEMMA Effects ==
  ASSUME Shapes, NEW t \in Thread, Step(t)
  PROVE  Shapes' /\ OthersKeep(t)
  <1> USE DEF Shapes, OthersKeep
  <1>1. CASE Route(t) BY <1>1 DEF Route, Filled
  <1>2. CASE Search(t) BY <1>2 DEF Search
  <1>3. CASE Visit(t) BY <1>3 DEF Visit
  <1>4. CASE IntoPage(t) BY <1>4 DEF IntoPage, NextTask
  <1>5. CASE IntoTree(t) BY <1>5 DEF IntoTree, NextTask
  <1>6. CASE Wait(t) BY <1>6 DEF Wait, Move, NextTask
  <1>7. CASE NoPage(t) BY <1>7 DEF NoPage, NextTask
  <1>8. CASE Leave(t) BY <1>8 DEF Leave
  <1>9. CASE Sends(t) BY <1>9, SendsKeeps
  <1>10. CASE Past(t) BY <1>10 DEF Past
  <1>11. CASE Decide(t) BY <1>11 DEF Decide, NextRound
  <1>12. CASE ResetCount(t) BY <1>12 DEF ResetCount
  <1>13. CASE Gathers(t) BY <1>13, GathersKeeps DEF NextRound
  <1> QED
    BY <1>1, <1>2, <1>3, <1>4, <1>5, <1>6, <1>7, <1>8, <1>9, <1>10, <1>11,
       <1>12, <1>13, Kinds

-----------------------------------------------------------------------------
(* The send buffer under the loop.                                         *)

\* A DPU that is still to be visited has a send buffer as it was sent.  In
\* the one in hand the keys that wait lie behind the task in hand, and from
\* that task on nothing has changed.
BufferOf(t) ==
  /\ pc[t] = "insert" =>
       todo[t] \subseteq Part /\ \A p \in todo[t] : asked[t][p] = Sent(t, p)
  /\ at[t] # None =>
       /\ pc[t] = "insert" /\ at[t] \in Part \ todo[t]
       /\ j[t] \in Nat /\ n[t][at[t]] \in 0 .. j[t]
       /\ \A s \in Slots \cap DOMAIN asked[t][at[t]] :
            s > j[t] => sbuffer[t][at[t]][s] = asked[t][at[t]][s]

BufferInv == Shapes /\ \A t \in Thread : BufferOf(t)

LEMMA BufferInit == Init => BufferInv
  BY ShapesInit DEF Init, BufferInv, BufferOf

\* The other threads keep their buffers, whatever t does.
LEMMA BufferOfOthers ==
  ASSUME BufferInv, NEW t \in Thread, Step(t), NEW u \in Thread \ {t}
  PROVE  BufferOf(u)'
  <1>1. OthersKeep(t)
    BY Effects DEF BufferInv
  <1>2. \A p \in Part : Sent(u, p)' = Sent(u, p)
    BY <1>1 DEF OthersKeep, Sent
  <1> QED
    BY <1>1, <1>2 DEF OthersKeep, BufferInv, BufferOf

LEMMA BufferOfSelf ==
  ASSUME BufferInv, NEW t \in Thread, Step(t)
  PROVE  BufferOf(t)'
  <1> USE DEF BufferInv, BufferOf, Shapes
  <1>1. CASE Route(t) BY <1>1 DEF Route
  <1>2. CASE Search(t)
    <2>1. \A p \in Part : asked'[t][p] = Sent(t, p) /\ Sent(t, p)' = Sent(t, p)
      BY <1>2 DEF Search, Sent
    <2> QED BY <1>2, <2>1 DEF Search
  <1>3. CASE Visit(t)
    <2>1. PICK p \in todo[t] : /\ at' = [at EXCEPT ![t] = p]
                               /\ todo' = [todo EXCEPT ![t] = @ \ {p}]
                               /\ n' = [n EXCEPT ![t][p] = 0]
                               /\ j' = [j EXCEPT ![t] = 0]
      BY <1>3 DEF Visit
    <2>2. pc[t] = "insert" /\ p \in Part /\ asked[t][p] = Sent(t, p)
      BY <1>3 DEF Visit
    <2>3. UNCHANGED <<pc, sbuffer, asked>>
      BY <1>3 DEF Visit
    <2>4. \A q \in Part \ {p} : Sent(t, q)' = Sent(t, q)
      BY <2>1, <2>2, <2>3 DEF Sent
    <2>5. \A s \in DOMAIN asked[t][p] : sbuffer[t][p][s] = asked[t][p][s]
      BY <2>2 DEF Sent
    <2>6. /\ at'[t] = p /\ todo'[t] = todo[t] \ {p} /\ pc'[t] = "insert"
          /\ j'[t] = 0 /\ n'[t][p] = 0
      BY <2>1, <2>2, <2>3
    <2>7. todo'[t] \subseteq Part /\ \A q \in todo'[t] : asked'[t][q] = Sent(t, q)'
      BY <2>2, <2>3, <2>4, <2>6
    <2>8. /\ at'[t] \in Part \ todo'[t] /\ j'[t] \in Nat /\ n'[t][at'[t]] \in 0 .. j'[t]
          /\ \A s \in DOMAIN asked'[t][at'[t]] : sbuffer'[t][at'[t]][s] = asked'[t][at'[t]][s]
      BY <2>2, <2>3, <2>5, <2>6
    <2> HIDE DEF Shapes
    <2> QED BY <2>6, <2>7, <2>8
  <1>4. ASSUME IntoPage(t) \/ IntoTree(t) \/ NoPage(t)
        PROVE  BufferOf(t)'
    <2>1. /\ j' = [j EXCEPT ![t] = @ + 1] /\ at[t] # None
          /\ UNCHANGED <<pc, at, todo, n, sbuffer, asked>>
      BY <1>4 DEF IntoPage, IntoTree, NoPage, NextTask, Working
    <2>2. \A p \in Part : Sent(t, p)' = Sent(t, p)
      BY <2>1 DEF Sent
    <2>3. at[t] # None => j[t] \in Nat /\ \A s \in Slots : s > j[t] + 1 => s > j[t]
      BY DEF Slots
    <2>4. j'[t] = j[t] + 1
      BY <2>1
    <2> QED BY <2>1, <2>2, <2>3, <2>4
  <1>5. CASE Wait(t)
    <2> DEFINE p == at[t]
    <2>1. /\ j' = [j EXCEPT ![t] = @ + 1] /\ p # None
          /\ n' = [n EXCEPT ![t][p] = @ + 1]
          /\ sbuffer' = [sbuffer EXCEPT ![t][p][n[t][p] + 1] = InHand(t)]
          /\ UNCHANGED <<pc, at, todo, asked>>
      BY <1>5 DEF Wait, Move, NextTask, Working
    <2>2. p \in Part /\ j[t] \in Nat /\ n[t][p] \in 0 .. j[t]
      BY <2>1
    <2>3. \A q \in Part \ {p} : Sent(t, q)' = Sent(t, q)
      BY <2>1, <2>2 DEF Sent
    <2>4. \A s \in Slots : s > j[t] + 1 => sbuffer'[t][p][s] = sbuffer[t][p][s]
      BY <2>1, <2>2 DEF Slots
    <2>5. j'[t] = j[t] + 1 /\ n'[t][p] = n[t][p] + 1 /\ n'[t][p] \in 0 .. j'[t]
      BY <2>1, <2>2
    <2>6. \A s \in Slots \cap DOMAIN asked[t][p] : s > j'[t] => sbuffer'[t][p][s] = asked[t][p][s]
      BY <2>1, <2>2, <2>4, <2>5 DEF Slots
    <2> QED BY <2>1, <2>2, <2>3, <2>5, <2>6
  <1>6. CASE Leave(t)
    <2>1. \A p \in Part : Sent(t, p)' = Sent(t, p)
      BY <1>6 DEF Leave, Sent
    <2> QED BY <1>6, <2>1 DEF Leave
  <1>7. CASE Sends(t) BY <1>7, SendsKeeps
  <1>8. CASE Past(t) BY <1>8 DEF Past
  <1>9. CASE Decide(t) BY <1>9 DEF Decide, NextRound
  <1>10. CASE ResetCount(t) BY <1>10 DEF ResetCount
  <1>11. CASE Gathers(t) BY <1>11, GathersKeeps DEF NextRound
  <1> QED
    BY <1>1, <1>2, <1>3, <1>4, <1>5, <1>6, <1>7, <1>8, <1>9, <1>10, <1>11, Kinds

LEMMA BufferStep == BufferInv /\ [Next]_vars => BufferInv'
  <1> SUFFICES ASSUME BufferInv, [Next]_vars PROVE BufferInv'
    OBVIOUS
  <1>1. ASSUME NEW t \in Thread, Step(t) PROVE BufferInv'
    <2>1. Shapes'
      BY <1>1, Effects DEF BufferInv
    <2>2. \A u \in Thread \ {t} : BufferOf(u)'
      BY <1>1, BufferOfOthers
    <2>3. BufferOf(t)'
      BY <1>1, BufferOfSelf
    <2> QED BY <2>1, <2>2, <2>3 DEF BufferInv
  <1>2. CASE UNCHANGED vars
    <2>1. \A t \in Thread, p \in Part : Sent(t, p)' = Sent(t, p)
      BY <1>2 DEF vars, Sent
    <2>2. Shapes'
      BY <1>2 DEF vars, BufferInv, Shapes
    <2>3. ASSUME NEW t \in Thread PROVE BufferOf(t)'
      <3>1. BufferOf(t)
        BY DEF BufferInv
      <3> QED BY <1>2, <2>1, <3>1 DEF vars, BufferOf
    <2> QED BY <2>2, <2>3 DEF BufferInv
  <1> QED BY <1>1, <1>2 DEF Next

\* The key the loop reads is the one the answer belongs to, for any number of
\* keys that wait and are moved in front of it.
THEOREM LoopReadsOwnKey == Spec => []ReadsOwnKey
  <1>1. BufferInv => ReadsOwnKey
    BY DEF BufferInv, BufferOf, ReadsOwnKey
  <1> QED BY BufferInit, BufferStep, <1>1, PTL DEF Spec

-----------------------------------------------------------------------------
(* The flags, the entries and the trees.                                   *)

\* A flag stands for a tree that is split, then as now: trees only grow.  But
\* for who gathers the entries, the DPUs have those the flags promise.
EntriesInv ==
  /\ enabled \in [Part -> BOOLEAN] /\ entries \in [Part -> BOOLEAN] /\ gathered \in [Part -> BOOLEAN]
  /\ trees \in [Part -> [Key -> 0 .. 2]]
  /\ \A p \in Part : IsFiniteSet(Held(p)) /\ (enabled[p] => IsSplit(p))
  /\ holder = None => entries = enabled

\* Who holds the lock finds what the flags say, one partition after the other.
GatherOf(t) ==
  /\ pc[t] \in {"flags", "clear", "push"} <=> holder = t
  /\ pc[t] = "flags" => j[t] \in Nat /\ \A p \in Part : p < j[t] => gathered[p] = enabled[p]
  /\ pc[t] \in {"clear", "push"} => gathered = enabled

\* A thread has keys wait for a DPU only if the flag says so, and so gets them
\* all answered.
AnswersOf(t) ==
  /\ pc[t] = "insert" => \A p \in Part \ todo[t] : n[t][p] # 0 => enabled[p]
  /\ pc[t] = "past" => \A p \in Part : answered[t][p] = n[t][p] /\ (n[t][p] # 0 => enabled[p])

AnswersInv == BufferInv /\ EntriesInv /\ \A t \in Thread : GatherOf(t) /\ AnswersOf(t)

LEMMA AnswersInit == Init => AnswersInv
  <1> SUFFICES ASSUME Init PROVE AnswersInv
    OBVIOUS
  <1>1. \A p \in Part : Held(p) = {} /\ IsFiniteSet(Held(p)) /\ Cardinality(Held(p)) = 0
    BY FS_EmptySet DEF Init, Held
  <1>2. /\ entries = enabled /\ enabled \in [Part -> BOOLEAN] /\ gathered \in [Part -> BOOLEAN]
        /\ trees \in [Part -> [Key -> 0 .. 2]]
    BY DEF Init
  <1>3. \A p \in Part : enabled[p] => IsSplit(p)
    <2> SUFFICES ASSUME NEW p \in Part, SplitAt[p] = 0 PROVE IsSplit(p)
      BY DEF Init
    <2> QED BY <1>1 DEF IsSplit
  <1>4. EntriesInv
    BY <1>1, <1>2, <1>3 DEF EntriesInv
  <1>5. \A t \in Thread : GatherOf(t) /\ AnswersOf(t)
    BY NoneAssumption DEF Init, GatherOf, AnswersOf
  <1> QED BY <1>4, <1>5, BufferInit DEF AnswersInv

LEMMA Splitting ==
  ASSUME NEW p \in Part, IsFiniteSet(Held(p)'), Held(p) \subseteq Held(p)', IsSplit(p)
  PROVE  IsSplit(p)'
  <1>1. /\ Cardinality(Held(p)) \in Nat /\ Cardinality(Held(p)') \in Nat
        /\ Cardinality(Held(p)) <= Cardinality(Held(p)')
    BY FS_Subset, FS_CardinalityType
  <1> QED BY <1>1, SplitAtAssumption DEF IsSplit

LEMMA InsertedOften ==
  ASSUME NEW often \in 0 .. 2, NEW full
  PROVE  /\ Inserted(often, full) \in 1 .. 2 /\ often <= Inserted(often, full)
         /\ Inserted(often, full) = often \/ (often = 0 /\ Inserted(often, full) = 1)
              \/ (often # 0 /\ Inserted(often, full) = 2)
  BY DEF Inserted

\* What a tree may take: the key in hand, or the one key a DPU has answered.
Takes(t, p, k) ==
  \/ IntoTree(t) /\ p = at[t] /\ k = InHand(t)
  \/ Past(t) /\ n[t][p] = 1 /\ k = sbuffer[t][p][1]

LEMMA TreesTake ==
  ASSUME AnswersInv, NEW t \in Thread, Step(t), NEW p \in Part
  PROVE  /\ trees' \in [Part -> [Key -> 0 .. 2]]
         /\ \A k \in Key : \/ trees'[p][k] = trees[p][k]
                           \/ Takes(t, p, k) /\ \E full : trees'[p][k] = Inserted(trees[p][k], full)
  <1> USE DEF AnswersInv, EntriesInv
  <1>1. \A often \in 0 .. 2 : \A full : Inserted(often, full) \in 0 .. 2
    BY DEF Inserted
  <1>2. CASE IntoTree(t)
    <2>1. PICK filled \in BOOLEAN : trees' = [trees EXCEPT ![at[t]][InHand(t)] = Inserted(@, filled)]
      BY <1>2 DEF IntoTree
    <2>2. \A q \in Part, k \in Key :
             trees'[q][k] = IF q = at[t] /\ k = InHand(t) THEN Inserted(trees[q][k], filled) ELSE trees[q][k]
      BY <2>1
    <2>3. \A q \in Part, k \in Key : trees'[q][k] \in 0 .. 2
      BY <1>1, <2>2
    <2>4. trees' \in [Part -> [Key -> 0 .. 2]]
      BY <2>1, <2>3
    <2> QED BY <1>2, <2>2, <2>4 DEF Takes
  <1>3. CASE Past(t)
    <2>1. PICK filled : trees' = [q \in Part |-> [k \in Key |->
                          IF answered[t][q] = 1 /\ k \in Range(Sent(t, q))
                          THEN Inserted(trees[q][k], k \in filled) ELSE trees[q][k]]]
      BY <1>3 DEF Past
    <2>2. trees' \in [Part -> [Key -> 0 .. 2]]
      BY <1>1, <2>1
    <2>3. \A k \in Key : trees'[p][k] = IF answered[t][p] = 1 /\ k \in Range(Sent(t, p))
                                        THEN Inserted(trees[p][k], k \in filled) ELSE trees[p][k]
      BY <2>1
    <2>4. answered[t][p] = n[t][p]
      BY <1>3 DEF Past, AnswersOf
    <2>5. n[t][p] = 1 => Range(Sent(t, p)) = {sbuffer[t][p][1]}
      BY DEF Range, Sent
    <2> QED BY <1>3, <2>2, <2>3, <2>4, <2>5 DEF Takes
  <1>4. CASE UNCHANGED trees BY <1>4
  <1> QED BY <1>2, <1>3, <1>4, SendsKeeps, GathersKeeps, Kinds
          DEF Route, Search, Visit, IntoPage, Wait, NoPage, Leave, Decide, ResetCount

\* So a tree holds finitely many keys, and those it holds it keeps.
LEMMA TreesGrow ==
  ASSUME AnswersInv, NEW t \in Thread, Step(t), NEW p \in Part
  PROVE  IsFiniteSet(Held(p)') /\ Held(p) \subseteq Held(p)'
  <1>1. trees \in [Part -> [Key -> 0 .. 2]] /\ IsFiniteSet(Held(p))
    BY DEF AnswersInv, EntriesInv
  <1>2. \A k \in Key : \/ trees'[p][k] = trees[p][k]
                       \/ Takes(t, p, k) /\ \E full : trees'[p][k] = Inserted(trees[p][k], full)
    BY TreesTake
  <1>3. ASSUME NEW k \in Key, trees[p][k] # 0 PROVE trees'[p][k] # 0
    <2>1. trees[p][k] \in 0 .. 2
      BY <1>1
    <2> QED BY <1>2, <1>3, <2>1, InsertedOften
  <1>4. PICK x : \A k : Takes(t, p, k) => k = x
    BY DEF Takes, IntoTree, Working, Past
  <1>5. Held(p)' \subseteq Held(p) \cup {x}
    BY <1>2, <1>4 DEF Held
  <1>6. IsFiniteSet(Held(p) \cup {x})
    BY <1>1, FS_AddElement
  <1> QED BY <1>3, <1>5, <1>6, FS_Subset DEF Held

\* A flag stays set, and the entries follow it when the lock is given back.
LEMMA EntriesStep ==
  ASSUME AnswersInv, NEW t \in Thread, Step(t)
  PROVE  EntriesInv' /\ \A p \in Part : enabled[p] => enabled'[p]
  <1> USE DEF AnswersInv, EntriesInv
  <1>1. /\ trees' \in [Part -> [Key -> 0 .. 2]]
        /\ \A p \in Part : IsFiniteSet(Held(p)') /\ (IsSplit(p) => IsSplit(p)')
    <2>1. trees' \in [Part -> [Key -> 0 .. 2]]
      <3>1. 0 \in Part
        BY SizesAssumption DEF Part
      <3> QED BY <3>1, TreesTake
    <2> QED BY <2>1, TreesGrow, Splitting
  <1>2. CASE TakeLock(t)
    BY <1>1, <1>2, NoneAssumption DEF TakeLock
  <1>3. CASE GatherInner(t)
    <2>1. PICK p \in Part : p = j[t]
      BY <1>3 DEF GatherInner, InTurn
    <2>2. /\ enabled' = [enabled EXCEPT ![p] = @ \/ IsSplit(p)] /\ UNCHANGED <<trees, holder, entries>>
          /\ gathered' = [gathered EXCEPT ![p] = IsSplit(p)]
          /\ pc[t] = "flags"
      BY <1>3, <2>1 DEF GatherInner, InTurn
    <2>3. \A q \in Part : enabled'[q] <=> enabled[q] \/ (q = p /\ IsSplit(p))
      BY <2>2
    <2>4. enabled' \in [Part -> BOOLEAN] /\ gathered' \in [Part -> BOOLEAN]
      BY <2>2 DEF IsSplit
    <2>5. holder' # None
      BY <2>2, NoneAssumption DEF GatherOf
    <2> QED BY <1>1, <2>2, <2>3, <2>4, <2>5
  <1>4. CASE ClearFlag(t)
    <2>1. /\ enabled' = [enabled EXCEPT ![j[t]] = @ /\ gathered[j[t]]]
          /\ UNCHANGED <<trees, holder, entries, gathered>> /\ gathered = enabled
      BY <1>4 DEF ClearFlag, InTurn, GatherOf
    <2>2. enabled' = enabled
      BY <2>1
    <2> QED BY <1>1, <2>1, <2>2
  <1>5. CASE PushEntries(t)
    <2>1. UNCHANGED <<trees, enabled, gathered>> /\ entries' = gathered /\ gathered = enabled
      BY <1>5 DEF PushEntries, GatherOf
    <2> QED BY <1>1, <2>1
  <1>6. CASE UNCHANGED pim
    BY <1>1, <1>6
  <1> QED
    BY <1>2, <1>3, <1>4, <1>5, <1>6, SendsKeeps, Kinds
    DEF Route, Search, Visit, IntoPage, IntoTree, Wait, NoPage, Leave, Past, Decide, ResetCount, Gathers

LEMMA GatherStep ==
  ASSUME AnswersInv, NEW t \in Thread, Step(t), NEW u \in Thread
  PROVE  GatherOf(u)'
  <1> USE DEF AnswersInv, EntriesInv, BufferInv, Shapes
  <1>1. OthersKeep(t) /\ Shapes'
    BY Effects
  <1>2. GatherOf(t) /\ GatherOf(u) /\ None \notin Thread
    BY NoneAssumption
  <1>3. CASE TakeLock(t)
    <2>1. /\ holder = None /\ holder' = t /\ pc'[t] = "flags" /\ j'[t] = 0
      BY <1>3 DEF TakeLock
    <2>2. CASE u = t
      BY <2>1, <2>2 DEF GatherOf, Part
    <2>3. CASE u # t
      BY <1>1, <1>2, <2>1, <2>3 DEF GatherOf, OthersKeep
    <2> QED BY <2>2, <2>3
  <1>4. CASE GatherInner(t)
    <2>1. PICK p \in Part : p = j[t]
      BY <1>4 DEF GatherInner, InTurn
    <2>2. /\ enabled' = [enabled EXCEPT ![p] = @ \/ IsSplit(p)] /\ UNCHANGED holder
          /\ gathered' = [gathered EXCEPT ![p] = IsSplit(p)]
          /\ pc[t] = "flags" /\ Onward(t, "clear")
      BY <1>4, <2>1 DEF GatherInner, InTurn
    <2>3. \A q \in Part : q <= p => gathered'[q] = enabled'[q]
      <3>1. gathered'[p] = IsSplit(p) /\ enabled'[p] = (enabled[p] \/ IsSplit(p))
        BY <2>2
      <3>2. gathered'[p] = enabled'[p]
        BY <3>1 DEF IsSplit
      <3>3. \A q \in Part : q # p => gathered'[q] = gathered[q] /\ enabled'[q] = enabled[q]
        BY <2>2
      <3>4. \A q \in Part : q < p => gathered[q] = enabled[q]
        BY <1>2, <2>1, <2>2 DEF GatherOf
      <3>5. \A q \in Part : q <= p /\ q # p => q < p
        BY DEF Part
      <3> QED BY <3>2, <3>3, <3>4, <3>5
    <2>4. CASE p = P - 1
      <3>1. pc'[t] = "clear"
        BY <2>1, <2>2, <2>4 DEF Onward
      <3>2. \A q \in Part : q <= p
        BY <2>4, SizesAssumption DEF Part
      <3>3. gathered' = enabled'
        <4>1. enabled' \in [Part -> BOOLEAN] /\ gathered' \in [Part -> BOOLEAN]
          BY EntriesStep
        <4> QED BY <2>3, <3>2, <4>1
      <3>4. CASE u = t
        BY <1>2, <2>2, <3>1, <3>3, <3>4 DEF GatherOf
      <3>5. CASE u # t
        BY <1>1, <1>2, <2>2, <3>5 DEF GatherOf, OthersKeep
      <3> QED BY <3>4, <3>5
    <2>5. CASE p # P - 1
      <3>1. pc' = pc /\ j'[t] = p + 1
        BY <2>1, <2>2, <2>5 DEF Onward
      <3>2. p \in Nat /\ \A q \in Part : q < p + 1 => q <= p
        BY DEF Part
      <3>3. CASE u = t
        BY <1>2, <2>2, <2>3, <3>1, <3>2, <3>3 DEF GatherOf
      <3>4. CASE u # t
        BY <1>1, <1>2, <2>2, <3>4 DEF GatherOf, OthersKeep
      <3> QED BY <3>3, <3>4
    <2> QED BY <2>4, <2>5
  <1>5. CASE ClearFlag(t)
    <2>1. /\ pc[t] = "clear" /\ pc'[t] \in {"clear", "push"}
          /\ UNCHANGED <<holder, gathered>> /\ gathered = enabled
      BY <1>2, <1>5 DEF ClearFlag, InTurn, Onward, GatherOf
    <2>2. enabled' = enabled
      BY <1>5, <2>1 DEF ClearFlag
    <2>3. CASE u = t
      BY <1>2, <2>1, <2>2, <2>3 DEF GatherOf
    <2>4. CASE u # t
      BY <1>1, <1>2, <2>1, <2>2, <2>4 DEF GatherOf, OthersKeep
    <2> QED BY <2>3, <2>4
  <1>6. CASE PushEntries(t)
    <2>1. holder' = None /\ holder = t /\ pc'[t] \in {"done", "route"}
      BY <1>2, <1>6 DEF PushEntries, NextRound, GatherOf
    <2>2. CASE u = t
      BY <1>2, <2>1, <2>2 DEF GatherOf
    <2>3. CASE u # t
      BY <1>1, <1>2, <2>1, <2>3 DEF GatherOf, OthersKeep
    <2> QED BY <2>2, <2>3
  <1>7. CASE /\ UNCHANGED pim
             /\ pc[t] \notin {"flags", "clear", "push"} /\ pc'[t] \notin {"flags", "clear", "push"}
    <2>1. CASE u = t
      BY <1>2, <1>7, <2>1 DEF GatherOf
    <2>2. CASE u # t
      BY <1>1, <1>2, <1>7, <2>2 DEF GatherOf, OthersKeep
    <2> QED BY <2>1, <2>2
  <1>8. CASE ~Gathers(t)
    <2>1. UNCHANGED pim
      BY <1>8, SendsKeeps, Kinds DEF Route, Search, Visit, IntoPage, IntoTree, Wait, NoPage, Leave, Past,
                                     Decide, ResetCount
    <2>2. pc[t] \notin {"flags", "clear", "push"} /\ pc'[t] \notin {"flags", "clear", "push"}
      BY ZenonT(60), <1>8, SendsKeeps, Kinds DEF Route, Search, Visit, IntoPage, IntoTree, Wait,
          NoPage, Leave, Past,
                                     Decide, ResetCount, NextRound, Working
    <2> QED BY <1>7, <2>1, <2>2
  <1> QED BY <1>3, <1>4, <1>5, <1>6, <1>8 DEF Gathers

LEMMA AnswersOfSelf ==
  ASSUME AnswersInv, NEW t \in Thread, Step(t)
  PROVE  AnswersOf(t)'
  <1> USE DEF AnswersInv, BufferInv, Shapes, AnswersOf
  <1>1. \A p \in Part : enabled[p] => enabled'[p]
    BY EntriesStep
  <1>2. CASE Route(t) BY <1>2 DEF Route
  <1>3. CASE Search(t) BY <1>3 DEF Search
  <1>4. CASE Visit(t) BY <1>1, <1>4 DEF Visit
  <1>5. ASSUME IntoPage(t) \/ IntoTree(t) \/ NoPage(t) \/ Leave(t)
        PROVE  AnswersOf(t)'
    BY <1>1, <1>5 DEF IntoPage, IntoTree, NoPage, Leave, Working
  <1>6. CASE Wait(t)
    <2>1. /\ n' = [n EXCEPT ![t][at[t]] = @ + 1] /\ enabled[at[t]]
          /\ pc[t] = "insert" /\ UNCHANGED <<pc, todo, enabled>>
      BY <1>6 DEF Wait, Move, Working
    <2> QED BY <2>1
  <1>7. CASE SearchOverflow(t)
    <2>1. /\ pc[t] = "insert" /\ todo[t] = {} /\ UNCHANGED <<n, enabled>> /\ entries = enabled
          /\ pc'[t] = "past"
          /\ answered'[t] = [p \in Part |-> IF entries[p] THEN n[t][p] ELSE 0]
      BY <1>7 DEF SearchOverflow, Launch, EntriesInv
    <2>2. \A p \in Part : n[t][p] # 0 => enabled[p]
      BY <2>1
    <2> QED BY <2>1, <2>2
  <1>8. CASE SkipOverflow(t) BY <1>8 DEF SkipOverflow
  <1>9. CASE Past(t) BY <1>9 DEF Past
  <1>10. CASE Decide(t) BY <1>10 DEF Decide, NextRound
  <1>11. CASE ResetCount(t) BY <1>11 DEF ResetCount
  <1>12. CASE Gathers(t) BY <1>12, GathersKeeps DEF NextRound
  <1> QED
    BY <1>2, <1>3, <1>4, <1>5, <1>6, <1>7, <1>8, <1>9, <1>10, <1>11, <1>12, Kinds DEF Sends

LEMMA AnswersStep == AnswersInv /\ [Next]_vars => AnswersInv'
  <1> SUFFICES ASSUME AnswersInv, [Next]_vars PROVE AnswersInv'
    OBVIOUS
  <1>1. BufferInv'
    BY BufferStep DEF AnswersInv
  <1>2. ASSUME NEW t \in Thread, Step(t) PROVE AnswersInv'
    <2>1. EntriesInv' /\ (\A p \in Part : enabled[p] => enabled'[p]) /\ \A u \in Thread : GatherOf(u)'
      BY <1>2, EntriesStep, GatherStep
    <2>2. OthersKeep(t)
      BY <1>2, Effects DEF AnswersInv, BufferInv
    <2>3. \A u \in Thread \ {t} : AnswersOf(u)'
      BY <2>1, <2>2 DEF OthersKeep, AnswersInv, AnswersOf
    <2>4. AnswersOf(t)'
      BY <1>2, AnswersOfSelf
    <2> QED BY <1>1, <2>1, <2>3, <2>4 DEF AnswersInv
  <1>3. CASE UNCHANGED vars
    <2>1. EntriesInv'
      BY <1>3 DEF vars, AnswersInv, EntriesInv, IsSplit, Held
    <2>2. \A t \in Thread : GatherOf(t)' /\ AnswersOf(t)'
      BY <1>3 DEF vars, AnswersInv, GatherOf, AnswersOf
    <2> QED BY <1>1, <2>1, <2>2 DEF AnswersInv
  <1> QED BY <1>2, <1>3 DEF Next

\* All that a thread sends in its second launch is answered, though it reads
\* the flags while another thread sets them and has yet to push the entries.
THEOREM WaitingIsAnswered == Spec => []PimAnswers
  <1>1. AnswersInv => PimAnswers
    BY DEF AnswersInv, AnswersOf, PimAnswers
  <1> QED BY AnswersInit, AnswersStep, <1>1, PTL DEF Spec
-----------------------------------------------------------------------------
(* The routing loop.                                                       *)

LEMMA LeastNumber ==
  ASSUME NEW T, T # {}, \A x \in T : x \in Nat
  PROVE  \E m \in T : \A i \in T : m <= i
  <1> DEFINE R == OpToRel(<, Nat)
  <1>1. IsWellFoundedOn(R, Nat)
    BY NatLessThanWellFounded
  <1>2. \A x, y \in Nat : <<x, y>> \in R <=> x < y
    BY DEF R, OpToRel
  <1> HIDE DEF R
  <1>3. PICK x \in T : \A y \in T : ~(<<y, x>> \in R)
    BY <1>1, WFMin
  <1>4. \A y \in T : ~(y < x)
    BY <1>2, <1>3
  <1> QED BY <1>4

\* What the loop makes of the queue with one key more.
Routes(t, p, tasks, g, i) ==
  IF i = 0 THEN tasks
  ELSE IF home[<<t, round[t], i>>][1] = p THEN Append(g[i - 1], <<t, round[t], i>>) ELSE g[i - 1]

LEMMA RoutedLoop ==
  ASSUME NEW t, NEW p, NEW tasks
  PROVE  \E g : g = [i \in 0 .. Batch |-> Routes(t, p, tasks, g, i)] /\ Routed(t, p, tasks) = g[Batch]
  <1> DEFINE Stops == {m \in 0 .. Batch : ~\E g : g = [i \in 0 .. m |-> Routes(t, p, tasks, g, i)]}
  <1>1. Stops = {}
    <2> SUFFICES ASSUME Stops # {} PROVE FALSE
      OBVIOUS
    <2>1. PICK m \in Stops : \A i \in Stops : m <= i
      <3>1. \A i \in Stops : i \in Nat
        BY RoundsAssumption
      <3> HIDE DEF Stops
      <3> QED BY <3>1, LeastNumber
    <2>2. m \in 0 .. Batch /\ m \in Nat /\ ~\E g : g = [i \in 0 .. m |-> Routes(t, p, tasks, g, i)]
      BY RoundsAssumption
    <2>3. m # 0
      <3>1. [i \in 0 .. 0 |-> tasks] = [i \in 0 .. 0 |-> Routes(t, p, tasks, [x \in 0 .. 0 |-> tasks], i)]
        BY DEF Routes
      <3> QED BY <2>2, <3>1
    <2>4. PICK g : g = [i \in 0 .. m - 1 |-> Routes(t, p, tasks, g, i)]
      <3>1. m - 1 \in 0 .. Batch /\ ~(m <= m - 1)
        BY <2>2, <2>3, RoundsAssumption
      <3> QED BY <2>1, <3>1
    <2> DEFINE h == [i \in 0 .. m |-> IF i = m THEN Routes(t, p, tasks, g, m) ELSE g[i]]
    <2>5. ASSUME NEW i \in 0 .. m PROVE h[i] = Routes(t, p, tasks, h, i)
      <3>1. i # 0 => h[i - 1] = g[i - 1]
        BY <2>2
      <3>2. \A e : i # 0 /\ e[i - 1] = g[i - 1] => Routes(t, p, tasks, e, i) = Routes(t, p, tasks, g, i)
        BY DEF Routes
      <3>3. \A e : i = 0 => Routes(t, p, tasks, e, i) = tasks
        BY DEF Routes
      <3>4. CASE i = m
        <4>1. h[i] = Routes(t, p, tasks, g, m)
          BY <3>4
        <4> HIDE DEF h
        <4> QED BY <3>1, <3>2, <3>3, <3>4, <4>1
      <3>5. CASE i # m
        <4>1. h[i] = g[i] /\ g[i] = Routes(t, p, tasks, g, i)
          BY <2>2, <2>4, <3>5
        <4> HIDE DEF h
        <4> QED BY <3>1, <3>2, <3>3, <4>1
      <3> QED BY <3>4, <3>5
    <2>6. h = [i \in 0 .. m |-> Routes(t, p, tasks, h, i)]
      BY <2>5
    <2> HIDE DEF h
    <2> QED BY <2>2, <2>6
  <1>2. PICK g : g = [i \in 0 .. Batch |-> Routes(t, p, tasks, g, i)]
    <2>1. ~(Batch \in Stops) /\ Batch \in 0 .. Batch
      BY <1>1, RoundsAssumption
    <2> QED BY <2>1
  <1> DEFINE queue == CHOOSE e : e = [i \in 0 .. Batch |-> Routes(t, p, tasks, e, i)]
  <1>3. queue = [i \in 0 .. Batch |-> Routes(t, p, tasks, queue, i)]
    BY <1>2
  <1>4. Routed(t, p, tasks) = queue[Batch]
    BY Zenon DEF Routed, Routes
  <1> HIDE DEF queue
  <1> QED BY <1>3, <1>4

\* What is routed so far: the tasks there were, and behind them keys of the
\* batch that belong to the partition, each one once.
Queued(t, p, tasks, i, s) ==
  /\ s \in Seq(Key) /\ Len(s) \in Len(tasks) .. Len(tasks) + i
  /\ \A a \in 1 .. Len(tasks) : s[a] = tasks[a]
  /\ \A a \in Len(tasks) + 1 .. Len(s) :
       s[a] \in Key /\ home[s[a]][1] = p /\ s[a][1] = t /\ s[a][2] = round[t] /\ s[a][3] \in 1 .. i
  /\ \A a, b \in Len(tasks) + 1 .. Len(s) : s[a] = s[b] => a = b

LEMMA QueuedStep ==
  ASSUME NEW t \in Thread, round[t] \in 1 .. Rounds, NEW p, NEW tasks \in Seq(Key),
         NEW i \in 1 .. Batch, NEW s, Queued(t, p, tasks, i - 1, s)
  PROVE  /\ Queued(t, p, tasks, i, s)
         /\ home[<<t, round[t], i>>][1] = p => Queued(t, p, tasks, i, Append(s, <<t, round[t], i>>))
  <1>1. /\ i \in Nat /\ i - 1 \in Nat /\ i >= 1 /\ s \in Seq(Key) /\ Len(s) \in Nat /\ Len(tasks) \in Nat
        /\ Len(s) >= Len(tasks) /\ Len(s) <= Len(tasks) + (i - 1)
    BY RoundsAssumption DEF Queued
  <1>2. \A x \in 1 .. i - 1 : x \in 1 .. i /\ x # i
    BY <1>1
  <1>3. Queued(t, p, tasks, i, s)
    <2>1. Len(s) \in Len(tasks) .. Len(tasks) + i
      BY <1>1
    <2> QED BY <1>2, <2>1 DEF Queued
  <1> DEFINE k == <<t, round[t], i>>
             r == Append(s, k)
  <1>4. k \in Key /\ k[1] = t /\ k[2] = round[t] /\ k[3] = i
    BY DEF Key
  <1> HIDE DEF k
  <1>5. /\ r \in Seq(Key) /\ Len(r) = Len(s) + 1 /\ r[Len(s) + 1] = k
        /\ \A a \in 1 .. Len(s) : r[a] = s[a]
    BY <1>1, <1>4
  <1> HIDE DEF r
  <1>6. ASSUME home[k][1] = p PROVE Queued(t, p, tasks, i, r)
    <2>1. Len(r) \in Len(tasks) .. Len(tasks) + i
      BY <1>1, <1>5
    <2>2. \A a \in 1 .. Len(tasks) : a \in 1 .. Len(s)
      BY <1>1
    <2>3. \A a \in 1 .. Len(tasks) : r[a] = tasks[a]
      BY <1>5, <2>2 DEF Queued
    <2>4. \A a \in Len(tasks) + 1 .. Len(r) :
             a = Len(s) + 1 \/ (a \in Len(tasks) + 1 .. Len(s) /\ a \in 1 .. Len(s))
      BY <1>1, <1>5
    <2>5. \A a \in Len(tasks) + 1 .. Len(r) :
             /\ r[a] \in Key /\ home[r[a]][1] = p /\ r[a][1] = t /\ r[a][2] = round[t] /\ r[a][3] \in 1 .. i
             /\ a # Len(s) + 1 => r[a] # k
      <3> SUFFICES ASSUME NEW a \in Len(tasks) + 1 .. Len(r)
                   PROVE  /\ r[a] \in Key /\ home[r[a]][1] = p /\ r[a][1] = t /\ r[a][2] = round[t]
                          /\ r[a][3] \in 1 .. i
                          /\ a # Len(s) + 1 => r[a] # k
        OBVIOUS
      <3>1. CASE a = Len(s) + 1
        BY <1>1, <1>4, <1>5, <1>6, <3>1
      <3>2. CASE a # Len(s) + 1
        <4>1. r[a] = s[a] /\ a \in Len(tasks) + 1 .. Len(s)
          BY <1>5, <2>4, <3>2
        <4> QED BY <1>2, <1>4, <4>1 DEF Queued
      <3> QED BY <3>1, <3>2
    <2>6. ASSUME NEW a \in Len(tasks) + 1 .. Len(r), NEW b \in Len(tasks) + 1 .. Len(r), r[a] = r[b]
          PROVE  a = b
      <3>1. CASE a # Len(s) + 1 /\ b # Len(s) + 1
        BY <1>5, <2>4, <2>6, <3>1 DEF Queued
      <3>2. CASE a = Len(s) + 1 \/ b = Len(s) + 1
        BY <1>5, <2>5, <2>6, <3>2
      <3> QED BY <3>1, <3>2
    <2> QED BY <1>5, <2>1, <2>3, <2>5, <2>6 DEF Queued
  <1> QED BY <1>3, <1>6 DEF k, r

LEMMA RoutedQueue ==
  ASSUME NEW t \in Thread, round[t] \in 1 .. Rounds, NEW p, NEW tasks \in Seq(Key)
  PROVE  Queued(t, p, tasks, Batch, Routed(t, p, tasks))
  <1>1. PICK g : g = [i \in 0 .. Batch |-> Routes(t, p, tasks, g, i)] /\ Routed(t, p, tasks) = g[Batch]
    BY RoutedLoop
  <1>2. \A i \in 0 .. Batch : g[i] = Routes(t, p, tasks, g, i)
    BY <1>1
  <1> DEFINE Odd == {i \in 0 .. Batch : ~Queued(t, p, tasks, i, g[i])}
  <1>3. Odd = {}
    <2> SUFFICES ASSUME Odd # {} PROVE FALSE
      OBVIOUS
    <2>1. PICK m \in Odd : \A i \in Odd : m <= i
      <3>1. \A i \in Odd : i \in Nat
        BY RoundsAssumption
      <3> HIDE DEF Odd
      <3> QED BY <3>1, LeastNumber
    <2>2. m \in 0 .. Batch /\ m \in Nat /\ ~Queued(t, p, tasks, m, g[m])
      BY RoundsAssumption
    <2>3. m # 0
      <3>1. ASSUME m = 0 PROVE FALSE
        <4>1. g[m] = tasks
          BY <1>2, <2>2, <3>1 DEF Routes
        <4>2. Len(tasks) \in Nat /\ \A a \in Len(tasks) + 1 .. Len(tasks) : FALSE
          OBVIOUS
        <4>3. Len(tasks) \in Len(tasks) .. Len(tasks) + 0
          BY <4>2
        <4> QED BY <2>2, <3>1, <4>1, <4>2, <4>3 DEF Queued
      <3> QED BY <3>1
    <2>4. m \in 1 .. Batch /\ m - 1 \in 0 .. Batch /\ ~(m <= m - 1)
      BY <2>2, <2>3, RoundsAssumption
    <2>5. Queued(t, p, tasks, m - 1, g[m - 1])
      BY <2>1, <2>4
    <2>6. g[m] = IF home[<<t, round[t], m>>][1] = p THEN Append(g[m - 1], <<t, round[t], m>>) ELSE g[m - 1]
      BY <1>2, <2>2, <2>3 DEF Routes
    <2> QED BY <2>2, <2>4, <2>5, <2>6, QueuedStep
  <1>4. Batch \in 0 .. Batch
    BY RoundsAssumption
  <1> QED BY <1>1, <1>3, <1>4

-----------------------------------------------------------------------------
(* Where the keys are.                                                     *)

\* The rounds a thread has routed.
LastRound(t) == IF pc[t] = "route" THEN round[t] - 1 ELSE round[t]

\* A key of the thread t, routed to the partition p.
KeyOf(t, p, k) == k \in Key /\ home[k][1] = p /\ k[1] = t /\ k[2] <= LastRound(t)

Different(s, len) == \A a, b \in 1 .. len : s[a] = s[b] => a = b

Full(g) == Len(pages[g]) >= BufSize

\* The send buffers hold different keys, and there is room for them.
QueueOf(t) ==
  \A p \in Part :
    /\ n[t][p] \in 0 .. LastRound(t) * Batch
    /\ \A s \in 1 .. n[t][p] : KeyOf(t, p, sbuffer[t][p][s])
    /\ Different(sbuffer[t][p], n[t][p])

\* So do the tasks of the DPU in hand, and the keys that wait are among those
\* worked off.
TasksOf(t) ==
  at[t] # None =>
    LET p == at[t]
        s == asked[t][p]
    IN  /\ s \in Seq(Key) /\ Len(s) <= LastRound(t) * Batch
        /\ \A i \in 1 .. Len(s) : KeyOf(t, p, s[i])
        /\ Different(s, Len(s))
        /\ j[t] <= Len(s)
        /\ \A a \in 1 .. n[t][p] : \E i \in 1 .. j[t] : sbuffer[t][p][a] = s[i]

\* The keys that wait have met their pages full.
WaitingOf(t) ==
  \A p \in Part :
    pc[t] # "search" /\ (pc[t] = "insert" => p \notin todo[t]) =>
      \A s \in 1 .. n[t][p] : home[sbuffer[t][p][s]] \in Page /\ Full(home[sbuffer[t][p][s]])

\* A key in a page is there once, in its own, and is pending no longer.
PagesInv ==
  /\ pages \in [Page -> Seq(Key)]
  /\ \A g \in Page : Different(pages[g], Len(pages[g]))
  /\ \A g \in Page : \A c \in 1 .. Len(pages[g]) :
       LET k == pages[g][c]
       IN  home[k] = g /\ k[2] <= LastRound(k[1]) /\ k \notin Pending(k[1], g[1])

\* A key in a tree has met its page full of others.  It may be pending still
\* if the flag of the tree is set, but once it has been inserted a round ends
\* before it is sent again, and only then may it be inserted a second time.
TreeOf(p, k) ==
  trees[p][k] # 0 =>
    /\ home[k] \in Page /\ home[k][1] = p /\ k[2] <= LastRound(k[1]) /\ Full(home[k])
    /\ \A c \in 1 .. Len(pages[home[k]]) : pages[home[k]][c] # k
    /\ k \in Pending(k[1], p) =>
         enabled[p] /\ (pc[k[1]] \in {"route", "search", "insert", "past"} => k[2] < round[k[1]])
    /\ trees[p][k] # 1 => enabled[p] /\ k[2] < round[k[1]]

TreesInv == \A p \in Part : \A k \in Key : TreeOf(p, k)

Rooms == round \in [Thread -> 1 .. Rounds] /\ home \in [Key -> Part \X (0 .. PagesOf)]

StoreInv ==
  /\ BufferInv /\ Rooms /\ PagesInv /\ TreesInv
  /\ \A t \in Thread : QueueOf(t) /\ TasksOf(t) /\ WaitingOf(t)

LEMMA RoomForRounds ==
  ASSUME NEW r \in 1 .. Rounds
  PROVE  /\ (r - 1) * Batch \in Nat /\ r * Batch \in Nat /\ (r - 1) * Batch + Batch = r * Batch
         /\ r * Batch <= Rounds * Batch /\ (r - 1) * Batch <= r * Batch
         /\ Rounds * Batch \in Nat
  <1>1. r \in Nat /\ r - 1 \in Nat /\ Rounds \in Nat /\ Batch \in Nat /\ r <= Rounds
    BY RoundsAssumption
  <1>2. (r - 1) * Batch \in Nat /\ r * Batch \in Nat /\ Rounds * Batch \in Nat
    BY <1>1
  <1>3. (r - 1) * Batch + Batch = r * Batch
    BY <1>1
  <1>4. r * Batch <= Rounds * Batch
    BY <1>1
  <1> QED BY <1>1, <1>2, <1>3, <1>4

\* What is pending, spelled out.
Waits(t, p, k) ==
  \/ \E s \in 1 .. n[t][p] : k = sbuffer[t][p][s]
  \/ at[t] = p /\ \E s \in j[t] + 1 .. Len(asked[t][p]) : k = asked[t][p][s]

LEMMA PendingWaits ==
  /\ \A t, p, k : k \in Pending(t, p) <=> Waits(t, p, k)
  /\ \A t, p, k : (k \in Pending(t, p))' <=> Waits(t, p, k)'
  BY ZenonT(60) DEF Pending, Waits, Sent, Range

LEMMA StoreInit == Init => StoreInv
  <1> SUFFICES ASSUME Init PROVE StoreInv
    OBVIOUS
  <1> USE DEF Init
  <1>1. Rooms
    BY HomesAssumption, RoundsAssumption DEF Rooms
  <1>2. PagesInv
    <2>1. \A g \in Page : pages[g] = <<>> /\ Len(pages[g]) = 0
      OBVIOUS
    <2>2. pages \in [Page -> Seq(Key)]
      OBVIOUS
    <2> QED BY <2>1, <2>2 DEF PagesInv, Different
  <1>3. TreesInv
    BY DEF TreesInv, TreeOf
  <1>4. ASSUME NEW t \in Thread PROVE QueueOf(t) /\ TasksOf(t) /\ WaitingOf(t)
    <2>1. \A p \in Part : n[t][p] = 0
      OBVIOUS
    <2>2. LastRound(t) * Batch \in Nat
      BY RoundsAssumption DEF LastRound
    <2> QED BY <2>1, <2>2 DEF QueueOf, TasksOf, WaitingOf, Different
  <1> QED BY <1>1, <1>2, <1>3, <1>4, BufferInit DEF StoreInv

\* What a step does to the rounds: only the routing begins one.
LEMMA RoundsStep ==
  ASSUME StoreInv, NEW t \in Thread, Step(t)
  PROVE  /\ home' = home /\ Rooms'
         /\ \A u \in Thread : /\ LastRound(u) \in Nat /\ LastRound(u)' \in Nat
                              /\ LastRound(u) <= LastRound(u)' /\ round[u] <= round'[u]
         /\ pc[t] # "route" => LastRound(t)' = LastRound(t)
         /\ pc[t] = "route" => LastRound(t) = round[t] - 1 /\ LastRound(t)' = round[t]
  <1> USE DEF StoreInv, Rooms
  <1>1. Shapes' /\ OthersKeep(t) /\ Shapes
    BY Effects DEF BufferInv
  <1>2. home' = home
    BY SendsKeeps, GathersKeeps, Kinds DEF Route, Filled, Search, Visit, IntoPage, IntoTree, Wait,
        NoPage, Leave,
           Past, Decide, ResetCount
  <1>3. CASE Decide(t) \/ Gathers(t)
    <2>1. /\ pc[t] \in {"collect", "gather", "flags", "clear", "push"}
          /\ NextRound(t) \/ (pc'[t] \in {"reset", "flags", "clear", "push"} /\ UNCHANGED round)
      BY <1>1, <1>3, GathersKeeps DEF Decide, Shapes
    <2>2. CASE round[t] = Rounds \/ pc'[t] \in {"reset", "flags", "clear", "push"}
      <3>1. UNCHANGED round /\ pc'[t] # "route"
        BY <1>1, <2>1, <2>2 DEF NextRound, Shapes
      <3> QED BY <1>1, <1>2, <2>1, <3>1 DEF LastRound, OthersKeep, Shapes
    <2>3. CASE round[t] # Rounds /\ pc'[t] \notin {"reset", "flags", "clear", "push"}
      <3>1. pc'[t] = "route" /\ round' = [round EXCEPT ![t] = @ + 1]
        BY <1>1, <2>1, <2>3 DEF NextRound, Shapes
      <3>2. /\ round[t] \in 1 .. Rounds /\ round'[t] = round[t] + 1 /\ pc[t] # "route"
            /\ round'[t] - 1 = round[t] /\ round'[t] \in 1 .. Rounds /\ round' \in [Thread -> 1 .. Rounds]
        <4>1. round[t] \in 1 .. Rounds /\ round[t] + 1 \in 1 .. Rounds
          BY <2>3, RoundsAssumption
        <4> QED BY <1>1, <2>1, <3>1, <4>1
      <3>3. LastRound(t) = round[t] /\ LastRound(t)' = round[t]
        BY <3>1, <3>2 DEF LastRound
      <3>4. \A u \in Thread \ {t} : LastRound(u)' = LastRound(u)
        BY <1>1 DEF LastRound, OthersKeep
      <3>5. \A u \in Thread : LastRound(u) \in Nat
        BY RoundsAssumption DEF LastRound
      <3>6. \A u \in Thread : round[u] <= round'[u]
        <4>1. \A u \in Thread : round[u] \in Nat /\ (u # t => round'[u] = round[u])
          BY <1>1, RoundsAssumption DEF OthersKeep
        <4> QED BY <3>2, <4>1
      <3>7. \A u \in Thread : LastRound(u)' \in Nat /\ LastRound(u) <= LastRound(u)'
        BY <3>2, <3>3, <3>4, <3>5
      <3> QED BY <1>2, <3>2, <3>3, <3>5, <3>6, <3>7
    <2> QED BY <2>2, <2>3
  <1>4. CASE ~(Decide(t) \/ Gathers(t))
    <2>1. UNCHANGED round
      BY <1>4, SendsKeeps, Kinds DEF Route, Filled, Search, Visit, IntoPage, IntoTree, Wait, NoPage, Leave,
                  Past, ResetCount
    <2>2. pc'[t] # "route" /\ (pc[t] = "route" \/ pc[t] # "route")
      BY <1>1, <1>4, SendsKeeps, Kinds DEF Shapes, Route, Filled, Search, Visit, IntoPage, IntoTree,
          Wait, NoPage,
                        Leave, Past, ResetCount, Working
    <2> QED BY <1>1, <1>2, <2>1, <2>2 DEF LastRound, OthersKeep
  <1> QED BY <1>3, <1>4

\* The key in hand is the one asked for; it is pending, and only there.
LEMMA Hand ==
  ASSUME StoreInv, NEW t \in Thread, Working(t)
  PROVE  /\ pc[t] = "insert" /\ at[t] \in Part
         /\ j[t] \in Nat /\ n[t][at[t]] \in Nat /\ n[t][at[t]] <= j[t]
         /\ Len(asked[t][at[t]]) \in Nat /\ j[t] + 1 \in 1 .. Len(asked[t][at[t]]) /\ j[t] + 1 \in Slots
         /\ \A s \in 1 .. j[t] + 1 : s \in Slots
         /\ InHand(t) = Asked(t) /\ KeyOf(t, at[t], Asked(t)) /\ Asked(t) \in Pending(t, at[t])
         /\ \A s \in 1 .. n[t][at[t]] : sbuffer[t][at[t]][s] # Asked(t)
         /\ \A s \in j[t] + 2 .. Len(asked[t][at[t]]) : asked[t][at[t]][s] # Asked(t)
  <1> DEFINE p == at[t]
  <1> USE DEF StoreInv
  <1>1. /\ pc[t] = "insert" /\ p \in Part /\ p # None /\ j[t] < Len(asked[t][p]) - 1
        /\ j[t] \in Nat /\ n[t][p] \in Nat /\ n[t][p] <= j[t]
    BY DEF Working, Tasks, BufferInv, BufferOf
  <1>2. /\ asked[t][p] \in Seq(Key) /\ Len(asked[t][p]) \in Nat /\ Len(asked[t][p]) <= LastRound(t) * Batch
        /\ \A i \in 1 .. Len(asked[t][p]) : KeyOf(t, p, asked[t][p][i])
        /\ Different(asked[t][p], Len(asked[t][p]))
        /\ \A a \in 1 .. n[t][p] : \E i \in 1 .. j[t] : sbuffer[t][p][a] = asked[t][p][i]
    BY <1>1 DEF TasksOf
  <1>3. /\ j[t] + 1 \in 1 .. Len(asked[t][p]) /\ Asked(t) = asked[t][p][j[t] + 1]
        /\ DOMAIN asked[t][p] = 1 .. Len(asked[t][p])
    BY <1>1, <1>2 DEF Asked
  <1>4. LastRound(t) * Batch <= Rounds * Batch /\ LastRound(t) * Batch \in Nat /\ Rounds * Batch \in Nat
    <2>1. round[t] \in 1 .. Rounds
      BY DEF Rooms
    <2> QED BY <2>1, RoomForRounds DEF LastRound
  <1>5. j[t] + 1 \in Slots /\ \A s \in 1 .. j[t] + 1 : s \in Slots
    BY SMTT(60), <1>1, <1>2, <1>3, <1>4, BufferAssumption DEF Slots
  <1>6. InHand(t) = Asked(t)
    <2>1. \A s \in Slots \cap DOMAIN asked[t][p] : s > j[t] => sbuffer[t][p][s] = asked[t][p][s]
      BY <1>1 DEF BufferInv, BufferOf
    <2>2. j[t] + 1 \in Slots \cap DOMAIN asked[t][p] /\ j[t] + 1 > j[t]
      BY <1>1, <1>3, <1>5
    <2>3. sbuffer[t][p][j[t] + 1] = asked[t][p][j[t] + 1]
      BY <2>1, <2>2, Zenon
    <2> QED BY <1>3, <2>3, Zenon DEF InHand
  <1>7. Asked(t) \in Pending(t, p)
    BY SMTT(60), <1>1, <1>3 DEF Pending
  <1>8. \A s \in 1 .. n[t][p] : sbuffer[t][p][s] # Asked(t)
    <2>1. \A i \in 1 .. j[t] : i \in 1 .. Len(asked[t][p]) /\ i # j[t] + 1
      BY <1>1, <1>3
    <2>2. \A i \in 1 .. j[t] : asked[t][p][i] # Asked(t)
      BY <1>2, <1>3, <2>1 DEF Different
    <2> QED BY <1>2, <2>2
  <1>9. \A s \in j[t] + 2 .. Len(asked[t][p]) : asked[t][p][s] # Asked(t)
    <2>1. \A i \in j[t] + 2 .. Len(asked[t][p]) : i \in 1 .. Len(asked[t][p]) /\ i # j[t] + 1
      BY <1>1, <1>3
    <2> QED BY <1>2, <1>3, <2>1 DEF Different
  <1>10. KeyOf(t, p, Asked(t))
    BY <1>2, <1>3
  <1> HIDE DEF StoreInv
  <1> QED BY <1>1, <1>2, <1>3, <1>5, <1>6, <1>7, <1>8, <1>9, <1>10

\* A full page stays as it is.
LEMMA FullStays ==
  ASSUME StoreInv, NEW t \in Thread, Step(t), NEW g \in Page, Full(g)
  PROVE  pages'[g] = pages[g] /\ Full(g)'
  <1>1. CASE IntoPage(t)
    <2>1. PICK h \in Page : Len(pages[h]) < BufSize /\ pages' = [pages EXCEPT ![h] = Append(@, InHand(t))]
      BY <1>1 DEF IntoPage, HasPage
    <2>2. g # h
      <3>1. Len(pages[h]) \in Nat /\ BufSize \in Nat
        BY SizesAssumption DEF StoreInv, PagesInv
      <3> QED BY <2>1, <3>1 DEF Full
    <2> QED BY <2>1, <2>2 DEF Full
  <1>2. CASE UNCHANGED pages
    BY <1>2 DEF Full
  <1> QED BY <1>1, <1>2, SendsKeeps, GathersKeeps, Kinds DEF Route, Search, Visit, IntoTree, Wait,
      NoPage, Leave,
                            Past, Decide, ResetCount

\* The buffers of the others are as they were.
LEMMA OthersStore ==
  ASSUME StoreInv, NEW t \in Thread, Step(t), NEW u \in Thread \ {t}
  PROVE  /\ QueueOf(u)' /\ TasksOf(u)' /\ WaitingOf(u)'
         /\ \A p : Pending(u, p)' = Pending(u, p)
  <1>1. OthersKeep(t) /\ home' = home
    BY Effects, RoundsStep DEF StoreInv, BufferInv
  <1>2. /\ pc'[u] = pc[u] /\ round'[u] = round[u] /\ at'[u] = at[u] /\ todo'[u] = todo[u] /\ j'[u] = j[u]
        /\ n'[u] = n[u] /\ sbuffer'[u] = sbuffer[u] /\ asked'[u] = asked[u]
    BY <1>1 DEF OthersKeep
  <1>3. QueueOf(u) /\ TasksOf(u) /\ WaitingOf(u)
    BY DEF StoreInv
  <1>4. LastRound(u)' = LastRound(u)
    BY <1>2 DEF LastRound
  <1>5. QueueOf(u)'
    BY <1>1, <1>2, <1>3, <1>4 DEF QueueOf, KeyOf, Different
  <1>6. TasksOf(u)'
    BY <1>1, <1>2, <1>3, <1>4 DEF TasksOf, KeyOf, Different
  <1>7. WaitingOf(u)'
    BY <1>1, <1>2, <1>3, FullStays DEF WaitingOf
  <1>8. \A p : Pending(u, p)' = Pending(u, p)
    BY <1>2 DEF Pending, Sent
  <1> QED BY <1>5, <1>6, <1>7, <1>8

\* What the routing makes of the send buffers.
LEMMA RouteFills ==
  ASSUME StoreInv, NEW t \in Thread, Route(t), NEW p \in Part
  PROVE  /\ n[t][p] \in Nat /\ n'[t][p] \in Nat /\ n[t][p] <= n'[t][p] /\ n'[t][p] \in 0 .. round[t] * Batch
         /\ \A s \in 1 .. n[t][p] : sbuffer'[t][p][s] = sbuffer[t][p][s]
         /\ \A s \in 1 .. n'[t][p] : KeyOf(t, p, sbuffer[t][p][s])'
         /\ \A s \in n[t][p] + 1 .. n'[t][p] : sbuffer'[t][p][s][2] = round[t]
         /\ \A s \in 1 .. n[t][p] : sbuffer[t][p][s][2] <= round[t] - 1
         /\ Different(sbuffer'[t][p], n'[t][p])
  <1> USE DEF StoreInv
  <1>1. /\ pc[t] = "route" /\ round[t] \in 1 .. Rounds /\ round[t] \in Nat /\ home' = home
        /\ LastRound(t) = round[t] - 1 /\ LastRound(t)' = round[t]
    <2>1. Step(t)
      BY DEF Step
    <2> QED BY <2>1, RoundsStep DEF Route, Rooms
  <1> DEFINE tasks == Sent(t, p)
             all == Routed(t, p, tasks)
  <1>2. /\ n[t][p] \in 0 .. (round[t] - 1) * Batch /\ n[t][p] \in Nat
        /\ \A s \in 1 .. n[t][p] : KeyOf(t, p, sbuffer[t][p][s])
        /\ Different(sbuffer[t][p], n[t][p])
    <2>1. (round[t] - 1) * Batch \in Nat
      BY <1>1, RoomForRounds
    <2> QED BY <1>1, <2>1 DEF QueueOf
  <1>3. /\ tasks \in Seq(Key) /\ Len(tasks) = n[t][p]
        /\ \A s \in 1 .. n[t][p] : tasks[s] = sbuffer[t][p][s]
    BY <1>2 DEF Sent, KeyOf
  <1> HIDE DEF tasks
  <1>4. Queued(t, p, tasks, Batch, all)
    BY <1>1, <1>3, RoutedQueue
  <1> HIDE DEF all
  <1>5. /\ Len(all) \in Nat /\ n[t][p] <= Len(all) /\ Len(all) <= round[t] * Batch
        /\ round[t] * Batch <= Rounds * Batch /\ round[t] * Batch \in Nat /\ Rounds * Batch \in Nat
    <2>1. Len(all) \in Nat /\ Len(all) >= n[t][p] /\ Len(all) <= n[t][p] + Batch /\ Batch \in Nat
      BY <1>2, <1>3, <1>4, RoundsAssumption DEF Queued
    <2>2. /\ (round[t] - 1) * Batch + Batch = round[t] * Batch /\ (round[t] - 1) * Batch \in Nat
          /\ round[t] * Batch \in Nat /\ round[t] * Batch <= Rounds * Batch /\ Rounds * Batch \in Nat
      BY <1>1, RoomForRounds
    <2> HIDE DEF StoreInv
    <2> QED BY <1>2, <2>1, <2>2
  <1>6. n'[t][p] = Len(all) /\ \A s \in 1 .. Len(all) : sbuffer'[t][p][s] = all[s]
    <2>1. \A s \in 1 .. Len(all) : s \in Slots
      BY <1>5, BufferAssumption DEF Slots
    <2>2. /\ n'[t] = [q \in Part |-> Len(Routed(t, q, Sent(t, q)))]
          /\ sbuffer'[t] = [q \in Part |-> [s \in Slots |->
               IF s \in 1 .. Len(Routed(t, q, Sent(t, q))) THEN Routed(t, q, Sent(t, q))[s] ELSE sbuffer[t][q][s]]]
      BY DEF Route, Filled, BufferInv, Shapes
    <2> QED BY <2>1, <2>2 DEF all, tasks
  <1>7. \A s \in 1 .. n[t][p] : s \in 1 .. Len(all) /\ all[s] = sbuffer[t][p][s]
    BY <1>2, <1>3, <1>4, <1>5 DEF Queued
  <1>8. \A s \in 1 .. Len(all) : s \in 1 .. n[t][p] \/ s \in n[t][p] + 1 .. Len(all)
    BY <1>2, <1>5
  <1>9. \A s \in n[t][p] + 1 .. Len(all) :
           all[s] \in Key /\ home[all[s]][1] = p /\ all[s][1] = t /\ all[s][2] = round[t]
    BY <1>3, <1>4 DEF Queued
  <1>10. \A s \in 1 .. n[t][p] : /\ all[s] \in Key /\ home[all[s]][1] = p /\ all[s][1] = t
                                 /\ all[s][2] <= round[t] - 1 /\ all[s][2] <= round[t]
    <2> SUFFICES ASSUME NEW s \in 1 .. n[t][p]
                 PROVE  /\ all[s] \in Key /\ home[all[s]][1] = p /\ all[s][1] = t
                        /\ all[s][2] <= round[t] - 1 /\ all[s][2] <= round[t]
      OBVIOUS
    <2>1. /\ all[s] \in Key /\ home[all[s]][1] = p /\ all[s][1] = t /\ all[s][2] <= round[t] - 1
      BY <1>1, <1>2, <1>7 DEF KeyOf
    <2>2. all[s][2] \in Nat
      BY <2>1, RoundsAssumption DEF Key
    <2> QED BY <1>1, <2>1, <2>2
  <1>11. ASSUME NEW s \in 1 .. n'[t][p] PROVE KeyOf(t, p, sbuffer[t][p][s])'
    <2>1. s \in 1 .. Len(all) /\ sbuffer'[t][p][s] = all[s]
      BY <1>6
    <2>2. all[s] \in Key /\ home[all[s]][1] = p /\ all[s][1] = t /\ all[s][2] <= round[t]
      BY <1>1, <1>8, <1>9, <1>10, <2>1
    <2> QED BY <1>1, <2>1, <2>2 DEF KeyOf
  <1>12. Different(all, Len(all))
    <2> SUFFICES ASSUME NEW a \in 1 .. Len(all), NEW b \in 1 .. Len(all), all[a] = all[b]
                 PROVE  a = b
      BY DEF Different
    <2>1. CASE a \in 1 .. n[t][p] /\ b \in 1 .. n[t][p]
      BY <1>2, <1>7, <2>1 DEF Different
    <2>2. CASE a \in n[t][p] + 1 .. Len(all) /\ b \in n[t][p] + 1 .. Len(all)
      BY <1>3, <1>4, <2>2 DEF Queued
    <2>3. CASE ~(a \in 1 .. n[t][p] <=> b \in 1 .. n[t][p])
      <3>1. ~(round[t] <= round[t] - 1)
        BY <1>1
      <3> QED BY <1>8, <1>9, <1>10, <2>3, <3>1
    <2> QED BY <1>8, <2>1, <2>2, <2>3
  <1>13. Different(sbuffer'[t][p], n'[t][p])
    BY <1>6, <1>12 DEF Different
  <1>14. n'[t][p] \in 0 .. round[t] * Batch
    BY <1>5, <1>6
  <1> HIDE DEF StoreInv
  <1> QED BY SMTT(60), <1>2, <1>5, <1>6, <1>7, <1>9, <1>10, <1>11, <1>13, <1>14

\* What moving a key does to the send buffer of the DPU in hand.
LEMMA WaitMoves ==
  ASSUME StoreInv, NEW t \in Thread, Wait(t), NEW p, p = at[t]
  PROVE  /\ n'[t][p] = n[t][p] + 1 /\ j'[t] = j[t] + 1
         /\ sbuffer'[t][p][n[t][p] + 1] = Asked(t)
         /\ \A s \in 1 .. n[t][p] : sbuffer'[t][p][s] = sbuffer[t][p][s]
         /\ \A q \in Part \ {p} : n'[t][q] = n[t][q] /\ sbuffer'[t][q] = sbuffer[t][q]
         /\ UNCHANGED <<pc, at, todo, asked, home, pages, round>>
  <1>1. /\ Shapes /\ p \in Part /\ n[t][p] \in Nat /\ n[t][p] <= j[t] /\ j[t] \in Nat
        /\ \A s \in 1 .. j[t] + 1 : s \in Slots
        /\ InHand(t) = Asked(t)
    BY Hand DEF Wait, StoreInv, BufferInv
  <1>2. /\ n' = [n EXCEPT ![t][p] = @ + 1] /\ j' = [j EXCEPT ![t] = @ + 1]
        /\ sbuffer' = [sbuffer EXCEPT ![t][p][n[t][p] + 1] = InHand(t)]
        /\ UNCHANGED <<pc, at, todo, asked, home, pages, round>>
    BY DEF Wait, Move, NextTask
  <1>3. n[t][p] + 1 \in Slots
    BY <1>1
  <1>4. \A s \in 1 .. n[t][p] : s # n[t][p] + 1
    BY <1>1
  <1> QED BY <1>1, <1>2, <1>3, <1>4 DEF Shapes

LEMMA QueueSelf ==
  ASSUME StoreInv, NEW t \in Thread, Step(t)
  PROVE  QueueOf(t)'
  <1>1. /\ home' = home /\ QueueOf(t) /\ Shapes
        /\ LastRound(t) \in Nat
        /\ pc[t] # "route" => LastRound(t)' = LastRound(t)
    BY RoundsStep DEF StoreInv, BufferInv
  <1>2. CASE Route(t)
    <2>1. LastRound(t)' = round[t]
      BY <1>2, RoundsStep DEF Route
    <2> QED BY <1>2, <2>1, RouteFills DEF QueueOf, Different
  <1>3. CASE Visit(t)
    <2>1. PICK q \in todo[t] : n' = [n EXCEPT ![t][q] = 0] /\ pc[t] = "insert" /\ UNCHANGED sbuffer
      BY <1>3 DEF Visit
    <2>2. \A p \in Part : n'[t][p] = 0 \/ n'[t][p] = n[t][p]
      BY <1>1, <2>1 DEF Shapes
    <2>3. LastRound(t)' * Batch \in Nat
      BY <1>1, <2>1, RoundsAssumption
    <2>4. LastRound(t)' = LastRound(t)
      BY <1>1, <2>1
    <2> QED BY <1>1, <2>1, <2>2, <2>3, <2>4 DEF QueueOf, KeyOf, Different
  <1>4. CASE Wait(t)
    <2>1. PICK p \in Part : p = at[t]
      BY <1>4, Hand DEF Wait
    <2>2. /\ n'[t][p] = n[t][p] + 1 /\ sbuffer'[t][p][n[t][p] + 1] = Asked(t)
          /\ \A s \in 1 .. n[t][p] : sbuffer'[t][p][s] = sbuffer[t][p][s]
          /\ \A q \in Part \ {p} : n'[t][q] = n[t][q] /\ sbuffer'[t][q] = sbuffer[t][q]
      BY <1>4, <2>1, WaitMoves
    <2>3. /\ LastRound(t)' = LastRound(t) /\ KeyOf(t, p, Asked(t))
          /\ n[t][p] \in Nat /\ n[t][p] <= j[t] /\ j[t] \in Nat
          /\ j[t] + 1 <= Len(asked[t][p]) /\ Len(asked[t][p]) \in Nat
          /\ \A s \in 1 .. n[t][p] : sbuffer[t][p][s] # Asked(t)
      <3>1. Working(t) /\ pc[t] = "insert" /\ "insert" # "route"
        BY <1>4, Hand DEF Wait
      <3>2. n[t][p] \in Nat /\ n[t][p] <= j[t] /\ j[t] \in Nat /\ Len(asked[t][p]) \in Nat
        BY <2>1, <3>1, Hand
      <3>3. j[t] + 1 \in 1 .. Len(asked[t][p]) /\ KeyOf(t, p, Asked(t))
        BY <2>1, <3>1, Hand
      <3>4. \A s \in 1 .. n[t][p] : sbuffer[t][p][s] # Asked(t)
        BY <2>1, <3>1, Hand
      <3> QED BY <1>1, <3>1, <3>2, <3>3, <3>4
    <2>4. Len(asked[t][p]) <= LastRound(t) * Batch /\ LastRound(t) * Batch \in Nat
      <3>1. p # None
        BY NoneAssumption
      <3> QED BY <1>1, <2>1, <3>1, RoundsAssumption DEF StoreInv, TasksOf
    <2>5. n'[t][p] \in 0 .. LastRound(t) * Batch
      BY <2>2, <2>3, <2>4
    <2>6. \A s \in 1 .. n'[t][p] : s \in 1 .. n[t][p] \/ s = n[t][p] + 1
      BY <2>2, <2>3
    <2>7. \A s \in 1 .. n'[t][p] : KeyOf(t, p, sbuffer[t][p][s])'
      BY SMTT(60), <1>1, <2>2, <2>3, <2>6 DEF QueueOf, KeyOf
    <2>8. Different(sbuffer'[t][p], n'[t][p])
      BY SMTT(60), <1>1, <2>2, <2>3, <2>6 DEF QueueOf, Different
    <2>9. \A q \in Part \ {p} : /\ n'[t][q] \in 0 .. LastRound(t) * Batch
                                /\ \A s \in 1 .. n'[t][q] : KeyOf(t, q, sbuffer[t][q][s])'
                                /\ Different(sbuffer'[t][q], n'[t][q])
      <3> SUFFICES ASSUME NEW q \in Part \ {p}
                   PROVE  /\ n'[t][q] \in 0 .. LastRound(t) * Batch
                          /\ \A s \in 1 .. n'[t][q] : KeyOf(t, q, sbuffer[t][q][s])'
                          /\ Different(sbuffer'[t][q], n'[t][q])
        OBVIOUS
      <3>1. /\ n[t][q] \in 0 .. LastRound(t) * Batch
            /\ \A s \in 1 .. n[t][q] : KeyOf(t, q, sbuffer[t][q][s])
            /\ Different(sbuffer[t][q], n[t][q])
        BY <1>1 DEF QueueOf
      <3>2. \A s \in 1 .. n'[t][q] : KeyOf(t, q, sbuffer[t][q][s])'
        BY <1>1, <2>2, <2>3, <3>1 DEF KeyOf
      <3> QED BY <2>2, <3>1, <3>2
    <2> QED BY <2>3, <2>5, <2>7, <2>8, <2>9 DEF QueueOf, Different
  <1>5. CASE pc[t] # "route" /\ UNCHANGED <<n, sbuffer>>
    BY <1>1, <1>5 DEF QueueOf, KeyOf, Different
  <1> QED BY <1>2, <1>3, <1>4, <1>5, SendsKeeps, GathersKeeps, Kinds DEF Search, IntoPage, IntoTree,
      NoPage, Leave, Past,
              Decide, ResetCount, Working

LEMMA TasksSelf ==
  ASSUME StoreInv, NEW t \in Thread, Step(t)
  PROVE  TasksOf(t)'
  <1>1. /\ home' = home /\ QueueOf(t) /\ TasksOf(t) /\ BufferOf(t) /\ Shapes
        /\ LastRound(t) \in Nat
        /\ pc[t] # "route" => LastRound(t)' = LastRound(t)
    BY RoundsStep DEF StoreInv, BufferInv
  <1>2. CASE Visit(t)
    <2>1. PICK p \in todo[t] : /\ pc[t] = "insert" /\ UNCHANGED <<asked, sbuffer>>
                               /\ n' = [n EXCEPT ![t][p] = 0] /\ j' = [j EXCEPT ![t] = 0]
                               /\ at' = [at EXCEPT ![t] = p]
      BY <1>2 DEF Visit
    <2>2. /\ p \in Part /\ asked[t][p] = Sent(t, p) /\ LastRound(t)' = LastRound(t)
          /\ at'[t] = p /\ n'[t][p] = 0 /\ j'[t] = 0
      BY <1>1, <2>1 DEF BufferOf, Shapes
    <2>3. LastRound(t) * Batch \in Nat
      BY <1>1, RoundsAssumption
    <2>4. n[t][p] \in Nat /\ n[t][p] <= LastRound(t) * Batch
      BY <1>1, <2>2, <2>3 DEF QueueOf
    <2>5. /\ asked[t][p] \in Seq(Key) /\ Len(asked[t][p]) = n[t][p]
          /\ \A i \in 1 .. n[t][p] : asked[t][p][i] = sbuffer[t][p][i]
      BY <1>1, <2>2, <2>4 DEF Sent, QueueOf, KeyOf
    <2>6. \A i \in 1 .. n[t][p] : KeyOf(t, p, asked[t][p][i])
      BY <1>1, <2>2, <2>5 DEF QueueOf
    <2>7. Different(asked[t][p], n[t][p])
      BY <1>1, <2>2, <2>5 DEF QueueOf, Different
    <2>8. \A i \in 1 .. n[t][p] : KeyOf(t, p, asked[t][p][i])'
      BY <1>1, <2>1, <2>2, <2>6 DEF KeyOf
    <2>9. asked'[t] = asked[t] /\ \A a \in 1 .. n'[t][p] : FALSE
      BY <2>1, <2>2
    <2> QED BY <2>2, <2>4, <2>5, <2>7, <2>8, <2>9 DEF TasksOf
  <1>3. CASE Working(t) /\ (IntoPage(t) \/ IntoTree(t) \/ NoPage(t) \/ Wait(t))
    <2>1. PICK p \in Part : p = at[t] /\ p # None
      BY <1>3, Hand, NoneAssumption DEF Working
    <2>2. /\ LastRound(t)' = LastRound(t) /\ j'[t] = j[t] + 1 /\ j[t] \in Nat
          /\ j[t] + 1 \in 1 .. Len(asked[t][p]) /\ n[t][p] \in Nat
          /\ asked' = asked /\ at' = at
          /\ asked[t][p][j[t] + 1] = Asked(t)
      BY <1>1, <1>3, <2>1, Hand DEF IntoPage, IntoTree, NoPage, Wait, NextTask, Shapes, Working, Asked
    <2>3. \A a \in 1 .. n'[t][p] :
             \/ a \in 1 .. n[t][p] /\ sbuffer'[t][p][a] = sbuffer[t][p][a]
             \/ sbuffer'[t][p][a] = Asked(t)
      <3>1. CASE Wait(t)
        <4>1. /\ n'[t][p] = n[t][p] + 1 /\ sbuffer'[t][p][n[t][p] + 1] = Asked(t)
              /\ \A s \in 1 .. n[t][p] : sbuffer'[t][p][s] = sbuffer[t][p][s]
          BY <2>1, <3>1, WaitMoves
        <4>2. \A a \in 1 .. n'[t][p] : a \in 1 .. n[t][p] \/ a = n[t][p] + 1
          BY <2>2, <4>1
        <4> QED BY <4>1, <4>2
      <3>2. CASE UNCHANGED <<n, sbuffer>>
        BY <3>2
      <3> QED BY <1>3, <3>1, <3>2 DEF IntoPage, IntoTree, NoPage
    <2>4. /\ asked[t][p] \in Seq(Key) /\ Len(asked[t][p]) <= LastRound(t) * Batch
          /\ \A i \in 1 .. Len(asked[t][p]) : KeyOf(t, p, asked[t][p][i])
          /\ Different(asked[t][p], Len(asked[t][p]))
          /\ \A a \in 1 .. n[t][p] : \E i \in 1 .. j[t] : sbuffer[t][p][a] = asked[t][p][i]
      BY <1>1, <2>1 DEF TasksOf
    <2>5. \A i \in 1 .. Len(asked[t][p]) : KeyOf(t, p, asked[t][p][i])'
      BY <1>1, <2>2, <2>4 DEF KeyOf
    <2>6. j'[t] <= Len(asked[t][p]) /\ j'[t] \in 1 .. j'[t] /\ \A i \in 1 .. j[t] : i \in 1 .. j'[t]
      BY <2>2
    <2>7. \A a \in 1 .. n'[t][p] : \E i \in 1 .. j'[t] : sbuffer'[t][p][a] = asked[t][p][i]
      BY <2>2, <2>3, <2>4, <2>6
    <2> QED BY <2>1, <2>2, <2>4, <2>5, <2>6, <2>7 DEF TasksOf
  <1>4. CASE at'[t] = None
    BY <1>4 DEF TasksOf
  <1>5. CASE Route(t) \/ Search(t) \/ Leave(t) \/ Sends(t) \/ Past(t) \/ Decide(t)
               \/ ResetCount(t) \/ Gathers(t)
    <2>1. at'[t] = None
      BY <1>1, <1>5, SendsKeeps, GathersKeeps DEF Route, Search, Leave, Past, Decide, ResetCount,
          BufferOf, Shapes
    <2> QED BY <1>4, <2>1
  <1> QED BY <1>2, <1>3, <1>5, Kinds DEF IntoPage, IntoTree, NoPage, Wait

LEMMA WaitingSelf ==
  ASSUME StoreInv, NEW t \in Thread, Step(t)
  PROVE  WaitingOf(t)'
  <1>1. /\ home' = home /\ QueueOf(t) /\ WaitingOf(t) /\ BufferOf(t) /\ Shapes
    BY RoundsStep DEF StoreInv, BufferInv
  <1>2. CASE Route(t) \/ Search(t)
    <2>1. pc'[t] = "search" \/ (pc'[t] = "insert" /\ todo'[t] = Part)
      BY <1>1, <1>2 DEF Route, Search, Shapes
    <2> QED BY <2>1 DEF WaitingOf
  <1>3. CASE Visit(t)
    <2>1. PICK q \in todo[t] : /\ n' = [n EXCEPT ![t][q] = 0] /\ pc[t] = "insert" /\ UNCHANGED <<sbuffer, pc>>
                               /\ todo' = [todo EXCEPT ![t] = @ \ {q}]
      BY <1>3 DEF Visit
    <2>2. \A p \in Part \ {q} : n'[t][p] = n[t][p] /\ (p \notin todo'[t] => p \notin todo[t])
      BY <1>1, <2>1 DEF Shapes
    <2>3. q \in Part => \A s \in 1 .. n'[t][q] : FALSE
      BY <1>1, <2>1 DEF Shapes
    <2> QED BY <1>1, <2>1, <2>2, <2>3, FullStays DEF WaitingOf
  <1>4. CASE Wait(t)
    <2>1. PICK p \in Part : p = at[t] /\ p # None
      BY <1>4, Hand, NoneAssumption DEF Wait, Working
    <2>2. /\ n'[t][p] = n[t][p] + 1 /\ sbuffer'[t][p][n[t][p] + 1] = Asked(t)
          /\ \A s \in 1 .. n[t][p] : sbuffer'[t][p][s] = sbuffer[t][p][s]
          /\ \A q \in Part \ {p} : n'[t][q] = n[t][q] /\ sbuffer'[t][q] = sbuffer[t][q]
          /\ UNCHANGED <<pc, todo, pages>>
      BY <1>4, <2>1, WaitMoves
    <2>3. /\ pc[t] = "insert" /\ p \notin todo[t] /\ n[t][p] \in Nat
          /\ home[Asked(t)] \in Page /\ Full(home[Asked(t)])
      BY <1>1, <1>4, <2>1, Hand DEF Wait, PageFull, HasPage, Full, BufferOf
    <2>4. \A s \in 1 .. n'[t][p] : s \in 1 .. n[t][p] \/ s = n[t][p] + 1
      BY <2>2, <2>3
    <2>5. \A s \in 1 .. n'[t][p] : home[sbuffer'[t][p][s]] \in Page /\ Full(home[sbuffer'[t][p][s]])
      BY <1>1, <2>2, <2>3, <2>4 DEF WaitingOf
    <2> QED BY <1>1, <2>2, <2>5 DEF WaitingOf, Full
  <1>5. CASE /\ UNCHANGED <<n, sbuffer>>
             /\ pc[t] # "search" /\ pc'[t] # "search" /\ (pc[t] = "insert" => todo[t] \cap Part = todo'[t] \cap Part)
             /\ pc[t] = "insert" /\ pc'[t] # "insert" => todo[t] = {}
             /\ pc'[t] = "insert" => pc[t] = "insert"
    BY <1>1, <1>5, FullStays DEF WaitingOf
  <1>6. CASE IntoPage(t) \/ IntoTree(t) \/ NoPage(t) \/ Leave(t)
    <2>1. pc[t] = "insert" /\ UNCHANGED <<n, sbuffer, pc, todo>>
      BY <1>6 DEF IntoPage, IntoTree, NoPage, Leave, Working
    <2> QED BY <1>5, <2>1
  <1>7. CASE Sends(t)
    <2>1. pc[t] = "insert" /\ UNCHANGED <<n, sbuffer, todo>> /\ todo[t] = {} /\ pc'[t] \in {"collect", "past"}
      BY <1>1, <1>7, SendsKeeps DEF Shapes
    <2> QED BY <1>5, <2>1
  <1>8. CASE Past(t) \/ Decide(t) \/ ResetCount(t) \/ Gathers(t)
    <2>1. /\ pc[t] \in {"past", "collect", "reset", "gather", "flags", "clear", "push"}
          /\ UNCHANGED <<n, sbuffer, todo>>
          /\ pc'[t] \in {"route", "done", "collect", "reset", "gather", "flags", "clear", "push"}
      BY <1>1, <1>8, GathersKeeps DEF Past, Decide, ResetCount, NextRound, Shapes
    <2> QED BY <1>5, <2>1
  <1> QED BY <1>2, <1>3, <1>4, <1>6, <1>7, <1>8, Kinds

-----------------------------------------------------------------------------
(* What is pending, from step to step.                                     *)

\* The routing adds keys of the new round.
LEMMA PendingRoute ==
  ASSUME StoreInv, NEW t \in Thread, Route(t), NEW p \in Part, NEW k
  PROVE  /\ k \in Pending(t, p) => k \in Pending(t, p)'
         /\ k \in Pending(t, p)' => k \in Pending(t, p) \/ k[2] = round[t]
  <1>1. at[t] = None /\ at'[t] = None /\ p # None
    BY NoneAssumption DEF StoreInv, BufferInv, BufferOf, Route
  <1>2. /\ n[t][p] \in Nat /\ n'[t][p] \in Nat /\ n[t][p] <= n'[t][p]
        /\ \A s \in 1 .. n[t][p] : sbuffer'[t][p][s] = sbuffer[t][p][s]
        /\ \A s \in n[t][p] + 1 .. n'[t][p] : sbuffer'[t][p][s][2] = round[t]
    BY RouteFills
  <1>3. /\ \A s \in 1 .. n[t][p] : s \in 1 .. n'[t][p]
        /\ \A s \in 1 .. n'[t][p] : s \in 1 .. n[t][p] \/ s \in n[t][p] + 1 .. n'[t][p]
    BY <1>2
  <1>4. Waits(t, p, k) => Waits(t, p, k)'
    BY <1>1, <1>2, <1>3 DEF Waits
  <1>5. Waits(t, p, k)' => Waits(t, p, k) \/ k[2] = round[t]
    BY <1>1, <1>2, <1>3 DEF Waits
  <1> QED BY <1>4, <1>5, PendingWaits

\* The tasks of the DPU in hand are those that were sent.
LEMMA PendingVisit ==
  ASSUME StoreInv, NEW t \in Thread, Visit(t), NEW p \in Part, NEW k
  PROVE  k \in Pending(t, p)' <=> k \in Pending(t, p)
  <1>1. Shapes /\ BufferOf(t) /\ QueueOf(t) /\ pc[t] = "insert" /\ at[t] = None /\ p # None
    BY NoneAssumption DEF StoreInv, BufferInv, Visit
  <1>2. PICK q \in todo[t] : /\ at' = [at EXCEPT ![t] = q] /\ n' = [n EXCEPT ![t][q] = 0]
                             /\ j' = [j EXCEPT ![t] = 0] /\ UNCHANGED <<sbuffer, asked>>
    BY DEF Visit
  <1>3. q \in Part /\ asked[t][q] = Sent(t, q) /\ at'[t] = q /\ n'[t][q] = 0 /\ j'[t] = 0
    BY <1>1, <1>2 DEF BufferOf, Shapes
  <1>4. \A r \in Part \ {q} : n'[t][r] = n[t][r]
    BY <1>1, <1>2, <1>3 DEF Shapes
  <1>5. n[t][q] \in Nat
    <2>1. LastRound(t) * Batch \in Nat
      <3>1. round[t] \in 1 .. Rounds
        BY DEF StoreInv, Rooms
      <3> QED BY <3>1, RoomForRounds DEF LastRound
    <2> QED BY <1>1, <1>3, <2>1 DEF QueueOf
  <1>6. /\ Len(asked[t][q]) = n[t][q]
        /\ \A i \in 1 .. n[t][q] : asked[t][q][i] = sbuffer[t][q][i]
    <2>1. \A i \in 1 .. n[t][q] : sbuffer[t][q][i] \in Key
      BY <1>1, <1>3 DEF QueueOf, KeyOf
    <2> QED BY <1>3, <1>5, <2>1 DEF Sent
  <1>7. CASE p = q
    <2>1. Waits(t, p, k)' <=> \E s \in 0 + 1 .. n[t][p] : k = sbuffer[t][p][s]
      BY <1>2, <1>3, <1>6, <1>7 DEF Waits
    <2>2. Waits(t, p, k) <=> \E s \in 1 .. n[t][p] : k = sbuffer[t][p][s]
      BY <1>1 DEF Waits
    <2>3. 0 + 1 = 1
      OBVIOUS
    <2> QED BY <2>1, <2>2, <2>3, PendingWaits
  <1>8. CASE p # q
    <2>1. Waits(t, p, k)' <=> Waits(t, p, k)
      BY <1>1, <1>2, <1>3, <1>4, <1>8 DEF Waits
    <2> QED BY <2>1, PendingWaits
  <1> QED BY <1>7, <1>8

\* The key in hand is pending no longer.
LEMMA PendingNext ==
  ASSUME StoreInv, NEW t \in Thread, IntoPage(t) \/ IntoTree(t) \/ NoPage(t), NEW p \in Part, NEW k
  PROVE  k \in Pending(t, p)' <=> k \in Pending(t, p) /\ ~(p = at[t] /\ k = Asked(t))
  <1>1. /\ Working(t) /\ UNCHANGED <<n, sbuffer, at, asked>> /\ j' = [j EXCEPT ![t] = @ + 1]
    BY DEF IntoPage, IntoTree, NoPage, NextTask
  <1>2. /\ Shapes /\ j[t] \in Nat /\ Len(asked[t][at[t]]) \in Nat /\ j[t] + 1 <= Len(asked[t][at[t]])
        /\ \A s \in 1 .. n[t][at[t]] : sbuffer[t][at[t]][s] # Asked(t)
        /\ \A s \in j[t] + 2 .. Len(asked[t][at[t]]) : asked[t][at[t]][s] # Asked(t)
        /\ Asked(t) = asked[t][at[t]][j[t] + 1]
    BY <1>1, Hand DEF StoreInv, BufferInv, Asked
  <1>3. j'[t] + 1 = j[t] + 2
    BY <1>1, <1>2 DEF Shapes
  <1>4. \A s : s \in j[t] + 1 .. Len(asked[t][at[t]]) <=>
               s = j[t] + 1 \/ s \in j[t] + 2 .. Len(asked[t][at[t]])
    BY <1>2
  <1>5. Waits(t, p, k)' <=> \/ \E s \in 1 .. n[t][p] : k = sbuffer[t][p][s]
                            \/ at[t] = p /\ \E s \in j[t] + 2 .. Len(asked[t][p]) : k = asked[t][p][s]
    BY <1>1, <1>3 DEF Waits
  <1>6. Waits(t, p, k)' <=> Waits(t, p, k) /\ ~(p = at[t] /\ k = Asked(t))
    BY <1>2, <1>4, <1>5 DEF Waits
  <1> QED BY <1>6, PendingWaits

\* It stays pending if it has to wait.
LEMMA PendingWait ==
  ASSUME StoreInv, NEW t \in Thread, Wait(t), NEW p \in Part, NEW k
  PROVE  k \in Pending(t, p)' <=> k \in Pending(t, p)
  <1>1. PICK q \in Part : q = at[t] /\ q # None
    BY Hand, NoneAssumption DEF Wait, Working
  <1>2. /\ n'[t][q] = n[t][q] + 1 /\ sbuffer'[t][q][n[t][q] + 1] = Asked(t) /\ j'[t] = j[t] + 1
        /\ \A s \in 1 .. n[t][q] : sbuffer'[t][q][s] = sbuffer[t][q][s]
        /\ \A r \in Part \ {q} : n'[t][r] = n[t][r] /\ sbuffer'[t][r] = sbuffer[t][r]
        /\ UNCHANGED <<at, asked>>
    BY <1>1, WaitMoves
  <1>3. /\ j[t] \in Nat /\ n[t][q] \in Nat /\ Len(asked[t][q]) \in Nat /\ j[t] + 1 <= Len(asked[t][q])
        /\ Asked(t) = asked[t][q][j[t] + 1]
    BY <1>1, Hand DEF Asked, Wait
  <1>4. CASE p = q
    <2>1. Waits(t, p, k)' <=> \/ k = Asked(t) \/ \E s \in 1 .. n[t][q] : k = sbuffer[t][q][s]
                              \/ \E s \in j[t] + 2 .. Len(asked[t][q]) : k = asked[t][q][s]
      <3>1. \A s : s \in 1 .. n'[t][q] <=> s = n[t][q] + 1 \/ s \in 1 .. n[t][q]
        BY <1>2, <1>3
      <3>2. j'[t] + 1 = j[t] + 2
        BY <1>2, <1>3
      <3> QED BY <1>1, <1>2, <1>4, <3>1, <3>2 DEF Waits
    <2>2. \A s : s \in j[t] + 1 .. Len(asked[t][q]) <=> s = j[t] + 1 \/ s \in j[t] + 2 .. Len(asked[t][q])
      BY <1>3
    <2>3. Waits(t, p, k)' <=> Waits(t, p, k)
      BY <1>1, <1>3, <1>4, <2>1, <2>2 DEF Waits
    <2> QED BY <2>3, PendingWaits
  <1>5. CASE p # q
    <2>1. Waits(t, p, k)' <=> Waits(t, p, k)
      BY <1>1, <1>2, <1>5 DEF Waits
    <2> QED BY <2>1, PendingWaits
  <1> QED BY <1>4, <1>5

\* When a DPU is left, all but its last task have been in hand.
LEMMA PendingLeave ==
  ASSUME StoreInv, NEW t \in Thread, Leave(t), NEW p \in Part, NEW k
  PROVE  /\ k \in Pending(t, p)' => k \in Pending(t, p)
         /\ k \in Pending(t, p) /\ ~(k \in Pending(t, p)') =>
              at[t] = p /\ at'[t] = None /\ k = Last(asked[t][p])
  <1>1. /\ Shapes /\ at[t] # None /\ j[t] >= Len(asked[t][at[t]]) - 1 /\ UNCHANGED <<n, sbuffer, asked, j>>
        /\ at' = [at EXCEPT ![t] = None] /\ p # None
    BY NoneAssumption DEF StoreInv, BufferInv, Leave, Tasks
  <1>2. j[t] \in Nat /\ asked[t][at[t]] \in Seq(Key) /\ Len(asked[t][at[t]]) \in Nat
    BY <1>1 DEF StoreInv, BufferInv, BufferOf, TasksOf
  <1>3. at'[t] = None
    BY <1>1 DEF Shapes
  <1>4. Waits(t, p, k)' <=> \E s \in 1 .. n[t][p] : k = sbuffer[t][p][s]
    BY <1>1, <1>3 DEF Waits
  <1>5. \A s \in j[t] + 1 .. Len(asked[t][at[t]]) : s = Len(asked[t][at[t]])
    BY <1>1, <1>2
  <1>6. Waits(t, p, k) /\ ~Waits(t, p, k)' => at[t] = p /\ k = Last(asked[t][p])
    BY <1>4, <1>5 DEF Waits, Last
  <1>7. Waits(t, p, k)' => Waits(t, p, k)
    BY <1>4 DEF Waits
  <1> QED BY <1>3, <1>6, <1>7, PendingWaits

LEMMA PendingKeeps ==
  ASSUME StoreInv, NEW t \in Thread, NEW p \in Part, NEW k,
         \/ Search(t) \/ Sends(t) \/ Past(t) \/ Decide(t) \/ ResetCount(t) \/ Gathers(t)
  PROVE  k \in Pending(t, p)' <=> k \in Pending(t, p)
  <1>1. at[t] = None /\ p # None /\ UNCHANGED <<n, sbuffer, at>>
    BY NoneAssumption, SendsKeeps, GathersKeeps DEF StoreInv, BufferInv, BufferOf, Search, Past,
        Decide, ResetCount
  <1>2. Waits(t, p, k)' <=> Waits(t, p, k)
    BY <1>1 DEF Waits
  <1> QED BY <1>2, PendingWaits

\* Only the routing makes keys pending, and only those of the new round.
LEMMA PendingStep ==
  ASSUME StoreInv, NEW t \in Thread, Step(t), NEW u \in Thread, NEW p \in Part, NEW k, k \in Pending(u, p)'
  PROVE  k \in Pending(u, p) \/ k[2] = LastRound(u) + 1
  <1>1. CASE u # t
    BY <1>1, OthersStore
  <1>2. CASE u = t /\ Route(t)
    <2>1. LastRound(t) = round[t] - 1 /\ round[t] \in 1 .. Rounds /\ (round[t] - 1) + 1 = round[t]
      BY <1>2, RoundsStep DEF StoreInv, Rooms, Route
    <2> QED BY <1>2, <2>1, PendingRoute
  <1>3. CASE u = t /\ ~Route(t)
    BY <1>3, PendingVisit, PendingNext, PendingWait, PendingLeave, PendingKeeps, Kinds
  <1> QED BY <1>1, <1>2, <1>3

-----------------------------------------------------------------------------
(* The pages and the trees.                                                *)

\* The page a key goes to does not have it, and it is pending no longer.
LEMMA PageTakes ==
  ASSUME StoreInv, NEW t \in Thread, IntoPage(t)
  PROVE  \E g \in Page : \E k \in Key :
           /\ home[k] = g /\ k[1] = t /\ k[2] <= LastRound(t) /\ g[1] = at[t] /\ k = Asked(t)
           /\ Len(pages[g]) < BufSize
           /\ pages' = [pages EXCEPT ![g] = Append(@, k)]
           /\ \A c \in 1 .. Len(pages[g]) : pages[g][c] # k
           /\ k \notin Pending(t, g[1])'
  <1>1. PICK g \in Page : /\ g = home[Asked(t)] /\ Len(pages[g]) < BufSize
                          /\ pages' = [pages EXCEPT ![g] = Append(@, InHand(t))] /\ Working(t)
    BY DEF IntoPage, HasPage
  <1>2. InHand(t) = Asked(t) /\ KeyOf(t, at[t], Asked(t)) /\ Asked(t) \in Pending(t, at[t])
    BY <1>1, Hand
  <1>3. PICK k : k = Asked(t)
    OBVIOUS
  <1>4. /\ k \in Key /\ home[k] = g /\ g[1] = at[t] /\ k[1] = t /\ k[2] <= LastRound(t)
        /\ k \in Pending(t, g[1]) /\ g[1] \in Part
    BY <1>1, <1>2, <1>3, Hand DEF KeyOf
  <1>5. \A c \in 1 .. Len(pages[g]) : pages[g][c] # k
    BY <1>4 DEF StoreInv, PagesInv
  <1>6. k \notin Pending(t, g[1])'
    BY <1>3, <1>4, PendingNext
  <1> QED BY <1>1, <1>2, <1>3, <1>4, <1>5, <1>6

\* A key of a round that has been routed, and that is not pending, never is
\* again.
LEMMA StaysAway ==
  ASSUME StoreInv, NEW t \in Thread, Step(t), NEW k \in Key, NEW p \in Part,
         k[2] <= LastRound(k[1]), k \notin Pending(k[1], p)
  PROVE  k[2] <= LastRound(k[1])' /\ k \notin Pending(k[1], p)'
  <1>1. PICK u \in Thread : u = k[1]
    BY DEF Key
  <1>2. LastRound(u) \in Nat /\ LastRound(u)' \in Nat /\ LastRound(u) <= LastRound(u)' /\ k[2] \in Nat
    BY RoundsStep, RoundsAssumption DEF Key
  <1>3. k[2] # LastRound(u) + 1 /\ k[2] <= LastRound(u)'
    BY <1>1, <1>2
  <1>4. k \notin Pending(u, p)'
    BY <1>1, <1>3, PendingStep
  <1> QED BY <1>1, <1>3, <1>4

LEMMA PagesStep ==
  ASSUME StoreInv, NEW t \in Thread, Step(t)
  PROVE  PagesInv'
  <1>1. home' = home /\ PagesInv
    BY RoundsStep DEF StoreInv
  <1>2. ASSUME NEW g \in Page, NEW c \in 1 .. Len(pages[g]), NEW k, k = pages[g][c]
        PROVE  k \in Key /\ home[k] = g /\ k[2] <= LastRound(k[1])' /\ k \notin Pending(k[1], g[1])'
    <2>1. k \in Key
      BY <1>1, <1>2 DEF PagesInv
    <2>2. g[1] \in Part /\ home[k] = g /\ k[2] <= LastRound(k[1]) /\ k \notin Pending(k[1], g[1])
      <3>1. g[1] \in Part
        BY <1>2 DEF Page
      <3>2. home[k] = g /\ k[2] <= LastRound(k[1]) /\ k \notin Pending(k[1], g[1])
        BY <1>1, <1>2, Zenon DEF PagesInv
      <3> QED BY <3>1, <3>2
    <2> QED BY <2>1, <2>2, StaysAway
  <1>3. CASE IntoPage(t)
    <2>1. PICK g \in Page : \E k \in Key :
            /\ home[k] = g /\ k[1] = t /\ k[2] <= LastRound(t) /\ g[1] = at[t] /\ k = Asked(t)
            /\ Len(pages[g]) < BufSize
            /\ pages' = [pages EXCEPT ![g] = Append(@, k)]
            /\ \A c \in 1 .. Len(pages[g]) : pages[g][c] # k
            /\ k \notin Pending(t, g[1])'
      BY <1>3, PageTakes
    <2>2. PICK k \in Key :
            /\ home[k] = g /\ k[1] = t /\ k[2] <= LastRound(t)
            /\ pages' = [pages EXCEPT ![g] = Append(@, k)]
            /\ \A c \in 1 .. Len(pages[g]) : pages[g][c] # k
            /\ k \notin Pending(t, g[1])'
      BY <2>1
    <2>3. k[2] <= LastRound(t)'
      <3>1. LastRound(t) \in Nat /\ LastRound(t)' \in Nat /\ LastRound(t) <= LastRound(t)' /\ k[2] \in Nat
        BY RoundsStep, RoundsAssumption DEF Key
      <3> QED BY <2>2, <3>1
    <2>4. /\ pages'[g] \in Seq(Key) /\ Len(pages'[g]) = Len(pages[g]) + 1 /\ Len(pages[g]) \in Nat
          /\ pages'[g][Len(pages[g]) + 1] = k
          /\ \A c \in 1 .. Len(pages[g]) : pages'[g][c] = pages[g][c]
      BY <1>1, <2>2 DEF PagesInv
    <2>5. \A c \in 1 .. Len(pages'[g]) : c \in 1 .. Len(pages[g]) \/ c = Len(pages[g]) + 1
      BY <2>4
    <2>6. \A h \in Page \ {g} : pages'[h] = pages[h]
      BY <1>1, <2>2 DEF PagesInv
    <2>7. pages' \in [Page -> Seq(Key)]
      BY <1>1, <2>2, <2>4 DEF PagesInv
    <2>8. \A h \in Page : Different(pages'[h], Len(pages'[h]))
      <3>1. Different(pages'[g], Len(pages'[g]))
        BY <1>1, <2>2, <2>4, <2>5 DEF PagesInv, Different
      <3> QED BY <1>1, <2>6, <3>1 DEF PagesInv, Different
    <2>9. ASSUME NEW h \in Page, NEW c \in 1 .. Len(pages'[h]), NEW l, l = pages'[h][c]
          PROVE  home[l] = h /\ l[2] <= LastRound(l[1])' /\ l \notin Pending(l[1], h[1])'
      <3>1. CASE h = g /\ c = Len(pages[g]) + 1
        BY <2>2, <2>3, <2>4, <2>9, <3>1
      <3>2. CASE c \in 1 .. Len(pages[h]) /\ pages'[h][c] = pages[h][c]
        BY <1>2, <2>9, <3>2
      <3>3. CASE h # g
        BY <2>6, <3>2, <3>3
      <3>4. CASE h = g /\ c # Len(pages[g]) + 1
        BY <2>4, <2>5, <3>2, <3>4
      <3> QED BY <3>1, <3>3, <3>4
    <2> QED BY <1>1, <2>7, <2>8, <2>9 DEF PagesInv, Different
  <1>4. CASE UNCHANGED pages
    BY <1>1, <1>2, <1>4 DEF PagesInv, Different
  <1> QED BY <1>3, <1>4, SendsKeeps, GathersKeeps, Kinds DEF Route, Search, Visit, IntoTree, Wait,
      NoPage, Leave,
                            Past, Decide, ResetCount

\* A key the tree takes has met its page full.  The tree takes the key in hand
\* only if its flag is not set.
LEMMA TreeTakes ==
  ASSUME AnswersInv, StoreInv, NEW t \in Thread, Step(t), NEW p \in Part, NEW k \in Key,
         trees'[p][k] # trees[p][k]
  PROVE  /\ KeyOf(t, p, k) /\ home[k] \in Page /\ Full(home[k]) /\ k \in Pending(t, p)
         /\ pc[t] \in {"insert", "past"}
         /\ trees'[p][k] = IF trees[p][k] = 0 THEN 1 ELSE 2
         /\ \/ ~enabled[p] /\ k \notin Pending(t, p)'
            \/ enabled[p] /\ pc'[t] = "collect"
  <1>1. Takes(t, p, k) /\ \E full : trees'[p][k] = Inserted(trees[p][k], full)
    BY TreesTake
  <1>2. trees[p][k] \in 0 .. 2
    BY DEF AnswersInv, EntriesInv
  <1>3. trees'[p][k] = IF trees[p][k] = 0 THEN 1 ELSE 2
    BY <1>1, <1>2, InsertedOften
  <1>4. CASE IntoTree(t) /\ p = at[t] /\ k = InHand(t)
    <2>1. Working(t) /\ PageFull(t) /\ ~enabled[p]
      BY <1>4 DEF IntoTree
    <2>2. k = Asked(t) /\ KeyOf(t, p, k) /\ k \in Pending(t, p) /\ pc[t] = "insert"
      BY <1>4, <2>1, Hand
    <2>3. k \notin Pending(t, p)'
      BY <1>4, <2>2, PendingNext
    <2> QED BY <1>3, <2>1, <2>2, <2>3 DEF PageFull, HasPage, Full
  <1>5. CASE Past(t) /\ n[t][p] = 1 /\ k = sbuffer[t][p][1]
    <2>1. pc[t] = "past" /\ pc'[t] = "collect"
      BY <1>5 DEF Past, StoreInv, BufferInv, Shapes
    <2>2. enabled[p]
      BY <1>5, <2>1 DEF AnswersInv, AnswersOf
    <2>3. 1 \in 1 .. n[t][p]
      BY <1>5
    <2>4. KeyOf(t, p, k) /\ home[k] \in Page /\ Full(home[k])
      BY <1>5, <2>1, <2>3 DEF StoreInv, QueueOf, WaitingOf
    <2>5. k \in Pending(t, p)
      BY <1>5, <2>3, PendingWaits DEF Waits
    <2> QED BY <1>3, <2>1, <2>2, <2>4, <2>5
  <1> QED BY <1>1, <1>4, <1>5 DEF Takes

\* How the second launch is reached.
LEMMA Earlier ==
  ASSUME StoreInv, NEW t \in Thread, Step(t), NEW u \in Thread, pc'[u] \in {"search", "insert", "past"}
  PROVE  pc[u] \in {"route", "search", "insert", "past"}
  <1>1. OthersKeep(t) /\ Shapes
    BY Effects DEF StoreInv, BufferInv
  <1>2. CASE u # t
    BY <1>1, <1>2 DEF OthersKeep
  <1>3. CASE u = t
    BY ZenonT(60), <1>1, <1>3, SendsKeeps, GathersKeeps, Kinds
    DEF Route, Search, Visit, IntoPage, IntoTree, Wait, NoPage, Leave, Past, Decide, ResetCount, NextRound,
        Working, Shapes
  <1> QED BY <1>2, <1>3

LEMMA TreesStep ==
  ASSUME AnswersInv, StoreInv, NEW t \in Thread, Step(t)
  PROVE  TreesInv'
  <1> SUFFICES ASSUME NEW p \in Part, NEW k \in Key, trees'[p][k] # 0
               PROVE  /\ home[k] \in Page /\ home[k][1] = p /\ k[2] <= LastRound(k[1])'
                      /\ Full(home[k])' /\ pages'[home[k]] = pages[home[k]]
                      /\ \A c \in 1 .. Len(pages[home[k]]) : pages[home[k]][c] # k
                      /\ k \in Pending(k[1], p)' =>
                           /\ enabled'[p]
                           /\ pc'[k[1]] \in {"route", "search", "insert", "past"} => k[2] < round'[k[1]]
                      /\ trees'[p][k] # 1 => enabled'[p] /\ k[2] < round'[k[1]]
    BY RoundsStep DEF TreesInv, TreeOf, Full
  <1>1. PICK u \in Thread : u = k[1]
    BY DEF Key
  <1>2. /\ LastRound(u) \in Nat /\ LastRound(u)' \in Nat /\ LastRound(u) <= LastRound(u)' /\ k[2] \in Nat
        /\ round[u] \in Nat /\ round'[u] \in Nat /\ round[u] <= round'[u] /\ home' = home
    BY RoundsStep, RoundsAssumption DEF Key, StoreInv, Rooms
  <1>3. enabled[p] => enabled'[p]
    BY EntriesStep
  <1>4. /\ home[k] \in Page /\ home[k][1] = p /\ k[2] <= LastRound(u) /\ Full(home[k])
        /\ \A c \in 1 .. Len(pages[home[k]]) : pages[home[k]][c] # k
    <2>1. CASE trees[p][k] # 0
      BY <1>1, <2>1 DEF StoreInv, TreesInv, TreeOf
    <2>2. CASE trees[p][k] = 0
      <3>1. KeyOf(t, p, k) /\ home[k] \in Page /\ Full(home[k]) /\ k \in Pending(t, p)
        BY <2>2, TreeTakes
      <3> QED BY <1>1, <3>1 DEF KeyOf, StoreInv, PagesInv
    <2> QED BY <2>1, <2>2
  <1>5. k[2] <= LastRound(u)'
    BY <1>2, <1>4
  <1>6. pages'[home[k]] = pages[home[k]] /\ Full(home[k])'
    <2>1. PICK g \in Page : g = home[k]
      BY <1>4
    <2>2. pages'[g] = pages[g] /\ Full(g)'
      BY <1>4, <2>1, FullStays
    <2> QED BY <1>2, <2>1, <2>2 DEF Full
  <1>7. ASSUME trees[p][k] # 0, k \in Pending(u, p)'
        PROVE  /\ enabled'[p]
               /\ pc'[u] \in {"route", "search", "insert", "past"} => k[2] < round'[u]
    <2>1. k \in Pending(u, p)
      BY <1>1, <1>4, <1>7, StaysAway
    <2>2. enabled[p] /\ (pc[u] \in {"route", "search", "insert", "past"} => k[2] < round[u])
      BY <1>1, <1>7, <2>1 DEF StoreInv, TreesInv, TreeOf
    <2>3. CASE pc'[u] = "route"
      <3>1. LastRound(u)' = round'[u] - 1
        BY <2>3 DEF LastRound
      <3> QED BY <1>2, <1>3, <1>5, <2>2, <3>1
    <2>4. CASE pc'[u] \in {"search", "insert", "past"}
      <3>1. pc[u] \in {"route", "search", "insert", "past"}
        BY <2>4, Earlier
      <3> QED BY <1>2, <1>3, <2>2, <3>1
    <2> QED BY <1>3, <2>2, <2>3, <2>4
  <1>8. CASE trees'[p][k] = trees[p][k]
    <2>1. trees[p][k] # 1 => enabled[p] /\ k[2] < round[u]
      BY <1>1, <1>8 DEF StoreInv, TreesInv, TreeOf
    <2> QED BY <1>1, <1>2, <1>3, <1>4, <1>5, <1>6, <1>7, <1>8, <2>1
  <1>9. CASE trees'[p][k] # trees[p][k]
    <2>1. /\ k[1] = t /\ k \in Pending(t, p) /\ pc[t] \in {"insert", "past"}
          /\ trees'[p][k] = IF trees[p][k] = 0 THEN 1 ELSE 2
          /\ \/ ~enabled[p] /\ k \notin Pending(t, p)'
             \/ enabled[p] /\ pc'[t] = "collect"
      BY <1>9, TreeTakes DEF KeyOf
    <2>2. CASE trees[p][k] = 0
      BY <1>1, <1>3, <1>4, <1>5, <1>6, <2>1, <2>2
    <2>3. CASE trees[p][k] # 0
      <3>1. enabled[p] /\ k[2] < round[u]
        BY <1>1, <2>1, <2>3 DEF StoreInv, TreesInv, TreeOf
      <3>2. enabled'[p] /\ k[2] < round'[u]
        BY <1>2, <1>3, <3>1
      <3> QED BY <1>1, <1>4, <1>5, <1>6, <3>2
    <2> QED BY <2>2, <2>3
  <1> QED BY <1>8, <1>9

LEMMA StoreStep == AnswersInv /\ StoreInv /\ [Next]_vars => StoreInv'
  <1> SUFFICES ASSUME AnswersInv, StoreInv, [Next]_vars PROVE StoreInv'
    OBVIOUS
  <1>1. BufferInv'
    BY BufferStep DEF AnswersInv
  <1>2. ASSUME NEW t \in Thread, Step(t) PROVE StoreInv'
    <2>1. Rooms' /\ PagesInv' /\ TreesInv'
      BY <1>1, <1>2, RoundsStep, PagesStep, TreesStep
    <2>2. \A u \in Thread : QueueOf(u)' /\ TasksOf(u)' /\ WaitingOf(u)'
      <3>1. \A u \in Thread \ {t} : QueueOf(u)' /\ TasksOf(u)' /\ WaitingOf(u)'
        BY <1>2, OthersStore
      <3>2. QueueOf(t)' /\ TasksOf(t)' /\ WaitingOf(t)'
        BY <1>2, QueueSelf, TasksSelf, WaitingSelf
      <3> QED BY <3>1, <3>2
    <2> QED BY <1>1, <2>1, <2>2 DEF StoreInv
  <1>3. CASE UNCHANGED vars
    <2>1. Rooms'
      BY <1>3 DEF vars, StoreInv, Rooms
    <2>2. \A t : LastRound(t)' = LastRound(t)
      BY <1>3 DEF vars, LastRound
    <2>3. \A t, p : Pending(t, p)' = Pending(t, p)
      BY <1>3 DEF vars, Pending, Sent
    <2>4. PagesInv'
      <3>1. home' = home /\ pages' = pages /\ PagesInv
        BY <1>3 DEF vars, StoreInv
      <3> QED BY <2>2, <2>3, <3>1 DEF PagesInv, Different
    <2>5. TreesInv'
      <3>1. \A p \in Part, k \in Key : TreeOf(p, k)
        BY DEF StoreInv, TreesInv
      <3> QED BY <1>3, <2>2, <2>3, <3>1 DEF vars, TreesInv, TreeOf, Full
    <2>6. ASSUME NEW t \in Thread PROVE QueueOf(t)' /\ TasksOf(t)' /\ WaitingOf(t)'
      <3>1. QueueOf(t) /\ TasksOf(t) /\ WaitingOf(t)
        BY DEF StoreInv
      <3>2. QueueOf(t)'
        BY <1>3, <2>2, <3>1 DEF vars, QueueOf, KeyOf, Different
      <3>3. TasksOf(t)'
        BY <1>3, <2>2, <3>1 DEF vars, TasksOf, KeyOf, Different
      <3>4. WaitingOf(t)'
        BY <1>3, <3>1 DEF vars, WaitingOf, Full
      <3> QED BY <3>2, <3>3, <3>4
    <2> QED BY <1>1, <2>1, <2>4, <2>5, <2>6 DEF StoreInv
  <1> QED BY <1>2, <1>3 DEF Next

LEMMA StoreAlways == Spec => [](AnswersInv /\ StoreInv)
  BY AnswersInit, AnswersStep, StoreInit, StoreStep, PTL DEF Spec

LEMMA QueueSize ==
  ASSUME StoreInv, NEW t \in Thread, NEW p \in Part
  PROVE  n[t][p] \in Nat
  <1>1. round[t] \in 1 .. Rounds /\ QueueOf(t)
    BY DEF StoreInv, Rooms
  <1>2. LastRound(t) * Batch \in Nat
    BY <1>1, RoomForRounds DEF LastRound
  <1> QED BY <1>1, <1>2 DEF QueueOf

\* What a thread sends to a DPU are different keys of its own, though keys of
\* the last round are still among them.
THEOREM KeysAreSentOnce == Spec => []SentOnce
  <1>1. ASSUME StoreInv, NEW t \in Thread, NEW p \in Part
        PROVE  LET keys == Range(Sent(t, p))
               IN  Cardinality(keys) = n[t][p] /\ \A k \in keys : home[k][1] = p /\ k[1] = t
    <2>1. n[t][p] \in Nat
      BY <1>1, QueueSize
    <2>2. /\ \A s \in 1 .. n[t][p] : KeyOf(t, p, sbuffer[t][p][s])
          /\ Different(sbuffer[t][p], n[t][p])
      BY <1>1 DEF StoreInv, QueueOf
    <2>3. Sent(t, p) \in Bijection(1 .. n[t][p], Range(Sent(t, p)))
      BY <2>2 DEF Sent, Range, Bijection, Injection, Surjection, IsInjective, Different
    <2>4. Cardinality(Range(Sent(t, p))) = n[t][p]
      BY <2>1, <2>3, FS_CountingElements DEF ExistsBijection
    <2>5. \A k \in Range(Sent(t, p)) : home[k][1] = p /\ k[1] = t
      BY <2>2 DEF Sent, Range, KeyOf
    <2> QED BY <2>4, <2>5
  <1>2. StoreInv => SentOnce
    BY <1>1 DEF SentOnce
  <1> QED BY StoreAlways, <1>2, PTL

\* A key is in one page or in one tree, and there once, unless it has been sent
\* again after its insertion into the tree.
THEOREM KeysAreStoredOnce == Spec => []StoredOnce
  <1>1. ASSUME AnswersInv, StoreInv, NEW k \in Key
        PROVE  \/ Cardinality(InPages(k)) + Cardinality(InTrees(k)) <= 1
               \/ /\ InPages(k) = {} /\ InTrees(k) = {home[k][1]} \X {1, 2}
                  /\ k[2] < round[k[1]] /\ enabled[home[k][1]]
    <2>1. PagesInv /\ TreesInv
      BY <1>1 DEF StoreInv
    <2>2. PICK q \in Part : q = home[k][1]
      BY <1>1 DEF StoreInv, Rooms
    <2>3. trees \in [Part -> [Key -> 0 .. 2]]
      BY <1>1 DEF AnswersInv, EntriesInv
    <2>4. \A c \in InPages(k) : /\ c = <<c[1], c[2]>> /\ c[1] \in Page /\ home[k] = c[1]
                                /\ c[2] \in 1 .. Len(pages[c[1]]) /\ pages[c[1]][c[2]] = k
      BY <2>1 DEF PagesInv, InPages
    <2>5. ASSUME NEW c \in InPages(k), NEW d \in InPages(k) PROVE c = d
      <3>1. /\ c = <<c[1], c[2]>> /\ d = <<d[1], d[2]>> /\ c[1] \in Page /\ c[1] = d[1]
            /\ c[2] \in 1 .. Len(pages[c[1]]) /\ d[2] \in 1 .. Len(pages[c[1]])
            /\ pages[c[1]][c[2]] = pages[c[1]][d[2]]
        BY <2>4
      <3>2. c[2] = d[2]
        BY <2>1, <3>1 DEF PagesInv, Different
      <3> QED BY <3>1, <3>2
    <2>6. InPages(k) = {} \/ \E c : InPages(k) = {c}
      BY <2>5
    <2>7. Cardinality(InPages(k)) \in {0, 1}
      BY <2>6, FS_EmptySet, FS_Singleton
    <2>8. \A p \in Part : trees[p][k] # 0 => p = q
      BY <2>1, <2>2 DEF TreesInv, TreeOf
    <2>9. \A c \in InTrees(k) : c = <<q, c[2]>> /\ c[2] \in {1, 2} /\ trees[q][k] >= c[2]
      <3> SUFFICES ASSUME NEW c \in InTrees(k)
                   PROVE  c = <<q, c[2]>> /\ c[2] \in {1, 2} /\ trees[q][k] >= c[2]
        OBVIOUS
      <3>1. c = <<c[1], c[2]>> /\ c[1] \in Part /\ c[2] \in {1, 2} /\ trees[c[1]][k] >= c[2]
        BY DEF InTrees
      <3>2. trees[c[1]][k] # 0
        BY <3>1
      <3> QED BY <2>8, <3>1, <3>2
    <2>10. CASE trees[q][k] = 0
      <3>1. InTrees(k) = {}
        BY <2>9, <2>10
      <3>2. Cardinality(InTrees(k)) = 0
        BY <3>1, FS_EmptySet
      <3> QED BY <2>7, <3>2
    <2>11. CASE trees[q][k] # 0
      <3>1. /\ \A c \in 1 .. Len(pages[home[k]]) : pages[home[k]][c] # k
            /\ trees[q][k] # 1 => enabled[q] /\ k[2] < round[k[1]]
        BY <2>1, <2>11 DEF TreesInv, TreeOf
      <3>2. InPages(k) = {}
        BY <2>4, <3>1
      <3>3. CASE trees[q][k] = 1
        <4>1. InTrees(k) \subseteq {<<q, 1>>}
          BY <2>9, <3>3
        <4>2. InTrees(k) = {} \/ InTrees(k) = {<<q, 1>>}
          BY <4>1
        <4>3. Cardinality(InTrees(k)) \in {0, 1}
          BY <4>2, FS_EmptySet, FS_Singleton
        <4>4. Cardinality(InPages(k)) = 0
          BY <3>2, FS_EmptySet
        <4> QED BY <4>3, <4>4
      <3>4. CASE trees[q][k] = 2
        <4>1. <<q, 1>> \in InTrees(k) /\ <<q, 2>> \in InTrees(k)
          BY <3>4 DEF InTrees
        <4>2. InTrees(k) = {q} \X {1, 2}
          BY <2>9, <4>1
        <4> QED BY <2>2, <3>1, <3>2, <3>4, <4>2
      <3> QED BY <2>3, <2>11, <3>3, <3>4
    <2> QED BY <2>10, <2>11
  <1>2. AnswersInv /\ StoreInv => StoredOnce
    BY <1>1 DEF StoredOnce
  <1> QED BY StoreAlways, <1>2, PTL

LEMMA LeavesStep ==
  ASSUME StoreInv, trees \in [Part -> [Key -> 0 .. 2]], NEW t \in Thread, Step(t), NEW p \in Part,
         NEW k, k \in Pending(t, p), k \notin Pending(t, p)'
  PROVE  \/ Kept(k)' \/ home[k] \notin Page
         \/ at[t] = p /\ at'[t] = None /\ k = Last(asked[t][p])
  <1>1. CASE IntoPage(t) \/ IntoTree(t) \/ NoPage(t)
    <2>1. p = at[t] /\ k = Asked(t)
      BY <1>1, PendingNext
    <2>2. CASE IntoPage(t)
      <3>1. PICK g \in Page : /\ pages' = [pages EXCEPT ![g] = Append(@, k)] /\ k \in Key
                              /\ pages[g] \in Seq(Key) /\ DOMAIN pages = Page
        BY <2>1, <2>2, PageTakes DEF StoreInv, PagesInv
      <3>2. /\ pages'[g] = Append(pages[g], k) /\ pages'[g][Len(pages[g]) + 1] = k
            /\ Len(pages[g]) + 1 \in DOMAIN pages'[g]
        BY <3>1
      <3>3. k \in Range(pages'[g])
        BY <3>2, Zenon DEF Range
      <3> QED BY <3>3 DEF Kept
    <2>3. CASE IntoTree(t)
      <3>1. PICK full \in BOOLEAN :
              trees' = [trees EXCEPT ![at[t]][InHand(t)] = Inserted(@, full)]
        BY <2>3 DEF IntoTree
      <3>2. k = InHand(t) /\ k \in Key
        BY <2>1, <2>3, Hand DEF IntoTree, KeyOf
      <3>3. trees'[p][k] = Inserted(trees[p][k], full)
        BY <2>1, <3>1, <3>2
      <3>4. trees'[p][k] # 0
        BY <3>2, <3>3, InsertedOften
      <3> QED BY <3>2, <3>4 DEF Kept, Held
    <2>4. CASE NoPage(t)
      BY <2>1, <2>4 DEF NoPage, HasPage
    <2> QED BY <1>1, <2>2, <2>3, <2>4
  <1>2. CASE Leave(t)
    BY <1>2, PendingLeave
  <1> QED BY <1>1, <1>2, PendingRoute, PendingVisit, PendingWait, PendingKeeps, Kinds

\* No key is lost on its way from round to round, but for the last task of a
\* DPU and those without a page.
THEOREM OnlyTheLastIsLost == Spec => LeavesOnlyAsLast
  <1> DEFINE Goes == \A t \in Thread, p \in Part : \A k \in Pending(t, p) \ Pending(t, p)' :
                       \/ Kept(k)' \/ home[k] \notin Page
                       \/ at[t] = p /\ at'[t] = None /\ k = Last(asked[t][p])
  <1>1. AnswersInv /\ StoreInv /\ [Next]_vars => [Goes]_vars
    <2> SUFFICES ASSUME AnswersInv, StoreInv, Next, ~UNCHANGED vars PROVE Goes
      OBVIOUS
    <2>1. PICK u \in Thread : Step(u)
      BY DEF Next
    <2>2. ASSUME NEW t \in Thread, NEW p \in Part, NEW k \in Pending(t, p), k \notin Pending(t, p)'
          PROVE  \/ Kept(k)' \/ home[k] \notin Page
                 \/ at[t] = p /\ at'[t] = None /\ k = Last(asked[t][p])
      <3>1. t = u
        BY <2>1, <2>2, OthersStore
      <3> QED BY <2>1, <2>2, <3>1, LeavesStep DEF AnswersInv, EntriesInv
    <2> QED BY <2>2
  <1>2. Spec => [][Next]_vars
    BY DEF Spec
  <1> QED BY StoreAlways, <1>1, <1>2, PTL DEF LeavesOnlyAsLast
=============================================================================
