------------------------------ MODULE SeqLock -------------------------------
(***************************************************************************)
(* A payload slot of dindex.payloads guarded by an ol_lock of lock_arr, as *)
(* mix_payload uses it: UPDATE takes the lock, copies the new payload into *)
(* the slot and releases; GET reads the version of a free lock, copies the *)
(* slot without locking and retries when the lock word has changed.        *)
(* try_get_lock, the third way in, is the one merge_lock uses.             *)
(*                                                                         *)
(* Every load, compare-and-swap and store of the lock word is a step, and  *)
(* so is the copy of each part of a payload: string_payload is 32 bytes    *)
(* and memcpy is not atomic.  A spin is a guard: a load that finds the     *)
(* lock held changes nothing.                                              *)
(***************************************************************************)
EXTENDS LockWord

CONSTANTS Threads,  \* the threads that share the slot
          Values,   \* the payloads UPDATE writes
          Parts,    \* the number of pieces memcpy moves
          MaxOps    \* bound: operations each thread performs

ASSUME PartsAssumption  == Parts \in Nat \ {0}
ASSUME ValuesAssumption == Values # {}
ASSUME MaxOpsAssumption == MaxOps \in Nat

VARIABLES word,     \* lock_
          payload,  \* the slot, part by part
          pc,       \* where each thread is
          reg,      \* its register: old_value, v or version
          pos,      \* the next part it copies
          val,      \* the payload it writes
          ret,      \* the payload it has read
          left      \* the operations it has left

vars == <<word, payload, pc, reg, pos, val, ret, left>>

Payload == [1 .. Parts -> Values]

\* A payload somebody wrote as a whole.
Whole(p) == \E v \in Values : p = [i \in 1 .. Parts |-> v]

PC == {"idle", "getLoad", "getCas", "tryLoad", "tryCas", "write",
       "relLoad", "relStore", "rdVersion", "rdCopy", "rdCheck"}

\* The thread is between acquiring the lock and releasing it.
Holds(t) == pc[t] \in {"write", "relLoad", "relStore"}

Goto(t, label) == pc' = [pc EXCEPT ![t] = label]

Init ==
  /\ word = 0
  /\ \E v \in Values : /\ payload = [i \in 1 .. Parts |-> v]
                       /\ val = [t \in Threads |-> v]
                       /\ ret = [t \in Threads |-> [i \in 1 .. Parts |-> v]]
  /\ pc = [t \in Threads |-> "idle"]
  /\ reg = [t \in Threads |-> 0]
  /\ pos = [t \in Threads |-> 1]
  /\ left = [t \in Threads |-> MaxOps]

-----------------------------------------------------------------------------
\* A thread starts an UPDATE with get_lock, one with try_get_lock, or a GET.
Begin(t) ==
  /\ pc[t] = "idle"
  /\ left[t] > 0
  /\ left' = [left EXCEPT ![t] = @ - 1]
  /\ \E label \in {"getLoad", "tryLoad", "rdVersion"} : Goto(t, label)
  /\ \E v \in Values : val' = [val EXCEPT ![t] = v]
  /\ UNCHANGED <<word, payload, reg, pos, ret>>

\* The inner loop of get_lock: load until the lock is free.
GetLoad(t) ==
  /\ pc[t] = "getLoad"
  /\ ~IsSet(word)
  /\ reg' = [reg EXCEPT ![t] = Masked(word)]
  /\ Goto(t, "getCas")
  /\ UNCHANGED <<word, payload, pos, val, ret, left>>

\* The lock is taken: the copy of the new payload starts.
Acquire(t) ==
  /\ word' = WithLock(reg[t])
  /\ pos' = [pos EXCEPT ![t] = 1]
  /\ Goto(t, "write")

\* A get_lock that stores instead of comparing and swapping.
GetStore(t) ==
  /\ pc[t] = "getCas"
  /\ Acquire(t)
  /\ UNCHANGED <<payload, reg, val, ret, left>>

\* The compare-and-swap of get_lock; a failure starts over.
GetCas(t) ==
  /\ pc[t] = "getCas"
  /\ \/ word = reg[t] /\ Acquire(t)
     \/ word # reg[t] /\ Goto(t, "getLoad") /\ UNCHANGED <<word, pos>>
  /\ UNCHANGED <<payload, reg, val, ret, left>>

\* try_get_lock: give up when the lock is held.
TryLoad(t) ==
  /\ pc[t] = "tryLoad"
  /\ \/ IsSet(word) /\ Goto(t, "idle") /\ UNCHANGED reg
     \/ /\ ~IsSet(word)
        /\ reg' = [reg EXCEPT ![t] = Masked(word)]
        /\ Goto(t, "tryCas")
  /\ UNCHANGED <<word, payload, pos, val, ret, left>>

\* The compare-and-swap of try_get_lock; a failure gives up.
TryCas(t) ==
  /\ pc[t] = "tryCas"
  /\ \/ word = reg[t] /\ Acquire(t)
     \/ word # reg[t] /\ Goto(t, "idle") /\ UNCHANGED <<word, pos>>
  /\ UNCHANGED <<payload, reg, val, ret, left>>

\* A copy that runs one part past the end of the slot.
WritePast(t) ==
  /\ pc[t] = "write"
  /\ payload' = [payload EXCEPT ![pos[t]] = val[t]]
  /\ pos' = [pos EXCEPT ![t] = @ + 1]
  /\ Goto(t, IF pos[t] > Parts THEN "relLoad" ELSE "write")
  /\ UNCHANGED <<word, reg, val, ret, left>>

\* The holder copies one part of its payload into the slot.
Write(t) ==
  /\ pc[t] = "write"
  /\ payload' = [payload EXCEPT ![pos[t]] = val[t]]
  /\ pos' = [pos EXCEPT ![t] = @ + 1]
  /\ Goto(t, IF pos[t] = Parts THEN "relLoad" ELSE "write")
  /\ UNCHANGED <<word, reg, val, ret, left>>

\* release_lock: load the word, then store its successor.
RelLoad(t) ==
  /\ pc[t] = "relLoad"
  /\ reg' = [reg EXCEPT ![t] = word]
  /\ Goto(t, "relStore")
  /\ UNCHANGED <<word, payload, pos, val, ret, left>>

RelStore(t) ==
  /\ pc[t] = "relStore"
  /\ word' = Released(reg[t])
  /\ Goto(t, "idle")
  /\ UNCHANGED <<payload, reg, pos, val, ret, left>>

\* GET spins in test_lock_set until the lock is free and keeps its version.
RdVersion(t) ==
  /\ pc[t] = "rdVersion"
  /\ ~IsSet(word)
  /\ reg' = [reg EXCEPT ![t] = word]
  /\ pos' = [pos EXCEPT ![t] = 1]
  /\ Goto(t, "rdCopy")
  /\ UNCHANGED <<word, payload, val, ret, left>>

\* It copies one part of the slot.
RdCopy(t) ==
  /\ pc[t] = "rdCopy"
  /\ ret' = [ret EXCEPT ![t][pos[t]] = payload[pos[t]]]
  /\ pos' = [pos EXCEPT ![t] = @ + 1]
  /\ Goto(t, IF pos[t] = Parts THEN "rdCheck" ELSE "rdCopy")
  /\ UNCHANGED <<word, payload, reg, val, left>>

\* test_lock_version_change: keep the copy, or start over.
RdCheck(t) ==
  /\ pc[t] = "rdCheck"
  /\ Goto(t, IF word = reg[t] THEN "idle" ELSE "rdVersion")
  /\ UNCHANGED <<word, payload, reg, pos, val, ret, left>>

Step(t) ==
  \/ Begin(t) \/ GetLoad(t) \/ GetCas(t) \/ TryLoad(t) \/ TryCas(t)
  \/ Write(t) \/ RelLoad(t) \/ RelStore(t)
  \/ RdVersion(t) \/ RdCopy(t) \/ RdCheck(t)

Finished == \A t \in Threads : pc[t] = "idle" /\ left[t] = 0

Next == (\E t \in Threads : Step(t)) \/ (Finished /\ UNCHANGED vars)

Spec == Init /\ [][Next]_vars

\* Each thread is an OS thread that the scheduler keeps running.
FairSpec == Spec /\ \A t \in Threads : WF_vars(Step(t))

-----------------------------------------------------------------------------
TypeOK ==
  /\ word \in Word
  /\ payload \in Payload
  /\ pc \in [Threads -> PC]
  /\ reg \in [Threads -> Word]
  /\ pos \in [Threads -> 1 .. Parts + 1]
  /\ val \in [Threads -> Values]
  /\ ret \in [Threads -> Payload]
  /\ left \in [Threads -> 0 .. MaxOps]

\* Two threads never write the slot at the same time, whichever of get_lock
\* and try_get_lock let them in.
MutualExclusion ==
  \A t, u \in Threads : Holds(t) /\ Holds(u) => t = u

\* A GET that keeps its copy has copied one payload that some UPDATE wrote as
\* a whole, and that payload is still in the slot: no interleaving of writers
\* during the copy goes unnoticed, not even one that runs through every
\* version number.
ReadsAreAtomic ==
  [][\A t \in Threads :
       pc[t] = "rdCheck" /\ pc'[t] = "idle"
         => ret[t] = payload /\ Whole(ret[t])]_vars

\* release_lock has overflowed the version: the carry has set the lock bit, and
\* nobody holds the lock.
Overflowed == word = LockSet /\ \A t \in Threads : ~Holds(t)

\* Every spin and every retry ends: all threads complete their operations,
\* unless the version of the lock overflows, which sets it for good.
Termination == <>(Finished \/ Overflowed)
=============================================================================
