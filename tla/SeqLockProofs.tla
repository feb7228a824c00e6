--------------------------- MODULE SeqLockProofs ----------------------------
(***************************************************************************)
(* For any number of threads, payload parts and operations: types, mutual  *)
(* exclusion of the writers and atomicity of the optimistic reads.         *)
(***************************************************************************)
EXTENDS SeqLock, TLAPS

LEMMA WordArithmetic ==
  ASSUME NEW w \in Word
  PROVE  /\ WithLock(w) \in Word /\ Released(w) \in Word
         /\ Masked(w) \in Word /\ Masked(w) \in Nat
  BY LockSetAssumption DEF Word, WithLock, Released, Masked, IsSet

\* Taking a free lock sets its bit and keeps its version.
LEMMA Acquisition ==
  ASSUME NEW w \in Word, ~IsSet(w)
  PROVE  IsSet(WithLock(w)) /\ Masked(WithLock(w)) = w /\ Masked(w) = w
  BY LockSetAssumption DEF Word, WithLock, Masked, IsSet

\* A release that frees the lock moves its version on.
LEMMA Releasing ==
  ASSUME NEW w \in Word, IsSet(w), ~IsSet(Released(w))
  PROVE  Released(w) = Masked(w) + 1 /\ Masked(Released(w)) = Masked(w) + 1
  BY LockSetAssumption DEF Word, Released, Masked, IsSet

-----------------------------------------------------------------------------
LEMMA TypeInit == Init => TypeOK
  <1> SUFFICES ASSUME Init PROVE TypeOK
    OBVIOUS
  <1>1. word \in Word /\ reg \in [Threads -> Word]
    BY LockSetAssumption DEF Init, Word
  <1>2. PICK v \in Values : /\ payload = [i \in 1 .. Parts |-> v]
                            /\ val = [t \in Threads |-> v]
                            /\ ret = [t \in Threads |-> [i \in 1 .. Parts |-> v]]
    BY DEF Init
  <1>3. pos \in [Threads -> 1 .. Parts + 1]
    BY PartsAssumption DEF Init
  <1>4. left \in [Threads -> 0 .. MaxOps]
    BY MaxOpsAssumption DEF Init
  <1>5. pc \in [Threads -> PC]
    BY DEF Init, PC
  <1> QED
    BY <1>1, <1>2, <1>3, <1>4, <1>5 DEF TypeOK, Payload

\* A thread that copies has not reached the end of the slot.
Copying == \A t \in Threads : /\ pc[t] \in {"write", "rdCopy"} => pos[t] <= Parts
                              /\ pc[t] = "rdCheck" => pos[t] = Parts + 1

\* What the loads have passed on: a free word to a compare-and-swap and to a
\* reader, the word itself to a release.
Registers ==
  \A t \in Threads :
    /\ pc[t] \in {"getCas", "tryCas", "rdCopy", "rdCheck"} => ~IsSet(reg[t])
    /\ pc[t] = "relStore" => reg[t] = word

\* The holder has set the lock.
HolderHasLock == \A t \in Threads : Holds(t) => IsSet(word)

\* A free slot holds one payload; the holder has copied its own up to pos.
SlotIsWhole ==
  /\ ~IsSet(word) => Whole(payload)
  /\ \A t \in Threads :
       /\ pc[t] = "write" => \A i \in 1 .. pos[t] - 1 : payload[i] = val[t]
       /\ pc[t] \in {"relLoad", "relStore"}
            => \A i \in 1 .. Parts : payload[i] = val[t]

\* A reader's version has not come back: as long as it is the present one, the
\* reader has copied what is in the slot.
ReaderIsPast ==
  \A t \in Threads : pc[t] \in {"rdCopy", "rdCheck"} =>
    /\ ~IsSet(word) \/ (\E u \in Threads : Holds(u)) => reg[t] <= Masked(word)
    /\ word = reg[t] => \A i \in 1 .. pos[t] - 1 : ret[t][i] = payload[i]

IInv == /\ TypeOK /\ Copying /\ Registers /\ MutualExclusion /\ HolderHasLock
        /\ SlotIsWhole /\ ReaderIsPast

LEMMA IInvInit == Init => IInv
  <1> SUFFICES ASSUME Init PROVE IInv
    OBVIOUS
  <1>1. TypeOK
    BY TypeInit
  <1>2. \A t \in Threads : pc[t] = "idle" /\ ~Holds(t)
    BY DEF Init, Holds
  <1>3. Whole(payload)
    BY DEF Init, Whole
  <1> QED
    BY <1>1, <1>2, <1>3
    DEF IInv, Copying, Registers, MutualExclusion, HolderHasLock, SlotIsWhole,
        ReaderIsPast

-----------------------------------------------------------------------------
LEMMA TypeStep ==
  ASSUME TypeOK, Copying, NEW t \in Threads, Step(t)
  PROVE  TypeOK' /\ Copying'
  <1> USE PartsAssumption, MaxOpsAssumption DEF TypeOK, Copying, Goto, PC, Payload
  <1>1. CASE Begin(t) BY <1>1 DEF Begin
  <1>2. CASE GetLoad(t) BY <1>2, WordArithmetic DEF GetLoad
  <1>3. CASE GetCas(t)
    <2>1. WithLock(reg[t]) \in Word /\ 1 \in 1 .. Parts + 1 /\ 1 <= Parts
      BY WordArithmetic
    <2>2. word' \in Word /\ pos' \in [Threads -> 1 .. Parts + 1]
      BY <1>3, <2>1 DEF GetCas, Acquire
    <2>3. pc' \in [Threads -> PC]
      BY <1>3 DEF GetCas, Acquire
    <2> QED BY <1>3, <2>1, <2>2, <2>3 DEF GetCas, Acquire
  <1>4. CASE TryLoad(t) BY ZenonT(60), <1>4, WordArithmetic DEF TryLoad
  <1>5. CASE TryCas(t)
    <2>1. WithLock(reg[t]) \in Word /\ 1 \in 1 .. Parts + 1 /\ 1 <= Parts
      BY WordArithmetic
    <2>2. word' \in Word /\ pos' \in [Threads -> 1 .. Parts + 1]
      BY <1>5, <2>1 DEF TryCas, Acquire
    <2>3. pc' \in [Threads -> PC]
      BY <1>5 DEF TryCas, Acquire
    <2> QED BY <1>5, <2>1, <2>2, <2>3 DEF TryCas, Acquire
  <1>6. CASE Write(t) BY <1>6 DEF Write
  <1>7. CASE RelLoad(t) BY <1>7 DEF RelLoad
  <1>8. CASE RelStore(t) BY <1>8, WordArithmetic DEF RelStore
  <1>9. CASE RdVersion(t) BY <1>9 DEF RdVersion
  <1>10. CASE RdCopy(t) BY <1>10 DEF RdCopy
  <1>11. CASE RdCheck(t) BY <1>11 DEF RdCheck
  <1> QED
    BY <1>1, <1>2, <1>3, <1>4, <1>5, <1>6, <1>7, <1>8, <1>9, <1>10, <1>11
    DEF Step

\* What a step does to the lock, seen from the other threads.
OthersKeep(t) ==
  \A u \in Threads : u # t =>
    /\ pc'[u] = pc[u] /\ reg'[u] = reg[u] /\ pos'[u] = pos[u]
    /\ val'[u] = val[u] /\ ret'[u] = ret[u]

\* No lock taken or held: word and slot stay.
Outside(t) == ~Holds(t) /\ ~Holds(t)' /\ UNCHANGED <<word, payload>>

\* The holder works on the slot.
Inside(t) == Holds(t) /\ Holds(t)' /\ UNCHANGED word

Acquires(t) == /\ pc[t] \in {"getCas", "tryCas"} /\ pc'[t] = "write"
               /\ pos'[t] = 1
               /\ word = reg[t] /\ word' = WithLock(reg[t])
               /\ UNCHANGED <<payload, val, reg>>

Releases(t) == /\ pc[t] = "relStore" /\ pc'[t] = "idle"
               /\ word' = Released(reg[t])
               /\ UNCHANGED <<payload, val, reg>>

LEMMA Effects ==
  ASSUME TypeOK, NEW t \in Threads, Step(t)
  PROVE  /\ OthersKeep(t)
         /\ Outside(t) \/ Inside(t) \/ Acquires(t) \/ Releases(t)
  <1> USE DEF TypeOK, Goto, OthersKeep, Holds
  <1>1. CASE Begin(t) BY <1>1 DEF Begin, Outside
  <1>2. CASE GetLoad(t) BY <1>2 DEF GetLoad, Outside
  <1>3. CASE GetCas(t) BY <1>3 DEF GetCas, Acquire, Outside, Acquires
  <1>4. CASE TryLoad(t) BY <1>4 DEF TryLoad, Outside
  <1>5. CASE TryCas(t) BY <1>5 DEF TryCas, Acquire, Outside, Acquires
  <1>6. CASE Write(t) BY <1>6 DEF Write, Inside
  <1>7. CASE RelLoad(t) BY <1>7 DEF RelLoad, Inside
  <1>8. CASE RelStore(t) BY <1>8 DEF RelStore, Releases
  <1>9. CASE RdVersion(t) BY <1>9 DEF RdVersion, Outside
  <1>10. CASE RdCopy(t) BY <1>10 DEF RdCopy, Outside
  <1>11. CASE RdCheck(t) BY <1>11 DEF RdCheck, Outside
  <1> QED
    BY <1>1, <1>2, <1>3, <1>4, <1>5, <1>6, <1>7, <1>8, <1>9, <1>10, <1>11
    DEF Step

LEMMA LockStep ==
  ASSUME IInv, NEW t \in Threads, Step(t)
  PROVE  MutualExclusion' /\ HolderHasLock'
  <1> USE DEF IInv
  <1>1. /\ OthersKeep(t)
        /\ Outside(t) \/ Inside(t) \/ Acquires(t) \/ Releases(t)
    BY Effects
  <1>2. \A u \in Threads : u # t => (Holds(u)' <=> Holds(u))
    BY <1>1 DEF OthersKeep, Holds
  <1>3. CASE Outside(t) \/ Inside(t)
    BY <1>2, <1>3 DEF Outside, Inside, MutualExclusion, HolderHasLock
  <1>4. CASE Acquires(t)
    <2>1. ~IsSet(word) /\ word \in Word /\ word = reg[t]
      BY <1>4 DEF Acquires, Registers, TypeOK
    <2>2. IsSet(word') /\ \A u \in Threads : ~Holds(u)
      BY <1>4, <2>1, Acquisition DEF Acquires, HolderHasLock
    <2> QED BY <1>2, <2>2 DEF MutualExclusion, HolderHasLock
  <1>5. CASE Releases(t)
    <2>1. \A u \in Threads : ~Holds(u)'
      BY <1>2, <1>5 DEF Releases, MutualExclusion, Holds
    <2> QED BY <2>1 DEF MutualExclusion, HolderHasLock
  <1> QED BY <1>1, <1>3, <1>4, <1>5

LEMMA RegistersStep ==
  ASSUME IInv, NEW t \in Threads, Step(t)
  PROVE  Registers'
  <1> USE DEF IInv
  <1>1. /\ OthersKeep(t)
        /\ Outside(t) \/ Inside(t) \/ Acquires(t) \/ Releases(t)
    BY Effects
  <1>2. ASSUME NEW u \in Threads, u # t
        PROVE  /\ pc'[u] \in {"getCas", "tryCas", "rdCopy", "rdCheck"}
                    => ~IsSet(reg'[u])
               /\ pc'[u] = "relStore" => reg'[u] = word'
    <2>1. pc'[u] = pc[u] /\ reg'[u] = reg[u]
      BY <1>1, <1>2 DEF OthersKeep
    <2>2. pc[u] = "relStore" => word' = word
      BY <1>1, <1>2 DEF Outside, Inside, Acquires, Releases, Registers, Holds,
         HolderHasLock, MutualExclusion
    <2> QED BY <2>1, <2>2 DEF Registers
  <1>3. /\ pc'[t] \in {"getCas", "tryCas", "rdCopy", "rdCheck"}
             => ~IsSet(reg'[t])
        /\ pc'[t] = "relStore" => reg'[t] = word'
    <2> USE DEF Registers, TypeOK, Goto
    <2>0. ~IsSet(word) => Masked(word) = word
      BY DEF Masked
    <2>1. CASE Begin(t) BY <2>1 DEF Begin
    <2>2. CASE GetLoad(t) BY <2>0, <2>2 DEF GetLoad
    <2>3. CASE GetCas(t) BY <2>3 DEF GetCas, Acquire
    <2>4. CASE TryLoad(t) BY <2>0, <2>4 DEF TryLoad
    <2>5. CASE TryCas(t) BY <2>5 DEF TryCas, Acquire
    <2>6. CASE Write(t) BY <2>6 DEF Write
    <2>7. CASE RelLoad(t) BY <2>7 DEF RelLoad
    <2>8. CASE RelStore(t) BY <2>8 DEF RelStore
    <2>9. CASE RdVersion(t) BY <2>9 DEF RdVersion
    <2>10. CASE RdCopy(t) BY <2>10 DEF RdCopy
    <2>11. CASE RdCheck(t) BY <2>11 DEF RdCheck
    <2> QED
      BY <2>1, <2>2, <2>3, <2>4, <2>5, <2>6, <2>7, <2>8, <2>9, <2>10, <2>11
      DEF Step
  <1> QED BY <1>2, <1>3 DEF Registers

LEMMA SlotStep ==
  ASSUME IInv, NEW t \in Threads, Step(t)
  PROVE  SlotIsWhole'
  <1> USE DEF IInv
  <1>1. /\ OthersKeep(t)
        /\ Outside(t) \/ Inside(t) \/ Acquires(t) \/ Releases(t)
    BY Effects
  <1>2. CASE Outside(t)
    BY <1>1, <1>2 DEF Outside, OthersKeep, SlotIsWhole, Whole, Holds
  <1>3. CASE Inside(t)
    <2>1. IsSet(word') /\ \A u \in Threads : u # t => ~Holds(u)'
      BY <1>1, <1>3 DEF Inside, OthersKeep, HolderHasLock, MutualExclusion, Holds
    <2>2. /\ pc'[t] = "write" => \A i \in 1 .. pos'[t] - 1 : payload'[i] = val'[t]
          /\ pc'[t] \in {"relLoad", "relStore"}
               => \A i \in 1 .. Parts : payload'[i] = val'[t]
      <3>1. CASE Write(t)
        <4>1. payload' = [payload EXCEPT ![pos[t]] = val[t]] /\ val' = val
              /\ pos' = [pos EXCEPT ![t] = @ + 1] /\ pc[t] = "write"
              /\ pc'[t] = IF pos[t] = Parts THEN "relLoad" ELSE "write"
          BY <3>1 DEF Write, Goto, TypeOK
        <4>2. \A i \in 1 .. pos[t] - 1 : payload[i] = val[t]
          BY <4>1 DEF SlotIsWhole
        <4>3. pos[t] \in 1 .. Parts /\ pos'[t] = pos[t] + 1
              /\ payload \in [1 .. Parts -> Values]
          BY <4>1 DEF TypeOK, Copying, Payload
        <4>4. \A i \in 1 .. pos[t] : payload'[i] = val[t]
          BY <4>1, <4>2, <4>3, PartsAssumption
        <4> QED BY <4>1, <4>3, <4>4, PartsAssumption
      <3>2. CASE RelLoad(t)
        BY <3>2 DEF RelLoad, Goto, TypeOK, SlotIsWhole
      <3>3. pc[t] \in {"write", "relLoad", "relStore"} /\ pc'[t] # "idle"
        BY <1>3 DEF Inside, Holds
      <3> QED
        BY <3>1, <3>2, <3>3
        DEF Step, Begin, GetLoad, GetCas, TryLoad, TryCas, RelStore, RdVersion,
            RdCopy, RdCheck, Goto, TypeOK
    <2> QED BY <2>1, <2>2 DEF SlotIsWhole, Holds
  <1>4. CASE Acquires(t)
    <2>1. IsSet(word') /\ \A u \in Threads : ~Holds(u)
      BY <1>4, Acquisition DEF Acquires, Registers, HolderHasLock, TypeOK
    <2>2. \A u \in Threads : u # t => ~Holds(u)'
      BY <1>1, <2>1 DEF OthersKeep, Holds
    <2> QED BY <1>4, <2>1, <2>2 DEF Acquires, SlotIsWhole, Holds
  <1>5. CASE Releases(t)
    <2>1. \A u \in Threads : ~Holds(u)'
      BY <1>1, <1>5 DEF Releases, OthersKeep, MutualExclusion, Holds
    <2>2. \A i \in 1 .. Parts : payload[i] = val[t]
      BY <1>5 DEF Releases, SlotIsWhole
    <2>3. payload = [i \in 1 .. Parts |-> val[t]] /\ val[t] \in Values
      BY <2>2 DEF TypeOK, Payload
    <2> QED BY <1>5, <2>1, <2>3 DEF Releases, SlotIsWhole, Whole, Holds
  <1> QED BY <1>1, <1>2, <1>3, <1>4, <1>5

LEMMA ReaderStep ==
  ASSUME IInv, NEW t \in Threads, Step(t)
  PROVE  ReaderIsPast'
  <1> USE DEF IInv
  <1>1. /\ OthersKeep(t)
        /\ Outside(t) \/ Inside(t) \/ Acquires(t) \/ Releases(t)
    BY Effects
  <1>2. word \in Word /\ Masked(word) \in Nat /\ reg \in [Threads -> Word]
    BY WordArithmetic DEF TypeOK
  <1>3. \A u \in Threads : u # t => (Holds(u)' <=> Holds(u))
    BY <1>1 DEF OthersKeep, Holds
  <1> DEFINE Reading(u) == pc[u] \in {"rdCopy", "rdCheck"}
  <1>4. ASSUME NEW u \in Threads, u # t, Reading(u)'
        PROVE  /\ Reading(u) /\ reg'[u] = reg[u] /\ pos'[u] = pos[u]
               /\ ret'[u] = ret[u] /\ reg[u] \in Nat /\ ~IsSet(reg[u])
    BY <1>1, <1>2, <1>4, LockSetAssumption DEF OthersKeep, Registers, Word
  <1>5. CASE Outside(t)
    <2>1. (\E u \in Threads : Holds(u)') <=> (\E u \in Threads : Holds(u))
      BY <1>3, <1>5 DEF Outside
    <2>2. ASSUME NEW u \in Threads, u # t, Reading(u)'
          PROVE  /\ ~IsSet(word') \/ (\E h \in Threads : Holds(h)')
                      => reg'[u] <= Masked(word)'
                 /\ word' = reg'[u]
                      => \A i \in 1 .. pos'[u] - 1 : ret'[u][i] = payload'[i]
      BY <1>4, <1>5, <2>1, <2>2 DEF Outside, ReaderIsPast
    <2>3. ASSUME Reading(t)'
          PROVE  /\ ~IsSet(word') \/ (\E h \in Threads : Holds(h)')
                      => reg'[t] <= Masked(word)'
                 /\ word' = reg'[t]
                      => \A i \in 1 .. pos'[t] - 1 : ret'[t][i] = payload'[i]
      <3>1. CASE RdVersion(t)
        <4>1. reg'[t] = word /\ pos'[t] = 1 /\ ~IsSet(word)
          BY <3>1 DEF RdVersion, TypeOK
        <4>2. Masked(word) = word /\ word <= word
          BY <1>2, <4>1 DEF Masked
        <4> QED BY <1>5, <4>1, <4>2 DEF Outside
      <3>2. CASE RdCopy(t)
        <4>1. /\ pc[t] = "rdCopy" /\ reg' = reg /\ pos'[t] = pos[t] + 1
              /\ ret' = [ret EXCEPT ![t][pos[t]] = payload[pos[t]]]
          BY <3>2 DEF RdCopy, TypeOK
        <4>2. pos[t] \in 1 .. Parts /\ ret[t] \in [1 .. Parts -> Values]
          BY <4>1 DEF TypeOK, Copying, Payload
        <4>3. /\ ret'[t][pos[t]] = payload[pos[t]]
              /\ \A i \in 1 .. pos[t] - 1 : ret'[t][i] = ret[t][i]
          BY <4>1, <4>2, PartsAssumption DEF TypeOK
        <4>4. word = reg[t] => \A i \in 1 .. pos[t] - 1 : ret[t][i] = payload[i]
          BY <4>1 DEF ReaderIsPast
        <4>5. word = reg[t] => \A i \in 1 .. pos[t] : ret'[t][i] = payload[i]
          BY <4>2, <4>3, <4>4, PartsAssumption
        <4>6. ~IsSet(word) \/ (\E h \in Threads : Holds(h))
                => reg[t] <= Masked(word)
          BY <4>1 DEF ReaderIsPast
        <4> QED
          BY <1>5, <2>1, <4>1, <4>2, <4>5, <4>6, PartsAssumption DEF Outside
      <3> QED
        BY <2>3, <3>1, <3>2
        DEF Step, Begin, GetLoad, GetCas, Acquire, TryLoad, TryCas, Write,
            RelLoad, RelStore, RdCheck, Goto, TypeOK
    <2> QED BY <2>2, <2>3 DEF ReaderIsPast
  <1>6. CASE Inside(t)
    <2>1. IsSet(word') /\ word' = word /\ ~Reading(t)'
      BY <1>6 DEF Inside, HolderHasLock, Holds
    <2>2. \E h \in Threads : Holds(h)
      BY <1>6 DEF Inside
    <2> QED BY <1>4, <2>1, <2>2 DEF ReaderIsPast
  <1>7. CASE Acquires(t)
    <2>1. ~IsSet(word) /\ word = reg[t] /\ ~Reading(t)'
      BY <1>7 DEF Acquires, Registers
    <2>2. IsSet(word') /\ Masked(word)' = Masked(word)
      BY <1>2, <1>7, <2>1, Acquisition DEF Acquires
    <2> QED BY <1>4, <2>1, <2>2 DEF ReaderIsPast
  <1>8. CASE Releases(t)
    <2>1. Holds(t) /\ IsSet(word) /\ reg[t] = word /\ ~Reading(t)'
      BY <1>8 DEF Releases, Holds, HolderHasLock, Registers
    <2>2. \A u \in Threads : ~Holds(u)'
      BY <1>3, <1>8, <2>1 DEF Releases, MutualExclusion, Holds
    <2>3. ~IsSet(word') => word' = Masked(word) + 1
                           /\ Masked(word)' = Masked(word) + 1
      BY <1>2, <1>8, <2>1, Releasing DEF Releases
    <2>4. ASSUME NEW u \in Threads, u # t, Reading(u)'
          PROVE  word' # reg'[u] /\ (~IsSet(word') => reg'[u] <= Masked(word)')
      <3>1. reg[u] <= Masked(word) /\ reg[u] \in Nat /\ ~IsSet(reg[u])
            /\ reg'[u] = reg[u]
        BY <1>4, <2>1, <2>4 DEF ReaderIsPast
      <3> QED BY <1>2, <2>3, <3>1
    <2> QED BY <2>1, <2>2, <2>4 DEF ReaderIsPast
  <1> QED BY <1>1, <1>5, <1>6, <1>7, <1>8

LEMMA IInvStep == IInv /\ [Next]_vars => IInv'
  <1> SUFFICES ASSUME IInv, [Next]_vars PROVE IInv'
    OBVIOUS
  <1>1. ASSUME NEW t \in Threads, Step(t) PROVE IInv'
    BY <1>1, TypeStep, LockStep, RegistersStep, SlotStep, ReaderStep DEF IInv
  <1>2. CASE UNCHANGED vars
    BY <1>2
    DEF vars, IInv, TypeOK, Copying, Registers, MutualExclusion, HolderHasLock,
        SlotIsWhole, ReaderIsPast, Holds, Whole
  <1> QED BY <1>1, <1>2 DEF Next

\* The strengthened invariant, which relates a reader's version to the present
\* one and the slot to the position of its holder.
THEOREM Invariance == Spec => []IInv
  BY IInvInit, IInvStep, PTL DEF Spec

\* The types, for any number of threads, parts and operations.
THEOREM TypeCorrect == Spec => []TypeOK
  <1>1. IInv => TypeOK
    BY DEF IInv
  <1> QED BY <1>1, Invariance, PTL

\* get_lock and try_get_lock exclude each other.
THEOREM WritersExclude == Spec => []MutualExclusion
  <1>1. IInv => MutualExclusion
    BY DEF IInv
  <1> QED BY <1>1, Invariance, PTL

\* A GET that keeps its copy has read one payload as a whole, whatever UPDATE
\* did in between, and however often the version has gone round.
THEOREM AtomicReads == Spec => ReadsAreAtomic
  <1> DEFINE Kept == \A t \in Threads :
                       pc[t] = "rdCheck" /\ pc'[t] = "idle"
                         => ret[t] = payload /\ Whole(ret[t])
  <1>1. IInv /\ [Next]_vars => [Kept]_vars
    <2> SUFFICES ASSUME IInv, Next, NEW t \in Threads,
                        pc[t] = "rdCheck", pc'[t] = "idle"
                 PROVE  ret[t] = payload /\ Whole(ret[t])
      OBVIOUS
    <2> USE DEF IInv
    <2>1. PICK u \in Threads : Step(u)
      BY DEF Next, Finished
    <2>2. u = t
      BY <2>1, Effects DEF OthersKeep
    <2>3. word = reg[t]
      BY <2>1, <2>2
      DEF Step, Begin, GetLoad, GetCas, TryLoad, TryCas, Write, RelLoad,
          RelStore, RdVersion, RdCopy, RdCheck, Goto, TypeOK
    <2>4. ~IsSet(word) /\ pos[t] = Parts + 1
      BY <2>3 DEF Registers, Copying
    <2>5. \A i \in 1 .. Parts : ret[t][i] = payload[i]
      BY <2>3, <2>4, PartsAssumption DEF ReaderIsPast
    <2>6. ret[t] = payload
      <3>1. /\ ret[t] = [i \in 1 .. Parts |-> ret[t][i]]
            /\ payload = [i \in 1 .. Parts |-> payload[i]]
        BY DEF TypeOK, Payload
      <3>2. [i \in 1 .. Parts |-> ret[t][i]] = [i \in 1 .. Parts |-> payload[i]]
        BY <2>5
      <3> QED BY <3>1, <3>2
    <2> QED BY <2>4, <2>6 DEF SlotIsWhole
  <1>2. Spec => [][Kept]_vars
    BY <1>1, Invariance, PTL DEF Spec
  <1> QED BY <1>2 DEF ReadsAreAtomic
=============================================================================
