------------------------------ MODULE LockWord ------------------------------
(***************************************************************************)
(* The 32-bit word of ol_lock (support/concurrent.h), also embedded in     *)
(* every buf_page (host/dram_index.h).  The top bit says that the lock is  *)
(* held and the bits below it count the releases.  LockSet is the value of *)
(* the top bit, 2^31 in the code: words are 0 .. 2 * LockSet - 1 and the   *)
(* arithmetic wraps there.                                                 *)
(***************************************************************************)
EXTENDS Integers

CONSTANT LockSet

ASSUME LockSetAssumption == LockSet \in Nat \ {0}

Word == 0 .. 2 * LockSet - 1

\* w & lockSet
IsSet(w) == w >= LockSet

\* w & lockMask
Masked(w) == IF IsSet(w) THEN w - LockSet ELSE w

\* w | lockSet
WithLock(w) == Masked(w) + LockSet

\* A release that also masks the version back to zero when it overflows.
ReleasedMasked(w) == IF w = 2 * LockSet - 1 THEN 0 ELSE w + 1 - LockSet

\* A release that forgets to clear the lock bit.
ReleasedStillSet(w) == IF w + 1 < 2 * LockSet THEN w + 1 ELSE LockSet

\* v + 1 - lockSet, modulo 2^32.  Releasing 2 * LockSet - 1 (the last
\* version) gives LockSet: the carry leaves the lock bit set.
Released(w) == IF w + 1 < LockSet THEN w + 1 + LockSet ELSE w + 1 - LockSet
=============================================================================
