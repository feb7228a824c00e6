\* Two threads, three operations each, on a word whose version overflows
\* after three releases.  The overflow leaves the lock set for good, so the
\* system may stop there.
CONSTANTS
  t1 = t1
  t2 = t2
  a = a
  b = b
  Threads <- MCThreads2
  Values <- MCValues
  Parts = 2
  MaxOps = 3
  LockSet = 3
SPECIFICATION FairSpec
INVARIANTS TypeOK MutualExclusion
PROPERTIES ReadsAreAtomic Termination
CHECK_DEADLOCK FALSE
