\* Two threads, two rounds each: who is in insert_payload while the merger
\* replaces the index.
CONSTANTS
  t1 = t1
  t2 = t2
  k1 = k1
  k2 = k2
  k3 = k3
  None = None
  Threads <- MCThreads2
  InitKeys <- MCInitKeys
  Rounds = 2
  BufSize = 2
  LockSet = 8
SPECIFICATION Spec
INVARIANT SwapExcludesInserts
