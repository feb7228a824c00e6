\* Two threads, two rounds each, under fair scheduling, and two merges when
\* the threshold allows it; the pages overflow at the third batch.
CONSTANTS
  t1 = t1
  t2 = t2
  k1 = k1
  k2 = k2
  k3 = k3
  None = None
  Threads <- MCThreads2
  InitKeys <- MCInitKeys3
  Rounds = 2
  BufSize = 2
  LockSet = 8
SPECIFICATION FairSpec
INVARIANTS TypeOK MergeExclusive FreshWhileVersionUnchanged StoredKeysSurvive BufferedIsCounted
PROPERTY Termination
