\* Two threads, two rounds of three keys; a page holds one key, and the entries
\* are collected after every second batch.
CONSTANTS
  Thread = {t1, t2}
  P = 2
  PagesOf = 1
  Homes <- MCHomes
  Rounds = 2
  Batch = 3
  BufSize = 1
  MaxBufferSize = 6
  Threshold = 5
  SplitAt <- MCSplitAt
  None = None
SPECIFICATION Spec
INVARIANTS ReadsOwnKey SentOnce StoredOnce PimAnswers
PROPERTY LeavesOnlyAsLast
