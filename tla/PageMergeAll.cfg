\* Three threads under fair scheduling; arrays whose size is and is not a
\* multiple of Ratio, also with fewer pages than threads; inserted keys that
\* are new and inserted keys that the array holds.
CONSTANTS
  None = None
  NumThreads = 3
  Ratio = 2
  Arrays <- MCArrays
  Inserted <- MCInserted
SPECIFICATION FairSpec
INVARIANTS PartialKeysSampled ErrorOnlyOnUpdates
PROPERTIES WrittenOnce ImplementsMergeResult Termination
