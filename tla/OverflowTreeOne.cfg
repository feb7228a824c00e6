\* A loaded tree with nodes of three keys, two inserting writers, one of which
\* updates too, and a reader.  Three inserts are enough to move a key within a
\* leaf, to split a leaf below the root, and to insert into two of its new
\* children at the same time, or into the same one.
CONSTANTS
  w1 = w1
  w2 = w2
  r1 = r1
  Threads <- MCAll
  Inserters <- MCTwoWriters
  Updaters <- MCOneWriter
  Readers <- MCReader
  Keys <- MCOneKeys
  Seed <- MCWideSeed
  ChildNum = 3
  MaxNodes = 10
  MaxOps <- MCTwoFirst
  LockSet = 16
SPECIFICATION Spec
INVARIANTS TypeOK CompletedReachable InnerEntriesLead
PROPERTIES LookupFindsCompleted
