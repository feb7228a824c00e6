\* A loaded tree, two inserting writers: the assertion of insertLeaf.
CONSTANTS
  w1 = w1
  w2 = w2
  r1 = r1
  Threads <- MCTwoWriters
  Inserters <- MCTwoWriters
  Updaters <- MCNobody
  Readers <- MCNobody
  Keys <- MCKeys
  Seed <- MCSeed
  ChildNum = 2
  MaxNodes = 9
  MaxOps <- MCTwoOps
  LockSet = 16
SPECIFICATION Spec
INVARIANT AssertionHolds
