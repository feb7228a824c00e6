\* A tree that a merge has cleared, and two inserting writers under fair
\* scheduling, one of which updates and looks up too: five operations, enough
\* to split the root and a child of it.
CONSTANTS
  w1 = w1
  w2 = w2
  r1 = r1
  Threads <- MCTwoWriters
  Inserters <- MCTwoWriters
  Updaters <- MCOtherWriter
  Readers <- MCOtherWriter
  Keys <- MCFewKeys
  Seed <- MCNoSeed
  ChildNum = 2
  MaxNodes = 9
  MaxOps <- MCThreeFirst
  LockSet = 16
SPECIFICATION FairSpec
INVARIANTS LockedByOne NoWildPointer
PROPERTY Termination
