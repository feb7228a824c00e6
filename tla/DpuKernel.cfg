\* Three tasklets, buffers of six slots, six keys.  With epsilon 1 the search
\* starts on the second level, with 2 on the bottom one.  The three first
\* queries lead to batches that ask for every key.
CONSTANTS
  NT = 3
  Cap = 6
  S = 6
  StartPos = 4
  MaxKey = 14
  Levels <- MCLevels
  Epsilons = {1, 2}
  EpsRec = 1
  AccessCost = 4
  PredictionCost = 3
  Overflows <- MCOverflows
  Firsts = {2, 3, 4}
  Launches = 2
SPECIFICATION Spec
INVARIANTS SearchAnswered PairsAligned OverflowAnswered
