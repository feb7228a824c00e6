\* Three partitions on six DPUs; two warm-ups of six queries, some of them
\* below the first key.
CONSTANTS
  P = 3
  K = 2
  Samples = 6
  Passes = 2
SPECIFICATION Spec
INVARIANTS DpusShared RoutedHome WildOnlyIfLost
PROPERTY AdjustHelps
