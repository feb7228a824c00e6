\* Two threads, two partitions of two intervals of two elements; three elements
\* or none lie behind the last partition.
CONSTANTS
  NT = 2
  P = 2
  N = 2
  IL = 2
  Rests = {0, 3}
  BufSize <- MCBufSize
  Sampled <- MCSampled
  SeedNum = 2
  SeedStride = 1
  NewKeySets <- MCNewKeySets
  NumQuerys <- MCNumQuerys
  ScanLength = 3
  Width = 16
SPECIFICATION Spec
INVARIANTS OwnAnswers PagesInOrder FullBeforeTree InsertsLand
PROPERTIES GetsOwnPayload ScanExact
