CONSTANTS
  a = a
  b = b
  c = c
  Proc = {a, b, c}
  NodeOf <- MCNodeOf
  Edges <- MCEdges
  Rounds = 2
  MaxPut = 1
  AccessRange = 8
  CharRange = 8
  Unset = 2
SPECIFICATION FairSpec
INVARIANTS
  EpochsMatch
  WaitMeansComplete
  CountersExact
PROPERTIES
  AllFinish
