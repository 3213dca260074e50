CONSTANTS
  t1 = t1
  t2 = t2
  Threads <- MCThreads
  Node <- MCNode
  Adj <- MCAdj
  Source = 0
  DistBits = 4

SPECIFICATION Spec

INVARIANT NoUnderestimate
