CONSTANTS
  t1 = t1
  t2 = t2
  t3 = t3
  NoOwner = NoOwner
  Threads <- MCThreads
  Node <- MCOverflowNode
  Adj <- MCOverflowAdj
  Source = 0
  DistBits = 3
  UseCas = TRUE

SPECIFICATION Spec

INVARIANT NoUnderestimate
