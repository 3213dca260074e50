CONSTANTS
  t1 = t1
  t2 = t2
  t3 = t3
  NoOwner = NoOwner
  Threads <- MCThreads
  Node <- MCNode
  Adj <- MCAdj
  Source = 0
  DistBits = 4
  UseCas = FALSE

SPECIFICATION Spec

INVARIANT VerifySucceeds
