CONSTANTS
  t1 = t1
  t2 = t2
  NoOwner = NoOwner
  Threads <- MCThreads
  Node <- MCNode
  Adj <- MCAdj
  Source = 0
  DistBits = 4
  UseCas = FALSE
  UseSet = TRUE

SPECIFICATION Spec


INVARIANT VerifySucceeds
