CONSTANTS
  t1 = t1
  t2 = t2
  NoOwner = NoOwner
  Threads <- MCThreads
  Node <- MCNode
  Adj <- MCAdj
  Source = 0
  DistBits = 4
  UseCas = TRUE
  UseSet = TRUE

SPECIFICATION Spec

INVARIANT TypeOK
INVARIANT NoLostRelaxation

PROPERTY AbsSpec
PROPERTY Termination
