CONSTANTS
  t1 = t1
  t2 = t2
  Threads <- MCThreads
  Node <- MCSymNode
  Adj <- MCSymAdj
  Source = 0
  DistBits = 4

SPECIFICATION Spec

INVARIANT TypeOK
INVARIANT NoLostRelaxation

PROPERTY AbsSpec
PROPERTY Termination
