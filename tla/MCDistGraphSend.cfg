CONSTANTS
  t1 = t1
  t2 = t2
  NumHosts = 2
  Threads <- MCThreads
  HostToNodes <- MCHostToNodes
  Work <- MCWork
  EdgeData = TRUE
  SendLimit = 35

SPECIFICATION Spec

INVARIANT TypeOK
INVARIANT EdgeConservation
INVARIANT CountsAgree
PROPERTY Termination
PROPERTY RoutingSpec
