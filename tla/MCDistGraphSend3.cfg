CONSTANTS
  t1 = t1
  NumHosts = 3
  Threads <- MCThreads
  HostToNodes <- MCHostToNodes
  Work <- MCWork
  EdgeData = TRUE
  SendLimit = 35

SPECIFICATION Spec

INVARIANT TypeOK
INVARIANT EdgeConservation
INVARIANT CountsAgree
PROPERTY Termination
PROPERTY RoutingSpec
