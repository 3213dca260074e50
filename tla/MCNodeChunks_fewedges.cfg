CONSTANTS
  NumHosts = 3
  NumThreads = 2
  TotalNodes = 5
  LocalEdges <- MCEdgesFew
  EdgeData = FALSE
  ChunkCap = 10
SPECIFICATION Spec
INVARIANT NoAssertFailure
