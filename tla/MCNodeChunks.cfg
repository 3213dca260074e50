CONSTANTS
  NumHosts = 2
  NumThreads = 2
  TotalNodes = 4
  LocalEdges <- MCEdges
  EdgeData = TRUE
  ChunkCap = 5
SPECIFICATION Spec
INVARIANT TypeOK
INVARIANT ChunkCountsCorrect
INVARIANT NoAssertFailure
