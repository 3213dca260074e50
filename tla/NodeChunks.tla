----------------------------- MODULE NodeChunks -----------------------------
(***************************************************************************)
(* The first half of getEvenNodeToHostMapping (dist-graph-convert-         *)
(* helpers.h): every host splits the node range into                       *)
(* totalEdgeCount / numHosts chunks with block_range, finds the chunks its *)
(* loaded edges start in (findUniqueSourceNodes, findUniqueChunks),        *)
(* creates one accumulator per such chunk and counts its edges per chunk   *)
(* in a do_all (accumulateLocalEdgesToChunks), exchanges the counts with   *)
(* every other host (sendAndReceiveEdgeChunkCounts), turns them into a     *)
(* prefix sum and appends the sentinel chunk <<N, N>>.  The result feeds   *)
(* getChunkToHostMapping, whose body is not in the repository.            *)
(*                                                                         *)
(* Edges are kept as the flat uint32 vector the converter loads: src, dst  *)
(* and, when EdgeData, the edge's data.  A host's sequential work before   *)
(* the do_all is one step; every do_all iteration of a thread is a step.   *)
(***************************************************************************)
EXTENDS Integers, Sequences, FiniteSets, FiniteSetsExt, SequencesExt

CONSTANTS
  NumHosts,    \* net.Num
  NumThreads,  \* the threads of a host's do_all
  TotalNodes,  \* totalNodeCount
  LocalEdges,  \* LocalEdges[h]: the vector localEdges host h has loaded
  EdgeData,    \* FALSE: EdgeDataTy is void; TRUE: uint32_t edge data
  ChunkCap     \* the bound 10000000 on numNodeChunks

Hosts == 0..(NumHosts - 1)
Tids == 0..(NumThreads - 1)

ASSUME NumHosts \in Nat \ {0} /\ NumThreads \in Nat \ {0}
ASSUME EdgeData \in BOOLEAN /\ ChunkCap \in Nat \ {0}

\* (uint32_t)-1, what findOwner returns when no range holds the ID.
NoOwner == -1  \* stands for 2^32 - 1, beyond TLC's integers; no index equals it

\* getNumEdges: elements per edge, and the edges of a vector.
Stride == IF EdgeData THEN 3 ELSE 2
GetNumEdges(v) == Len(v) \div Stride

\* totalEdgeCount, the sum of every host's loaded edges.
TotalEdges == MapThenSumSet(LAMBDA h : GetNumEdges(LocalEdges[h]), Hosts)

\* The source of edge i (0-based): localEdges[i * 2] or localEdges[i * 3].
SrcOf(h, i) == LocalEdges[h][i * Stride + 1]

\* galois::block_range(b, e, id, num): the id-th of num blocks of b..e-1,
\* each of ceil((e-b)/num) (at least 1) elements, clipped at e.
BlockRange(b, e, id, num) ==
  LET dist == e - b
      numper == IF (dist + num - 1) \div num > 1 THEN (dist + num - 1) \div num
                                               ELSE 1
      Clip(x) == IF x < dist THEN x ELSE dist
  IN  <<b + Clip(numper * id), b + Clip(numper * (id + 1))>>

\* findOwner(gID, ownerMapping): the index of the range first..last-1 that
\* holds gID, or -1.
FindOwner(gID, m) ==
  IF \E i \in 1..Len(m) : m[i][1] <= gID /\ gID < m[i][2]
  THEN (CHOOSE i \in 1..Len(m) : m[i][1] <= gID /\ gID < m[i][2]) - 1
  ELSE NoOwner

\* The halving loop on numNodeChunks.
RECURSIVE Capped(_)
Capped(n) == IF n > ChunkCap THEN Capped(n \div 2) ELSE n

VARIABLES
  pc,           \* pc[h]: "start", "accum", "exchange", "done", "failed"
  numChunks,    \* numNodeChunks
  chunkToNode,  \* chunkToNode: Seq of <<first, last>>
  uniqueChunks, \* the chunks findUniqueChunks returned, keys made up front
  mapKeys,      \* the keys of chunkToAccumulator
  racyInsert,   \* some do_all iteration inserted a key into the std::map
  acc,          \* acc[h][c]: chunkToAccumulator[c], reduced over threads
  edgeIdx,      \* edgeIdx[h][t]: next iteration of thread t's block
  chunkCounts,  \* chunkCounts[h][c], c \in 0..numChunks-1
  net,          \* net[h]: the counts <<from, counts>> sent to h
  got           \* got[h]: how many hosts' counts h has added

vars == <<pc, numChunks, chunkToNode, uniqueChunks, mapKeys, racyInsert,
          acc, edgeIdx, chunkCounts, net, got>>

ChunkIds(h) == 0..(numChunks[h] - 1)

\* The do_all's static block of iterations for thread t of host h.
IterBlock(h, t) == BlockRange(0, GetNumEdges(LocalEdges[h]), t, NumThreads)

TypeOK ==
  /\ pc \in [Hosts -> {"start", "accum", "exchange", "done", "failed"}]
  /\ numChunks \in [Hosts -> 0..TotalEdges]
  /\ \A h \in Hosts :
       /\ chunkToNode[h] \in Seq((0..TotalNodes) \X (0..TotalNodes))
       /\ uniqueChunks[h] \subseteq mapKeys[h]
       /\ acc[h] \in [ChunkIds(h) -> 0..TotalEdges]
       /\ chunkCounts[h] \in [ChunkIds(h) -> 0..TotalEdges]
       /\ \A t \in Tids : edgeIdx[h][t] \in 0..GetNumEdges(LocalEdges[h])
  /\ racyInsert \in BOOLEAN
  /\ got \in [Hosts -> 0..(NumHosts - 1)]

Init ==
  /\ pc = [h \in Hosts |-> "start"]
  /\ numChunks = [h \in Hosts |-> 0]
  /\ chunkToNode = [h \in Hosts |-> <<>>]
  /\ uniqueChunks = [h \in Hosts |-> {}]
  /\ mapKeys = [h \in Hosts |-> {}]
  /\ racyInsert = FALSE
  /\ acc = [h \in Hosts |-> <<>>]
  /\ edgeIdx = [h \in Hosts |-> [t \in Tids |-> 0]]
  /\ chunkCounts = [h \in Hosts |-> <<>>]
  /\ net = [h \in Hosts |-> {}]
  /\ got = [h \in Hosts |-> 0]

\* findUniqueSourceNodes: the sources of the loaded edges.  Its do_all only
\* inserts into per-thread sets, merged afterwards, so it is one step.
UniqueSourceNodes(h) ==
  {SrcOf(h, i) : i \in 0..(GetNumEdges(LocalEdges[h]) - 1)}

\* findUniqueChunks: the chunks holding one of the nodes.
FindUniqueChunks(nodes, c2n) ==
  {c \in 0..(Len(c2n) - 1) : \E x \in nodes : FindOwner(x, c2n) = c}

\* The chunk loop of getEvenNodeToHostMapping over numNodeChunks blocks.
MakeChunks_LastInclusive(n) == [i \in 1..n |-> BlockRange(0, TotalNodes - 1, i - 1, n)]
MakeChunks(n) == [i \in 1..n |-> BlockRange(0, TotalNodes, i - 1, n)]

\* getEvenNodeToHostMapping up to the ChunkInspection do_all: the chunk
\* count and its halving, the chunks, findUniqueSourceNodes,
\* findUniqueChunks, chunkCounts.assign(numNodeChunks, 0) and the
\* accumulators created for the unique chunks.
Start(h) ==
  LET n == Capped(TotalEdges \div NumHosts)
      c2n == MakeChunks(n)
      uc == FindUniqueChunks(UniqueSourceNodes(h), c2n)
  IN  /\ pc[h] = "start"
      /\ pc' = [pc EXCEPT ![h] = "accum"]
      /\ numChunks' = [numChunks EXCEPT ![h] = n]
      /\ chunkToNode' = [chunkToNode EXCEPT ![h] = c2n]
      /\ uniqueChunks' = [uniqueChunks EXCEPT ![h] = uc]
      /\ mapKeys' = [mapKeys EXCEPT ![h] = uc]
      /\ acc' = [acc EXCEPT ![h] = [c \in 0..(n - 1) |-> 0]]
      /\ chunkCounts' = [chunkCounts EXCEPT ![h] = [c \in 0..(n - 1) |-> 0]]
      /\ edgeIdx' = [edgeIdx EXCEPT ![h] = [t \in Tids |-> IterBlock(h, t)[1]]]
      /\ UNCHANGED <<racyInsert, net, got>>

\* The chunk of the edge thread t of host h is at.
EdgeChunk(h, t) == FindOwner(SrcOf(h, edgeIdx[h][t]), chunkToNode[h])

\* One ChunkInspection iteration: findOwner on the chunks;
\* GALOIS_ASSERT(chunkNum != (uint32_t)-1) aborts the host when it fails,
\* otherwise chunkToAccumulator[chunkNum] += 1, where operator[] of the
\* std::map inserts a missing key, concurrently with the other threads.
AccumulateEdge(h, t) ==
  /\ pc[h] = "accum"
  /\ edgeIdx[h][t] < IterBlock(h, t)[2]
  /\ IF EdgeChunk(h, t) = NoOwner
     THEN /\ pc' = [pc EXCEPT ![h] = "failed"]
          /\ UNCHANGED <<mapKeys, racyInsert, acc, edgeIdx>>
     ELSE /\ racyInsert' = (racyInsert \/ EdgeChunk(h, t) \notin mapKeys[h])
          /\ mapKeys' = [mapKeys EXCEPT ![h] = @ \cup {EdgeChunk(h, t)}]
          /\ acc' = [acc EXCEPT ![h][EdgeChunk(h, t)] = @ + 1]
          /\ edgeIdx' = [edgeIdx EXCEPT ![h][t] = @ + 1]
          /\ UNCHANGED pc
  /\ UNCHANGED <<numChunks, chunkToNode, uniqueChunks, chunkCounts, net, got>>

\* After the do_all: chunkCounts[c] = reduce() for the unique chunks, then
\* sendAndReceiveEdgeChunkCounts sends the local counts to every other host.
EndAccumulate(h) ==
  LET counts == [c \in ChunkIds(h) |->
                   IF c \in uniqueChunks[h] THEN acc[h][c] ELSE chunkCounts[h][c]]
  IN  /\ pc[h] = "accum"
      /\ \A t \in Tids : edgeIdx[h][t] = IterBlock(h, t)[2]
      /\ chunkCounts' = [chunkCounts EXCEPT ![h] = counts]
      /\ net' = [o \in Hosts |-> IF o = h THEN net[o] ELSE net[o] \cup {<<h, counts>>}]
      /\ pc' = [pc EXCEPT ![h] = "exchange"]
      /\ UNCHANGED <<numChunks, chunkToNode, uniqueChunks, mapKeys, racyInsert,
                     acc, edgeIdx, got>>

\* The count messages sendAndReceiveEdgeChunkCounts waits for: one from
\* every other host.
ExpectedCounts == NumHosts - 1

\* sendAndReceiveEdgeChunkCounts: add the counts of one other host.
ReceiveCounts_Keep(h) ==
  /\ pc[h] = "exchange"
  /\ \E m \in net[h] :
       /\ chunkCounts' = [chunkCounts EXCEPT ![h] = [c \in ChunkIds(h) |-> @[c] + m[2][c]]]
       /\ got' = [got EXCEPT ![h] = @ + 1]
       /\ UNCHANGED net
  /\ UNCHANGED <<pc, numChunks, chunkToNode, uniqueChunks, mapKeys, racyInsert,
                 acc, edgeIdx>>
ReceiveCounts(h) ==
  /\ pc[h] = "exchange"
  /\ \E m \in net[h] :
       /\ chunkCounts' = [chunkCounts EXCEPT ![h] = [c \in ChunkIds(h) |-> @[c] + m[2][c]]]
       /\ got' = [got EXCEPT ![h] = @ + 1]
       /\ net' = [net EXCEPT ![h] = @ \ {m}]
  /\ UNCHANGED <<pc, numChunks, chunkToNode, uniqueChunks, mapKeys, racyInsert,
                 acc, edgeIdx>>

\* The prefix-sum loop: for i in 1..numNodeChunks-1, c[i] += c[i-1].
RECURSIVE PrefixFrom(_, _)
PrefixFrom(c, i) ==
  IF i >= Cardinality(DOMAIN c) THEN c
  ELSE PrefixFrom([c EXCEPT ![i] = @ + c[i - 1]], i + 1)
PrefixSumLoop_FromTwo(c) == PrefixFrom(c, 2)
PrefixSumLoop(c) == PrefixFrom(c, 1)

\* Once every other host's counts are in: the prefix sum and the sentinel
\* chunk <<totalNodeCount, totalNodeCount>>.
FinishCounts(h) ==
  /\ pc[h] = "exchange"
  /\ got[h] = ExpectedCounts
  /\ chunkCounts' = [chunkCounts EXCEPT ![h] = PrefixSumLoop(@)]
  /\ chunkToNode' = [chunkToNode EXCEPT ![h] = Append(@, <<TotalNodes, TotalNodes>>)]
  /\ pc' = [pc EXCEPT ![h] = "done"]
  /\ UNCHANGED <<numChunks, uniqueChunks, mapKeys, racyInsert, acc, edgeIdx, net, got>>

\* The receive loop polls the network and finds no message yet.
WaitCounts(h) ==
  /\ pc[h] = "exchange"
  /\ got[h] < ExpectedCounts
  /\ net[h] = {}
  /\ UNCHANGED vars

\* Every host has its prefix sum; getChunkToHostMapping follows.
Done ==
  /\ \A h \in Hosts : pc[h] = "done"
  /\ UNCHANGED vars

Next ==
  \/ \E h \in Hosts :
       \/ Start(h) \/ EndAccumulate(h) \/ ReceiveCounts(h) \/ FinishCounts(h)
       \/ WaitCounts(h)
       \/ \E t \in Tids : AccumulateEdge(h, t)
  \/ Done

Spec == Init /\ [][Next]_vars

-----------------------------------------------------------------------------
\* The number of loaded edges, over all hosts, whose source lies in chunk c
\* of the chunks c2n.
ChunkEdges(c2n, c) ==
  MapThenSumSet(LAMBDA h : Cardinality({i \in 0..(GetNumEdges(LocalEdges[h]) - 1) :
                                          FindOwner(SrcOf(h, i), c2n) = c}), Hosts)

\* The reference prefix sum: element i is the sum of elements 0..i.
PrefixRef(c) ==
  [i \in DOMAIN c |-> MapThenSumSet(LAMBDA j : c[j], 0..i)]

\* getEvenNodeToHostMapping's result: once a host is done, its chunkCounts
\* is the prefix sum of the global edge count of every chunk, whatever the
\* order the threads counted and the other hosts' counts arrived in, and
\* the last prefix value is totalEdgeCount, so every loaded edge fell in
\* exactly one chunk (the chunk loop and block_range tile the node range).
ChunkCountsCorrect ==
  \A h \in Hosts : pc[h] = "done" =>
    LET c2n == SubSeq(chunkToNode[h], 1, numChunks[h])
    IN  /\ chunkCounts[h] = PrefixRef([c \in ChunkIds(h) |-> ChunkEdges(c2n, c)])
        /\ numChunks[h] > 0 => chunkCounts[h][numChunks[h] - 1] = TotalEdges

\* GALOIS_ASSERT(chunkNum != (uint32_t)-1) in accumulateLocalEdgesToChunks
\* never fires: every source lies in one of the chunks.
NoAssertFailure == \A h \in Hosts : pc[h] # "failed"

=============================================================================
