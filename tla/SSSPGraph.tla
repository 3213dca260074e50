----------------------------- MODULE SSSPGraph -----------------------------
(***************************************************************************)
(* The read-only input of every SSSP algorithm in FifoSSSP.cpp: a directed *)
(* graph with non-negative edge weights, stored as an ordered out-edge     *)
(* list per node (LC_InlineEdge_Graph / LC_CSR_Graph), a source node, and  *)
(* the 32-bit unsigned distance type Dist of SSSP.h, here DistBits wide.   *)
(*                                                                         *)
(* Also the reference the algorithms are checked against: the true        *)
(* shortest distance of every node, computed by Bellman-Ford over          *)
(* unbounded integers.                                                     *)
(***************************************************************************)
EXTENDS Integers, Sequences, FiniteSets

CONSTANTS
  Node,       \* the nodes of the graph
  Source,     \* startNode
  Adj,        \* Adj[n]: the out-edges of n in edge_begin..edge_end order,
              \* each a pair <<dst, weight>>
  DistBits    \* width of Dist (32 in the code)

ASSUME Source \in Node
ASSUME DistBits \in Nat \ {0}
ASSUME \A n \in Node : \A i \in 1..Len(Adj[n]) :
         Adj[n][i][1] \in Node /\ Adj[n][i][2] \in Nat

\* Dist values and DIST_INFINITY (the largest Dist).
DistMod == 2^DistBits
INF == DistMod - 1
Dist == 0..INF

\* Dist newDist = sdist + d: unsigned addition wraps modulo 2^DistBits.
DistAdd(a, b) == (a + b) % DistMod

\* The out-edge k of node n: getEdgeDst and getEdgeData.
EdgeDst(n, k) == Adj[n][k][1]
EdgeW(n, k)   == Adj[n][k][2]
Degree(n)     == Len(Adj[n])

\* Every edge as a triple <<src, dst, weight>>.
Edges == UNION { { <<n, EdgeDst(n, k), EdgeW(n, k)>> : k \in 1..Degree(n) } : n \in Node }

(***************************************************************************)
(* Reference: the shortest distance from Source, by Bellman-Ford rounds    *)
(* over unbounded integers; NoPath marks an unreachable node.              *)
(***************************************************************************)
NoPath == -1

MinOf(S) == CHOOSE x \in S : \A y \in S : x <= y

RECURSIVE BellmanFord(_)
BellmanFord(k) ==
  IF k = 0
  THEN [n \in Node |-> IF n = Source THEN 0 ELSE NoPath]
  ELSE LET prev == BellmanFord(k - 1)
           cand(n) == { prev[e[1]] + e[3] :
                          e \in { f \in Edges : f[2] = n /\ prev[f[1]] # NoPath } }
                      \cup (IF prev[n] = NoPath THEN {} ELSE {prev[n]})
       IN [n \in Node |-> IF cand(n) = {} THEN NoPath ELSE MinOf(cand(n))]

TrueDist == BellmanFord(Cardinality(Node))

\* The Dist value a correct run leaves in node n.
ExpectedDist(n) == IF TrueDist[n] = NoPath THEN INF ELSE TrueDist[n]

(***************************************************************************)
(* verify() of the driver, over a distance array d: the source has 0, and  *)
(* no reached node n has an out-edge whose destination is farther than     *)
(* d[n] + w, that sum computed in Dist arithmetic as the code does.        *)
(***************************************************************************)
NotConsistent(d, n) ==
  /\ d[n] # INF
  /\ \E k \in 1..Degree(n) : d[EdgeDst(n, k)] > DistAdd(d[n], EdgeW(n, k))

Verify(d) ==
  /\ d[Source] = 0
  /\ \A n \in Node : ~NotConsistent(d, n)

=============================================================================
