------------------------------ MODULE MCGraphs ------------------------------
(***************************************************************************)
(* The input graphs the SSSP models are checked on.                        *)
(***************************************************************************)
EXTENDS Integers, Sequences

(***************************************************************************)
(* Six nodes, a cycle, two paths into node 2 and two into node 3, so that  *)
(* the first distance a node gets can be improved later (BadWork) and two  *)
(* threads can relax the same destination from different sources at once; *)
(* node 4 has no out-edges and node 5 is unreachable but has an edge into  *)
(* the graph.                                                              *)
(*   0 -1-> 1   0 -2-> 2   1 -4-> 3   1 -1-> 2   2 -1-> 3   3 -1-> 1       *)
(*   3 -1-> 4   5 -1-> 3                                                   *)
(* Shortest distances: 0, 1, 2, 3, 4, none.  With a four-bit Dist          *)
(* (DIST_INFINITY = 15) no sum reaches DIST_INFINITY.                      *)
(***************************************************************************)
MCNode == 0..5

MCAdj ==
  [n \in MCNode |->
     CASE n = 0 -> << <<1, 1>>, <<2, 2>> >>
       [] n = 1 -> << <<3, 4>>, <<2, 1>> >>
       [] n = 2 -> << <<3, 1>> >>
       [] n = 3 -> << <<1, 1>>, <<4, 1>> >>
       [] n = 4 -> << >>
       [] n = 5 -> << <<3, 1>> >>]

(***************************************************************************)
(* A path whose length passes DIST_INFINITY of a three-bit Dist (7):       *)
(*   0 -5-> 1 -4-> 2   and   0 -6-> 2                                      *)
(* Shortest distances: 0, 5, 6; the sum 5 + 4 = 9 wraps to 1.              *)
(***************************************************************************)
MCOverflowNode == 0..2

MCOverflowAdj ==
  [n \in MCOverflowNode |->
     CASE n = 0 -> << <<1, 5>>, <<2, 6>> >>
       [] n = 1 -> << <<2, 4>> >>
       [] n = 2 -> << >>]

(***************************************************************************)
(* A symmetric graph (every edge listed in both directions with the same   *)
(* weight), the input AsyncAlgoPP's pull assumes; node 4 is isolated.      *)
(*   0 -1- 1   0 -3- 2   1 -1- 2   2 -1- 3                                 *)
(* Shortest distances: 0, 1, 2, 3, none.  Node 2 is first reached over the *)
(* heavy edge from 0, so a stale request for it can pull from node 1.      *)
(***************************************************************************)
MCSymNode == 0..4

MCSymAdj ==
  [n \in MCSymNode |->
     CASE n = 0 -> << <<1, 1>>, <<2, 3>> >>
       [] n = 1 -> << <<0, 1>>, <<2, 1>> >>
       [] n = 2 -> << <<0, 3>>, <<1, 1>>, <<3, 1>> >>
       [] n = 3 -> << <<2, 1>> >>
       [] n = 4 -> << >>]

=============================================================================
