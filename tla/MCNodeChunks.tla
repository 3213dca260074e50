---------------------------- MODULE MCNodeChunks ----------------------------
(***************************************************************************)
(* Instances of NodeChunks: two hosts of two threads, edge data.          *)
(***************************************************************************)
EXTENDS NodeChunks

\* uint32_t edge data (three words per edge): six edges per host on four
\* nodes, 12 / 2 = 6 chunks halved to 3 by a cap of 5 (the cap stands for
\* 10000000), of ceil(4 / 3) = 2 nodes: <<0, 2>>, <<2, 4>> and the empty
\* <<4, 4>>.  Host 0's data and destinations lie in chunk 0 while most of
\* its sources lie in chunk 1, so a misread layout shows.
MCEdges ==
  (0 :> <<0, 2, 1,  3, 0, 5,  1, 3, 0,  2, 1, 4,  3, 3, 6,  2, 2, 7>>) @@
  (1 :> <<2, 0, 3,  0, 1, 2,  3, 2, 1,  1, 3, 0,  2, 2, 5,  0, 3, 8>>)

\* Three hosts and two edges: 2 \div 3 = 0 chunks.
MCEdgesFew ==
  (0 :> <<0, 1>>) @@ (1 :> <<3, 2>>) @@ (2 :> <<>>)

====
