---------------------------- MODULE AbstractSSSP ----------------------------
(***************************************************************************)
(* What every SSSP variant of FifoSSSP.cpp promises, whatever its work     *)
(* list and relaxation protocol (spec section 3 and 8): distances only     *)
(* ever decrease, never below the true shortest distance, and the run      *)
(* ends only when every node holds its shortest distance (DIST_INFINITY    *)
(* for an unreachable one).                                                *)
(***************************************************************************)
EXTENDS SSSPGraph

VARIABLES
  dist,   \* the distance of every node
  done    \* the run has ended

vars == <<dist, done>>

Init ==
  /\ dist = [n \in Node |-> IF n = Source THEN 0 ELSE INF]
  /\ done = FALSE

\* Some node gets a smaller distance that is still no shorter than a path.
Improve ==
  /\ ~done
  /\ \E n \in Node :
       /\ TrueDist[n] # NoPath
       /\ \E d \in TrueDist[n]..(dist[n] - 1) : dist' = [dist EXCEPT ![n] = d]
  /\ UNCHANGED done

\* The run ends with the shortest distances.
Finish ==
  /\ ~done
  /\ \A n \in Node : dist[n] = ExpectedDist(n)
  /\ done' = TRUE
  /\ UNCHANGED dist

Next == Improve \/ Finish

Spec == Init /\ [][Next]_vars

=============================================================================
