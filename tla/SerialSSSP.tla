----------------------------- MODULE SerialSSSP -----------------------------
(***************************************************************************)
(* SerialAlgo of FifoSSSP.cpp (algorithm serial): a label-correcting loop  *)
(* over a std::set<UpdateRequest> ordered by (w, n).  Each iteration takes *)
(* the least request, erases it, and if its w beats the node's distance    *)
(* stores it and inserts <<dst, w + d>> for every out-edge that would      *)
(* improve its destination.  One step of the model is one iteration of    *)
(* the while loop: the code is sequential, so nothing interleaves inside   *)
(* it.                                                                     *)
(***************************************************************************)
EXTENDS SSSPGraph

VARIABLES
  dist,     \* dist[n]: SNode::dist
  initial,  \* the std::set of pending UpdateRequests <<n, w>>
  phase     \* "run" (inside the while loop) or "done" (algo returned)

vars == <<dist, initial, phase>>

TypeOK ==
  /\ dist \in [Node -> Dist]
  /\ initial \subseteq Node \X Dist
  /\ phase \in {"run", "done"}

\* UpdateRequestCommon::operator<: by w, ties broken by the node.
ReqLess(a, b) == a[2] < b[2] \/ (a[2] = b[2] /\ a[1] < b[1])

\* Mutant: the set is ordered the wrong way round (std::greater).
MinReq_Reversed(S) == CHOOSE r \in S : \A o \in S \ {r} : ReqLess(o, r)

\* *initial.begin(): the least request of the set.
MinReq(S) == CHOOSE r \in S : \A o \in S \ {r} : ReqLess(r, o)

\* edge_begin(req.n) .. edge_end(req.n).
OutEdges(n) == 1..Degree(n)

\* The requests the edge loop inserts for req, against the distances d
\* that already hold data.dist = req.w.
Pushes(req, d) ==
  LET n == req[1] IN
  { <<EdgeDst(n, k), DistAdd(req[2], EdgeW(n, k))>> :
      k \in { j \in OutEdges(n) : DistAdd(req[2], EdgeW(n, j)) < d[EdgeDst(n, j)] } }

\* do_all_local(Initialize) sets every distance to DIST_INFINITY; the
\* algorithm then starts from the set { <<src, 0>> }.
Init ==
  /\ dist = [n \in Node |-> INF]
  /\ initial = {<<Source, 0>>}
  /\ phase = "run"

\* Mutant: the gate if (req.w < data.dist) is left out.
Iterate_NoGate ==
  /\ phase = "run"
  /\ initial # {}
  /\ LET req  == MinReq(initial)
         upd  == [dist EXCEPT ![req[1]] = req[2]]
     IN /\ dist' = upd
        /\ initial' = (initial \ {req}) \cup Pushes(req, upd)
  /\ UNCHANGED phase

\* Mutant: the request is read but never erased from the set.
Iterate_NoErase ==
  /\ phase = "run"
  /\ initial # {}
  /\ LET req == MinReq(initial) IN
       IF req[2] < dist[req[1]]
       THEN LET upd == [dist EXCEPT ![req[1]] = req[2]]
            IN /\ dist' = upd
               /\ initial' = initial \cup Pushes(req, upd)
       ELSE UNCHANGED <<dist, initial>>
  /\ UNCHANGED phase

\* One iteration of while (!initial.empty()): take and erase the least
\* request; if it beats data.dist, store it and relax every out-edge.
Iterate ==
  /\ phase = "run"
  /\ initial # {}
  /\ LET req == MinReq(initial) IN
       IF req[2] < dist[req[1]]
       THEN LET upd == [dist EXCEPT ![req[1]] = req[2]]
            IN /\ dist' = upd
               /\ initial' = (initial \ {req}) \cup Pushes(req, upd)
       ELSE /\ initial' = initial \ {req}
            /\ UNCHANGED dist
  /\ UNCHANGED phase

\* The set is empty: operator() returns to run().
Terminate ==
  /\ phase = "run"
  /\ initial = {}
  /\ phase' = "done"
  /\ UNCHANGED <<dist, initial>>

\* After the algorithm the driver only verifies and reports.
Done ==
  /\ phase = "done"
  /\ UNCHANGED vars

Next == Iterate \/ Terminate \/ Done

\* A single thread runs the loop: it always takes its next step.
Spec == Init /\ [][Next]_vars /\ WF_vars(Iterate \/ Terminate)

(***************************************************************************)
(* Properties                                                              *)
(***************************************************************************)

\* Label setting: because the set hands out requests in order of w and
\* weights are non-negative, the first distance SerialAlgo stores for a
\* node is already its shortest one and no later iteration changes it.
\* A wrong comparator, or a wrapped sum, makes a later iteration lower it.
SettledOnce ==
  [][\A n \in Node : dist[n] # INF => dist'[n] = dist[n]]_dist

\* The serial run refines the abstract SSSP specification.  Before its
\* first iteration the source still holds DIST_INFINITY; the mapping shows
\* it as 0, the value that iteration stores and that nothing can lower.
Abs == INSTANCE AbstractSSSP
         WITH dist <- [n \in Node |-> IF n = Source THEN 0 ELSE dist[n]],
              done <- (phase = "done")
AbsSpec == Abs!Spec

\* The while loop ends: the set eventually runs empty.
Termination == <>(phase = "done")

=============================================================================
