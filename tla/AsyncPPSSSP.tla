---------------------------- MODULE AsyncPPSSSP ----------------------------
(***************************************************************************)
(* AsyncAlgoPP of FifoSSSP.cpp (algorithm asyncPP): UpdateRequest work     *)
(* items, the empty-work gate, CAS relaxation, and a "pull" folded into    *)
(* the push loop.  The worker copies the source's distance into a local    *)
(* sdist once; when an edge does not improve its destination, sdist is     *)
(* lowered to the destination's distance plus the edge's weight, and later *)
(* edges are relaxed from that lowered sdist.  The pull write-back is      *)
(* commented out in the code and is not modelled.                          *)
(***************************************************************************)
EXTENDS SSSPGraph, Bags, BagsExt, FiniteSets

CONSTANTS
  Threads     \* worker threads

VARIABLES
  dist,       \* dist[n]: the atomic Dist of SNode
  wl,         \* the work list (initial bag, then OBIM): a bag of requests
  phase,      \* "init" (do_all), "run" (for_each_local), "done"
  initTodo,   \* indices of the source's out-edges no thread has taken yet
  pc,         \* pc[t]: where thread t is in Process / relaxEdge
  req,        \* req[t]: the request thread t is processing
  edge,       \* edge[t]: index of the out-edge of req[t][1] being relaxed
  sdist,      \* sdist[t]: Process's local copy of the source distance
  newDist,    \* newDist[t]: local newDist of relaxEdge
  oldDist     \* oldDist[t]: local oldDist of relaxEdge

vars == <<dist, wl, phase, initTodo, pc, req, edge, sdist, newDist, oldDist>>

Request == Node \X Dist

\* "read": the first test of relaxEdge (its else branch pulls);
\* "cas": the compare_exchange_weak; "reread": the do-while test.
PC == {"idle", "read", "cas", "reread"}

TypeOK ==
  /\ dist \in [Node -> Dist]
  /\ IsABag(wl) /\ BagToSet(wl) \subseteq Request
  /\ phase \in {"init", "run", "done"}
  /\ initTodo \subseteq 1..Degree(Source)
  /\ pc \in [Threads -> PC]
  /\ req \in [Threads -> Request]
  /\ \A t \in Threads : pc[t] # "idle" => edge[t] \in 1..Degree(req[t][1])
  /\ sdist \in [Threads -> Dist]
  /\ newDist \in [Threads -> Dist]
  /\ oldDist \in [Threads -> Dist]

Init ==
  /\ dist = [n \in Node |-> IF n = Source THEN 0 ELSE INF]
  /\ wl = EmptyBag
  /\ phase = "init"
  /\ initTodo = 1..Degree(Source)
  /\ pc = [t \in Threads |-> "idle"]
  /\ req = [t \in Threads |-> <<Source, 0>>]
  /\ edge = [t \in Threads |-> 0]
  /\ sdist = [t \in Threads |-> 0]
  /\ newDist = [t \in Threads |-> 0]
  /\ oldDist = [t \in Threads |-> 0]

Src(t) == req[t][1]
Dst(t) == EdgeDst(Src(t), edge[t])
W(t)   == EdgeW(Src(t), edge[t])

\* Mutant: the edge loop runs one edge past edge_end.
ToEdge_PastEnd(t, k) ==
  IF phase = "run" /\ k <= Degree(Src(t)) + 1
  THEN /\ pc' = [pc EXCEPT ![t] = "read"]
       /\ edge' = [edge EXCEPT ![t] = k]
  ELSE /\ pc' = [pc EXCEPT ![t] = "idle"]
       /\ UNCHANGED edge

\* The edge loop of Process moves to out-edge k (there is no re-check of
\* the request inside the loop); a do_all iteration relaxes one edge.
ToEdge(t, k) ==
  IF phase = "run" /\ k <= Degree(Src(t))
  THEN /\ pc' = [pc EXCEPT ![t] = "read"]
       /\ edge' = [edge EXCEPT ![t] = k]
  ELSE /\ pc' = [pc EXCEPT ![t] = "idle"]
       /\ UNCHANGED edge

\* InitialProcess: Dist d = 0; relaxEdge(graph, d, ii, bag).
InitialProcess(t) ==
  /\ phase = "init"
  /\ pc[t] = "idle"
  /\ \E k \in initTodo :
       /\ initTodo' = initTodo \ {k}
       /\ req' = [req EXCEPT ![t] = <<Source, 0>>]
       /\ edge' = [edge EXCEPT ![t] = k]
       /\ sdist' = [sdist EXCEPT ![t] = 0]
       /\ pc' = [pc EXCEPT ![t] = "read"]
  /\ UNCHANGED <<dist, wl, phase, newDist, oldDist>>

StartRun ==
  /\ phase = "init"
  /\ initTodo = {}
  /\ \A t \in Threads : pc[t] = "idle"
  /\ phase' = "run"
  /\ UNCHANGED <<dist, wl, initTodo, pc, req, edge, sdist, newDist, oldDist>>

\* Process: pop a request, Dist sdist = psdist, and the empty-work gate.
Pop(t) ==
  /\ phase = "run"
  /\ pc[t] = "idle"
  /\ \E r \in BagToSet(wl) :
       /\ wl' = BagRemove(wl, r)
       /\ req' = [req EXCEPT ![t] = r]
       /\ sdist' = [sdist EXCEPT ![t] = dist[r[1]]]
       /\ IF r[2] # dist[r[1]] \/ Degree(r[1]) = 0
          THEN /\ pc' = [pc EXCEPT ![t] = "idle"]
               /\ UNCHANGED edge
          ELSE /\ pc' = [pc EXCEPT ![t] = "read"]
               /\ edge' = [edge EXCEPT ![t] = 1]
  /\ UNCHANGED <<dist, phase, initTodo, newDist, oldDist>>

\* Mutant: the pull forgets the edge weight: sdata = min(oldDist, sdata).
Read_PullNoWeight(t) ==
  /\ pc[t] = "read"
  /\ LET nd == DistAdd(sdist[t], W(t))
     IN /\ newDist' = [newDist EXCEPT ![t] = nd]
        /\ oldDist' = [oldDist EXCEPT ![t] = dist[Dst(t)]]
        /\ IF nd < dist[Dst(t)]
           THEN /\ pc' = [pc EXCEPT ![t] = "cas"]
                /\ UNCHANGED <<edge, sdist>>
           ELSE /\ sdist' = [sdist EXCEPT ![t] =
                               IF dist[Dst(t)] < sdist[t] THEN dist[Dst(t)] ELSE sdist[t]]
                /\ ToEdge(t, edge[t] + 1)
  /\ UNCHANGED <<dist, wl, phase, initTodo, req>>

\* relaxEdge: newDist = sdata + d; if (newDist < (oldDist = ddata.dist))
\* go to the CAS loop, else pull: sdata = std::min(oldDist + d, sdata).
Read(t) ==
  /\ pc[t] = "read"
  /\ LET nd == DistAdd(sdist[t], W(t))
         pulled == DistAdd(dist[Dst(t)], W(t))
     IN /\ newDist' = [newDist EXCEPT ![t] = nd]
        /\ oldDist' = [oldDist EXCEPT ![t] = dist[Dst(t)]]
        /\ IF nd < dist[Dst(t)]
           THEN /\ pc' = [pc EXCEPT ![t] = "cas"]
                /\ UNCHANGED <<edge, sdist>>
           ELSE /\ sdist' = [sdist EXCEPT ![t] =
                               IF pulled < sdist[t] THEN pulled ELSE sdist[t]]
                /\ ToEdge(t, edge[t] + 1)
  /\ UNCHANGED <<dist, wl, phase, initTodo, req>>

\* compare_exchange_weak succeeds: BadWork, push <<dst, newDist>>, break.
CasSucceed(t) ==
  /\ pc[t] = "cas"
  /\ dist[Dst(t)] = oldDist[t]
  /\ dist' = [dist EXCEPT ![Dst(t)] = newDist[t]]
  /\ wl' = BagAdd(wl, <<Dst(t), newDist[t]>>)
  /\ ToEdge(t, edge[t] + 1)
  /\ UNCHANGED <<phase, initTodo, req, sdist, newDist, oldDist>>

\* Mutant: the CAS is written with `if` instead of `do ... while`.
CasFail_GiveUp(t) ==
  /\ pc[t] = "cas"
  /\ ToEdge(t, edge[t] + 1)
  /\ UNCHANGED <<dist, wl, phase, initTodo, req, sdist, newDist, oldDist>>

\* Mutant: the retry loop never refreshes the expected value.
CasFail_NoReread(t) ==
  /\ pc[t] = "cas"
  /\ UNCHANGED vars

\* compare_exchange_weak fails (ddata changed, or spuriously).
CasFail(t) ==
  /\ pc[t] = "cas"
  /\ pc' = [pc EXCEPT ![t] = "reread"]
  /\ UNCHANGED <<dist, wl, phase, initTodo, req, edge, sdist, newDist, oldDist>>

\* while (newDist < (oldDist = ddata.dist)): retry, or leave relaxEdge
\* without pulling.
Reread(t) ==
  /\ pc[t] = "reread"
  /\ oldDist' = [oldDist EXCEPT ![t] = dist[Dst(t)]]
  /\ IF newDist[t] < dist[Dst(t)]
     THEN /\ pc' = [pc EXCEPT ![t] = "cas"]
          /\ UNCHANGED edge
     ELSE ToEdge(t, edge[t] + 1)
  /\ UNCHANGED <<dist, wl, phase, initTodo, req, sdist, newDist>>

Quiescent == wl = EmptyBag /\ \A t \in Threads : pc[t] = "idle"

\* for_each_local returns: the work list is empty and no thread is active.
Terminate ==
  /\ phase = "run"
  /\ Quiescent
  /\ phase' = "done"
  /\ UNCHANGED <<dist, wl, initTodo, pc, req, edge, sdist, newDist, oldDist>>

\* After for_each_local the driver only verifies and reports.
Done ==
  /\ phase = "done"
  /\ UNCHANGED vars

Step(t) ==
  \/ InitialProcess(t)
  \/ Pop(t)
  \/ Read(t)
  \/ CasSucceed(t)
  \/ CasFail(t)
  \/ Reread(t)

Next ==
  \/ \E t \in Threads : Step(t)
  \/ StartRun
  \/ Terminate
  \/ Done

\* Preemptive threads; compare_exchange_weak does not fail spuriously
\* forever.
Fairness ==
  /\ \A t \in Threads :
       /\ WF_vars(InitialProcess(t) \/ Pop(t) \/ Read(t) \/ CasFail(t) \/ Reread(t))
       /\ SF_vars(CasSucceed(t))
  /\ WF_vars(StartRun)
  /\ WF_vars(Terminate)

Spec == Init /\ [][Next]_vars /\ Fairness

(***************************************************************************)
(* Properties                                                              *)
(***************************************************************************)

Unrelaxed(n, k) ==
  /\ dist[n] # INF
  /\ DistAdd(dist[n], EdgeW(n, k)) < dist[EdgeDst(n, k)]

\* A thread relaxing n's edges from a local sdist no larger than dist[n]
\* has not got past edge k.
Covers(t, n, k) ==
  /\ pc[t] # "idle"
  /\ Src(t) = n
  /\ sdist[t] <= dist[n]
  /\ \/ phase = "run" /\ edge[t] < k
     \/ edge[t] = k /\ pc[t] = "read"
     \/ /\ edge[t] = k /\ pc[t] \in {"cas", "reread"}
        /\ newDist[t] <= DistAdd(dist[n], EdgeW(n, k))

\* No lost relaxation: an edge that could still lower its destination is
\* covered by a queued request <<n, dist[n]>>, by a thread that will still
\* relax it, or by a do_all iteration of the source not yet finished.
NoLostRelaxation ==
  \A n \in Node : \A k \in 1..Degree(n) :
    Unrelaxed(n, k) =>
      \/ CopiesIn(<<n, dist[n]>>, wl) > 0
      \/ \E t \in Threads : Covers(t, n, k)
      \/ phase = "init" /\ n = Source /\ k \in initTodo

\* A reached node's distance is never below its true shortest distance:
\* every distance the pull produces is the length of a real path.
NoUnderestimate ==
  \A n \in Node : dist[n] # INF => TrueDist[n] # NoPath /\ dist[n] >= TrueDist[n]

\* The run refines the abstract SSSP specification.
Abs == INSTANCE AbstractSSSP WITH done <- (phase = "done")
AbsSpec == Abs!Spec

\* for_each_local eventually returns.
Termination == <>(phase = "done")

=============================================================================
