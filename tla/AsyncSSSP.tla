------------------------------ MODULE AsyncSSSP ------------------------------
(***************************************************************************)
(* AsyncAlgo<UseCas> of FifoSSSP.cpp (algorithms async, asyncFifo,         *)
(* asyncWithCas, asyncWithCasFifo): work items are UpdateRequests          *)
(* <<n, w>>, a worker discards a request whose w is no longer dist[n]      *)
(* (empty work) and otherwise relaxes the out-edges of n, pushing          *)
(* <<dst, newDist>> for every improvement.                                 *)
(*                                                                         *)
(* Every shared-memory access of relaxNode/relaxEdge is one step, so the   *)
(* threads interleave exactly as far as the atomics allow.  The work list  *)
(* (OBIM or dChunkedFIFO) is a bag from which any request may be popped:   *)
(* OBIM promises only approximate order, and with several threads any      *)
(* order is possible.  With UseCas = FALSE the runtime's conflict          *)
(* detection locks the node of the request (MethodFlag::WRITE) but not the *)
(* destination (MethodFlag::UNPROTECTED).                                  *)
(***************************************************************************)
EXTENDS SSSPGraph, Bags, BagsExt, FiniteSets

CONSTANTS
  Threads,    \* worker threads
  UseCas,     \* template parameter UseCas
  NoOwner     \* model value: a node lock nobody holds

VARIABLES
  dist,       \* dist[n]: the atomic Dist of SNode
  wl,         \* the work list (initial bag, then OBIM / FIFO): a bag of requests
  phase,      \* "init" (do_all over the source's edges), "run" (for_each), "done"
  initTodo,   \* indices of the source's out-edges no thread has taken yet
  lockOwner,  \* lockOwner[n]: the iteration holding n's lock (UseCas = FALSE)
  pc,         \* pc[t]: where thread t is in relaxNode / relaxEdge
  req,        \* req[t]: the request thread t is processing
  edge,       \* edge[t]: index of the out-edge of req[t][1] being relaxed
  newDist,    \* newDist[t]: local newDist of relaxEdge
  oldDist     \* oldDist[t]: local oldDist of relaxEdge

vars == <<dist, wl, phase, initTodo, lockOwner, pc, req, edge, newDist, oldDist>>

Request == Node \X Dist
PC == {"idle", "check", "load", "read", "cas"}

TypeOK ==
  /\ dist \in [Node -> Dist]
  /\ IsABag(wl) /\ BagToSet(wl) \subseteq Request
  /\ phase \in {"init", "run", "done"}
  /\ initTodo \subseteq 1..Degree(Source)
  /\ lockOwner \in [Node -> Threads \cup {NoOwner}]
  /\ pc \in [Threads -> PC]
  /\ req \in [Threads -> Request]
  /\ edge \in [Threads -> Nat]
  /\ \A t \in Threads : pc[t] # "idle" => edge[t] \in 1..Degree(req[t][1])
  /\ newDist \in [Threads -> Dist]
  /\ oldDist \in [Threads -> Dist]

\* do_all_local(Initialize) sets every dist to DIST_INFINITY, then the
\* driver stores 0 into the source and hands the source's edges to do_all.
Init ==
  /\ dist = [n \in Node |-> IF n = Source THEN 0 ELSE INF]
  /\ wl = EmptyBag
  /\ phase = "init"
  /\ initTodo = 1..Degree(Source)
  /\ lockOwner = [n \in Node |-> NoOwner]
  /\ pc = [t \in Threads |-> "idle"]
  /\ req = [t \in Threads |-> <<Source, 0>>]
  /\ edge = [t \in Threads |-> 0]
  /\ newDist = [t \in Threads |-> 0]
  /\ oldDist = [t \in Threads |-> 0]

Dst(t) == EdgeDst(req[t][1], edge[t])

\* Thread t leaves relaxNode: the iteration commits and drops its lock.
Finish(t) ==
  /\ pc' = [pc EXCEPT ![t] = "idle"]
  /\ lockOwner' = IF UseCas THEN lockOwner
                  ELSE [n \in Node |-> IF lockOwner[n] = t THEN NoOwner ELSE lockOwner[n]]

\* Mutant: the edge loop runs one edge past edge_end.
ToEdge_PastEnd(t, k) ==
  IF phase = "run" /\ k <= Degree(req[t][1]) + 1
  THEN /\ pc' = [pc EXCEPT ![t] = "check"]
       /\ edge' = [edge EXCEPT ![t] = k]
       /\ UNCHANGED lockOwner
  ELSE /\ Finish(t)
       /\ UNCHANGED edge

\* The for loop of relaxNode moves to out-edge k of the request's node.
\* A do_all iteration of InitialProcess relaxes one edge and returns.
ToEdge(t, k) ==
  IF phase = "run" /\ k <= Degree(req[t][1])
  THEN /\ pc' = [pc EXCEPT ![t] = "check"]
       /\ edge' = [edge EXCEPT ![t] = k]
       /\ UNCHANGED lockOwner
  ELSE /\ Finish(t)
       /\ UNCHANGED edge

\* InitialProcess: a do_all iteration takes out-edge k of the source and
\* calls relaxEdge with the source's distance.
InitialProcess(t) ==
  /\ phase = "init"
  /\ pc[t] = "idle"
  /\ \E k \in initTodo :
       /\ initTodo' = initTodo \ {k}
       /\ req' = [req EXCEPT ![t] = <<Source, 0>>]
       /\ edge' = [edge EXCEPT ![t] = k]
       /\ pc' = [pc EXCEPT ![t] = "load"]
  /\ UNCHANGED <<dist, wl, phase, lockOwner, newDist, oldDist>>

\* do_all returns once every source edge is relaxed; for_each_local then
\* starts on the initial bag.
StartRun ==
  /\ phase = "init"
  /\ initTodo = {}
  /\ \A t \in Threads : pc[t] = "idle"
  /\ phase' = "run"
  /\ UNCHANGED <<dist, wl, initTodo, lockOwner, pc, req, edge, newDist, oldDist>>

\* A worker pops a request and enters relaxNode: it takes the request
\* node's lock when UseCas = FALSE (a held lock is a conflict and the
\* request stays in the work list), then the empty-work gate reads sdist.
Pop(t) ==
  /\ phase = "run"
  /\ pc[t] = "idle"
  /\ \E r \in BagToSet(wl) :
       /\ UseCas \/ lockOwner[r[1]] = NoOwner
       /\ wl' = BagRemove(wl, r)
       /\ req' = [req EXCEPT ![t] = r]
       /\ IF r[2] # dist[r[1]]
          THEN /\ pc' = [pc EXCEPT ![t] = "idle"]
               /\ UNCHANGED <<lockOwner, edge>>
          ELSE LET held == IF UseCas THEN lockOwner
                           ELSE [lockOwner EXCEPT ![r[1]] = t]
               IN IF Degree(r[1]) = 0
                  THEN /\ pc' = [pc EXCEPT ![t] = "idle"]
                       /\ UNCHANGED <<lockOwner, edge>>
                  ELSE /\ pc' = [pc EXCEPT ![t] = "check"]
                       /\ edge' = [edge EXCEPT ![t] = 1]
                       /\ lockOwner' = held
  /\ UNCHANGED <<dist, phase, initTodo, newDist, oldDist>>

\* Top of the edge loop: if (req.w != sdist) break.
Check(t) ==
  /\ pc[t] = "check"
  /\ IF req[t][2] # dist[req[t][1]]
     THEN /\ Finish(t)
     ELSE /\ pc' = [pc EXCEPT ![t] = "load"]
          /\ UNCHANGED lockOwner
  /\ UNCHANGED <<dist, wl, phase, initTodo, req, edge, newDist, oldDist>>

\* relaxEdge is passed sdist by value: Dist newDist = sdist + d.
Load(t) ==
  /\ pc[t] = "load"
  /\ newDist' = [newDist EXCEPT ![t] =
                   DistAdd(dist[req[t][1]], EdgeW(req[t][1], edge[t]))]
  /\ pc' = [pc EXCEPT ![t] = "read"]
  /\ UNCHANGED <<dist, wl, phase, initTodo, lockOwner, req, edge, oldDist>>

\* while (newDist < (oldDist = ddata)): the loop test reads ddata.
Read(t) ==
  /\ pc[t] = "read"
  /\ oldDist' = [oldDist EXCEPT ![t] = dist[Dst(t)]]
  /\ IF newDist[t] < dist[Dst(t)]
     THEN /\ pc' = [pc EXCEPT ![t] = "cas"]
          /\ UNCHANGED <<edge, lockOwner>>
     ELSE ToEdge(t, edge[t] + 1)
  /\ UNCHANGED <<dist, wl, phase, initTodo, req, newDist>>

\* Success of the loop body: ddata now holds newDist, BadWork is counted
\* if oldDist was finite, and <<dst, newDist>> is pushed; break.
Improved(t) ==
  /\ dist' = [dist EXCEPT ![Dst(t)] = newDist[t]]
  /\ wl' = BagAdd(wl, <<Dst(t), newDist[t]>>)
  /\ ToEdge(t, edge[t] + 1)

\* Mutant: the CAS is written with `if` instead of `while`; a failed CAS
\* gives up on the edge.
CasFail_GiveUp(t) ==
  /\ UseCas
  /\ pc[t] = "cas"
  /\ ToEdge(t, edge[t] + 1)
  /\ UNCHANGED <<dist, wl, phase, initTodo, req, newDist, oldDist>>

\* Mutant: the retry loop never refreshes the expected value.
CasFail_NoReread(t) ==
  /\ UseCas
  /\ pc[t] = "cas"
  /\ UNCHANGED vars

\* if (!UseCas || ddata.compare_exchange_weak(oldDist, newDist)): either
\* no CAS at all (ddata = newDist follows) or a CAS that succeeds.
CasSucceed(t) ==
  /\ pc[t] = "cas"
  /\ ~UseCas \/ dist[Dst(t)] = oldDist[t]
  /\ Improved(t)
  /\ UNCHANGED <<phase, initTodo, req, newDist, oldDist>>

\* UseCas: compare_exchange_weak fails, because ddata changed or
\* spuriously; the while test reads ddata again.
CasFail(t) ==
  /\ UseCas
  /\ pc[t] = "cas"
  /\ pc' = [pc EXCEPT ![t] = "read"]
  /\ UNCHANGED <<dist, wl, phase, initTodo, lockOwner, req, edge, newDist, oldDist>>

Quiescent == wl = EmptyBag /\ \A t \in Threads : pc[t] = "idle"

\* Mutant: termination is declared as soon as the work list is empty,
\* while a worker may still be inside the operator.
Terminate_Early ==
  /\ phase = "run"
  /\ wl = EmptyBag
  /\ phase' = "done"
  /\ UNCHANGED <<dist, wl, initTodo, lockOwner, pc, req, edge, newDist, oldDist>>

\* for_each_local returns when the work list is empty and no thread is
\* inside the operator.
Terminate ==
  /\ phase = "run"
  /\ Quiescent
  /\ phase' = "done"
  /\ UNCHANGED <<dist, wl, initTodo, lockOwner, pc, req, edge, newDist, oldDist>>

\* After for_each_local the driver only verifies and reports.
Done ==
  /\ phase = "done"
  /\ UNCHANGED vars

Step(t) ==
  \/ InitialProcess(t)
  \/ Pop(t)
  \/ Check(t)
  \/ Load(t)
  \/ Read(t)
  \/ CasSucceed(t)
  \/ CasFail(t)

Next ==
  \/ \E t \in Threads : Step(t)
  \/ StartRun
  \/ Terminate
  \/ Done

(***************************************************************************)
(* Threads are OS threads, preemptively scheduled: each runnable thread    *)
(* eventually takes its next step (weak fairness).  compare_exchange_weak  *)
(* may fail spuriously, but not forever while the value stays equal        *)
(* (strong fairness of its success).                                       *)
(***************************************************************************)
Fairness ==
  /\ \A t \in Threads :
       /\ WF_vars(InitialProcess(t) \/ Pop(t) \/ Check(t) \/ Load(t)
                  \/ Read(t) \/ CasFail(t))
       /\ IF UseCas THEN SF_vars(CasSucceed(t)) ELSE WF_vars(CasSucceed(t))
  /\ WF_vars(StartRun)
  /\ WF_vars(Terminate)

Spec == Init /\ [][Next]_vars /\ Fairness

(***************************************************************************)
(* Properties                                                              *)
(***************************************************************************)

\* Out-edge k of n could still lower its destination: what relaxEdge would
\* do with dist[n] now.
Unrelaxed(n, k) ==
  /\ dist[n] # INF
  /\ DistAdd(dist[n], EdgeW(n, k)) < dist[EdgeDst(n, k)]

\* Some work still to be done will relax out-edge k of n with dist[n]: the
\* request <<n, dist[n]>> waits in the work list, a thread holding it has
\* not got past edge k, or (the source) a do_all iteration for edge k has
\* not finished.
Pending(n, k) ==
  \/ CopiesIn(<<n, dist[n]>>, wl) > 0
  \/ \E t \in Threads :
       /\ pc[t] # "idle"
       /\ req[t] = <<n, dist[n]>>
       /\ \/ phase = "run" /\ edge[t] <= k
          \/ edge[t] = k
  \/ phase = "init" /\ n = Source /\ k \in initTodo

\* No lost relaxation: whenever an edge could still improve its
\* destination, the request that will relax it is still live.  This is
\* what makes the push after every successful CAS, the empty-work gate and
\* the in-loop re-check of relaxNode safe together; a lost push, a CAS
\* retry that gives up, or a store that overwrites a smaller distance
\* breaks it long before the run ends.
NoLostRelaxation ==
  \A n \in Node : \A k \in 1..Degree(n) : Unrelaxed(n, k) => Pending(n, k)

\* run(): once the algorithm returns, verify() accepts its distances;
\* otherwise the driver dies with "Verification failed".
VerifySucceeds == phase = "done" => Verify(dist)

\* No underestimate: a reached node's distance is never below its true
\* shortest distance (spec section 7: a sum that would pass
\* DIST_INFINITY must saturate, never wrap).
NoUnderestimate ==
  \A n \in Node : dist[n] # INF => TrueDist[n] # NoPath /\ dist[n] >= TrueDist[n]

\* The run refines the abstract SSSP specification: every step lowers at
\* most one distance to a value no shorter than a real path, and
\* for_each_local returns only with the shortest distances.
Abs == INSTANCE AbstractSSSP WITH done <- (phase = "done")
AbsSpec == Abs!Spec

\* Termination (spec invariant 4): for_each_local eventually returns.
Termination == <>(phase = "done")

=============================================================================
