---------------------------- MODULE AsyncSetSSSP ----------------------------
(***************************************************************************)
(* AsyncSetAlgo<UseCas> of FifoSSSP.cpp (the asyncBlind... and             *)
(* asyncWithCasBlind... algorithms): work items are bare nodes, no empty- *)
(* work gate discards anything, and relaxEdge reads the source's current   *)
(* distance for every edge.                                                *)
(* With UseSet the work list is wrapped in a work-set (MSet, HSet or OSet: *)
(* marking bit, two-level hash or two-level ordered set), which drops a    *)
(* push of a node that is already in the set; a pop removes the node from  *)
(* the queue and then clears its membership before the edges are relaxed.  *)
(* The three work-sets differ only in how membership is stored, so one     *)
(* membership flag inSet[n] stands for all of them.                        *)
(***************************************************************************)
EXTENDS SSSPGraph, Bags, BagsExt, FiniteSets

CONSTANTS
  Threads,    \* worker threads
  UseCas,     \* template parameter UseCas
  UseSet,     \* the work list is MSet / HSet / OSet (or ObimMSet / ...)
  NoOwner     \* model value: a node lock nobody holds

VARIABLES
  dist,       \* dist[n]: SetNode::dist
  inSet,      \* inSet[n]: n is a member of the work-set (SetNode::inSet)
  queue,      \* the work list under the set: a bag of nodes
  phase,      \* "init" (do_all), "run" (for_each_local), "done"
  initTodo,   \* indices of the source's out-edges no thread has taken yet
  lockOwner,  \* lockOwner[n]: the iteration holding n's lock (UseCas = FALSE)
  pc,         \* pc[t]: where thread t is in relaxNode / relaxEdge
  cur,        \* cur[t]: the node thread t is relaxing (req)
  edge,       \* edge[t]: index of the out-edge of cur[t] being relaxed
  newDist,    \* newDist[t]: local newDist of relaxEdge
  oldDist     \* oldDist[t]: local oldDist of relaxEdge

vars == <<dist, inSet, queue, phase, initTodo, lockOwner, pc, cur, edge,
          newDist, oldDist>>

PC == {"idle", "unmark", "load", "read", "cas"}

TypeOK ==
  /\ dist \in [Node -> Dist]
  /\ inSet \in [Node -> BOOLEAN]
  /\ IsABag(queue) /\ BagToSet(queue) \subseteq Node
  /\ phase \in {"init", "run", "done"}
  /\ initTodo \subseteq 1..Degree(Source)
  /\ lockOwner \in [Node -> Threads \cup {NoOwner}]
  /\ pc \in [Threads -> PC]
  /\ cur \in [Threads -> Node]
  /\ \A t \in Threads : pc[t] \in {"load", "read", "cas"} => edge[t] \in 1..Degree(cur[t])
  /\ newDist \in [Threads -> Dist]
  /\ oldDist \in [Threads -> Dist]

\* Initialize sets dist to DIST_INFINITY and inSet to false; the driver
\* then stores 0 into the source.
Init ==
  /\ dist = [n \in Node |-> IF n = Source THEN 0 ELSE INF]
  /\ inSet = [n \in Node |-> FALSE]
  /\ queue = EmptyBag
  /\ phase = "init"
  /\ initTodo = 1..Degree(Source)
  /\ lockOwner = [n \in Node |-> NoOwner]
  /\ pc = [t \in Threads |-> "idle"]
  /\ cur = [t \in Threads |-> Source]
  /\ edge = [t \in Threads |-> 0]
  /\ newDist = [t \in Threads |-> 0]
  /\ oldDist = [t \in Threads |-> 0]

Dst(t) == EdgeDst(cur[t], edge[t])

\* Thread t leaves relaxNode: the iteration commits and drops its lock.
Finish(t) ==
  /\ pc' = [pc EXCEPT ![t] = "idle"]
  /\ lockOwner' = IF UseCas THEN lockOwner
                  ELSE [n \in Node |-> IF lockOwner[n] = t THEN NoOwner ELSE lockOwner[n]]

\* Mutant: the edge loop runs one edge past edge_end.
ToEdge_PastEnd(t, k) ==
  IF phase = "run" /\ k <= Degree(cur[t]) + 1
  THEN /\ pc' = [pc EXCEPT ![t] = "load"]
       /\ edge' = [edge EXCEPT ![t] = k]
       /\ UNCHANGED lockOwner
  ELSE /\ Finish(t)
       /\ UNCHANGED edge

\* The for loop of relaxNode moves to out-edge k; a do_all iteration of
\* InitialProcess relaxes one edge and returns.
ToEdge(t, k) ==
  IF phase = "run" /\ k <= Degree(cur[t])
  THEN /\ pc' = [pc EXCEPT ![t] = "load"]
       /\ edge' = [edge EXCEPT ![t] = k]
       /\ UNCHANGED lockOwner
  ELSE /\ Finish(t)
       /\ UNCHANGED edge

\* pusher.push(dst): into the initial bag during do_all; into the work
\* list during for_each, where a work-set drops a node already in the set.
PushNode(n) ==
  IF phase = "run" /\ UseSet
  THEN IF inSet[n]
       THEN UNCHANGED <<inSet, queue>>
       ELSE /\ inSet' = [inSet EXCEPT ![n] = TRUE]
            /\ queue' = BagAdd(queue, n)
  ELSE /\ queue' = BagAdd(queue, n)
       /\ UNCHANGED inSet

InitialProcess(t) ==
  /\ phase = "init"
  /\ pc[t] = "idle"
  /\ \E k \in initTodo :
       /\ initTodo' = initTodo \ {k}
       /\ cur' = [cur EXCEPT ![t] = Source]
       /\ edge' = [edge EXCEPT ![t] = k]
       /\ pc' = [pc EXCEPT ![t] = "load"]
  /\ UNCHANGED <<dist, inSet, queue, phase, lockOwner, newDist, oldDist>>

\* for_each_local hands the initial bag to the work list; a work-set
\* admits each node once and marks it.
StartRun ==
  /\ phase = "init"
  /\ initTodo = {}
  /\ \A t \in Threads : pc[t] = "idle"
  /\ phase' = "run"
  /\ IF UseSet
     THEN /\ queue' = SetToBag(BagToSet(queue))
          /\ inSet' = [n \in Node |-> n \in BagToSet(queue)]
     ELSE UNCHANGED <<queue, inSet>>
  /\ UNCHANGED <<dist, initTodo, lockOwner, pc, cur, edge, newDist, oldDist>>

\* A worker pops a node; with UseCas = FALSE getData(req, WRITE) takes its
\* lock (a held lock is a conflict: the node stays queued).  With a
\* work-set, the membership is cleared in a second step.
Pop(t) ==
  /\ phase = "run"
  /\ pc[t] = "idle"
  /\ \E n \in BagToSet(queue) :
       /\ UseCas \/ lockOwner[n] = NoOwner
       /\ queue' = BagRemove(queue, n)
       /\ cur' = [cur EXCEPT ![t] = n]
       /\ LET held == IF UseCas THEN lockOwner ELSE [lockOwner EXCEPT ![n] = t]
          IN CASE UseSet ->
                    /\ pc' = [pc EXCEPT ![t] = "unmark"]
                    /\ lockOwner' = held
                    /\ UNCHANGED edge
               [] Degree(n) = 0 ->
                    /\ pc' = [pc EXCEPT ![t] = "idle"]
                    /\ UNCHANGED <<edge, lockOwner>>
               [] OTHER ->
                    /\ pc' = [pc EXCEPT ![t] = "load"]
                    /\ edge' = [edge EXCEPT ![t] = 1]
                    /\ lockOwner' = held
  /\ UNCHANGED <<dist, inSet, phase, initTodo, newDist, oldDist>>

\* The work-set pop clears the node's membership; the edge loop begins.
Unmark(t) ==
  /\ pc[t] = "unmark"
  /\ inSet' = [inSet EXCEPT ![cur[t]] = FALSE]
  /\ ToEdge(t, 1)
  /\ UNCHANGED <<dist, queue, phase, initTodo, cur, newDist, oldDist>>

\* relaxEdge: Dist newDist = sdata.dist + d.
Load(t) ==
  /\ pc[t] = "load"
  /\ newDist' = [newDist EXCEPT ![t] = DistAdd(dist[cur[t]], EdgeW(cur[t], edge[t]))]
  /\ pc' = [pc EXCEPT ![t] = "read"]
  /\ UNCHANGED <<dist, inSet, queue, phase, initTodo, lockOwner, cur, edge, oldDist>>

\* while (newDist < (oldDist = ddata.dist)).
Read(t) ==
  /\ pc[t] = "read"
  /\ oldDist' = [oldDist EXCEPT ![t] = dist[Dst(t)]]
  /\ IF newDist[t] < dist[Dst(t)]
     THEN /\ pc' = [pc EXCEPT ![t] = "cas"]
          /\ UNCHANGED <<edge, lockOwner>>
     ELSE ToEdge(t, edge[t] + 1)
  /\ UNCHANGED <<dist, inSet, queue, phase, initTodo, cur, newDist>>

\* ddata.dist holds newDist; BadWork is counted; pusher.push(dst); break.
Improved(t) ==
  /\ dist' = [dist EXCEPT ![Dst(t)] = newDist[t]]
  /\ PushNode(Dst(t))
  /\ ToEdge(t, edge[t] + 1)

\* if (!UseCas || __sync_bool_compare_and_swap(&ddata.dist, oldDist,
\* newDist)): no CAS (ddata.dist = newDist follows) or a CAS that succeeds.
CasSucceed(t) ==
  /\ pc[t] = "cas"
  /\ ~UseCas \/ dist[Dst(t)] = oldDist[t]
  /\ Improved(t)
  /\ UNCHANGED <<phase, initTodo, cur, newDist, oldDist>>

\* Mutant: the CAS is written with `if` instead of `while`.
CasFail_GiveUp(t) ==
  /\ UseCas
  /\ pc[t] = "cas"
  /\ dist[Dst(t)] # oldDist[t]
  /\ ToEdge(t, edge[t] + 1)
  /\ UNCHANGED <<dist, inSet, queue, phase, initTodo, cur, newDist, oldDist>>

\* Mutant: the retry loop never refreshes the expected value.
CasFail_NoReread(t) ==
  /\ UseCas
  /\ pc[t] = "cas"
  /\ dist[Dst(t)] # oldDist[t]
  /\ UNCHANGED vars

\* The strong CAS fails only when ddata.dist changed; the test re-reads.
CasFail(t) ==
  /\ UseCas
  /\ pc[t] = "cas"
  /\ dist[Dst(t)] # oldDist[t]
  /\ pc' = [pc EXCEPT ![t] = "read"]
  /\ UNCHANGED <<dist, inSet, queue, phase, initTodo, lockOwner, cur, edge,
                 newDist, oldDist>>

Quiescent == queue = EmptyBag /\ \A t \in Threads : pc[t] = "idle"

\* Mutant: termination is declared as soon as the work list is empty.
Terminate_Early ==
  /\ phase = "run"
  /\ queue = EmptyBag
  /\ phase' = "done"
  /\ UNCHANGED <<dist, inSet, queue, initTodo, lockOwner, pc, cur, edge, newDist, oldDist>>

\* for_each_local returns: the work list is empty and no thread is active.
Terminate ==
  /\ phase = "run"
  /\ Quiescent
  /\ phase' = "done"
  /\ UNCHANGED <<dist, inSet, queue, initTodo, lockOwner, pc, cur, edge, newDist, oldDist>>

\* After for_each_local the driver only verifies and reports.
Done ==
  /\ phase = "done"
  /\ UNCHANGED vars

Step(t) ==
  \/ InitialProcess(t)
  \/ Pop(t)
  \/ Unmark(t)
  \/ Load(t)
  \/ Read(t)
  \/ CasSucceed(t)
  \/ CasFail(t)

Next ==
  \/ \E t \in Threads : Step(t)
  \/ StartRun
  \/ Terminate
  \/ Done

\* Preemptively scheduled OS threads: every runnable step is eventually
\* taken.  The __sync CAS has no spurious failure.
Fairness ==
  /\ \A t \in Threads : WF_vars(Step(t))
  /\ WF_vars(StartRun)
  /\ WF_vars(Terminate)

Spec == Init /\ [][Next]_vars /\ Fairness

(***************************************************************************)
(* Properties                                                              *)
(***************************************************************************)

Unrelaxed(n, k) ==
  /\ dist[n] # INF
  /\ DistAdd(dist[n], EdgeW(n, k)) < dist[EdgeDst(n, k)]

\* Work still to be done relaxes out-edge k of n with dist[n] or less: n is
\* queued, or a thread has popped n and not yet loaded sdata.dist for edge
\* k, or loaded the current dist[n] for it; or (the source) the do_all
\* iteration for edge k has not finished.
Pending(n, k) ==
  \/ CopiesIn(n, queue) > 0
  \/ \E t \in Threads :
       /\ cur[t] = n
       /\ \/ pc[t] = "unmark"
          \/ phase = "run" /\ pc[t] # "idle" /\ edge[t] < k
          \/ edge[t] = k /\ pc[t] = "load"
          \/ /\ edge[t] = k /\ pc[t] \in {"read", "cas"}
             /\ newDist[t] = DistAdd(dist[n], EdgeW(n, k))
  \/ phase = "init" /\ n = Source /\ k \in initTodo

\* No lost relaxation: an edge that could still lower its destination is
\* covered by live work.  With a work-set this rests on the order of the
\* pop: a push dropped because the node is still a member is safe only
\* because the popper clears the membership before it reads sdata.dist.
NoLostRelaxation ==
  \A n \in Node : \A k \in 1..Degree(n) : Unrelaxed(n, k) => Pending(n, k)

\* run(): once the algorithm returns, verify() accepts its distances;
\* otherwise the driver dies with "Verification failed".
VerifySucceeds == phase = "done" => Verify(dist)

\* The run refines the abstract SSSP specification.
Abs == INSTANCE AbstractSSSP WITH done <- (phase = "done")
AbsSpec == Abs!Spec

\* for_each_local eventually returns.
Termination == <>(phase = "done")

=============================================================================
