---------------------------- MODULE DistGraphSend ----------------------------
(***************************************************************************)
(* The edge-routing step of dist-graph-convert (dist-graph-convert-        *)
(* helpers.h): every host tells every other host how many of its loaded    *)
(* edges that host owns (sendEdgeCounts / receiveEdgeCounts), then sends   *)
(* them (sendAssignedEdges) while the owner receives them                  *)
(* (receiveAssignedEdges) until the announced number has arrived.          *)
(*                                                                         *)
(* In sendAssignedEdges every thread walks its block of the host's edges   *)
(* in order and keeps, per destination host, a vector of destinations of  *)
(* one source (lastSourceSent, a local ID of the owner); a change of       *)
(* source serializes the vector with its global source ID into the send    *)
(* buffer, which is sent once it exceeds SendLimit bytes; the cleanup      *)
(* pass serializes and sends what is left.  Edges of the host's own nodes  *)
(* go straight to localSrcToDest under the node's lock.  One step is one   *)
(* loop iteration of one thread; the void and the uint32_t edge-data       *)
(* variants differ only in carrying data, so EdgeData selects the variant. *)
(***************************************************************************)
EXTENDS Integers, Sequences, FiniteSets, SequencesExt, BagsExt

CONSTANTS
  NumHosts,     \* net.Num
  Threads,      \* the threads of every host
  HostToNodes,  \* HostToNodes[h] = <<first, last>>: h owns nodes first..last-1
  Work,         \* Work[h][t]: the edges <<src, dst, data>> thread t of host h
                \* handles in the do_all, in order (static blocks, no stealing)
  EdgeData,     \* FALSE: EdgeDataTy is void; TRUE: uint32_t edge data
  SendLimit     \* the send-buffer flush threshold in bytes (1400)

Hosts == 0..(NumHosts - 1)

ASSUME NumHosts \in Nat \ {0}
ASSUME \A h \in Hosts : HostToNodes[h][1] <= HostToNodes[h][2]
ASSUME EdgeData \in BOOLEAN /\ SendLimit \in Nat

VARIABLES
  phase,       \* phase[h]: "counts", "recvCounts", "pass2", "cleanup", "sent"
  countNet,    \* countNet[h]: bag of edge counts sent to h, not yet received
  countsGot,   \* countsGot[h]: how many counts receiveEdgeCounts has taken
  toReceive,   \* toReceive[h]: edgesToReceive, the edges h still waits for
  pos,         \* pos[h][t]: edges thread t of host h has handled
  dstVec,      \* dstVec[h][t][o]: <<dst, data>> of the batch for host o
  lastSent,    \* lastSent[h][t][o]: lastSourceSent for host o (a local ID)
  buf,         \* buf[h][t][o]: the send buffer for o: a sequence of batches
  cleanIdx,    \* cleanIdx[h][t]: the next host of t's cleanup loop
  net,         \* net[o]: bag of edge messages in flight to o
  recv         \* recv[o]: localSrcToDest(/Data) of o as a bag of edges

vars == <<phase, countNet, countsGot, toReceive, pos, dstVec, lastSent, buf,
          cleanIdx, net, recv>>

Node == UNION {HostToNodes[h][1]..(HostToNodes[h][2] - 1) : h \in Hosts}
Datum == UNION {{Work[h][t][i][3] : i \in 1..Len(Work[h][t])} : h \in Hosts, t \in Threads}
Edge == Node \X Node \X Datum

\* A serialized vector: the global source ID and its <<dst, data>> pairs.
Batch == [src : Node, dsts : Seq(Node \X Datum)]

(***************************************************************************)
(* findOwner: the host whose node range holds gID (the code returns -1,   *)
(* i.e. 2^32 - 1, when there is none).                                    *)
(***************************************************************************)
NoOwner == -1  \* stands for 2^32 - 1, beyond TLC's integers; no index equals it

FindOwner(gID) ==
  IF \E h \in Hosts : HostToNodes[h][1] <= gID /\ gID < HostToNodes[h][2]
  THEN CHOOSE h \in Hosts : HostToNodes[h][1] <= gID /\ gID < HostToNodes[h][2]
  ELSE NoOwner

\* gSerialize of (globalSourceID, dstVector[, dataVector]): a uint64 ID,
\* and per vector a uint64 length and 4 bytes per element.
BatchBytes(b) ==
  IF EdgeData THEN 8 + 2 * (8 + 4 * Len(b.dsts)) ELSE 8 + 8 + 4 * Len(b.dsts)

RECURSIVE BufBytes(_)
BufBytes(s) == IF s = <<>> THEN 0 ELSE BatchBytes(Head(s)) + BufBytes(Tail(s))

\* The edges a message (or a buffer, or a batch) stands for.
BatchEdges(b) == [i \in 1..Len(b.dsts) |-> <<b.src, b.dsts[i][1], b.dsts[i][2]>>]
MsgEdges(m) == FoldLeft(LAMBDA acc, b : acc \o BatchEdges(b), <<>>, m)

TypeOK ==
  /\ phase \in [Hosts -> {"counts", "recvCounts", "pass2", "cleanup", "sent"}]
  /\ \A h \in Hosts : IsABag(countNet[h]) /\ BagToSet(countNet[h]) \subseteq Nat
  /\ countsGot \in [Hosts -> 0..(NumHosts - 1)]
  /\ toReceive \in [Hosts -> Nat]
  /\ \A h \in Hosts : \A t \in Threads : pos[h][t] \in 0..Len(Work[h][t])
  /\ \A h \in Hosts : \A t \in Threads : \A o \in Hosts :
       /\ dstVec[h][t][o] \in Seq(Node \X Datum)
       /\ lastSent[h][t][o] \in 0..(HostToNodes[o][2] - HostToNodes[o][1] - 1)
       /\ buf[h][t][o] \in Seq(Batch)
  /\ \A h \in Hosts : \A t \in Threads : cleanIdx[h][t] \in 0..NumHosts
  /\ \A o \in Hosts : IsABag(net[o]) /\ IsABag(recv[o])
  /\ \A o \in Hosts : BagToSet(recv[o]) \subseteq Edge

\* The converter's state when sendEdgeCounts is called: every
\* lastSourceSent is 0 (the on_each initialization), nothing is buffered.
Init ==
  /\ phase = [h \in Hosts |-> "counts"]
  /\ countNet = [h \in Hosts |-> EmptyBag]
  /\ countsGot = [h \in Hosts |-> 0]
  /\ toReceive = [h \in Hosts |-> 0]
  /\ pos = [h \in Hosts |-> [t \in Threads |-> 0]]
  /\ dstVec = [h \in Hosts |-> [t \in Threads |-> [o \in Hosts |-> <<>>]]]
  /\ lastSent = [h \in Hosts |-> [t \in Threads |-> [o \in Hosts |-> 0]]]
  /\ buf = [h \in Hosts |-> [t \in Threads |-> [o \in Hosts |-> <<>>]]]
  /\ cleanIdx = [h \in Hosts |-> [t \in Threads |-> 0]]
  /\ net = [o \in Hosts |-> EmptyBag]
  /\ recv = [o \in Hosts |-> EmptyBag]

(***************************************************************************)
(* sendEdgeCounts and receiveEdgeCounts                                    *)
(***************************************************************************)

\* Mutant: the edges are counted by the owner of their destination.
NumEdgesPerHost_ByDst(h, o) ==
  MapThenSumSet(LAMBDA t : Len(SelectSeq(Work[h][t], LAMBDA e : FindOwner(e[2]) = o)),
                Threads)

\* getNumEdges / the EdgeInspection loop: how many of h's loaded edges
\* findOwner assigns to host o.
NumEdgesPerHost(h, o) ==
  MapThenSumSet(LAMBDA t : Len(SelectSeq(Work[h][t], LAMBDA e : FindOwner(e[1]) = o)),
                Threads)

\* sendEdgeCounts: h sends numEdgesPerHost[o] to every other host o.
SendEdgeCounts(h) ==
  /\ phase[h] = "counts"
  /\ countNet' = [o \in Hosts |-> IF o = h THEN countNet[o]
                                  ELSE BagAdd(countNet[o], NumEdgesPerHost(h, o))]
  /\ phase' = [phase EXCEPT ![h] = IF NumHosts = 1 THEN "pass2" ELSE "recvCounts"]
  /\ UNCHANGED <<countsGot, toReceive, pos, dstVec, lastSent, buf, cleanIdx, net, recv>>

\* receiveEdgeCounts: h adds up one count per other host; the sum becomes
\* edgesToReceive and pass 2 begins.
ReceiveEdgeCount(h) ==
  /\ phase[h] = "recvCounts"
  /\ \E c \in BagToSet(countNet[h]) :
       /\ countNet' = [countNet EXCEPT ![h] = BagRemove(@, c)]
       /\ toReceive' = [toReceive EXCEPT ![h] = @ + c]
  /\ countsGot' = [countsGot EXCEPT ![h] = @ + 1]
  /\ phase' = [phase EXCEPT ![h] = IF countsGot[h] + 1 = NumHosts - 1
                                   THEN "pass2" ELSE "recvCounts"]
  /\ UNCHANGED <<pos, dstVec, lastSent, buf, cleanIdx, net, recv>>

(***************************************************************************)
(* sendAssignedEdges                                                       *)
(***************************************************************************)

\* Mutant: the local ID is the global ID (the owner's first node is not
\* subtracted).
LocalID_NoBase(e) == e[1]

\* uint32_t localID = src - hostToNodes[edgeOwner].first.
LocalID(e) == e[1] - HostToNodes[FindOwner(e[1])][1]

\* Mutant: the batch is labelled with the local ID, not the global one.
OpenBatch_LocalID(h, t, o) ==
  [src |-> lastSent[h][t][o], dsts |-> dstVec[h][t][o]]

\* The batch of dstVector[o]: its destinations under the global ID of
\* lastSourceSent.
OpenBatch(h, t, o) ==
  [src |-> lastSent[h][t][o] + HostToNodes[o][1], dsts |-> dstVec[h][t][o]]

\* The send buffer after serializing dstVector[o], if it holds anything.
Serialized(h, t, o) ==
  IF Len(dstVec[h][t][o]) > 0 THEN Append(buf[h][t][o], OpenBatch(h, t, o))
  ELSE buf[h][t][o]

\* One iteration of the Pass2 do_all of thread t on host h.
Pass2Edge(h, t) ==
  /\ phase[h] = "pass2"
  /\ pos[h][t] < Len(Work[h][t])
  /\ pos' = [pos EXCEPT ![h][t] = @ + 1]
  /\ LET e       == Work[h][t][pos[h][t] + 1]
         o       == FindOwner(e[1])
         localID == LocalID(e)
         item    == <<e[2], e[3]>>
     IN IF o # h
        THEN IF lastSent[h][t][o] = localID
             THEN /\ dstVec' = [dstVec EXCEPT ![h][t][o] = Append(@, item)]
                  /\ UNCHANGED <<lastSent, buf, net, recv>>
             ELSE LET sb   == Serialized(h, t, o)
                      full == Len(dstVec[h][t][o]) > 0 /\ BufBytes(sb) > SendLimit
                  IN /\ buf' = [buf EXCEPT ![h][t][o] = IF full THEN <<>> ELSE sb]
                     /\ net' = IF full THEN [net EXCEPT ![o] = BagAdd(@, sb)] ELSE net
                     /\ dstVec' = [dstVec EXCEPT ![h][t][o] = <<item>>]
                     /\ lastSent' = [lastSent EXCEPT ![h][t][o] = localID]
                     /\ UNCHANGED recv
        ELSE /\ recv' = [recv EXCEPT ![h] = BagAdd(@, e)]
             /\ UNCHANGED <<dstVec, lastSent, buf, net>>
  /\ UNCHANGED <<phase, countNet, countsGot, toReceive, cleanIdx>>

\* The do_all returns when every thread has handled its block.
EndPass2(h) ==
  /\ phase[h] = "pass2"
  /\ \A t \in Threads : pos[h][t] = Len(Work[h][t])
  /\ phase' = [phase EXCEPT ![h] = "cleanup"]
  /\ UNCHANGED <<countNet, countsGot, toReceive, pos, dstVec, lastSent, buf,
                 cleanIdx, net, recv>>

\* Mutant: the cleanup sends a buffer only once it is over the limit, as
\* pass 2 does.
Cleanup_OnlyFull(h, t) ==
  /\ phase[h] = "cleanup"
  /\ cleanIdx[h][t] < NumHosts
  /\ cleanIdx' = [cleanIdx EXCEPT ![h][t] = @ + 1]
  /\ LET o  == cleanIdx[h][t]
         sb == Serialized(h, t, o)
     IN IF o = h \/ BufBytes(sb) <= SendLimit
        THEN UNCHANGED <<dstVec, buf, net>>
        ELSE /\ dstVec' = [dstVec EXCEPT ![h][t][o] = <<>>]
             /\ buf' = [buf EXCEPT ![h][t][o] = <<>>]
             /\ net' = [net EXCEPT ![o] = BagAdd(@, sb)]
  /\ UNCHANGED <<phase, countNet, countsGot, toReceive, pos, lastSent, recv>>

\* One iteration of thread t's cleanup loop (Pass2Cleanup), for host
\* cleanIdx: serialize dstVector if non-empty, send the buffer if non-empty.
Cleanup(h, t) ==
  /\ phase[h] = "cleanup"
  /\ cleanIdx[h][t] < NumHosts
  /\ cleanIdx' = [cleanIdx EXCEPT ![h][t] = @ + 1]
  /\ LET o  == cleanIdx[h][t]
         sb == Serialized(h, t, o)
     IN IF o = h
        THEN UNCHANGED <<dstVec, buf, net>>
        ELSE /\ dstVec' = [dstVec EXCEPT ![h][t][o] = <<>>]
             /\ buf' = [buf EXCEPT ![h][t][o] = <<>>]
             /\ net' = IF sb # <<>> THEN [net EXCEPT ![o] = BagAdd(@, sb)] ELSE net
  /\ UNCHANGED <<phase, countNet, countsGot, toReceive, pos, lastSent, recv>>

\* The on_each returns when every thread has run its cleanup loop.
EndCleanup(h) ==
  /\ phase[h] = "cleanup"
  /\ \A t \in Threads : cleanIdx[h][t] = NumHosts
  /\ phase' = [phase EXCEPT ![h] = "sent"]
  /\ UNCHANGED <<countNet, countsGot, toReceive, pos, dstVec, lastSent, buf,
                 cleanIdx, net, recv>>

(***************************************************************************)
(* receiveAssignedEdges: from pass 2 on, h takes edge messages and        *)
(* appends their edges to localSrcToDest until edgesToReceive is 0.       *)
(***************************************************************************)
ReceiveAssigned(h) ==
  /\ phase[h] \in {"pass2", "cleanup", "sent"}
  /\ toReceive[h] > 0
  /\ \E m \in BagToSet(net[h]) :
       /\ net' = [net EXCEPT ![h] = BagRemove(@, m)]
       /\ recv' = [recv EXCEPT ![h] = @ (+) ToBag(MsgEdges(m))]
       /\ toReceive' = [toReceive EXCEPT ![h] = @ - Len(MsgEdges(m))]
  /\ UNCHANGED <<phase, countNet, countsGot, pos, dstVec, lastSent, buf, cleanIdx>>

\* The receive loop polls an empty network while edges are still due.
ReceivePoll(h) ==
  /\ phase[h] \in {"pass2", "cleanup", "sent"}
  /\ toReceive[h] > 0
  /\ net[h] = EmptyBag
  /\ UNCHANGED vars

\* Every host has sent everything and received everything it expects.
Done ==
  /\ \A h \in Hosts : phase[h] = "sent" /\ toReceive[h] = 0
  /\ UNCHANGED vars

Next ==
  \/ \E h \in Hosts :
       \/ SendEdgeCounts(h) \/ ReceiveEdgeCount(h)
       \/ EndPass2(h) \/ EndCleanup(h)
       \/ ReceiveAssigned(h) \/ ReceivePoll(h)
       \/ \E t \in Threads : Pass2Edge(h, t) \/ Cleanup(h, t)
  \/ Done

\* Threads and hosts run preemptively and MPI delivers every message: each
\* enabled step of a thread, of a host's control flow and of a receiver is
\* eventually taken.
Fairness ==
  \A h \in Hosts :
    /\ WF_vars(SendEdgeCounts(h)) /\ WF_vars(ReceiveEdgeCount(h))
    /\ WF_vars(EndPass2(h)) /\ WF_vars(EndCleanup(h))
    /\ WF_vars(ReceiveAssigned(h))
    /\ \A t \in Threads : WF_vars(Pass2Edge(h, t) \/ Cleanup(h, t))

Spec == Init /\ [][Next]_vars /\ Fairness

(***************************************************************************)
(* Properties                                                              *)
(***************************************************************************)

\* How often edge e occurs in a sequence of edges.
Occ(s, e) == Len(SelectSeq(s, LAMBDA x : x = e))

HT == Hosts \X Threads

\* Copies of e that thread ht[2] of host ht[1] has not handled yet.
Remaining(ht, e) ==
  Occ(SubSeq(Work[ht[1]][ht[2]], pos[ht[1]][ht[2]] + 1, Len(Work[ht[1]][ht[2]])), e)

\* Copies of e not yet handled by the pass-2 loops, on any host.
Unsent(e) == MapThenSumSet(LAMBDA ht : Remaining(ht, e), HT)

\* Copies of e in a dstVector or a send buffer for host o, read with the
\* source ID the batch is (or will be) serialized with.
Buffered(o, e) ==
  MapThenSumSet(LAMBDA ht : Occ(MsgEdges(Serialized(ht[1], ht[2], o)), e), HT)

\* Copies of e in messages in flight to o.
InFlight(o, e) ==
  MapThenSumSet(LAMBDA m : net[o][m] * Occ(MsgEdges(m), e), BagToSet(net[o]))

\* Copies of e in the loaded edge lists of all hosts.
Loaded(e) == MapThenSumSet(LAMBDA ht : Occ(Work[ht[1]][ht[2]], e), HT)

\* The edges anything can say about host o: those loaded anywhere and
\* those held for o, in transit to o or delivered to o.  For any other
\* edge every count below is 0.
LoadedSet == UNION {Range(Work[ht[1]][ht[2]]) : ht \in HT}
Present(o) ==
  LoadedSet \cup BagToSet(recv[o])
  \cup UNION {Range(MsgEdges(m)) : m \in BagToSet(net[o])}
  \cup UNION {Range(MsgEdges(Serialized(ht[1], ht[2], o))) : ht \in HT}

\* Edge conservation: every loaded edge reaches localSrcToDest of the host
\* that owns its source exactly once, under its own source and with its
\* own data, and no host ever holds an edge it does not own.  At every
\* moment each copy is in exactly one place: still unsent, in a thread's
\* dstVector (labelled by lastSourceSent) or send buffer, on the network,
\* or delivered.  Wrong batching (a stale lastSourceSent, a vector
\* serialized twice or cleared unsent) breaks it in a few steps.
EdgeConservation ==
  \A o \in Hosts : \A e \in Present(o) :
    CopiesIn(e, recv[o]) + InFlight(o, e) + Buffered(o, e)
      + (IF FindOwner(e[1]) = o THEN Unsent(e) ELSE 0)
    = IF FindOwner(e[1]) = o THEN Loaded(e) ELSE 0

\* The counts agree with the edges: once h has added up the counts of
\* sendEdgeCounts, edgesToReceive is exactly the number of h's edges from
\* other hosts that have not yet arrived, so the receive loop neither
\* stops early nor waits for edges that never come.
CountsAgree ==
  \A h \in Hosts : phase[h] \in {"pass2", "cleanup", "sent"} =>
    toReceive[h] =
      MapThenSumSet(LAMBDA e :
          InFlight(h, e) + Buffered(h, e)
          + MapThenSumSet(LAMBDA ht : Remaining(ht, e), (Hosts \ {h}) \X Threads),
        {e \in Present(h) : FindOwner(e[1]) = h})

\* The routing refines AbstractRouting: a step either stores some of a
\* host's own, not yet stored edges in its localSrcToDest, or lets a host
\* whose sendAssignedEdges returned and whose edgesToReceive is 0 finish,
\* and it finishes only holding every edge it owns.  A receive loop that
\* returns early (wrong counts) or a host that leaves the Pass2 do_all
\* before all its threads are done breaks it.
Routing == INSTANCE AbstractRouting
             WITH Owner <- LAMBDA e : FindOwner(e[1]),
                  AllLoaded <- [e \in LoadedSet |-> Loaded(e)],
                  delivered <- recv,
                  finished <- {h \in Hosts : phase[h] = "sent" /\ toReceive[h] = 0}
RoutingSpec == Routing!Spec

\* Every host eventually sends all its edges and receives all it expects,
\* so every receiveAssignedEdges returns.
Termination == <>(\A h \in Hosts : phase[h] = "sent" /\ toReceive[h] = 0)

====
