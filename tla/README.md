# TLA+ models of the katana SSSP engine and the distributed graph converter

This directory holds TLA+ models of the two source files of this repository:

- `src/exp/apps/sssp/FifoSSSP.cpp`: the parallel single-source shortest-path
  (SSSP) algorithms and their driver;
- `src/tools/dist-graph-convert/dist-graph-convert-helpers.h`: the helpers of
  the distributed edge-list-to-gr converter.

The models are written from the code. Where code the algorithms rely on is not
under `src/` (the Galois runtime's work lists and work-sets, and `Dist`/
`UpdateRequest` of `SSSP.h`), it is modelled from `spec.md` and marked
`spec_modelled` in `PROJECT.json`. Every run is listed in `PROJECT.json`, and
every property of a passing run has a mutant there: a plausible bug in the
modelled code that TLC shows the property catches.

## 1. The system

### 1.1 SSSP (`FifoSSSP.cpp`)

`main` picks an algorithm with `--algo`. `run<Algo>` then works in this order:

1. It reads the graph.
2. It sets every `dist` to `DIST_INFINITY` (`Initialize`).
3. It calls the algorithm.
4. Unless `skipVerify` is set, it calls `verify()` and dies with
   "Verification failed" if that returns false.

`verify()` accepts a result only under two conditions:

- the source holds 0;
- no reached node `n` has an out-edge `n -> m` with `dist[m] > dist[n] + w`.

`not_consistent` performs that second test in unsigned `Dist` arithmetic.

The concurrent algorithms share one shape:

1. The driver stores 0 into the source.
2. A `do_all` over the source's out-edges runs `relaxEdge` from the source
   into an `InsertBag` (the initial frontier).
3. `for_each_local` runs a worker operator over a work list (OBIM, or
   dChunkedFIFO) until the list is empty and no worker is active.

| Algorithm (C++) | `--algo` values | work item | relaxation |
|---|---|---|---|
| `AsyncAlgo<UseCas>` | async, asyncFifo, asyncWithCas, asyncWithCasFifo | `UpdateRequest <<n, w>>` | the empty-work gate `req.w != sdist`, re-checked on every edge; then `relaxEdge` with a `compare_exchange_weak` loop (UseCas), or a test followed by a plain store |
| `AsyncSetAlgo<UseCas>` | asyncBlind…, asyncWithCasBlind… | a node | no gate; `relaxEdge` reads `sdata.dist` afresh on every edge; `__sync_bool_compare_and_swap`, or a test and store. The work list is optionally wrapped in a work-set (MSet/HSet/OSet) that drops a push of a node already in the set |
| `AsyncAlgoPP` | asyncPP | `UpdateRequest` | a gate on a local copy `sdist`; an `if` + `do … while` CAS; when an edge does not improve its destination, a "pull" `sdata = min(oldDist + d, sdata)` lowers the local `sdist` |
| `SerialAlgo` | serial | `std::set` of requests, ordered by (w, n) | sequential: take and erase the least request; if `req.w < data.dist`, store it and insert `<<dst, req.w + d>>` for each out-edge that would improve `dst` |

When UseCas is false, the operator takes the request node with
`MethodFlag::WRITE`. The Galois conflict detection therefore locks that node
for the whole iteration. The destination node is read and written
`UNPROTECTED`.

### 1.2 dist-graph-convert helpers

Each host of an MPI job takes part in the following steps:

1. It loads a byte range of an edge list (`loadEdgesFromEdgeList`).
2. It splits the nodes into `totalEdgeCount / numHosts` chunks.
3. It counts the edges of each chunk and exchanges those counts
   (`getChunkEdgeCounts`).
4. It turns the counts into a node-to-host mapping
   (`getEvenNodeToHostMapping`).
5. It tells every other host how many edges to expect (`sendEdgeCounts`).
6. It sends each remote edge to the edge's owner (`sendAssignedEdges`):
   - every thread keeps, for each destination host, a vector of
     destinations;
   - each vector belongs to one source (`lastSourceSent`);
   - a vector is serialized into a send buffer when the source changes;
   - a buffer is sent once it passes 1400 bytes;
   - a final cleanup pass serializes and sends whatever remains.
7. It keeps local edges in `localSrcToDest`, under a lock per node.

`receiveAssignedEdges`, `findOwner`, `getChunkToHostMapping` and the MPI
writers are only declared in `src/`; their bodies are not in the repository.

## 2. Modules

| Module | Models | State | Actions |
|---|---|---|---|
| `SSSPGraph` | the input graph, `Dist` arithmetic, `verify()` | constants `Node`, `Source`, `Adj`, `DistBits` | operators: `DistAdd` (wraps modulo 2^DistBits), `EdgeDst`/`EdgeW`/`Degree`, `NotConsistent`/`Verify` (verify and not_consistent), and the reference `TrueDist` (a RECURSIVE Bellman-Ford over unbounded integers) |
| `AbstractSSSP` | what every variant promises (spec §3, §8) | `dist`, `done` | `Improve` lowers one distance to a value no shorter than a real path; `Finish` ends the run with the true distances |
| `AsyncSSSP` | `AsyncAlgo<UseCas>` | `dist`, work-list bag `wl`, `phase`, the do_all edges left `initTodo`, node locks `lockOwner`, and per thread `pc`, `req`, `edge`, `newDist`, `oldDist` | `InitialProcess`, `StartRun`, `Pop` (pop, lock, gate), `Check` (in-loop re-check), `Load` (`newDist = sdist + d`), `Read` (loop test), `CasSucceed` (`!UseCas \|\| CAS` succeeds: the store and push), `CasFail`, `Terminate`, `Done` |
| `AsyncSetSSSP` | `AsyncSetAlgo<UseCas>` and the work-sets | as above, with node work items `queue`, the membership `inSet` and `cur` for `req` | as above plus `Unmark` (the work-set pop clears membership) and `PushNode` (a push the set may drop) |
| `AsyncPPSSSP` | `AsyncAlgoPP` | as `AsyncSSSP`, plus the local `sdist` | `Pop` (copies sdist, gate), `Read` (first test, or the pull), `CasSucceed`, `CasFail`, `Reread` (the do-while test), `Terminate`, `Done` |
| `DistGraphSend` | `sendEdgeCounts`, `receiveEdgeCounts`, both `sendAssignedEdges` templates, `receiveAssignedEdges` | per host `phase`, `countsGot`, `toReceive` (`edgesToReceive`); per host and thread `pos` (the loop index), and per destination host `dstVec` (`dstVector` with `dataVector`), `lastSent` (`lastSourceSent`), `buf` (`sendBuffers`), `cleanIdx` (the cleanup loop); the networks `countNet` and `net` (bags of messages) and `recv` (the bag of edges in `localSrcToDest`/`localSrcToData`) | `SendEdgeCounts`, `ReceiveEdgeCount`, `Pass2Edge` (one iteration of the edge loop), `EndPass2`, `Cleanup` (one iteration of the cleanup loop), `EndCleanup`, `ReceiveAssigned` (one message), `ReceivePoll` |
| `AbstractRouting` | what the edge routing promises | `delivered` (per host, the bag of edges it holds), `finished` | `Deliver` (some of a host's outstanding edges arrive; it may return in the same step), `Finish` (a host holding all its edges returns) |
| `NodeChunks` | `getEvenNodeToHostMapping` up to `getChunkToHostMapping`: `findUniqueSourceNodes`, `findUniqueChunks`, `accumulateLocalEdgesToChunks`, `getChunkEdgeCounts`, `sendAndReceiveEdgeChunkCounts` | per host `pc`, `numChunks` (`numNodeChunks`), `chunkToNode`, `uniqueChunks`, `mapKeys` (the keys of `chunkToAccumulator`), `acc` (its accumulators), `chunkCounts`, `got`; per thread `edgeIdx` (the do_all iteration); `net` (counts in flight) and the flag `racyInsert` | `Start` (chunk count, halving, chunks, unique sources and chunks, accumulators), `AccumulateEdge` (one ChunkInspection iteration, with its assertion), `EndAccumulate` (reduce, send counts), `ReceiveCounts`, `WaitCounts` (an empty poll), `FinishCounts` (prefix sum, sentinel), `Done` |
| `SerialSSSP` | `SerialAlgo` | `dist`, the set `initial`, `phase` | `Iterate` (one while iteration: take the least request, gate, store, inserts), `Terminate` (the set is empty), `Done` |
| `SSSPEquivalence` | `run<SerialAlgo>` beside `run<AsyncAlgo<UseCas>>` on the same graph | the variables of both, the serial ones renamed `sdist`, `initial`, `sphase` | a step of either run (`INSTANCE AsyncSSSP`, `INSTANCE SerialSSSP WITH ...`) |
| `MCGraphs` | test graphs | – | – |
| `MCAsyncSSSP`, `MCAsyncSetSSSP`, `MCAsyncPPSSSP`, `MCSSSPEquivalence`, `MCDistGraphSend`, `MCDistGraphSend3`, `MCNodeChunks` | model-checking instances | threads as model values | – |

Each algorithm module states its own abstraction `Abs == INSTANCE AbstractSSSP
WITH done <- (phase = "done")` and checks `AbsSpec == Abs!Spec` as a property.
`SerialAlgo` starts with the source at `DIST_INFINITY` and stores 0 in its
first iteration, so its mapping shows the source as 0 from the start; that
first iteration is a stutter of the abstract spec.

`DistGraphSend` states `Routing == INSTANCE AbstractRouting` and checks
`RoutingSpec == Routing!Spec`. The mapping takes `delivered` to `recv`, the
owner of an edge to `findOwner` of its source, and `finished` to the hosts
whose sender has returned (`phase = "sent"`) and whose `edgesToReceive` is 0.
A receive of a host's last message may also complete it, which is why the
abstract `Deliver` may finish the host in the same step. Every other
converter step (counting, batching, buffering, sending) is a stutter.

In `DistGraphSend` an edge is `<<src, dst, data>>` with global IDs; a batch
is the record `[src, dsts]` that `gSerialize(globalSourceID, dstVector[,
dataVector])` writes, and a message is the sequence of batches a buffer held
when it was sent. `BatchBytes` counts the bytes `gSerialize` writes (8 for
the ID, 8 for each vector's length, 4 per element), so the 1400-byte flush is
taken at the same batch as in the code once `SendLimit` is scaled down.
`findOwner` is a scan of `hostToNodes`, from its header comment; its
`(uint32_t)-1` is the constant `NoOwner`, written -1 because TLC's integers
stop below 2^32 (no index equals it either way).

`NodeChunks` keeps the loaded edges as the flat `uint32_t` vector the
converter reads them into (src, dst and, with edge data, the data), so both
strides of `localEdges[edgeIndex * 2]` / `[edgeIndex * 3]` are modelled.
`galois::block_range` is not in `src/`; `BlockRange` follows Galois's
definition (blocks of ceil(size / num), at least 1, clipped at the end).
`findUniqueChunks` and `sendAndReceiveEdgeChunkCounts` are modelled from
their header comments: the chunks the nodes lie in, and "send and receive
local chunk counts and update them" as one message per other host, added
on receipt. A host's sequential work before the ChunkInspection do_all,
including `findUniqueSourceNodes` (whose do_all only fills per-thread sets),
is one step.

### Granularity

Every read or write of shared memory in `relaxNode`/`relaxEdge` is one step:

- the gate read;
- the re-check;
- the load of the source distance;
- the loop test's read of the destination;
- the CAS, or the store.

Steps were merged only where the merge hides no interleaving:

- The pop is merged with the gate read. A pop from a bag is a right-mover.
- In `AsyncPPSSSP`, the load of `sdist` is merged into `Read`, because
  `newDist` comes from the thread-local `sdist`.
- In `AsyncSetSSSP`, the push is merged with the CAS that precedes it. Both
  are performed by the same thread, and the push only adds work.

The code has one branch `if (!UseCas || CAS(...))`, and the model has one
action for it, `CasSucceed`, whose guard is that disjunction. With UseCas
false it is the plain store of the `newDist` that an earlier `Read`
computed, and that gap is where the lost update lives.

`SerialSSSP` takes one whole iteration of the `while` loop as one step: the
code is sequential and nothing else reads its state. `Pushes` reads the
destination distances after the store of `req.w`, as the edge loop does.
The order of `std::set` comes from `UpdateRequestCommon::operator<`
(`SSSP.h`, not in `src/`), which compares `w` and then the node.

### Work lists

OBIM, dChunkedFIFO and InsertBag are bags from which any element may be
popped. OBIM only approximates priority order (spec §4.C), and several
workers drain buckets cooperatively, so every pop order is possible. The bag
also over-approximates the FIFO variants. Chunking, per-thread buckets and
NUMA placement change performance, not which orders are possible.

The work-sets MSet (a marking bit), HSet (a hash set) and OSet (an ordered
set) differ only in where membership is stored. A single flag `inSet[n]`
stands for all three:

- a push is dropped when the node is a member;
- a pop removes the node from the queue and then, in a separate step,
  clears its membership;
- the initial bag is deduplicated when `for_each_local` starts.

## 3. Runs

`MCAsyncSSSP` uses three threads (`t1`, `t2`, `t3`), `MCDistGraphSend3`
one thread per host, and every other MC module two threads (`t1`, `t2`); the SSSP runs use `DistBits = 4`. That makes
`DIST_INFINITY = 15`, far above every real distance, except in the overflow
run.

The graphs are in `MCGraphs.tla`:

- **`MCAdj`**: directed, on nodes 0..5. It has two routes to node 3 (through
  1 and through 2), a back edge 3 -> 1, an edge 1 -> 2 that shortcuts a
  longer edge, and node 5, which is unreachable but has an out-edge. This
  graph exercises:
  - concurrent improvements of the same destination;
  - a request made stale by a later improvement;
  - an edge relaxed from a node that is still at INF.
- **`MCSymAdj`**: symmetric, on nodes 0..4, with node 4 isolated.
- **`MCOverflowAdj`**: nodes 0..2 with `DistBits = 3`, where 5 + 4 wraps
  to 1.

| Run | Config | Expect | Checks |
|---|---|---|---|
| async_cas | `MCAsyncSSSP.cfg`, UseCas | pass | TypeOK, NoLostRelaxation, AbsSpec, Termination |
| async_nocas_lostupdate | `MCAsyncSSSP_lostupdate.cfg` | violation | VerifySucceeds |
| async_cas_overflow | `MCAsyncSSSP_overflow.cfg` | violation | NoUnderestimate |
| set_cas | `MCAsyncSetSSSP.cfg`, UseCas, UseSet | pass | TypeOK, NoLostRelaxation, AbsSpec, Termination |
| set_nocas_lostupdate | `MCAsyncSetSSSP_lostupdate.cfg` | violation | VerifySucceeds |
| serial_vs_async | `MCSSSPEquivalence.cfg`, UseCas | pass | SerialSettledOnce, SerialAbsSpec, SerialTermination |
| pp_symmetric | `MCAsyncPPSSSP.cfg`, `MCSymAdj` | pass | TypeOK, NoLostRelaxation, AbsSpec, Termination |
| pp_directed | `MCAsyncPPSSSP_directed.cfg`, `MCAdj` | violation | NoUnderestimate |
| chunks | `MCNodeChunks.cfg` | pass | TypeOK, ChunkCountsCorrect, NoAssertFailure |
| chunks_fewedges | `MCNodeChunks_fewedges.cfg` | violation | NoAssertFailure |
| convert | `MCDistGraphSend.cfg` | pass | TypeOK, EdgeConservation, CountsAgree, Termination, RoutingSpec |
| convert3 | `MCDistGraphSend3.cfg` | pass | TypeOK, EdgeConservation, CountsAgree, Termination, RoutingSpec |

The properties:

- **NoLostRelaxation.** Whenever an edge `n -> m` could still lower `dist[m]`
  from the current `dist[n]`, some live work will relax it: a queued request
  or node, a thread that has not yet reached the edge, or a do_all iteration
  still to run. This single invariant is what makes the following safe:
  - the empty-work gate;
  - the in-loop re-check;
  - the CAS retry loop;
  - the work-set's dropped pushes (which are safe only because membership
    is cleared before the popper reads the distance);
  - the pull.

  It takes two threads and several steps to break.
- **AbsSpec.** Every step of the implementation either lowers one distance to
  a value that a path reaches, or leaves the distances alone. The run ends
  only with all shortest distances.
- **Termination.** `for_each_local` eventually returns.
- **VerifySucceeds.** After the algorithm, the driver's own `verify()`
  accepts the distances.
- **NoUnderestimate.** No distance is ever below the true shortest distance.
- **SerialSettledOnce** (an action property). The serial loop never changes
  a distance it has stored. This is why `SerialAlgo` does no wasted work:
  `std::set` hands out requests in order of `w`, and weights are
  non-negative, so the first request that beats `data.dist` carries the
  shortest distance. A comparator in the wrong order or a wrapped sum breaks
  it.
- **SerialAbsSpec**, **SerialTermination.** The serial run refines
  `AbstractSSSP`, and its loop ends.
- **EdgeConservation** (converter). For every host and every edge, the
  copies the host has stored, plus those in flight to it, plus those in a
  thread's `dstVec` or send buffer for it, plus those its owner has still to
  read, equal the copies in the input if the host owns the edge's source,
  and 0 otherwise. A batch labelled with the wrong source, a vector not
  serialized, or a buffer cleared without being sent, all break it.
- **CountsAgree** (converter). Once a host has its counts, its
  `edgesToReceive` equals the remote edges still on their way to it. The
  count `sendEdgeCounts` computed from `findOwner` must match what
  `sendAssignedEdges` actually sends.
- **Termination** (converter). Every host finishes sending and every
  `receiveAssignedEdges` returns.
- **RoutingSpec** (converter). The routing refines `AbstractRouting`: each
  host's edges reach it once, a host counts as finished only once it holds
  all of them, and nothing reaches a finished host. A count that does not
  match what is sent (counting by destination) breaks it: a host either
  returns early and then receives, or never holds what it is told.
- **ChunkCountsCorrect** (partitioning). Once a host is done, its
  `chunkCounts` is the prefix sum of the global number of edges whose source
  lies in each chunk, and its last value is `totalEdgeCount`. It depends on
  the strides of the edge layout, the chunk tiling, the reduce of the unique
  chunks and the prefix-sum bounds.
- **NoAssertFailure** (partitioning). `GALOIS_ASSERT(chunkNum != -1)` never
  fires.

### What the runs show

- **Lost update without CAS** (`FifoSSSP.cpp:344` and `:483`). `relaxEdge`
  in the non-CAS variants tests `newDist < ddata`, and in a later step stores
  `ddata = newDist`. Another thread can store a smaller distance in between,
  and that distance is then overwritten. `verify()` fails. A work-set does
  not help: it suppresses duplicate work items, but the destination is still
  unprotected.
- **Wrap-around** (`:339`). `sdist + d` wraps, and the wrapped value is stored
  as a distance below the true one. Spec §7 says the sum must saturate.
- **Push-pull on a directed graph** (`:628`). The pull uses the out-edge
  `src -> dst` as if it also led back. `sdist` drops below `dist[src]`, and
  later edges are relaxed from that value, leaving node 4 at 3 where its
  shortest distance is 4. `verify()` does not notice, because no edge is left
  relaxable. On a symmetric graph the pull is sound, and the `pp_symmetric`
  run proves every property.
- **The CAS variants are correct** under every interleaving of three
  threads (`AsyncAlgo`) or two (`AsyncSetAlgo`, `AsyncAlgoPP`) on these
  graphs. This covers both the weak CAS with its spurious failures and
  the strong `__sync` CAS.

- **The converter's routing is correct** on two hosts with two threads each,
  in the `uint32_t` edge-data template. Each edge arrives once, at its owner, under its own
  source, and each receiver returns. The work includes: an edge of local node
  0 (where `lastSourceSent` starts), runs of edges of one source, a source
  that recurs after another, local edges, and buffers that flush in the edge
  loop and others that only the cleanup pass sends.

- **The serial baseline is label-setting** on `MCAdj`: no stored distance
  changes, and it refines `AbstractSSSP`. The pass-run mutants show the
  order of the set (`MinReq_Reversed`), the `req.w < data.dist` gate
  (`Iterate_NoGate`) and the erase (`Iterate_NoErase`) each matter. The
  spec's equivalence of serial and asynchronous results (§8) is not a
  property of its own: both runs refine `AbstractSSSP`, whose `Finish`
  fixes the true distances, so equal results follow from the two
  refinements.

- **Three hosts** (`convert3`). Each thread sends to both other hosts with
  the sources interleaved, so it keeps two batches open at once. Routing
  stays correct: the per-owner `lastSourceSent`, `dstVector` and buffer keep
  the batches apart.

- **Fewer edges than hosts aborts the partitioning** (`:401`).
  `numNodeChunks = totalEdgeCount / totalNumHosts` is 0 with three hosts and
  two edges. No chunk is created, and the first ChunkInspection iteration on
  a host with an edge fails its assertion at `:316`. Nothing in the code
  excludes such inputs.
- **The partitioning is otherwise correct** with edge data (three words
  per edge). This includes a halved chunk count and an empty last chunk: the counts agree
  on every host, and the accumulator map is never written concurrently.

- **Templates and variants in the runs.** The run limit keeps one
  instance per question. The void template of the converter differs from
  the data template only in leaving out `dataVector` and its bytes, and the
  modules model both through `EdgeData`. The runs use the data template,
  whose layout and batch sizes are the harder case. `AsyncSetAlgo` without
  a work-set (`UseSet = FALSE`) is modelled but not run. The non-CAS
  variants have only their violation runs: their termination is the same
  loop as the CAS variants', and their result is wrong. `set_cas` runs the
  same relaxation code with the work-set on, and the work-set only drops
  pushes and adds the membership step.

### Bounds

- **Threads.** Every hazard is a race between two relaxations, so two
  threads are enough to show it. `async_cas` runs three (58,411 states), so
  that three relaxations of one node, and a CAS that fails twice in a row
  against two different winners, are also covered.
- **Graph size.** The graphs are as small as still lets each hazard happen:
  - two paths into one node, to get a concurrent improvement;
  - a node improved twice, to get a stale request;
  - a cycle, and an unreachable node.
- **Distance width.** `DistBits = 4` keeps the state space small. It does not
  hide overflow, which has its own run with `DistBits = 3`.

- **Serial beside async.** `MCAdj` with two asynchronous threads. The
  serial run alone is one behaviour of about a dozen states; composed with
  the asynchronous run (33,512 states), every order of the two runs' steps
  is checked. The serial loop's wrap-around (`:295`) is not reached here;
  it is the same `DistAdd` the overflow run shows for the asynchronous
  loop.

- **Converter.** Two hosts, each owning two nodes, and two threads per host
  with two or three edges each. `SendLimit` (35 bytes; one batch of one
  edge with data is 32) stands for 1400 and is chosen so that the flush inside the edge loop and
  the flush by the cleanup pass both happen. Two threads are enough for the
  shared `localSrcToDest` and the race of a receiver with the senders.
  `convert3` has three hosts of one thread each, owning two nodes each, with
  three to five edges per host, so that one thread alternates between two
  owners (7,996 states).

- **Partitioning.** Two hosts of two threads on four nodes, six edges per
  host. `ChunkCap` (10000000 in the code) is 5, so the 6 chunks are halved
  to 3 of 2 nodes, and the last of them is empty. Host 0's data and
  destination words lie in another chunk than most of its sources, so a
  misread of the edge layout reaches a chunk without an accumulator. The violation instance needs three hosts for
  `totalEdgeCount < totalNumHosts` with an edge on some host.

The state spaces run from a few thousand to about 58,000 distinct states,
and every run ends in under a minute.

### Fairness

The workers are OS threads under a preemptive scheduler, so each thread's
next step is weakly fair.

`compare_exchange_weak` can fail spuriously, but not forever while the
value is unchanged. Its success is therefore strongly fair in `AsyncSSSP`
and `AsyncPPSSSP`. In `AsyncSetSSSP` the `__sync` CAS fails only when the
value changed, so the CAS needs no extra fairness there.

In the converter, MPI delivers every message sent, the host's threads are
preemptive, and `receiveAssignedEdges` polls in a loop, so every host action
and each thread's next iteration are weakly fair. The model keeps count
messages and edge messages apart. Both use `evilPhase`, and which driver step
separates them is not in `src/`. `receiveAssignedEdges` is to be called
after `sendAssignedEdges` (its header comment), on another thread of the
same host since `edgesToReceive` is atomic; the model lets the receiver run
as soon as its counts are in, which includes the order the comment asks for.

`NodeChunks` checks no liveness property and assumes no fairness. Its
count exchange (`sendAndReceiveEdgeChunkCounts`) has only a declaration in
`src/`, so whether every host returns would follow from the model's own
reading of its comment, not from the code.

`SerialSSSP` is one thread: its loop step is weakly fair. In
`SSSPEquivalence` only that fairness is assumed, because the properties that
need fairness there are about the serial loop alone.

`do_all` returning (`StartRun`) and `for_each_local` returning (`Terminate`)
are weakly fair. The runtime's termination detection fires once the system
is quiescent.

## 4. Not modelled

- **GraphLab and Ligra front-ends.** Their code is not in `src/`.
- **Statistics, timers, option parsing and the `--delta` indexer.** None of
  them changes the distances.
- **Inside the Galois runtime.** The chunk and bucket structure of OBIM and
  its barrier-based termination detection are not modelled. Only their
  contract is: a bag, and "return when quiescent".
- **`getChunkToHostMapping`, `binSearchDivision`, `findIndexPrefixSum`.**
  Only their declarations are in `src/`, and their comments ("roughly even")
  give no rule to model. The partitioning model stops at the prefix sum they
  consume, and `DistGraphSend` takes the host mapping as a constant.
- **The converter's I/O.** Loading the edge list
  (`loadEdgesFromEdgeList`) is parsing of a text file. The MPI-IO writers are pure I/O. The model
  takes the host mapping and each thread's block of edges as constants.
- **The shared `evilPhase` tag** (`:502`). Counts and edges are both sent
  with it. Whether a host can take an edge message for a count depends on
  the driver and on the receive functions, and neither has a body in
  `src/`. The model gives the two their own channels, as a driver with a
  barrier between the phases would.
- **`findOwner` returning -1** (`:488`). That needs a node that no host
  owns. `loadEdgesFromEdgeList` asserts every ID is below `totalNumNodes`
  (`:108`), and the functions that build `hostToNodes` have no body in
  `src/`, so nothing in `src/` can produce such a mapping.
- **A racy insert into `chunkToAccumulator`** (`:317`). `findUniqueChunks`
  has only a declaration; the model reads its comment as the exact set of
  chunks the sources lie in, which is what the do_all looks up, so a missing
  key cannot arise in the model. `racyInsert` still records the
  `operator[]` insert, but no property is checked on it.
- **Appends to `localSrcToDest` without `nodeLocks`** (`:608`). Each locked
  append is one step, so the data race a missing lock would cause inside
  `push_back` is not represented.
- **OBIM's internal structure.** The spec describes it (§4.C), but its code
  is in the Galois runtime, not in `src/`. A module of it would model no
  line of this repository, so the bag stands for it.

## 5. Plan

Done so far:

- the SSSP core: AsyncAlgo, AsyncSetAlgo with work-sets, AsyncAlgoPP, and the
  driver's verify;
- `SerialAlgo`, run beside `AsyncAlgo<true>`;
- a refinement of an abstract SSSP specification by each of them;
- the converter's edge routing (`DistGraphSend`): the count exchange, both
  `sendAssignedEdges` templates, and the receiver, on two and three hosts;
- the converter's chunk counting (`NodeChunks`), with the finding that fewer
  edges than hosts abort it;
- the routing's refinement of `AbstractRouting`, and a three-thread run of
  `AsyncAlgo<true>`.

What remains is outside `src/` (see section 4): OBIM's buckets, the driver
of the converter, and the mapping functions. Modelling them would model the
spec, not this code.
