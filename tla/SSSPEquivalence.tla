--------------------------- MODULE SSSPEquivalence ---------------------------
(***************************************************************************)
(* The serial baseline and an asynchronous variant run on the same graph   *)
(* and source, as two independent executions of run<SerialAlgo> and        *)
(* run<AsyncAlgo<UseCas>>: their steps interleave freely and share no      *)
(* state.  The spec's algorithm-equivalence requirement (both leave the   *)
(* same dist array) follows from each run's refinement of AbstractSSSP,    *)
(* whose Finish fixes the true distances, so it is not restated here.      *)
(***************************************************************************)
EXTENDS SSSPGraph

CONSTANTS Threads, UseCas, NoOwner

VARIABLES
  dist, wl, phase, initTodo, lockOwner, pc, req, edge, newDist, oldDist,
  sdist,    \* the serial run's SNode::dist
  initial,  \* the serial run's std::set of requests
  sphase    \* the serial run's phase

avars == <<dist, wl, phase, initTodo, lockOwner, pc, req, edge, newDist, oldDist>>
svars == <<sdist, initial, sphase>>
vars == <<avars, svars>>

A == INSTANCE AsyncSSSP
S == INSTANCE SerialSSSP WITH dist <- sdist, phase <- sphase

Init == A!Init /\ S!Init

Next ==
  \/ A!Next /\ UNCHANGED svars
  \/ S!Next /\ UNCHANGED avars

\* Only the serial run's progress is assumed: the properties below that
\* need fairness are about the serial loop alone.
Spec == Init /\ [][Next]_vars /\ WF_vars((S!Iterate \/ S!Terminate) /\ UNCHANGED avars)

(***************************************************************************)
(* Properties                                                              *)
(***************************************************************************)

\* The serial loop never changes a distance it has stored (label setting).
SerialSettledOnce == S!SettledOnce

\* The serial run refines the abstract SSSP specification.
SerialAbsSpec == S!AbsSpec

\* The serial while loop ends.
SerialTermination == S!Termination

=============================================================================
