--------------------------- MODULE AbstractRouting ---------------------------
(***************************************************************************)
(* What the edge-routing step of dist-graph-convert promises, whatever its *)
(* batching, buffering and messaging: every loaded edge ends up, once, in  *)
(* the local edge lists of the host that owns its source, and a host is    *)
(* finished (sendAssignedEdges and receiveAssignedEdges both returned)     *)
(* only once it holds all of its edges.  Nothing reaches a finished host.  *)
(***************************************************************************)
EXTENDS Bags, BagsExt

CONSTANTS
  Hosts,      \* the hosts
  Owner(_),   \* Owner(e): the host that owns the source of edge e
  AllLoaded   \* the bag of every host's loaded edges

VARIABLES
  delivered,  \* delivered[h]: the bag of edges in h's localSrcToDest
  finished    \* the hosts whose routing step has returned

vars == <<delivered, finished>>

\* The loaded edges host h owns.
OwnedBy(h) == [e \in {x \in BagToSet(AllLoaded) : Owner(x) = h} |-> AllLoaded[e]]

\* Edges of h that have not reached it yet.
Pending(h) == OwnedBy(h) (-) delivered[h]

Init ==
  /\ delivered = [h \in Hosts |-> EmptyBag]
  /\ finished = {}

\* Some edges of h, not yet delivered, arrive at h (a message's worth, or
\* one edge a thread of h stores locally).  If they were h's last, h may
\* return in the same step.
Deliver(h) ==
  /\ h \notin finished
  /\ \E B \in SubBag(Pending(h)) \ {EmptyBag} :
       delivered' = [delivered EXCEPT ![h] = @ (+) B]
  /\ finished' \in {finished, finished \cup {h}}
  /\ h \in finished' => (Pending(h))' = EmptyBag

\* h returns, holding all its edges.
Finish(h) ==
  /\ h \notin finished
  /\ Pending(h) = EmptyBag
  /\ finished' = finished \cup {h}
  /\ UNCHANGED delivered

Next == \E h \in Hosts : Deliver(h) \/ Finish(h)

Spec == Init /\ [][Next]_vars

=============================================================================
