--------------------------- MODULE MCDistGraphSend ---------------------------
(***************************************************************************)
(* Two hosts with two threads each; host 0 owns nodes 0..1, host 1 owns    *)
(* nodes 2..3.  Thread t1 of host 0 sends sources 2, 3, 2 to host 1 (a    *)
(* source that comes back after another), thread t2 of host 0 sends a      *)
(* duplicate of one of those edges, thread t1 of host 1 starts with local  *)
(* ID 0, the initial lastSourceSent, and every host also keeps some edges. *)
(***************************************************************************)
EXTENDS DistGraphSend, TLC

CONSTANTS t1, t2

MCThreads == {t1, t2}

MCHostToNodes == (0 :> <<0, 2>>) @@ (1 :> <<2, 4>>)

\* The loaded edges <<src, dst, data>>; the data values tell edges of one
\* source and destination apart.
MCWork ==
  (0 :> ((t1 :> << <<2, 0, 5>>, <<3, 1, 7>>, <<2, 1, 5>> >>)
      @@ (t2 :> << <<0, 3, 5>>, <<3, 1, 5>>, <<1, 2, 7>> >>)))
  @@
  (1 :> ((t1 :> << <<0, 1, 7>>, <<0, 3, 5>> >>)
      @@ (t2 :> << <<2, 3, 5>>, <<1, 0, 7>> >>)))

====
