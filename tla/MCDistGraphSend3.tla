--------------------------- MODULE MCDistGraphSend3 ---------------------------
(***************************************************************************)
(* Three hosts with one thread each; host h owns nodes 2h..2h+1.  Every    *)
(* thread sends to both other hosts with the sources interleaved, so one   *)
(* thread keeps two open batches (per-owner lastSourceSent and buffers):   *)
(* host 0 sends source 2 to host 1, source 4 to host 2, source 2 again     *)
(* (still the open batch of host 1), then source 5 to host 2 (closing the  *)
(* batch of 4).  Every host also keeps an edge of its own.                 *)
(***************************************************************************)
EXTENDS DistGraphSend, TLC

CONSTANTS t1

MCThreads == {t1}

MCHostToNodes == (0 :> <<0, 2>>) @@ (1 :> <<2, 4>>) @@ (2 :> <<4, 6>>)

MCWork ==
  (0 :> (t1 :> << <<2, 4, 5>>, <<4, 0, 5>>, <<2, 5, 7>>, <<0, 3, 5>>, <<5, 1, 7>> >>))
  @@ (1 :> (t1 :> << <<0, 2, 5>>, <<1, 3, 7>>, <<4, 5, 5>>, <<2, 0, 7>> >>))
  @@ (2 :> (t1 :> << <<3, 0, 5>>, <<4, 1, 7>>, <<1, 2, 5>> >>))

====
