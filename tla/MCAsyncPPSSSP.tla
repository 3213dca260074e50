---------------------------- MODULE MCAsyncPPSSSP ----------------------------
(***************************************************************************)
(* AsyncPPSSSP for TLC: two worker threads on the graphs of MCGraphs.      *)
(***************************************************************************)
EXTENDS AsyncPPSSSP, MCGraphs, TLC

CONSTANTS t1, t2

MCThreads == {t1, t2}

=============================================================================
