----------------------------- MODULE MCAsyncSSSP -----------------------------
(***************************************************************************)
(* AsyncSSSP for TLC: three worker threads on the graphs of MCGraphs.        *)
(***************************************************************************)
EXTENDS AsyncSSSP, MCGraphs, TLC

CONSTANTS t1, t2, t3

MCThreads == {t1, t2, t3}

=============================================================================
