----------------------------- MODULE MCAsyncSetSSSP -----------------------------
(***************************************************************************)
(* AsyncSetSSSP for TLC: two worker threads on the graphs of MCGraphs.        *)
(***************************************************************************)
EXTENDS AsyncSetSSSP, MCGraphs, TLC

CONSTANTS t1, t2

MCThreads == {t1, t2}

=============================================================================
