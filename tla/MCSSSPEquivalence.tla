-------------------------- MODULE MCSSSPEquivalence --------------------------
(***************************************************************************)
(* SSSPEquivalence for TLC: asyncWithCas on two threads beside the serial  *)
(* baseline, on the six-node graph of MCGraphs.                            *)
(***************************************************************************)
EXTENDS SSSPEquivalence, MCGraphs, TLC

CONSTANTS t1, t2

MCThreads == {t1, t2}

=============================================================================
