--------------------------- MODULE MCOrchestrator ---------------------------
(***************************************************************************)
(* Small instances of Orchestrator for TLC.                                *)
(***************************************************************************)
EXTENDS Orchestrator

CONSTANTS r1, r2, X, Y

\* One batch per token: batch 1 of X, then batch 2 of Y.
MCBatchToken == [n \in 1..2 |-> IF n = 1 THEN X ELSE Y]
\* A single batch, of token X.
MCBatchToken1 == [n \in 1..1 |-> X]
=============================================================================
