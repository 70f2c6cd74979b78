---------------------------- MODULE MCBatchRelay ----------------------------
(***************************************************************************)
(* Small instances of BatchRelay for TLC.                                  *)
(***************************************************************************)
EXTENDS BatchRelay

CONSTANTS r1, r2, X, Y

\* Two batches of token X around one of token Y: the loop meets them in
\* nonce order 1, 2, 3, and the contract compares X's two nonces.
MCBatchToken == [n \in 1..3 |-> IF n = 2 THEN Y ELSE X]

\* One batch per token: batch 1 of X is met first by the loop, then 2 of Y.
MCBatchToken2 == [n \in 1..2 |-> IF n = 1 THEN X ELSE Y]

\* A single batch, of token X.
MCBatchToken1 == [n \in 1..1 |-> X]
=============================================================================
