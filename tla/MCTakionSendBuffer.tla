------------------------- MODULE MCTakionSendBuffer -------------------------
(* Model values for TakionSendBuffer.                                      *)
EXTENDS TakionSendBuffer, TLC

Symmetry == Permutations(Senders)
=============================================================================
