---------------------------- MODULE MCTakionRecv ----------------------------
(* Model values for TakionRecv.                                            *)
EXTENDS TakionRecv, TLC

Symmetry == Permutations(Slots)
=============================================================================
