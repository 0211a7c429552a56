---------------------------- MODULE MCTakionData ----------------------------
(* Model values for TakionData.                                            *)
EXTENDS TakionData, TLC

Symmetry == Permutations(Elems)
=============================================================================
