--------------------------- MODULE MCReorderQueue ---------------------------
(* Model values for ReorderQueue: every number of a small serial space.    *)
EXTENDS ReorderQueue, TLC

Symmetry == Permutations(Elems)
=============================================================================
