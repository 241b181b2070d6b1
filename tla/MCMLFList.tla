----------------------------- MODULE MCMLFList -----------------------------
(* Instance of MLFList for TLC.                                            *)
EXTENDS MLFList, TLC

CONSTANTS p1, p2, p3, p4

MCProcs == {p1, p2, p3, p4}

Symmetry == Permutations(MCProcs)

=============================================================================
