------------------------------- MODULE MCLog -------------------------------
(* Instances of Log for TLC.                                               *)
EXTENDS Log

CONSTANTS p1, p2, p3

ThreeProcs == {p1, p2, p3}

=============================================================================
