---------------------------- MODULE MCBufCache ----------------------------
(* Instances of BufCache for TLC.                                          *)
EXTENDS BufCache

CONSTANTS p1, p2, s1, s2, s3

MCInitDisk == [s \in Sectors |-> IF s = s2 THEN 1 ELSE 0]
TwoProcs == {p1, p2}

=============================================================================
