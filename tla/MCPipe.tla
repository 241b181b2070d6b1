------------------------------- MODULE MCPipe -------------------------------
(* Instances of Pipe for TLC.                                              *)
EXTENDS Pipe

CONSTANTS p1, p2, a, b

TwoProcs == {p1, p2}
TwoBytes == {a, b}
OneProc == {p2}

=============================================================================
