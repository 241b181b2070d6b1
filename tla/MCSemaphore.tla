---------------------------- MODULE MCSemaphore ----------------------------
(* Instances of Semaphore for TLC.                                         *)
EXTENDS Semaphore

CONSTANTS p1, p2, p3

MCProcs == {p1, p2, p3}

\* A mutex, and a semaphore that two ups must open.
MCInitValues == {-1, 1}

=============================================================================
