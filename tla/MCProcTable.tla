---------------------------- MODULE MCProcTable ----------------------------
(* Instances of ProcTable for TLC.                                         *)
EXTENDS ProcTable, SequencesExt

\* A loop over ptable.proc goes up the slots.
MCTableOrder(W) == SetToSortSeq(W, <)

=============================================================================
