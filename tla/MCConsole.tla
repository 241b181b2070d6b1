----------------------------- MODULE MCConsole -----------------------------
(* Instances of Console for TLC.                                           *)
EXTENDS Console

CONSTANTS c1, c2, p1

\* Leaves out what no step reads again: cells of the ring outside r .. e, got
\* outside consoleread(), saved outside sched() and intena outside locks.
View ==
    <<locked, iF, ncli, spinning, panic, part(r, e), r, w, e, run, main, intr, state, killed,
      [c \in CPUs |-> ncli[c] > 0 /\ intena[c]],
      [p \in Procs |-> state[p] # "RUNNING" /\ saved[p]],
      [p \in Procs |-> main[p] \in {"read", "sleep", "asleep", "awake", "woken"} /\ got[p]]>>

=============================================================================
