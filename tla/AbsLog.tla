------------------------------- MODULE AbsLog -------------------------------
(***************************************************************************)
(* What the log promises the file system: the writes of an operation reach *)
(* the disk all together or not at all, whatever crashes.  stable is what  *)
(* survives a crash, current is what operations read and write.  A commit  *)
(* makes the one the other in a single step, and happens only between      *)
(* operations.  The log blocks, the header and recovery do not exist here. *)
(***************************************************************************)
CONSTANTS Procs, Blocks, Values

VARIABLES stable, current, active

vars == <<stable, current, active>>

Init ==
    /\ stable \in [Blocks -> Values]
    /\ current = stable
    /\ active = {}

Begin(p) ==
    /\ active' = active \cup {p}
    /\ UNCHANGED <<stable, current>>

Write(p, b, v) ==
    /\ p \in active
    /\ current' = [current EXCEPT ![b] = v]
    /\ UNCHANGED <<stable, active>>

End(p) ==
    /\ active' = active \ {p}
    /\ UNCHANGED <<stable, current>>

Commit ==
    /\ active = {}
    /\ stable' = current
    /\ UNCHANGED <<current, active>>

Crash ==
    /\ current' = stable
    /\ active' = {}
    /\ UNCHANGED stable

Next ==
    \/ \E p \in Procs :
           \/ Begin(p) \/ End(p)
           \/ \E b \in Blocks, v \in Values : Write(p, b, v)
    \/ Commit
    \/ Crash

Spec == Init /\ [][Next]_vars

=============================================================================
