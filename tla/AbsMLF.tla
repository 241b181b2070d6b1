------------------------------- MODULE AbsMLF -------------------------------
(***************************************************************************)
(* What the scheduler expects of the MLF structure: one first-in first-out *)
(* queue of processes for each level, and the RUNNABLE processes in them,  *)
(* each in one place.                                                      *)
(***************************************************************************)
EXTENDS Naturals, Sequences

CONSTANTS Procs, Levels

VARIABLES queue, runnable

vars == <<queue, runnable>>

Init == queue = [l \in Levels |-> <<>>] /\ runnable = {}

Enqueue(p, l) ==
    /\ p \notin runnable
    /\ queue' = [queue EXCEPT ![l] = Append(@, p)]
    /\ runnable' = runnable \cup {p}

Dequeue(l) ==
    /\ queue[l] # <<>>
    /\ queue' = [queue EXCEPT ![l] = Tail(@)]
    /\ runnable' = runnable \ {Head(queue[l])}

\* The head of level l goes to the end of the level above; at level 0, to the
\* end of its own.
Raise(l) ==
    /\ queue[l] # <<>>
    /\ LET up == IF l = 0 THEN l ELSE l - 1
           q  == [queue EXCEPT ![l] = Tail(@)]
       IN  queue' = [q EXCEPT ![up] = Append(@, Head(queue[l]))]
    /\ UNCHANGED runnable

Next ==
    \E l \in Levels :
        \/ \E p \in Procs : Enqueue(p, l)
        \/ Dequeue(l)
        \/ Raise(l)

Spec == Init /\ [][Next]_vars

=============================================================================
