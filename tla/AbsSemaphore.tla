---------------------------- MODULE AbsSemaphore ----------------------------
(***************************************************************************)
(* What the semaphore system calls promise their callers: a process holds  *)
(* semaphores through a fixed number of handles, a semaphore exists while  *)
(* some handle refers to it, and its value is a number of tokens that only *)
(* its holders change, one token at a time and never below what a holder   *)
(* may take.  There are no reference counts, no sleeping and no wakeups    *)
(* here: semaphore.c must provide the effect of these atomic steps.        *)
(***************************************************************************)
EXTENDS Integers

CONSTANTS Procs, Sems, Slots, InitValues, None

VARIABLES handles, tokens

vars == <<handles, tokens>>

Holds(p, s) == \E i \in Slots : handles[p][i] = s

InUse(s) == \E p \in Procs : Holds(p, s)

Init ==
    /\ handles = [p \in Procs |-> [i \in Slots |-> None]]
    /\ tokens = [s \in Sems |-> 0]

\* A semaphore nobody holds is created with the caller's initial value.
Create(p, i, s, v) ==
    /\ handles[p][i] = None
    /\ ~ InUse(s)
    /\ handles' = [handles EXCEPT ![p][i] = s]
    /\ tokens' = [tokens EXCEPT ![s] = v]

\* A semaphore in use gains a handle: semget with its id, or fork.
Attach(p, i, s) ==
    /\ handles[p][i] = None
    /\ InUse(s)
    /\ handles' = [handles EXCEPT ![p][i] = s]
    /\ UNCHANGED tokens

\* A handle is given up: semfree, or exit.
Detach(p, i) ==
    /\ handles[p][i] # None
    /\ handles' = [handles EXCEPT ![p][i] = None]
    /\ UNCHANGED tokens

Down(p, s) ==
    /\ Holds(p, s)
    /\ tokens[s] > 0
    /\ tokens' = [tokens EXCEPT ![s] = @ - 1]
    /\ UNCHANGED handles

Up(p, s) ==
    /\ Holds(p, s)
    /\ tokens' = [tokens EXCEPT ![s] = @ + 1]
    /\ UNCHANGED handles

Next ==
    \E p \in Procs :
        \/ \E i \in Slots, s \in Sems :
               \/ \E v \in InitValues : Create(p, i, s, v)
               \/ Attach(p, i, s)
        \/ \E i \in Slots : Detach(p, i)
        \/ \E s \in Sems : Down(p, s) \/ Up(p, s)

Spec == Init /\ [][Next]_vars

=============================================================================
