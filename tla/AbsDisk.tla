------------------------------ MODULE AbsDisk ------------------------------
(***************************************************************************)
(* What the buffer cache promises to its callers: sectors with contents,   *)
(* each locked by at most one process, which alone reads and changes it.   *)
(* A read that the disk fails gives any contents; they last until the      *)
(* sector is written or read again.                                        *)
(***************************************************************************)
CONSTANTS Procs, Sectors, Values, None

VARIABLES
    content,   \* sector -> value
    holder,    \* sector -> the process that has it locked, or None
    bad        \* the sectors whose last read failed

vars == <<content, holder, bad>>

Init ==
    /\ content \in [Sectors -> Values]
    /\ holder = [s \in Sectors |-> None]
    /\ bad = {}

Lock(p, s) == holder[s] = None /\ holder' = [holder EXCEPT ![s] = p]

Read(p, s) == Lock(p, s) /\ UNCHANGED <<content, bad>>

ReadFailed(p, s) ==
    /\ Lock(p, s) /\ bad' = bad \cup {s}
    /\ \E v \in Values : content' = [content EXCEPT ![s] = v]

Write(p, s, v) ==
    /\ holder[s] = p
    /\ content' = [content EXCEPT ![s] = v]
    /\ bad' = bad \ {s}
    /\ UNCHANGED holder

Forget(s) ==
    /\ s \in bad /\ bad' = bad \ {s}
    /\ \E v \in Values : content' = [content EXCEPT ![s] = v]
    /\ UNCHANGED holder

Release(p, s) ==
    /\ holder[s] = p
    /\ holder' = [holder EXCEPT ![s] = None]
    /\ UNCHANGED <<content, bad>>

Next ==
    \E s \in Sectors :
        \/ Forget(s)
        \/ \E p \in Procs :
              \/ Read(p, s) \/ ReadFailed(p, s) \/ Release(p, s)
              \/ \E v \in Values : Write(p, s, v)

Spec == Init /\ [][Next]_vars

=============================================================================
