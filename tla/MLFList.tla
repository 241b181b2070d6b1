------------------------------ MODULE MLFList ------------------------------
(***************************************************************************)
(* The linked lists behind ptable.mlf: first and last of each level, and   *)
(* the next pointer in each process.  Every call below is made with        *)
(* ptable.lock held, so each is one step; ProcTable models who calls them  *)
(* and keeps each list as a sequence, which this module justifies.         *)
(***************************************************************************)
EXTENDS Naturals, Sequences

CONSTANTS
    Procs,       \* the slots of ptable.proc
    MLFLEVELS,   \* number of levels
    Null         \* the null pointer

ASSUME ConstAssumption == MLFLEVELS \in Nat \ {0} /\ Null \notin Procs

Levels == 0 .. MLFLEVELS - 1

VARIABLES
    first, last,   \* ptable.mlf[l]
    next,          \* proc->next
    priority,      \* proc->priority
    runnable       \* the processes with state RUNNABLE

vars == <<first, last, next, priority, runnable>>

Init ==
    /\ first = [l \in Levels |-> Null]
    /\ last = [l \in Levels |-> Null]
    /\ next = [p \in Procs |-> Null]
    /\ priority = [p \in Procs |-> 0]
    /\ runnable = {}

\* The lists after make_runnable(p) with p->priority = l.
appended(f, la, nx, p, l) ==
    [first |-> IF la[l] = Null THEN [f EXCEPT ![l] = p] ELSE f,
     last  |-> [la EXCEPT ![l] = p],
     next  |-> [q \in Procs |-> IF q = p THEN Null
                                ELSE IF q = la[l] THEN p ELSE nx[q]]]

\* Mutant: the last process leaves and the tail pointer stays.
removed_tail(l) ==
    [first |-> [first EXCEPT ![l] = IF @ = last[l] THEN Null ELSE next[@]], last |-> last]

\* The lists after unqueue(l).
removed(l) ==
    IF first[l] = last[l]
    THEN [first |-> [first EXCEPT ![l] = Null], last |-> [last EXCEPT ![l] = Null]]
    ELSE [first |-> [first EXCEPT ![l] = next[first[l]]], last |-> last]

\* The caller has set p->priority to l: one level down in yield, one up in
\* wakeup1, 0 in fork, any in sys_setpriority.
make_runnable(p, l) ==
    /\ p \notin runnable
    /\ priority' = [priority EXCEPT ![p] = l]
    /\ runnable' = runnable \cup {p}
    /\ LET n == appended(first, last, next, p, l)
       IN  first' = n.first /\ last' = n.last /\ next' = n.next

\* scheduler() takes the head of a level that has one and runs it.
unqueue(l) ==
    /\ first[l] # Null
    /\ first' = removed(l).first /\ last' = removed(l).last
    /\ runnable' = runnable \ {first[l]}
    /\ UNCHANGED <<next, priority>>

raised(l) == IF l > 0 THEN l - 1 ELSE l

\* calculateaging() has found the head of the level old enough.
levelupdate(p) ==
    /\ p \in runnable /\ first[priority[p]] = p
    /\ LET r == removed(priority[p])
           n == appended(r.first, r.last, next, p, raised(priority[p]))
       IN  first' = n.first /\ last' = n.last /\ next' = n.next
    /\ priority' = [priority EXCEPT ![p] = raised(@)]
    /\ UNCHANGED runnable

Next ==
    \/ \E p \in Procs : levelupdate(p) \/ \E l \in Levels : make_runnable(p, l)
    \/ \E l \in Levels : unqueue(l)

Spec == Init /\ [][Next]_vars

-----------------------------------------------------------------------------
(* Properties                                                              *)

\* The processes from first to last along next, stopping at a null pointer or
\* after one step more than there can be processes.
List(l) ==
    LET walk[S \in SUBSET Procs, p \in Procs] ==
            IF p = last[l] THEN <<p>>
            ELSE IF next[p] = Null \/ p \notin S THEN <<p, p>>
            ELSE <<p>> \o walk[S \ {p}, next[p]]
    IN  IF first[l] = Null THEN <<>> ELSE walk[Procs, first[l]]

Abs == INSTANCE AbsMLF WITH queue <- [l \in Levels |-> List(l)]

\* The pointers implement one FIFO queue per level, which together hold the
\* RUNNABLE processes: none is lost, duplicated or overtaken, whatever stale next
\* pointers unqueue leaves, and its panic for a process that is not RUNNABLE
\* cannot happen.
RefinesAbs == Abs!Spec

=============================================================================
