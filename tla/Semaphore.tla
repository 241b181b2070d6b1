----------------------------- MODULE Semaphore -----------------------------
(***************************************************************************)
(* The semaphore table of semaphore.c, the handles each process keeps in   *)
(* proc->osemaphore, and the places of proc.c that touch them: fork, exit, *)
(* sleep, wakeup and kill.                                                 *)
(*                                                                         *)
(* A section under stable.lock is one step.  sleep(s, &stable.lock) takes  *)
(* ptable.lock before it gives up stable.lock, so testing the value and    *)
(* going to sleep is one step as well; semup releases stable.lock before   *)
(* it calls wakeup(s), so these are two.  A process is the only one to     *)
(* read or write its own osemaphore array (and that of the child it is     *)
(* still building), so the store next to semdup or semclose joins their    *)
(* step.  A call that returns an error changes nothing and is no step.     *)
(***************************************************************************)
EXTENDS Integers, FiniteSets

CONSTANTS
    Procs,        \* the slots of ptable.proc
    MAXSEM,       \* size of stable.sem
    MAXPROCSEM,   \* size of proc->osemaphore
    InitValues,   \* initial values passed to semget
    MaxValue,     \* bound: semup is not tried at this value
    InitProc,     \* the process userinit creates
    None          \* the null pointer

ASSUME ConstAssumption ==
    /\ IsFiniteSet(Procs) /\ InitProc \in Procs
    /\ MAXSEM \in Nat \ {0} /\ MAXPROCSEM \in Nat \ {0}
    /\ InitValues \subseteq Int /\ MaxValue \in Int
    /\ None \notin Int /\ None \notin Procs

Sems  == 0 .. MAXSEM - 1
Slots == 0 .. MAXPROCSEM - 1

VARIABLES
    id,           \* stable.sem[s].id
    references,   \* stable.sem[s].references
    value,        \* stable.sem[s].value
    osemaphore,   \* proc->osemaphore: slot -> semaphore or None
    pc,           \* where each process is
    chan,         \* the semaphore a process sleeps on, or will wake up
    child,        \* the child a forking process builds
    idx           \* the loop counter of fork and exit

vars == <<id, references, value, osemaphore, pc, chan, child, idx>>

Init ==
    /\ id = [s \in Sems |-> 0]
    /\ references = [s \in Sems |-> 0]
    /\ value = [s \in Sems |-> 0]
    /\ osemaphore = [p \in Procs |-> [i \in Slots |-> None]]
    /\ pc = [p \in Procs |-> IF p = InitProc THEN "user" ELSE "unused"]
    /\ chan = [p \in Procs |-> None]
    /\ child = [p \in Procs |-> None]
    /\ idx = [p \in Procs |-> 0]

-----------------------------------------------------------------------------
(* The searches.  Each is the set holding the result the C loop stops at,  *)
(* empty when the loop runs to its end.                                    *)

allocinprocess(p) ==
    {i \in Slots : /\ osemaphore[p][i] = None
                   /\ \A j \in Slots : j < i => osemaphore[p][j] # None}

\* The slot holds a semaphore whose id is semid.
SlotMatches(p, i, semid) ==
    osemaphore[p][i] # None /\ id[osemaphore[p][i]] = semid

searchinprocess(p, semid) ==
    {i \in Slots : /\ SlotMatches(p, i, semid)
                   /\ \A j \in Slots : j < i => ~ SlotMatches(p, j, semid)}

\* Mutant: the first semaphore, in use or not.
allocinsystem_any == {0}

allocinsystem ==
    {s \in Sems : references[s] = 0 /\ \A t \in Sems : t < s => references[t] # 0}

searchinsystem(semid) ==
    {s \in Sems : id[s] = semid /\ \A t \in Sems : t < s => id[t] # semid}

\* The error code semget returns, or 0 when it finds a semaphore.
semgeterror(p, semid) ==
    CASE semid < -1 \/ semid >= MAXSEM -> -4
      [] OTHER -> IF allocinprocess(p) = {} THEN -2
                  ELSE IF semid = -1
                       THEN IF allocinsystem = {} THEN -3 ELSE 0
                  ELSE IF searchinsystem(semid) = {} THEN -5
                  ELSE IF \E s \in searchinsystem(semid) : references[s] > 0
                       THEN 0 ELSE -1

-----------------------------------------------------------------------------
(* The system calls                                                        *)

\* Mutant: the reference is not counted.
found_uncounted(p, i, s) ==
    /\ UNCHANGED references
    /\ osemaphore' = [osemaphore EXCEPT ![p][i] = s]

\* The code at label found: one more reference, held through slot i.
found(p, i, s) ==
    /\ references' = [references EXCEPT ![s] = @ + 1]
    /\ osemaphore' = [osemaphore EXCEPT ![p][i] = s]

\* semget(-1, v)
semgetnew(p, v) ==
    /\ pc[p] = "user"
    /\ semgeterror(p, -1) = 0
    /\ \E i \in allocinprocess(p), s \in allocinsystem :
          /\ id' = [id EXCEPT ![s] = s]
          /\ value' = [value EXCEPT ![s] = v]
          /\ found(p, i, s)
    /\ UNCHANGED <<pc, chan, child, idx>>

\* semget(semid, v) with semid >= 0: v is not looked at
semgetold(p, semid) ==
    /\ pc[p] = "user"
    /\ semgeterror(p, semid) = 0
    /\ \E i \in allocinprocess(p), s \in searchinsystem(semid) : found(p, i, s)
    /\ UNCHANGED <<id, value, pc, chan, child, idx>>

semfree(p, semid) ==
    /\ pc[p] = "user"
    /\ \E i \in searchinprocess(p, semid) :
          /\ references[osemaphore[p][i]] >= 1
          /\ references' = [references EXCEPT ![osemaphore[p][i]] = @ - 1]
          /\ osemaphore' = [osemaphore EXCEPT ![p][i] = None]
    /\ UNCHANGED <<id, value, pc, chan, child, idx>>

\* One turn of the loop in semdown: take a token, or sleep on s until woken.
downloop(p, s) ==
    \/ /\ value[s] > 0
       /\ value' = [value EXCEPT ![s] = @ - 1]
       /\ pc' = [pc EXCEPT ![p] = "user"]
       /\ chan' = [chan EXCEPT ![p] = None]
    \/ /\ value[s] <= 0
       /\ pc' = [pc EXCEPT ![p] = "sleeping"]
       /\ chan' = [chan EXCEPT ![p] = s]
       /\ UNCHANGED value

semdown(p, semid) ==
    /\ pc[p] = "user"
    /\ \E i \in searchinprocess(p, semid) : downloop(p, osemaphore[p][i])
    /\ UNCHANGED <<id, references, osemaphore, child, idx>>

\* sleep returns with stable.lock held again and the loop tests the value.
semdownresume(p) ==
    /\ pc[p] = "woken"
    /\ downloop(p, chan[p])
    /\ UNCHANGED <<id, references, osemaphore, child, idx>>

semup(p, semid) ==
    /\ pc[p] = "user"
    /\ \E i \in searchinprocess(p, semid) :
          /\ value[osemaphore[p][i]] < MaxValue
          /\ value' = [value EXCEPT ![osemaphore[p][i]] = @ + 1]
          /\ chan' = [chan EXCEPT ![p] = osemaphore[p][i]]
    /\ pc' = [pc EXCEPT ![p] = "wakeup"]
    /\ UNCHANGED <<id, references, osemaphore, child, idx>>

\* Mutant: nobody is woken.
wakeup_nobody(p) ==
    /\ pc[p] = "wakeup"
    /\ pc' = [pc EXCEPT ![p] = "user"]
    /\ chan' = [chan EXCEPT ![p] = None]
    /\ UNCHANGED <<id, references, value, osemaphore, child, idx>>

\* wakeup(s) at the end of semup, under ptable.lock: every sleeper on s.
wakeup(p) ==
    /\ pc[p] = "wakeup"
    /\ pc' = [q \in Procs |->
                IF q = p THEN "user"
                ELSE IF pc[q] = "sleeping" /\ chan[q] = chan[p] THEN "woken"
                ELSE pc[q]]
    /\ chan' = [chan EXCEPT ![p] = None]
    /\ UNCHANGED <<id, references, value, osemaphore, child, idx>>

-----------------------------------------------------------------------------
(* The parts of proc.c that reach the semaphores                           *)

\* kill makes a sleeping process runnable, whatever it sleeps on.
kill(p, q) ==
    /\ pc[p] = "user" /\ pc[q] = "sleeping"
    /\ pc' = [pc EXCEPT ![q] = "woken"]
    /\ UNCHANGED <<id, references, value, osemaphore, chan, child, idx>>

fork(p, np) ==
    /\ pc[p] = "user" /\ pc[np] = "unused"
    /\ pc' = [pc EXCEPT ![p] = "fork", ![np] = "embryo"]
    /\ child' = [child EXCEPT ![p] = np]
    /\ idx' = [idx EXCEPT ![p] = 0]
    /\ UNCHANGED <<id, references, value, osemaphore, chan>>

\* np->osemaphore[i] = semdup(proc->osemaphore[i]), for the next i
forkdup(p) ==
    /\ pc[p] = "fork" /\ idx[p] < MAXPROCSEM
    /\ LET s == osemaphore[p][idx[p]]
       IN IF s # None THEN found(child[p], idx[p], s)
          ELSE UNCHANGED <<references, osemaphore>>
    /\ idx' = [idx EXCEPT ![p] = @ + 1]
    /\ UNCHANGED <<id, value, pc, chan, child>>

forkdone(p) ==
    /\ pc[p] = "fork" /\ idx[p] = MAXPROCSEM
    /\ pc' = [pc EXCEPT ![p] = "user", ![child[p]] = "user"]
    /\ child' = [child EXCEPT ![p] = None]
    /\ idx' = [idx EXCEPT ![p] = 0]
    /\ UNCHANGED <<id, references, value, osemaphore, chan>>

exit(p) ==
    /\ pc[p] = "user" /\ p # InitProc
    /\ pc' = [pc EXCEPT ![p] = "exit"]
    /\ idx' = [idx EXCEPT ![p] = 0]
    /\ UNCHANGED <<id, references, value, osemaphore, chan, child>>

\* semclose(proc->osemaphore[i]), then the slot is cleared, for the next i
exitclose(p) ==
    /\ pc[p] = "exit" /\ idx[p] < MAXPROCSEM
    /\ LET s == osemaphore[p][idx[p]]
       IN IF s # None
          THEN /\ references[s] >= 1
               /\ references' = [references EXCEPT ![s] = @ - 1]
               /\ osemaphore' = [osemaphore EXCEPT ![p][idx[p]] = None]
          ELSE UNCHANGED <<references, osemaphore>>
    /\ idx' = [idx EXCEPT ![p] = @ + 1]
    /\ UNCHANGED <<id, value, pc, chan, child>>

\* The rest of exit and the parent's wait give the slot back to allocproc.
exitdone(p) ==
    /\ pc[p] = "exit" /\ idx[p] = MAXPROCSEM
    /\ pc' = [pc EXCEPT ![p] = "unused"]
    /\ idx' = [idx EXCEPT ![p] = 0]
    /\ UNCHANGED <<id, references, value, osemaphore, chan, child>>

Next ==
    \E p \in Procs :
        \/ \E v \in InitValues : semgetnew(p, v)
        \/ \E semid \in Sems : \/ semgetold(p, semid) \/ semfree(p, semid)
                               \/ semdown(p, semid) \/ semup(p, semid)
        \/ semdownresume(p) \/ wakeup(p)
        \/ \E q \in Procs : kill(p, q) \/ fork(p, q)
        \/ forkdup(p) \/ forkdone(p)
        \/ exit(p) \/ exitclose(p) \/ exitdone(p)

Spec == Init /\ [][Next]_vars

\* A process inside the kernel is scheduled again and runs its next step: the
\* scheduler starves no runnable process (property NoStarvation of ProcTable).
Fairness ==
    \A p \in Procs : WF_vars(\/ semdownresume(p) \/ wakeup(p) \/ forkdup(p)
                             \/ forkdone(p) \/ exitclose(p) \/ exitdone(p))

LiveSpec == Spec /\ Fairness

-----------------------------------------------------------------------------
(* Properties                                                              *)

\* The table, the handles and the positions have the types of the C declarations.
TypeOK ==
    /\ id \in [Sems -> Sems]
    /\ references \in [Sems -> Nat]
    /\ value \in [Sems -> Int]
    /\ osemaphore \in [Procs -> [Slots -> Sems \cup {None}]]
    /\ pc \in [Procs -> {"unused", "embryo", "user", "fork", "exit",
                         "sleeping", "woken", "wakeup"}]
    /\ chan \in [Procs -> Sems \cup {None}]
    /\ child \in [Procs -> Procs \cup {None}]
    /\ idx \in [Procs -> 0 .. MAXPROCSEM]

Handles(s) == {h \in Procs \X Slots : osemaphore[h[1]][h[2]] = s}

Holds(p, s) == \E i \in Slots : osemaphore[p][i] = s

\* The reference count of a semaphore is the number of osemaphore entries that
\* point to it, in every interleaving of semget, semfree, fork's semdup loop
\* and exit's semclose loop.  So neither panic("semclose") nor the return of -2
\* in semfree can happen, and a semaphore is recycled exactly when unused.
RefCount == \A s \in Sems : references[s] = Cardinality(Handles(s))

\* No wakeup is lost: whenever a process sleeps in semdown on a semaphore with
\* a positive value, some semup has yet to call wakeup on that semaphore.
NoLostWakeup ==
    \A p \in Procs : pc[p] = "sleeping" /\ value[chan[p]] > 0
        => \E q \in Procs : pc[q] = "wakeup" /\ chan[q] = chan[p]

\* While a process sleeps on a semaphore, or is between semup and its wakeup,
\* it keeps a handle: allocinsystem cannot recycle the semaphore under it.
WaiterHolds ==
    \A p \in Procs : pc[p] \in {"sleeping", "woken", "wakeup"}
        => chan[p] # None /\ Holds(p, chan[p])

\* The table with its counts, its sleeping and its wakeups implements the
\* abstract semaphores, whose steps are atomic.
Abs == INSTANCE AbsSemaphore WITH handles <- osemaphore, tokens <- value

RefinesAbs == Abs!Spec

\* A process that sleeps on a semaphore does not sleep for ever while the value
\* stays positive: wakeup(s) reaches it.
SleeperWakes ==
    \A p \in Procs, s \in Sems :
        (pc[p] = "sleeping" /\ chan[p] = s /\ value[s] > 0)
            ~> (pc[p] # "sleeping" \/ value[s] <= 0)

=============================================================================
