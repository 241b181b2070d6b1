------------------------------ MODULE SpinLock ------------------------------
(***************************************************************************)
(* Spin locks (spinlock.c) and the interrupt flag of each CPU.  acquire()  *)
(* is two steps, pushcli() and the exchange that takes the lock; release() *)
(* is one, since nothing can come between its parts that would see them.   *)
(* The code that uses the locks is in modules that extend this one.        *)
(***************************************************************************)
EXTENDS Naturals

CONSTANTS CPUs, Locks, None

VARIABLES
    locked,     \* lk->cpu of a lock that is locked, else None
    iF,         \* FL_IF of each CPU
    ncli, intena,
    spinning,   \* the CPU is in the loop of acquire()
    panic

lockvars == <<locked, iF, ncli, intena, spinning, panic>>

LockInit ==
    /\ locked = [l \in Locks |-> None]
    /\ iF = [c \in CPUs |-> FALSE] /\ ncli = [c \in CPUs |-> 0]
    /\ intena = [c \in CPUs |-> FALSE] /\ spinning = [c \in CPUs |-> FALSE]
    /\ panic = "none"

holding(c, l) == locked[l] = c

cli(c) == iF' = [iF EXCEPT ![c] = FALSE]

pushcli(c) ==
    /\ cli(c)
    /\ ncli' = [ncli EXCEPT ![c] = @ + 1]
    /\ intena' = [intena EXCEPT ![c] = IF ncli[c] = 0 THEN iF[c] ELSE @]

\* acquire(), up to the loop.
acquire(c, l) ==
    /\ pushcli(c)
    /\ panic' = IF holding(c, l) THEN "acquire" ELSE panic
    /\ spinning' = [spinning EXCEPT ![c] = TRUE]
    /\ UNCHANGED locked

\* The exchange that finds the lock free.
xchg(c, l) ==
    /\ spinning[c] /\ locked[l] = None
    /\ locked' = [locked EXCEPT ![l] = c]
    /\ spinning' = [spinning EXCEPT ![c] = FALSE]
    /\ UNCHANGED <<iF, ncli, intena, panic>>

\* Mutant: every popcli() turns interrupts on again.
outermost_any(c) == TRUE

outermost(c) == ncli[c] = 1

popcli(c) ==
    /\ ncli' = [ncli EXCEPT ![c] = @ - 1]
    /\ iF' = [iF EXCEPT ![c] = @ \/ (outermost(c) /\ intena[c])]

release(c, l) ==
    /\ locked' = [locked EXCEPT ![l] = None]
    /\ popcli(c)
    /\ panic' = IF ~ holding(c, l) THEN "release"
                ELSE IF iF[c] THEN "popcli - interruptible"
                ELSE IF ncli[c] = 0 THEN "popcli" ELSE panic
    /\ UNCHANGED <<intena, spinning>>

=============================================================================
