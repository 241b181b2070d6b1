----------------------------- MODULE ProcTable -----------------------------
(***************************************************************************)
(* The process table of proc.c and its multilevel feedback (MLF) queues,   *)
(* with the timer part of trap.c that drives them.                         *)
(*                                                                         *)
(* A process that runs does so on a CPU and inside a system call, a timer  *)
(* trap or user code; pc and ptrap say where it resumes after sched().     *)
(* A section under ptable.lock is one step, except that scheduler() hands  *)
(* the lock to the process it switches to: lock names the CPU from that    *)
(* switch until the process releases the lock or sleeps again.             *)
(*                                                                         *)
(* A queue of the MLF is the sequence of its processes; MLFList shows that *)
(* the first/last/next pointers represent such sequences.                  *)
(***************************************************************************)
EXTENDS Integers, Sequences

CONSTANTS
    NPROC,            \* size of ptable.proc; the slots are 1 .. NPROC
    NCPU,             \* the CPUs are 0 .. NCPU - 1
    NCHAN,            \* channels other than processes: &ticks and devices
    MLFLEVELS, QUANTUM, TICKSFORAGE, AGEFORAGINGS,
    MaxPid,           \* bound: no fork once nextpid has passed it
    TableOrder(_)     \* a set of slots, in the order a loop over ptable.proc
                      \* meets them

ASSUME ConstAssumption ==
    /\ NPROC \in Nat \ {0} /\ NCPU \in Nat \ {0} /\ NCHAN \in Nat \ {0}
    /\ MLFLEVELS \in Nat \ {0} /\ QUANTUM \in Nat \ {0}
    /\ TICKSFORAGE \in Nat \ {0} /\ AGEFORAGINGS \in Nat \ {0}
    /\ MaxPid \in Nat

Procs  == 1 .. NPROC
CPUs   == 0 .. NCPU - 1
Levels == 0 .. MLFLEVELS - 1

\* TableOrder lists each slot of the set once.
ASSUME OrderAssumption ==
    \A W \in SUBSET Procs :
        /\ TableOrder(W) \in Seq(W)
        /\ \A p \in W : \E i \in 1 .. Len(TableOrder(W)) : TableOrder(W)[i] = p
        /\ \A i, j \in 1 .. Len(TableOrder(W)) :
              TableOrder(W)[i] = TableOrder(W)[j] => i = j

Null      == 0               \* the null pointer
Free      == -1              \* ptable.lock is not handed over
initproc  == 1               \* userinit takes the first slot
TicksChan == NPROC + 1       \* &ticks
Chans     == NPROC + 1 .. NPROC + NCHAN

VARIABLES
    state, pid, parent, killed, chan, priority, age,
    pticks,      \* p->ticks
    mlf,         \* ptable.mlf: level -> sequence of processes
    cpu,         \* cpu->proc: CPU -> process or Null
    lock,        \* the CPU that carries ptable.lock across swtch, or Free
    ticks,       \* the global tick count, modulo TICKSFORAGE
    nextpid,
    pc,          \* "user", "sys", "fork", "forked", "wait" or "exit"
    ptrap,       \* timer trap of a process: "none", "timer" or "aging"
    ctrap,       \* timer trap of an idle CPU: "none" or "aging"
    np           \* the child a forking process builds

vars == <<state, pid, parent, killed, chan, priority, age, pticks, mlf, cpu,
          lock, ticks, nextpid, pc, ptrap, ctrap, np>>

\* After userinit: initproc is runnable at level 0, the CPUs are idle.
Init ==
    /\ state = [p \in Procs |-> IF p = initproc THEN "RUNNABLE" ELSE "UNUSED"]
    /\ pid = [p \in Procs |-> IF p = initproc THEN 1 ELSE 0]
    /\ parent = [p \in Procs |-> Null]
    /\ killed = [p \in Procs |-> FALSE]
    /\ chan = [p \in Procs |-> Null]
    /\ priority = [p \in Procs |-> 0]
    /\ age = [p \in Procs |-> 0]
    /\ pticks = [p \in Procs |-> 0]
    /\ mlf = [l \in Levels |-> IF l = 0 THEN <<initproc>> ELSE <<>>]
    /\ cpu = [c \in CPUs |-> Null]
    /\ lock = Free
    /\ ticks = 0
    /\ nextpid = 2
    /\ pc = [p \in Procs |-> "user"]
    /\ ptrap = [p \in Procs |-> "none"]
    /\ ctrap = [c \in CPUs |-> "none"]
    /\ np = [p \in Procs |-> Null]

-----------------------------------------------------------------------------
(* The MLF queues                                                          *)

\* make_runnable(p), with p->priority = l
make_runnable(p, l) ==
    /\ mlf' = [mlf EXCEPT ![l] = Append(@, p)]
    /\ age' = [age EXCEPT ![p] = 0]

\* Mutant: the head stays in the queue.
unqueue_not(l) == UNCHANGED mlf

\* unqueue(l): the head leaves the queue of its level.
unqueue(l) == mlf' = [mlf EXCEPT ![l] = Tail(@)]

\* The level a process moves to when it is woken or has aged.
raised(p) == IF priority[p] > 0 THEN priority[p] - 1 ELSE priority[p]

\* Mutant: a process that kill has made runnable still counts as asleep.
Sleepers_killed(ch) == {p \in Procs : chan[p] = ch}

Sleepers(ch) == {p \in Procs : state[p] = "SLEEPING" /\ chan[p] = ch}

\* The queues q after the processes of W were raised and made runnable.
WakeQueues(q, W) ==
    [l \in Levels |-> q[l] \o TableOrder({p \in W : raised(p) = l})]

\* What wakeup1 does to the processes of W; the callers set mlf and state.
WakeFields(W) ==
    /\ priority' = [p \in Procs |-> IF p \in W THEN raised(p) ELSE priority[p]]
    /\ age' = [p \in Procs |-> IF p \in W THEN 0 ELSE age[p]]

wakeup1(ch) ==
    /\ WakeFields(Sleepers(ch))
    /\ mlf' = WakeQueues(mlf, Sleepers(ch))
    /\ state' = [p \in Procs |-> IF p \in Sleepers(ch) THEN "RUNNABLE" ELSE state[p]]

\* The heads calculateaging finds, one for each level that is not empty, and
\* the levels whose head reaches AGEFORAGINGS.
Heads      == {mlf[l][1] : l \in {k \in Levels : mlf[k] # <<>>}}
AgedLevels == {l \in Levels : mlf[l] # <<>> /\ age[mlf[l][1]] + 1 = AGEFORAGINGS}
AgedHeads  == {mlf[l][1] : l \in AgedLevels}

\* Mutant: nobody ages.
calculateaging_none == UNCHANGED <<mlf, age, priority>>

\* The loop goes up the levels.  levelupdate takes the head of an aged level to
\* the tail of the level above it, which the loop has left behind; the head of
\* level 0 goes to the tail of level 0.
calculateaging ==
    /\ mlf' = [l \in Levels |->
                 (IF l \in AgedLevels THEN Tail(mlf[l]) ELSE mlf[l])
                 \o (IF l = 0 /\ l \in AgedLevels THEN <<mlf[l][1]>> ELSE <<>>)
                 \o (IF l + 1 \in AgedLevels THEN <<mlf[l + 1][1]>> ELSE <<>>)]
    /\ age' = [p \in Procs |-> IF p \in AgedHeads THEN 0
                               ELSE IF p \in Heads THEN age[p] + 1 ELSE age[p]]
    /\ priority' = [p \in Procs |-> IF p \in AgedHeads THEN raised(p) ELSE priority[p]]

-----------------------------------------------------------------------------
(* scheduler() and the return from sched()                                 *)

\* CPU c runs p, holds no lock and is not inside a trap.
Runs(c, p) == cpu[c] = p /\ p # Null /\ lock # c /\ ptrap[p] = "none"

\* p is in user mode and enters the kernel; a killed process would exit.
Calls(c, p) == Runs(c, p) /\ pc[p] = "user" /\ ~ killed[p]

\* The process of CPU c leaves it to the scheduler, which releases the lock.
sched(c) ==
    /\ cpu' = [cpu EXCEPT ![c] = Null]
    /\ lock' = Free

scheduler(c, l) ==
    /\ cpu[c] = Null /\ ctrap[c] = "none" /\ lock = Free
    /\ mlf[l] # <<>> /\ \A k \in Levels : k < l => mlf[k] = <<>>
    /\ unqueue(l)
    /\ cpu' = [cpu EXCEPT ![c] = mlf[l][1]]
    /\ state' = [state EXCEPT ![mlf[l][1]] = "RUNNING"]
    /\ lock' = c
    /\ UNCHANGED <<pid, parent, killed, chan, priority, age, pticks, ticks,
                   nextpid, pc, ptrap, ctrap, np>>

\* sched() returns in yield or sleep, or the process starts in forkret: the
\* process tidies up and releases ptable.lock.  (wait keeps it: see wait.)
schedreturn(c) ==
    /\ lock = c /\ pc[cpu[c]] # "wait"
    /\ chan' = [chan EXCEPT ![cpu[c]] = Null]
    /\ lock' = Free
    /\ UNCHANGED <<state, pid, parent, killed, priority, age, pticks, mlf, cpu,
                   ticks, nextpid, pc, ptrap, ctrap, np>>

-----------------------------------------------------------------------------
(* The timer trap                                                          *)

\* CPU 0 counts the tick and wakes its waiters; every CPU enters the trap.
timer(c) ==
    /\ lock # c
    /\ IF cpu[c] = Null THEN ctrap[c] = "none" ELSE ptrap[cpu[c]] = "none"
    /\ IF c = 0
       THEN /\ lock = Free
            /\ ticks' = (ticks + 1) % TICKSFORAGE
            /\ wakeup1(TicksChan)
       ELSE UNCHANGED <<ticks, state, priority, age, mlf>>
    /\ IF cpu[c] = Null
       THEN ctrap' = [ctrap EXCEPT ![c] = "aging"] /\ UNCHANGED ptrap
       ELSE ptrap' = [ptrap EXCEPT ![cpu[c]] = "timer"] /\ UNCHANGED ctrap
    /\ UNCHANGED <<pid, parent, killed, chan, pticks, cpu, lock, nextpid, pc, np>>

\* The trap finds the process killed in user mode and calls exit().
trapexit(c, p) ==
    /\ killed[p] /\ pc[p] = "user"
    /\ pc' = [pc EXCEPT ![p] = "exit"]
    /\ ptrap' = [ptrap EXCEPT ![p] = "none"]
    /\ UNCHANGED <<state, pid, parent, killed, chan, priority, age, pticks, mlf,
                   cpu, lock, ticks, nextpid, ctrap, np>>

\* The quantum goes on: proc->ticks++.
trapcount(c, p) ==
    /\ pticks[p] # QUANTUM - 1
    /\ pticks' = [pticks EXCEPT ![p] = @ + 1]
    /\ ptrap' = [ptrap EXCEPT ![p] = "aging"]
    /\ UNCHANGED <<state, pid, parent, killed, chan, priority, age, mlf, cpu,
                   lock, ticks, nextpid, pc, ctrap, np>>

\* The quantum is used up: yield() moves the process down one level.
yield(c, p) ==
    /\ pticks[p] = QUANTUM - 1 /\ lock = Free
    /\ pticks' = [pticks EXCEPT ![p] = 0]
    /\ LET l == IF priority[p] < MLFLEVELS - 1 THEN priority[p] + 1 ELSE priority[p]
       IN priority' = [priority EXCEPT ![p] = l] /\ make_runnable(p, l)
    /\ state' = [state EXCEPT ![p] = "RUNNABLE"]
    /\ sched(c)
    /\ ptrap' = [ptrap EXCEPT ![p] = "aging"]
    /\ UNCHANGED <<pid, parent, killed, chan, ticks, nextpid, pc, ctrap, np>>

trapquantum(c) ==
    \E p \in Procs :
        /\ cpu[c] = p /\ lock # c /\ ptrap[p] = "timer"
        /\ \/ trapexit(c, p)
           \/ ~ (killed[p] /\ pc[p] = "user") /\ (trapcount(c, p) \/ yield(c, p))

\* The end of the trap: the ages, if this is the tick for them, and again the
\* test for a killed process.  ticks is read now, after any yield.
trapaging(c) ==
    /\ lock # c
    /\ IF cpu[c] = Null THEN ctrap[c] = "aging" ELSE ptrap[cpu[c]] = "aging"
    /\ IF ticks = 0 THEN lock = Free /\ calculateaging
       ELSE UNCHANGED <<mlf, age, priority>>
    /\ IF cpu[c] = Null
       THEN ctrap' = [ctrap EXCEPT ![c] = "none"] /\ UNCHANGED <<ptrap, pc>>
       ELSE /\ ptrap' = [ptrap EXCEPT ![cpu[c]] = "none"]
            /\ pc' = [pc EXCEPT ![cpu[c]] =
                         IF @ = "user" /\ killed[cpu[c]] THEN "exit" ELSE @]
            /\ UNCHANGED ctrap
    /\ UNCHANGED <<state, pid, parent, killed, chan, pticks, cpu, lock, ticks,
                   nextpid, np>>

-----------------------------------------------------------------------------
(* fork                                                                    *)

\* Mutant: the slot is not marked while the lock is held.
allocproc_unmarked(q) ==
    /\ state[q] = "UNUSED" /\ \A r \in Procs : r < q => state[r] # "UNUSED"
    /\ UNCHANGED state
    /\ pid' = [pid EXCEPT ![q] = nextpid]
    /\ nextpid' = nextpid + 1

\* The locked part of allocproc: the first UNUSED slot.
allocproc(q) ==
    /\ state[q] = "UNUSED" /\ \A r \in Procs : r < q => state[r] # "UNUSED"
    /\ state' = [state EXCEPT ![q] = "EMBRYO"]
    /\ pid' = [pid EXCEPT ![q] = nextpid]
    /\ nextpid' = nextpid + 1

fork(c, p) ==
    /\ Calls(c, p) /\ lock = Free /\ nextpid <= MaxPid
    /\ \E q \in Procs : allocproc(q) /\ np' = [np EXCEPT ![p] = q]
    /\ pc' = [pc EXCEPT ![p] = "fork"]
    /\ UNCHANGED <<parent, killed, chan, priority, age, pticks, mlf, cpu, lock,
                   ticks, ptrap, ctrap>>

\* Without the lock: no page for the kernel stack, or copyuvm fails after
\* allocproc has set priority and age, or the child is filled in.
forkcopy(c, p) ==
    /\ Runs(c, p) /\ pc[p] = "fork"
    /\ \/ /\ state' = [state EXCEPT ![np[p]] = "UNUSED"]
          /\ pc' = [pc EXCEPT ![p] = "user"]
          /\ np' = [np EXCEPT ![p] = Null]
          /\ \/ UNCHANGED <<priority, age>>
             \/ /\ priority' = [priority EXCEPT ![np[p]] = 0]
                /\ age' = [age EXCEPT ![np[p]] = 0]
          /\ UNCHANGED parent
       \/ /\ priority' = [priority EXCEPT ![np[p]] = 0]
          /\ age' = [age EXCEPT ![np[p]] = 0]
          /\ parent' = [parent EXCEPT ![np[p]] = p]
          /\ pc' = [pc EXCEPT ![p] = "forked"]
          /\ UNCHANGED <<state, np>>
    /\ UNCHANGED <<pid, killed, chan, pticks, mlf, cpu, lock, ticks, nextpid,
                   ptrap, ctrap>>

forkdone(c, p) ==
    /\ Runs(c, p) /\ pc[p] = "forked" /\ lock = Free
    /\ make_runnable(np[p], priority[np[p]])
    /\ state' = [state EXCEPT ![np[p]] = "RUNNABLE"]
    /\ pc' = [pc EXCEPT ![p] = "user", ![np[p]] = "user"]
    /\ np' = [np EXCEPT ![p] = Null]
    /\ UNCHANGED <<pid, parent, killed, chan, priority, pticks, cpu, lock, ticks,
                   nextpid, ptrap, ctrap>>

-----------------------------------------------------------------------------
(* exit and wait                                                           *)

\* The call, or the end of a killed process at a system call; initproc runs
\* for ever (the code panics if it does not).  A fault also sets killed.
exit(c, p) ==
    /\ Runs(c, p) /\ pc[p] = "user" /\ p # initproc
    /\ pc' = [pc EXCEPT ![p] = "exit"]
    /\ \/ UNCHANGED killed
       \/ killed' = [killed EXCEPT ![p] = TRUE]
    /\ UNCHANGED <<state, pid, parent, chan, priority, age, pticks, mlf, cpu,
                   lock, ticks, nextpid, ptrap, ctrap, np>>

\* Mutant: the parent is left asleep.
ParentWoken_none(p) == {}

\* The processes wakeup1(proc->parent) wakes.
ParentWoken(p) == Sleepers(parent[p])

\* The processes that wakeup1(initproc) wakes besides, when p leaves a zombie.
InitWoken(p) ==
    IF \E q \in Procs : parent[q] = p /\ state[q] = "ZOMBIE"
    THEN Sleepers(initproc) \ ParentWoken(p) ELSE {}

\* The children of p are passed to initproc.
Adopted(p) == [q \in Procs |-> IF parent[q] = p THEN initproc ELSE parent[q]]

\* The locked end of exit, once the files are closed: wakeup1(parent), children
\* to initproc, wakeup1(initproc) if one of them is a zombie, ZOMBIE, sched.
exitlocked(c, p) ==
    /\ Runs(c, p) /\ pc[p] = "exit" /\ lock = Free
    /\ mlf' = WakeQueues(WakeQueues(mlf, ParentWoken(p)), InitWoken(p))
    /\ WakeFields(ParentWoken(p) \cup InitWoken(p))
    /\ state' = [q \in Procs |->
                   IF q = p THEN "ZOMBIE"
                   ELSE IF q \in ParentWoken(p) \cup InitWoken(p) THEN "RUNNABLE"
                   ELSE state[q]]
    /\ parent' = Adopted(p)
    /\ sched(c)
    /\ UNCHANGED <<pid, killed, chan, pticks, ticks, nextpid, pc, ptrap, ctrap, np>>

Children(p) == {q \in Procs : parent[q] = p}

\* The first zombie child gives its slot back.
reap(p, q) ==
    /\ q \in Children(p) /\ state[q] = "ZOMBIE"
    /\ \A r \in Children(p) : r < q => state[r] # "ZOMBIE"
    /\ state' = [state EXCEPT ![q] = "UNUSED"]
    /\ pid' = [pid EXCEPT ![q] = 0]
    /\ parent' = [parent EXCEPT ![q] = Null]
    /\ killed' = [killed EXCEPT ![q] = FALSE]

\* No point in waiting: the call returns -1.
waitfails(p) == Children(p) = {} \/ killed[p]

\* One turn of the loop in wait, with ptable.lock held: taken by the call, or
\* kept by the process since the scheduler switched back to it.
wait(c, p) ==
    /\ \/ Calls(c, p) /\ lock = Free
       \/ cpu[c] = p /\ lock = c /\ pc[p] = "wait"
    /\ \/ /\ \E q \in Procs : reap(p, q)
          /\ pc' = [pc EXCEPT ![p] = "user"]
          /\ chan' = [chan EXCEPT ![p] = Null]
          /\ lock' = Free
          /\ UNCHANGED cpu
       \/ /\ \A q \in Children(p) : state[q] # "ZOMBIE"
          /\ IF waitfails(p)
             THEN /\ pc' = [pc EXCEPT ![p] = "user"]
                  /\ chan' = [chan EXCEPT ![p] = Null]
                  /\ lock' = Free
                  /\ UNCHANGED <<state, cpu>>
             ELSE /\ pc' = [pc EXCEPT ![p] = "wait"]
                  /\ chan' = [chan EXCEPT ![p] = p]
                  /\ state' = [state EXCEPT ![p] = "SLEEPING"]
                  /\ sched(c)
          /\ UNCHANGED <<pid, parent, killed>>
    /\ UNCHANGED <<priority, age, pticks, mlf, ticks, nextpid, ptrap, ctrap, np>>

-----------------------------------------------------------------------------
(* sleep, wakeup, kill, setpriority                                        *)

\* A system call that may sleep any number of times (on the channels of
\* semaphores, pipes, files, the console, the disk or &ticks) and its return.
enter(c, p) ==
    /\ Calls(c, p)
    /\ pc' = [pc EXCEPT ![p] = "sys"]
    /\ UNCHANGED <<state, pid, parent, killed, chan, priority, age, pticks, mlf,
                   cpu, lock, ticks, nextpid, ptrap, ctrap, np>>

leave(c, p) ==
    /\ Runs(c, p) /\ pc[p] = "sys"
    /\ pc' = [pc EXCEPT ![p] = "user"]
    /\ UNCHANGED <<state, pid, parent, killed, chan, priority, age, pticks, mlf,
                   cpu, lock, ticks, nextpid, ptrap, ctrap, np>>

\* sleep(ch, lk): also while exit closes files.
sleep(c, p, ch) ==
    /\ Runs(c, p) /\ pc[p] \in {"sys", "exit"} /\ lock = Free
    /\ chan' = [chan EXCEPT ![p] = ch]
    /\ state' = [state EXCEPT ![p] = "SLEEPING"]
    /\ sched(c)
    /\ UNCHANGED <<pid, parent, killed, priority, age, pticks, mlf, ticks,
                   nextpid, pc, ptrap, ctrap, np>>

\* wakeup(ch), from a process or a device interrupt.
wakeup(ch) ==
    /\ lock = Free
    /\ wakeup1(ch)
    /\ UNCHANGED <<pid, parent, killed, chan, pticks, cpu, lock, ticks, nextpid,
                   pc, ptrap, ctrap, np>>

\* kill(n): the first slot with that pid, in whatever state.  Not tried on
\* initproc, which would panic on its way out.
kill(c, p, n) ==
    /\ Calls(c, p) /\ lock = Free /\ n # pid[initproc]
    /\ \E q \in Procs :
          /\ pid[q] = n /\ \A r \in Procs : r < q => pid[r] # n
          /\ killed' = [killed EXCEPT ![q] = TRUE]
          /\ IF state[q] = "SLEEPING"
             THEN /\ make_runnable(q, priority[q])
                  /\ state' = [state EXCEPT ![q] = "RUNNABLE"]
             ELSE UNCHANGED <<mlf, age, state>>
    /\ UNCHANGED <<pid, parent, chan, priority, pticks, cpu, lock, ticks,
                   nextpid, pc, ptrap, ctrap, np>>

\* setpriority(l), for the levels that exist.
setpriority(c, p, l) ==
    /\ Calls(c, p)
    /\ priority' = [priority EXCEPT ![p] = l]
    /\ UNCHANGED <<state, pid, parent, killed, chan, age, pticks, mlf, cpu, lock,
                   ticks, nextpid, pc, ptrap, ctrap, np>>

Step(c) ==
    \/ \E l \in Levels : scheduler(c, l)
    \/ schedreturn(c)
    \/ timer(c) \/ trapquantum(c) \/ trapaging(c)
    \/ \E p \in Procs :
          \/ fork(c, p) \/ forkcopy(c, p) \/ forkdone(c, p)
          \/ exit(c, p) \/ exitlocked(c, p) \/ wait(c, p)
          \/ enter(c, p) \/ leave(c, p)
          \/ \E ch \in Chans : sleep(c, p, ch)
          \/ \E n \in 0 .. MaxPid : kill(c, p, n)
          \/ \E l \in Levels : setpriority(c, p, l)

Next ==
    \/ \E c \in CPUs : Step(c)
    \/ \E ch \in Chans \ {TicksChan} : wakeup(ch)

Spec == Init /\ [][Next]_vars

\* A tick is much longer than a turn of the scheduler loop: an idle CPU meets no
\* timer interrupt while a process is runnable.
Prompt ==
    \A c \in CPUs : ctrap[c] = "none" /\ ctrap'[c] = "aging"
        => \A l \in Levels : mlf[l] = <<>>

\* Timer interrupts keep coming, and a CPU in the scheduler or inside the kernel
\* goes on; strong fairness for what a timer interrupt or the lock can delay.
Fairness ==
    \A c \in CPUs :
        /\ SF_vars(\E l \in Levels : scheduler(c, l))
        /\ WF_vars(schedreturn(c))
        /\ SF_vars(timer(c)) /\ WF_vars(trapquantum(c)) /\ WF_vars(trapaging(c))
        /\ WF_vars(lock = c /\ \E p \in Procs : wait(c, p))

LiveSpec == Init /\ [][Next /\ Prompt]_vars /\ Fairness

-----------------------------------------------------------------------------
(* Properties                                                              *)

\* The fields of the process table, the queues and the positions have the types
\* of the C declarations; priority stays within the levels, ticks within QUANTUM.
TypeOK ==
    /\ state \in [Procs -> {"UNUSED", "EMBRYO", "SLEEPING", "RUNNABLE",
                            "RUNNING", "ZOMBIE"}]
    /\ pid \in [Procs -> Nat]
    /\ parent \in [Procs -> Procs \cup {Null}]
    /\ killed \in [Procs -> BOOLEAN]
    /\ chan \in [Procs -> Procs \cup Chans \cup {Null}]
    /\ priority \in [Procs -> Levels]
    /\ age \in [Procs -> Nat]
    /\ pticks \in [Procs -> 0 .. QUANTUM - 1]
    /\ mlf \in [Levels -> Seq(Procs)]
    /\ cpu \in [CPUs -> Procs \cup {Null}]
    /\ lock \in CPUs \cup {Free}
    /\ ticks \in 0 .. TICKSFORAGE - 1
    /\ nextpid \in Nat
    /\ pc \in [Procs -> {"user", "sys", "fork", "forked", "wait", "exit"}]
    /\ ptrap \in [Procs -> {"none", "timer", "aging"}]
    /\ ctrap \in [CPUs -> {"none", "aging"}]
    /\ np \in [Procs -> Procs \cup {Null}]

Runnable == {p \in Procs : state[p] = "RUNNABLE"}

\* Every process in a queue is RUNNABLE and has the priority of the queue.
QueuedIsRunnable ==
    \A l \in Levels : \A i \in 1 .. Len(mlf[l]) :
        mlf[l][i] \in Runnable /\ priority[mlf[l][i]] = l

\* No process is twice in a queue (a second make_runnable would close the list
\* of next pointers into a cycle).
NotQueuedTwice ==
    \A l \in Levels : \A i, j \in 1 .. Len(mlf[l]) :
        mlf[l][i] = mlf[l][j] => i = j

\* Every RUNNABLE process is in the queue of its priority: none is lost to the
\* scheduler.
RunnableIsQueued ==
    \A p \in Runnable : \E i \in 1 .. Len(mlf[priority[p]]) : mlf[priority[p]][i] = p

\* The MLF queues hold exactly the RUNNABLE processes, each once and at the
\* level of its priority, through yield, wakeup1, kill, aging, fork and exit:
\* so neither panic of unqueue nor that of calculateaging can happen.
QueuesHoldRunnable == QueuedIsRunnable /\ NotQueuedTwice /\ RunnableIsQueued

\* A process is RUNNING exactly while one CPU runs it; no process runs on two.
RunningOnOneCpu ==
    /\ \A c \in CPUs : cpu[c] # Null => state[cpu[c]] = "RUNNING"
    /\ \A c, d \in CPUs : c # d /\ cpu[c] # Null => cpu[c] # cpu[d]
    /\ \A p \in Procs : state[p] = "RUNNING" => \E c \in CPUs : cpu[c] = p

\* A process sleeps in wait only while it has to: no child of it is a zombie and
\* nobody has killed it, whichever of exit, kill and wait takes ptable.lock
\* first.  And every process has a living parent that can reap it: exit passes
\* its children, zombies too, to initproc before it is a zombie itself.
NoZombieOverlooked ==
    /\ \A p \in Procs : state[p] = "SLEEPING" /\ pc[p] = "wait" =>
          ~ killed[p] /\ \A z \in Procs : ~ (state[z] = "ZOMBIE" /\ parent[z] = p)
    /\ \A p \in Procs \ {initproc} : state[p] \notin {"UNUSED", "EMBRYO"} =>
          /\ parent[p] \in Procs
          /\ state[parent[p]] \in {"SLEEPING", "RUNNABLE", "RUNNING"}

\* A child that fork builds without holding the lock stays an EMBRYO of one
\* parent: no other CPU takes its slot, schedules it or builds it too.
EmbryoOfOneFork ==
    /\ \A p \in Procs : pc[p] \in {"fork", "forked"} =>
          np[p] # Null /\ state[np[p]] = "EMBRYO"
    /\ \A p, q \in Procs : np[p] # Null /\ np[p] = np[q] => p = q

\* A runnable process eventually runs, whatever the others do with their
\* priorities: aging lifts it out of the lower levels.
NoStarvation ==
    \A p \in Procs : state[p] = "RUNNABLE" ~> state[p] = "RUNNING"

\* A process that was killed does not go on in user mode: a trap or a system
\* call makes it exit.
KilledExits ==
    \A p \in Procs : killed[p] /\ pc[p] = "user" /\ state[p] = "RUNNABLE" ~> pc[p] = "exit"

\* wait returns once a child is a zombie.
WaitReturns ==
    \A p, z \in Procs :
        pc[p] = "wait" /\ parent[z] = p /\ state[z] = "ZOMBIE" ~> pc[p] = "user"

=============================================================================
