------------------------------ MODULE Console ------------------------------
(***************************************************************************)
(* The console (console.c) on several CPUs: processes read lines and write *)
(* output while keyboard and timer interrupts arrive on any CPU, with the  *)
(* spin locks of SpinLock and the switch of processes of proc.c as far as  *)
(* locks and the interrupt flag take part in it.                           *)
(*                                                                         *)
(* A thread is a process or the scheduler of a CPU.  An interrupt pushes a *)
(* frame on the stack of the thread it finds, and goes with it when the    *)
(* thread gives up the CPU.                                                *)
(***************************************************************************)
EXTENDS SpinLock, Sequences

CONSTANTS
    Procs,
    Keys,           \* characters and the editing keys "^H", "^U" and "^P"
    INPUT_BUF,
    WORD            \* 2^32 for the indices

ASSUME ConstAssumption ==
    /\ INPUT_BUF \in Nat \ {0} /\ WORD \in Nat /\ WORD % INPUT_BUF = 0 /\ WORD > INPUT_BUF
    /\ Locks = {"input", "cons", "ptable"} /\ Procs \cap CPUs = {} /\ None \notin Procs \cup CPUs

VARIABLES
    buf, r, w, e,       \* input
    run,        \* the thread on each CPU; the CPU itself is its scheduler
    main, intr, \* where a thread is, and where in a handler, or "none"
    saved,      \* intena in sched()
    state, killed,
    got         \* consoleread() has read something: n < target

input == <<buf, r, w, e>>
vars == <<lockvars, input, run, main, intr, saved, state, killed, got>>

Threads == Procs \cup CPUs

Init ==
    /\ LockInit
    /\ buf = [k \in 0 .. INPUT_BUF - 1 |-> "x"] /\ r = 0 /\ w = 0 /\ e = 0
    /\ run = [c \in CPUs |-> c]
    /\ main = [t \in Threads |-> IF t \in CPUs THEN "sti" ELSE "forkret"]
    /\ intr = [t \in Threads |-> "none"] /\ saved = [p \in Procs |-> FALSE]
    /\ state = [p \in Procs |-> "RUNNABLE"] /\ killed = [p \in Procs |-> FALSE]
    /\ got = [p \in Procs |-> FALSE]

\* Where the code on CPU c is.
here(c) == IF intr[run[c]] # "none" THEN intr[run[c]] ELSE main[run[c]]

At(c, where) == here(c) = where /\ ~ spinning[c] /\ panic = "none"

goto(c, where) ==
    IF intr[run[c]] # "none"
    THEN intr' = [intr EXCEPT ![run[c]] = where] /\ UNCHANGED main
    ELSE main' = [main EXCEPT ![run[c]] = where] /\ UNCHANGED intr

\* cprintf() takes cons.lock for what it prints, of which the model keeps nothing.
cprintf == <<"procdump", "cons", "cprintf">>

\* procdump() calls cprintf() again, or is done.
procdump == {<<"cprintf", "cons", "procdump">>, <<"cprintf", "cons", "keys">>}

\* The calls of acquire(): position, lock and position after it.
Acquires ==
    {<<"schedule", "ptable", "pick">>, <<"consoleread", "input", "read">>,
     <<"sleep", "ptable", "asleep">>, <<"woken", "input", "read">>,
     <<"consolewrite", "cons", "write">>, <<"exit", "ptable", "zombie">>,
     <<"consoleintr", "input", "keys">>, <<"wakeup", "ptable", "wake">>,
     <<"yield", "ptable", "yields">>, cprintf}

acquiring(c) ==
    \E a \in Acquires :
        /\ At(c, a[1]) /\ acquire(c, a[2])
        /\ UNCHANGED <<input, run, main, intr, saved, state, killed, got>>

acquired(c) ==
    \E a \in Acquires :
        /\ here(c) = a[1] /\ panic = "none" /\ xchg(c, a[2]) /\ goto(c, a[3])
        /\ UNCHANGED <<input, run, saved, state, killed, got>>

\* The sections that only release a lock and go on.
Releases ==
    {<<"back", "ptable", "sti">>, <<"forkret", "ptable", "trapret">>, <<"awake", "ptable", "woken">>,
     <<"write", "cons", "user">>, <<"yielded", "ptable", "iret">>,
     <<"readdone", "input", "user">>, <<"keysdone", "input", "iret">>} \cup procdump

releasing(c) ==
    \E a \in Releases :
        /\ At(c, a[1]) /\ release(c, a[2]) /\ goto(c, a[3])
        /\ UNCHANGED <<input, run, saved, state, killed, got>>

-----------------------------------------------------------------------------
(* Processes and interrupts                                                *)

\* The scheduler turns interrupts on before it looks for a process; a new
\* process enters user mode with them on.
sti(c) ==
    /\ \/ At(c, "sti") /\ goto(c, "schedule")
       \/ At(c, "trapret") /\ goto(c, "user")
    /\ iF' = [iF EXCEPT ![c] = TRUE]
    /\ UNCHANGED <<locked, ncli, intena, spinning, panic, input, run, saved, state, killed, got>>

\* Mutant: the process goes on with the intena of the CPU.
resumes_asis(c, p) == intena[c]

\* cpu->intena after swtch() back to p.
resumes(c, p) == IF main[p] = "forkret" THEN intena[c] ELSE saved[p]

scheduler(c) ==
    /\ At(c, "pick") /\ goto(c, "back")
    /\ \/ \E p \in Procs :
             /\ state[p] = "RUNNABLE"
             /\ state' = [state EXCEPT ![p] = "RUNNING"] /\ run' = [run EXCEPT ![c] = p]
             /\ intena' = [intena EXCEPT ![c] = resumes(c, p)]
       \/ (\A p \in Procs : state[p] # "RUNNABLE") /\ UNCHANGED <<state, run, intena>>
    /\ UNCHANGED <<locked, iF, ncli, spinning, panic, input, saved, killed, got>>

\* sched(): the process in state s leaves the CPU, to go on later.
sched(c, s, locks) ==
    /\ panic' = IF ~ holding(c, "ptable") THEN "sched ptable.lock"
                ELSE IF locks # 1 THEN "sched locks"
                ELSE IF iF[c] THEN "sched interruptible" ELSE panic
    /\ saved' = [saved EXCEPT ![run[c]] = intena[c]]
    /\ state' = [state EXCEPT ![run[c]] = s] /\ run' = [run EXCEPT ![c] = c]

\* The timer interrupt makes a process yield.
yield(c) ==
    /\ At(c, "yields") /\ goto(c, "yielded") /\ sched(c, "RUNNABLE", ncli[c])
    /\ UNCHANGED <<locked, iF, ncli, intena, spinning, input, killed, got>>

exit(c) ==
    /\ At(c, "zombie") /\ goto(c, "gone") /\ sched(c, "ZOMBIE", ncli[c])
    /\ UNCHANGED <<locked, iF, ncli, intena, spinning, input, killed, got>>

\* sleep(): the caller's lock is released under ptable.lock.
sleep(c) ==
    /\ At(c, "asleep") /\ goto(c, "awake") /\ sched(c, "SLEEPING", ncli[c] - 1)
    /\ locked' = [locked EXCEPT !["input"] = None] /\ popcli(c)
    /\ UNCHANGED <<intena, spinning, input, killed, got>>

\* An interrupt, from the keyboard or, while a process runs, from the timer.
interrupt(c, handler) ==
    /\ iF[c] /\ panic = "none"
    /\ handler = "yield" => run[c] \in Procs
    /\ intr' = [intr EXCEPT ![run[c]] = handler] /\ iF' = [iF EXCEPT ![c] = FALSE]
    /\ UNCHANGED <<locked, ncli, intena, spinning, panic, input, run, main, saved, state, killed, got>>

iret(c) ==
    /\ At(c, "iret")
    /\ intr' = [intr EXCEPT ![run[c]] = "none"] /\ iF' = [iF EXCEPT ![c] = TRUE]
    /\ UNCHANGED <<locked, ncli, intena, spinning, panic, input, run, main, saved, state, killed, got>>

\* A process calls read() or write() of the console, or leaves if it was killed.
syscall(c) ==
    /\ At(c, "user")
    /\ IF killed[run[c]] THEN goto(c, "exit")
       ELSE goto(c, "consoleread") \/ goto(c, "consolewrite")
    /\ got' = [got EXCEPT ![run[c]] = FALSE]
    /\ UNCHANGED <<lockvars, input, run, saved, state, killed>>

\* kill(p), under ptable.lock.
kill(p) ==
    /\ locked["ptable"] = None /\ panic = "none" /\ ~ killed[p]
    /\ killed' = [killed EXCEPT ![p] = TRUE]
    /\ state' = [state EXCEPT ![p] = IF @ = "SLEEPING" THEN "RUNNABLE" ELSE @]
    /\ UNCHANGED <<lockvars, input, run, main, intr, saved, got>>

-----------------------------------------------------------------------------
(* Input                                                                   *)

plus(i, k) == (i + k) % WORD
minus(i, k) == (i + WORD - k) % WORD

room == minus(e, r) < INPUT_BUF

\* '\r' is stored as '\n'.
stored(key) == IF key = "return" THEN "newline" ELSE key

completes(ch) == ch \in {"newline", "^D"} \/ plus(e, 1) = plus(r, INPUT_BUF)

\* Mutant: only the end of a line wakes the readers.
announce_newline(c, ch) == IF ch = "newline" THEN goto(c, "wakeup") ELSE UNCHANGED <<main, intr>>

\* A completed line wakes the readers.
announce(c, ch) == goto(c, "wakeup")

\* The index that ^U leaves: after the last '\n', but not below w.
lineStart ==
    LET erased == {k \in 0 .. minus(e, w) :
                      \A j \in 1 .. k : buf[minus(e, j) % INPUT_BUF] # "newline"}
    IN  minus(e, CHOOSE k \in erased : \A j \in erased : j <= k)

\* Mutant: backspace goes past the start of the line.
erasable_always == TRUE

erasable == e # w

\* One turn of the loop of consoleintr().
consoleintr(c, key) ==
    /\ At(c, "keys")
    /\ CASE key = "^P" -> goto(c, "procdump") /\ UNCHANGED input
         [] key = "^U" -> e' = lineStart /\ UNCHANGED <<buf, r, w, main, intr>>
         [] key = "^H" -> /\ e' = IF erasable THEN minus(e, 1) ELSE e
                          /\ UNCHANGED <<buf, r, w, main, intr>>
         [] OTHER ->
              /\ room
              /\ buf' = [buf EXCEPT ![e % INPUT_BUF] = stored(key)]
              /\ e' = plus(e, 1)
              /\ IF completes(stored(key)) THEN w' = e' /\ announce(c, stored(key))
                 ELSE UNCHANGED <<w, main, intr>>
              /\ UNCHANGED r
    /\ UNCHANGED <<lockvars, run, saved, state, killed, got>>

\* No key is left.
nokey(c) ==
    /\ At(c, "keys") /\ goto(c, "keysdone")
    /\ UNCHANGED <<lockvars, input, run, saved, state, killed, got>>

\* wakeup(&input.r), with its release of ptable.lock.
wakeup(c) ==
    /\ At(c, "wake") /\ release(c, "ptable") /\ goto(c, "keys")
    /\ state' = [p \in Procs |-> IF state[p] = "SLEEPING" THEN "RUNNABLE" ELSE state[p]]
    /\ UNCHANGED <<input, run, saved, killed, got>>

\* ^D after other characters is left for the next call.
keeps(p) == got[p]

\* One turn of the loop of consoleread(); the caller's n may be reached by any
\* character.
consoleread(c) ==
    LET p == run[c]
        ch == buf[r % INPUT_BUF]
    IN  /\ At(c, "read")
        /\ IF r = w
           THEN goto(c, IF killed[p] THEN "readdone" ELSE "sleep") /\ UNCHANGED <<r, got>>
           ELSE IF ch = "^D"
           THEN /\ r' = IF keeps(p) THEN r ELSE plus(r, 1)
                /\ goto(c, "readdone") /\ UNCHANGED got
           ELSE /\ r' = plus(r, 1) /\ got' = [got EXCEPT ![p] = TRUE]
                /\ \/ goto(c, "readdone")
                   \/ ch # "newline" /\ UNCHANGED <<main, intr>>
        /\ UNCHANGED <<lockvars, buf, w, e, run, saved, state, killed>>

-----------------------------------------------------------------------------

Next ==
    \/ \E c \in CPUs :
         \/ acquiring(c) \/ acquired(c) \/ releasing(c)
         \/ sti(c) \/ scheduler(c) \/ yield(c) \/ exit(c) \/ sleep(c)
         \/ iret(c) \/ syscall(c) \/ nokey(c) \/ wakeup(c) \/ consoleread(c)
         \/ \E key \in Keys : consoleintr(c, key)
         \/ \E handler \in {"consoleintr", "yield"} : interrupt(c, handler)
    \/ \E p \in Procs : kill(p)

Spec == Init /\ [][Next]_vars

-----------------------------------------------------------------------------
(* Properties                                                              *)

\* The variables have their types, and the line being typed and what waits to be
\* read fit into the ring: e - r <= INPUT_BUF with w between them.
TypeOK ==
    /\ locked \in [Locks -> CPUs \cup {None}] /\ iF \in [CPUs -> BOOLEAN]
    /\ ncli \in [CPUs -> 0 .. 3] /\ intena \in [CPUs -> BOOLEAN]
    /\ {r, w, e} \subseteq 0 .. WORD - 1
    /\ minus(w, r) + minus(e, w) <= INPUT_BUF
    /\ run \in [CPUs -> Threads]
    /\ state \in [Procs -> {"RUNNABLE", "RUNNING", "SLEEPING", "ZOMBIE"}]

one(b) == IF b THEN 1 ELSE 0

\* A CPU that holds a lock has interrupts off, and ncli counts its locks, with
\* the one it waits for: so no handler can ask for a lock its own CPU holds,
\* and acquire(), release(), popcli() and sched() never panic
\* (spinlock.c:25, proc.c:418).
LocksMaskInterrupts ==
    /\ TypeOK
    /\ panic = "none"
    /\ \A c \in CPUs :
         /\ ncli[c] = one(holding(c, "input")) + one(holding(c, "cons"))
                         + one(holding(c, "ptable")) + one(spinning[c])
         /\ ncli[c] > 0 => ~ iF[c]

\* pushcli() and popcli() give back the interrupt flag they found, on whatever
\* CPU the process is by then: handlers run with interrupts off to their end,
\* system calls and user code outside locks with interrupts on (sched saves
\* intena for this, proc.c:431).
InterruptsRestored ==
    \A c \in CPUs : (run[c] \in Procs /\ ncli[c] = 0) =>
        (iF[c] <=> intr[run[c]] = "none")

\* A reader sleeps only while nothing waits to be read, or the handler that
\* completed the line is about to wake it (console.c:217).
ReaderWoken ==
    (\E p \in Procs : state[p] = "SLEEPING") /\ r # w
        => \E t \in Threads : intr[t] \in {"wakeup", "wake"}

\* The characters of a part of the ring.
part(from, to) == [k \in 1 .. minus(to, from) |-> buf[plus(from, k - 1) % INPUT_BUF]]

Abs == INSTANCE AbsConsole WITH
    Chars <- {stored(k) : k \in Keys \ {"^P", "^U", "^H"}}, Size <- INPUT_BUF,
    complete <- part(r, w), line <- part(w, e)

\* The ring with its wrapping indices is a line under edit and a queue of
\* complete lines: editing never touches a complete line and no character is
\* lost, doubled or reordered between interrupt and reader (console.c:188).
RefinesAbs == Abs!Spec

=============================================================================
