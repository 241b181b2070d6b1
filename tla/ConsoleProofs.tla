--------------------------- MODULE ConsoleProofs ----------------------------
(***************************************************************************)
(* The safety of Console, and that its ring is what AbsConsole promises,   *)
(* for any number of CPUs and processes and any size of the ring.          *)
(***************************************************************************)
EXTENDS Console, RingLemmas

\* Where a scheduler, a process and a handler can be.
SchedulerAt == {"sti", "schedule", "pick", "back"}
ProcessAt ==
    {"forkret", "trapret", "user", "consoleread", "read", "sleep", "asleep", "awake", "woken",
     "readdone", "consolewrite", "write", "exit", "zombie", "gone"}
TimerAt == {"yield", "yields", "yielded"}
HandlerAt ==
    {"yield", "yields", "yielded", "consoleintr", "keys", "procdump", "cprintf", "wakeup", "wake",
     "keysdone", "iret"}

\* Where each lock is held.
PtableAt == {"pick", "back", "forkret", "awake", "yields", "yielded", "zombie", "asleep", "wake"}
InputAt ==
    {"read", "sleep", "asleep", "readdone", "keys", "procdump", "cprintf", "wakeup", "wake",
     "keysdone"}
ConsAt == {"write", "cprintf"}

Holds(where, l) ==
    \/ l = "ptable" /\ where \in PtableAt
    \/ l = "input" /\ where \in InputAt
    \/ l = "cons" /\ where \in ConsAt

Depth(where) ==
    (IF where \in PtableAt THEN 1 ELSE 0) + (IF where \in InputAt THEN 1 ELSE 0)
        + (IF where \in ConsAt THEN 1 ELSE 0)

EntryAt ==
    {"schedule", "consoleread", "sleep", "woken", "consolewrite", "exit", "consoleintr", "wakeup",
     "yield", "procdump"}

Types ==
    /\ locked \in [Locks -> CPUs \cup {None}] /\ iF \in [CPUs -> BOOLEAN]
    /\ ncli \in [CPUs -> Nat] /\ intena \in [CPUs -> BOOLEAN] /\ spinning \in [CPUs -> BOOLEAN]
    /\ panic = "none" /\ run \in [CPUs -> Threads]
    /\ main \in [Threads -> SchedulerAt \cup ProcessAt]
    /\ intr \in [Threads -> HandlerAt \cup {"none"}]
    /\ saved \in [Procs -> BOOLEAN]
    /\ state \in [Procs -> {"RUNNABLE", "RUNNING", "SLEEPING", "ZOMBIE"}]

\* A process that is not on a CPU is where sched() left it, or has not run yet.
Parked(p) ==
    intr[p] = "yielded" \/ (intr[p] = "none" /\ main[p] \in {"forkret", "awake"})

\* Threads are where they can be, each on one CPU at most, and a handler runs on
\* top of code that holds no lock.
Places ==
    /\ \A c \in CPUs :
         /\ main[c] \in SchedulerAt /\ intr[c] \notin TimerAt
         /\ run[c] # c => run[c] \in Procs /\ main[c] = "back" /\ intr[c] = "none"
         /\ run[c] \in Procs => state[run[c]] = "RUNNING"
    /\ \A p \in Procs :
         /\ main[p] \in ProcessAt
         /\ state[p] \in {"RUNNABLE", "SLEEPING"} => Parked(p)
    /\ \A c, d \in CPUs : run[c] = run[d] => c = d
    /\ \A t \in Threads : intr[t] # "none" => \A l \in Locks : ~ Holds(main[t], l)

\* A CPU holds the locks that belong to where it is, and has counted them.
LockAt(c) ==
    /\ \A l \in Locks : locked[l] = c <=> Holds(here(c), l)
    /\ ncli[c] = Depth(here(c)) + (IF spinning[c] THEN 1 ELSE 0)
    /\ ncli[c] > 0 => ~ iF[c]
    /\ spinning[c] => here(c) \in EntryAt

LockInv == \A c \in CPUs : LockAt(c)

\* The interrupt flag that the code on c has outside locks.
On(c) == IF ncli[c] = 0 THEN iF[c] ELSE intena[c]

\* Handlers have interrupts off, processes on, and the scheduler on from sti() until
\* it switches; a process that left the CPU has saved what it had.
FlagAt(c) ==
    /\ intr[run[c]] # "none" => ~ On(c)
    /\ intr[run[c]] = "none" /\ (run[c] \in Procs \/ main[c] \in {"schedule", "pick"}) => On(c)

SavedAt(p) ==
    state[p] \in {"RUNNABLE", "SLEEPING"} /\ main[p] # "forkret" => (saved[p] <=> intr[p] = "none")

FlagInv == (\A c \in CPUs : FlagAt(c)) /\ (\A p \in Procs : SavedAt(p))

\* A reader that is about to sleep, under the lock, has nothing to read.
SleepInv ==
    /\ \A c \in CPUs : here(c) \in {"sleep", "asleep"} => r = w
    /\ ReaderWoken

\* The line being typed holds no end of a line.
RingInv ==
    /\ r \in 0 .. WORD - 1 /\ w \in 0 .. WORD - 1 /\ e \in 0 .. WORD - 1
    /\ minus(w, r) + minus(e, w) <= INPUT_BUF
    /\ DOMAIN buf = 0 .. INPUT_BUF - 1
    /\ \A k \in 0 .. minus(e, w) - 1 : buf[plus(w, k) % INPUT_BUF] # "newline"

IInv == Types /\ Places /\ LockInv /\ FlagInv /\ SleepInv /\ RingInv

-----------------------------------------------------------------------------
(* Positions                                                               *)

\* A leaf is tried with Zenon first, briefly: most need no arithmetic.
USE ZenonT(2), SMTT(20), ZenonT(20)

LEMMA Constants ==
    /\ INPUT_BUF \in Nat \ {0} /\ WORD \in Nat \ {0} /\ WORD % INPUT_BUF = 0 /\ INPUT_BUF < WORD
    /\ Locks = {"input", "cons", "ptable"}
    /\ \A p \in Procs : p \notin CPUs /\ p # None
    /\ \A c \in CPUs : c \notin Procs /\ c # None /\ c \in Threads
    /\ \A p \in Procs : p \in Threads
  BY ConstAssumption DEF Threads

\* The places of the three kinds of code are different.
Same(x, y) ==
    /\ x \in SchedulerAt <=> y \in SchedulerAt
    /\ x \in ProcessAt <=> y \in ProcessAt
    /\ x \in HandlerAt <=> y \in HandlerAt
    /\ y \in TimerAt => x \in TimerAt

LEMMA Kinds ==
    /\ SchedulerAt \cap ProcessAt = {} /\ SchedulerAt \cap HandlerAt = {}
    /\ ProcessAt \cap HandlerAt = {} /\ "none" \notin HandlerAt /\ TimerAt \subseteq HandlerAt
  BY DEF SchedulerAt, ProcessAt, HandlerAt, TimerAt

LEMMA DepthType == \A x : Depth(x) \in 0 .. 2
  BY DEF Depth, PtableAt, InputAt, ConsAt

\* acquire() is called where its lock is not held, and leads to where it is.
Enters(x, l, y) ==
    /\ l \in Locks /\ x \in EntryAt /\ Same(x, y)
    /\ x \in SchedulerAt \cup ProcessAt \cup HandlerAt
    /\ \A k \in Locks : Holds(y, k) <=> Holds(x, k) \/ k = l
    /\ ~ Holds(x, l) /\ Depth(y) = Depth(x) + 1
    /\ y \in {"schedule", "pick"} => x \in {"schedule", "pick"}
    /\ y \in {"sleep", "asleep"} => x \in {"sleep", "asleep"}
    /\ x \in {"wakeup", "wake"} => y \in {"wakeup", "wake"}

LEMMA AcquireTable ==
    ASSUME NEW a \in Acquires
    PROVE  Enters(a[1], a[2], a[3])
<1>1. PICK x, l, y : a[1] = x /\ a[2] = l /\ a[3] = y
  OBVIOUS
<1>2. \/ x = "schedule" /\ l = "ptable" /\ y = "pick"
      \/ x = "consoleread" /\ l = "input" /\ y = "read"
      \/ x = "sleep" /\ l = "ptable" /\ y = "asleep"
      \/ x = "woken" /\ l = "input" /\ y = "read"
      \/ x = "consolewrite" /\ l = "cons" /\ y = "write"
      \/ x = "exit" /\ l = "ptable" /\ y = "zombie"
      \/ x = "consoleintr" /\ l = "input" /\ y = "keys"
      \/ x = "wakeup" /\ l = "ptable" /\ y = "wake"
      \/ x = "yield" /\ l = "ptable" /\ y = "yields"
      \/ x = "procdump" /\ l = "cons" /\ y = "cprintf"
  BY <1>1 DEF Acquires, cprintf
<1>3. Same(x, y) /\ x \in SchedulerAt \cup ProcessAt \cup HandlerAt /\ x \in EntryAt
  BY <1>2 DEF Same, SchedulerAt, ProcessAt, HandlerAt, TimerAt, EntryAt
<1>4. /\ l \in Locks
      /\ ~ Holds(x, l)
      /\ \A k \in Locks : Holds(y, k) <=> Holds(x, k) \/ k = l
  BY <1>2, Constants DEF Holds, PtableAt, InputAt, ConsAt
<1>5. Depth(y) = Depth(x) + 1
  BY <1>2 DEF Depth, PtableAt, InputAt, ConsAt
<1> QED
  BY <1>1, <1>2, <1>3, <1>4, <1>5 DEF Enters

\* release() is called where its lock is held, and leads to where it is not.
Leaves(x, l, y) ==
    /\ l \in Locks /\ Same(x, y)
    /\ x \in SchedulerAt \cup ProcessAt \cup HandlerAt
    /\ \A k \in Locks : Holds(y, k) <=> Holds(x, k) /\ k # l
    /\ Holds(x, l) /\ Depth(x) = Depth(y) + 1
    /\ y \notin {"schedule", "pick"} /\ y \notin {"sleep", "asleep"}

LEMMA ReleaseTable ==
    ASSUME NEW a \in Releases
    PROVE  Leaves(a[1], a[2], a[3]) /\ a[1] \notin {"wakeup", "wake"}
<1>1. PICK x, l, y : a[1] = x /\ a[2] = l /\ a[3] = y
  OBVIOUS
<1>2. \/ x = "back" /\ l = "ptable" /\ y = "sti"
      \/ x = "forkret" /\ l = "ptable" /\ y = "trapret"
      \/ x = "awake" /\ l = "ptable" /\ y = "woken"
      \/ x = "write" /\ l = "cons" /\ y = "user"
      \/ x = "yielded" /\ l = "ptable" /\ y = "iret"
      \/ x = "readdone" /\ l = "input" /\ y = "user"
      \/ x = "keysdone" /\ l = "input" /\ y = "iret"
      \/ x = "cprintf" /\ l = "cons" /\ y \in {"procdump", "keys"}
  BY <1>1 DEF Releases, procdump
<1>3. Same(x, y) /\ x \in SchedulerAt \cup ProcessAt \cup HandlerAt
  BY <1>2 DEF Same, SchedulerAt, ProcessAt, HandlerAt, TimerAt
<1>4. /\ l \in Locks
      /\ Holds(x, l)
      /\ \A k \in Locks : Holds(y, k) <=> Holds(x, k) /\ k # l
  BY <1>2, Constants DEF Holds, PtableAt, InputAt, ConsAt
<1>5. Depth(x) = Depth(y) + 1
  BY <1>2 DEF Depth, PtableAt, InputAt, ConsAt
<1> QED
  BY <1>1, <1>2, <1>3, <1>4, <1>5 DEF Leaves

\* wakeup() releases ptable.lock and goes back to the keys.
LEMMA WakeLeaves == Leaves("wake", "ptable", "keys")
<1>1. Same("wake", "keys") /\ "wake" \in SchedulerAt \cup ProcessAt \cup HandlerAt
  BY DEF Same, SchedulerAt, ProcessAt, HandlerAt, TimerAt
<1>2. /\ "ptable" \in Locks
      /\ Holds("wake", "ptable")
      /\ \A k \in Locks : Holds("keys", k) <=> Holds("wake", k) /\ k # "ptable"
  BY Constants DEF Holds, PtableAt, InputAt, ConsAt
<1>3. Depth("wake") = Depth("keys") + 1
  BY DEF Depth, PtableAt, InputAt, ConsAt
<1> QED
  BY <1>1, <1>2, <1>3 DEF Leaves

-----------------------------------------------------------------------------
(* Moving within a thread                                                  *)

\* The place of the code on a CPU tells whose it is.
LEMMA Here ==
    ASSUME Types, Places, NEW c \in CPUs
    PROVE  /\ run[c] \in Threads
           /\ intr[run[c]] # "none" <=> here(c) \in HandlerAt
           /\ here(c) \in SchedulerAt => run[c] = c /\ intr[c] = "none" /\ main[c] = here(c)
           /\ here(c) \in ProcessAt =>
                 run[c] \in Procs /\ intr[run[c]] = "none" /\ main[run[c]] = here(c)
           /\ here(c) \in HandlerAt => intr[run[c]] = here(c)
           /\ here(c) \in TimerAt => run[c] \in Procs
<1>1. run[c] \in Threads /\ run[c] \in Procs \cup {c}
  BY DEF Types, Places
<1>2. intr[run[c]] \in HandlerAt \cup {"none"} /\ main[run[c]] \in SchedulerAt \cup ProcessAt
  BY <1>1 DEF Types
<1>3. intr[run[c]] # "none" <=> here(c) \in HandlerAt
  BY <1>2, Kinds DEF here
<1>4. here(c) \in SchedulerAt => run[c] = c /\ intr[c] = "none" /\ main[c] = here(c)
  BY <1>1, <1>2, Kinds DEF here, Places
<1>5. here(c) \in ProcessAt => run[c] \in Procs /\ intr[run[c]] = "none" /\ main[run[c]] = here(c)
  BY <1>1, <1>2, Kinds DEF here, Places
<1>6. here(c) \in HandlerAt => intr[run[c]] = here(c)
  BY <1>3 DEF here
<1>7. here(c) \in TimerAt => run[c] \in Procs
  BY <1>1, <1>6, Kinds DEF Places
<1> QED
  BY <1>1, <1>3, <1>4, <1>5, <1>6, <1>7

\* States change at most from SLEEPING to RUNNABLE.
SameStates ==
    \A p \in Procs : state'[p] = state[p] \/ (state[p] = "SLEEPING" /\ state'[p] = "RUNNABLE")

\* A CPU moves on within its thread.
Moved(c, y) ==
    /\ here(c)' = y
    /\ \A d \in CPUs : d # c => here(d)' = here(d)
    /\ main' \in [Threads -> SchedulerAt \cup ProcessAt]
    /\ intr' \in [Threads -> HandlerAt \cup {"none"}]
    /\ \A t \in Threads : intr'[t] = "none" <=> intr[t] = "none"
    /\ \A t \in Threads : t # run[c] => intr'[t] = intr[t] /\ main'[t] = main[t]

LEMMA Move ==
    ASSUME Types, Places, NEW c \in CPUs, NEW y, goto(c, y), Same(here(c), y), run' = run,
           SameStates
    PROVE  Moved(c, y) /\ Places'
<1> DEFINE t == run[c]
<1>1. /\ t \in Threads /\ (intr[t] # "none" <=> here(c) \in HandlerAt)
      /\ (here(c) \in SchedulerAt => t = c) /\ (here(c) \in ProcessAt => t \in Procs)
      /\ (here(c) \in TimerAt => t \in Procs)
  BY Here
<1>2. /\ intr[t] # "none" => y \in HandlerAt /\ intr' = [intr EXCEPT ![t] = y] /\ main' = main
      /\ intr[t] = "none" => /\ y \in SchedulerAt \cup ProcessAt /\ y \notin HandlerAt
                             /\ main' = [main EXCEPT ![t] = y] /\ intr' = intr
  <2>1. intr[t] = "none" => here(c) \in SchedulerAt \cup ProcessAt
    BY <1>1 DEF here, Types
  <2> QED
    BY <1>1, <2>1 DEF goto, Same
<1>3. /\ main' \in [Threads -> SchedulerAt \cup ProcessAt]
      /\ intr' \in [Threads -> HandlerAt \cup {"none"}]
  BY <1>1, <1>2 DEF Types
<1>4. \A s \in Threads : s # t => intr'[s] = intr[s] /\ main'[s] = main[s]
  BY <1>1, <1>2 DEF Types
<1>5. /\ intr[t] # "none" => intr'[t] = y /\ main'[t] = main[t]
      /\ intr[t] = "none" => main'[t] = y /\ intr'[t] = "none"
  BY <1>1, <1>2 DEF Types
<1>6. \A s \in Threads : intr'[s] = "none" <=> intr[s] = "none"
  BY <1>2, <1>4, <1>5, Kinds
<1>7. here(c)' = y
  BY <1>1, <1>2, <1>5, Kinds DEF here
<1>8. ASSUME NEW d \in CPUs, d # c
      PROVE  here(d)' = here(d)
  <2>1. run[d] # t /\ run[d] \in Threads
    BY <1>8 DEF Places, Types
  <2> QED
    BY <1>4, <2>1 DEF here
<1>9. ASSUME NEW d \in CPUs
      PROVE  /\ main'[d] \in SchedulerAt /\ intr'[d] \notin TimerAt
             /\ run[d] # d => run[d] \in Procs /\ main'[d] = "back" /\ intr'[d] = "none"
             /\ run[d] \in Procs => state'[run[d]] = "RUNNING"
  <2>1. /\ main[d] \in SchedulerAt /\ intr[d] \notin TimerAt
        /\ run[d] # d => run[d] \in Procs /\ main[d] = "back" /\ intr[d] = "none"
        /\ run[d] \in Procs => state[run[d]] = "RUNNING"
    BY DEF Places
  <2>2. run[d] \in Procs => state'[run[d]] = "RUNNING"
    BY <2>1 DEF SameStates
  <2>3. CASE d # t
    BY <1>4, <2>1, <2>2, <2>3, Constants
  <2>4. CASE d = t
    <3>1. d = c /\ run[d] = d
      <4>1. t \in Procs \cup {c}
        BY DEF Places
      <4> QED
        BY <2>4, <4>1, Constants
    <3>2. here(c) \notin ProcessAt /\ here(c) \notin TimerAt
      BY <1>1, <2>4, Constants
    <3>3. intr[t] = "none" => y \in SchedulerAt
      <4>1. intr[t] = "none" => here(c) \in SchedulerAt
        BY <3>2, <1>1 DEF here, Types
      <4> QED
        BY <4>1 DEF Same
    <3>4. y \notin TimerAt
      BY <3>2 DEF Same
    <3> QED
      BY <1>5, <2>1, <2>2, <2>4, <3>1, <3>3, <3>4, Kinds
  <2> QED
    BY <2>3, <2>4
<1>10. ASSUME NEW p \in Procs
       PROVE  /\ main'[p] \in ProcessAt
              /\ state'[p] \in {"RUNNABLE", "SLEEPING"} => Parked(p)'
  <2>1. /\ main[p] \in ProcessAt
        /\ state[p] \in {"RUNNABLE", "SLEEPING"} => Parked(p)
        /\ state'[p] \in {"RUNNABLE", "SLEEPING"} => state[p] \in {"RUNNABLE", "SLEEPING"}
        /\ p \in Threads
    BY Constants DEF Places, SameStates
  <2>2. CASE p # t
    BY <1>4, <2>1, <2>2 DEF Parked
  <2>3. CASE p = t
    <3>1. state[p] = "RUNNING"
      BY <2>3 DEF Places
    <3>2. main'[p] \in ProcessAt
      <4>1. here(c) \notin SchedulerAt
        BY <1>1, <2>3, Constants
      <4>2. intr[t] = "none" => here(c) \in ProcessAt
        BY <1>1, <4>1 DEF here, Types
      <4> QED
        BY <1>5, <2>1, <2>3, <4>2 DEF Same
    <3> QED
      BY <2>1, <3>1, <3>2
  <2> QED
    BY <2>2, <2>3
<1>11. ASSUME NEW s \in Threads, intr'[s] # "none", NEW l \in Locks
       PROVE  ~ Holds(main'[s], l)
  <2>1. intr[s] # "none" /\ main'[s] = main[s]
    BY <1>4, <1>5, <1>6, <1>11
  <2> QED
    BY <2>1 DEF Places
<1>12. Moved(c, y)
  BY <1>3, <1>4, <1>6, <1>7, <1>8 DEF Moved
<1>13. Places'
  <2>1. \A d, f \in CPUs : run'[d] = run'[f] => d = f
    BY DEF Places
  <2> QED
    BY <1>9, <1>10, <1>11, <2>1 DEF Places
<1> QED
  BY <1>12, <1>13
-----------------------------------------------------------------------------
(* What most steps leave as it was                                         *)

LEMMA RingKept ==
    ASSUME RingInv, UNCHANGED input
    PROVE  RingInv'
  BY DEF RingInv, input, plus, minus

LEMMA SleepKept ==
    ASSUME SleepInv, r' = r, w' = w,
           \A d \in CPUs : here(d)' \in {"sleep", "asleep"} => here(d) \in {"sleep", "asleep"},
           \A t \in Threads : intr[t] \in {"wakeup", "wake"} => intr'[t] \in {"wakeup", "wake"},
           \A p \in Procs : state'[p] = "SLEEPING" => state[p] = "SLEEPING"
    PROVE  SleepInv'
<1>1. \A d \in CPUs : here(d)' \in {"sleep", "asleep"} => r' = w'
  BY DEF SleepInv
<1>2. ReaderWoken'
  BY DEF SleepInv, ReaderWoken
<1> QED
  BY <1>1, <1>2 DEF SleepInv

\* A step within a thread, or of none, that keeps the interrupt flag of every CPU.
LEMMA FlagKept ==
    ASSUME Types, Places, FlagInv, run' = run, saved' = saved, SameStates,
           NEW c \in CPUs,
           \A d \in CPUs : On(d)' <=> On(d),
           \A t \in Threads : intr'[t] = "none" <=> intr[t] = "none",
           \A t \in Threads : t # run[c] => main'[t] = main[t],
           \A d \in CPUs : main'[d] \in {"schedule", "pick"} => main[d] \in {"schedule", "pick"}
    PROVE  FlagInv'
<1>1. ASSUME NEW d \in CPUs
      PROVE  FlagAt(d)'
  <2>1. run[d] \in Threads /\ FlagAt(d)
    BY DEF Types, FlagInv
  <2> QED
    BY <2>1 DEF FlagAt
<1>2. ASSUME NEW p \in Procs
      PROVE  SavedAt(p)'
  <2>1. CASE state'[p] \in {"RUNNABLE", "SLEEPING"}
    <3>1. state[p] \in {"RUNNABLE", "SLEEPING"} /\ p \in Threads
      BY <2>1, Constants DEF SameStates
    <3>2. p # run[c]
      BY <3>1 DEF Places
    <3> QED
      BY <3>1, <3>2 DEF FlagInv, SavedAt
  <2>2. CASE state'[p] \notin {"RUNNABLE", "SLEEPING"}
    BY <2>2 DEF SavedAt
  <2> QED
    BY <2>1, <2>2
<1> QED
  BY <1>1, <1>2 DEF FlagInv

\* A CPU that moves on takes no other into the lists above.
LEMMA MoveKeeps ==
    ASSUME Types, Places, SleepInv, NEW c \in CPUs, NEW y, Moved(c, y), run' = run,
           y \in {"sleep", "asleep"} => here(c) \in {"sleep", "asleep"},
           here(c) \in {"wakeup", "wake"} => y \in {"wakeup", "wake"}
    PROVE  /\ \A d \in CPUs : here(d)' \in {"sleep", "asleep"} => here(d) \in {"sleep", "asleep"}
           /\ \A t \in Threads : intr[t] \in {"wakeup", "wake"} => intr'[t] \in {"wakeup", "wake"}
<1>1. \A d \in CPUs : here(d)' \in {"sleep", "asleep"} => here(d) \in {"sleep", "asleep"}
  BY DEF Moved
<1>2. ASSUME NEW t \in Threads, intr[t] \in {"wakeup", "wake"}
      PROVE  intr'[t] \in {"wakeup", "wake"}
  <2>1. CASE t # run[c]
    BY <1>2, <2>1 DEF Moved
  <2>2. CASE t = run[c]
    <3>1. here(c) = intr[t]
      BY <1>2, <2>2 DEF here
    <3>2. intr'[t] # "none"
      BY <1>2 DEF Moved
    <3>3. intr'[t] = y
      BY <2>2, <3>2 DEF Moved, here
    <3> QED
      BY <1>2, <3>1, <3>3
  <2> QED
    BY <2>1, <2>2
<1> QED
  BY <1>1, <1>2

\* What a step of c leaves of the other CPUs.
Others(c) ==
    \A d \in CPUs : d # c =>
        /\ here(d)' = here(d) /\ ncli'[d] = ncli[d] /\ iF'[d] = iF[d]
        /\ intena'[d] = intena[d] /\ spinning'[d] = spinning[d]
        /\ \A k \in Locks : locked'[k] = d <=> locked[k] = d

LEMMA OthersKept ==
    ASSUME LockInv, NEW c \in CPUs, Others(c), LockAt(c)'
    PROVE  LockInv'
<1>1. ASSUME NEW d \in CPUs, d # c
      PROVE  LockAt(d)'
  <2>1. /\ here(d)' = here(d) /\ ncli'[d] = ncli[d] /\ iF'[d] = iF[d]
        /\ spinning'[d] = spinning[d] /\ \A k \in Locks : locked'[k] = d <=> locked[k] = d
    BY <1>1 DEF Others
  <2>2. LockAt(d)
    BY DEF LockInv
  <2> QED
    BY <2>1, <2>2 DEF LockAt
<1> QED
  BY <1>1 DEF LockInv

\* A CPU that moves on within its thread gets into the scheduler's loop only if
\* that is where it goes.
LEMMA NotScheduling ==
    ASSUME Types, Places, NEW c \in CPUs, NEW y, Moved(c, y), goto(c, y), run' = run,
           y \notin {"schedule", "pick"}
    PROVE  \A d \in CPUs : main'[d] \in {"schedule", "pick"} => main[d] \in {"schedule", "pick"}
<1>1. ASSUME NEW d \in CPUs, main'[d] \in {"schedule", "pick"}
      PROVE  main'[d] = main[d]
  <2>1. CASE d # run[c]
    BY <2>1, Constants DEF Moved
  <2>2. CASE d = run[c]
    <3>1. run[c] = c /\ d = c /\ c \in Threads
      BY <2>2, Constants DEF Places
    <3>2. CASE intr[c] = "none"
      <4>1. here(c)' = main'[c]
        BY <3>1, <3>2 DEF Moved, here
      <4> QED
        BY <1>1, <3>1, <4>1 DEF Moved
    <3>3. CASE intr[c] # "none"
      BY <3>1, <3>3 DEF goto
    <3> QED
      BY <3>2, <3>3
  <2> QED
    BY <2>1, <2>2
<1> QED
  BY <1>1

\* A step that moves a CPU on and touches neither locks nor flags.
Quiet(c, y) ==
    /\ here(c) \in SchedulerAt \cup ProcessAt \cup HandlerAt
    /\ Same(here(c), y)
    /\ \A l \in Locks : Holds(y, l) <=> Holds(here(c), l)
    /\ Depth(y) = Depth(here(c))
    /\ y \notin {"schedule", "pick"}

LEMMA QuietStep ==
    ASSUME Types, Places, LockInv, FlagInv, NEW c \in CPUs, ~ spinning[c], NEW y,
           goto(c, y), Quiet(c, y), UNCHANGED <<lockvars, run, saved, state>>
    PROVE  /\ Moved(c, y)
           /\ Types' /\ Places' /\ LockInv' /\ FlagInv'
<1>0. UNCHANGED <<locked, iF, ncli, intena, spinning, panic, run, saved, state>>
  BY DEF lockvars
<1>1. Moved(c, y) /\ Places'
  <2>1. SameStates
    BY <1>0 DEF SameStates
  <2> QED
    BY <1>0, <2>1, Move DEF Quiet
<1>2. Types'
  BY <1>0, <1>1 DEF Types, Moved
<1>3. LockInv'
  <2>1. ASSUME NEW d \in CPUs
        PROVE  /\ \A l \in Locks : Holds(here(d)', l) <=> Holds(here(d), l)
               /\ Depth(here(d)') = Depth(here(d))
               /\ spinning[d] => here(d)' = here(d)
    BY <1>1 DEF Moved, Quiet
  <2>2. ASSUME NEW d \in CPUs
        PROVE  LockAt(d)'
    BY <1>0, <2>1 DEF LockInv, LockAt
  <2> QED
    BY <2>2 DEF LockInv
<1>4. FlagInv'
  <2>1. \A d \in CPUs : On(d)' <=> On(d)
    BY <1>0 DEF On
  <2>2. \A d \in CPUs : main'[d] \in {"schedule", "pick"} => main[d] \in {"schedule", "pick"}
    BY <1>0, <1>1, NotScheduling DEF Quiet
  <2>3. SameStates
    BY <1>0 DEF SameStates
  <2> QED
    BY <1>0, <1>1, <2>1, <2>2, <2>3, FlagKept DEF Moved
<1> QED
  BY <1>1, <1>2, <1>3, <1>4
-----------------------------------------------------------------------------
(* Locks                                                                   *)

\* acquire() up to its loop: interrupts go off, and intena remembers them.
LEMMA AcquiringStep ==
    ASSUME IInv, NEW c \in CPUs, acquiring(c)
    PROVE  IInv'
<1>0. Types /\ Places /\ LockInv /\ FlagInv /\ SleepInv /\ RingInv
  BY DEF IInv
<1>1. PICK a \in Acquires :
        /\ At(c, a[1]) /\ acquire(c, a[2])
        /\ UNCHANGED <<input, run, main, intr, saved, state, killed, got>>
  BY DEF acquiring
<1>2. PICK x, l, y : x = a[1] /\ l = a[2] /\ Enters(x, l, y)
  BY AcquireTable
<1>3. here(c) = x /\ ~ spinning[c] /\ l \in Locks /\ ~ Holds(x, l) /\ x \in EntryAt
  BY <1>1, <1>2 DEF At, Enters
<1>4. locked[l] # c
  BY <1>0, <1>3 DEF LockInv, LockAt
<1>5. /\ locked' = locked /\ panic' = panic /\ UNCHANGED <<run, main, intr, saved, state, input>>
      /\ iF' = [iF EXCEPT ![c] = FALSE] /\ ncli' = [ncli EXCEPT ![c] = @ + 1]
      /\ intena' = [intena EXCEPT ![c] = IF ncli[c] = 0 THEN iF[c] ELSE @]
      /\ spinning' = [spinning EXCEPT ![c] = TRUE]
  BY <1>1, <1>2, <1>4 DEF acquire, pushcli, cli, holding
<1>6. Types'
  BY <1>0, <1>5 DEF Types
<1>7. Places'
  BY <1>0, <1>5 DEF Places, Parked
<1>8. \A d \in CPUs : here(d)' = here(d)
  BY <1>5 DEF here
<1>9. LockInv'
  <2>1. ASSUME NEW d \in CPUs
        PROVE  LockAt(d)'
    <3>1. \A k \in Locks : locked'[k] = d <=> Holds(here(d), k)
      BY <1>0, <1>5 DEF LockInv, LockAt
    <3>2. CASE d = c
      <4>1. ncli'[c] = ncli[c] + 1 /\ ~ iF'[c] /\ spinning'[c]
        BY <1>0, <1>5 DEF Types
      <4>2. ncli[c] = Depth(here(c))
        BY <1>0, <1>3, DepthType DEF LockInv, LockAt
      <4> QED
        BY <1>3, <1>8, <3>1, <3>2, <4>1, <4>2, DepthType DEF LockAt
    <3>3. CASE d # c
      <4>1. ncli'[d] = ncli[d] /\ iF'[d] = iF[d] /\ spinning'[d] = spinning[d]
        BY <1>0, <1>5, <3>3 DEF Types
      <4> QED
        BY <1>0, <1>8, <3>1, <4>1 DEF LockInv, LockAt
    <3> QED
      BY <3>2, <3>3
  <2> QED
    BY <2>1 DEF LockInv
<1>10. FlagInv'
  <2>1. \A d \in CPUs : On(d)' <=> On(d)
    <3>1. ASSUME NEW d \in CPUs, d # c
          PROVE  On(d)' <=> On(d)
      <4>1. ncli'[d] = ncli[d] /\ iF'[d] = iF[d] /\ intena'[d] = intena[d]
        BY <1>0, <1>5, <3>1 DEF Types
      <4> QED
        BY <4>1 DEF On
    <3>2. On(c)' <=> On(c)
      <4>1. ncli'[c] # 0
        BY <1>0, <1>5 DEF Types
      <4>2. intena'[c] = IF ncli[c] = 0 THEN iF[c] ELSE intena[c]
        BY <1>0, <1>5 DEF Types
      <4> QED
        BY <4>1, <4>2 DEF On
    <3> QED
      BY <3>1, <3>2
  <2>2. SameStates
    BY <1>5 DEF SameStates
  <2> QED
    BY <1>0, <1>5, <2>1, <2>2, FlagKept
<1>11. SleepInv'
  BY <1>0, <1>5, <1>8, SleepKept DEF input
<1>12. RingInv'
  BY <1>0, <1>5, RingKept
<1> QED
  BY <1>6, <1>7, <1>9, <1>10, <1>11, <1>12 DEF IInv

\* The exchange takes the lock, and nothing else changes.
LEMMA AcquiredStep ==
    ASSUME IInv, NEW c \in CPUs, acquired(c)
    PROVE  IInv'
<1>0. Types /\ Places /\ LockInv /\ FlagInv /\ SleepInv /\ RingInv
  BY DEF IInv
<1>1. PICK a \in Acquires :
        /\ here(c) = a[1] /\ xchg(c, a[2]) /\ goto(c, a[3])
        /\ UNCHANGED <<input, run, saved, state, killed, got>>
  BY DEF acquired
<1>2. PICK x, l, y : x = a[1] /\ l = a[2] /\ y = a[3] /\ Enters(x, l, y)
  BY AcquireTable
<1>3. /\ here(c) = x /\ spinning[c] /\ locked[l] = None /\ goto(c, y)
      /\ locked' = [locked EXCEPT ![l] = c] /\ spinning' = [spinning EXCEPT ![c] = FALSE]
      /\ UNCHANGED <<iF, ncli, intena, panic, run, saved, state, input>>
  BY <1>1, <1>2 DEF xchg
<1>4. Moved(c, y) /\ Places' /\ SameStates
  <2>1. SameStates
    BY <1>3 DEF SameStates
  <2> QED
    BY <1>0, <1>2, <1>3, <2>1, Move DEF Enters
<1>5. Types'
  BY <1>0, <1>3, <1>4 DEF Types, Moved
<1>6. LockInv'
  <2>1. ASSUME NEW d \in CPUs, d # c
        PROVE  /\ here(d)' = here(d) /\ spinning'[d] = spinning[d]
               /\ \A k \in Locks : locked'[k] = d <=> locked[k] = d
    BY <1>0, <1>3, <1>4, <2>1, Constants DEF Moved, Types
  <2>2. /\ here(c)' = y /\ ~ spinning'[c]
        /\ \A k \in Locks : locked'[k] = c <=> locked[k] = c \/ k = l
    BY <1>0, <1>2, <1>3, <1>4 DEF Moved, Types, Enters
  <2>3. ncli[c] = Depth(x) + 1 /\ Depth(y) = Depth(x) + 1 /\ (ncli[c] > 0 => ~ iF[c])
    BY <1>0, <1>2, <1>3 DEF LockInv, LockAt, Enters
  <2>4. \A k \in Locks : locked'[k] = c <=> Holds(y, k)
    BY <1>0, <1>2, <1>3, <2>2 DEF LockInv, LockAt, Enters
  <2>5. ncli[c] = Depth(y) + 0
    BY <1>0, <2>3 DEF Types
  <2>6. ASSUME NEW d \in CPUs
        PROVE  LockAt(d)'
    <3>1. CASE d = c
      BY <1>3, <2>2, <2>3, <2>4, <2>5, <3>1 DEF LockAt
    <3>2. CASE d # c
      BY <1>0, <1>3, <2>1, <3>2 DEF LockInv, LockAt
    <3> QED
      BY <3>1, <3>2
  <2> QED
    BY <2>6 DEF LockInv
<1>7. FlagInv'
  <2>1. \A d \in CPUs : On(d)' <=> On(d)
    BY <1>3 DEF On
  <2>2. ASSUME NEW d \in CPUs, main'[d] \in {"schedule", "pick"}
        PROVE  main[d] \in {"schedule", "pick"}
    <3>1. CASE main'[d] = main[d]
      BY <2>2, <3>1
    <3>2. CASE main'[d] # main[d]
      <4>1. d = run[c] /\ d = c /\ intr[c] = "none" /\ main'[c] = y
        <5>1. d = run[c]
          BY <1>4, <3>2, Constants DEF Moved
        <5>2. d = c
          BY <1>0, <5>1, Constants DEF Places
        <5> QED
          BY <1>0, <1>3, <3>2, <5>1, <5>2, Constants DEF goto, Types
      <4> QED
        BY <1>2, <1>3, <2>2, <4>1 DEF Enters, here
    <3> QED
      BY <3>1, <3>2
  <2> QED
    BY <1>0, <1>3, <1>4, <2>1, <2>2, FlagKept DEF Moved
<1>8. SleepInv'
  <2>1. /\ \A d \in CPUs : here(d)' \in {"sleep", "asleep"} => here(d) \in {"sleep", "asleep"}
        /\ \A t \in Threads : intr[t] \in {"wakeup", "wake"} => intr'[t] \in {"wakeup", "wake"}
    BY <1>0, <1>2, <1>3, <1>4, MoveKeeps DEF Enters
  <2> QED
    BY <1>0, <1>3, <2>1, SleepKept DEF input
<1>9. RingInv'
  BY <1>0, <1>3, RingKept
<1> QED
  BY <1>4, <1>5, <1>6, <1>7, <1>8, <1>9 DEF IInv

\* release(): no panic, the lock is free, and the last one gives back the flag that
\* the first acquire() found.
LEMMA Released ==
    ASSUME Types, Places, LockInv, FlagInv, NEW c \in CPUs, NEW l, NEW y, ~ spinning[c],
           Leaves(here(c), l, y), release(c, l), goto(c, y), run' = run, saved' = saved,
           SameStates, state' \in [Procs -> {"RUNNABLE", "RUNNING", "SLEEPING", "ZOMBIE"}]
    PROVE  Moved(c, y) /\ Types' /\ Places' /\ LockInv' /\ FlagInv'
<1>1. PICK x : x = here(c)
  OBVIOUS
<1>2. /\ l \in Locks /\ Holds(x, l) /\ Depth(x) = Depth(y) + 1 /\ Same(x, y)
      /\ \A k \in Locks : Holds(y, k) <=> Holds(x, k) /\ k # l
      /\ y \notin {"schedule", "pick"}
  BY <1>1 DEF Leaves
<1>3. LockAt(c)
  BY DEF LockInv
<1>4. locked[l] = c /\ ncli[c] = Depth(y) + 1 /\ ncli[c] \in Nat /\ Depth(y) \in Nat /\ iF[c] = FALSE
  BY <1>1, <1>2, <1>3, DepthType DEF LockAt, Types
<1>5. /\ panic' = "none" /\ locked' = [locked EXCEPT ![l] = None]
      /\ ncli' = [ncli EXCEPT ![c] = @ - 1]
      /\ iF' = [iF EXCEPT ![c] = @ \/ (ncli[c] = 1 /\ intena[c])]
      /\ intena' = intena /\ spinning' = spinning
  BY <1>4 DEF release, popcli, holding, outermost, Types
<1>6. /\ ncli'[c] = Depth(y) /\ (iF'[c] <=> ncli[c] = 1 /\ intena[c])
      /\ ncli' \in [CPUs -> Nat] /\ iF' \in [CPUs -> BOOLEAN]
  <2>1. ncli'[c] = Depth(y) /\ ncli' \in [CPUs -> Nat]
    BY <1>4, <1>5 DEF Types
  <2>2. (iF'[c] <=> ncli[c] = 1 /\ intena[c]) /\ iF' \in [CPUs -> BOOLEAN]
    BY <1>4, <1>5 DEF Types
  <2> QED
    BY <2>1, <2>2
<1>7. Moved(c, y) /\ Places'
  BY <1>1, <1>2, Move
<1>8. Types'
  BY <1>5, <1>6, <1>7 DEF Types, Moved
<1>9. Others(c)
  <2>1. ASSUME NEW d \in CPUs, d # c
        PROVE  /\ ncli'[d] = ncli[d] /\ iF'[d] = iF[d]
               /\ \A k \in Locks : locked'[k] = d <=> locked[k] = d
    BY <1>2, <1>4, <1>5, <2>1, Constants DEF Types
  <2> QED
    BY <1>5, <1>7, <2>1 DEF Others, Moved
<1>10. LockInv'
  <2>1. here(c)' = y
    BY <1>7 DEF Moved
  <2>2. \A k \in Locks : locked'[k] = c <=> Holds(y, k)
    BY <1>1, <1>2, <1>3, <1>5, Constants DEF LockAt, Types
  <2>3. ncli'[c] > 0 => ~ iF'[c]
    BY <1>4, <1>6
  <2>4. LockAt(c)'
    BY <1>4, <1>5, <1>6, <2>1, <2>2, <2>3 DEF LockAt
  <2> QED
    BY <1>9, <2>4, OthersKept
<1>11. FlagInv'
  <2>1. ASSUME NEW d \in CPUs
        PROVE  On(d)' <=> On(d)
    <3>1. CASE d # c
      BY <1>9, <3>1 DEF On, Others
    <3>2. CASE d = c
      <4>1. On(c) <=> intena[c]
        BY <1>4 DEF On
      <4>2. On(c)' <=> intena[c]
        BY <1>4, <1>5, <1>6 DEF On
      <4> QED
        BY <3>2, <4>1, <4>2
    <3> QED
      BY <3>1, <3>2
  <2>2. \A d \in CPUs : main'[d] \in {"schedule", "pick"} => main[d] \in {"schedule", "pick"}
    BY <1>2, <1>7, NotScheduling
  <2>3. /\ \A t \in Threads : intr'[t] = "none" <=> intr[t] = "none"
        /\ \A t \in Threads : t # run[c] => main'[t] = main[t]
    BY <1>7 DEF Moved
  <2> QED
    BY <2>1, <2>2, <2>3, FlagKept
<1> QED
  BY <1>7, <1>8, <1>10, <1>11

LEMMA ReleasingStep ==
    ASSUME IInv, NEW c \in CPUs, releasing(c)
    PROVE  IInv'
<1>0. Types /\ Places /\ LockInv /\ FlagInv /\ SleepInv /\ RingInv
  BY DEF IInv
<1>1. PICK a \in Releases :
        /\ At(c, a[1]) /\ release(c, a[2]) /\ goto(c, a[3])
        /\ UNCHANGED <<input, run, saved, state, killed, got>>
  BY DEF releasing
<1>2. PICK l, y : l = a[2] /\ y = a[3] /\ Leaves(here(c), l, y) /\ here(c) \notin {"wakeup", "wake"}
  BY <1>1, ReleaseTable DEF At
<1>3. SameStates /\ state' \in [Procs -> {"RUNNABLE", "RUNNING", "SLEEPING", "ZOMBIE"}]
  BY <1>0, <1>1 DEF SameStates, Types
<1>4. Moved(c, y) /\ Types' /\ Places' /\ LockInv' /\ FlagInv'
  BY <1>0, <1>1, <1>2, <1>3, Released DEF At
<1>5. SleepInv'
  <2>1. /\ \A d \in CPUs : here(d)' \in {"sleep", "asleep"} => here(d) \in {"sleep", "asleep"}
        /\ \A t \in Threads : intr[t] \in {"wakeup", "wake"} => intr'[t] \in {"wakeup", "wake"}
    BY <1>0, <1>1, <1>2, <1>4, MoveKeeps DEF Leaves
  <2>2. r' = r /\ w' = w /\ \A p \in Procs : state'[p] = "SLEEPING" => state[p] = "SLEEPING"
    BY <1>1 DEF input
  <2> QED
    BY <1>0, <2>1, <2>2, SleepKept
<1>6. RingInv'
  BY <1>0, <1>1, RingKept
<1> QED
  BY <1>4, <1>5, <1>6 DEF IInv

-----------------------------------------------------------------------------
(* Interrupts and switches                                                 *)

LEMMA DepthZero ==
    /\ \A x : Depth(x) = 0 <=> \A l \in Locks : ~ Holds(x, l)
    /\ \A x : Depth(x) = 1 /\ Holds(x, "ptable") => \A l \in Locks : Holds(x, l) <=> l = "ptable"
  BY Constants DEF Depth, Holds

\* The places around a switch.
LEMMA PtableOnly ==
    ASSUME NEW x \in {"pick", "back", "forkret", "awake", "yields", "yielded", "zombie"}
    PROVE  Depth(x) = 1 /\ Holds(x, "ptable")
  BY DEF Depth, Holds, PtableAt, InputAt, ConsAt

LEMMA FreePlaces ==
    ASSUME NEW x \in {"sti", "schedule", "trapret", "user", "consoleread", "consolewrite", "exit",
                      "consoleintr", "yield", "iret"}
    PROVE  Depth(x) = 0
  BY DEF Depth, PtableAt, InputAt, ConsAt

\* A step of c that leaves the other CPUs alone disturbs only what is said of c.
LEMMA FlagOthers ==
    ASSUME FlagInv, NEW c \in CPUs, Others(c), FlagAt(c)', \A p \in Procs : SavedAt(p)',
           \A d \in CPUs : d # c =>
               run'[d] = run[d] /\ intr'[run[d]] = intr[run[d]] /\ main'[d] = main[d]
    PROVE  FlagInv'
<1>1. ASSUME NEW d \in CPUs, d # c
      PROVE  FlagAt(d)'
  <2>1. On(d)' <=> On(d)
    BY <1>1 DEF On, Others
  <2>2. FlagAt(d)
    BY DEF FlagInv
  <2> QED
    BY <1>1, <2>1, <2>2 DEF FlagAt
<1> QED
  BY <1>1 DEF FlagInv

\* sti(), in the scheduler's loop or on the way to user mode.
LEMMA StiStep ==
    ASSUME IInv, NEW c \in CPUs, sti(c)
    PROVE  IInv'
<1>0. Types /\ Places /\ LockInv /\ FlagInv /\ SleepInv /\ RingInv
  BY DEF IInv
<1>1. PICK y :
        /\ (here(c) = "sti" /\ y = "schedule") \/ (here(c) = "trapret" /\ y = "user")
        /\ goto(c, y) /\ ~ spinning[c] /\ iF' = [iF EXCEPT ![c] = TRUE]
        /\ UNCHANGED <<locked, ncli, intena, spinning, panic, input, run, saved, state>>
  BY DEF sti, At
<1>2. Same(here(c), y) /\ here(c) \notin HandlerAt
  BY <1>1 DEF Same, SchedulerAt, ProcessAt, HandlerAt, TimerAt
<1>3. SameStates
  BY <1>1 DEF SameStates
<1>4. Moved(c, y) /\ Places'
  BY <1>0, <1>1, <1>2, <1>3, Move
<1>5. Types'
  BY <1>0, <1>1, <1>4 DEF Types, Moved
<1>6. Others(c)
  <2>1. \A d \in CPUs : d # c => iF'[d] = iF[d]
    BY <1>0, <1>1 DEF Types
  <2> QED
    BY <1>1, <1>4, <2>1 DEF Others, Moved
<1>7. Depth(here(c)) = 0 /\ Depth(y) = 0
  BY <1>1, FreePlaces
<1>8. ncli[c] = 0 /\ \A l \in Locks : locked[l] # c
  BY <1>0, <1>1, <1>7, DepthZero DEF LockInv, LockAt
<1>9. LockInv'
  <2>1. LockAt(c)'
    BY <1>1, <1>4, <1>7, <1>8, DepthZero DEF LockAt, Moved
  <2> QED
    BY <1>0, <1>6, <2>1, OthersKept
<1>10. FlagInv'
  <2>1. On(c)' /\ intr[run[c]] = "none" /\ intr'[run[c]] = "none"
    <3>1. intr[run[c]] = "none" /\ run[c] \in Threads
      BY <1>0, <1>2, Here
    <3>2. ncli'[c] = 0 /\ iF'[c]
      BY <1>0, <1>1, <1>8 DEF Types
    <3> QED
      BY <1>4, <3>1, <3>2 DEF On, Moved
  <2>2. FlagAt(c)'
    BY <1>1, <2>1 DEF FlagAt
  <2>3. ASSUME NEW p \in Procs
        PROVE  SavedAt(p)'
    <3>1. CASE p = run[c]
      BY <1>0, <1>1, <3>1 DEF Places, SavedAt
    <3>2. CASE p # run[c]
      BY <1>0, <1>1, <1>4, <3>2, Constants DEF Moved, SavedAt, FlagInv
    <3> QED
      BY <3>1, <3>2
  <2>4. ASSUME NEW d \in CPUs, d # c
        PROVE  run'[d] = run[d] /\ intr'[run[d]] = intr[run[d]] /\ main'[d] = main[d]
    <3>1. run[d] # run[c] /\ run[d] \in Threads /\ d # run[c] /\ d \in Threads
      BY <1>0, <2>4, Constants DEF Places, Types
    <3> QED
      BY <1>1, <1>4, <3>1 DEF Moved
  <2> QED
    BY <1>0, <1>6, <2>2, <2>3, <2>4, FlagOthers
<1>11. SleepInv'
  <2>1. /\ \A d \in CPUs : here(d)' \in {"sleep", "asleep"} => here(d) \in {"sleep", "asleep"}
        /\ \A t \in Threads : intr[t] \in {"wakeup", "wake"} => intr'[t] \in {"wakeup", "wake"}
    BY <1>0, <1>1, <1>4, MoveKeeps
  <2> QED
    BY <1>0, <1>1, <2>1, SleepKept DEF input
<1>12. RingInv'
  BY <1>0, <1>1, RingKept
<1> QED
  BY <1>4, <1>5, <1>9, <1>10, <1>11, <1>12 DEF IInv

\* The scheduler switches to a process, with the interrupt flag the process had.
LEMMA ResumeStep ==
    ASSUME IInv, NEW c \in CPUs, At(c, "pick"), goto(c, "back"), NEW p \in Procs,
           state[p] = "RUNNABLE", state' = [state EXCEPT ![p] = "RUNNING"],
           run' = [run EXCEPT ![c] = p], intena' = [intena EXCEPT ![c] = resumes(c, p)],
           UNCHANGED <<locked, iF, ncli, spinning, panic, input, saved>>
    PROVE  IInv'
<1>0. Types /\ Places /\ LockInv /\ FlagInv /\ SleepInv /\ RingInv
  BY DEF IInv
<1>1. run[c] = c /\ intr[c] = "none" /\ main[c] = "pick" /\ here(c) = "pick" /\ ~ spinning[c]
  BY <1>0, Here DEF At, SchedulerAt
<1>2. main' = [main EXCEPT ![c] = "back"] /\ intr' = intr
  BY <1>1 DEF goto
<1>3. Parked(p) /\ \A d \in CPUs : run[d] # p
  BY <1>0 DEF Places
<1>4. /\ c \in Threads /\ p \in Threads /\ c # p
      /\ \A d \in CPUs : d # p /\ d \in Threads
  BY Constants
<1>5. /\ run'[c] = p /\ main'[c] = "back"
      /\ \A d \in CPUs : d # c => run'[d] = run[d]
      /\ \A t \in Threads : t # c => main'[t] = main[t]
      /\ state'[p] = "RUNNING" /\ \A q \in Procs : q # p => state'[q] = state[q]
      /\ \A d \in CPUs : d # c => intena'[d] = intena[d]
      /\ intena'[c] = resumes(c, p)
  BY <1>0, <1>2, <1>4 DEF Types
<1>6. Depth("pick") = 1 /\ Holds("pick", "ptable")
  BY PtableOnly
<1>7. ncli[c] = 1 /\ \A l \in Locks : locked[l] = c <=> l = "ptable"
  BY <1>0, <1>1, <1>6, DepthZero DEF LockInv, LockAt
<1>8. main[p] = "forkret" => intr[p] = "none"
  <2>1. Holds("forkret", "ptable") /\ "ptable" \in Locks
    BY PtableOnly, Constants
  <2> QED
    BY <1>0, <1>4, <2>1 DEF Places
<1>9. here(c)' = (IF intr[p] # "none" THEN intr[p] ELSE main[p])
      /\ here(c)' \in {"forkret", "awake", "yielded"}
  BY <1>2, <1>3, <1>4, <1>5 DEF here, Parked
<1>10. Others(c)
  <2>1. ASSUME NEW d \in CPUs, d # c
        PROVE  here(d)' = here(d)
    <3>1. run[d] \in Threads /\ run[d] # c
      BY <1>0, <1>1, <2>1 DEF Places, Types
    <3> QED
      BY <1>2, <1>5, <2>1, <3>1 DEF here
  <2> QED
    BY <1>5, <2>1 DEF Others
<1>11. LockInv'
  <2>1. Depth(here(c)') = 1 /\ Holds(here(c)', "ptable")
    BY <1>9, PtableOnly
  <2>2. LockAt(c)'
    <3>1. \A l \in Locks : locked'[l] = c <=> Holds(here(c)', l)
      BY <1>7, <2>1, DepthZero
    <3>2. ncli'[c] > 0 => ~ iF'[c]
      BY <1>0 DEF LockInv, LockAt
    <3> QED
      BY <1>1, <1>7, <2>1, <3>1, <3>2 DEF LockAt
  <2> QED
    BY <1>0, <1>10, <2>2, OthersKept
<1>12. resumes(c, p) \in BOOLEAN /\ (resumes(c, p) <=> intr[p] = "none")
  <2>1. CASE main[p] = "forkret"
    <3>1. On(c)
      BY <1>0, <1>1 DEF FlagInv, FlagAt
    <3>2. intena[c] \in BOOLEAN /\ intena[c]
      BY <1>0, <1>7, <3>1 DEF On, Types
    <3> QED
      BY <1>8, <2>1, <3>2 DEF resumes
  <2>2. CASE main[p] # "forkret"
    <3>1. saved[p] \in BOOLEAN /\ SavedAt(p)
      BY <1>0 DEF FlagInv, Types
    <3> QED
      BY <2>2, <3>1 DEF resumes, SavedAt
  <2> QED
    BY <2>1, <2>2
<1>13. FlagInv'
  <2>1. On(c)' <=> intr[p] = "none"
    BY <1>5, <1>7, <1>12 DEF On
  <2>2. FlagAt(c)'
    BY <1>2, <1>5, <2>1 DEF FlagAt
  <2>3. ASSUME NEW q \in Procs
        PROVE  SavedAt(q)'
    <3>1. CASE q = p
      BY <1>5, <3>1 DEF SavedAt
    <3>2. CASE q # p
      BY <1>0, <1>2, <1>5, <3>2, Constants DEF SavedAt, FlagInv
    <3> QED
      BY <3>1, <3>2
  <2>4. \A d \in CPUs : d # c => run'[d] = run[d] /\ intr'[run[d]] = intr[run[d]] /\ main'[d] = main[d]
    BY <1>2, <1>4, <1>5
  <2> QED
    BY <1>0, <1>10, <2>2, <2>3, <2>4, FlagOthers
<1>14. Types'
  <2>1. main' \in [Threads -> SchedulerAt \cup ProcessAt]
    BY <1>0, <1>2 DEF Types, SchedulerAt
  <2>2. /\ intena' \in [CPUs -> BOOLEAN] /\ run' \in [CPUs -> Threads]
        /\ state' \in [Procs -> {"RUNNABLE", "RUNNING", "SLEEPING", "ZOMBIE"}]
    BY <1>0, <1>4, <1>12 DEF Types
  <2> QED
    BY <1>0, <1>2, <2>1, <2>2 DEF Types
<1>15. Places'
  <2>1. ASSUME NEW d \in CPUs
        PROVE  /\ main'[d] \in SchedulerAt /\ intr'[d] \notin TimerAt
               /\ run'[d] # d => run'[d] \in Procs /\ main'[d] = "back" /\ intr'[d] = "none"
               /\ run'[d] \in Procs => state'[run'[d]] = "RUNNING"
    <3>1. CASE d = c
      BY <1>0, <1>1, <1>2, <1>5, <3>1 DEF Places, SchedulerAt
    <3>2. CASE d # c
      BY <1>0, <1>2, <1>3, <1>4, <1>5, <3>2 DEF Places
    <3> QED
      BY <3>1, <3>2
  <2>2. ASSUME NEW q \in Procs
        PROVE  /\ main'[q] \in ProcessAt
               /\ state'[q] \in {"RUNNABLE", "SLEEPING"} => Parked(q)'
    <3>1. main'[q] = main[q]
      BY <1>5, Constants
    <3>2. CASE q = p
      BY <1>0, <1>5, <3>1, <3>2 DEF Places
    <3>3. CASE q # p
      BY <1>0, <1>2, <1>5, <3>1, <3>3 DEF Places, Parked
    <3> QED
      BY <3>2, <3>3
  <2>3. \A d, f \in CPUs : run'[d] = run'[f] => d = f
    BY <1>0, <1>3, <1>5 DEF Places
  <2>4. \A t \in Threads : intr'[t] # "none" => \A l \in Locks : ~ Holds(main'[t], l)
    BY <1>0, <1>1, <1>2, <1>5 DEF Places
  <2> QED
    BY <2>1, <2>2, <2>3, <2>4 DEF Places
<1>16. SleepInv'
  <2>1. \A d \in CPUs : here(d)' \in {"sleep", "asleep"} => here(d) \in {"sleep", "asleep"}
    BY <1>9, <1>10 DEF Others
  <2>2. \A q \in Procs : state'[q] = "SLEEPING" => state[q] = "SLEEPING"
    BY <1>5
  <2> QED
    BY <1>0, <1>2, <2>1, <2>2, SleepKept DEF input
<1>17. RingInv'
  BY <1>0, RingKept
<1> QED
  BY <1>11, <1>13, <1>14, <1>15, <1>16, <1>17 DEF IInv

\* A quiet step that leaves the ring alone keeps the invariant.
LEMMA QuietInv ==
    ASSUME IInv, NEW c \in CPUs, ~ spinning[c], NEW y, goto(c, y), Quiet(c, y),
           UNCHANGED <<lockvars, input, run, saved, state>>,
           y \in {"sleep", "asleep"} => r = w, here(c) \notin {"wakeup", "wake"}
    PROVE  IInv'
<1>0. Types /\ Places /\ LockInv /\ FlagInv /\ SleepInv /\ RingInv
  BY DEF IInv
<1>1. Moved(c, y) /\ Types' /\ Places' /\ LockInv' /\ FlagInv'
  BY <1>0, QuietStep
<1>2. SleepInv'
  <2>1. r' = r /\ w' = w /\ state' = state
    BY DEF input
  <2>2. \A d \in CPUs : here(d)' \in {"sleep", "asleep"} => r' = w'
    BY <1>0, <1>1, <2>1 DEF SleepInv, Moved
  <2>3. ASSUME NEW t \in Threads, intr[t] \in {"wakeup", "wake"}
        PROVE  intr'[t] = intr[t]
    <3>1. t # run[c]
      BY <2>3 DEF here
    <3> QED
      BY <1>1, <3>1 DEF Moved
  <2> QED
    BY <1>0, <2>1, <2>2, <2>3 DEF SleepInv, ReaderWoken
<1>3. RingInv'
  BY <1>0, RingKept
<1> QED
  BY <1>1, <1>2, <1>3 DEF IInv

LEMMA SchedulerStep ==
    ASSUME IInv, NEW c \in CPUs, scheduler(c)
    PROVE  IInv'
<1>1. /\ At(c, "pick") /\ goto(c, "back")
      /\ UNCHANGED <<locked, iF, ncli, spinning, panic, input, saved>>
  BY DEF scheduler
<1>2. CASE UNCHANGED <<state, run, intena>>
  <2>1. Quiet(c, "back")
    <3>1. here(c) = "pick" /\ Same("pick", "back") /\ "pick" \in SchedulerAt
      BY <1>1 DEF At, Same, SchedulerAt, ProcessAt, HandlerAt, TimerAt
    <3>2. Depth("pick") = Depth("back") /\ \A l \in Locks : Holds("back", l) <=> Holds("pick", l)
      BY PtableOnly, DepthZero
    <3> QED
      BY <3>1, <3>2 DEF Quiet
  <2>2. ~ spinning[c] /\ here(c) = "pick" /\ UNCHANGED <<lockvars, input, run, saved, state>>
    BY <1>1, <1>2 DEF At, lockvars
  <2> QED
    BY <1>1, <2>1, <2>2, QuietInv
<1>3. CASE ~ UNCHANGED <<state, run, intena>>
  <2>1. PICK p \in Procs :
          /\ state[p] = "RUNNABLE" /\ state' = [state EXCEPT ![p] = "RUNNING"]
          /\ run' = [run EXCEPT ![c] = p] /\ intena' = [intena EXCEPT ![c] = resumes(c, p)]
    BY <1>3 DEF scheduler
  <2> QED
    BY <1>1, <2>1, ResumeStep
<1> QED
  BY <1>2, <1>3

\* sched(): the process leaves the CPU to the scheduler with ptable.lock alone held,
\* and takes the interrupt flag it had with it.
LEMMA SwitchStep ==
    ASSUME IInv, NEW c \in CPUs, NEW y, NEW s, goto(c, y),
           \/ here(c) = "yields" /\ y = "yielded" /\ s = "RUNNABLE"
           \/ here(c) = "zombie" /\ y = "gone" /\ s = "ZOMBIE"
           \/ here(c) = "asleep" /\ y = "awake" /\ s = "SLEEPING",
           panic' = "none", saved' = [saved EXCEPT ![run[c]] = intena[c]],
           state' = [state EXCEPT ![run[c]] = s], run' = [run EXCEPT ![c] = c],
           UNCHANGED <<intena, spinning, input>>, ~ spinning[c],
           locked' \in [Locks -> CPUs \cup {None}], ncli' \in [CPUs -> Nat],
           iF' \in [CPUs -> BOOLEAN], ncli'[c] = 1, ~ iF'[c],
           \A l \in Locks : locked'[l] = c <=> l = "ptable",
           \A d \in CPUs : d # c =>
               /\ ncli'[d] = ncli[d] /\ iF'[d] = iF[d]
               /\ \A l \in Locks : locked'[l] = d <=> locked[l] = d
    PROVE  IInv'
<1>0. Types /\ Places /\ LockInv /\ FlagInv /\ SleepInv /\ RingInv
  BY DEF IInv
<1>1. PICK p : p = run[c]
  OBVIOUS
<1>2. p \in Procs /\ p \in Threads /\ c \in Threads /\ c # p /\ c \notin Procs
  <2>1. here(c) \in ProcessAt \cup TimerAt
    BY DEF ProcessAt, TimerAt
  <2> QED
    BY <1>0, <1>1, <2>1, Here, Constants
<1>3. main[c] = "back" /\ intr[c] = "none"
  BY <1>0, <1>1, <1>2 DEF Places
<1>4. /\ here(c) = "yields" => intr[p] = "yields"
      /\ here(c) # "yields" => intr[p] = "none"
  <2>1. "yields" \in HandlerAt /\ "zombie" \in ProcessAt /\ "asleep" \in ProcessAt
    BY DEF HandlerAt, ProcessAt
  <2> QED
    BY <1>0, <1>1, <2>1, Here
<1>5. /\ here(c) = "yields" => intr' = [intr EXCEPT ![p] = "yielded"] /\ main' = main
      /\ here(c) # "yields" => main' = [main EXCEPT ![p] = y] /\ intr' = intr
  BY <1>1, <1>4 DEF goto
<1>6. /\ main' \in [Threads -> SchedulerAt \cup ProcessAt]
      /\ intr' \in [Threads -> HandlerAt \cup {"none"}]
  <2>1. "yielded" \in HandlerAt /\ "gone" \in ProcessAt /\ "awake" \in ProcessAt
    BY DEF HandlerAt, ProcessAt
  <2> QED
    BY <1>0, <1>2, <1>5, <2>1 DEF Types
<1>7. /\ \A t \in Threads : t # p => intr'[t] = intr[t] /\ main'[t] = main[t]
      /\ here(c) = "yields" => intr'[p] = "yielded" /\ main'[p] = main[p]
      /\ here(c) # "yields" => intr'[p] = "none" /\ main'[p] = y
  BY <1>0, <1>2, <1>4, <1>5 DEF Types
<1>8. /\ run'[c] = c /\ (\A d \in CPUs : d # c => run'[d] = run[d])
      /\ state'[p] = s /\ (\A q \in Procs : q # p => state'[q] = state[q])
      /\ saved'[p] = intena[c] /\ (\A q \in Procs : q # p => saved'[q] = saved[q])
  BY <1>0, <1>1, <1>2 DEF Types
<1>9. Types'
  <2>1. run' \in [CPUs -> Threads] /\ saved' \in [Procs -> BOOLEAN]
    BY <1>0, <1>1, <1>2 DEF Types
  <2>2. state' \in [Procs -> {"RUNNABLE", "RUNNING", "SLEEPING", "ZOMBIE"}]
    BY <1>0, <1>1, <1>2 DEF Types
  <2> QED
    BY <1>0, <1>6, <2>1, <2>2 DEF Types
<1>10. here(c)' = "back"
  BY <1>2, <1>3, <1>7, <1>8 DEF here
<1>11. \A d \in CPUs : d # c => run[d] # p /\ run[d] \in Threads
  BY <1>0, <1>1 DEF Places, Types
<1>12. Others(c)
  <2>1. \A d \in CPUs : d # c => here(d)' = here(d)
    BY <1>7, <1>8, <1>11 DEF here
  <2> QED
    BY <2>1 DEF Others
<1>13. LockInv'
  <2>1. Depth("back") = 1 /\ Holds("back", "ptable")
    BY PtableOnly
  <2>2. \A l \in Locks : Holds("back", l) <=> l = "ptable"
    BY <2>1, DepthZero
  <2>3. LockAt(c)'
    BY <1>10, <2>1, <2>2 DEF LockAt
  <2> QED
    BY <1>0, <1>12, <2>3, OthersKept
<1>14. Places'
  <2>1. ASSUME NEW d \in CPUs
        PROVE  /\ main'[d] \in SchedulerAt /\ intr'[d] \notin TimerAt
               /\ run'[d] # d => run'[d] \in Procs /\ main'[d] = "back" /\ intr'[d] = "none"
               /\ run'[d] \in Procs => state'[run'[d]] = "RUNNING"
    <3>1. d # p /\ d \in Threads /\ main'[d] = main[d] /\ intr'[d] = intr[d]
      BY <1>2, <1>7, Constants
    <3>2. CASE d = c
      BY <1>0, <1>2, <1>8, <3>1, <3>2 DEF Places
    <3>3. CASE d # c
      BY <1>0, <1>8, <1>11, <3>1, <3>3 DEF Places
    <3> QED
      BY <3>2, <3>3
  <2>2. ASSUME NEW q \in Procs
        PROVE  /\ main'[q] \in ProcessAt
               /\ state'[q] \in {"RUNNABLE", "SLEEPING"} => Parked(q)'
    <3>1. CASE q = p
      <4>1. main[p] \in ProcessAt /\ "gone" \in ProcessAt /\ "awake" \in ProcessAt
        BY <1>0, <1>2 DEF Places, ProcessAt
      <4> QED
        BY <1>7, <1>8, <3>1, <4>1 DEF Parked
    <3>2. CASE q # p
      BY <1>0, <1>7, <1>8, <3>2, Constants DEF Places, Parked
    <3> QED
      BY <3>1, <3>2
  <2>3. \A d, f \in CPUs : run'[d] = run'[f] => d = f
    <3>1. \A d \in CPUs : d # c => run[d] # c
      BY <1>0, Constants DEF Places
    <3> QED
      BY <1>0, <1>8, <3>1 DEF Places
  <2>4. \A t \in Threads : intr'[t] # "none" => \A l \in Locks : ~ Holds(main'[t], l)
    BY <1>0, <1>4, <1>7 DEF Places
  <2> QED
    BY <2>1, <2>2, <2>3, <2>4 DEF Places
<1>15. FlagInv'
  <2>1. FlagAt(c)'
    BY <1>2, <1>3, <1>7, <1>8 DEF FlagAt
  <2>2. intena[c] <=> intr[p] = "none"
    <3>1. ncli[c] # 0
      <4>1. Depth(here(c)) # 0
        BY DEF Depth, PtableAt, InputAt, ConsAt
      <4> QED
        BY <1>0, <4>1, DepthType DEF LockInv, LockAt
    <3>2. FlagAt(c)
      BY <1>0 DEF FlagInv
    <3> QED
      BY <1>1, <1>2, <3>1, <3>2 DEF FlagAt, On
  <2>3. ASSUME NEW q \in Procs
        PROVE  SavedAt(q)'
    <3>1. CASE q = p
      BY <1>4, <1>7, <1>8, <2>2, <3>1 DEF SavedAt
    <3>2. CASE q # p
      BY <1>0, <1>7, <1>8, <3>2, Constants DEF SavedAt, FlagInv
    <3> QED
      BY <3>1, <3>2
  <2>4. ASSUME NEW d \in CPUs, d # c
        PROVE  run'[d] = run[d] /\ intr'[run[d]] = intr[run[d]] /\ main'[d] = main[d]
    BY <1>2, <1>7, <1>8, <1>11, <2>4, Constants
  <2> QED
    BY <1>0, <1>12, <2>1, <2>3, <2>4, FlagOthers
<1>16. SleepInv'
  <2>1. r' = r /\ w' = w
    BY DEF input
  <2>2. \A d \in CPUs : here(d)' \in {"sleep", "asleep"} => here(d) \in {"sleep", "asleep"}
    BY <1>10, <1>12 DEF Others
  <2>3. \A t \in Threads : intr[t] \in {"wakeup", "wake"} => intr'[t] \in {"wakeup", "wake"}
    BY <1>4, <1>7
  <2>4. CASE here(c) = "asleep"
    <3>1. r = w
      BY <1>0, <2>4 DEF SleepInv
    <3> QED
      BY <2>1, <3>1 DEF SleepInv, ReaderWoken
  <2>5. CASE here(c) # "asleep"
    <3>1. \A q \in Procs : state'[q] = "SLEEPING" => state[q] = "SLEEPING"
      BY <1>8, <2>5
    <3> QED
      BY <1>0, <2>1, <2>2, <2>3, <3>1, SleepKept
  <2> QED
    BY <2>4, <2>5
<1>17. RingInv'
  BY <1>0, RingKept
<1> QED
  BY <1>9, <1>13, <1>14, <1>15, <1>16, <1>17 DEF IInv

\* Where sched() is called from yield() and exit(), ptable.lock is the only lock.
LEMMA YieldStep ==
    ASSUME IInv, NEW c \in CPUs, yield(c) \/ exit(c)
    PROVE  IInv'
<1>0. Types /\ LockInv
  BY DEF IInv
<1>1. PICK x, y, s :
        /\ \/ x = "yields" /\ y = "yielded" /\ s = "RUNNABLE"
           \/ x = "zombie" /\ y = "gone" /\ s = "ZOMBIE"
        /\ here(c) = x /\ ~ spinning[c] /\ goto(c, y) /\ sched(c, s, ncli[c])
        /\ UNCHANGED <<locked, iF, ncli, intena, spinning, input>>
  BY DEF yield, exit, At
<1>2. Depth(x) = 1 /\ Holds(x, "ptable")
  BY <1>1, PtableOnly
<1>3. ncli[c] = 1 /\ ~ iF[c] /\ \A l \in Locks : locked[l] = c <=> l = "ptable"
  <2>1. LockAt(c) /\ here(c) = x /\ ~ spinning[c]
    BY <1>0, <1>1 DEF LockInv
  <2>2. ncli[c] = 1 /\ ~ iF[c] /\ \A l \in Locks : locked[l] = c <=> Holds(x, l)
    BY <1>2, <2>1 DEF LockAt
  <2> QED
    BY <1>2, <2>2, DepthZero
<1>4. /\ panic' = "none" /\ saved' = [saved EXCEPT ![run[c]] = intena[c]]
      /\ state' = [state EXCEPT ![run[c]] = s] /\ run' = [run EXCEPT ![c] = c]
  BY <1>0, <1>1, <1>3, Constants DEF sched, holding, Types
<1>5. /\ locked' \in [Locks -> CPUs \cup {None}] /\ ncli' \in [CPUs -> Nat]
      /\ iF' \in [CPUs -> BOOLEAN] /\ ncli'[c] = 1 /\ ~ iF'[c]
      /\ \A l \in Locks : locked'[l] = c <=> l = "ptable"
      /\ \A d \in CPUs : d # c =>
           /\ ncli'[d] = ncli[d] /\ iF'[d] = iF[d]
           /\ \A l \in Locks : locked'[l] = d <=> locked[l] = d
  BY <1>0, <1>1, <1>3 DEF Types
<1> QED
  BY <1>1, <1>4, <1>5, SwitchStep

\* sleep() releases input.lock under ptable.lock, and sched() finds the latter alone.
LEMMA SleepStep ==
    ASSUME IInv, NEW c \in CPUs, sleep(c)
    PROVE  IInv'
<1>0. Types /\ LockInv
  BY DEF IInv
<1>1. /\ here(c) = "asleep" /\ ~ spinning[c] /\ goto(c, "awake")
      /\ sched(c, "SLEEPING", ncli[c] - 1) /\ popcli(c)
      /\ locked' = [locked EXCEPT !["input"] = None] /\ UNCHANGED <<intena, spinning, input>>
  BY DEF sleep, At
<1>2. /\ Depth("asleep") = 2
      /\ \A l \in Locks : Holds("asleep", l) <=> l \in {"ptable", "input"}
  BY Constants DEF Depth, Holds, PtableAt, InputAt, ConsAt
<1>3. ncli[c] = 2 /\ iF[c] = FALSE /\ \A l \in Locks : locked[l] = c <=> l \in {"ptable", "input"}
  BY <1>0, <1>1, <1>2 DEF LockInv, LockAt, Types
<1>4. /\ panic' = "none" /\ saved' = [saved EXCEPT ![run[c]] = intena[c]]
      /\ state' = [state EXCEPT ![run[c]] = "SLEEPING"] /\ run' = [run EXCEPT ![c] = c]
  BY <1>0, <1>1, <1>3, Constants DEF sched, holding, Types
<1>5. /\ ncli' = [ncli EXCEPT ![c] = @ - 1]
      /\ iF' = [iF EXCEPT ![c] = @ \/ (ncli[c] = 1 /\ intena[c])]
  BY <1>1 DEF popcli, outermost
<1>6. /\ ncli' \in [CPUs -> Nat] /\ ncli'[c] = 1 /\ iF' \in [CPUs -> BOOLEAN] /\ ~ iF'[c]
      /\ \A d \in CPUs : d # c => ncli'[d] = ncli[d] /\ iF'[d] = iF[d]
  <2>1. /\ ncli' \in [CPUs -> Nat] /\ ncli'[c] = 1
        /\ \A d \in CPUs : d # c => ncli'[d] = ncli[d]
    BY <1>0, <1>3, <1>5 DEF Types
  <2>2. iF' \in [CPUs -> BOOLEAN] /\ ~ iF'[c] /\ \A d \in CPUs : d # c => iF'[d] = iF[d]
    BY <1>0, <1>3, <1>5 DEF Types
  <2> QED
    BY <2>1, <2>2
<1>7. /\ locked' \in [Locks -> CPUs \cup {None}]
      /\ \A l \in Locks : locked'[l] = c <=> l = "ptable"
      /\ \A d \in CPUs : d # c => \A l \in Locks : locked'[l] = d <=> locked[l] = d
  BY <1>0, <1>1, <1>3, Constants DEF Types
<1>8. PICK y, s :
        /\ here(c) = "asleep" /\ y = "awake" /\ s = "SLEEPING" /\ goto(c, y)
        /\ state' = [state EXCEPT ![run[c]] = s]
  BY <1>1, <1>4
<1>9. \A d \in CPUs : d # c =>
        /\ ncli'[d] = ncli[d] /\ iF'[d] = iF[d]
        /\ \A l \in Locks : locked'[l] = d <=> locked[l] = d
  BY <1>6, <1>7
<1>10. /\ panic' = "none" /\ saved' = [saved EXCEPT ![run[c]] = intena[c]]
       /\ run' = [run EXCEPT ![c] = c] /\ UNCHANGED <<intena, spinning, input>> /\ ~ spinning[c]
  BY <1>1, <1>4
<1> QED
  BY <1>6, <1>7, <1>8, <1>9, <1>10, SwitchStep

\* A step that pushes a frame of a handler, or pops it, on code that holds no lock.
LEMMA FrameStep ==
    ASSUME IInv, NEW c \in CPUs, NEW h, NEW b \in BOOLEAN, ~ spinning[c], ncli[c] = 0,
           intr' = [intr EXCEPT ![run[c]] = h], iF' = [iF EXCEPT ![c] = b],
           \/ h = "none" /\ b = TRUE
           \/ h \in {"consoleintr", "yield"} /\ b = FALSE /\ (h = "yield" => run[c] \in Procs),
           \A l \in Locks : ~ Holds(main[run[c]], l), intr[run[c]] \notin {"wakeup", "wake"},
           UNCHANGED <<locked, ncli, intena, spinning, panic, input, run, main, saved, state>>
    PROVE  IInv'
<1>0. Types /\ Places /\ LockInv /\ FlagInv /\ SleepInv /\ RingInv
  BY DEF IInv
<1>1. run[c] \in Threads /\ h \in HandlerAt \cup {"none"}
  BY <1>0 DEF Types, HandlerAt
<1>2. /\ intr'[run[c]] = h /\ \A t \in Threads : t # run[c] => intr'[t] = intr[t]
      /\ intr' \in [Threads -> HandlerAt \cup {"none"}]
  BY <1>0, <1>1 DEF Types
<1>3. iF'[c] = b /\ iF' \in [CPUs -> BOOLEAN] /\ \A d \in CPUs : d # c => iF'[d] = iF[d]
  BY <1>0 DEF Types
<1>4. Types'
  BY <1>0, <1>2, <1>3 DEF Types
<1>5. \A d \in CPUs : d # c => run[d] # run[c] /\ run[d] \in Threads
  BY <1>0 DEF Places, Types
<1>6. Others(c)
  <2>1. \A d \in CPUs : d # c => here(d)' = here(d)
    BY <1>2, <1>5 DEF here
  <2> QED
    BY <1>3, <2>1 DEF Others
<1>7. here(c)' = (IF h # "none" THEN h ELSE main[run[c]]) /\ Depth(here(c)') = 0
  <2>1. here(c)' = (IF h # "none" THEN h ELSE main[run[c]])
    BY <1>2 DEF here
  <2>2. CASE h = "none"
    BY <2>1, <2>2, DepthZero
  <2>3. CASE h # "none"
    BY <2>1, <2>3, FreePlaces
  <2> QED
    BY <2>1, <2>2, <2>3
<1>8. LockInv'
  <2>1. LockAt(c) /\ Depth(here(c)) = 0
    <3>1. LockAt(c)
      BY <1>0 DEF LockInv
    <3>2. Depth(here(c)) \in Nat /\ 0 = Depth(here(c)) + 0
      BY <3>1, DepthType DEF LockAt
    <3> QED
      BY <3>1, <3>2
  <2>2. LockAt(c)'
    BY <1>7, <2>1, DepthZero DEF LockAt
  <2> QED
    BY <1>0, <1>6, <2>2, OthersKept
<1>9. \A p \in Procs : state[p] \in {"RUNNABLE", "SLEEPING"} => p # run[c] /\ p \in Threads
  BY <1>0, Constants DEF Places
<1>10. Places'
  <2>1. ASSUME NEW d \in CPUs
        PROVE  /\ intr'[d] \notin TimerAt
               /\ run[d] # d => intr'[d] = "none"
    <3>1. CASE d = run[c]
      <4>1. d = c /\ run[d] = d /\ h # "yield"
        BY <1>0, <3>1, Constants DEF Places
      <4> QED
        BY <1>2, <3>1, <4>1 DEF TimerAt
    <3>2. CASE d # run[c]
      BY <1>0, <1>2, <3>2, Constants DEF Places
    <3> QED
      BY <3>1, <3>2
  <2>2. ASSUME NEW p \in Procs, state[p] \in {"RUNNABLE", "SLEEPING"}
        PROVE  Parked(p)'
    <3>1. Parked(p)
      BY <1>0, <2>2 DEF Places
    <3>2. intr'[p] = intr[p] /\ main' = main
      BY <1>2, <1>9, <2>2
    <3> QED
      BY <3>1, <3>2 DEF Parked
  <2>3. \A t \in Threads : intr'[t] # "none" => \A l \in Locks : ~ Holds(main[t], l)
    BY <1>0, <1>2 DEF Places
  <2> QED
    BY <1>0, <2>1, <2>2, <2>3 DEF Places
<1>11. FlagInv'
  <2>1. On(c)' <=> b
    BY <1>3 DEF On
  <2>2. FlagAt(c)'
    BY <1>2, <2>1 DEF FlagAt
  <2>3. ASSUME NEW p \in Procs
        PROVE  SavedAt(p)'
    BY <1>0, <1>2, <1>9 DEF FlagInv, SavedAt
  <2>4. \A d \in CPUs : d # c => run'[d] = run[d] /\ intr'[run[d]] = intr[run[d]] /\ main'[d] = main[d]
    BY <1>2, <1>5
  <2> QED
    BY <1>0, <1>6, <2>2, <2>3, <2>4, FlagOthers
<1>12. SleepInv'
  <2>1. here(c)' \notin {"sleep", "asleep"}
    <3>1. Depth("sleep") # 0 /\ Depth("asleep") # 0
      BY DEF Depth, PtableAt, InputAt, ConsAt
    <3> QED
      BY <1>7, <3>1
  <2>2. \A d \in CPUs : here(d)' \in {"sleep", "asleep"} => here(d) \in {"sleep", "asleep"}
    BY <1>6, <2>1 DEF Others
  <2>3. \A t \in Threads : intr[t] \in {"wakeup", "wake"} => intr'[t] \in {"wakeup", "wake"}
    BY <1>2
  <2> QED
    BY <1>0, <2>2, <2>3, SleepKept DEF input
<1>13. RingInv'
  BY <1>0, RingKept
<1> QED
  BY <1>4, <1>8, <1>10, <1>11, <1>12, <1>13 DEF IInv

\* An interrupt finds code that holds no lock, since it finds interrupts on.
LEMMA InterruptStep ==
    ASSUME IInv, NEW c \in CPUs, NEW h \in {"consoleintr", "yield"}, interrupt(c, h)
    PROVE  IInv'
<1>0. Types /\ Places /\ LockInv /\ FlagInv
  BY DEF IInv
<1>1. ncli[c] = 0 /\ LockAt(c) /\ iF[c]
  <2>1. LockAt(c) /\ iF[c]
    BY <1>0 DEF interrupt, LockInv
  <2>2. ncli[c] \in Nat /\ ~ (ncli[c] > 0)
    BY <1>0, <2>1 DEF LockAt, Types
  <2> QED
    BY <2>1, <2>2
<1>2. ~ spinning[c] /\ Depth(here(c)) = 0
  BY <1>1, DepthType DEF LockAt
<1>3. intr[run[c]] = "none"
  BY <1>0, <1>1 DEF FlagInv, FlagAt, On
<1>4. \A l \in Locks : ~ Holds(main[run[c]], l)
  BY <1>2, <1>3, DepthZero DEF here
<1> QED
  BY <1>1, <1>2, <1>3, <1>4, FrameStep DEF interrupt

LEMMA IretStep ==
    ASSUME IInv, NEW c \in CPUs, iret(c)
    PROVE  IInv'
<1>0. Types /\ Places /\ LockInv
  BY DEF IInv
<1>1. here(c) = "iret" /\ ~ spinning[c] /\ Depth("iret") = 0
  BY FreePlaces DEF iret, At
<1>2. ncli[c] = 0
  BY <1>0, <1>1 DEF LockInv, LockAt
<1>3. intr[run[c]] = "iret" /\ run[c] \in Threads
  BY <1>0, <1>1, Here DEF HandlerAt
<1>4. \A l \in Locks : ~ Holds(main[run[c]], l)
  BY <1>0, <1>3 DEF Places
<1> QED
  BY <1>1, <1>2, <1>3, <1>4, FrameStep DEF iret

-----------------------------------------------------------------------------
(* System calls, wakeup() and kill()                                       *)

LEMMA SyscallStep ==
    ASSUME IInv, NEW c \in CPUs, syscall(c)
    PROVE  IInv'
<1>1. PICK y \in {"exit", "consoleread", "consolewrite"} : goto(c, y)
  BY DEF syscall
<1>2. /\ here(c) = "user" /\ ~ spinning[c] /\ UNCHANGED <<lockvars, input, run, saved, state>>
  BY DEF syscall, At
<1>3. Quiet(c, y)
  <2>1. Same("user", y) /\ "user" \in ProcessAt
    BY <1>1 DEF Same, SchedulerAt, ProcessAt, HandlerAt, TimerAt
  <2>2. Depth("user") = 0 /\ Depth(y) = 0
    BY <1>1, FreePlaces
  <2> QED
    BY <1>1, <1>2, <2>1, <2>2, DepthZero DEF Quiet
<1> QED
  BY <1>1, <1>2, <1>3, QuietInv

\* The places of the handler and of the reader where input.lock alone is held.
LEMMA InputOnly ==
    ASSUME NEW x \in {"keys", "keysdone", "procdump", "wakeup", "read", "readdone", "sleep"}
    PROVE  Depth(x) = 1 /\ \A l \in Locks : Holds(x, l) <=> l = "input"
  BY Constants DEF Depth, Holds, PtableAt, InputAt, ConsAt

LEMMA HandlerQuiet ==
    ASSUME NEW c \in CPUs, here(c) = "keys", NEW y \in {"keysdone", "procdump", "wakeup"}
    PROVE  Quiet(c, y)
<1>1. Same("keys", y) /\ "keys" \in HandlerAt
  BY DEF Same, SchedulerAt, ProcessAt, HandlerAt, TimerAt
<1>2. Depth(y) = Depth("keys") /\ \A l \in Locks : Holds(y, l) <=> Holds("keys", l)
  BY InputOnly
<1> QED
  BY <1>1, <1>2 DEF Quiet

LEMMA ReaderQuiet ==
    ASSUME NEW c \in CPUs, here(c) = "read", NEW y \in {"readdone", "sleep"}
    PROVE  Quiet(c, y)
<1>1. Same("read", y) /\ "read" \in ProcessAt
  BY DEF Same, SchedulerAt, ProcessAt, HandlerAt, TimerAt
<1>2. Depth(y) = Depth("read") /\ \A l \in Locks : Holds(y, l) <=> Holds("read", l)
  BY InputOnly
<1> QED
  BY <1>1, <1>2 DEF Quiet

LEMMA NokeyStep ==
    ASSUME IInv, NEW c \in CPUs, nokey(c)
    PROVE  IInv'
<1>1. PICK y : y = "keysdone" /\ goto(c, y)
  BY DEF nokey
<1>2. here(c) = "keys" /\ ~ spinning[c] /\ UNCHANGED <<lockvars, input, run, saved, state>>
  BY DEF nokey, At
<1> QED
  BY <1>1, <1>2, HandlerQuiet, QuietInv

\* wakeup() leaves no process asleep.
LEMMA WakeupStep ==
    ASSUME IInv, NEW c \in CPUs, wakeup(c)
    PROVE  IInv'
<1>0. Types /\ Places /\ LockInv /\ FlagInv /\ SleepInv /\ RingInv
  BY DEF IInv
<1>1. PICK l, y : l = "ptable" /\ y = "keys" /\ release(c, l) /\ goto(c, y)
  BY DEF wakeup
<1>2. /\ here(c) = "wake" /\ ~ spinning[c]
      /\ state' = [p \in Procs |-> IF state[p] = "SLEEPING" THEN "RUNNABLE" ELSE state[p]]
      /\ UNCHANGED <<input, run, saved>>
  BY DEF wakeup, At
<1>3. SameStates /\ state' \in [Procs -> {"RUNNABLE", "RUNNING", "SLEEPING", "ZOMBIE"}]
  BY <1>0, <1>2 DEF SameStates, Types
<1>4. Moved(c, y) /\ Types' /\ Places' /\ LockInv' /\ FlagInv'
  BY <1>0, <1>1, <1>2, <1>3, WakeLeaves, Released
<1>5. SleepInv'
  <2>1. r' = r /\ w' = w /\ \A p \in Procs : state'[p] # "SLEEPING"
    BY <1>2 DEF input
  <2>2. \A d \in CPUs : here(d)' \in {"sleep", "asleep"} => r' = w'
    BY <1>0, <1>1, <1>4, <2>1 DEF SleepInv, Moved
  <2> QED
    BY <2>1, <2>2 DEF SleepInv, ReaderWoken
<1>6. RingInv'
  BY <1>0, <1>2, RingKept
<1> QED
  BY <1>4, <1>5, <1>6 DEF IInv

\* No CPU moves.
LEMMA StillThere ==
    ASSUME LockInv, FlagInv,
           UNCHANGED <<locked, iF, ncli, intena, spinning, panic, run, main, intr>>,
           NEW c \in CPUs
    PROVE  here(c)' = here(c) /\ LockAt(c)' /\ FlagAt(c)'
<1>1. here(c)' = here(c)
  BY DEF here
<1>2. LockAt(c)'
  <2>1. LockAt(c)
    BY DEF LockInv
  <2> QED
    BY <1>1, <2>1 DEF LockAt
<1>3. On(c)' <=> On(c)
  BY DEF On
<1>4. FlagAt(c)'
  <2>1. FlagAt(c)
    BY DEF FlagInv
  <2> QED
    BY <1>3, <2>1 DEF FlagAt
<1> QED
  BY <1>1, <1>2, <1>4

LEMMA KillStep ==
    ASSUME IInv, NEW p \in Procs, kill(p)
    PROVE  IInv'
<1>0. Types /\ Places /\ LockInv /\ FlagInv /\ SleepInv /\ RingInv
  BY DEF IInv
<1>1. /\ UNCHANGED <<locked, iF, ncli, intena, spinning, panic, input, run, main, intr, saved>>
      /\ state' = [state EXCEPT ![p] = IF @ = "SLEEPING" THEN "RUNNABLE" ELSE @]
  BY DEF kill, lockvars
<1>2. SameStates /\ state' \in [Procs -> {"RUNNABLE", "RUNNING", "SLEEPING", "ZOMBIE"}]
  BY <1>0, <1>1 DEF SameStates, Types
<1>3. Types'
  BY <1>0, <1>1, <1>2 DEF Types
<1>4. Places'
  <2>1. \A c \in CPUs : run[c] \in Procs => state'[run[c]] = "RUNNING"
    BY <1>0, <1>2 DEF Places, SameStates
  <2>2. \A q \in Procs : state'[q] \in {"RUNNABLE", "SLEEPING"} => Parked(q)
    BY <1>0, <1>2 DEF Places, SameStates
  <2>3. \A q \in Procs : Parked(q)' <=> Parked(q)
    BY <1>1 DEF Parked
  <2> QED
    BY <1>0, <1>1, <2>1, <2>2, <2>3 DEF Places
<1>5. \A c \in CPUs : here(c)' = here(c) /\ LockAt(c)' /\ FlagAt(c)'
  BY <1>0, <1>1, StillThere
<1>6. \A q \in Procs : SavedAt(q)'
  BY <1>0, <1>1, <1>2 DEF FlagInv, SavedAt, SameStates
<1>7. LockInv' /\ FlagInv'
  BY <1>5, <1>6 DEF LockInv, FlagInv
<1>8. SleepInv'
  <2>1. \A q \in Procs : state'[q] = "SLEEPING" => state[q] = "SLEEPING"
    BY <1>2 DEF SameStates
  <2> QED
    BY <1>0, <1>1, <1>5, <2>1, SleepKept DEF input
<1>9. RingInv'
  BY <1>0, <1>1, RingKept
<1> QED
  BY <1>3, <1>4, <1>7, <1>8, <1>9 DEF IInv

-----------------------------------------------------------------------------
(* The ring                                                                *)

\* Indices, in terms of the counters of RingLemmas.
LEMMA Indices ==
    ASSUME NEW x \in 0 .. WORD - 1, NEW k \in 0 .. WORD - 1
    PROVE  /\ plus(x, k) \in 0 .. WORD - 1 /\ minus(plus(x, k), x) = k
           /\ \A y \in 0 .. WORD - 1 : /\ minus(y, x) \in 0 .. WORD - 1
                                       /\ minus(y, x) = k <=> y = plus(x, k)
           /\ plus(x, k) = plus(k, x) /\ plus(x, 0) = x
<1>1. WORD \in Nat \ {0}
  BY Constants
<1>2. plus(x, k) = Add(WORD, x, k) /\ plus(x, 0) = Add(WORD, x, 0)
  BY DEF plus, Add
<1>3. plus(x, k) \in 0 .. WORD - 1 /\ plus(x, 0) = x
  BY <1>1, <1>2, AddType, AddZero
<1>4. ASSUME NEW y \in 0 .. WORD - 1
      PROVE  /\ minus(y, x) \in 0 .. WORD - 1
             /\ minus(y, x) = k <=> y = plus(x, k)
  <2>1. minus(y, x) = Gap(WORD, x, y)
    BY DEF minus, Gap
  <2> QED
    BY <1>1, <1>2, <2>1, GapIs, GapAdd
<1>5. plus(x, k) = plus(k, x)
  BY DEF plus
<1> QED
  BY <1>3, <1>4, <1>5

LEMMA PlusPlus ==
    ASSUME NEW x \in 0 .. WORD - 1, NEW i \in 0 .. WORD - 1, NEW j \in 0 .. WORD - 1,
           NEW k, k = i + j, k < WORD
    PROVE  plus(plus(x, i), j) = plus(x, k)
<1>1. WORD \in Nat \ {0}
  BY Constants
<1>2. Add(WORD, Add(WORD, x, i), j) = Add(WORD, x, i + j)
  BY <1>1, AddTwice
<1> QED
  BY <1>2 DEF plus, Add

\* Going back from an index is going less far.
LEMMA Back ==
    ASSUME NEW x \in 0 .. WORD - 1, NEW b \in 0 .. WORD - 1, NEW j \in 0 .. b,
           NEW k, k = b - j
    PROVE  minus(plus(x, b), j) = plus(x, k)
<1>1. WORD \in Nat \ {0}
  BY Constants
<1>2. PICK y, z : y = plus(x, b) /\ z = plus(x, k)
  OBVIOUS
<1>3. k \in 0 .. WORD - 1 /\ j \in 0 .. WORD - 1 /\ b = k + j /\ b < WORD
  BY <1>1
<1>4. y \in 0 .. WORD - 1 /\ z \in 0 .. WORD - 1
  BY <1>2, <1>3, Indices
<1>5. plus(z, j) = y
  BY <1>2, <1>3, PlusPlus
<1>6. plus(j, z) = y
  BY <1>3, <1>4, <1>5, Indices
<1> QED
  BY <1>2, <1>3, <1>4, <1>6, Indices

\* Indices that are less than INPUT_BUF apart have different cells.
LEMMA CellsOf ==
    ASSUME NEW x \in 0 .. WORD - 1, NEW i \in 0 .. INPUT_BUF - 1, NEW j \in 0 .. INPUT_BUF - 1
    PROVE  /\ plus(x, i) % INPUT_BUF \in 0 .. INPUT_BUF - 1
           /\ plus(x, i) % INPUT_BUF = plus(x, j) % INPUT_BUF => i = j
<1>1. /\ INPUT_BUF \in Nat \ {0} /\ WORD \in Nat \ {0} /\ WORD % INPUT_BUF = 0
      /\ i \in 0 .. WORD - 1 /\ j \in 0 .. WORD - 1 /\ x \in Nat
  BY Constants
<1>2. /\ Cell(INPUT_BUF, Add(WORD, x, i)) = Cell(INPUT_BUF, x + i)
      /\ Cell(INPUT_BUF, Add(WORD, x, j)) = Cell(INPUT_BUF, x + j)
  BY <1>1, AddCell
<1>3. /\ plus(x, i) % INPUT_BUF = Cell(INPUT_BUF, Add(WORD, x, i))
      /\ plus(x, j) % INPUT_BUF = Cell(INPUT_BUF, Add(WORD, x, j))
  BY DEF plus, Add, Cell
<1>4. PICK y, z : y = x + i /\ z = x + j
  OBVIOUS
<1>5. Cell(INPUT_BUF, y) = Cell(INPUT_BUF, z) => i = j
  BY <1>1, <1>4, CellsDiffer
<1>6. y \in Nat
  BY <1>1, <1>4
<1>7. Cell(INPUT_BUF, y) \in 0 .. INPUT_BUF - 1
  BY <1>1, <1>6, CellType
<1> QED
  BY <1>2, <1>3, <1>4, <1>5, <1>7

\* Indices at given distances.
LEMMA Distances ==
    ASSUME NEW x \in 0 .. WORD - 1, NEW a \in 0 .. INPUT_BUF, NEW b \in 0 .. INPUT_BUF,
           NEW n, n = a + b, n <= INPUT_BUF,
           NEW y, NEW z, y = plus(x, a), z = plus(y, b)
    PROVE  /\ y \in 0 .. WORD - 1 /\ z \in 0 .. WORD - 1 /\ z = plus(x, n)
           /\ minus(y, x) = a /\ minus(z, y) = b /\ minus(z, x) = n
           /\ \A k \in 0 .. INPUT_BUF - a : plus(y, k) = plus(x, a + k)
<1>1. /\ INPUT_BUF \in Nat /\ WORD \in Nat \ {0} /\ INPUT_BUF < WORD
      /\ a \in 0 .. WORD - 1 /\ b \in 0 .. WORD - 1 /\ n \in 0 .. WORD - 1
  BY Constants
<1>2. y \in 0 .. WORD - 1 /\ minus(y, x) = a
  BY <1>1, Indices
<1>3. z \in 0 .. WORD - 1 /\ minus(z, y) = b
  BY <1>1, <1>2, Indices
<1>4. z = plus(x, n)
  BY <1>1, PlusPlus
<1>5. minus(z, x) = n
  BY <1>1, <1>4, Indices
<1>6. ASSUME NEW k \in 0 .. INPUT_BUF - a
      PROVE  plus(y, k) = plus(x, a + k)
  <2>1. k \in 0 .. WORD - 1 /\ a + k < WORD
    BY <1>1
  <2> QED
    BY <1>1, <2>1, PlusPlus
<1> QED
  BY <1>2, <1>3, <1>4, <1>5, <1>6

\* How far the indices are from each other.
Ring(a, b) ==
    /\ a \in 0 .. INPUT_BUF /\ b \in 0 .. INPUT_BUF /\ a + b \in 0 .. INPUT_BUF
    /\ r \in 0 .. WORD - 1 /\ w \in 0 .. WORD - 1 /\ e \in 0 .. WORD - 1
    /\ w = plus(r, a) /\ e = plus(w, b) /\ e = plus(r, a + b)
    /\ minus(w, r) = a /\ minus(e, w) = b /\ minus(e, r) = a + b
    /\ \A k \in 0 .. INPUT_BUF - a : plus(w, k) = plus(r, a + k)

LEMMA RingShape ==
    ASSUME RingInv
    PROVE  \E a, b : Ring(a, b)
<1>1. /\ INPUT_BUF \in Nat /\ WORD \in Nat \ {0} /\ INPUT_BUF < WORD
      /\ r \in 0 .. WORD - 1 /\ w \in 0 .. WORD - 1 /\ e \in 0 .. WORD - 1
  BY Constants DEF RingInv
<1>2. PICK a, b : a = minus(w, r) /\ b = minus(e, w)
  OBVIOUS
<1>3. a \in 0 .. WORD - 1 /\ b \in 0 .. WORD - 1 /\ a + b <= INPUT_BUF
  BY <1>1, <1>2, Indices DEF RingInv
<1>4. w = plus(r, a) /\ e = plus(w, b)
  BY <1>1, <1>2, <1>3, Indices
<1>5. PICK n : n = a + b
  OBVIOUS
<1>6. n \in 0 .. INPUT_BUF /\ a \in 0 .. INPUT_BUF /\ b \in 0 .. INPUT_BUF
  BY <1>1, <1>3, <1>5
<1>7. /\ e = plus(r, n) /\ minus(e, r) = n
      /\ \A k \in 0 .. INPUT_BUF - a : plus(w, k) = plus(r, a + k)
  BY <1>1, <1>4, <1>5, <1>6, Distances
<1> QED
  BY <1>1, <1>2, <1>4, <1>5, <1>6, <1>7 DEF Ring

\* The indices after a step.
LEMMA RingNext ==
    ASSUME NEW a \in 0 .. INPUT_BUF, NEW b \in 0 .. INPUT_BUF, a + b \in 0 .. INPUT_BUF,
           r' \in 0 .. WORD - 1, w' = plus(r', a), e' = plus(w', b)
    PROVE  Ring(a, b)'
<1>1. PICK x, y, z, n : x = r' /\ y = w' /\ z = e' /\ n = a + b
  OBVIOUS
<1>2. /\ x \in 0 .. WORD - 1 /\ n = a + b /\ n <= INPUT_BUF
      /\ y = plus(x, a) /\ z = plus(y, b)
  BY <1>1, Constants
<1>3. /\ y \in 0 .. WORD - 1 /\ z \in 0 .. WORD - 1 /\ z = plus(x, n)
      /\ minus(y, x) = a /\ minus(z, y) = b /\ minus(z, x) = n
      /\ \A k \in 0 .. INPUT_BUF - a : plus(y, k) = plus(x, a + k)
  BY <1>2, Distances
<1> QED
  BY <1>1, <1>2, <1>3 DEF Ring, plus, minus

\* The ring is as it should be once the line being typed has no end of a line.
LEMMA RingInvNext ==
    ASSUME NEW a, NEW b, Ring(a, b)', DOMAIN buf' = 0 .. INPUT_BUF - 1,
           \A k \in 0 .. b - 1 : buf'[plus(w', k) % INPUT_BUF] # "newline"
    PROVE  RingInv'
<1>1. /\ r' \in 0 .. WORD - 1 /\ w' \in 0 .. WORD - 1 /\ e' \in 0 .. WORD - 1
      /\ minus(w', r') = a /\ minus(e', w') = b /\ a + b \in 0 .. INPUT_BUF
  BY DEF Ring, minus
<1>2. minus(w', r') + minus(e', w') <= INPUT_BUF
  BY <1>1, Constants
<1> QED
  BY <1>1, <1>2 DEF RingInv, minus, plus

\* ^U goes back to the start of the line: the loop of consoleintr() would stop
\* after an end of a line, and there is none in what is being typed.
LEMMA LineStart ==
    ASSUME RingInv, NEW a, NEW b, Ring(a, b)
    PROVE  lineStart = w
<1>1. /\ b \in 0 .. WORD - 1 /\ b \in Nat /\ w \in 0 .. WORD - 1
      /\ e = plus(w, b) /\ minus(e, w) = b
  BY Constants DEF Ring
<1>2. ASSUME NEW j \in 1 .. b
      PROVE  buf[minus(e, j) % INPUT_BUF] # "newline"
  <2>1. PICK k : k = b - j
    OBVIOUS
  <2>2. k \in 0 .. b - 1 /\ j \in 0 .. b
    BY <1>1, <2>1
  <2>3. minus(e, j) = plus(w, k)
    BY <1>1, <2>1, <2>2, Back
  <2> QED
    BY <1>1, <2>2, <2>3 DEF RingInv
<1> DEFINE erased == {k \in 0 .. minus(e, w) :
                         \A j \in 1 .. k : buf[minus(e, j) % INPUT_BUF] # "newline"}
<1>3. erased = 0 .. b
  <2>1. \A k \in 0 .. b : \A j \in 1 .. k : j \in 1 .. b
    BY <1>1
  <2> QED
    BY <1>1, <1>2, <2>1
<1>4. (CHOOSE k \in erased : \A j \in erased : j <= k) = b
  <2> HIDE DEF erased
  <2> QED
    BY <1>1, <1>3
<1>5. minus(e, b) = plus(w, 0)
  <2>1. PICK k : k = 0
    OBVIOUS
  <2>2. k = b - b /\ b \in 0 .. b
    BY <1>1, <2>1
  <2> QED
    BY <1>1, <2>1, <2>2, Back
<1>6. plus(w, 0) = w
  BY <1>1, Indices
<1> QED
  BY <1>4, <1>5, <1>6 DEF lineStart

-----------------------------------------------------------------------------
(* Reading and typing                                                      *)

\* While a CPU works on the ring no other is about to sleep.
LEMMA NobodySleeps ==
    ASSUME Types, LockInv, NEW c \in CPUs, here(c) \in {"keys", "read"}
    PROVE  \A d \in CPUs : here(d) \notin {"sleep", "asleep"}
<1>1. "input" \in Locks /\ Holds(here(c), "input")
  BY Constants DEF Holds, InputAt
<1>2. locked["input"] = c
  BY <1>1 DEF LockInv, LockAt
<1>3. ASSUME NEW d \in CPUs, here(d) \in {"sleep", "asleep"}
      PROVE  FALSE
  <2>1. Holds(here(d), "input")
    BY <1>3 DEF Holds, InputAt
  <2>2. locked["input"] = d
    BY <1>1, <2>1 DEF LockInv, LockAt
  <2> QED
    BY <1>2, <1>3, <2>2
<1> QED
  BY <1>3

\* A step on the ring, after which the CPU stays where it is or moves on.
LEMMA RingStep ==
    ASSUME IInv, NEW c \in CPUs, here(c) \in {"keys", "read"}, ~ spinning[c], NEW y,
           \/ goto(c, y) /\ Quiet(c, y) /\ y \notin {"sleep", "asleep"}
           \/ UNCHANGED <<main, intr>>,
           UNCHANGED <<lockvars, run, saved, state>>, RingInv', ReaderWoken'
    PROVE  IInv'
<1>0. Types /\ Places /\ LockInv /\ FlagInv
  BY DEF IInv
<1>1. \A d \in CPUs : here(d) \notin {"sleep", "asleep"}
  BY <1>0, NobodySleeps
<1>2. CASE goto(c, y) /\ Quiet(c, y) /\ y \notin {"sleep", "asleep"}
  <2>1. Moved(c, y) /\ Types' /\ Places' /\ LockInv' /\ FlagInv'
    BY <1>0, <1>2, QuietStep
  <2>2. \A d \in CPUs : here(d)' \notin {"sleep", "asleep"}
    BY <1>1, <1>2, <2>1 DEF Moved
  <2> QED
    BY <2>1, <2>2 DEF IInv, SleepInv
<1>3. CASE UNCHANGED <<main, intr>>
  <2>1. UNCHANGED <<locked, iF, ncli, intena, spinning, panic, run, main, intr, saved, state>>
    BY <1>3 DEF lockvars
  <2>2. \A d \in CPUs : here(d)' = here(d) /\ LockAt(d)' /\ FlagAt(d)'
    BY <1>0, <2>1, StillThere
  <2>3. \A p \in Procs : (Parked(p)' <=> Parked(p)) /\ (SavedAt(p)' <=> SavedAt(p))
    BY <2>1 DEF Parked, SavedAt
  <2>4. Types'
    BY <1>0, <2>1 DEF Types
  <2>5. Places'
    BY <1>0, <2>1, <2>3 DEF Places
  <2>6. LockInv' /\ FlagInv'
    BY <1>0, <2>2, <2>3 DEF LockInv, FlagInv
  <2>7. SleepInv'
    BY <1>1, <2>2 DEF SleepInv
  <2> QED
    BY <2>4, <2>5, <2>6, <2>7 DEF IInv
<1> QED
  BY <1>2, <1>3

\* The reader takes a character off the complete lines.
LEMMA TakeRing ==
    ASSUME NEW a, NEW b, Ring(a, b), r # w, r' = plus(r, 1), w' = w, e' = e
    PROVE  a - 1 \in 0 .. INPUT_BUF /\ Ring(a - 1, b)'
<1>1. /\ INPUT_BUF \in Nat /\ WORD \in Nat \ {0} /\ INPUT_BUF < WORD
      /\ a \in 0 .. INPUT_BUF /\ b \in 0 .. INPUT_BUF /\ a + b \in 0 .. INPUT_BUF
      /\ r \in 0 .. WORD - 1 /\ w = plus(r, a) /\ e = plus(w, b)
  BY Constants DEF Ring
<1>2. a # 0
  BY <1>1, Indices
<1>3. PICK n : n = a - 1
  OBVIOUS
<1>4. /\ n \in 0 .. INPUT_BUF /\ n + b \in 0 .. INPUT_BUF /\ n \in 0 .. WORD - 1
      /\ a = 1 + n /\ a < WORD /\ 1 \in 0 .. WORD - 1
  BY <1>1, <1>2, <1>3
<1>5. plus(plus(r, 1), n) = plus(r, a)
  BY <1>1, <1>4, PlusPlus
<1>6. r' \in 0 .. WORD - 1
  BY <1>1, <1>4, Indices
<1>7. Ring(n, b)'
  BY <1>1, <1>4, <1>5, <1>6, RingNext
<1> QED
  BY <1>3, <1>4, <1>7

LEMMA ConsolereadStep ==
    ASSUME IInv, NEW c \in CPUs, consoleread(c)
    PROVE  IInv'
<1>0. Types /\ Places /\ SleepInv /\ RingInv
  BY DEF IInv
<1>1. /\ here(c) = "read" /\ ~ spinning[c]
      /\ UNCHANGED <<lockvars, buf, w, e, run, saved, state>>
  BY DEF consoleread, At
<1>2. CASE r = w
  <2>1. PICK y \in {"readdone", "sleep"} : goto(c, y)
    BY <1>2 DEF consoleread
  <2>2. UNCHANGED input
    BY <1>1, <1>2 DEF consoleread, input
  <2>3. Quiet(c, y)
    BY <1>1, ReaderQuiet
  <2> QED
    BY <1>1, <1>2, <2>1, <2>2, <2>3, QuietInv
<1>3. CASE r # w
  <2>1. r' = r \/ r' = plus(r, 1)
    BY <1>3 DEF consoleread
  <2>2. PICK y : y = "readdone" /\ (goto(c, y) \/ UNCHANGED <<main, intr>>)
    BY <1>3 DEF consoleread
  <2>3. Quiet(c, y) /\ y \notin {"sleep", "asleep"}
    BY <1>1, <2>2, ReaderQuiet
  <2>4. RingInv'
    <3>1. CASE r' = r
      <4>1. UNCHANGED input
        BY <1>1, <3>1 DEF input
      <4> QED
        BY <1>0, <4>1, RingKept
    <3>2. CASE r' = plus(r, 1)
      <4>1. PICK a, b : Ring(a, b)
        BY <1>0, RingShape
      <4>2. PICK n : n = a - 1
        OBVIOUS
      <4>3. Ring(n, b)'
        BY <1>1, <1>3, <3>2, <4>1, <4>2, TakeRing
      <4>4. minus(e, w) = b /\ DOMAIN buf = 0 .. INPUT_BUF - 1
        BY <1>0, <4>1 DEF Ring, RingInv
      <4>5. \A k \in 0 .. b - 1 : buf'[plus(w', k) % INPUT_BUF] # "newline"
        BY <1>0, <1>1, <4>4 DEF RingInv
      <4> QED
        BY <1>1, <4>3, <4>4, <4>5, RingInvNext
    <3> QED
      BY <2>1, <3>1, <3>2
  <2>5. intr' = intr
    <3>1. intr[run[c]] = "none"
      BY <1>0, <1>1, Here DEF ProcessAt
    <3> QED
      BY <2>2, <3>1 DEF goto
  <2>6. ReaderWoken'
    BY <1>0, <1>1, <1>3, <2>5 DEF SleepInv, ReaderWoken
  <2> QED
    BY <1>1, <2>2, <2>3, <2>4, <2>6, RingStep
<1> QED
  BY <1>2, <1>3

\* Backspace and ^U shorten the line being typed.
LEMMA EditRing ==
    ASSUME NEW a, NEW b, Ring(a, b), NEW n \in 0 .. b, e' = plus(w, n), r' = r, w' = w
    PROVE  n \in 0 .. INPUT_BUF /\ Ring(a, n)'
<1>1. /\ a \in 0 .. INPUT_BUF /\ b \in 0 .. INPUT_BUF /\ a + b \in 0 .. INPUT_BUF
      /\ r \in 0 .. WORD - 1 /\ w = plus(r, a) /\ INPUT_BUF \in Nat
  BY Constants DEF Ring
<1>2. n \in 0 .. INPUT_BUF /\ a + n \in 0 .. INPUT_BUF
  BY <1>1
<1> QED
  BY <1>1, <1>2, RingNext

\* Where backspace leaves the end of the line.
LEMMA Backspace ==
    ASSUME NEW a, NEW b, Ring(a, b), e # w
    PROVE  b - 1 \in 0 .. b /\ minus(e, 1) = plus(w, b - 1)
<1>1. /\ b \in 0 .. WORD - 1 /\ w \in 0 .. WORD - 1 /\ e = plus(w, b) /\ INPUT_BUF \in Nat
  BY Constants DEF Ring
<1>2. b # 0
  BY <1>1, Indices
<1>3. PICK n : n = b - 1
  OBVIOUS
<1>4. n \in 0 .. b /\ 1 \in 0 .. b
  BY <1>1, <1>2, <1>3
<1>5. minus(e, 1) = plus(w, n)
  BY <1>1, <1>3, <1>4, Back
<1> QED
  BY <1>3, <1>4, <1>5

\* A character extends the line being typed, and may complete it.
LEMMA TypeRing ==
    ASSUME NEW a, NEW b, Ring(a, b), room, e' = plus(e, 1), r' = r, w' \in {w, e'}
    PROVE  /\ a + b < INPUT_BUF
           /\ w' = w => Ring(a, b + 1)'
           /\ w' = e' => Ring(a + b + 1, 0)'
           /\ plus(e, 1) = plus(r, INPUT_BUF) <=> a + b + 1 = INPUT_BUF
<1>1. /\ INPUT_BUF \in Nat /\ WORD \in Nat \ {0} /\ INPUT_BUF < WORD
      /\ a \in 0 .. INPUT_BUF /\ b \in 0 .. INPUT_BUF /\ a + b \in 0 .. INPUT_BUF
      /\ r \in 0 .. WORD - 1 /\ w \in 0 .. WORD - 1 /\ minus(e, r) = a + b
      /\ w = plus(r, a) /\ e = plus(w, b) /\ e = plus(r, a + b)
  BY Constants DEF Ring
<1>2. a + b < INPUT_BUF
  BY <1>1 DEF room
<1>3. PICK m, n, k : m = b + 1 /\ n = a + b + 1 /\ k = a + b
  OBVIOUS
<1>4. /\ m \in 0 .. INPUT_BUF /\ n \in 0 .. INPUT_BUF /\ a + m \in 0 .. INPUT_BUF
      /\ n + 0 \in 0 .. INPUT_BUF /\ 0 \in 0 .. INPUT_BUF
  BY <1>1, <1>2, <1>3
<1>5. /\ 1 \in 0 .. WORD - 1 /\ b \in 0 .. WORD - 1 /\ k \in 0 .. WORD - 1
      /\ m = b + 1 /\ n = k + 1 /\ m < WORD /\ n < WORD
      /\ n \in 0 .. WORD - 1 /\ INPUT_BUF \in 0 .. WORD - 1
  BY <1>1, <1>2, <1>3
<1>6. e' = plus(w, m)
  BY <1>1, <1>5, PlusPlus
<1>7. e' = plus(r, n)
  BY <1>1, <1>3, <1>5, PlusPlus
<1>8. w' = w => Ring(a, m)'
  BY <1>1, <1>4, <1>6, RingNext
<1>9. w' = e' => Ring(n, 0)'
  <2> SUFFICES ASSUME w' = e' PROVE Ring(n, 0)'
    OBVIOUS
  <2>1. e' \in 0 .. WORD - 1
    BY <1>1, <1>5, <1>7, Indices
  <2>2. e' = plus(w', 0)
    BY <2>1, <1>5, Indices
  <2> QED
    BY <1>1, <1>4, <1>7, <2>2, RingNext
<1>10. plus(e, 1) = plus(r, INPUT_BUF) <=> n = INPUT_BUF
  <2>1. minus(plus(r, n), r) = n /\ minus(plus(r, INPUT_BUF), r) = INPUT_BUF
    BY <1>1, <1>5, Indices
  <2> QED
    BY <1>7, <2>1
<1> QED
  BY <1>2, <1>3, <1>8, <1>9, <1>10

\* The character is stored behind the ones that are there.
Stores(ch) == buf' = [buf EXCEPT ![e % INPUT_BUF] = ch]

LEMMA StoreRing ==
    ASSUME RingInv, NEW a, NEW b, Ring(a, b), NEW n, n = a + b, n < INPUT_BUF, NEW ch, Stores(ch)
    PROVE  /\ DOMAIN buf' = 0 .. INPUT_BUF - 1
           /\ buf'[plus(r, n) % INPUT_BUF] = ch
           /\ \A k \in 0 .. n - 1 :
                 buf'[plus(r, k) % INPUT_BUF] = buf[plus(r, k) % INPUT_BUF]
<1>1. /\ INPUT_BUF \in Nat /\ r \in 0 .. WORD - 1 /\ a + b \in 0 .. INPUT_BUF
      /\ e = plus(r, a + b) /\ DOMAIN buf = 0 .. INPUT_BUF - 1
  BY Constants DEF Ring, RingInv
<1>3. n \in 0 .. INPUT_BUF - 1 /\ e = plus(r, n)
  BY <1>1
<1>4. e % INPUT_BUF \in DOMAIN buf
  BY <1>1, <1>3, CellsOf
<1>5. DOMAIN buf' = 0 .. INPUT_BUF - 1 /\ buf'[e % INPUT_BUF] = ch
  BY <1>1, <1>4 DEF Stores
<1>6. ASSUME NEW k \in 0 .. n - 1
      PROVE  buf'[plus(r, k) % INPUT_BUF] = buf[plus(r, k) % INPUT_BUF]
  <2>1. k \in 0 .. INPUT_BUF - 1 /\ k # n
    BY <1>1, <1>3
  <2>2. plus(r, k) % INPUT_BUF \in DOMAIN buf /\ plus(r, k) % INPUT_BUF # e % INPUT_BUF
    BY <1>1, <1>3, <2>1, CellsOf
  <2> QED
    BY <2>2 DEF Stores
<1>7. buf'[plus(r, n) % INPUT_BUF] = ch
  BY <1>3, <1>5
<1> QED
  BY <1>5, <1>6, <1>7

\* What a key does.
LEMMA KeyCases ==
    ASSUME NEW c \in CPUs, NEW key, consoleintr(c, key)
    PROVE  \/ key = "^P" /\ goto(c, "procdump") /\ UNCHANGED input
           \/ key = "^U" /\ e' = lineStart /\ UNCHANGED <<buf, r, w, main, intr>>
           \/ /\ key = "^H" /\ e' = (IF erasable THEN minus(e, 1) ELSE e)
              /\ UNCHANGED <<buf, r, w, main, intr>>
           \/ /\ key \notin {"^P", "^U", "^H"}
              /\ room /\ buf' = [buf EXCEPT ![e % INPUT_BUF] = stored(key)]
              /\ e' = plus(e, 1) /\ r' = r
              /\ \/ completes(stored(key)) /\ w' = e' /\ goto(c, "wakeup")
                 \/ ~ completes(stored(key)) /\ UNCHANGED <<w, main, intr>>
<1>1. CASE key = "^P"
  BY <1>1 DEF consoleintr
<1>2. CASE key = "^U"
  BY <1>2 DEF consoleintr
<1>3. CASE key = "^H"
  BY <1>3 DEF consoleintr
<1>4. CASE key \notin {"^P", "^U", "^H"}
  BY <1>4 DEF consoleintr, announce
<1> QED
  BY <1>1, <1>2, <1>3, <1>4

\* Editing keeps the ring in order, and wakes nobody.
LEMMA EditStep ==
    ASSUME IInv, NEW c \in CPUs, here(c) = "keys", ~ spinning[c],
           NEW a, NEW b, Ring(a, b), NEW n \in 0 .. b, e' = plus(w, n),
           UNCHANGED <<buf, r, w, main, intr>>, UNCHANGED <<lockvars, run, saved, state>>
    PROVE  IInv'
<1>0. SleepInv /\ RingInv
  BY DEF IInv
<1>1. Ring(a, n)'
  BY EditRing
<1>2. /\ minus(e, w) = b /\ DOMAIN buf = 0 .. INPUT_BUF - 1 /\ b \in Nat
      /\ \A k \in 0 .. b - 1 : buf[plus(w, k) % INPUT_BUF] # "newline"
  BY <1>0, Constants DEF Ring, RingInv
<1>3. \A k \in 0 .. n - 1 : k \in 0 .. b - 1
  BY <1>2
<1>4. RingInv'
  BY <1>1, <1>2, <1>3, RingInvNext
<1>5. ReaderWoken'
  BY <1>0 DEF SleepInv, ReaderWoken
<1> QED
  BY <1>4, <1>5, RingStep

\* A character that does not complete the line is no end of a line.
LEMMA TypeStep ==
    ASSUME IInv, NEW c \in CPUs, here(c) = "keys", ~ spinning[c], NEW ch, room,
           Stores(ch), e' = plus(e, 1), r' = r,
           \/ completes(ch) /\ w' = e' /\ goto(c, "wakeup")
           \/ ~ completes(ch) /\ UNCHANGED <<w, main, intr>>,
           UNCHANGED <<lockvars, run, saved, state>>
    PROVE  IInv'
<1>0. Types /\ Places /\ SleepInv /\ RingInv
  BY DEF IInv
<1>1. PICK a, b : Ring(a, b)
  BY <1>0, RingShape
<1>2. w' \in {w, e'}
  OBVIOUS
<1>3. /\ a + b < INPUT_BUF
      /\ w' = w => Ring(a, b + 1)'
      /\ w' = e' => Ring(a + b + 1, 0)'
  BY <1>1, <1>2, TypeRing
<1>4. PICK n, m : n = a + b /\ m = b + 1
  OBVIOUS
<1>a. n = a + b /\ n < INPUT_BUF
  BY <1>3, <1>4
<1>5. /\ DOMAIN buf' = 0 .. INPUT_BUF - 1
      /\ buf'[plus(r, n) % INPUT_BUF] = ch
      /\ \A k \in 0 .. n - 1 : buf'[plus(r, k) % INPUT_BUF] = buf[plus(r, k) % INPUT_BUF]
  BY <1>0, <1>1, <1>a, StoreRing
<1>6. /\ a \in 0 .. INPUT_BUF /\ b \in 0 .. INPUT_BUF /\ INPUT_BUF \in Nat /\ minus(e, w) = b
      /\ \A k \in 0 .. INPUT_BUF - a : plus(w, k) = plus(r, a + k)
  BY <1>1, Constants DEF Ring
<1>7. CASE completes(ch) /\ w' = e' /\ goto(c, "wakeup")
  <2>1. PICK y, k : y = "wakeup" /\ k = a + b + 1
    OBVIOUS
  <2>2. goto(c, y) /\ Quiet(c, y) /\ y \notin {"sleep", "asleep"}
    BY <1>7, <2>1, HandlerQuiet
  <2>3. Ring(k, 0)' /\ \A i \in 0 .. 0 - 1 : buf'[plus(w', i) % INPUT_BUF] # "newline"
    BY <1>3, <1>7, <2>1
  <2>4. RingInv'
    BY <1>5, <2>3, RingInvNext
  <2>5. run[c] \in Threads /\ intr[run[c]] # "none"
    BY <1>0, Here DEF HandlerAt
  <2>6. intr'[run[c]] = "wakeup"
    BY <1>0, <1>7, <2>5 DEF goto, Types
  <2>7. ReaderWoken'
    BY <2>5, <2>6 DEF ReaderWoken
  <2> QED
    BY <2>2, <2>4, <2>7, RingStep
<1>8. CASE ~ completes(ch) /\ UNCHANGED <<w, main, intr>>
  <2>1. Ring(a, m)'
    BY <1>3, <1>4, <1>8
  <2>2. ASSUME NEW k \in 0 .. m - 1
        PROVE  buf'[plus(w', k) % INPUT_BUF] # "newline"
    <3>1. plus(w, k) = plus(r, a + k) /\ (k = b \/ k \in 0 .. b - 1)
      BY <1>3, <1>4, <1>6
    <3>2. CASE k = b
      <4>1. ch # "newline"
        BY <1>8 DEF completes
      <4> QED
        BY <1>4, <1>5, <1>8, <3>1, <3>2, <4>1
    <3>3. CASE k \in 0 .. b - 1
      <4>1. PICK i : i = a + k
        OBVIOUS
      <4>2. i \in 0 .. n - 1 /\ plus(w, k) = plus(r, i)
        BY <1>4, <1>6, <3>1, <3>3, <4>1
      <4>3. buf'[plus(w, k) % INPUT_BUF] = buf[plus(w, k) % INPUT_BUF]
        BY <1>5, <4>2
      <4>4. buf[plus(w, k) % INPUT_BUF] # "newline"
        BY <1>0, <1>6, <3>3 DEF RingInv
      <4> QED
        BY <1>8, <4>3, <4>4
    <3> QED
      BY <3>1, <3>2, <3>3
  <2>3. RingInv'
    BY <1>5, <2>1, <2>2, RingInvNext
  <2>4. ReaderWoken'
    BY <1>0, <1>8 DEF SleepInv, ReaderWoken
  <2> QED
    BY <1>8, <2>3, <2>4, RingStep
<1> QED
  BY <1>7, <1>8

LEMMA ConsoleintrStep ==
    ASSUME IInv, NEW c \in CPUs, NEW key \in Keys, consoleintr(c, key)
    PROVE  IInv'
<1>0. RingInv
  BY DEF IInv
<1>1. here(c) = "keys" /\ ~ spinning[c] /\ UNCHANGED <<lockvars, run, saved, state>>
  BY DEF consoleintr, At
<1>2. PICK a, b : Ring(a, b)
  BY <1>0, RingShape
<1>3. b \in 0 .. INPUT_BUF /\ w \in 0 .. WORD - 1 /\ e = plus(w, b) /\ INPUT_BUF \in Nat
  BY <1>2, Constants DEF Ring
<1>4. CASE key = "^P" /\ goto(c, "procdump") /\ UNCHANGED input
  <2>1. PICK y : y = "procdump" /\ goto(c, y)
    BY <1>4
  <2>2. Quiet(c, y)
    BY <1>1, <2>1, HandlerQuiet
  <2> QED
    BY <1>1, <1>4, <2>1, <2>2, QuietInv
<1>5. CASE key = "^U" /\ e' = lineStart /\ UNCHANGED <<buf, r, w, main, intr>>
  <2>1. PICK n : n = 0
    OBVIOUS
  <2>2. n \in 0 .. b /\ plus(w, n) = w
    <3>1. 0 \in 0 .. WORD - 1
      BY Constants
    <3> QED
      BY <1>3, <2>1, <3>1, Indices
  <2>3. e' = plus(w, n)
    BY <1>0, <1>2, <1>5, <2>2, LineStart
  <2> QED
    BY <1>1, <1>2, <1>5, <2>2, <2>3, EditStep
<1>6. CASE /\ key = "^H" /\ e' = (IF erasable THEN minus(e, 1) ELSE e)
           /\ UNCHANGED <<buf, r, w, main, intr>>
  <2>1. PICK n \in 0 .. b : e' = plus(w, n)
    <3>1. CASE e = w
      <4>1. b \in 0 .. b
        BY <1>3
      <4>2. e' = plus(w, b)
        BY <1>3, <1>6, <3>1 DEF erasable
      <4> QED
        BY <4>1, <4>2
    <3>2. CASE e # w
      BY <1>2, <1>6, <3>2, Backspace DEF erasable
    <3> QED
      BY <3>1, <3>2
  <2> QED
    BY <1>1, <1>2, <1>6, <2>1, EditStep
<1>7. CASE /\ key \notin {"^P", "^U", "^H"}
           /\ room /\ buf' = [buf EXCEPT ![e % INPUT_BUF] = stored(key)]
           /\ e' = plus(e, 1) /\ r' = r
           /\ \/ completes(stored(key)) /\ w' = e' /\ goto(c, "wakeup")
              \/ ~ completes(stored(key)) /\ UNCHANGED <<w, main, intr>>
  <2>1. PICK ch : ch = stored(key)
    OBVIOUS
  <2>2. /\ room /\ Stores(ch) /\ e' = plus(e, 1) /\ r' = r
        /\ \/ completes(ch) /\ w' = e' /\ goto(c, "wakeup")
           \/ ~ completes(ch) /\ UNCHANGED <<w, main, intr>>
    BY <1>7, <2>1 DEF Stores
  <2> QED
    BY <1>1, <2>2, TypeStep
<1> QED
  BY <1>4, <1>5, <1>6, <1>7, KeyCases

-----------------------------------------------------------------------------
(* The theorems                                                            *)

LEMMA InitInv == Init => IInv
<1> SUFFICES ASSUME Init PROVE IInv
  OBVIOUS
<1>1. Types
  BY Constants DEF Init, LockInit, Types, Threads, SchedulerAt, ProcessAt
<1>2. /\ \A c \in CPUs : run[c] = c /\ main[c] = "sti" /\ intr[c] = "none" /\ c \in Threads
      /\ \A p \in Procs : main[p] = "forkret" /\ intr[p] = "none" /\ state[p] = "RUNNABLE"
      /\ \A t \in Threads : intr[t] = "none"
      /\ \A c \in CPUs : here(c) = "sti"
  BY Constants DEF Init, here
<1>3. Places
  BY <1>2, Constants DEF Places, Parked, SchedulerAt, ProcessAt, TimerAt
<1>4. Depth("sti") = 0 /\ \A l \in Locks : ~ Holds("sti", l)
  BY FreePlaces, DepthZero
<1>5. ASSUME NEW c \in CPUs PROVE LockAt(c)
  <2>1. ncli[c] = 0 /\ ~ spinning[c] /\ here(c) = "sti" /\ \A l \in Locks : locked[l] # c
    BY <1>2, Constants DEF Init, LockInit
  <2> QED
    BY <1>4, <2>1 DEF LockAt
<1>6. FlagInv
  BY <1>2, Constants DEF FlagInv, FlagAt, SavedAt
<1>7. SleepInv
  BY <1>2 DEF Init, SleepInv, ReaderWoken
<1>8. RingInv
  <2>1. r = 0 /\ w = 0 /\ e = 0 /\ 0 \in 0 .. WORD - 1 /\ DOMAIN buf = 0 .. INPUT_BUF - 1
    BY Constants DEF Init
  <2>2. minus(0, 0) = 0
    BY Constants DEF minus
  <2> QED
    BY <2>1, <2>2, Constants DEF RingInv
<1> QED
  BY <1>1, <1>3, <1>5, <1>6, <1>7, <1>8 DEF IInv, LockInv

LEMMA StillStep ==
    ASSUME IInv, UNCHANGED vars
    PROVE  IInv'
<1>0. Types /\ Places /\ LockInv /\ FlagInv /\ SleepInv /\ RingInv
  BY DEF IInv
<1>1. /\ UNCHANGED <<locked, iF, ncli, intena, spinning, panic, run, main, intr, saved, state>>
      /\ UNCHANGED input /\ r' = r /\ w' = w
  BY DEF vars, lockvars, input
<1>2. \A d \in CPUs : here(d)' = here(d) /\ LockAt(d)' /\ FlagAt(d)'
  BY <1>0, <1>1, StillThere
<1>3. \A p \in Procs : (Parked(p)' <=> Parked(p)) /\ (SavedAt(p)' <=> SavedAt(p))
  BY <1>1 DEF Parked, SavedAt
<1>4. Types'
  BY <1>0, <1>1 DEF Types
<1>5. Places'
  BY <1>0, <1>1, <1>3 DEF Places
<1>6. LockInv' /\ FlagInv'
  BY <1>0, <1>2, <1>3 DEF LockInv, FlagInv
<1>7. SleepInv'
  BY <1>0, <1>1, <1>2, SleepKept
<1>8. RingInv'
  BY <1>0, <1>1, RingKept
<1> QED
  BY <1>4, <1>5, <1>6, <1>7, <1>8 DEF IInv

LEMMA NextInv == IInv /\ [Next]_vars => IInv'
<1> SUFFICES ASSUME IInv, [Next]_vars PROVE IInv'
  OBVIOUS
<1>1. CASE UNCHANGED vars
  BY <1>1, StillStep
<1>2. ASSUME NEW c \in CPUs, acquiring(c) \/ acquired(c) \/ releasing(c) \/ sti(c) \/ scheduler(c)
      PROVE  IInv'
  BY <1>2, AcquiringStep, AcquiredStep, ReleasingStep, StiStep, SchedulerStep
<1>3. ASSUME NEW c \in CPUs, yield(c) \/ exit(c) \/ sleep(c) \/ iret(c) \/ syscall(c)
      PROVE  IInv'
  BY <1>3, YieldStep, SleepStep, IretStep, SyscallStep
<1>4. ASSUME NEW c \in CPUs, nokey(c) \/ wakeup(c) \/ consoleread(c)
      PROVE  IInv'
  BY <1>4, NokeyStep, WakeupStep, ConsolereadStep
<1>5. ASSUME NEW c \in CPUs, NEW key \in Keys, consoleintr(c, key)
      PROVE  IInv'
  BY <1>5, ConsoleintrStep
<1>6. ASSUME NEW c \in CPUs, NEW handler \in {"consoleintr", "yield"}, interrupt(c, handler)
      PROVE  IInv'
  BY <1>6, InterruptStep
<1>7. ASSUME NEW p \in Procs, kill(p)
      PROVE  IInv'
  BY <1>7, KillStep
<1> QED
  BY <1>1, <1>2, <1>3, <1>4, <1>5, <1>6, <1>7 DEF Next

THEOREM Invariance == Spec => []IInv
  BY InitInv, NextInv, PTL DEF Spec

\* A CPU that holds a lock has interrupts off, so no handler can ask for a lock
\* its own CPU holds, and acquire(), release(), popcli() and sched() never panic,
\* for any number of CPUs and processes.
THEOREM LocksCorrect == Spec => []LocksMaskInterrupts
<1>1. IInv => LocksMaskInterrupts
  <2> SUFFICES ASSUME IInv PROVE LocksMaskInterrupts
    OBVIOUS
  <2>0. Types /\ LockInv /\ RingInv
    BY DEF IInv
  <2>1. ASSUME NEW c \in CPUs
        PROVE  /\ ncli[c] = one(holding(c, "input")) + one(holding(c, "cons"))
                               + one(holding(c, "ptable")) + one(spinning[c])
               /\ ncli[c] > 0 => ~ iF[c]
               /\ ncli[c] \in 0 .. 3
    <3>1. LockAt(c)
      BY <2>0 DEF LockInv
    <3>2. /\ holding(c, "input") <=> here(c) \in InputAt
          /\ holding(c, "cons") <=> here(c) \in ConsAt
          /\ holding(c, "ptable") <=> here(c) \in PtableAt
      BY <3>1, Constants DEF LockAt, Holds, holding
    <3>3. ncli[c] = Depth(here(c)) + (IF spinning[c] THEN 1 ELSE 0) /\ (ncli[c] > 0 => ~ iF[c])
      BY <3>1 DEF LockAt
    <3>4. ncli[c] \in 0 .. 3
      BY <3>3, DepthType
    <3>5. Depth(here(c)) = one(holding(c, "input")) + one(holding(c, "cons"))
                               + one(holding(c, "ptable"))
      BY <3>2 DEF Depth, one
    <3> QED
      BY <3>3, <3>4, <3>5 DEF one
  <2>2. ncli \in [CPUs -> 0 .. 3]
    BY <2>0, <2>1 DEF Types
  <2>3. TypeOK
    BY <2>0, <2>2 DEF TypeOK, Types, RingInv
  <2> QED
    BY <2>0, <2>1, <2>3 DEF LocksMaskInterrupts, Types
<1> QED
  BY <1>1, Invariance, PTL

\* pushcli() and popcli() give back the interrupt flag they found, on whatever
\* CPU the process is by then: sched() saves intena across swtch().
THEOREM InterruptsCorrect == Spec => []InterruptsRestored
<1>1. IInv => InterruptsRestored
  BY DEF IInv, FlagInv, FlagAt, On, InterruptsRestored
<1> QED
  BY <1>1, Invariance, PTL

\* A reader sleeps only while nothing waits to be read, or the handler that
\* completed the line is about to wake it: consoleread() tests and sleeps under
\* input.lock, which consoleintr() holds from the character to wakeup().
THEOREM ReadersCorrect == Spec => []ReaderWoken
<1>1. IInv => ReaderWoken
  BY DEF IInv, SleepInv
<1> QED
  BY <1>1, Invariance, PTL

-----------------------------------------------------------------------------
(* The lines                                                               *)

\* The characters of the ring B are of the set S.
Within(B, S) == \A i \in 0 .. INPUT_BUF - 1 : B[i] \in S

\* n characters of the ring B from index x.
PartAt(B, x, n) == [k \in 1 .. n |-> B[plus(x, k - 1) % INPUT_BUF]]

LEMMA PartSeq ==
    ASSUME NEW B, NEW S, Within(B, S),
           NEW x \in 0 .. WORD - 1, NEW n \in 0 .. INPUT_BUF
    PROVE  /\ PartAt(B, x, n) \in Seq(S) /\ Len(PartAt(B, x, n)) = n
           /\ \A k \in 1 .. n : PartAt(B, x, n)[k] = B[plus(x, k - 1) % INPUT_BUF]
           /\ PartAt(B, x, n) = [k \in 1 .. n |-> PartAt(B, x, n)[k]]
<1>1. INPUT_BUF \in Nat \ {0} /\ n \in Nat
  BY Constants
<1>2. ASSUME NEW k \in 1 .. n
      PROVE  B[plus(x, k - 1) % INPUT_BUF] \in S
  <2>1. PICK i : i = k - 1
    OBVIOUS
  <2>2. i \in 0 .. INPUT_BUF - 1
    BY <1>1, <2>1
  <2>3. plus(x, i) % INPUT_BUF \in 0 .. INPUT_BUF - 1
    BY <2>2, CellsOf
  <2> QED
    BY <2>1, <2>3 DEF Within
<1>3. PartAt(B, x, n) = [k \in 1 .. n |-> B[plus(x, k - 1) % INPUT_BUF]]
  BY DEF PartAt
<1>4. PartAt(B, x, n) \in Seq(S) /\ Len(PartAt(B, x, n)) = n
  BY <1>1, <1>2, <1>3
<1> QED
  BY <1>3, <1>4

LEMMA PartSame ==
    ASSUME NEW B, NEW C, NEW x, NEW n \in Nat,
           \A k \in 0 .. n - 1 : B[plus(x, k) % INPUT_BUF] = C[plus(x, k) % INPUT_BUF]
    PROVE  PartAt(B, x, n) = PartAt(C, x, n)
<1>1. ASSUME NEW k \in 1 .. n
      PROVE  B[plus(x, k - 1) % INPUT_BUF] = C[plus(x, k - 1) % INPUT_BUF]
  <2>1. PICK i : i = k - 1
    OBVIOUS
  <2>2. i \in 0 .. n - 1
    BY <2>1
  <2> QED
    BY <2>1, <2>2
<1> QED
  BY <1>1 DEF PartAt

\* A sequence is what it is at its places.
LEMMA SeqIs ==
    ASSUME NEW S, NEW s \in Seq(S), NEW t \in Seq(S), NEW n, Len(s) = n, Len(t) = n,
           \A k \in 1 .. n : s[k] = t[k]
    PROVE  s = t
<1>1. s = [k \in 1 .. n |-> s[k]] /\ t = [k \in 1 .. n |-> t[k]]
  OBVIOUS
<1> QED
  BY <1>1

LEMMA PartAppend ==
    ASSUME NEW B, NEW S, Within(B, S),
           NEW x \in 0 .. WORD - 1, NEW n \in 0 .. INPUT_BUF, NEW m \in 0 .. INPUT_BUF, m = n + 1
    PROVE  PartAt(B, x, m) = Append(PartAt(B, x, n), B[plus(x, n) % INPUT_BUF])
<1>1. n \in Nat /\ n \in 0 .. INPUT_BUF - 1
  BY Constants
<1>2. PICK s, t, v : s = PartAt(B, x, m) /\ t = PartAt(B, x, n) /\ v = B[plus(x, n) % INPUT_BUF]
  OBVIOUS
<1>3. /\ s \in Seq(S) /\ Len(s) = m
      /\ \A k \in 1 .. m : s[k] = B[plus(x, k - 1) % INPUT_BUF]
  BY <1>2, PartSeq
<1>4. /\ t \in Seq(S) /\ Len(t) = n
      /\ \A k \in 1 .. n : t[k] = B[plus(x, k - 1) % INPUT_BUF]
  BY <1>2, PartSeq
<1>5. v \in S
  BY <1>1, <1>2, CellsOf DEF Within
<1>6. PICK z : z = Append(t, v)
  OBVIOUS
<1>7. /\ z \in Seq(S) /\ Len(z) = m /\ z[m] = v
      /\ \A k \in 1 .. n : z[k] = t[k]
  BY <1>1, <1>4, <1>5, <1>6
<1>8. ASSUME NEW k \in 1 .. m PROVE s[k] = z[k]
  <2>1. k = m \/ k \in 1 .. n
    BY <1>1
  <2>2. CASE k = m
    <3>1. m - 1 = n /\ m \in 1 .. m
      BY <1>1
    <3> QED
      BY <1>2, <1>3, <1>7, <2>2, <3>1
  <2>3. CASE k \in 1 .. n
    BY <1>3, <1>4, <1>7, <2>3
  <2> QED
    BY <2>1, <2>2, <2>3
<1> QED
  BY <1>2, <1>3, <1>6, <1>7, <1>8, SeqIs

LEMMA SeqJoin ==
    ASSUME NEW S, NEW t \in Seq(S), NEW u \in Seq(S), NEW z, z = t \o u
    PROVE  /\ z \in Seq(S) /\ Len(z) = Len(t) + Len(u)
           /\ \A i \in 1 .. Len(z) : z[i] = IF i <= Len(t) THEN t[i] ELSE u[i - Len(t)]
  OBVIOUS

\* n characters of the ring B from x are a of them, and b from y.
Joins(B, S, x, a, b, n, y) ==
    /\ Within(B, S) /\ x \in 0 .. WORD - 1
    /\ a \in 0 .. INPUT_BUF /\ b \in 0 .. INPUT_BUF /\ n \in 0 .. INPUT_BUF
    /\ n = a + b /\ y = plus(x, a)

LEMMA PartJoin ==
    ASSUME NEW B, NEW S, NEW x, NEW a, NEW b, NEW n, NEW y, Joins(B, S, x, a, b, n, y)
    PROVE  PartAt(B, x, n) = PartAt(B, x, a) \o PartAt(B, y, b)
<1> SUFFICES ASSUME Within(B, S), x \in 0 .. WORD - 1, a \in 0 .. INPUT_BUF,
                    b \in 0 .. INPUT_BUF, n \in 0 .. INPUT_BUF, n = a + b, y = plus(x, a)
             PROVE  PartAt(B, x, n) = PartAt(B, x, a) \o PartAt(B, y, b)
  BY DEF Joins
<1>1. a \in Nat /\ b \in Nat /\ n \in Nat /\ INPUT_BUF \in Nat
  BY Constants
<1>2. y \in 0 .. WORD - 1 /\ \A k \in 0 .. INPUT_BUF - a : plus(y, k) = plus(x, a + k)
  <2>1. PICK z : z = plus(y, b)
    OBVIOUS
  <2>2. n <= INPUT_BUF
    BY <1>1
  <2> QED
    BY <2>1, <2>2, Distances
<1>3. PICK s, t, u : s = PartAt(B, x, n) /\ t = PartAt(B, x, a) /\ u = PartAt(B, y, b)
  OBVIOUS
<1>4. /\ s \in Seq(S) /\ Len(s) = n
      /\ \A k \in 1 .. n : s[k] = B[plus(x, k - 1) % INPUT_BUF]
  BY <1>3, PartSeq
<1>5. /\ t \in Seq(S) /\ Len(t) = a
      /\ \A k \in 1 .. a : t[k] = B[plus(x, k - 1) % INPUT_BUF]
  BY <1>3, PartSeq
<1>6. /\ u \in Seq(S) /\ Len(u) = b
      /\ \A k \in 1 .. b : u[k] = B[plus(y, k - 1) % INPUT_BUF]
  BY <1>2, <1>3, PartSeq
<1>7. PICK z : z = t \o u
  OBVIOUS
<1>8. /\ z \in Seq(S) /\ Len(z) = n
      /\ \A k \in 1 .. a : z[k] = t[k]
      /\ \A k \in 1 .. b : z[a + k] = u[k]
  <2>a. t \in Seq(S) /\ u \in Seq(S) /\ z = t \o u
    BY <1>5, <1>6, <1>7
  <2>0. /\ z \in Seq(S) /\ Len(z) = Len(t) + Len(u)
        /\ \A i \in 1 .. Len(z) : z[i] = IF i <= Len(t) THEN t[i] ELSE u[i - Len(t)]
    BY <2>a, SeqJoin
  <2>1. z \in Seq(S) /\ Len(z) = n
    BY <1>5, <1>6, <2>0
  <2>2. \A i \in 1 .. n : z[i] = IF i <= a THEN t[i] ELSE u[i - a]
    BY <1>5, <2>0, <2>1
  <2>3. \A k \in 1 .. a : k \in 1 .. n /\ k <= a
    BY <1>1
  <2>4. \A k \in 1 .. b : a + k \in 1 .. n /\ ~ (a + k <= a) /\ (a + k) - a = k
    BY <1>1
  <2> QED
    BY <2>1, <2>2, <2>3, <2>4
<1>9. ASSUME NEW k \in 1 .. n PROVE s[k] = z[k]
  <2>1. CASE k \in 1 .. a
    BY <1>4, <1>5, <1>8, <2>1
  <2>2. CASE k \notin 1 .. a
    <3>1. PICK i, j : i = k - a /\ j = i - 1
      OBVIOUS
    <3>2. i \in 1 .. b /\ j \in 0 .. INPUT_BUF - a /\ a + i = k /\ a + j = k - 1
      BY <1>1, <2>2, <3>1
    <3>3. plus(y, j) = plus(x, k - 1)
      BY <1>2, <3>2
    <3>4. z[k] = u[i]
      BY <1>8, <3>2
    <3>5. u[i] = B[plus(y, j) % INPUT_BUF]
      BY <1>6, <3>1, <3>2
    <3> QED
      BY <1>4, <3>3, <3>4, <3>5
  <2> QED
    BY <2>1, <2>2
<1>10. s = z
  BY <1>4, <1>8, <1>9, SeqIs
<1> QED
  BY <1>3, <1>7, <1>10

LEMMA PartTail ==
    ASSUME NEW B, NEW S, Within(B, S), NEW x \in 0 .. WORD - 1, NEW n \in 0 .. INPUT_BUF,
           NEW m \in 0 .. INPUT_BUF, n = m + 1, NEW y, y = plus(x, 1)
    PROVE  PartAt(B, x, n) # <<>> /\ PartAt(B, y, m) = Tail(PartAt(B, x, n))
<1>1. m \in Nat /\ INPUT_BUF \in Nat /\ WORD \in Nat /\ INPUT_BUF < WORD /\ 1 \in 0 .. WORD - 1
  BY Constants
<1>2. y \in 0 .. WORD - 1
  BY <1>1, Indices
<1>3. PICK s, t : s = PartAt(B, x, n) /\ t = PartAt(B, y, m)
  OBVIOUS
<1>4. /\ s \in Seq(S) /\ Len(s) = n
      /\ \A k \in 1 .. n : s[k] = B[plus(x, k - 1) % INPUT_BUF]
  BY <1>3, PartSeq
<1>5. /\ t \in Seq(S) /\ Len(t) = m
      /\ \A k \in 1 .. m : t[k] = B[plus(y, k - 1) % INPUT_BUF]
  BY <1>2, <1>3, PartSeq
<1>6. s # <<>>
  BY <1>1, <1>4
<1>7. PICK z : z = Tail(s)
  OBVIOUS
<1>8. /\ z \in Seq(S) /\ Len(z) = m
      /\ \A k \in 1 .. m : z[k] = s[k + 1]
  BY <1>1, <1>4, <1>6, <1>7
<1>9. ASSUME NEW k \in 1 .. m PROVE t[k] = z[k]
  <2>1. PICK i : i = k - 1
    OBVIOUS
  <2>2. /\ i \in 0 .. WORD - 1 /\ 1 \in 0 .. WORD - 1 /\ k = 1 + i /\ k < WORD
        /\ k + 1 \in 1 .. n /\ (k + 1) - 1 = k
    BY <1>1, <2>1
  <2>3. plus(y, i) = plus(x, k)
    BY <2>2, PlusPlus
  <2>4. t[k] = B[plus(y, i) % INPUT_BUF]
    BY <1>5, <2>1
  <2>5. s[k + 1] = B[plus(x, k) % INPUT_BUF]
    BY <1>4, <2>2
  <2> QED
    BY <1>8, <2>3, <2>4, <2>5
<1>10. t = z
  BY <1>5, <1>8, <1>9, SeqIs
<1> QED
  BY <1>3, <1>6, <1>7, <1>10

LEMMA PartFront ==
    ASSUME NEW B, NEW S, Within(B, S), NEW x \in 0 .. WORD - 1, NEW n \in 0 .. INPUT_BUF,
           NEW m \in 0 .. INPUT_BUF, n = m + 1
    PROVE  /\ PartAt(B, x, n) # <<>>
           /\ PartAt(B, x, m) = SubSeq(PartAt(B, x, n), 1, Len(PartAt(B, x, n)) - 1)
<1>1. m \in Nat /\ INPUT_BUF \in Nat
  BY Constants
<1>2. PICK s, t : s = PartAt(B, x, n) /\ t = PartAt(B, x, m)
  OBVIOUS
<1>3. /\ s \in Seq(S) /\ Len(s) = n
      /\ \A k \in 1 .. n : s[k] = B[plus(x, k - 1) % INPUT_BUF]
  BY <1>2, PartSeq
<1>4. /\ t \in Seq(S) /\ Len(t) = m
      /\ \A k \in 1 .. m : t[k] = B[plus(x, k - 1) % INPUT_BUF]
  BY <1>2, PartSeq
<1>5. s # <<>> /\ Len(s) - 1 = m
  BY <1>1, <1>3
<1>6. PICK z : z = SubSeq(s, 1, m)
  OBVIOUS
<1>7. /\ z \in Seq(S) /\ Len(z) = m
      /\ \A k \in 1 .. m : z[k] = s[k]
  BY <1>1, <1>3, <1>6
<1>8. \A k \in 1 .. m : k \in 1 .. n
  BY <1>1
<1>9. \A k \in 1 .. m : t[k] = z[k]
  BY <1>3, <1>4, <1>7, <1>8
<1>10. t = z
  BY <1>4, <1>7, <1>9, SeqIs
<1> QED
  BY <1>2, <1>5, <1>6, <1>10

\* What waits to be read and the line being typed, before and after a step.
LEMMA Parts ==
    ASSUME NEW a, NEW b, Ring(a, b)
    PROVE  part(r, w) = PartAt(buf, r, a) /\ part(w, e) = PartAt(buf, w, b)
<1>1. minus(w, r) = a /\ minus(e, w) = b
  BY DEF Ring
<1> QED
  BY <1>1 DEF part, PartAt

LEMMA PartsNext ==
    ASSUME NEW a, NEW b, Ring(a, b)'
    PROVE  part(r, w)' = PartAt(buf', r', a) /\ part(w, e)' = PartAt(buf', w', b)
<1>1. minus(w', r') = a /\ minus(e', w') = b
  BY DEF Ring, minus
<1>2. /\ part(r, w)' = [k \in 1 .. minus(w', r') |-> buf'[plus(r', k - 1) % INPUT_BUF]]
      /\ part(w, e)' = [k \in 1 .. minus(e', w') |-> buf'[plus(w', k - 1) % INPUT_BUF]]
  BY DEF part, plus, minus
<1> QED
  BY <1>1, <1>2 DEF PartAt

LEMMA PartsKept ==
    ASSUME UNCHANGED input
    PROVE  UNCHANGED Abs!vars
  BY DEF input, Abs!vars, part, plus, minus

LEMMA Characters ==
    ASSUME RingInv
    PROVE  \E S : Within(buf, S)
<1>1. Within(buf, {buf[i] : i \in 0 .. INPUT_BUF - 1})
  BY DEF Within
<1> QED
  BY <1>1

LEMMA ReadSimulates ==
    ASSUME IInv, NEW c \in CPUs, consoleread(c)
    PROVE  Abs!Read \/ UNCHANGED Abs!vars
<1>0. RingInv
  BY DEF IInv
<1>1. UNCHANGED <<buf, w, e>> /\ (r' = r \/ (r # w /\ r' = plus(r, 1)))
  BY DEF consoleread
<1>2. CASE r' = r
  <2>1. UNCHANGED input
    BY <1>1, <1>2 DEF input
  <2> QED
    BY <2>1, PartsKept
<1>3. CASE r # w /\ r' = plus(r, 1)
  <2>1. PICK a, b, S : Ring(a, b) /\ Within(buf, S)
    BY <1>0, RingShape, Characters
  <2>2. PICK m : m = a - 1
    OBVIOUS
  <2>3. m \in 0 .. INPUT_BUF /\ Ring(m, b)'
    BY <1>1, <1>3, <2>1, <2>2, TakeRing
  <2>4. a \in 0 .. INPUT_BUF /\ a = m + 1 /\ r \in 0 .. WORD - 1
    BY <2>1, <2>2, Constants DEF Ring
  <2>5. part(r, w) = PartAt(buf, r, a) /\ part(w, e) = PartAt(buf, w, b)
    BY <2>1, Parts
  <2>6. part(r, w)' = PartAt(buf, plus(r, 1), m) /\ part(w, e)' = PartAt(buf, w, b)
    BY <1>1, <1>3, <2>3, PartsNext
  <2>7. PICK y : y = plus(r, 1)
    OBVIOUS
  <2>8. PartAt(buf, r, a) # <<>> /\ PartAt(buf, y, m) = Tail(PartAt(buf, r, a))
    BY <2>1, <2>3, <2>4, <2>7, PartTail
  <2> QED
    BY <2>5, <2>6, <2>7, <2>8 DEF Abs!Read
<1> QED
  BY <1>1, <1>2, <1>3

LEMMA EditSimulates ==
    ASSUME IInv, NEW a, NEW b, Ring(a, b), NEW n \in 0 .. b, e' = plus(w, n),
           UNCHANGED <<buf, r, w>>
    PROVE  /\ part(r, w)' = part(r, w) /\ part(w, e)' = PartAt(buf, w, n)
           /\ part(w, e) = PartAt(buf, w, b)
<1>1. Ring(a, n)'
  BY EditRing
<1>2. part(r, w)' = PartAt(buf, r, a) /\ part(w, e)' = PartAt(buf, w, n)
  BY <1>1, PartsNext
<1> QED
  BY <1>2, Parts

\* A character is appended to the line; with the last one it joins the complete
\* lines.
LEMMA TypeSimulates ==
    ASSUME IInv, NEW ch, room, Stores(ch), e' = plus(e, 1), r' = r,
           \/ completes(ch) /\ w' = e'
           \/ ~ completes(ch) /\ w' = w
    PROVE  Abs!Type(ch)
<1>0. RingInv
  BY DEF IInv
<1>1. PICK a, b : Ring(a, b)
  BY <1>0, RingShape
<1>2. /\ INPUT_BUF \in Nat /\ a \in 0 .. INPUT_BUF /\ b \in 0 .. INPUT_BUF
      /\ r \in 0 .. WORD - 1 /\ w \in 0 .. WORD - 1 /\ w = plus(r, a)
      /\ \A k \in 0 .. INPUT_BUF - a : plus(w, k) = plus(r, a + k)
  BY <1>1, Constants DEF Ring
<1>3. w' \in {w, e'}
  OBVIOUS
<1>4. /\ a + b < INPUT_BUF
      /\ w' = w => Ring(a, b + 1)'
      /\ w' = e' => Ring(a + b + 1, 0)'
      /\ plus(e, 1) = plus(r, INPUT_BUF) <=> a + b + 1 = INPUT_BUF
  BY <1>1, <1>3, TypeRing
<1>5. PICK n, m, k : n = a + b /\ m = b + 1 /\ k = a + b + 1
  OBVIOUS
<1>6. /\ n = a + b /\ n < INPUT_BUF /\ n \in Nat /\ m \in 0 .. INPUT_BUF /\ k \in 0 .. INPUT_BUF
      /\ m = b + 1 /\ k = a + m /\ b \in 0 .. INPUT_BUF - a
      /\ a \in Nat /\ b \in Nat /\ INPUT_BUF \in Nat
  BY <1>2, <1>4, <1>5
<1>7. /\ DOMAIN buf' = 0 .. INPUT_BUF - 1
      /\ buf'[plus(r, n) % INPUT_BUF] = ch
      /\ \A i \in 0 .. n - 1 : buf'[plus(r, i) % INPUT_BUF] = buf[plus(r, i) % INPUT_BUF]
  BY <1>0, <1>1, <1>6, StoreRing
<1>8. PICK B, C, S :
        /\ B = buf' /\ C = buf
        /\ S = {B[i] : i \in 0 .. INPUT_BUF - 1} \cup {C[i] : i \in 0 .. INPUT_BUF - 1}
  OBVIOUS
<1>9. Within(B, S) /\ Within(C, S)
  BY <1>8 DEF Within
<1>10. PartAt(B, r, a) = PartAt(C, r, a)
  <2>1. \A i \in 0 .. a - 1 : i \in 0 .. n - 1
    BY <1>6
  <2>2. \A i \in 0 .. a - 1 : B[plus(r, i) % INPUT_BUF] = C[plus(r, i) % INPUT_BUF]
    BY <1>7, <1>8, <2>1
  <2> QED
    BY <1>6, <2>2, PartSame
<1>11. PartAt(B, w, b) = PartAt(C, w, b)
  <2>1. ASSUME NEW i \in 0 .. b - 1
        PROVE  B[plus(w, i) % INPUT_BUF] = C[plus(w, i) % INPUT_BUF]
    <3>1. PICK j : j = a + i
      OBVIOUS
    <3>2. j \in 0 .. n - 1 /\ i \in 0 .. INPUT_BUF - a
      BY <1>6, <3>1
    <3>3. plus(w, i) = plus(r, j)
      BY <1>2, <3>1, <3>2
    <3> QED
      BY <1>7, <1>8, <3>2, <3>3
  <2> QED
    BY <1>6, <2>1, PartSame
<1>12. B[plus(w, b) % INPUT_BUF] = ch
  BY <1>2, <1>6, <1>7, <1>8
<1>13. PartAt(B, w, m) = Append(PartAt(C, w, b), ch)
  BY <1>2, <1>6, <1>9, <1>11, <1>12, PartAppend
<1>14. part(r, w) = PartAt(C, r, a) /\ part(w, e) = PartAt(C, w, b)
  BY <1>1, <1>8, Parts
<1>15. Len(part(r, w)) = a /\ Len(part(w, e)) = b
  BY <1>2, <1>9, <1>14, PartSeq
<1>16. Abs!Room /\ (completes(ch) <=> ch \in {"newline", "^D"} \/ a + b + 1 = INPUT_BUF)
  BY <1>4, <1>15 DEF Abs!Room, completes
<1>17. CASE completes(ch) /\ w' = e'
  <2>1. Ring(k, 0)'
    BY <1>4, <1>5, <1>17
  <2>2. part(r, w)' = PartAt(B, r, k) /\ part(w, e)' = PartAt(B, w', 0)
    BY <1>8, <2>1, PartsNext
  <2>3. PartAt(B, w', 0) = <<>>
    BY DEF PartAt
  <2>4. PartAt(B, r, k) = PartAt(B, r, a) \o PartAt(B, w, m)
    <3>1. Joins(B, S, r, a, m, k, w)
      BY <1>2, <1>6, <1>9 DEF Joins
    <3> QED
      BY <3>1, PartJoin
  <2>5. part(r, w)' = part(r, w) \o Append(part(w, e), ch) /\ part(w, e)' = <<>>
    BY <1>10, <1>13, <1>14, <2>2, <2>3, <2>4
  <2> QED
    BY <1>15, <1>16, <1>17, <2>5 DEF Abs!Type
<1>18. CASE ~ completes(ch) /\ w' = w
  <2>1. Ring(a, m)'
    BY <1>4, <1>5, <1>18
  <2>2. part(r, w)' = PartAt(B, r, a) /\ part(w, e)' = PartAt(B, w, m)
    BY <1>8, <1>18, <2>1, PartsNext
  <2>3. part(r, w)' = part(r, w) /\ part(w, e)' = Append(part(w, e), ch)
    BY <1>10, <1>13, <1>14, <2>2
  <2> QED
    BY <1>15, <1>16, <1>18, <2>3 DEF Abs!Type
<1> QED
  BY <1>17, <1>18

LEMMA KeySimulates ==
    ASSUME IInv, NEW c \in CPUs, NEW key \in Keys, consoleintr(c, key)
    PROVE  Abs!Next \/ UNCHANGED Abs!vars
<1>0. RingInv
  BY DEF IInv
<1>1. PICK a, b, S : Ring(a, b) /\ Within(buf, S)
  BY <1>0, RingShape, Characters
<1>2. b \in 0 .. INPUT_BUF /\ w \in 0 .. WORD - 1 /\ INPUT_BUF \in Nat
  BY <1>1, Constants DEF Ring
<1>3. CASE key = "^P" /\ UNCHANGED input
  BY <1>3, PartsKept
<1>4. CASE e' = lineStart /\ UNCHANGED <<buf, r, w>>
  <2>1. PICK n : n = 0
    OBVIOUS
  <2>2. n \in 0 .. b /\ plus(w, n) = w
    <3>1. 0 \in 0 .. WORD - 1
      BY Constants
    <3> QED
      BY <1>2, <2>1, <3>1, Indices
  <2>3. e' = plus(w, n)
    BY <1>0, <1>1, <1>4, <2>2, LineStart
  <2>4. part(r, w)' = part(r, w) /\ part(w, e)' = PartAt(buf, w, n)
    BY <1>1, <1>4, <2>2, <2>3, EditSimulates
  <2>5. PartAt(buf, w, n) = <<>>
    BY <2>1 DEF PartAt
  <2> QED
    BY <2>4, <2>5 DEF Abs!Next, Abs!KillLine
<1>5. CASE e' = (IF erasable THEN minus(e, 1) ELSE e) /\ UNCHANGED <<buf, r, w>>
  <2>1. CASE e = w
    <3>1. UNCHANGED input
      BY <1>5, <2>1 DEF erasable, input
    <3> QED
      BY <3>1, PartsKept
  <2>2. CASE e # w
    <3>1. PICK m : m = b - 1
      OBVIOUS
    <3>2. m \in 0 .. b /\ e' = plus(w, m)
      BY <1>1, <1>5, <2>2, <3>1, Backspace DEF erasable
    <3>3. m \in 0 .. INPUT_BUF /\ b = m + 1
      BY <1>2, <3>1, <3>2
    <3>4. /\ part(r, w)' = part(r, w) /\ part(w, e)' = PartAt(buf, w, m)
          /\ part(w, e) = PartAt(buf, w, b)
      BY <1>1, <1>5, <3>2, EditSimulates
    <3>5. /\ PartAt(buf, w, b) # <<>>
          /\ PartAt(buf, w, m) = SubSeq(PartAt(buf, w, b), 1, Len(PartAt(buf, w, b)) - 1)
      BY <1>1, <1>2, <3>3, PartFront
    <3> QED
      BY <3>4, <3>5 DEF Abs!Next, Abs!Erase
  <2> QED
    BY <2>1, <2>2
<1>6. CASE /\ key \notin {"^P", "^U", "^H"}
           /\ room /\ buf' = [buf EXCEPT ![e % INPUT_BUF] = stored(key)]
           /\ e' = plus(e, 1) /\ r' = r
           /\ \/ completes(stored(key)) /\ w' = e'
              \/ ~ completes(stored(key)) /\ w' = w
  <2>1. PICK ch : ch = stored(key)
    OBVIOUS
  <2>2. /\ room /\ Stores(ch) /\ e' = plus(e, 1) /\ r' = r
        /\ \/ completes(ch) /\ w' = e'
           \/ ~ completes(ch) /\ w' = w
    BY <1>6, <2>1 DEF Stores
  <2>3. Abs!Type(ch)
    BY <2>2, TypeSimulates
  <2>4. ch \in {stored(k) : k \in Keys \ {"^P", "^U", "^H"}}
    BY <1>6, <2>1
  <2> QED
    BY <2>3, <2>4 DEF Abs!Next
<1> QED
  BY <1>3, <1>4, <1>5, <1>6, KeyCases

LEMMA StepSimulates == IInv /\ [Next]_vars => [Abs!Next]_(Abs!vars)
<1> SUFFICES ASSUME IInv, [Next]_vars PROVE [Abs!Next]_(Abs!vars)
  OBVIOUS
<1>1. CASE UNCHANGED vars
  BY <1>1, PartsKept DEF vars
<1>2. ASSUME NEW c \in CPUs, acquiring(c) \/ acquired(c) \/ releasing(c) \/ sti(c) \/ scheduler(c)
      PROVE  UNCHANGED Abs!vars
  <2>1. UNCHANGED input
    BY <1>2 DEF acquiring, acquired, releasing, sti, scheduler
  <2> QED
    BY <2>1, PartsKept
<1>3. ASSUME NEW c \in CPUs,
             yield(c) \/ exit(c) \/ sleep(c) \/ iret(c) \/ syscall(c) \/ nokey(c) \/ wakeup(c)
      PROVE  UNCHANGED Abs!vars
  <2>1. UNCHANGED input
    BY <1>3 DEF yield, exit, sleep, iret, syscall, nokey, wakeup
  <2> QED
    BY <2>1, PartsKept
<1>4. ASSUME NEW c \in CPUs, NEW handler \in {"consoleintr", "yield"}, interrupt(c, handler)
      PROVE  UNCHANGED Abs!vars
  BY <1>4, PartsKept DEF interrupt
<1>5. ASSUME NEW p \in Procs, kill(p)
      PROVE  UNCHANGED Abs!vars
  BY <1>5, PartsKept DEF kill
<1>6. ASSUME NEW c \in CPUs, consoleread(c)
      PROVE  [Abs!Next]_(Abs!vars)
  BY <1>6, ReadSimulates DEF Abs!Next
<1>7. ASSUME NEW c \in CPUs, NEW key \in Keys, consoleintr(c, key)
      PROVE  [Abs!Next]_(Abs!vars)
  BY <1>7, KeySimulates
<1> QED
  BY <1>1, <1>2, <1>3, <1>4, <1>5, <1>6, <1>7 DEF Next

\* The ring with its wrapping indices is a line under edit and a queue of
\* complete lines: editing never touches a complete line and no character is
\* lost, doubled or reordered between consoleintr() and consoleread(), for any
\* number of CPUs and processes and any size of the ring.
THEOREM Refinement == Spec => RefinesAbs
<1>1. Init => Abs!Init
  <2> SUFFICES ASSUME Init PROVE Abs!Init
    OBVIOUS
  <2>1. r = 0 /\ w = 0 /\ e = 0 /\ minus(0, 0) = 0
    BY Constants DEF Init, minus
  <2> QED
    BY <2>1 DEF part, Abs!Init
<1> QED
  BY <1>1, Invariance, StepSimulates, PTL DEF Spec, RefinesAbs, Abs!Spec

=============================================================================
