-------------------------------- MODULE Pipe --------------------------------
(***************************************************************************)
(* A pipe (pipe.c) used by several processes that share its two files.     *)
(* The code between two calls of sleep() holds p->lock and is one step,    *)
(* except that kill() takes only ptable.lock: a process may be killed      *)
(* between its test of proc->killed and its sleep, so going to sleep is a  *)
(* step of its own, still with p->lock held.                               *)
(***************************************************************************)
EXTENDS Naturals, Sequences

CONSTANTS
    Procs,
    Killable,    \* the processes that kill() may be called for
    Bytes,
    PIPESIZE,
    UINT,        \* the number of values of a uint
    MaxWrite,    \* bound: bytes in one call of pipewrite
    MaxRead,     \* bound: bytes asked from one call of piperead
    None         \* no process, no channel

ASSUME ConstAssumption ==
    /\ PIPESIZE \in Nat \ {0} /\ UINT \in Nat \ {0}
    /\ UINT % PIPESIZE = 0 /\ UINT > PIPESIZE
    /\ MaxWrite \in Nat /\ MaxRead \in Nat
    /\ Bytes # {} /\ None \notin Procs \cup {"nread", "nwrite"} /\ Killable \subseteq Procs

VARIABLES
    data, nread, nwrite, readopen, writeopen,   \* struct pipe
    lock,      \* holder of p->lock
    fds,       \* the ends each process has open, "r" and "w"
    pc,        \* where each process is
    chan,      \* what a sleeping process sleeps on
    todo,      \* bytes of addr[] that pipewrite has still to copy
    want,      \* n of piperead
    got,       \* bytes the last piperead of any process copied out
    killed     \* the processes killed

pipe == <<data, nread, nwrite, readopen, writeopen>>
vars == <<pipe, lock, fds, pc, chan, todo, want, got, killed>>

plus(a, b) == (a + b) % UINT

full == nwrite = plus(nread, PIPESIZE)

\* Number of bytes in the ring.
count == (UINT + nwrite - nread) % UINT

\* What kfree() fills a page with: one byte throughout.
junk == [i \in 0 .. PIPESIZE - 1 |-> CHOOSE x \in Bytes : TRUE]

Init ==
    /\ data = junk
    /\ nread = 0 /\ nwrite = 0 /\ readopen = FALSE /\ writeopen = FALSE
    /\ lock = None
    /\ fds = [p \in Procs |-> {}]
    /\ pc = [p \in Procs |-> "user"] /\ chan = [p \in Procs |-> None]
    /\ todo = [p \in Procs |-> <<>>] /\ want = [p \in Procs |-> 0]
    /\ got = <<>>
    /\ killed = {}

\* kalloc() gives a page as kfree() filled it; the counters start at 0.
pipealloc(p) ==
    /\ pc[p] = "user" /\ p \notin killed
    /\ \A q \in Procs : fds[q] = {}
    /\ nread' = 0 /\ nwrite' = 0
    /\ readopen' = TRUE /\ writeopen' = TRUE
    /\ fds' = [fds EXCEPT ![p] = {"r", "w"}]
    /\ data' = junk
    /\ UNCHANGED <<lock, pc, chan, todo, want, got, killed>>

\* fork() gives the child, a new process, the files of its parent.
fork(p, q) ==
    /\ pc[p] = "user" /\ p \notin killed /\ fds[p] # {}
    /\ pc[q] = "user" /\ fds[q] = {} /\ q \notin killed
    /\ fds' = [fds EXCEPT ![q] = fds[p]]
    /\ UNCHANGED <<pipe, lock, pc, chan, todo, want, got, killed>>

\* The positions after wakeup(c).
wakeup(c, here) == [q \in Procs |-> IF here[q] = "sleep" /\ chan[q] = c THEN "woken" ELSE here[q]]

\* Mutant: the sleepers on the closed end are woken.
pipeclose_other(e) ==
    /\ readopen' = (readopen /\ e = "w") /\ writeopen' = (writeopen /\ e = "r")
    /\ pc' = wakeup(IF e = "w" THEN "nwrite" ELSE "nread", pc)

pipeclose(e) ==
    /\ readopen' = (readopen /\ e = "w") /\ writeopen' = (writeopen /\ e = "r")
    /\ pc' = wakeup(IF e = "w" THEN "nread" ELSE "nwrite", pc)

\* fileclose(), by the process or by its exit(): the last one to close an end
\* calls pipeclose.
fileclose(p, e) ==
    /\ pc[p] = "user" /\ e \in fds[p]
    /\ fds' = [fds EXCEPT ![p] = @ \ {e}]
    /\ IF \E q \in Procs \ {p} : e \in fds[q]
       THEN UNCHANGED <<readopen, writeopen, pc>>
       ELSE lock = None /\ pipeclose(e)
    /\ UNCHANGED <<data, nread, nwrite, lock, chan, todo, want, got, killed>>

\* A system call of a process that has the end open.
write(p, s) ==
    /\ pc[p] = "user" /\ p \notin killed /\ "w" \in fds[p]
    /\ todo' = [todo EXCEPT ![p] = s]
    /\ pc' = [pc EXCEPT ![p] = "write"]
    /\ UNCHANGED <<pipe, lock, fds, chan, want, got, killed>>

read(p, n) ==
    /\ pc[p] = "user" /\ p \notin killed /\ "r" \in fds[p]
    /\ want' = [want EXCEPT ![p] = n]
    /\ pc' = [pc EXCEPT ![p] = "read"]
    /\ UNCHANGED <<pipe, lock, fds, chan, todo, got, killed>>

\* How many bytes the loop of pipewrite copies before the ring is full.
room == IF full THEN 0 ELSE PIPESIZE - count

\* Mutant: the index is not taken from the counter.
copyin_shifted(s, k) == [i \in 0 .. PIPESIZE - 1 |-> IF i < k THEN s[i + 1] ELSE data[i]]

\* The ring with the first k bytes of s at nwrite, nwrite + 1, ...
copyin(s, k) ==
    [i \in 0 .. PIPESIZE - 1 |->
        LET off == (PIPESIZE + i - (nwrite % PIPESIZE)) % PIPESIZE
        IN  IF off < k THEN s[off + 1] ELSE data[i]]

\* From the lock, or from the return of sleep(), to the next sleep or return.
\* A full ring ends the call if no reader is left or the process is killed.
pipewrite(p) ==
    /\ lock = None
    /\ pc[p] = "write" \/ (pc[p] = "woken" /\ chan[p] = "nwrite")
    /\ LET k    == IF Len(todo[p]) < room THEN Len(todo[p]) ELSE room
           left == SubSeq(todo[p], k + 1, Len(todo[p]))
           fail == left # <<>> /\ (~ readopen \/ p \in killed)
       IN  /\ data' = copyin(todo[p], k)
           /\ nwrite' = plus(nwrite, k)
           /\ todo' = [todo EXCEPT ![p] = IF fail THEN <<>> ELSE left]
           /\ IF left = <<>>
              THEN pc' = wakeup("nread", [pc EXCEPT ![p] = "user"]) /\ UNCHANGED lock
              ELSE IF fail
              THEN pc' = [pc EXCEPT ![p] = "user"] /\ UNCHANGED lock
              ELSE pc' = wakeup("nread", [pc EXCEPT ![p] = "gosleep"]) /\ lock' = p
           /\ chan' = [chan EXCEPT ![p] = IF left # <<>> /\ ~ fail THEN "nwrite" ELSE None]
    /\ UNCHANGED <<nread, readopen, writeopen, fds, want, got, killed>>

\* Mutant: end of file is not told from an empty pipe.
blocks_noeof == nread = nwrite

\* The condition of the first loop of piperead.
blocks == nread = nwrite /\ writeopen

\* piperead from the lock or the return of sleep() on.
piperead(p) ==
    /\ lock = None
    /\ pc[p] = "read" \/ (pc[p] = "woken" /\ chan[p] = "nread")
    /\ IF ~ blocks
       THEN LET k == IF want[p] < count THEN want[p] ELSE count
            IN  /\ got' = [i \in 1 .. k |-> data[plus(nread, i - 1) % PIPESIZE]]
                /\ nread' = plus(nread, k)
                /\ pc' = wakeup("nwrite", [pc EXCEPT ![p] = "user"])
                /\ UNCHANGED lock
       ELSE /\ IF p \in killed
               THEN pc' = [pc EXCEPT ![p] = "user"] /\ UNCHANGED lock
               ELSE pc' = [pc EXCEPT ![p] = "gosleep"] /\ lock' = p
            /\ UNCHANGED <<got, nread>>
    /\ chan' = [chan EXCEPT ![p] = IF pc'[p] = "gosleep" THEN "nread" ELSE None]
    /\ want' = [want EXCEPT ![p] = IF pc'[p] = "user" THEN 0 ELSE @]
    /\ UNCHANGED <<data, nwrite, readopen, writeopen, fds, todo, killed>>

\* sleep(): asleep and p->lock free in one step, under ptable.lock.
sleep(p) ==
    /\ pc[p] = "gosleep"
    /\ pc' = [pc EXCEPT ![p] = "sleep"] /\ lock' = None
    /\ UNCHANGED <<pipe, fds, chan, todo, want, got, killed>>

\* kill() makes a sleeper runnable and does not touch the pipe.
kill(p) ==
    /\ p \in Killable
    /\ killed' = killed \cup {p}
    /\ pc' = [pc EXCEPT ![p] = IF @ = "sleep" THEN "woken" ELSE @]
    /\ UNCHANGED <<pipe, lock, fds, chan, todo, want, got>>

Strings == UNION {[1 .. n -> Bytes] : n \in 1 .. MaxWrite}

Next ==
    \E p \in Procs :
        \/ pipealloc(p) \/ pipewrite(p) \/ piperead(p) \/ sleep(p) \/ kill(p)
        \/ \E q \in Procs \ {p} : fork(p, q)
        \/ \E e \in {"r", "w"} : fileclose(p, e)
        \/ \E s \in Strings : write(p, s)
        \/ \E n \in 1 .. MaxRead : read(p, n)

Spec == Init /\ [][Next]_vars

\* A CPU runs a process it has scheduled, and a spinning acquire() gets a lock
\* that is free again and again.
Fairness ==
    \A p \in Procs : WF_vars(sleep(p)) /\ SF_vars(pipewrite(p) \/ piperead(p))

LiveSpec == Spec /\ Fairness

-----------------------------------------------------------------------------
(* Properties                                                              *)

\* Fields and positions have their types; the lock is held only on the way
\* into sleep().
TypeOK ==
    /\ data \in [0 .. PIPESIZE - 1 -> Bytes]
    /\ nread \in 0 .. UINT - 1 /\ nwrite \in 0 .. UINT - 1 /\ count <= PIPESIZE
    /\ readopen \in BOOLEAN /\ writeopen \in BOOLEAN
    /\ fds \in [Procs -> SUBSET {"r", "w"}] /\ killed \subseteq Procs
    /\ pc \in [Procs -> {"user", "write", "read", "gosleep", "sleep", "woken"}]
    /\ chan \in [Procs -> {"nread", "nwrite", None}]
    /\ todo \in [Procs -> Strings \cup {<<>>}] /\ want \in [Procs -> 0 .. MaxRead]
    /\ lock \in Procs \cup {None} /\ \A p \in Procs : pc[p] = "gosleep" <=> lock = p

\* Nobody sleeps without need: in pipewrite only while the ring is full and the
\* read end open, even if killed between the test and the sleep; and in piperead,
\* as long as nobody is killed, only while the pipe is empty and the write end
\* open.  pipewrite wakes the readers on every way out but that of a killed
\* process, and pipeclose wakes all.
SleepersWoken ==
    /\ TypeOK
    /\ \A p \in Procs : pc[p] = "sleep" /\ chan[p] = "nwrite" => full /\ readopen
    /\ killed = {} => \A p \in Procs : pc[p] = "sleep" /\ chan[p] = "nread" => blocks

\* The bytes in the ring, oldest first.
queue ==
    IF readopen \/ writeopen
    THEN [i \in 1 .. count |-> data[plus(nread, i - 1) % PIPESIZE]] ELSE <<>>

Abs == INSTANCE AbsPipe WITH ropen <- readopen, wopen <- writeopen

\* The ring and its wrapping counters implement a FIFO of bytes: reads return
\* what was written, in order and once; a read returns nothing only at the end
\* of the file, and a write is cut short only by a full ring.
RefinesAbs == Abs!Spec

\* The other end of the call that p is in is closed.
CutOff(p) == (todo[p] # <<>> /\ ~ readopen) \/ (want[p] > 0 /\ ~ writeopen)

\* When the last process closes one end, every call blocked at the other end
\* returns: pipeclose reaches all the sleepers.
ClosedUnblocks == \A p \in Procs : (pc[p] # "user" /\ CutOff(p)) ~> pc[p] = "user"

=============================================================================
