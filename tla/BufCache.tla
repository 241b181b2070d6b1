------------------------------ MODULE BufCache ------------------------------
(***************************************************************************)
(* The buffer cache (bio.c) over the disk driver (ide.c).                  *)
(*                                                                         *)
(* A section under bcache.lock or idelock is one step; the interrupt takes *)
(* idelock, so it comes between steps.  A process holds one buffer at a    *)
(* time.  The flags of a busy buffer belong to its holder, except while it *)
(* is in idequeue.                                                         *)
(***************************************************************************)
EXTENDS Naturals, Sequences

CONSTANTS
    Procs, Sectors, Values,
    InitDisk,    \* contents of the disk at the start
    Written,     \* bound: the sectors that are changed
    NBUF,
    None         \* no sector, no buffer, no command

ASSUME ConstAssumption ==
    /\ NBUF \in Nat \ {0} /\ Values # {}
    /\ InitDisk \in [Sectors -> Values] /\ Written \subseteq Sectors
    /\ None \notin Procs \cup Sectors \cup Values \cup Nat

Bufs == 1 .. NBUF

VARIABLES
    sector, data, busy, valid, dirty,   \* struct buf: B_BUSY, B_VALID and B_DIRTY as sets
    lru,        \* the list from head.next, the most recently used, on
    idequeue,
    cmd,        \* the command idestart gave to the disk
    disk,       \* sector -> contents
    failed,     \* history: buffers with the data of a read that failed
    pc, buf,    \* where a process is, and the buffer it has or waits for
    want,       \* the sector it asked for
    panicked

flags == <<busy, valid, dirty>>
vars == <<sector, data, flags, lru, idequeue, cmd, disk, failed, pc, buf, want, panicked>>

Init ==
    /\ sector = [b \in Bufs |-> None]
    /\ data = [b \in Bufs |-> CHOOSE v \in Values : TRUE]
    /\ busy = {} /\ valid = {} /\ dirty = {}
    /\ lru = [i \in Bufs |-> NBUF + 1 - i]
    /\ idequeue = <<>> /\ cmd = None
    /\ disk = InitDisk
    /\ failed = {}
    /\ pc = [p \in Procs |-> "user"]
    /\ buf = [p \in Procs |-> None] /\ want = [p \in Procs |-> None]
    /\ panicked = FALSE

-----------------------------------------------------------------------------
(* bio.c                                                                   *)

\* Positions after wakeup(b): bget looks again, iderw tests again.
wakeup(b, here) ==
    [p \in Procs |->
        CASE here[p] = "bsleep" /\ buf[p] = b -> "bget"
          [] here[p] = "isleep" /\ buf[p] = b -> "iwoken"
          [] OTHER -> here[p]]

cached(s) == {b \in Bufs : sector[b] = s}

\* Mutant: a buffer with changes that are not on disk is recycled.
recyclable_dirty == {i \in 1 .. NBUF : lru[i] \notin busy}

\* Positions of the buffers that bget may recycle.
recyclable == {i \in 1 .. NBUF : lru[i] \notin busy \cup dirty}

\* bget gives b to p; bread goes on to iderw unless the buffer is valid.
given(p, s, b) ==
    /\ busy' = busy \cup {b}
    /\ buf' = [buf EXCEPT ![p] = b] /\ want' = [want EXCEPT ![p] = s]
    /\ pc' = [pc EXCEPT ![p] = IF b \in valid' THEN "use" ELSE "iderw"]

hit(p, s, b) ==
    /\ b \notin busy
    /\ UNCHANGED <<sector, valid, dirty, failed, panicked>>
    /\ given(p, s, b)

waits(p, s, b) ==
    /\ b \in busy
    /\ buf' = [buf EXCEPT ![p] = b] /\ want' = [want EXCEPT ![p] = s]
    /\ pc' = [pc EXCEPT ![p] = "bsleep"]
    /\ UNCHANGED <<sector, flags, failed, panicked>>

recycle(p, s) ==
    LET b == lru[CHOOSE i \in recyclable : \A j \in recyclable : j <= i]
    IN  /\ recyclable # {}
        /\ sector' = [sector EXCEPT ![b] = s]
        /\ valid' = valid \ {b} /\ dirty' = dirty \ {b} /\ failed' = failed \ {b}
        /\ given(p, s, b)
        /\ UNCHANGED panicked

nobuffers ==
    /\ recyclable = {} /\ panicked' = TRUE
    /\ UNCHANGED <<sector, flags, failed, pc, buf, want>>

bget(p, s) ==
    /\ ~ panicked
    /\ \/ \E b \in cached(s) : hit(p, s, b) \/ waits(p, s, b)
       \/ cached(s) = {} /\ (recycle(p, s) \/ nobuffers)
    /\ UNCHANGED <<data, lru, idequeue, cmd, disk>>

bread(p, s) == pc[p] = "user" /\ bget(p, s)

\* Mutant: the buffer that was waited for is taken without another look.
bgetagain_same(p) ==
    /\ pc[p] = "bget" /\ ~ panicked /\ buf[p] \notin busy
    /\ UNCHANGED <<sector, data, valid, dirty, lru, idequeue, cmd, disk, failed, panicked>>
    /\ given(p, want[p], buf[p])

\* "goto loop" after sleep().
bgetagain(p) == pc[p] = "bget" /\ bget(p, want[p])

\* The holder changes the data, and either log_write() pins the buffer with
\* B_DIRTY or bwrite() starts to write it.
modify(p, v) ==
    /\ pc[p] = "use" /\ ~ panicked /\ want[p] \in Written
    /\ data' = [data EXCEPT ![buf[p]] = v]
    /\ dirty' = dirty \cup {buf[p]} /\ failed' = failed \ {buf[p]}
    /\ UNCHANGED <<sector, busy, valid, lru, idequeue, cmd, disk, buf, want, panicked>>

log_write(p, v) == modify(p, v) /\ UNCHANGED pc

bwrite(p, v) == modify(p, v) /\ pc' = [pc EXCEPT ![p] = "iderw"]

\* The list with b, which has just been used, at its front.
tofront(b) ==
    LET at == CHOOSE i \in Bufs : lru[i] = b
    IN  [i \in Bufs |-> IF i = 1 THEN b ELSE IF i <= at THEN lru[i - 1] ELSE lru[i]]

brelse(p) ==
    /\ pc[p] = "use" /\ ~ panicked
    /\ lru' = tofront(buf[p])
    /\ busy' = busy \ {buf[p]}
    /\ pc' = wakeup(buf[p], [pc EXCEPT ![p] = "user"])
    /\ buf' = [buf EXCEPT ![p] = None] /\ want' = [want EXCEPT ![p] = None]
    /\ UNCHANGED <<sector, data, valid, dirty, idequeue, cmd, disk, failed, panicked>>

-----------------------------------------------------------------------------
(* ide.c                                                                   *)

\* The command for buffer b: the data of a write goes to the disk at once.
idestart(b) ==
    IF b \in dirty THEN [op |-> "write", at |-> sector[b], value |-> data[b]]
    ELSE [op |-> "read", at |-> sector[b], value |-> None]

\* The condition of the loop of iderw.
unfinished(b) == ~ (b \in valid /\ b \notin dirty)

\* iderw appends its buffer, starts the disk if it is idle, and sleeps.
iderw(p) ==
    /\ pc[p] = "iderw" /\ ~ panicked
    /\ idequeue' = Append(idequeue, buf[p])
    /\ cmd' = IF idequeue = <<>> THEN idestart(buf[p]) ELSE cmd
    /\ pc' = [pc EXCEPT ![p] = IF unfinished(buf[p]) THEN "isleep" ELSE "use"]
    /\ UNCHANGED <<sector, data, flags, lru, disk, failed, buf, want, panicked>>

\* Mutant: sleep() is taken for the end of the request.
iderwagain_once(p) ==
    /\ pc[p] = "iwoken" /\ ~ panicked
    /\ pc' = [pc EXCEPT ![p] = "use"]
    /\ UNCHANGED <<sector, data, flags, lru, idequeue, cmd, disk, failed, buf, want, panicked>>

iderwagain(p) ==
    /\ pc[p] = "iwoken" /\ ~ panicked
    /\ pc' = [pc EXCEPT ![p] = IF unfinished(buf[p]) THEN "isleep" ELSE "use"]
    /\ UNCHANGED <<sector, data, flags, lru, idequeue, cmd, disk, failed, buf, want, panicked>>

\* Mutant: the next request is not started.
startnext_not(queue) == None

\* The command for the head of what is left of the queue.
startnext(queue) == IF queue = <<>> THEN None ELSE idestart(Head(queue))

\* The disk has done its command and interrupts.  A read that failed leaves
\* the data of the buffer as they were; the buffer is valid all the same.
ideintr(ok) ==
    /\ idequeue # <<>> /\ cmd # None /\ ~ panicked
    /\ LET b == Head(idequeue)
       IN  /\ disk' = IF cmd.op = "write" THEN [disk EXCEPT ![cmd.at] = cmd.value] ELSE disk
           /\ IF b \in dirty
              THEN ok /\ UNCHANGED <<data, failed>>
              ELSE /\ data' = IF ok THEN [data EXCEPT ![b] = disk[cmd.at]] ELSE data
                   /\ failed' = IF ok THEN failed ELSE failed \cup {b}
           /\ valid' = valid \cup {b} /\ dirty' = dirty \ {b}
           /\ pc' = wakeup(b, pc)
    /\ idequeue' = Tail(idequeue)
    /\ cmd' = startnext(Tail(idequeue))
    /\ UNCHANGED <<sector, busy, lru, buf, want, panicked>>

\* kill() makes a sleeper run, whatever it sleeps for.
kill(p) ==
    /\ pc[p] \in {"bsleep", "isleep"} /\ ~ panicked
    /\ pc' = [pc EXCEPT ![p] = IF @ = "bsleep" THEN "bget" ELSE "iwoken"]
    /\ UNCHANGED <<sector, data, flags, lru, idequeue, cmd, disk, failed, buf, want, panicked>>

Continue(p) == bgetagain(p) \/ iderw(p) \/ iderwagain(p) \/ brelse(p)

Next ==
    \/ \E p \in Procs :
          \/ Continue(p) \/ kill(p)
          \/ \E s \in Sectors : bread(p, s)
          \/ \E v \in Values : log_write(p, v) \/ bwrite(p, v)
    \/ \E ok \in BOOLEAN : ideintr(ok)

Spec == Init /\ [][Next]_vars

\* A process goes on, and gives its buffer back; the disk serves its commands.
Fairness == (\A p \in Procs : WF_vars(Continue(p))) /\ WF_vars(ideintr(TRUE))

LiveSpec == Spec /\ Fairness

-----------------------------------------------------------------------------
(* Properties                                                              *)

\* The variables have the types of the declarations in buf.h, and the LRU list
\* has every buffer once.
TypeOK ==
    /\ sector \in [Bufs -> Sectors \cup {None}] /\ data \in [Bufs -> Values]
    /\ busy \subseteq Bufs /\ valid \subseteq Bufs /\ dirty \subseteq Bufs
    /\ lru \in [Bufs -> Bufs] /\ {lru[i] : i \in Bufs} = Bufs
    /\ disk \in [Sectors -> Values] /\ failed \subseteq Bufs
    /\ pc \in [Procs -> {"user", "use", "bget", "bsleep", "iderw", "isleep", "iwoken"}]
    /\ buf \in [Procs -> Bufs \cup {None}] /\ want \in [Procs -> Sectors \cup {None}]

Holds(p, b) == buf[p] = b /\ pc[p] \in {"use", "iderw", "isleep", "iwoken"}

\* Each busy buffer has one holder, who has the sector it asked bread() for,
\* although it may have slept in between while the buffer was recycled; and a
\* process sleeps in bget() only while another has the buffer, since brelse()
\* wakes all who wait for it.
HolderHasItsSector ==
    /\ TypeOK
    /\ \A p \in Procs : pc[p] = "bsleep" => buf[p] \in busy
    /\ \A b \in Bufs : b \in busy <=> \E p \in Procs : Holds(p, b)
    /\ \A p \in Procs, b \in Bufs :
          Holds(p, b) => sector[b] = want[p] /\ \A q \in Procs \ {p} : ~ Holds(q, b)

\* The buffers in idequeue are those of the processes that wait in iderw() for
\* an unfinished request, each once, and the disk works for the first of them.
QueueHoldsRequests ==
    /\ \A i, j \in 1 .. Len(idequeue) : idequeue[i] = idequeue[j] => i = j
    /\ \A b \in Bufs :
          (\E i \in 1 .. Len(idequeue) : idequeue[i] = b) <=>
              \E p \in Procs : buf[p] = b /\ pc[p] \in {"isleep", "iwoken"} /\ unfinished(b)
    /\ cmd = startnext(idequeue)

Sector(s) == CHOOSE b \in Bufs : sector[b] = s

\* What a sector holds for the users of the cache, who has it, and which sectors
\* have the data of a failed read.
content == [s \in Sectors |-> IF \E b \in valid : sector[b] = s THEN data[Sector(s)] ELSE disk[s]]

holder ==
    [s \in Sectors |->
        IF \E p \in Procs, b \in valid : sector[b] = s /\ Holds(p, b)
        THEN CHOOSE p \in Procs : Holds(p, Sector(s)) ELSE None]

bad == {sector[b] : b \in failed}

Abs == INSTANCE AbsDisk

\* The cache implements locked sectors: bread() returns what was last written to
\* the sector, by way of whichever buffer, and no two processes have it at a
\* time; what log_write() left dirty is not lost by recycling.
RefinesAbs == Abs!Spec

\* A process that waits for the disk gets its buffer: every request in idequeue
\* is served and its process woken, whatever interrupts and kills come between.
RequestServed ==
    \A p \in Procs : pc[p] = "isleep" ~> (pc[p] = "use" \/ panicked)

=============================================================================
