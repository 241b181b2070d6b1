------------------------------- MODULE Files -------------------------------
(***************************************************************************)
(* Open files (file.c), the descriptors of processes (sysfile.c), and the  *)
(* use of files by mappings: mmap and munmap (mmap.c), page-in (trap.c).   *)
(*                                                                         *)
(* A section under ftable.lock is one step.  Offsets and sizes are counted *)
(* in units of one transfer.  fileread and filewrite hold the lock of the  *)
(* inode over a transfer; fileseek takes no lock.  Inodes and pipes appear *)
(* as what a struct file refers to and gives back at its last close; their *)
(* own models are FileSys and Pipe.                                        *)
(***************************************************************************)
EXTENDS Naturals, SequencesExt

CONSTANTS
    Procs, First,       \* slots of the process table, and who runs at the start
    NFILE, NOFILE, Inodes,
    MaxSize,            \* bound: the largest file
    Calls,              \* bound: what each process does
    None

Files == 1 .. NFILE
Fds == 1 .. NOFILE

ASSUME ConstAssumption ==
    /\ NFILE \in Nat \ {0} /\ NOFILE \in Nat \ {0} /\ MaxSize \in Nat \ {0}
    /\ DOMAIN Calls = Procs /\ First \in Procs /\ None \notin Procs \cup Inodes

VARIABLES
    ref, type, ip, writable, off,   \* struct file (bound: one pipe)
    ofile, ommap,       \* proc->ofile and proc->ommap (bound: one mapping each)
    iref, lock, size,   \* struct inode: references from files, I_BUSY, size
    ends,               \* the open ends of the pipe, as values of writable
    pc, cur, todo,      \* position, file in use, files still to close
    leaving, child,     \* in exit(); the process that fork() makes
    ff, xfer,           \* fileclose's copy; a transfer, or the inode being opened
    panic,
    sought, done,       \* history: fileseek was used; units transferred
    stale               \* history: a mapped file was closed by its process

table == <<ref, type, ip, writable>>
hist == <<sought, done, stale>>
locals == <<cur, todo, leaving, child, ff, xfer>>
vars == <<table, off, ofile, ommap, iref, lock, size, ends, pc, locals, panic, hist>>

Init ==
    /\ ref = [f \in Files |-> 0] /\ type = [f \in Files |-> "NONE"]
    /\ ip = [f \in Files |-> None] /\ writable = [f \in Files |-> FALSE]
    /\ off = [f \in Files |-> 0]
    /\ ofile = [p \in Procs |-> [d \in Fds |-> 0]] /\ ommap = [p \in Procs |-> None]
    /\ iref = [i \in Inodes |-> 0] /\ lock = [i \in Inodes |-> None]
    /\ size = [i \in Inodes |-> 0] /\ ends = {}
    /\ pc = [p \in Procs |-> IF p = First THEN "user" ELSE "unused"]
    /\ cur = [p \in Procs |-> 0] /\ todo = [p \in Procs |-> <<>>]
    /\ leaving = [p \in Procs |-> FALSE] /\ child = [p \in Procs |-> None]
    /\ ff = [p \in Procs |-> None] /\ xfer = [p \in Procs |-> None]
    /\ panic = "none"
    /\ sought = [f \in Files |-> FALSE] /\ done = [f \in Files |-> 0] /\ stale = FALSE

At(p, where) == pc[p] = where /\ panic = "none"
Goes(p, where) == pc' = [pc EXCEPT ![p] = where]

-----------------------------------------------------------------------------
(* The file table                                                          *)

\* filealloc() takes the first slot without references.
filealloc(f) == ref[f] = 0 /\ \A g \in Files : ref[g] = 0 => f <= g
nofile == \A f \in Files : ref[f] > 0

\* argfd(): the descriptor is open.
argfd(p, d) == ofile[p][d] # 0

\* The first free descriptor.
fdalloc(p, d) == ofile[p][d] = 0 /\ \A e \in Fds : ofile[p][e] = 0 => d <= e
nofd(p) == \A d \in Fds : ofile[p][d] # 0

\* p closes the files of fs in turn, and is then gone or back from its call.
Leaves(p, fs, gone) ==
    /\ todo' = [todo EXCEPT ![p] = fs]
    /\ leaving' = [leaving EXCEPT ![p] = gone /\ fs # <<>>]
    /\ Goes(p, IF fs # <<>> THEN "close" ELSE IF gone THEN "unused" ELSE "user")

Closes(p, fs) == Leaves(p, fs, leaving[p])

\* Mutant: the copy is made after the type was cleared.
copyof_late(f) == [type |-> "NONE", ip |-> ip[f], wr |-> writable[f]]

\* ff = *f.
copyof(f) == [type |-> type[f], ip |-> ip[f], wr |-> writable[f]]

\* fileclose(), the part under ftable.lock.
fileclose(p) ==
    /\ At(p, "close")
    /\ LET f == Head(todo[p])
       IN  IF ref[f] < 1
           THEN panic' = "fileclose" /\ UNCHANGED <<ref, type, todo, leaving, pc, ff>>
           ELSE /\ ref' = [ref EXCEPT ![f] = @ - 1]
                /\ IF ref[f] = 1
                   THEN /\ ff' = [ff EXCEPT ![p] = copyof(f)]
                        /\ type' = [type EXCEPT ![f] = "NONE"]
                        /\ Goes(p, "put") /\ UNCHANGED <<todo, leaving>>
                   ELSE Closes(p, Tail(todo[p])) /\ UNCHANGED <<type, ff>>
                /\ UNCHANGED panic
    /\ UNCHANGED <<ip, writable, off, ofile, ommap, iref, lock, size, ends, cur, child, xfer, hist>>

\* pipeclose() or iput() of the copy ff, without the lock.
closeput(p) ==
    /\ At(p, "put")
    /\ LET x == ff[p]
       IN  /\ ends' = IF x.type = "PIPE" THEN ends \ {x.wr} ELSE ends
           /\ iref' = IF x.type = "INODE" THEN [iref EXCEPT ![x.ip] = @ - 1] ELSE iref
    /\ ff' = [ff EXCEPT ![p] = None]
    /\ Closes(p, Tail(todo[p]))
    /\ UNCHANGED <<table, off, ofile, ommap, lock, size, cur, child, xfer, panic, hist>>

\* Mutant: the descriptor is not cleared.
closed_not(p, d) == UNCHANGED ofile

\* proc->ofile[fd] = 0.
closed(p, d) == ofile' = [ofile EXCEPT ![p][d] = 0]

maps(p, f) == ommap[p] # None /\ ommap[p].f = f

\* close(fd).  A mapping of the file keeps its pointer.
close(p, d) ==
    /\ At(p, "user") /\ argfd(p, d)
    /\ closed(p, d)
    /\ stale' = (stale \/ (maps(p, ofile[p][d]) /\ \A e \in Fds \ {d} : ofile[p][e] # ofile[p][d]))
    /\ Closes(p, <<ofile[p][d]>>)
    /\ UNCHANGED <<table, off, ommap, iref, lock, size, ends, cur, child, ff, xfer, panic, sought, done>>

\* dup(fd): the descriptor first, then the reference.
dup(p, d) ==
    /\ At(p, "user") /\ argfd(p, d)
    /\ \E e \in Fds : fdalloc(p, e) /\ ofile' = [ofile EXCEPT ![p][e] = ofile[p][d]]
    /\ ref' = [ref EXCEPT ![ofile[p][d]] = @ + 1]
    /\ UNCHANGED <<type, ip, writable, off, ommap, iref, lock, size, ends, pc, locals, panic, hist>>

\* open() of inode i, from create() or namei(), which it has locked.
open(p, i) ==
    /\ At(p, "user") /\ lock[i] = None
    /\ \E f \in Files :
          /\ filealloc(f)
          /\ ref' = [ref EXCEPT ![f] = 1] /\ cur' = [cur EXCEPT ![p] = f]
    /\ iref' = [iref EXCEPT ![i] = @ + 1] /\ lock' = [lock EXCEPT ![i] = p]
    /\ Goes(p, "open")
    /\ UNCHANGED <<type, ip, writable, off, ofile, ommap, size, ends, todo, leaving, child, ff, xfer, panic, hist>>

\* The descriptor.  Without one, fileclose() of a file that has no type gives
\* nothing back, and iunlockput() the inode.
openfd(p, i) ==
    /\ At(p, "open") /\ lock[i] = p
    /\ lock' = [lock EXCEPT ![i] = None]
    /\ \/ \E d \in Fds :
             /\ fdalloc(p, d) /\ ofile' = [ofile EXCEPT ![p][d] = cur[p]]
             /\ xfer' = [xfer EXCEPT ![p] = i]
             /\ Goes(p, "opened") /\ UNCHANGED <<ref, iref, cur>>
       \/ /\ nofd(p)
          /\ ref' = [ref EXCEPT ![cur[p]] = @ - 1] /\ iref' = [iref EXCEPT ![i] = @ - 1]
          /\ cur' = [cur EXCEPT ![p] = 0] /\ Goes(p, "user") /\ UNCHANGED <<ofile, xfer>>
    /\ UNCHANGED <<type, ip, writable, off, ommap, size, ends, todo, leaving, child, ff, panic, hist>>

\* The fields of the file, set after the inode was unlocked.
opened(p, w) ==
    /\ At(p, "opened")
    /\ LET f == cur[p]
       IN  /\ type' = [type EXCEPT ![f] = "INODE"] /\ off' = [off EXCEPT ![f] = 0]
           /\ ip' = [ip EXCEPT ![f] = xfer[p]] /\ writable' = [writable EXCEPT ![f] = w]
           /\ sought' = [sought EXCEPT ![f] = FALSE] /\ done' = [done EXCEPT ![f] = 0]
    /\ cur' = [cur EXCEPT ![p] = 0] /\ xfer' = [xfer EXCEPT ![p] = None] /\ Goes(p, "user")
    /\ UNCHANGED <<ref, ofile, ommap, iref, lock, size, ends, todo, leaving, child, ff, panic, stale>>

\* pipe(): the first of its two files.
pipealloc(p) ==
    /\ At(p, "user")
    /\ \E f \in Files :
          filealloc(f) /\ ref' = [ref EXCEPT ![f] = 1] /\ cur' = [cur EXCEPT ![p] = f]
    /\ Goes(p, "pipe")
    /\ UNCHANGED <<type, ip, writable, off, ofile, ommap, iref, lock, size, ends, todo, leaving, child, ff, xfer, panic, hist>>

\* The second file, the pipe and the descriptors; or all that was made is closed.
pipe(p) ==
    /\ At(p, "pipe") /\ cur' = [cur EXCEPT ![p] = 0]
    /\ \/ nofile /\ Closes(p, <<cur[p]>>) /\ UNCHANGED <<ref, type, writable, ends, ofile>>
       \/ \E f \in Files :
             /\ filealloc(f) /\ ref' = [ref EXCEPT ![f] = 1]
             /\ \/ /\ ends # {}       \* bound: kalloc() fails while there is a pipe
                   /\ Closes(p, <<cur[p], f>>) /\ UNCHANGED <<type, writable, ends, ofile>>
                \/ /\ ends = {} /\ ends' = BOOLEAN
                   /\ type' = [type EXCEPT ![cur[p]] = "PIPE", ![f] = "PIPE"]
                   /\ writable' = [writable EXCEPT ![cur[p]] = FALSE, ![f] = TRUE]
                   /\ \/ \E d, e \in Fds :
                            /\ d < e /\ fdalloc(p, d) /\ ofile[p][e] = 0
                            /\ \A g \in Fds : ofile[p][g] = 0 /\ g # d => e <= g
                            /\ ofile' = [ofile EXCEPT ![p][d] = cur[p], ![p][e] = f]
                            /\ Closes(p, <<>>)
                      \/ /\ Cardinality({d \in Fds : ofile[p][d] = 0}) < 2
                         /\ Closes(p, <<cur[p], f>>) /\ UNCHANGED ofile
    /\ UNCHANGED <<ip, off, ommap, iref, lock, size, child, ff, xfer, panic, hist>>

-----------------------------------------------------------------------------
(* fork and exit                                                           *)

fork(p, q) ==
    /\ At(p, "user") /\ pc[q] = "unused"
    /\ pc' = [pc EXCEPT ![p] = "fork", ![q] = "embryo"]
    /\ child' = [child EXCEPT ![p] = q] /\ cur' = [cur EXCEPT ![p] = 1]
    /\ UNCHANGED <<table, off, ofile, ommap, iref, lock, size, ends, todo, leaving, ff, xfer, panic, hist>>

\* filedup(), where there is a file.
dups(f) == ref' = IF f = 0 THEN ref ELSE [ref EXCEPT ![f] = @ + 1]

\* The loop of fork() over the descriptors; cur is the descriptor.
forkdup(p) ==
    /\ At(p, "fork") /\ cur[p] <= NOFILE
    /\ LET f == ofile[p][cur[p]]
       IN  /\ ofile' = [ofile EXCEPT ![child[p]][cur[p]] = f] /\ dups(f)
           /\ panic' = IF f # 0 /\ ref[f] < 1 THEN "filedup" ELSE "none"
    /\ cur' = [cur EXCEPT ![p] = @ + 1]
    /\ UNCHANGED <<type, ip, writable, off, ommap, iref, lock, size, ends, pc, todo, leaving, child, ff, xfer, hist>>

\* The mappings are copied, and the child runs.
forked(p) ==
    /\ At(p, "fork") /\ cur[p] > NOFILE
    /\ ommap' = [ommap EXCEPT ![child[p]] = ommap[p]]
    /\ pc' = [pc EXCEPT ![p] = "user", ![child[p]] = "user"]
    /\ child' = [child EXCEPT ![p] = None] /\ cur' = [cur EXCEPT ![p] = 0]
    /\ UNCHANGED <<table, off, ofile, iref, lock, size, ends, todo, leaving, ff, xfer, panic, hist>>

\* exit() closes every descriptor, after the munmap() that it begins with.
exit(p) ==
    /\ At(p, "user") /\ ommap[p] = None
    /\ Leaves(p, SelectSeq([d \in Fds |-> ofile[p][d]], LAMBDA f : f # 0), TRUE)
    /\ ofile' = [ofile EXCEPT ![p] = [d \in Fds |-> 0]]
    /\ UNCHANGED <<table, off, ommap, iref, lock, size, ends, cur, child, ff, xfer, panic, hist>>

-----------------------------------------------------------------------------
(* Reading, writing and seeking                                            *)

\* The offset that fileseek() sets.
seekto(f, n) == IF n > size[ip[f]] THEN size[ip[f]] ELSE n

fileseek(f, n) ==
    /\ off' = [off EXCEPT ![f] = seekto(f, n)]
    /\ sought' = [sought EXCEPT ![f] = TRUE]

\* seek(fd, n).
seek(p, d, n) ==
    /\ At(p, "user") /\ argfd(p, d) /\ type[ofile[p][d]] = "INODE"
    /\ fileseek(ofile[p][d], n)
    /\ UNCHANGED <<table, ofile, ommap, iref, lock, size, ends, pc, locals, panic, done, stale>>

\* p begins to transfer n units of file f.
Transfers(p, f, kind, n, want, private) ==
    /\ cur' = [cur EXCEPT ![p] = f] /\ Goes(p, "xfer")
    /\ xfer' = [xfer EXCEPT ![p] = [kind |-> kind, left |-> n, want |-> want, private |-> private]]

\* read(fd) and write(fd) of a file that is no pipe: fileread() of one unit, or
\* filewrite() of n chunks.
rw(p, d, kind, n) ==
    /\ At(p, "user") /\ argfd(p, d)
    /\ type[ofile[p][d]] = "INODE"
    /\ kind = "write" => writable[ofile[p][d]]
    /\ Transfers(p, ofile[p][d], kind, n, 0, FALSE)
    /\ UNCHANGED <<table, off, ofile, ommap, iref, lock, size, ends, todo, leaving, child, ff, panic, hist>>

\* Mutant: the inode is not locked.
ilock_not(p, i) == UNCHANGED lock

ilock(p, i) == lock[i] = None /\ lock' = [lock EXCEPT ![i] = p]

\* fileread() and filewrite() lock the inode and pass the offset on.
locked(p) ==
    /\ At(p, "xfer") /\ type[cur[p]] = "INODE"
    /\ LET f == cur[p]
       IN  /\ ilock(p, ip[f])
           /\ xfer' = [xfer EXCEPT ![p] = [kind |-> @.kind, left |-> @.left, want |-> @.want,
                                           private |-> @.private, i |-> ip[f], start |-> off[f]]]
    /\ Goes(p, "moving")
    /\ UNCHANGED <<table, off, ofile, ommap, iref, size, ends, cur, todo, leaving, child, ff, panic, hist>>

\* The file is no longer one: panic("fileread"), or a pipe.
notinode(p) ==
    /\ At(p, "xfer") /\ type[cur[p]] # "INODE"
    /\ panic' = IF type[cur[p]] = "NONE" THEN "file without type" ELSE "pipe for a file"
    /\ UNCHANGED <<table, off, ofile, ommap, iref, lock, size, ends, pc, locals, hist>>

\* What readi() or writei() returns from start on; -1 is taken as 0.
count(x) ==
    IF x.kind \in {"read", "pagein"} THEN IF x.start < size[x.i] THEN 1 ELSE 0
    ELSE IF x.start <= size[x.i] /\ x.start < MaxSize THEN 1 ELSE 0

\* f->off += r and iunlock().  filewrite() goes on with the next chunk; munmap()
\* ends with the mapping.
moved(p) ==
    /\ At(p, "moving")
    /\ LET x == xfer[p]
           f == cur[p]
           r == count(x)
           more == x.kind = "write" /\ r = 1 /\ x.left > 1
       IN  /\ off' = [off EXCEPT ![f] = @ + r] /\ done' = [done EXCEPT ![f] = @ + r]
           /\ size' = IF x.kind \in {"write", "writeback"} /\ r = 1 /\ x.start = size[x.i]
                      THEN [size EXCEPT ![x.i] = @ + 1] ELSE size
           /\ lock' = [lock EXCEPT ![x.i] = None]
           /\ IF more THEN Transfers(p, f, x.kind, x.left - 1, 0, FALSE)
              ELSE /\ xfer' = [xfer EXCEPT ![p] = None] /\ cur' = [cur EXCEPT ![p] = 0]
                   /\ Goes(p, "user")
           /\ ommap' = IF x.kind = "writeback" THEN [ommap EXCEPT ![p] = None] ELSE ommap
    /\ UNCHANGED <<table, ofile, iref, ends, todo, leaving, child, ff, panic, sought, stale>>

-----------------------------------------------------------------------------
(* Mappings                                                                *)

\* mmap(fd).  The field i is a history of the inode at that time.
mmap(p, d) ==
    /\ At(p, "user") /\ argfd(p, d) /\ ommap[p] = None
    /\ LET f == ofile[p][d]
       IN  /\ type[f] = "INODE"
           /\ ommap' = [ommap EXCEPT ![p] = [f |-> f, sz |-> size[ip[f]], i |-> ip[f]]]
    /\ UNCHANGED <<table, off, ofile, iref, lock, size, ends, pc, locals, panic, hist>>

\* p has the file open, and nobody else has it.
Private(p, f) ==
    /\ \E d \in Fds : ofile[p][d] = f
    /\ \A q \in Procs \ {p} : ~ maps(q, f) /\ f \notin Range(ofile[q]) \cup Range(todo[q])

\* Mutant: the offset is left where it is.
seekpage_not(f, pg) == UNCHANGED <<off, sought>>

seekpage(f, pg) == fileseek(f, pg)

\* Page-in (trap) and the writing of a modified page (munmap) seek first, and
\* then transfer the page.
page(p, pg, kind) ==
    /\ At(p, "user") /\ ommap[p] # None /\ pg < ommap[p].sz
    /\ LET f == ommap[p].f
       IN  /\ kind = "writeback" => writable[f]
           /\ seekpage(f, pg) /\ Transfers(p, f, kind, 1, pg, Private(p, f))
    /\ UNCHANGED <<table, ofile, ommap, iref, lock, size, ends, todo, leaving, child, ff, panic, done, stale>>

\* munmap() without modified pages.
munmap(p) ==
    /\ At(p, "user") /\ ommap[p] # None
    /\ ommap' = [ommap EXCEPT ![p] = None]
    /\ UNCHANGED <<table, off, ofile, iref, lock, size, ends, pc, locals, panic, hist>>

\* A process begins a call.
Call(p, c) ==
    \/ c = "open" /\ \E i \in Inodes : open(p, i)
    \/ c = "pipe" /\ pipealloc(p)
    \/ c = "fork" /\ \E q \in Procs : fork(p, q)
    \/ c = "exit" /\ exit(p)
    \/ c = "munmap" /\ munmap(p)
    \/ c = "page" /\ \E pg \in 0 .. MaxSize, kind \in {"pagein", "writeback"} : page(p, pg, kind)
    \/ \E d \in Fds :
          \/ c = "close" /\ close(p, d)
          \/ c = "dup" /\ dup(p, d)
          \/ c = "mmap" /\ mmap(p, d)
          \/ c = "read" /\ rw(p, d, "read", 1)
          \/ c = "write" /\ rw(p, d, "write", 2)      \* bound: two chunks
          \/ c = "seek" /\ \E n \in {0, MaxSize + 2} : seek(p, d, n)      \* bound: two offsets

\* A process goes on with its call.
Step(p) ==
    \/ \E i \in Inodes : openfd(p, i)
    \/ \E w \in BOOLEAN : opened(p, w)
    \/ fileclose(p) \/ closeput(p) \/ pipe(p) \/ forkdup(p) \/ forked(p)
    \/ locked(p) \/ notinode(p) \/ moved(p)

\* Bound: once a mapped file was closed, processes only use their mappings.
Allowed(p) == IF stale THEN Calls[p] \cap {"page"} ELSE Calls[p]

Next == \E p \in Procs : Step(p) \/ \E c \in Allowed(p) : Call(p, c)

Spec == Init /\ [][Next]_vars

-----------------------------------------------------------------------------
(* Properties                                                              *)

\* The variables have the types of file.h and proc.h.  fileseek() keeps the
\* offset within the file, so that a transfer which it overtakes brings it
\* past the end by one unit at most.
TypeOK ==
    /\ ref \in [Files -> Nat] /\ type \in [Files -> {"NONE", "PIPE", "INODE"}]
    /\ off \in [Files -> 0 .. MaxSize + 1]
    /\ ofile \in [Procs -> [Fds -> {0} \cup Files]]
    /\ iref \in [Inodes -> Nat] /\ lock \in [Inodes -> Procs \cup {None}]
    /\ size \in [Inodes -> 0 .. MaxSize] /\ ends \subseteq BOOLEAN

\* The references to f that some process has to give back.
Pointers(f) ==
    Cardinality({<<p, d>> \in Procs \X Fds : ofile[p][d] = f})
      + Cardinality({<<p, k>> \in Procs \X (1 .. NOFILE) :
                        k <= Len(todo[p]) /\ todo[p][k] = f /\ ~ (k = 1 /\ pc[p] = "put")})
      + Cardinality({p \in Procs : cur[p] = f /\ pc[p] \in {"open", "pipe"}})

\* References are exact, while fork() copies descriptors one by one, close() and
\* exit() drop them, and open() and pipe() fail halfway.  ref of a struct file is
\* the number of descriptors with it, in all processes.  Each inode and each end
\* of a pipe is given back once, by the last close: an inode has a reference for
\* each file that refers to it, for each open() that is not finished and for each
\* close() that still has to call iput().
RefCount ==
    /\ TypeOK
    /\ \A f \in Files : ref[f] = Pointers(f)
    /\ \A i \in Inodes :
          iref[i] = Cardinality({f \in Files : ref[f] > 0 /\ type[f] = "INODE" /\ ip[f] = i})
                    + Cardinality({p \in Procs : pc[p] = "open" /\ lock[i] = p})
                    + Cardinality({p \in Procs : pc[p] = "opened" /\ xfer[p] = i})
                    + Cardinality({p \in Procs : ff[p] # None /\ ff[p].type = "INODE" /\ ff[p].ip = i})
    /\ \A w \in BOOLEAN :
          w \in ends <=> \/ \E f \in Files : ref[f] > 0 /\ type[f] = "PIPE" /\ writable[f] = w
                         \/ \E p \in Procs : ff[p] # None /\ ff[p].type = "PIPE" /\ ff[p].wr = w

\* Processes that share a file read and write one part after the other, none
\* twice: as long as nobody seeks in it, a transfer starts where all before it
\* have ended.  The offset is read and moved under the lock of the inode.
SharedInTurn ==
    \A p \in Procs : pc[p] = "moving" /\ ~ sought[cur[p]] => xfer[p].start = done[cur[p]]

\* A page of a mapping is read from, and written to, its own place in the file
\* that was mapped, if no other process has the file when the seek is made:
\* seek and transfer are two steps, but nobody can get at the file in between.
PrivatePage ==
    \A p \in Procs :
        pc[p] = "moving" /\ xfer[p].kind \in {"pagein", "writeback"} /\ xfer[p].private =>
            xfer[p].start = xfer[p].want /\ xfer[p].i = ommap[p].i

\* The file table never panics, and a file in use keeps its type, unless a
\* process has closed a file that it has mapped: mmap() takes no reference.
FilesKept == panic = "none" \/ stale

=============================================================================
