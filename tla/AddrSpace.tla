----------------------------- MODULE AddrSpace -----------------------------
(***************************************************************************)
(* The user address spaces of vm.c over the pages of kalloc.c: sbrk, fork, *)
(* exec, exit and wait, mmap and munmap, and the page faults that grow the *)
(* stack and bring in mapped files.                                        *)
(*                                                                         *)
(* Only a process changes its own address space (fork and wait those of a  *)
(* process that does not run), so a system call or fault is one step; the  *)
(* free list, which others share, is the exception: what other CPUs take   *)
(* from it and give back, in any amount, is the action others.             *)
(*                                                                         *)
(* An address space is its page directory, its page tables (one of them    *)
(* for the kernel's part) and its pages, each a frame or 0.  Contents are  *)
(* not modelled.  The kernel's tables are one table here.                  *)
(***************************************************************************)
EXTENDS Naturals, FiniteSetsExt, Functions

CONSTANTS
    Procs,
    InitProc,        \* the process userinit() makes
    NFRAMES,         \* number of pages of physical memory
    PGSIZE,
    NPTENTRIES,      \* pages that one page table maps
    NTABLES,         \* page tables of the user part: up to KERNBASE
    MAXSTACKPAGES,
    MAXMAPPEDFILES,
    ImageSizes,      \* sizes of the programs exec loads
    FileSizes,       \* sizes of the files mmap maps
    Deltas,          \* arguments of sbrk: <<"+", n>> or <<"-", n>>
    Callers,         \* bound: the processes that call sbrk, exec and mmap
    MaxSz,           \* bound: no mmap or sbrk that takes proc->sz beyond it
    MaxOthers        \* bound: frames the rest of the kernel may hold

KERNBASE == NTABLES * NPTENTRIES * PGSIZE

ASSUME ConstAssumption ==
    /\ NFRAMES \in Nat /\ PGSIZE \in Nat \ {0} /\ NPTENTRIES \in Nat \ {0}
    /\ NTABLES \in Nat \ {0} /\ MAXSTACKPAGES \in Nat \ {0}
    /\ MAXMAPPEDFILES \in Nat /\ MaxSz \in Nat /\ MaxOthers \in Nat
    /\ ImageSizes \subseteq Nat /\ FileSizes \subseteq Nat
    /\ InitProc \in Procs /\ Callers \subseteq Procs

Frames == 1 .. NFRAMES
Pages  == 0 .. NTABLES * NPTENTRIES - 1
Tables == 0 .. NTABLES              \* NTABLES is the kernel's
Slots  == 1 .. MAXMAPPEDFILES

VARIABLES
    free,      \* kmem.freelist
    other,     \* frames in use elsewhere in the kernel
    as,        \* proc->pgdir and what hangs from it
    sz,        \* proc->sz
    sstack,    \* proc->sstack
    ommap,     \* proc->ommap
    state,     \* "unused", "runs" or "zombie"
    panic,     \* the panic called, or "none"
    dry        \* history: kalloc() has returned 0

vars == <<free, other, as, sz, sstack, ommap, state, panic, dry>>

pageup(a) == (a + PGSIZE - 1) \div PGSIZE       \* PGROUNDUP, as a page number
roundup(a) == pageup(a) * PGSIZE
table(pg) == pg \div NPTENTRIES

NoSpace  == [dir |-> 0, tab |-> [t \in Tables |-> 0], pte |-> [g \in Pages |-> 0]]
NoMap    == [file |-> FALSE, va |-> 0, sz |-> 0]

\* A loop over lo, lo + 1, .., hi - 1 that changes the working state w.
Loop(Turn(_, _), w, lo, hi) ==
    LET after[i \in 0 .. hi] == IF i <= lo THEN w ELSE Turn(after[i - 1], i - 1)
    IN  after[hi]

-----------------------------------------------------------------------------
(* vm.c.  A working state w has the free list, one address space, whether  *)
(* the last call failed, whether kalloc() did, and the panic called.       *)

work(f, s) ==
    [free |-> f, as |-> s, fails |-> FALSE, dry |-> dry, panic |-> "none", next |-> 0]

nomemory(w) == [w EXCEPT !.fails = TRUE, !.dry = TRUE]

stopped(w) == w.fails \/ w.panic # "none"

taken(w, f) == [w EXCEPT !.free = @ \ {f}]

\* walkpgdir with alloc set: the page table of pg, made if need be.
walkpgdir(w, pg) ==
    LET t == table(pg)
    IN  IF w.as.tab[t] # 0 THEN w
        ELSE IF w.free = {} THEN nomemory(w)
        ELSE [taken(w, Min(w.free)) EXCEPT !.as.tab[t] = Min(w.free)]

mappages(w, pg, f) ==
    LET w1 == walkpgdir(w, pg)
    IN  IF w1.fails THEN w1
        ELSE IF w1.as.pte[pg] # 0 THEN [w1 EXCEPT !.panic = "remap"]
        ELSE [w1 EXCEPT !.as.pte[pg] = f]

\* The directory, and the kernel's table; the directory is lost if that fails.
setupkvm(f) ==
    IF f = {} THEN nomemory(work(f, NoSpace))
    ELSE LET d == Min(f)
             g == f \ {d}
         IN  IF g = {} THEN nomemory(work(g, NoSpace))
             ELSE work(g \ {Min(g)}, [NoSpace EXCEPT !.dir = d, !.tab[NTABLES] = Min(g)])

\* Mutant: the entries of freed pages stay.
dropone_kept(w, pg) ==
    IF w.as.pte[pg] = 0 THEN w ELSE [w EXCEPT !.free = @ \cup {w.as.pte[pg]}]

\* One turn of deallocuvm at page pg; w.next is the page of the next turn.
dropone(w, pg) ==
    IF pg < w.next THEN w
    ELSE IF w.as.tab[table(pg)] = 0 THEN [w EXCEPT !.next = pg + NPTENTRIES]
    ELSE IF w.as.pte[pg] = 0 THEN w
    ELSE [w EXCEPT !.free = @ \cup {w.as.pte[pg]}, !.as.pte[pg] = 0]

deallocuvm(w, old, new) ==
    IF new >= old THEN w ELSE Loop(dropone, [w EXCEPT !.next = 0], pageup(new), pageup(old))

\* One turn of allocuvm: the result of mappages is not looked at.
addone(w, pg) ==
    IF stopped(w) THEN w
    ELSE IF w.free = {} THEN nomemory(w)
    ELSE [mappages(taken(w, Min(w.free)), pg, Min(w.free)) EXCEPT !.fails = FALSE]

\* fails stands for the return of 0.
allocuvm(w, old, new) ==
    IF new >= KERNBASE THEN [w EXCEPT !.fails = TRUE]
    ELSE LET w1 == Loop(addone, w, pageup(old), pageup(new))
         IN  IF w1.fails THEN deallocuvm(w1, new, old) ELSE w1

\* Mutant: the page tables are not freed.
freevm_pages(f, s) == deallocuvm(work(f, s), KERNBASE, 0).free \cup {s.dir}

freevm(f, s) ==
    LET w == deallocuvm(work(f, s), KERNBASE, 0)
    IN  w.free \cup (({w.as.tab[t] : t \in Tables} \cup {s.dir}) \ {0})

\* One turn of copyuvm at page pg of the address space s.
copyone(s, w, pg) ==
    IF stopped(w) THEN w
    ELSE IF s.tab[table(pg)] = 0 THEN [w EXCEPT !.panic = "copyuvm"]
    ELSE IF s.pte[pg] = 0 THEN w
    ELSE IF w.free = {} THEN nomemory(w)
    ELSE mappages(taken(w, Min(w.free)), pg, Min(w.free))

copyuvm(f, s, size) ==
    LET w0 == setupkvm(f)
        Turn(w, pg) == copyone(s, w, pg)
        w1 == Loop(Turn, w0, 0, pageup(size))
    IN  IF w0.fails THEN w0
        ELSE IF w1.fails THEN [w1 EXCEPT !.free = freevm(w1.free, w1.as)]
        ELSE w1

-----------------------------------------------------------------------------

\* loaduvm finds the pages of a segment of n bytes.
loaduvm(w, n) == \A pg \in 0 .. pageup(n) - 1 : w.as.pte[pg] # 0

\* uva2ka of copyout finds the page of the stack.
uva2ka(w, pg) == w.as.pte[pg] # 0

\* The pages freerange() puts on the list, and initcode at address 0.
inituvm == mappages(setupkvm(Frames \ {1}), 0, 1)

Runs(p) == panic = "none" /\ state[p] = "runs"

Init ==
    /\ dry = FALSE
    /\ free = inituvm.free
    /\ as = [p \in Procs |-> IF p = InitProc THEN inituvm.as ELSE NoSpace]
    /\ other = {}
    /\ sz = [p \in Procs |-> IF p = InitProc THEN PGSIZE ELSE 0]
    /\ sstack = [p \in Procs |-> 0]
    /\ ommap = [p \in Procs |-> [i \in Slots |-> NoMap]]
    /\ state = [p \in Procs |-> IF p = InitProc THEN "runs" ELSE "unused"]
    /\ panic = "none"

\* kalloc and kfree by pipes, kernel stacks, and other processes.
others ==
    /\ panic = "none"
    /\ \/ free # {} /\ Cardinality(other) < MaxOthers
          /\ free' = free \ {Min(free)} /\ other' = other \cup {Min(free)}
       \/ other # {}
          /\ free' = free \cup {Min(other)} /\ other' = other \ {Min(other)}
    /\ UNCHANGED <<as, sz, sstack, ommap, state, panic, dry>>

\* What a call of p leaves: the free list, its address space, a panic.
Leaves(p, w) ==
    /\ free' = w.free /\ as' = [as EXCEPT ![p] = w.as]
    /\ panic' = w.panic /\ dry' = w.dry

\* growproc(n).  Shrinking to 0 frees the pages and then reports an error, with
\* proc->sz as it was.  A negative argument beyond the size wraps around and
\* changes nothing.
growproc(p, n) ==
    /\ Runs(p)
    /\ IF n[1] = "+"
       THEN LET w == allocuvm(work(free, as[p]), sz[p], sz[p] + n[2])
            IN  /\ sz[p] + n[2] <= MaxSz
                /\ Leaves(p, w)
                /\ sz' = [sz EXCEPT ![p] = IF w.fails THEN @ ELSE @ + n[2]]
       ELSE /\ n[2] <= sz[p]
            /\ Leaves(p, deallocuvm(work(free, as[p]), sz[p], sz[p] - n[2]))
            /\ sz' = [sz EXCEPT ![p] = IF n[2] = @ THEN @ ELSE @ - n[2]]
    /\ UNCHANGED <<other, sstack, ommap, state>>

\* fork(), with p the parent and q the slot of the child.
fork(p, q) ==
    /\ Runs(p) /\ state[q] = "unused"
    /\ LET w == copyuvm(free, as[p], sz[p])
       IN  /\ free' = w.free /\ panic' = w.panic /\ dry' = w.dry
           /\ IF w.fails
              THEN UNCHANGED <<as, sz, sstack, ommap, state>>
              ELSE /\ as' = [as EXCEPT ![q] = w.as]
                   /\ sz' = [sz EXCEPT ![q] = sz[p]]
                   /\ sstack' = [sstack EXCEPT ![q] = sstack[p]]
                   /\ ommap' = [ommap EXCEPT ![q] =
                          [i \in Slots |-> IF ommap[p][i].file THEN ommap[p][i] ELSE @[i]]]
                   /\ state' = [state EXCEPT ![q] = "runs"]
    /\ UNCHANGED other

\* exec() of a program with one segment of n bytes.  fault says what cannot be
\* copied, the segment or the arguments.  Pages that allocuvm left without a
\* table stop loaduvm; a stack without one is read by copyout through a null
\* pointer, where the model ends.  proc->sstack is set before the last points
\* of failure.
exec(p, n, fault) ==
    /\ Runs(p)
    /\ LET w0    == setupkvm(free)
           w1    == allocuvm(w0, 0, n)
           stack == roundup(n + PGSIZE)
           top   == stack + (MAXSTACKPAGES - 1) * PGSIZE
           w2    == allocuvm(w1, top, top + PGSIZE)
           Stops(w, why)  == free' = w.free /\ dry' = w.dry /\ panic' = why /\ UNCHANGED <<as, sz>>
           Bad(w) == Stops([w EXCEPT !.free = freevm(w.free, w.as)], "none")
           Commit(w) ==
               /\ free' = freevm(w.free, as[p]) /\ dry' = w.dry
               /\ as' = [as EXCEPT ![p] = w.as]
               /\ sz' = [sz EXCEPT ![p] = top + PGSIZE]
               /\ UNCHANGED panic
       IN  IF w0.fails THEN Stops(w0, "none") /\ UNCHANGED sstack
           ELSE IF w1.fails \/ (loaduvm(w1, n) /\ fault = "image") THEN Bad(w1) /\ UNCHANGED sstack
           ELSE IF ~ loaduvm(w1, n) THEN Stops(w1, "loaduvm") /\ UNCHANGED sstack
           ELSE /\ sstack' = [sstack EXCEPT ![p] = stack]
                /\ IF w2.fails \/ fault = "arguments" THEN Bad(w2)
                   ELSE IF ~ uva2ka(w2, top \div PGSIZE) THEN Stops(w2, "uva2ka")
                   ELSE Commit(w2)
    /\ UNCHANGED <<other, ommap, state>>

\* mmap(): the mapping starts at proc->sz; no page is allocated.
mmap(p, n) ==
    /\ Runs(p) /\ sz[p] + n <= MaxSz
    /\ \E i \in Slots :
          /\ ~ ommap[p][i].file /\ \A j \in 1 .. i - 1 : ommap[p][j].file
          /\ ommap' = [ommap EXCEPT ![p][i] = [file |-> TRUE, va |-> sz[p], sz |-> n]]
    /\ sz' = [sz EXCEPT ![p] = roundup(@ + n)]
    /\ UNCHANGED <<free, other, as, sstack, state, panic, dry>>

\* The size that munmap passes to unmappages: the end of the mapping.
unmapsize(m) == m.va + m.sz

\* The first mapping at the address a, if any.
mapped(p, a) ==
    {i \in Slots : a # 0 /\ ommap[p][i].file /\ ommap[p][i].va = a
                   /\ \A j \in 1 .. i - 1 : ~ (ommap[p][j].file /\ ommap[p][j].va = a)}

\* The working state after munmap of mapping m.
unmapped(w, m) == deallocuvm(w, m.va + unmapsize(m), m.va)

munmap(p, a) ==
    /\ Runs(p)
    /\ \E i \in mapped(p, a) :
          /\ Leaves(p, unmapped(work(free, as[p]), ommap[p][i]))
          /\ ommap' = [ommap EXCEPT ![p][i] = [@ EXCEPT !.file = FALSE, !.va = 0]]
    /\ UNCHANGED <<other, sz, sstack, state>>

\* mmapin: the first mapping that holds the address.
mmapin(p, a) ==
    {i \in Slots : ommap[p][i].file /\ ommap[p][i].va <= a /\ a < ommap[p][i].va + ommap[p][i].sz}

\* A user access to an address whose page is not present, in the stack area or
\* in a mapped file.  Any other kills the process, which then exits.
pagefault(p, a) ==
    /\ Runs(p) /\ as[p].pte[a \div PGSIZE] = 0
    /\ \/ sstack[p] <= a /\ a < sstack[p] + MAXSTACKPAGES * PGSIZE
       \/ mmapin(p, a) # {}
    /\ LET base == (a \div PGSIZE) * PGSIZE
           w    == allocuvm(work(free, as[p]), base, base + PGSIZE)
       IN  Leaves(p, IF w.fails THEN [w EXCEPT !.panic = "trap alloc"] ELSE w)
    /\ UNCHANGED <<other, sz, sstack, ommap, state>>

\* exit() unmaps every mapping; the address space stays until wait().
exit(p) ==
    /\ Runs(p) /\ p # InitProc
    /\ LET Turn(w, i) == IF ommap[p][i].file THEN unmapped(w, ommap[p][i]) ELSE w
       IN  Leaves(p, Loop(Turn, work(free, as[p]), 1, MAXMAPPEDFILES + 1))
    /\ ommap' = [ommap EXCEPT ![p] = [i \in Slots |-> [@[i] EXCEPT !.file = FALSE, !.va = 0]]]
    /\ state' = [state EXCEPT ![p] = "zombie"]
    /\ UNCHANGED <<other, sz, sstack>>

\* wait() of its parent, or of init.
wait(p) ==
    /\ panic = "none" /\ state[p] = "zombie"
    /\ free' = freevm(free, as[p])
    /\ as' = [as EXCEPT ![p] = NoSpace]
    /\ state' = [state EXCEPT ![p] = "unused"]
    /\ UNCHANGED <<other, sz, sstack, ommap, panic, dry>>

Next ==
    \/ others
    \/ \E p \in Callers :
          \/ \E n \in Deltas : growproc(p, n)
          \/ \E n \in ImageSizes, fault \in {"none", "image", "arguments"} : exec(p, n, fault)
          \/ \E n \in FileSizes : mmap(p, n)
    \/ \E p \in Procs :
          \/ \E q \in Procs : fork(p, q)
          \/ \E a \in 0 .. KERNBASE - 1 : munmap(p, a) \/ pagefault(p, a)
          \/ exit(p) \/ wait(p)

Spec == Init /\ [][Next]_vars

-----------------------------------------------------------------------------
(* Properties                                                              *)

Space == [dir : Frames \cup {0}, tab : [Tables -> Frames \cup {0}], pte : [Pages -> Frames \cup {0}]]

\* The variables have the types of the C declarations, and a page is mapped
\* only through a table, a table only through a directory.
TypeOK ==
    /\ free \subseteq Frames /\ other \subseteq Frames /\ dry \in BOOLEAN
    /\ as \in [Procs -> Space]
    /\ sz \in [Procs -> Nat] /\ sstack \in [Procs -> Nat]
    /\ ommap \in [Procs -> [Slots -> [file : BOOLEAN, va : Nat, sz : Nat]]]
    /\ state \in [Procs -> {"unused", "runs", "zombie"}]
    /\ \A p \in Procs :
          /\ as[p].dir = 0 <=> state[p] = "unused"
          /\ \A t \in Tables : as[p].tab[t] # 0 => as[p].dir # 0
          /\ \A g \in Pages : as[p].pte[g] # 0 => as[p].tab[table(g)] # 0

\* The frames of the address space of p, and the number of entries with one.
Held(p) == ({as[p].dir} \cup Range(as[p].tab) \cup Range(as[p].pte)) \ {0}

Entries(p) ==
    Cardinality({t \in Tables : as[p].tab[t] # 0}) + Cardinality({g \in Pages : as[p].pte[g] # 0})
    + (IF as[p].dir # 0 THEN 1 ELSE 0)

Used == free \cup other \cup UNION {Held(p) : p \in Procs}

\* A frame is on the free list, or in use by the kernel, or in one place of one
\* address space, and never in two of these: no path through fork, exec, sbrk,
\* munmap, exit and wait, failed or not, frees a page that is mapped, frees a
\* page twice or maps a page twice.
FramesExclusive ==
    /\ TypeOK
    /\ Cardinality(Used) =
          Cardinality(free) + Cardinality(other) + FoldSet(LAMBDA p, n : Entries(p) + n, 0, Procs)

\* As long as kalloc() has not failed, and the kernel has not stopped in the
\* middle of a call, no frame is lost: every one is free or in use, so that
\* exec and wait give back all that a process took.
FramesAccounted == dry \/ panic # "none" \/ Used = Frames

=============================================================================
