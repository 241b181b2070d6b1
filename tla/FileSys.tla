------------------------------ MODULE FileSys ------------------------------
(***************************************************************************)
(* The inode cache and the directories of fs.c, under the system calls of  *)
(* sysfile.c that create, name and remove files.                           *)
(*                                                                         *)
(* icache is indexed by inode number: iget() looks a number up under       *)
(* icache.lock, so a number has one entry at most, which is recycled when  *)
(* its count is 0.  Waiting for I_BUSY is the guard of an action.  What a  *)
(* process does while it holds one inode and waits for nothing is one      *)
(* step.  Each call is a transaction of log.c, which makes it atomic with  *)
(* respect to crashes.  Data blocks are the subject of InodeData.          *)
(***************************************************************************)
EXTENDS Naturals, SequencesExt

CONSTANTS
    Procs,
    NINODES,     \* inodes on the disk
    NINODE,      \* entries of icache
    Names,       \* names of directory entries besides "." and ".."
    Paths,       \* bound: the paths used, [abs |-> BOOLEAN, elems |-> Seq]
    Calls,       \* bound: the system calls each process makes
    None

Inums == 1 .. NINODES
Root == 1                                   \* ROOTINO
AllNames == Names \cup {".", ".."}
Creates == {"create", "mkdir", "mknod"}     \* "create" is open with O_CREATE

ASSUME ConstAssumption ==
    /\ NINODES \in Nat \ {0} /\ NINODE \in Nat \ {0}
    /\ None \notin Procs
    /\ Calls \in [Procs -> SUBSET (Creates \cup {"open", "link", "unlink", "chdir"})]

VARIABLES
    disk,       \* dinode: type (0 is free) and nlink
    ents,       \* entries of each directory: name -> inode number, or 0
    ref, busy, valid,   \* struct inode: ref, who holds I_BUSY, I_VALID
    copy,       \* type and nlink in the cache
    cwd, file,  \* proc->cwd, and the inode of an open file
    pc, call, path, name,   \* position, call, rest of its path, last element
    cur, obj,   \* the inode reached by namex, and another in use
    drop, ret,  \* inodes to iput() in turn, and where to go then
    panic,
    orphaned    \* history: what freeing a directory has left behind

icache == <<ref, busy, valid, copy>>
local == <<call, path, name, cur, obj, drop, ret>>
rest == <<disk, ents, icache, cwd, file, pc, local, panic>>
vars == <<rest, orphaned>>

Free == [type |-> "0", nlink |-> 0]
NoEnts == [n \in AllNames |-> 0]

\* The file system that mkfs makes.
Init ==
    /\ disk = [i \in Inums |-> IF i = Root THEN [type |-> "DIR", nlink |-> 1] ELSE Free]
    /\ ents = [i \in Inums |->
                  IF i = Root THEN [n \in AllNames |-> IF n \in Names THEN 0 ELSE Root] ELSE NoEnts]
    /\ ref = [i \in Inums |-> IF i = Root THEN Cardinality(Procs) ELSE 0]
    /\ busy = [i \in Inums |-> None] /\ valid = [i \in Inums |-> FALSE]
    /\ copy = [i \in Inums |-> Free]
    /\ cwd = [p \in Procs |-> Root] /\ file = [p \in Procs |-> 0]
    /\ pc = [p \in Procs |-> "user"]
    /\ call = [p \in Procs |-> "none"] /\ path = [p \in Procs |-> <<>>]
    /\ name = [p \in Procs |-> "."] /\ cur = [p \in Procs |-> 0] /\ obj = [p \in Procs |-> 0]
    /\ drop = [p \in Procs |-> <<>>] /\ ret = [p \in Procs |-> "user"]
    /\ panic = "none" /\ orphaned = {}

-----------------------------------------------------------------------------
(* The inode cache                                                         *)

At(p, where) == pc[p] = where /\ panic = "none"

\* The cached copy that ilock() provides.
loaded(i) == IF valid[i] THEN copy[i] ELSE disk[i]

isdir(i) == loaded(i).type = "DIR"

\* ilock(i) by p, who keeps the lock after the step or not.
ilock(p, i, held) ==
    /\ busy[i] = None
    /\ busy' = [busy EXCEPT ![i] = IF held THEN p ELSE None]
    /\ valid' = [valid EXCEPT ![i] = TRUE]

\* The copies after ilock() of i and iupdate() of the inodes of new.
iupdate(i, new) ==
    /\ copy' = new @@ [copy EXCEPT ![i] = loaded(i)]
    /\ disk' = new @@ disk

ilockonly(p, i, held) == ilock(p, i, held) /\ iupdate(i, <<>>)

\* The counts after iget(i) or idup(i); an entry with count 0 is recycled.
iget(i) == ref' = [ref EXCEPT ![i] = @ + 1]

\* What a step that locks the inode l and gets the inode g panics with; 0 is
\* no inode.
checked(l, g) ==
    panic' = IF l # 0 /\ loaded(l).type = "0" THEN "ilock: no type"
             ELSE IF g # 0 /\ ref[g] = 0 /\ Cardinality({i \in Inums : ref[i] > 0}) = NINODE
             THEN "iget: no inodes" ELSE "none"

\* p goes on at where after iput() of each inode of s; those that p has locked
\* are unlocked first.
Drops(p, s, where) ==
    /\ drop' = [drop EXCEPT ![p] = s] /\ ret' = [ret EXCEPT ![p] = where]
    /\ pc' = [pc EXCEPT ![p] = "put"]

\* The count goes down, and p goes on.
putdone(p) ==
    LET i == Head(drop[p])
    IN  /\ ref' = [ref EXCEPT ![i] = @ - 1]
        /\ drop' = [drop EXCEPT ![p] = Tail(@)]
        /\ pc' = [pc EXCEPT ![p] = IF Len(drop[p]) = 1 THEN ret[p] ELSE "put"]

\* iput() is to free the inode.
lastref(i) == ref[i] = 1 /\ valid[i] /\ copy[i].nlink = 0

\* iput(), after iunlock() where the caller is iunlockput().  An entry whose
\* count is 0 counts as clear: iget() clears its flags when it recycles it.
iput(p) ==
    /\ At(p, "put")
    /\ LET i == Head(drop[p])
       IN  IF lastref(i)
           THEN /\ panic' = IF busy[i] \in {None, p} THEN "none" ELSE "iput busy"
                /\ busy' = [busy EXCEPT ![i] = p]
                /\ pc' = [pc EXCEPT ![p] = "trunc"]
                /\ UNCHANGED <<ref, valid, copy, drop>>
           ELSE /\ putdone(p)
                /\ busy' = [busy EXCEPT ![i] = IF @ = p /\ i \notin Range(Tail(drop[p])) THEN None ELSE @]
                /\ valid' = [valid EXCEPT ![i] = @ /\ ref[i] > 1]
                /\ copy' = [copy EXCEPT ![i] = IF ref[i] > 1 THEN @ ELSE Free]
                /\ UNCHANGED panic
    /\ UNCHANGED <<disk, ents, cwd, file, call, path, name, cur, obj, ret>>

\* itrunc(), type 0 and iupdate(), without icache.lock.
itrunc(p) ==
    /\ At(p, "trunc")
    /\ LET i == Head(drop[p])
       IN  /\ ents' = [ents EXCEPT ![i] = NoEnts]
           /\ disk' = [disk EXCEPT ![i] = Free] /\ copy' = [copy EXCEPT ![i] = Free]
    /\ pc' = [pc EXCEPT ![p] = "freed"]
    /\ UNCHANGED <<ref, busy, valid, cwd, file, local, panic>>

\* The end of iput(): the flags are cleared and the lock is free.
ifreed(p) ==
    /\ At(p, "freed")
    /\ busy' = [busy EXCEPT ![Head(drop[p])] = None]
    /\ valid' = [valid EXCEPT ![Head(drop[p])] = FALSE]
    /\ putdone(p)
    /\ UNCHANGED <<disk, ents, copy, cwd, file, call, path, name, cur, obj, ret, panic>>

-----------------------------------------------------------------------------
(* namex                                                                   *)

\* The inode number that dirlookup() finds under a name, or 0.
dirlookup(dp, n) == ents[dp][n]

\* The entries after dirlink() of inode i, under a name that is not there.
dirlink(dp, n, i) == [ents EXCEPT ![dp][n] = i]

\* The start of namex(), in a step that locked l: the root, or the current
\* directory.
begins(p, pth, l) ==
    LET i == IF pth.abs THEN Root ELSE cwd[p]
    IN  /\ iget(i) /\ checked(l, i) /\ cur' = [cur EXCEPT ![p] = i]
        /\ path' = [path EXCEPT ![p] = pth.elems]
        /\ pc' = [pc EXCEPT ![p] = "walk"]

\* nameiparent is asked for, in the walk that p is on.
wantsparent(p) == call[p] \in Creates \cup {"unlink"} \/ (call[p] = "link" /\ obj[p] # 0)

\* The position after namex() returned an inode, or 0.
found(p) ==
    CASE call[p] \in Creates -> "create1"
      [] call[p] = "link" -> IF obj[p] = 0 THEN "link1" ELSE "link2"
      [] OTHER -> call[p]

failed(p) == IF call[p] = "link" /\ obj[p] # 0 THEN "linkbad" ELSE "user"

\* The start of a system call with one path.
syscall(p, c, pth) ==
    /\ At(p, "user")
    /\ c \in {"open", "create"} => file[p] = 0        \* bound: one open file
    /\ begins(p, pth, 0)
    /\ call' = [call EXCEPT ![p] = c]
    /\ UNCHANGED <<disk, ents, busy, valid, copy, cwd, file, name, obj, drop, ret>>

\* The path is used up: namei() returns the inode, nameiparent() gives up.
walkend(p) ==
    /\ At(p, "walk") /\ path[p] = <<>>
    /\ IF wantsparent(p)
       THEN Drops(p, <<cur[p]>>, failed(p)) /\ cur' = [cur EXCEPT ![p] = 0]
       ELSE pc' = [pc EXCEPT ![p] = found(p)] /\ UNCHANGED <<cur, drop, ret>>
    /\ UNCHANGED <<disk, ents, icache, cwd, file, call, path, name, obj, panic>>

\* Mutant: the inode of the path so far is not given back.
stepsto_leak(p, next) ==
    /\ iget(next) /\ cur' = [cur EXCEPT ![p] = next]
    /\ path' = [path EXCEPT ![p] = Tail(@)]
    /\ UNCHANGED <<pc, drop, ret>>

\* dirlookup() found the element: iunlockput(ip), ip = next.
stepsto(p, next) ==
    /\ iget(next) /\ cur' = [cur EXCEPT ![p] = next]
    /\ path' = [path EXCEPT ![p] = Tail(@)]
    /\ Drops(p, <<cur[p]>>, "walk")

\* One turn of the loop of namex(): lock, look up, unlock.
walk(p) ==
    /\ At(p, "walk") /\ path[p] # <<>>
    /\ LET i     == cur[p]
           next  == dirlookup(i, Head(path[p]))
           stops == wantsparent(p) /\ Len(path[p]) = 1
       IN  /\ ilockonly(p, i, FALSE)
           /\ name' = [name EXCEPT ![p] = Head(path[p])]
           /\ \/ /\ ~ isdir(i) \/ (~ stops /\ next = 0)
                 /\ Drops(p, <<i>>, failed(p)) /\ cur' = [cur EXCEPT ![p] = 0]
                 /\ checked(i, 0)
                 /\ UNCHANGED <<ref, path>>
              \/ /\ isdir(i) /\ stops
                 /\ pc' = [pc EXCEPT ![p] = found(p)]
                 /\ UNCHANGED <<ref, cur, path, drop, ret, panic>>
              \/ /\ isdir(i) /\ ~ stops /\ next # 0
                 /\ stepsto(p, next) /\ checked(i, next)
    /\ UNCHANGED <<ents, cwd, file, call, obj>>

-----------------------------------------------------------------------------
(* sysfile.c                                                               *)

\* The names in a directory besides "." and "..".
isdirempty(i) == \A n \in Names : ents[i][n] = 0

more(i) == [loaded(i) EXCEPT !.nlink = @ + 1]
less(i) == [loaded(i) EXCEPT !.nlink = @ - 1]

\* open() and chdir() after namei(): the inode is kept or given back.
open(p, ok) ==
    /\ At(p, "open")
    /\ ilockonly(p, cur[p], FALSE) /\ checked(cur[p], 0)
    /\ IF ok THEN file' = [file EXCEPT ![p] = cur[p]] /\ pc' = [pc EXCEPT ![p] = "user"]
                  /\ UNCHANGED <<drop, ret>>
       ELSE Drops(p, <<cur[p]>>, "user") /\ UNCHANGED file
    /\ cur' = [cur EXCEPT ![p] = 0]
    /\ UNCHANGED <<ents, ref, cwd, call, path, name, obj>>

chdir(p) ==
    /\ At(p, "chdir")
    /\ ilockonly(p, cur[p], FALSE) /\ checked(cur[p], 0)
    /\ IF isdir(cur[p])
       THEN Drops(p, <<cwd[p]>>, "user") /\ cwd' = [cwd EXCEPT ![p] = cur[p]]
       ELSE Drops(p, <<cur[p]>>, "user") /\ UNCHANGED cwd
    /\ cur' = [cur EXCEPT ![p] = 0]
    /\ UNCHANGED <<ents, ref, file, call, path, name, obj>>

\* fileclose() of the last reference to an open file.
close(p) ==
    /\ At(p, "user") /\ file[p] # 0
    /\ Drops(p, <<file[p]>>, "user") /\ file' = [file EXCEPT ![p] = 0]
    /\ UNCHANGED <<disk, ents, icache, cwd, call, path, name, cur, obj, panic>>

\* ip->nlink++ in link().
counted(i) == more(i)

\* link(): count the new link first; then look up where it goes.
link1(p, new) ==
    /\ At(p, "link1")
    /\ LET i == cur[p]
       IN  /\ ilock(p, i, FALSE)
           /\ IF isdir(i)
              THEN /\ iupdate(i, <<>>) /\ Drops(p, <<i>>, "user") /\ checked(i, 0)
                   /\ cur' = [cur EXCEPT ![p] = 0]
                   /\ UNCHANGED <<ref, obj, path>>
              ELSE /\ iupdate(i, i :> counted(i))
                   /\ obj' = [obj EXCEPT ![p] = i] /\ begins(p, new, i)
                   /\ UNCHANGED <<drop, ret>>
    /\ UNCHANGED <<ents, cwd, file, call, name>>

\* The second half of link(): dirlink() of the inode in the directory.
link2(p) ==
    /\ At(p, "link2")
    /\ LET dp == cur[p]
           at == dirlookup(dp, name[p])
       IN  /\ ilockonly(p, dp, TRUE)
           /\ IF at # 0
              THEN /\ iget(at) /\ checked(dp, at) /\ Drops(p, <<at, dp>>, "linkbad")
                   /\ UNCHANGED <<ents, obj>>
              ELSE /\ ents' = dirlink(dp, name[p], obj[p])
                   /\ checked(dp, 0) /\ Drops(p, <<dp, obj[p]>>, "user")
                   /\ obj' = [obj EXCEPT ![p] = 0]
                   /\ UNCHANGED ref
    /\ cur' = [cur EXCEPT ![p] = 0]
    /\ UNCHANGED <<cwd, file, call, path, name>>

\* Mutant: link() fails without taking the count back.
linkbad_keeps(p) ==
    /\ At(p, "linkbad")
    /\ ilockonly(p, obj[p], FALSE) /\ checked(obj[p], 0)
    /\ Drops(p, <<obj[p]>>, "user") /\ obj' = [obj EXCEPT ![p] = 0]
    /\ UNCHANGED <<ents, ref, cwd, file, call, path, name, cur>>

\* link() takes the count back.
linkbad(p) ==
    /\ At(p, "linkbad")
    /\ ilock(p, obj[p], FALSE) /\ iupdate(obj[p], obj[p] :> less(obj[p])) /\ checked(obj[p], 0)
    /\ Drops(p, <<obj[p]>>, "user") /\ obj' = [obj EXCEPT ![p] = 0]
    /\ UNCHANGED <<ents, ref, cwd, file, call, path, name, cur>>

\* Mutant: "." and ".." are removed like any other name.
maynotgo_none(n) == FALSE

\* Cannot unlink "." or "..".
maynotgo(n) == n \in {".", ".."}

\* unlink(): the directory is locked and searched.
unlink1(p) ==
    /\ At(p, "unlink")
    /\ LET dp == cur[p]
           at == dirlookup(dp, name[p])
       IN  IF maynotgo(name[p]) \/ at = 0
           THEN /\ ilockonly(p, dp, FALSE) /\ checked(dp, 0)
                /\ Drops(p, <<dp>>, "user") /\ cur' = [cur EXCEPT ![p] = 0]
                /\ UNCHANGED <<ref, obj>>
           ELSE /\ ilockonly(p, dp, TRUE) /\ iget(at) /\ checked(dp, at)
                /\ obj' = [obj EXCEPT ![p] = at] /\ pc' = [pc EXCEPT ![p] = "unlink2"]
                /\ UNCHANGED <<drop, ret, cur>>
    /\ UNCHANGED <<ents, cwd, file, call, path, name>>

\* The inode is locked too, and the entry goes.
unlink2(p) ==
    /\ At(p, "unlink2")
    /\ LET dp == cur[p]
           ip == obj[p]
       IN  /\ ilock(p, ip, TRUE)
           /\ panic' = IF loaded(ip).type = "0" THEN "ilock: no type"
                       ELSE IF loaded(ip).nlink < 1 THEN "unlink: nlink < 1" ELSE "none"
           /\ IF isdir(ip) /\ ~ isdirempty(ip)
              THEN /\ Drops(p, <<ip, dp>>, "user") /\ obj' = [obj EXCEPT ![p] = 0]
                   /\ iupdate(ip, <<>>) /\ UNCHANGED ents
              ELSE /\ ents' = [ents EXCEPT ![dp][name[p]] = 0]
                   /\ iupdate(ip, IF isdir(ip) THEN dp :> less(dp) ELSE <<>>)
                   /\ Drops(p, <<dp>>, "unlink3") /\ UNCHANGED obj
    /\ cur' = [cur EXCEPT ![p] = 0]
    /\ UNCHANGED <<ref, cwd, file, call, path, name>>

\* The link is counted off; the lock is still held.
unlink3(p) ==
    /\ At(p, "unlink3")
    /\ iupdate(obj[p], obj[p] :> less(obj[p]))
    /\ Drops(p, <<obj[p]>>, "user") /\ obj' = [obj EXCEPT ![p] = 0]
    /\ UNCHANGED <<ents, ref, busy, valid, cwd, file, call, path, name, cur, panic>>

\* The dinodes that ialloc() may take.  It reads one block after the other, so
\* that one before the one it takes may have been freed meanwhile.
ialloc(i) == disk[i].type = "0"

kind(c) == CASE c = "create" -> "FILE" [] c = "mkdir" -> "DIR" [] c = "mknod" -> "DEV"

\* create(): the name exists, or an inode is allocated for it.
create1(p) ==
    /\ At(p, "create1")
    /\ LET dp == cur[p]
           at == dirlookup(dp, name[p])
       IN  \/ /\ at # 0
              /\ ilockonly(p, dp, FALSE) /\ iget(at) /\ checked(dp, at)
              /\ Drops(p, <<dp>>, "create3")
              /\ obj' = [obj EXCEPT ![p] = at] /\ cur' = [cur EXCEPT ![p] = 0]
           \/ \E i \in Inums :
              /\ at = 0 /\ ialloc(i)
              /\ ilock(p, dp, TRUE) /\ iget(i) /\ checked(dp, i)
              /\ copy' = [copy EXCEPT ![dp] = loaded(dp)]
              /\ disk' = [disk EXCEPT ![i] = [type |-> kind(call[p]), nlink |-> 0]]
              /\ obj' = [obj EXCEPT ![p] = i] /\ pc' = [pc EXCEPT ![p] = "create2"]
              /\ UNCHANGED <<drop, ret, cur>>
           \/ /\ at = 0 /\ \A i \in Inums : disk[i].type # "0"
              /\ busy[dp] = None /\ panic' = "ialloc: no inodes"
              /\ UNCHANGED <<disk, icache, pc, cur, obj, drop, ret>>
    /\ UNCHANGED <<ents, cwd, file, call, path, name>>

\* Mutant: the link that the new entry makes is not counted.
newinode_nolink(i) == loaded(i)

\* The fields that create() gives to a new inode.
newinode(i) == [loaded(i) EXCEPT !.nlink = 1]

\* create() of a new name: the inode, its dots, and the entry.
create2(p) ==
    /\ At(p, "create2")
    /\ LET dp == cur[p]
           ip == obj[p]
       IN  /\ ilock(p, ip, TRUE) /\ checked(ip, 0)
           /\ iupdate(ip, IF isdir(ip) THEN ip :> newinode(ip) @@ dp :> more(dp) ELSE ip :> newinode(ip))
           /\ ents' = [dirlink(dp, name[p], ip) EXCEPT
                 ![ip] = IF isdir(ip) THEN [NoEnts EXCEPT !["."] = ip, ![".."] = dp] ELSE @]
           /\ Drops(p, <<dp>>, "created")
    /\ cur' = [cur EXCEPT ![p] = 0]
    /\ UNCHANGED <<ref, cwd, file, call, path, name, obj>>

\* create() of a name that exists.
create3(p) ==
    /\ At(p, "create3")
    /\ LET ip == obj[p]
           ok == call[p] = "create" /\ loaded(ip).type = "FILE"
       IN  /\ ilockonly(p, ip, ok) /\ checked(ip, 0)
           /\ IF ok THEN pc' = [pc EXCEPT ![p] = "created"] /\ UNCHANGED <<drop, ret, obj>>
              ELSE Drops(p, <<ip>>, "user") /\ obj' = [obj EXCEPT ![p] = 0]
    /\ UNCHANGED <<ents, ref, cwd, file, call, path, name, cur>>

\* create() has returned a locked inode; open() keeps it if there is a file.
created(p, ok) ==
    /\ At(p, "created")
    /\ IF ok /\ call[p] = "create"
       THEN /\ file' = [file EXCEPT ![p] = obj[p]] /\ busy' = [busy EXCEPT ![obj[p]] = None]
            /\ pc' = [pc EXCEPT ![p] = "user"] /\ UNCHANGED <<drop, ret>>
       ELSE Drops(p, <<obj[p]>>, "user") /\ UNCHANGED <<file, busy>>
    /\ obj' = [obj EXCEPT ![p] = 0]
    /\ UNCHANGED <<disk, ents, ref, valid, copy, cwd, call, path, name, cur, panic>>

Step(p) ==
    \/ iput(p) \/ itrunc(p) \/ ifreed(p) \/ walkend(p) \/ walk(p)
    \/ chdir(p) \/ \E ok \in BOOLEAN : open(p, ok) \/ created(p, ok)
    \/ \E new \in Paths : link1(p, new)
    \/ link2(p) \/ linkbad(p) \/ unlink1(p) \/ unlink2(p) \/ unlink3(p)
    \/ create1(p) \/ create2(p) \/ create3(p)

\* What a step that frees a directory leaves behind: a removed directory whose
\* ".." it was, or entries that were made in it after its removal.
Orphans ==
    LET freed == {i \in Inums : disk[i].type # "0" /\ disk'[i].type = "0"}
    IN  {"child" : i \in {i \in freed : \E j \in Inums \ {i} : ents[j][".."] = i}}
        \cup {"entries" : i \in {i \in freed : ~ isdirempty(i)}}

Next ==
    /\ \E p \in Procs :
        \/ \E c \in Calls[p], pth \in Paths : syscall(p, c, pth)
        \/ close(p) \/ Step(p)
    /\ orphaned' = orphaned \cup Orphans

Spec == Init /\ [][Next]_vars

-----------------------------------------------------------------------------
(* Properties                                                              *)

\* A dinode; a link count above this one would be a link() that was not undone.
Inode == [type : {"0", "FILE", "DIR", "DEV"}, nlink : 0 .. NINODES + 2 * Cardinality(Procs)]

\* The variables have the types of fs.h and file.h, and link counts stay within
\* what entries and unfinished calls of link() account for.
TypeOK ==
    /\ disk \in [Inums -> Inode] /\ copy \in [Inums -> Inode]
    /\ ents \in [Inums -> [AllNames -> {0} \cup Inums]]
    /\ ref \in [Inums -> Nat] /\ busy \in [Inums -> Procs \cup {None}]
    /\ cwd \in [Procs -> Inums]
    /\ \A p \in Procs : {file[p], cur[p], obj[p]} \cup Range(drop[p]) \subseteq {0} \cup Inums

\* The pointers of processes to the inode i.
Pointers(i) ==
    Cardinality({p \in Procs : cwd[p] = i}) + Cardinality({p \in Procs : file[p] = i})
      + Cardinality({p \in Procs : cur[p] = i}) + Cardinality({p \in Procs : obj[p] = i})
      + Cardinality({<<p, k>> \in Procs \X (1 .. 3) : k <= Len(drop[p]) /\ drop[p][k] = i})

\* ref of an inode is the number of pointers to it: on every path through the
\* system calls, also the failing ones, what iget() gave is given back once.
RefCount == TypeOK /\ \A i \in Inums : ref[i] = Pointers(i)

\* What nlink of the inode i has to count: the entries with other names than "."
\* and "..", the ".." of each directory that such an entry names, the root
\* itself, each link() that has yet to add its entry, or to take the count back,
\* and each unlink() that has removed the entry and not yet lowered the count.
Links(i) ==
    LET named == {<<d, n>> \in Inums \X Names : ents[d][n] = i}
        subs  == {c \in Inums : ents[c][".."] = i /\ \E d \in Inums, n \in Names : ents[d][n] = c}
        calls == {p \in Procs : obj[p] = i /\ (call[p] = "link" \/ (call[p] = "unlink" /\ pc[p] # "unlink2"))}
    IN  Cardinality(named) + Cardinality(subs) + Cardinality(calls) + (IF i = Root THEN 1 ELSE 0)

\* Link counts are exact, between any two steps of link(), unlink() and create()
\* by several processes, failing ones included; except that nothing stops a
\* process in a removed directory from making entries there, and those are lost
\* when the directory is freed: then counts may be too high, never too low.
\* An inode without links is freed with its last reference: one that is in use on
\* the disk and has no links has a process that will iput() it.
LinkCount ==
    /\ "entries" \notin orphaned => \A i \in Inums : disk[i].nlink = Links(i)
    /\ \A i \in Inums : disk[i].nlink >= Links(i)
    /\ \A i \in Inums : disk[i].type # "0" /\ disk[i].nlink = 0 => ref[i] > 0

\* The inode that p waits to lock, or 0.
Wants(p) ==
    CASE pc[p] \in {"open", "chdir", "link1", "link2", "unlink", "create1"}
           \/ (pc[p] = "walk" /\ path[p] # <<>>) -> cur[p]
      [] pc[p] \in {"linkbad", "unlink2", "create2", "create3"} -> obj[p]
      [] OTHER -> 0

\* No circular wait for inode locks: unlink() and create() lock a directory
\* and then an inode in it, all others one inode at a time.
NoCircularWait ==
    \A S \in SUBSET Procs \ {{}} :
        \E p \in S : Wants(p) = 0 \/ busy[Wants(p)] \notin S

\* The only panics are those of full tables and, once a removed directory has
\* outlived its parent, that of locking the freed inode its ".." names: the
\* tests of nlink in unlink() and of I_BUSY in iput() never fail.
ExpectedPanics ==
    panic \in {"none", "iget: no inodes", "ialloc: no inodes"} \/ (panic = "ilock: no type" /\ "child" \in orphaned)

=============================================================================
