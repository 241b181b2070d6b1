----------------------------- MODULE PipeProofs -----------------------------
(***************************************************************************)
(* The safety of Pipe, and that it implements AbsPipe, for any number of   *)
(* processes, any size of the ring and any width of the counters.          *)
(***************************************************************************)
EXTENDS Pipe, RingLemmas

\* A leaf is tried with Zenon first, briefly: most need no arithmetic.
USE ZenonT(2), SMTT(20), ZenonT(20)

-----------------------------------------------------------------------------
(* The ring                                                                *)

LEMMA PlusIndex ==
    ASSUME NEW a \in 0 .. UINT - 1, NEW b \in 0 .. UINT - 1
    PROVE  /\ plus(a, b) \in 0 .. UINT - 1
           /\ plus(a, b) % PIPESIZE = (a + b) % PIPESIZE
<1>1. PIPESIZE \in Nat \ {0} /\ UINT \in Nat \ {0} /\ UINT % PIPESIZE = 0
  BY ConstAssumption
<1>2. plus(a, b) = Add(UINT, a, b)
  BY DEF plus, Add
<1>3. Add(UINT, a, b) \in 0 .. UINT - 1
  BY <1>1, AddType
<1>4. Cell(PIPESIZE, Add(UINT, a, b)) = Cell(PIPESIZE, a + b)
  BY <1>1, AddCell
<1> QED
  BY <1>2, <1>3, <1>4 DEF Cell

\* The number of bytes between two values of the counters.
LEMMA Between ==
    ASSUME NEW x \in 0 .. UINT - 1, NEW y \in 0 .. UINT - 1, NEW c \in 0 .. UINT - 1
    PROVE  /\ (UINT + y - x) % UINT \in 0 .. UINT - 1
           /\ (UINT + y - x) % UINT = c <=> y = plus(x, c)
<1>1. UINT \in Nat \ {0} /\ UINT + y - x = y + UINT - x
  BY ConstAssumption
<1>2. (UINT + y - x) % UINT = Gap(UINT, x, y)
  BY <1>1 DEF Gap
<1>3. plus(x, c) = Add(UINT, x, c)
  BY DEF plus, Add
<1>4. Gap(UINT, x, y) \in 0 .. UINT - 1
  BY <1>1, GapIs
<1>5. Gap(UINT, x, y) = c <=> y = Add(UINT, x, c)
  BY <1>1, GapAdd
<1> QED
  BY <1>2, <1>3, <1>4, <1>5

LEMMA PlusPlus ==
    ASSUME NEW a \in 0 .. UINT - 1, NEW b \in 0 .. UINT - 1, NEW c \in 0 .. UINT - 1,
           b + c < UINT
    PROVE  plus(plus(a, b), c) = plus(a, b + c)
<1>1. UINT \in Nat \ {0}
  BY ConstAssumption
<1>2. Add(UINT, Add(UINT, a, b), c) = Add(UINT, a, b + c)
  BY <1>1, AddTwice
<1> QED
  BY <1>2 DEF plus, Add

LEMMA PlusZero ==
    ASSUME NEW a \in 0 .. UINT - 1
    PROVE  plus(a, 0) = a
  BY ConstAssumption, SmallRemainder DEF plus

\* What the counters say of the ring: how the tests of pipewrite and piperead for
\* a full and for an empty ring follow from the number of bytes in it.
Ring ==
    /\ count \in 0 .. PIPESIZE
    /\ nwrite = plus(nread, count)
    /\ full <=> count = PIPESIZE
    /\ nread = nwrite <=> count = 0
    /\ room = PIPESIZE - count

LEMMA Counts == TypeOK => Ring
<1> SUFFICES ASSUME TypeOK PROVE Ring
  OBVIOUS
<1>0. /\ PIPESIZE \in Nat \ {0} /\ UINT \in Nat \ {0} /\ PIPESIZE < UINT
      /\ nread \in 0 .. UINT - 1 /\ nwrite \in 0 .. UINT - 1 /\ count <= PIPESIZE
  BY ConstAssumption DEF TypeOK
<1>1. count \in 0 .. UINT - 1
  BY <1>0, Between DEF count
<1>2. \A c \in 0 .. UINT - 1 : count = c <=> nwrite = plus(nread, c)
  BY <1>0, Between DEF count
<1>3. nwrite = plus(nread, count)
  BY <1>1, <1>2
<1>4. full <=> count = PIPESIZE
  BY <1>0, <1>2 DEF full
<1>5. nread = nwrite <=> count = 0
  BY <1>0, <1>2, PlusZero
<1>6. count \in 0 .. PIPESIZE
  BY <1>0, <1>1
<1> QED
  BY <1>0, <1>3, <1>4, <1>5, <1>6 DEF Ring, room

\* The ring after k bytes went in, and after k came out.
LEMMA CountIn ==
    ASSUME TypeOK, NEW k \in 0 .. PIPESIZE - count,
           nwrite' = plus(nwrite, k), nread' = nread
    PROVE  nwrite' \in 0 .. UINT - 1 /\ count' = count + k
<1>0. /\ PIPESIZE \in Nat \ {0} /\ UINT \in Nat \ {0} /\ PIPESIZE < UINT
      /\ nread \in 0 .. UINT - 1 /\ nwrite \in 0 .. UINT - 1
  BY ConstAssumption DEF TypeOK
<1>1. count \in 0 .. PIPESIZE /\ nwrite = plus(nread, count)
  BY Counts DEF Ring
<1>2. PICK c \in 0 .. PIPESIZE : c = count
  BY <1>1
<1>3. k \in 0 .. UINT - 1 /\ c \in 0 .. UINT - 1 /\ c + k \in 0 .. UINT - 1 /\ c + k < UINT
  BY <1>0, <1>2
<1>4. nwrite' = plus(nread, c + k)
  BY <1>0, <1>1, <1>2, <1>3, PlusPlus
<1>5. nwrite' \in 0 .. UINT - 1
  BY <1>0, <1>3, <1>4, PlusIndex
<1>6. (UINT + nwrite' - nread') % UINT = c + k
  BY <1>0, <1>3, <1>4, <1>5, Between
<1> QED
  BY <1>2, <1>5, <1>6 DEF count

LEMMA CountOut ==
    ASSUME TypeOK, NEW k \in 0 .. count,
           nread' = plus(nread, k), nwrite' = nwrite
    PROVE  nread' \in 0 .. UINT - 1 /\ count' = count - k
<1>0. /\ PIPESIZE \in Nat \ {0} /\ UINT \in Nat \ {0} /\ PIPESIZE < UINT
      /\ nread \in 0 .. UINT - 1 /\ nwrite \in 0 .. UINT - 1
  BY ConstAssumption DEF TypeOK
<1>1. count \in 0 .. PIPESIZE /\ nwrite = plus(nread, count)
  BY Counts DEF Ring
<1>2. PICK c \in 0 .. PIPESIZE : c = count
  BY <1>1
<1>3. k \in 0 .. UINT - 1 /\ c - k \in 0 .. UINT - 1 /\ k + (c - k) = c /\ c < UINT
  BY <1>0, <1>2
<1>4. plus(nread', c - k) = plus(nread, k + (c - k))
  BY <1>0, <1>2, <1>3, PlusPlus
<1>5. nread' \in 0 .. UINT - 1
  BY <1>0, <1>3, PlusIndex
<1>6. nwrite' = plus(nread', c - k)
  BY <1>1, <1>2, <1>3, <1>4
<1>7. (UINT + nwrite' - nread') % UINT = c - k
  <2>1. PICK d \in 0 .. UINT - 1 : d = c - k
    BY <1>3
  <2>2. nwrite' = plus(nread', d)
    BY <1>6, <2>1
  <2>3. nwrite' \in 0 .. UINT - 1
    BY <1>0
  <2>4. (UINT + nwrite' - nread') % UINT = d
    BY <1>5, <2>2, <2>3, Between
  <2> QED
    BY <2>1, <2>4
<1> QED
  BY <1>2, <1>5, <1>7 DEF count

-----------------------------------------------------------------------------
(* What write() is given                                                   *)

LEMMA StringSeq ==
    ASSUME NEW s \in Strings \cup {<<>>}
    PROVE  s \in Seq(Bytes) /\ Len(s) \in 0 .. MaxWrite /\ (s # <<>> <=> Len(s) > 0)
<1>0. MaxWrite \in Nat
  BY ConstAssumption
<1>1. CASE s = <<>>
  BY <1>0, <1>1
<1>2. CASE s \in Strings
  <2>1. PICK n \in 1 .. MaxWrite : s \in [1 .. n -> Bytes]
    BY <1>2 DEF Strings
  <2>2. s \in Seq(Bytes) /\ Len(s) = n
    BY <1>0, <2>1
  <2> QED
    BY <1>0, <2>1, <2>2
<1> QED
  BY <1>1, <1>2

LEMMA SeqString ==
    ASSUME NEW s \in Seq(Bytes), Len(s) <= MaxWrite
    PROVE  s \in Strings \cup {<<>>}
<1>1. s \in [1 .. Len(s) -> Bytes] /\ Len(s) \in Nat
  OBVIOUS
<1>2. CASE Len(s) = 0
  BY <1>2
<1>3. CASE Len(s) > 0
  <2>1. Len(s) \in 1 .. MaxWrite
    BY <1>1, <1>3, ConstAssumption
  <2> QED
    BY <1>1, <2>1 DEF Strings
<1> QED
  BY <1>1, <1>2, <1>3

\* What is left of a string after its first k bytes.
LEMMA Rest ==
    ASSUME NEW s \in Strings \cup {<<>>}, NEW k \in 0 .. Len(s)
    PROVE  /\ SubSeq(s, k + 1, Len(s)) \in Strings \cup {<<>>}
           /\ SubSeq(s, k + 1, Len(s)) # <<>> <=> k < Len(s)
<1>1. s \in Seq(Bytes) /\ Len(s) \in 0 .. MaxWrite
  BY StringSeq
<1>2. SubSeq(s, k + 1, Len(s)) \in Seq(Bytes) /\ Len(SubSeq(s, k + 1, Len(s))) = Len(s) - k
  BY <1>1
<1>3. PICK t \in Seq(Bytes) : t = SubSeq(s, k + 1, Len(s)) /\ Len(t) = Len(s) - k
  BY <1>2
<1>4. Len(t) <= MaxWrite
  BY <1>1, <1>3, ConstAssumption
<1>5. t \in Strings \cup {<<>>}
  BY <1>4, SeqString
<1>6. t # <<>> <=> Len(t) > 0
  BY <1>5, StringSeq
<1> QED
  BY <1>1, <1>3, <1>5, <1>6

-----------------------------------------------------------------------------
(* The inductive invariant                                                 *)

Writing(p) == pc[p] = "write" \/ chan[p] = "nwrite"
Reading(p) == pc[p] = "read" \/ chan[p] = "nread"
Asleep(p) == pc[p] \in {"gosleep", "sleep"}

\* An end is open as long as some process has it.
Ends ==
    /\ readopen <=> \E p \in Procs : "r" \in fds[p]
    /\ writeopen <=> \E p \in Procs : "w" \in fds[p]

\* A process in a call keeps the end that it uses.
Calls ==
    \A p \in Procs :
        /\ chan[p] = None <=> pc[p] \in {"user", "write", "read"}
        /\ Writing(p) => "w" \in fds[p]
        /\ todo[p] # <<>> <=> Writing(p)
        /\ Reading(p) => "r" \in fds[p] /\ want[p] > 0

\* SleepersWoken, of the processes on the way into sleep() too.
Sleepers ==
    /\ \A p \in Procs : Asleep(p) /\ chan[p] = "nwrite" => full /\ readopen
    /\ killed = {} => \A p \in Procs : Asleep(p) /\ chan[p] = "nread" => blocks

IInv == TypeOK /\ Ends /\ Calls /\ Sleepers

LEMMA InitInv == Init => IInv
<1> SUFFICES ASSUME Init PROVE IInv
  OBVIOUS
<1>0. /\ PIPESIZE \in Nat \ {0} /\ UINT \in Nat \ {0} /\ PIPESIZE < UINT
      /\ MaxRead \in Nat /\ Bytes # {} /\ None \notin Procs \cup {"nread", "nwrite"}
  BY ConstAssumption
<1>1. count = 0
  BY <1>0, Between, PlusZero DEF Init, count
<1>2. TypeOK
  BY <1>0, <1>1 DEF Init, TypeOK, junk
<1>3. Ends /\ Calls /\ Sleepers
  BY <1>0 DEF Init, Ends, Calls, Sleepers, Writing, Reading, Asleep
<1> QED
  BY <1>2, <1>3 DEF IInv

\* The steps that leave the pipe and the positions of the processes alone.
LEMMA ForkStep ==
    ASSUME IInv, NEW p \in Procs, NEW q \in Procs \ {p}, fork(p, q)
    PROVE  IInv'
<1>0. TypeOK /\ Ends /\ Calls /\ Sleepers
  BY DEF IInv
<1>a. /\ fds[p] # {} /\ fds[q] = {} /\ pc[q] = "user" /\ fds' = [fds EXCEPT ![q] = fds[p]]
      /\ UNCHANGED <<pipe, lock, pc, chan, todo, want, got, killed>>
  BY DEF fork
<1>1. TypeOK'
  BY <1>0, <1>a DEF TypeOK, count, pipe
<1>2. \A x \in Procs : fds[x] \subseteq fds'[x] /\ (x # q => fds'[x] = fds[x])
  BY <1>0, <1>a DEF TypeOK
<1>3. fds'[q] = fds[p]
  BY <1>0, <1>a DEF TypeOK
<1>4. Ends'
  BY <1>0, <1>a, <1>2, <1>3 DEF Ends, pipe
<1>5. Calls'
  BY <1>0, <1>a, <1>2 DEF Calls, Writing, Reading
<1>6. Sleepers'
  BY <1>0, <1>a DEF Sleepers, Asleep, full, blocks, pipe
<1> QED
  BY <1>1, <1>4, <1>5, <1>6 DEF IInv

\* kalloc() and the counters at 0: nobody is in a call, since nobody has an end.
LEMMA AllocStep ==
    ASSUME IInv, NEW p \in Procs, pipealloc(p)
    PROVE  IInv'
<1>0. TypeOK /\ Ends /\ Calls /\ Sleepers
  BY DEF IInv
<1>a. /\ \A x \in Procs : fds[x] = {}
      /\ nread' = 0 /\ nwrite' = 0 /\ readopen' = TRUE /\ writeopen' = TRUE
      /\ fds' = [fds EXCEPT ![p] = {"r", "w"}] /\ data' = junk
      /\ UNCHANGED <<lock, pc, chan, todo, want, got, killed>>
  BY DEF pipealloc
<1>b. UINT \in Nat \ {0} /\ PIPESIZE \in Nat \ {0} /\ Bytes # {}
  BY ConstAssumption
<1>1. count' = 0
  BY <1>a, <1>b, Between, PlusZero DEF count
<1>2. TypeOK'
  BY <1>0, <1>a, <1>b, <1>1 DEF TypeOK, junk
<1>3. Ends'
  BY <1>0, <1>a DEF Ends, TypeOK
<1>4. \A x \in Procs : ~ Writing(x) /\ ~ Reading(x)
  BY <1>0, <1>a DEF Calls
<1>5. Calls'
  BY <1>0, <1>a, <1>4 DEF Calls, Writing, Reading
<1>6. Sleepers'
  BY <1>a, <1>4 DEF Sleepers, Writing, Reading
<1> QED
  BY <1>2, <1>3, <1>5, <1>6 DEF IInv

LEMMA WriteStep ==
    ASSUME IInv, NEW p \in Procs, NEW s \in Strings, write(p, s)
    PROVE  IInv'
<1>0. TypeOK /\ Ends /\ Calls /\ Sleepers
  BY DEF IInv
<1>a. /\ pc[p] = "user" /\ "w" \in fds[p]
      /\ todo' = [todo EXCEPT ![p] = s] /\ pc' = [pc EXCEPT ![p] = "write"]
      /\ UNCHANGED <<pipe, lock, fds, chan, want, got, killed>>
  BY DEF write
<1>b. s # <<>>
  BY StringSeq, ConstAssumption DEF Strings
<1>1. TypeOK'
  BY <1>0, <1>a DEF TypeOK, count, pipe
<1>2. Ends'
  BY <1>0, <1>a DEF Ends, pipe
<1>3. Calls'
  BY <1>0, <1>a, <1>b DEF Calls, Writing, Reading, TypeOK
<1>4. Sleepers'
  BY <1>0, <1>a DEF Sleepers, Asleep, full, blocks, pipe, TypeOK
<1> QED
  BY <1>1, <1>2, <1>3, <1>4 DEF IInv

LEMMA ReadStep ==
    ASSUME IInv, NEW p \in Procs, NEW n \in 1 .. MaxRead, read(p, n)
    PROVE  IInv'
<1>0. TypeOK /\ Ends /\ Calls /\ Sleepers
  BY DEF IInv
<1>a. /\ pc[p] = "user" /\ "r" \in fds[p]
      /\ want' = [want EXCEPT ![p] = n] /\ pc' = [pc EXCEPT ![p] = "read"]
      /\ UNCHANGED <<pipe, lock, fds, chan, todo, got, killed>>
  BY DEF read
<1>b. MaxRead \in Nat
  BY ConstAssumption
<1>1. TypeOK'
  BY <1>0, <1>a, <1>b DEF TypeOK, count, pipe
<1>2. Ends'
  BY <1>0, <1>a DEF Ends, pipe
<1>3. Calls'
  BY <1>0, <1>a, <1>b DEF Calls, Writing, Reading, TypeOK
<1>4. Sleepers'
  BY <1>0, <1>a DEF Sleepers, Asleep, full, blocks, pipe, TypeOK
<1> QED
  BY <1>1, <1>2, <1>3, <1>4 DEF IInv

LEMMA SleepStep ==
    ASSUME IInv, NEW p \in Procs, sleep(p)
    PROVE  IInv'
<1>0. TypeOK /\ Ends /\ Calls /\ Sleepers
  BY DEF IInv
<1>a. /\ pc[p] = "gosleep" /\ pc' = [pc EXCEPT ![p] = "sleep"] /\ lock' = None
      /\ UNCHANGED <<pipe, fds, chan, todo, want, got, killed>>
  BY DEF sleep
<1>b. None \notin Procs
  BY ConstAssumption
<1>1. TypeOK'
  BY <1>0, <1>a, <1>b DEF TypeOK, count, pipe
<1>2. Ends'
  BY <1>0, <1>a DEF Ends, pipe
<1>3. Calls'
  BY <1>0, <1>a DEF Calls, Writing, Reading, TypeOK
<1>4. Sleepers'
  BY <1>0, <1>a DEF Sleepers, Asleep, full, blocks, pipe, TypeOK
<1> QED
  BY <1>1, <1>2, <1>3, <1>4 DEF IInv

LEMMA KillStep ==
    ASSUME IInv, NEW p \in Procs, kill(p)
    PROVE  IInv'
<1>0. TypeOK /\ Ends /\ Calls /\ Sleepers
  BY DEF IInv
<1>a. /\ killed' = killed \cup {p}
      /\ pc' = [pc EXCEPT ![p] = IF pc[p] = "sleep" THEN "woken" ELSE pc[p]]
      /\ UNCHANGED <<pipe, lock, fds, chan, todo, want, got>>
  BY DEF kill
<1>1. TypeOK'
  BY <1>0, <1>a DEF TypeOK, count, pipe
<1>2. Ends'
  BY <1>0, <1>a DEF Ends, pipe
<1>3. Calls'
  BY <1>0, <1>a DEF Calls, Writing, Reading, TypeOK
<1>4. Sleepers'
  BY <1>0, <1>a DEF Sleepers, Asleep, full, blocks, pipe, TypeOK
<1> QED
  BY <1>1, <1>2, <1>3, <1>4 DEF IInv

\* The last process to close an end wakes those who sleep for what that end
\* brings; nobody is on the way into sleep(), which would hold p->lock.
LEMMA CloseStep ==
    ASSUME IInv, NEW p \in Procs, NEW e \in {"r", "w"}, fileclose(p, e)
    PROVE  IInv'
<1>0. TypeOK /\ Ends /\ Calls /\ Sleepers
  BY DEF IInv
<1>a. /\ pc[p] = "user" /\ e \in fds[p] /\ fds' = [fds EXCEPT ![p] = fds[p] \ {e}]
      /\ UNCHANGED <<data, nread, nwrite, lock, chan, todo, want, got, killed>>
  BY DEF fileclose
<1>b. count' = count /\ (full' <=> full)
  BY <1>a DEF count, full
<1>1. \A x \in Procs : fds'[x] = IF x = p THEN fds[p] \ {e} ELSE fds[x]
  BY <1>0, <1>a DEF TypeOK
<1>2. ~ Writing(p) /\ ~ Reading(p)
  BY <1>0, <1>a, ConstAssumption DEF Calls, Writing, Reading
<1>3. CASE \E q \in Procs \ {p} : e \in fds[q]
  <2>1. UNCHANGED <<readopen, writeopen, pc>>
    BY <1>3 DEF fileclose
  <2>2. TypeOK'
    BY <1>0, <1>a, <1>b, <2>1 DEF TypeOK
  <2>3. Ends'
    BY <1>0, <1>1, <1>3, <2>1 DEF Ends
  <2>4. Calls'
    BY <1>0, <1>a, <1>1, <1>2, <2>1 DEF Calls, Writing, Reading
  <2>5. Sleepers'
    BY <1>0, <1>a, <1>b, <2>1 DEF Sleepers, Asleep, blocks
  <2> QED
    BY <2>2, <2>3, <2>4, <2>5 DEF IInv
<1>4. CASE ~ \E q \in Procs \ {p} : e \in fds[q]
  <2> DEFINE c == IF e = "w" THEN "nread" ELSE "nwrite"
  <2>1. lock = None /\ pc' = wakeup(c, pc)
    BY <1>4 DEF fileclose, pipeclose
  <2>2. readopen' = (readopen /\ e = "w") /\ writeopen' = (writeopen /\ e = "r")
    BY <1>4 DEF fileclose, pipeclose
  <2>3. readopen' \in BOOLEAN /\ writeopen' \in BOOLEAN
    BY <2>2
  <2>4. \A x \in Procs :
            pc'[x] = IF pc[x] = "sleep" /\ chan[x] = c THEN "woken" ELSE pc[x]
    BY <2>1 DEF wakeup
  <2>5. pc' \in [Procs -> {"user", "write", "read", "gosleep", "sleep", "woken"}]
    BY <1>0, <2>1 DEF wakeup, TypeOK
  <2>6. \A x \in Procs : pc[x] # "gosleep"
    BY <1>0, <2>1, ConstAssumption DEF TypeOK
  <2>7. TypeOK'
    <3>1. \A x \in Procs : pc'[x] # "gosleep" /\ lock' # x
      BY <1>a, <2>1, <2>4, <2>6, ConstAssumption
    <3> QED
      BY <1>0, <1>a, <1>b, <2>3, <2>5, <3>1 DEF TypeOK
  <2>8. Ends'
    BY <1>0, <1>1, <1>4, <2>2 DEF Ends
  <2>9. Calls'
    BY <1>0, <1>a, <1>1, <1>2, <2>4, ConstAssumption DEF Calls, Writing, Reading
  <2>10. Sleepers'
    <3>1. CASE e = "r"
      <4>1. writeopen' <=> writeopen
        BY <2>2, <3>1
      <4>2. \A x \in Procs : Asleep(x)' => Asleep(x) /\ chan[x] # "nwrite"
        BY <2>4, <2>6, <3>1 DEF Asleep
      <4> QED
        BY <1>0, <1>a, <4>1, <4>2 DEF Sleepers, blocks
    <3>2. CASE e = "w"
      <4>1. readopen' <=> readopen
        BY <2>2, <3>2
      <4>2. \A x \in Procs : Asleep(x)' => Asleep(x) /\ chan[x] # "nread"
        BY <2>4, <2>6, <3>2 DEF Asleep
      <4> QED
        BY <1>0, <1>a, <1>b, <4>1, <4>2 DEF Sleepers
    <3> QED
      BY <3>1, <3>2
  <2> QED
    BY <2>7, <2>8, <2>9, <2>10 DEF IInv
<1> QED
  BY <1>3, <1>4

-----------------------------------------------------------------------------
(* pipewrite                                                               *)

\* The bytes that fit, what is left of the string, and whether the call ends with
\* some left.
Fits(p) == IF Len(todo[p]) < room THEN Len(todo[p]) ELSE room
Left(p) == SubSeq(todo[p], Fits(p) + 1, Len(todo[p]))
Cut(p) == Left(p) # <<>> /\ (~ readopen \/ p \in killed)

LEMMA CountsNext == TypeOK' => Ring'
  BY Counts, PTL

\* What pipewrite does to the pipe: bytes are left only when the ring is full.
LEMMA WriteCall ==
    ASSUME IInv, NEW p \in Procs, pipewrite(p)
    PROVE  /\ lock = None /\ Writing(p) /\ chan[p] # "nread" /\ pc[p] # "sleep"
           /\ Fits(p) \in 0 .. PIPESIZE - count /\ Fits(p) \in 0 .. Len(todo[p])
           /\ Left(p) \in Strings \cup {<<>>}
           /\ Left(p) # <<>> => Fits(p) = PIPESIZE - count
           /\ Left(p) = <<>> => Fits(p) = Len(todo[p])
           /\ data' = copyin(todo[p], Fits(p))
           /\ nwrite' \in 0 .. UINT - 1 /\ count' = count + Fits(p)
           /\ todo' = [todo EXCEPT ![p] = IF Cut(p) THEN <<>> ELSE Left(p)]
           /\ UNCHANGED <<nread, readopen, writeopen, fds, want, got, killed>>
<1>0. TypeOK /\ Calls /\ Ring
  BY Counts DEF IInv
<1>1. lock = None /\ Writing(p) /\ chan[p] # "nread" /\ pc[p] # "sleep"
  BY <1>0, ConstAssumption DEF pipewrite, Calls, Writing
<1>2. todo[p] \in Strings \cup {<<>>} /\ Len(todo[p]) \in 0 .. MaxWrite
  BY <1>0, StringSeq DEF TypeOK
<1>3. room \in Nat /\ room = PIPESIZE - count /\ MaxWrite \in Nat
  BY <1>0, ConstAssumption DEF Ring
<1>4. Fits(p) \in 0 .. PIPESIZE - count /\ Fits(p) \in 0 .. Len(todo[p])
  BY <1>2, <1>3 DEF Fits
<1>5. Left(p) \in Strings \cup {<<>>} /\ (Left(p) # <<>> <=> Fits(p) < Len(todo[p]))
  BY <1>2, <1>4, Rest DEF Left
<1>6. /\ Left(p) # <<>> => Fits(p) = PIPESIZE - count
      /\ Left(p) = <<>> => Fits(p) = Len(todo[p])
  BY <1>2, <1>3, <1>4, <1>5 DEF Fits
<1>7. /\ data' = copyin(todo[p], Fits(p)) /\ nwrite' = plus(nwrite, Fits(p))
      /\ todo' = [todo EXCEPT ![p] = IF Cut(p) THEN <<>> ELSE Left(p)]
      /\ UNCHANGED <<nread, readopen, writeopen, fds, want, got, killed>>
  BY DEF pipewrite, Fits, Left, Cut
<1>8. nwrite' \in 0 .. UINT - 1 /\ count' = count + Fits(p)
  BY <1>0, <1>4, <1>7, CountIn
<1> QED
  BY <1>1, <1>4, <1>5, <1>6, <1>7, <1>8

\* Where pipewrite leaves the processes: it wakes the readers unless it is cut
\* short.
LEMMA WriteWakes ==
    ASSUME IInv, NEW p \in Procs, pipewrite(p)
    PROVE  /\ pc' \in [Procs -> {"user", "write", "read", "gosleep", "sleep", "woken"}]
           /\ \A x \in Procs \ {p} :
                /\ chan'[x] = chan[x]
                /\ pc'[x] = IF pc[x] = "sleep" /\ chan[x] = "nread" /\ ~ Cut(p)
                            THEN "woken" ELSE pc[x]
           /\ IF Left(p) # <<>> /\ ~ Cut(p)
              THEN pc'[p] = "gosleep" /\ chan'[p] = "nwrite" /\ lock' = p
              ELSE pc'[p] = "user" /\ chan'[p] = None /\ lock' = lock
           /\ chan' \in [Procs -> {"nread", "nwrite", None}]
<1>0. /\ pc \in [Procs -> {"user", "write", "read", "gosleep", "sleep", "woken"}]
      /\ chan \in [Procs -> {"nread", "nwrite", None}]
  BY DEF IInv, TypeOK
<1>1. chan' = [chan EXCEPT ![p] = IF Left(p) # <<>> /\ ~ Cut(p) THEN "nwrite" ELSE None]
  BY DEF pipewrite, Fits, Left, Cut
<1>2. CASE Left(p) = <<>>
  <2>1. pc' = wakeup("nread", [pc EXCEPT ![p] = "user"]) /\ lock' = lock
    BY <1>2 DEF pipewrite, Fits, Left
  <2>2. ~ Cut(p)
    BY <1>2 DEF Cut
  <2> QED
    BY <1>0, <1>1, <1>2, <2>1, <2>2 DEF wakeup
<1>3. CASE Cut(p)
  <2>1. pc' = [pc EXCEPT ![p] = "user"] /\ lock' = lock
    BY <1>3 DEF pipewrite, Fits, Left, Cut
  <2> QED
    BY <1>0, <1>1, <1>3, <2>1
<1>4. CASE Left(p) # <<>> /\ ~ Cut(p)
  <2>1. pc' = wakeup("nread", [pc EXCEPT ![p] = "gosleep"]) /\ lock' = p
    BY <1>4 DEF pipewrite, Fits, Left, Cut
  <2> QED
    BY <1>0, <1>1, <1>4, <2>1 DEF wakeup
<1> QED
  BY <1>2, <1>3, <1>4

LEMMA CopyType ==
    ASSUME TypeOK, NEW s \in Seq(Bytes), NEW k \in 0 .. Len(s)
    PROVE  copyin(s, k) \in [0 .. PIPESIZE - 1 -> Bytes]
<1> SUFFICES ASSUME NEW i \in 0 .. PIPESIZE - 1
             PROVE  copyin(s, k)[i] \in Bytes
  BY DEF copyin
<1>0. PIPESIZE \in Nat \ {0} /\ nwrite \in Nat /\ data[i] \in Bytes
  BY ConstAssumption DEF TypeOK
<1>1. PICK r \in 0 .. PIPESIZE - 1 : r = nwrite % PIPESIZE
  BY <1>0
<1>2. PICK a \in Nat : a = PIPESIZE + i - r
  BY <1>0
<1>3. a % PIPESIZE \in 0 .. PIPESIZE - 1
  BY <1>0
<1>4. a % PIPESIZE < k => s[(a % PIPESIZE) + 1] \in Bytes
  BY <1>0, <1>3
<1>5. copyin(s, k)[i] = IF a % PIPESIZE < k THEN s[(a % PIPESIZE) + 1] ELSE data[i]
  BY <1>1, <1>2 DEF copyin
<1> QED
  BY <1>0, <1>4, <1>5

LEMMA PipewriteStep ==
    ASSUME IInv, NEW p \in Procs, pipewrite(p)
    PROVE  IInv'
<1>0. TypeOK /\ Ends /\ Calls /\ Sleepers /\ Ring
  BY Counts DEF IInv
<1>c. PIPESIZE \in Nat \ {0} /\ UINT \in Nat \ {0} /\ None \notin Procs \cup {"nread", "nwrite"}
  BY ConstAssumption
<1>a. /\ lock = None /\ Writing(p)
      /\ Fits(p) \in 0 .. PIPESIZE - count /\ Fits(p) \in 0 .. Len(todo[p])
      /\ Left(p) \in Strings \cup {<<>>}
      /\ Left(p) # <<>> => Fits(p) = PIPESIZE - count
      /\ data' = copyin(todo[p], Fits(p))
      /\ nwrite' \in 0 .. UINT - 1 /\ count' = count + Fits(p)
      /\ todo' = [todo EXCEPT ![p] = IF Cut(p) THEN <<>> ELSE Left(p)]
      /\ UNCHANGED <<nread, readopen, writeopen, fds, want, got, killed>>
  BY WriteCall
<1>b. /\ pc' \in [Procs -> {"user", "write", "read", "gosleep", "sleep", "woken"}]
      /\ \A x \in Procs \ {p} :
           /\ chan'[x] = chan[x]
           /\ pc'[x] = IF pc[x] = "sleep" /\ chan[x] = "nread" /\ ~ Cut(p)
                       THEN "woken" ELSE pc[x]
      /\ IF Left(p) # <<>> /\ ~ Cut(p)
         THEN pc'[p] = "gosleep" /\ chan'[p] = "nwrite" /\ lock' = p
         ELSE pc'[p] = "user" /\ chan'[p] = None /\ lock' = lock
      /\ chan' \in [Procs -> {"nread", "nwrite", None}]
  BY WriteWakes
<1>d. \A x \in Procs : pc[x] # "gosleep"
  BY <1>0, <1>a, <1>c DEF TypeOK
<1>e. \A x \in Procs : todo'[x] = IF x = p THEN (IF Cut(p) THEN <<>> ELSE Left(p)) ELSE todo[x]
  BY <1>0, <1>a DEF TypeOK
<1>1. TypeOK'
  <2>1. data' \in [0 .. PIPESIZE - 1 -> Bytes]
    BY <1>0, <1>a, StringSeq, CopyType DEF TypeOK
  <2>2. count' <= PIPESIZE
    BY <1>0, <1>a, <1>c DEF Ring
  <2>3. todo' \in [Procs -> Strings \cup {<<>>}]
    BY <1>0, <1>a DEF TypeOK
  <2>4. lock' \in Procs \cup {None} /\ \A x \in Procs : pc'[x] = "gosleep" <=> lock' = x
    <3>1. CASE Left(p) # <<>> /\ ~ Cut(p)
      BY <1>b, <1>d, <3>1
    <3>2. CASE ~ (Left(p) # <<>> /\ ~ Cut(p))
      BY <1>a, <1>b, <1>c, <1>d, <3>2
    <3> QED
      BY <3>1, <3>2
  <2> QED
    BY <1>0, <1>a, <1>b, <2>1, <2>2, <2>3, <2>4 DEF TypeOK
<1>2. Ends'
  BY <1>0, <1>a DEF Ends
<1>3. Calls'
  <2>1. \A x \in Procs \ {p} :
          /\ chan'[x] = None <=> pc'[x] \in {"user", "write", "read"}
          /\ Writing(x)' <=> Writing(x)
          /\ Reading(x)' <=> Reading(x)
    BY <1>0, <1>b, <1>c DEF Calls, Writing, Reading
  <2>2. ASSUME NEW x \in Procs \ {p}
        PROVE  /\ Writing(x)' => "w" \in fds'[x]
               /\ todo'[x] # <<>> <=> Writing(x)'
               /\ Reading(x)' => "r" \in fds'[x] /\ want'[x] > 0
    BY <1>0, <1>a, <1>e, <2>1 DEF Calls
  <2>3. "w" \in fds'[p]
    BY <1>0, <1>a DEF Calls
  <2>4. CASE Left(p) # <<>> /\ ~ Cut(p)
    <3>1. pc'[p] = "gosleep" /\ chan'[p] = "nwrite" /\ todo'[p] # <<>>
      BY <1>b, <1>e, <2>4
    <3> QED
      BY <1>c, <2>1, <2>2, <2>3, <3>1 DEF Calls, Writing, Reading
  <2>5. CASE ~ (Left(p) # <<>> /\ ~ Cut(p))
    <3>1. pc'[p] = "user" /\ chan'[p] = None /\ todo'[p] = <<>>
      BY <1>b, <1>e, <2>5
    <3> QED
      BY <1>c, <2>1, <2>2, <3>1 DEF Calls, Writing, Reading
  <2> QED
    BY <2>4, <2>5
<1>4. Sleepers'
  <2>1. Ring'
    BY <1>1, CountsNext
  <2>2. ASSUME NEW x \in Procs, Asleep(x)', chan'[x] = "nwrite"
        PROVE  full' /\ readopen'
    <3>1. CASE x = p
      <4>1. Left(p) # <<>> /\ ~ Cut(p)
        BY <1>b, <1>c, <2>2, <3>1
      <4>2. count' = PIPESIZE /\ readopen
        BY <1>0, <1>a, <1>c, <4>1 DEF Cut, Ring
      <4> QED
        BY <1>a, <2>1, <4>2 DEF Ring
    <3>2. CASE x # p
      <4>1. full /\ readopen
        BY <1>0, <1>b, <2>2, <3>2 DEF Sleepers, Asleep
      <4>2. count' = PIPESIZE
        BY <1>0, <1>a, <1>c, <4>1 DEF Ring
      <4> QED
        BY <1>a, <2>1, <4>1, <4>2 DEF Ring
    <3> QED
      BY <3>1, <3>2
  <2>3. ASSUME killed' = {}, NEW x \in Procs, Asleep(x)', chan'[x] = "nread"
        PROVE  FALSE
    <3>1. x # p
      BY <1>b, <1>c, <2>3
    <3>2. Cut(p) /\ Reading(x)
      BY <1>b, <1>d, <2>3, <3>1 DEF Asleep, Reading
    <3>3. readopen
      BY <1>0, <3>2 DEF Calls, Ends
    <3> QED
      BY <1>a, <2>3, <3>2, <3>3 DEF Cut
  <2> QED
    BY <2>2, <2>3 DEF Sleepers
<1> QED
  BY <1>1, <1>2, <1>3, <1>4 DEF IInv

-----------------------------------------------------------------------------
(* piperead                                                                *)

\* The bytes that piperead copies out.
Gets(p) == IF want[p] < count THEN want[p] ELSE count

\* A read that does not block takes what it can and wakes the writers.
LEMMA ReadCall ==
    ASSUME IInv, NEW p \in Procs, piperead(p)
    PROVE  /\ lock = None /\ Reading(p) /\ chan[p] # "nwrite" /\ pc[p] # "sleep"
           /\ pc[p] # "write" /\ want[p] \in 1 .. MaxRead /\ Gets(p) \in 0 .. count
           /\ UNCHANGED <<data, nwrite, readopen, writeopen, fds, todo, killed>>
<1>0. TypeOK /\ Calls /\ Ring
  BY Counts DEF IInv
<1>1. lock = None /\ Reading(p) /\ chan[p] # "nwrite" /\ pc[p] # "sleep" /\ pc[p] # "write"
  BY <1>0, ConstAssumption DEF piperead, Calls, Reading
<1>2. want[p] \in 1 .. MaxRead
  BY <1>0, <1>1, ConstAssumption DEF TypeOK, Calls
<1>3. Gets(p) \in 0 .. count
  BY <1>0, <1>2, ConstAssumption DEF Ring, Gets
<1> QED
  BY <1>1, <1>2, <1>3 DEF piperead

LEMMA PipereadStep ==
    ASSUME IInv, NEW p \in Procs, piperead(p)
    PROVE  IInv'
<1>0. TypeOK /\ Ends /\ Calls /\ Sleepers /\ Ring
  BY Counts DEF IInv
<1>c. /\ PIPESIZE \in Nat \ {0} /\ UINT \in Nat \ {0} /\ MaxRead \in Nat
      /\ None \notin Procs \cup {"nread", "nwrite"}
  BY ConstAssumption
<1>a. /\ lock = None /\ Reading(p) /\ chan[p] # "nwrite" /\ pc[p] # "write"
      /\ want[p] \in 1 .. MaxRead /\ Gets(p) \in 0 .. count
      /\ UNCHANGED <<data, nwrite, readopen, writeopen, fds, todo, killed>>
  BY ReadCall
<1>b. /\ chan' = [chan EXCEPT ![p] = IF pc'[p] = "gosleep" THEN "nread" ELSE None]
      /\ want' = [want EXCEPT ![p] = IF pc'[p] = "user" THEN 0 ELSE want[p]]
  BY DEF piperead
<1>d. \A x \in Procs : pc[x] # "gosleep"
  BY <1>0, <1>a, <1>c DEF TypeOK
<1>e. todo[p] = <<>>
  BY <1>0, <1>a DEF Calls, Writing
<1>1. Ends'
  BY <1>0, <1>a DEF Ends
<1>2. CASE ~ blocks
  <2>1. /\ nread' = plus(nread, Gets(p)) /\ lock' = lock
        /\ pc' = wakeup("nwrite", [pc EXCEPT ![p] = "user"])
    BY <1>2 DEF piperead, Gets
  <2>2. nread' \in 0 .. UINT - 1 /\ count' = count - Gets(p)
    BY <1>0, <1>a, <2>1, CountOut
  <2>3. /\ pc' \in [Procs -> {"user", "write", "read", "gosleep", "sleep", "woken"}]
        /\ pc'[p] = "user"
        /\ \A x \in Procs \ {p} :
             pc'[x] = IF pc[x] = "sleep" /\ chan[x] = "nwrite" THEN "woken" ELSE pc[x]
    BY <1>0, <2>1 DEF wakeup, TypeOK
  <2>4. \A x \in Procs : chan'[x] = IF x = p THEN None ELSE chan[x]
    BY <1>0, <1>b, <2>3 DEF TypeOK
  <2>5. \A x \in Procs : want'[x] = IF x = p THEN 0 ELSE want[x]
    BY <1>0, <1>b, <2>3 DEF TypeOK
  <2>6. TypeOK'
    <3>1. count' <= PIPESIZE
      BY <1>0, <1>a, <1>c, <2>2 DEF Ring
    <3>2. \A x \in Procs : pc'[x] # "gosleep" /\ lock' # x
      <4>1. \A x \in Procs : pc'[x] \in {"user", "woken", pc[x]}
        BY <2>3
      <4>2. lock' = None
        BY <1>a, <2>1
      <4> QED
        BY <1>c, <1>d, <4>1, <4>2
    <3>3. /\ chan' \in [Procs -> {"nread", "nwrite", None}]
          /\ want' \in [Procs -> 0 .. MaxRead]
      BY <1>0, <1>b, <1>c, <2>3 DEF TypeOK
    <3> QED
      BY <1>0, <1>a, <2>1, <2>2, <2>3, <3>1, <3>2, <3>3 DEF TypeOK
  <2>7. Calls'
    BY <1>0, <1>a, <1>c, <1>e, <2>3, <2>4, <2>5 DEF Calls, Writing, Reading
  <2>8. Sleepers'
    <3>1. \A x \in Procs : Asleep(x)' => x # p /\ Asleep(x) /\ chan[x] # "nwrite"
      BY <1>d, <2>3 DEF Asleep
    <3> QED
      BY <1>0, <1>a, <1>2, <2>4, <3>1 DEF Sleepers
  <2> QED
    BY <1>1, <2>6, <2>7, <2>8 DEF IInv
<1>3. CASE blocks
  <2>1. /\ UNCHANGED <<got, nread>>
        /\ IF p \in killed
           THEN pc' = [pc EXCEPT ![p] = "user"] /\ lock' = lock
           ELSE pc' = [pc EXCEPT ![p] = "gosleep"] /\ lock' = p
    BY <1>3 DEF piperead
  <2>2. count' = count /\ (full' <=> full) /\ (blocks' <=> blocks)
    BY <1>a, <2>1 DEF count, full, blocks
  <2>3. \A x \in Procs \ {p} : pc'[x] = pc[x] /\ chan'[x] = chan[x] /\ want'[x] = want[x]
    BY <1>0, <1>b, <2>1 DEF TypeOK
  <2>4. IF p \in killed
        THEN pc'[p] = "user" /\ chan'[p] = None
        ELSE pc'[p] = "gosleep" /\ chan'[p] = "nread" /\ want'[p] = want[p]
    BY <1>0, <1>b, <2>1 DEF TypeOK
  <2>5. TypeOK'
    <3>1. pc' \in [Procs -> {"user", "write", "read", "gosleep", "sleep", "woken"}]
      <4>1. pc \in [Procs -> {"user", "write", "read", "gosleep", "sleep", "woken"}]
        BY <1>0 DEF TypeOK
      <4>2. pc' = [pc EXCEPT ![p] = "user"] \/ pc' = [pc EXCEPT ![p] = "gosleep"]
        BY <2>1
      <4> QED
        BY <4>1, <4>2
    <3>2. /\ chan' \in [Procs -> {"nread", "nwrite", None}]
          /\ want' \in [Procs -> 0 .. MaxRead]
      BY <1>0, <1>b, <1>c DEF TypeOK
    <3>3. lock' \in Procs \cup {None} /\ \A x \in Procs : pc'[x] = "gosleep" <=> lock' = x
      <4>1. CASE p \in killed
        BY <1>a, <1>c, <1>d, <2>1, <2>3, <2>4, <4>1
      <4>2. CASE p \notin killed
        BY <1>d, <2>1, <2>3, <2>4, <4>2
      <4> QED
        BY <4>1, <4>2
    <3> QED
      BY <1>0, <1>a, <2>1, <2>2, <3>1, <3>2, <3>3 DEF TypeOK
  <2>6. Calls'
    <3>1. CASE p \in killed
      BY <1>0, <1>a, <1>c, <1>e, <2>3, <2>4, <3>1 DEF Calls, Writing, Reading
    <3>2. CASE p \notin killed
      BY <1>0, <1>a, <1>c, <1>e, <2>3, <2>4, <3>2 DEF Calls, Writing, Reading
    <3> QED
      BY <3>1, <3>2
  <2>7. Sleepers'
    BY <1>0, <1>a, <1>3, <1>c, <2>2, <2>3, <2>4 DEF Sleepers, Asleep
  <2> QED
    BY <1>1, <2>5, <2>6, <2>7 DEF IInv
<1> QED
  BY <1>2, <1>3

-----------------------------------------------------------------------------
(* The theorems                                                            *)

LEMMA StepInv == IInv /\ [Next]_vars => IInv'
<1> SUFFICES ASSUME IInv, [Next]_vars PROVE IInv'
  OBVIOUS
<1>1. CASE UNCHANGED vars
  BY <1>1 DEF vars, pipe, IInv, TypeOK, Ends, Calls, Sleepers, Writing, Reading, Asleep,
              count, full, blocks
<1>2. CASE Next
  BY <1>2, AllocStep, PipewriteStep, PipereadStep, SleepStep, KillStep, ForkStep, CloseStep,
     WriteStep, ReadStep DEF Next
<1> QED
  BY <1>1, <1>2

\* The positions, the open ends and the ring agree in every reachable state.
THEOREM Invariance == Spec => []IInv
  BY InitInv, StepInv, PTL DEF Spec

\* No process sleeps in pipewrite or piperead without need: every change that it
\* waits for, of the ring or of the other end, wakes it, for any number of
\* processes, any size of the ring and any width of the counters.
THEOREM SleepersCorrect == Spec => []SleepersWoken
<1>1. IInv => SleepersWoken
  BY DEF IInv, Sleepers, SleepersWoken, Asleep
<1> QED
  BY Invariance, <1>1, PTL

-----------------------------------------------------------------------------
(* The FIFO                                                                *)

\* The bytes of an open pipe.
LEMMA Queue ==
    ASSUME TypeOK, readopen \/ writeopen
    PROVE  /\ queue = [i \in 1 .. count |-> data[plus(nread, i - 1) % PIPESIZE]]
           /\ queue \in Seq(Bytes) /\ Len(queue) = count
<1>0. /\ PIPESIZE \in Nat \ {0} /\ UINT \in Nat \ {0} /\ PIPESIZE < UINT
      /\ nread \in 0 .. UINT - 1 /\ data \in [0 .. PIPESIZE - 1 -> Bytes]
  BY ConstAssumption DEF TypeOK
<1>1. PICK c \in 0 .. PIPESIZE : c = count
  BY Counts DEF Ring
<1>2. queue = [i \in 1 .. c |-> data[plus(nread, i - 1) % PIPESIZE]]
  BY <1>1 DEF queue
<1>3. ASSUME NEW i \in 1 .. c PROVE data[plus(nread, i - 1) % PIPESIZE] \in Bytes
  <2>1. PICK d \in 0 .. UINT - 1 : d = i - 1
    BY <1>0
  <2>2. plus(nread, d) \in 0 .. UINT - 1
    BY <1>0, PlusIndex
  <2>3. PICK b \in Nat : b = plus(nread, d)
    BY <1>0, <2>2
  <2>4. b % PIPESIZE \in 0 .. PIPESIZE - 1
    BY <1>0
  <2> QED
    BY <1>0, <2>1, <2>4, <2>3
<1>4. queue \in Seq(Bytes) /\ Len(queue) = c
  BY <1>2, <1>3
<1> QED
  BY <1>1, <1>2, <1>4

LEMMA SeqJoin ==
    ASSUME NEW S, NEW t \in Seq(S), NEW u \in Seq(S), NEW z, z = t \o u
    PROVE  /\ z \in Seq(S) /\ Len(z) = Len(t) + Len(u)
           /\ \A i \in 1 .. Len(z) : z[i] = IF i <= Len(t) THEN t[i] ELSE u[i - Len(t)]
  OBVIOUS

\* The ring after copying, at j places after the place of nwrite.
LEMMA CopyAt ==
    ASSUME NEW n \in Nat, nwrite % PIPESIZE = n % PIPESIZE, NEW j \in 0 .. PIPESIZE - 1,
           NEW s, NEW k
    PROVE  copyin(s, k)[(n + j) % PIPESIZE] =
              IF j < k THEN s[j + 1] ELSE data[(n + j) % PIPESIZE]
<1>0. PIPESIZE \in Nat \ {0} /\ n + j \in Nat
  BY ConstAssumption
<1>1. PICK i \in 0 .. PIPESIZE - 1 : i = (n + j) % PIPESIZE
  BY <1>0
<1>2. Gap(PIPESIZE, Cell(PIPESIZE, n), Cell(PIPESIZE, n + j)) = j
  BY <1>0, CellGap
<1>3. (PIPESIZE + i - (nwrite % PIPESIZE)) % PIPESIZE = j
  <2>1. PICK r \in 0 .. PIPESIZE - 1 : r = n % PIPESIZE
    BY <1>0
  <2>2. (i + PIPESIZE - r) % PIPESIZE = j
    BY <1>1, <1>2, <2>1 DEF Gap, Cell
  <2>3. i + PIPESIZE - r = PIPESIZE + i - r
    BY <1>0
  <2> QED
    BY <2>1, <2>2, <2>3
<1> QED
  BY <1>1, <1>3 DEF copyin

\* pipewrite appends: it changes no byte that is still to be read, and the new
\* ones follow the last, across the wrap of the ring and of the counters.
LEMMA Appends ==
    ASSUME IInv, NEW p \in Procs, pipewrite(p), IInv'
    PROVE  queue' = queue \o SubSeq(todo[p], 1, Fits(p))
<1>0. TypeOK /\ Ends /\ Calls /\ Ring /\ TypeOK'
  BY Counts DEF IInv
<1>c. /\ PIPESIZE \in Nat \ {0} /\ UINT \in Nat \ {0} /\ PIPESIZE < UINT
      /\ nread \in 0 .. UINT - 1 /\ nread \in Nat
  BY <1>0, ConstAssumption DEF TypeOK
<1>a. /\ Writing(p)
      /\ Fits(p) \in 0 .. PIPESIZE - count /\ Fits(p) \in 0 .. Len(todo[p])
      /\ data' = copyin(todo[p], Fits(p)) /\ count' = count + Fits(p)
      /\ UNCHANGED <<nread, readopen, writeopen>>
  BY WriteCall
<1>1. writeopen
  BY <1>0, <1>a DEF Calls, Ends
<1>2. PICK c \in 0 .. PIPESIZE : c = count
  BY <1>0 DEF Ring
<1>3. PICK k \in 0 .. PIPESIZE - c : k = Fits(p)
  BY <1>a, <1>2
<1>4. PICK s \in Seq(Bytes) : s = todo[p]
  BY <1>0, StringSeq DEF TypeOK
<1>5. queue = [i \in 1 .. c |-> data[plus(nread, i - 1) % PIPESIZE]]
  BY <1>0, <1>1, <1>2, Queue
<1>6. queue' = [i \in 1 .. c + k |-> copyin(s, k)[plus(nread, i - 1) % PIPESIZE]]
  BY <1>1, <1>2, <1>3, <1>4, <1>a DEF queue, plus
<1>7. nwrite % PIPESIZE = (nread + c) % PIPESIZE
  <2>1. c \in 0 .. UINT - 1 /\ nwrite = plus(nread, c)
    BY <1>0, <1>c, <1>2 DEF Ring
  <2> QED
    BY <1>c, <2>1, PlusIndex
<1>8. \A i \in 1 .. c + k : plus(nread, i - 1) % PIPESIZE = (nread + i - 1) % PIPESIZE
  <2> SUFFICES ASSUME NEW i \in 1 .. c + k
               PROVE  plus(nread, i - 1) % PIPESIZE = (nread + i - 1) % PIPESIZE
    OBVIOUS
  <2>1. i - 1 \in 0 .. UINT - 1 /\ nread + (i - 1) = nread + i - 1
    BY <1>c
  <2> QED
    BY <1>c, <2>1, PlusIndex
<1>9. ASSUME NEW i \in 1 .. c
      PROVE  copyin(s, k)[plus(nread, i - 1) % PIPESIZE] = data[plus(nread, i - 1) % PIPESIZE]
  <2>1. PICK j \in 0 .. PIPESIZE - 1 : j = PIPESIZE - c + i - 1 /\ ~ (j < k)
    BY <1>c
  <2>2. PICK a \in Nat : a = nread + i - 1
    BY <1>c
  <2>3. PICK n \in Nat : n = nread + c
    BY <1>c
  <2>4. n + j = a + PIPESIZE
    BY <1>c, <2>1, <2>2, <2>3
  <2>5. (n + j) % PIPESIZE = a % PIPESIZE
    BY <1>c, <2>4, AddOnce
  <2>6. copyin(s, k)[(n + j) % PIPESIZE] = data[(n + j) % PIPESIZE]
    <3>1. nwrite % PIPESIZE = n % PIPESIZE
      BY <1>7, <2>3
    <3> QED
      BY <2>1, <3>1, CopyAt
  <2> QED
    BY <1>8, <2>2, <2>5, <2>6
<1>10. ASSUME NEW i \in c + 1 .. c + k
       PROVE  copyin(s, k)[plus(nread, i - 1) % PIPESIZE] = s[i - c]
  <2>1. PICK j \in 0 .. PIPESIZE - 1 : j = i - c - 1 /\ j < k
    BY <1>c
  <2>2. PICK n \in Nat : n = nread + c
    BY <1>c
  <2>3. copyin(s, k)[(n + j) % PIPESIZE] = s[j + 1]
    <3>1. nwrite % PIPESIZE = n % PIPESIZE
      BY <1>7, <2>2
    <3> QED
      BY <2>1, <3>1, CopyAt
  <2>4. n + j = nread + i - 1 /\ j + 1 = i - c
    BY <1>c, <2>1, <2>2
  <2>5. i \in 1 .. c + k
    OBVIOUS
  <2> QED
    BY <1>8, <2>3, <2>4, <2>5
<1>11. queue \in Seq(Bytes) /\ Len(queue) = c
  BY <1>0, <1>1, <1>2, Queue
<1>12. k <= Len(s)
  BY <1>3, <1>4, <1>a
<1>13. /\ SubSeq(s, 1, k) \in Seq(Bytes) /\ Len(SubSeq(s, 1, k)) = k
       /\ \A j \in 1 .. k : SubSeq(s, 1, k)[j] = s[j]
  BY <1>12
<1>14. queue' = queue \o SubSeq(s, 1, k)
  <2>1. PICK u, new : u = SubSeq(s, 1, k) /\ new = queue \o u
    OBVIOUS
  <2>2. u \in Seq(Bytes) /\ Len(u) = k /\ \A j \in 1 .. k : u[j] = s[j]
    BY <1>13, <2>1
  <2>3. /\ new \in Seq(Bytes) /\ Len(new) = Len(queue) + Len(u)
        /\ \A i \in 1 .. Len(new) :
             new[i] = IF i <= Len(queue) THEN queue[i] ELSE u[i - Len(queue)]
    <3>1. queue \in Seq(Bytes) /\ u \in Seq(Bytes) /\ new = queue \o u
      BY <1>11, <2>1, <2>2
    <3> QED
      BY <3>1, SeqJoin
  <2>4. Len(new) = c + k /\ \A i \in 1 .. c + k : new[i] = IF i <= c THEN queue[i] ELSE u[i - c]
    BY <1>11, <2>2, <2>3
  <2>5. ASSUME NEW i \in 1 .. c + k PROVE queue'[i] = new[i]
    <3>1. queue'[i] = copyin(s, k)[plus(nread, i - 1) % PIPESIZE]
      BY <1>6
    <3>2. CASE i \in 1 .. c
      BY <1>5, <1>9, <2>4, <3>1, <3>2
    <3>3. CASE i \notin 1 .. c
      <4>1. i \in c + 1 .. c + k /\ i - c \in 1 .. k /\ ~ (i <= c)
        BY <3>3
      <4> QED
        BY <1>10, <2>2, <2>4, <3>1, <4>1
    <3> QED
      BY <3>2, <3>3
  <2>6. new = [i \in 1 .. c + k |-> new[i]]
    BY <2>3, <2>4
  <2>7. queue' = [i \in 1 .. c + k |-> queue'[i]]
    BY <1>6
  <2>8. queue' = new
    BY <2>5, <2>6, <2>7
  <2> QED
    BY <2>1, <2>8
<1> QED
  BY <1>3, <1>4, <1>14

\* piperead takes from the front.
LEMMA Takes ==
    ASSUME IInv, NEW p \in Procs, piperead(p), ~ blocks
    PROVE  /\ got' = SubSeq(queue, 1, Gets(p))
           /\ queue' = SubSeq(queue, Gets(p) + 1, Len(queue))
           /\ Gets(p) = IF want[p] < Len(queue) THEN want[p] ELSE Len(queue)
<1>0. TypeOK /\ Ends /\ Calls /\ Ring
  BY Counts DEF IInv
<1>c. /\ PIPESIZE \in Nat \ {0} /\ UINT \in Nat \ {0} /\ PIPESIZE < UINT
      /\ nread \in 0 .. UINT - 1
  BY <1>0, ConstAssumption DEF TypeOK
<1>a. /\ Reading(p) /\ Gets(p) \in 0 .. count
      /\ UNCHANGED <<data, nwrite, readopen, writeopen>>
  BY ReadCall
<1>b. /\ got' = [i \in 1 .. Gets(p) |-> data[plus(nread, i - 1) % PIPESIZE]]
      /\ nread' = plus(nread, Gets(p))
  BY DEF piperead, Gets
<1>1. readopen
  BY <1>0, <1>a DEF Calls, Ends
<1>2. PICK c \in 0 .. PIPESIZE : c = count
  BY <1>0 DEF Ring
<1>3. PICK k \in 0 .. c : k = Gets(p)
  BY <1>a, <1>2
<1>4. /\ queue = [i \in 1 .. c |-> data[plus(nread, i - 1) % PIPESIZE]]
      /\ queue \in Seq(Bytes) /\ Len(queue) = c
  BY <1>0, <1>1, <1>2, Queue
<1>5. count' = c - k
  BY <1>0, <1>2, <1>3, <1>a, <1>b, CountOut
<1>6. queue' = [i \in 1 .. c - k |-> data[plus(plus(nread, k), i - 1) % PIPESIZE]]
  BY <1>1, <1>3, <1>5, <1>a, <1>b DEF queue, plus
<1>7. ASSUME NEW i \in 1 .. c - k
      PROVE  plus(plus(nread, k), i - 1) = plus(nread, (i + k) - 1)
  <2>1. PICK d \in 0 .. UINT - 1 : d = i - 1 /\ k + d < UINT /\ k \in 0 .. UINT - 1
    BY <1>c
  <2>2. plus(plus(nread, k), d) = plus(nread, k + d)
    BY <1>c, <2>1, PlusPlus
  <2>3. k + d = (i + k) - 1
    BY <2>1
  <2> QED
    BY <2>1, <2>2, <2>3
<1>8. SubSeq(queue, k + 1, c) = [i \in 1 .. c - k |-> queue[i + k]]
  BY <1>4
<1>9. \A i \in 1 .. c - k : queue[i + k] = data[plus(nread, (i + k) - 1) % PIPESIZE]
  <2>1. \A i \in 1 .. c - k : i + k \in 1 .. c
    OBVIOUS
  <2> QED
    BY <1>4, <2>1
<1>10. queue' = SubSeq(queue, k + 1, c)
  BY <1>6, <1>7, <1>8, <1>9
<1>11. got' = SubSeq(queue, 1, k)
  <2>1. SubSeq(queue, 1, k) = [i \in 1 .. k |-> queue[i]]
    BY <1>4
  <2>2. \A i \in 1 .. k : queue[i] = data[plus(nread, i - 1) % PIPESIZE]
    BY <1>4
  <2> QED
    BY <1>3, <1>b, <2>1, <2>2
<1> QED
  BY <1>2, <1>3, <1>4, <1>10, <1>11 DEF Gets

LEMMA InitSimulates == Init => Abs!Init
  BY DEF Init, Abs!Init, queue

\* The bytes do not change when the ring, its counters and the ends do not.
LEMMA SameQueue ==
    ASSUME UNCHANGED pipe
    PROVE  queue' = queue
  BY DEF pipe, queue, count, plus

LEMMA AllocSimulates ==
    ASSUME IInv, NEW p \in Procs, pipealloc(p)
    PROVE  Abs!Open
<1>1. ~ readopen /\ ~ writeopen
  BY DEF pipealloc, IInv, Ends
<1>2. readopen' /\ writeopen' /\ nread' = 0 /\ nwrite' = 0 /\ UNCHANGED <<todo, got>>
  BY DEF pipealloc
<1>3. count' = 0
  BY <1>2, ConstAssumption, Between, PlusZero DEF count
<1>4. queue' = <<>>
  BY <1>2, <1>3 DEF queue
<1> QED
  BY <1>1, <1>2, <1>4 DEF Abs!Open, pipealloc

LEMMA WriteSimulates ==
    ASSUME IInv, NEW p \in Procs, NEW s \in Strings, write(p, s)
    PROVE  Abs!Write(p, s)
<1>1. todo[p] = <<>>
  BY ConstAssumption DEF write, IInv, Calls, Writing
<1> QED
  BY <1>1, SameQueue DEF write, pipe, Abs!Write

LEMMA CloseSimulates ==
    ASSUME IInv, NEW p \in Procs, NEW e \in {"r", "w"}, fileclose(p, e)
    PROVE  Abs!Close \/ UNCHANGED Abs!vars
<1>0. TypeOK /\ Ends
  BY DEF IInv
<1>a. e \in fds[p] /\ UNCHANGED <<data, nread, nwrite, todo, got>>
  BY DEF fileclose
<1>1. CASE \E q \in Procs \ {p} : e \in fds[q]
  <2>1. UNCHANGED pipe
    BY <1>1, <1>a DEF fileclose, pipe
  <2> QED
    BY <1>a, <2>1, SameQueue DEF Abs!vars, pipe
<1>2. CASE ~ \E q \in Procs \ {p} : e \in fds[q]
  <2>1. readopen' = (readopen /\ e = "w") /\ writeopen' = (writeopen /\ e = "r")
    BY <1>2 DEF fileclose, pipeclose
  <2>2. readopen \/ writeopen
    BY <1>0, <1>a DEF Ends
  <2>3. queue' = IF readopen' \/ writeopen' THEN queue ELSE <<>>
    BY <1>a, <2>2 DEF queue, count, plus
  <2>4. \/ readopen /\ readopen' = FALSE /\ writeopen' = writeopen
        \/ writeopen /\ writeopen' = FALSE /\ readopen' = readopen
    <3>1. CASE e = "r"
      BY <1>0, <1>a, <2>1, <3>1 DEF Ends, TypeOK
    <3>2. CASE e = "w"
      BY <1>0, <1>a, <2>1, <3>2 DEF Ends, TypeOK
    <3> QED
      BY <3>1, <3>2
  <2> QED
    BY <1>a, <2>3, <2>4 DEF Abs!Close
<1> QED
  BY <1>1, <1>2

LEMMA PipewriteSimulates ==
    ASSUME IInv, IInv', NEW p \in Procs, pipewrite(p)
    PROVE  \E k \in 0 .. PIPESIZE : Abs!Put(p, k) \/ Abs!Fail(p, k)
<1>0. TypeOK /\ Ends /\ Calls /\ Ring
  BY Counts DEF IInv
<1>a. /\ Writing(p)
      /\ Fits(p) \in 0 .. PIPESIZE - count /\ Fits(p) \in 0 .. Len(todo[p])
      /\ Left(p) # <<>> => Fits(p) = PIPESIZE - count
      /\ todo' = [todo EXCEPT ![p] = IF Cut(p) THEN <<>> ELSE Left(p)]
      /\ UNCHANGED <<got, readopen, writeopen>>
  BY WriteCall
<1>1. queue' = queue \o SubSeq(todo[p], 1, Fits(p))
  BY Appends
<1>2. Len(queue) = count
  BY <1>0, <1>a, Queue DEF Calls, Ends
<1>3. PIPESIZE \in Nat /\ count \in 0 .. PIPESIZE /\ Len(todo[p]) \in Nat
  BY <1>0, ConstAssumption, StringSeq DEF Ring, TypeOK
<1>4. /\ Fits(p) \in 0 .. PIPESIZE /\ Fits(p) <= Len(todo[p])
      /\ Len(queue) + Fits(p) <= PIPESIZE
  BY <1>2, <1>3, <1>a
<1>5. CASE Cut(p)
  <2>1. Len(queue) + Fits(p) = PIPESIZE
    BY <1>2, <1>3, <1>5, <1>a DEF Cut
  <2>2. Abs!Fail(p, Fits(p))
    BY <1>1, <1>4, <1>5, <1>a, <2>1 DEF Abs!Fail
  <2> QED
    BY <1>4, <2>2
<1>6. CASE ~ Cut(p)
  <2>1. todo' = [todo EXCEPT ![p] = SubSeq(todo[p], Fits(p) + 1, Len(todo[p]))]
    BY <1>6, <1>a DEF Left
  <2>2. Abs!Put(p, Fits(p))
    BY <1>1, <1>4, <1>a, <2>1 DEF Abs!Put
  <2> QED
    BY <1>4, <2>2
<1> QED
  BY <1>5, <1>6

LEMMA PipereadSimulates ==
    ASSUME IInv, NEW p \in Procs, piperead(p)
    PROVE  (\E n \in 1 .. MaxRead : Abs!Get(n)) \/ UNCHANGED Abs!vars
<1>0. TypeOK /\ Ends /\ Calls /\ Ring
  BY Counts DEF IInv
<1>a. /\ Reading(p) /\ want[p] \in 1 .. MaxRead
      /\ UNCHANGED <<data, nwrite, readopen, writeopen, todo>>
  BY ReadCall
<1>1. CASE ~ blocks
  <2>1. /\ got' = SubSeq(queue, 1, Gets(p))
        /\ queue' = SubSeq(queue, Gets(p) + 1, Len(queue))
        /\ Gets(p) = IF want[p] < Len(queue) THEN want[p] ELSE Len(queue)
    BY <1>1, Takes
  <2>2. queue # <<>> \/ ~ writeopen
    <3>1. Len(queue) = count
      BY <1>0, <1>a, Queue DEF Calls, Ends
    <3>2. nread # nwrite => count # 0
      BY <1>0 DEF Ring
    <3> QED
      BY <1>1, <3>1, <3>2 DEF blocks
  <2>3. Abs!Get(want[p])
    BY <1>a, <2>1, <2>2 DEF Abs!Get
  <2> QED
    BY <1>a, <2>3
<1>2. CASE blocks
  <2>1. UNCHANGED <<got, nread>>
    BY <1>2 DEF piperead
  <2>2. UNCHANGED pipe
    BY <1>a, <2>1 DEF pipe
  <2> QED
    BY <1>a, <2>1, <2>2, SameQueue DEF Abs!vars
<1> QED
  BY <1>1, <1>2

LEMMA StepSimulates == IInv /\ IInv' /\ [Next]_vars => [Abs!Next]_(Abs!vars)
<1> SUFFICES ASSUME IInv, IInv', [Next]_vars PROVE [Abs!Next]_(Abs!vars)
  OBVIOUS
<1>1. CASE UNCHANGED vars
  BY <1>1, SameQueue DEF vars, pipe, Abs!vars
<1>2. ASSUME NEW p \in Procs, sleep(p) \/ kill(p) \/ \E q \in Procs \ {p} : fork(p, q)
      PROVE  UNCHANGED Abs!vars
  BY <1>2, SameQueue DEF sleep, kill, fork, pipe, Abs!vars
<1>3. ASSUME NEW p \in Procs, NEW n \in 1 .. MaxRead, read(p, n)
      PROVE  UNCHANGED Abs!vars
  BY <1>3, SameQueue DEF read, pipe, Abs!vars
<1>4. ASSUME NEW p \in Procs, NEW s \in Strings, write(p, s)
      PROVE  Abs!Next
  BY <1>4, WriteSimulates DEF Abs!Next, Strings
<1>5. ASSUME NEW p \in Procs, pipewrite(p)
      PROVE  Abs!Next
  BY <1>5, PipewriteSimulates DEF Abs!Next
<1>6. ASSUME NEW p \in Procs, piperead(p)
      PROVE  [Abs!Next]_(Abs!vars)
  BY <1>6, PipereadSimulates DEF Abs!Next
<1>7. ASSUME NEW p \in Procs, NEW e \in {"r", "w"}, fileclose(p, e)
      PROVE  [Abs!Next]_(Abs!vars)
  BY <1>7, CloseSimulates DEF Abs!Next
<1>8. ASSUME NEW p \in Procs, pipealloc(p)
      PROVE  Abs!Next
  BY <1>8, AllocSimulates DEF Abs!Next
<1> QED
  BY <1>1, <1>2, <1>3, <1>4, <1>5, <1>6, <1>7, <1>8 DEF Next

\* The ring with its two wrapping counters is a FIFO of bytes: what pipewrite
\* copies in, piperead copies out, in order and once, for any number of
\* processes, any size of the ring and any width of the counters that the size
\* divides.
THEOREM Refinement == Spec => RefinesAbs
<1>1. Spec => Abs!Init
  BY InitSimulates DEF Spec
<1> QED
  BY <1>1, Invariance, StepSimulates, PTL DEF Spec, RefinesAbs, Abs!Spec
=============================================================================
