--------------------------- MODULE BufCacheProofs ---------------------------
(***************************************************************************)
(* The safety of BufCache, and that it implements AbsDisk, for any number  *)
(* of processes, sectors, contents and buffers.                            *)
(***************************************************************************)
EXTENDS BufCache, WellFoundedInduction, TLAPS

\* A leaf is tried with Zenon first, briefly: most need no arithmetic.
USE ZenonT(2), SMTT(20), ZenonT(20)

Holding == {"use", "iderw", "isleep", "iwoken"}

Queued(b) == \E i \in 1 .. Len(idequeue) : idequeue[i] = b

\* What the position of a process says of its buffer.
ProcInv ==
    /\ \A p \in Procs : pc[p] = "user" <=> buf[p] = None
    /\ \A p \in Procs : pc[p] # "user" => want[p] \in Sectors
    /\ \A p \in Procs : pc[p] = "use" => buf[p] \in valid
    /\ \A p \in Procs : pc[p] \in {"iderw", "isleep"} => unfinished(buf[p])

\* What the flags of a buffer say of its data: no sector has two buffers, and a
\* buffer differs from the disk only if it is dirty or its read failed.
BufInv ==
    /\ idequeue \in Seq(Bufs)
    /\ dirty \subseteq valid /\ failed \subseteq valid /\ failed \cap dirty = {}
    /\ \A b \in Bufs : sector[b] = None => b \notin valid \cup busy
    /\ \A a, b \in Bufs : sector[a] = sector[b] /\ sector[a] # None => a = b
    /\ \A b \in valid \ (dirty \cup failed) : data[b] = disk[sector[b]]

IInv == HolderHasItsSector /\ QueueHoldsRequests /\ ProcInv /\ BufInv

\* The holders of buffers in a form that the steps can use.
LEMMA Holders ==
    ASSUME IInv
    PROVE  /\ \A p \in Procs : pc[p] \in Holding =>
                 buf[p] \in Bufs /\ buf[p] \in busy /\ sector[buf[p]] = want[p]
           /\ \A p, q \in Procs : pc[p] \in Holding /\ pc[q] \in Holding /\ buf[p] = buf[q] => p = q
           /\ \A b \in busy : \E p \in Procs : pc[p] \in Holding /\ buf[p] = b
           /\ \A p \in Procs : pc[p] # "user" => buf[p] \in Bufs
<1>1. /\ \A b \in Bufs : b \in busy <=> \E p \in Procs : Holds(p, b)
      /\ \A p \in Procs, b \in Bufs :
            Holds(p, b) => sector[b] = want[p] /\ \A q \in Procs \ {p} : ~ Holds(q, b)
      /\ busy \subseteq Bufs /\ buf \in [Procs -> Bufs \cup {None}]
      /\ \A p \in Procs : pc[p] = "user" <=> buf[p] = None
  BY DEF IInv, HolderHasItsSector, TypeOK, ProcInv
<1>2. \A p \in Procs : pc[p] # "user" => buf[p] \in Bufs
  BY <1>1
<1>3. \A p \in Procs : pc[p] \in Holding => buf[p] \in Bufs /\ Holds(p, buf[p])
  BY <1>2 DEF Holds, Holding
<1>4. \A b \in busy : \E p \in Procs : pc[p] \in Holding /\ buf[p] = b
  BY <1>1 DEF Holds, Holding
<1>5. \A p, q \in Procs : pc[p] \in Holding /\ pc[q] \in Holding /\ buf[p] = buf[q] => p = q
  BY <1>1, <1>3
<1>6. \A p \in Procs : pc[p] \in Holding =>
         buf[p] \in Bufs /\ buf[p] \in busy /\ sector[buf[p]] = want[p]
  BY <1>1, <1>3
<1> QED
  BY <1>2, <1>4, <1>5, <1>6

\* The converse, for the state after a step.
LEMMA HoldersNext ==
    ASSUME TypeOK',
           \A p \in Procs : pc'[p] = "bsleep" => buf'[p] \in busy',
           \A p \in Procs : pc'[p] \in Holding =>
              buf'[p] \in busy' /\ sector'[buf'[p]] = want'[p],
           \A p, q \in Procs : pc'[p] \in Holding /\ pc'[q] \in Holding /\ buf'[p] = buf'[q] => p = q,
           \A b \in busy' : \E p \in Procs : pc'[p] \in Holding /\ buf'[p] = b
    PROVE  HolderHasItsSector'
<1>1. \A p \in Procs, b \in Bufs : Holds(p, b)' <=> buf'[p] = b /\ pc'[p] \in Holding
  BY DEF Holds, Holding
<1>2. \A b \in Bufs : b \in busy' <=> \E p \in Procs : Holds(p, b)'
  BY <1>1
<1>3. \A p \in Procs, b \in Bufs :
          Holds(p, b)' => sector'[b] = want'[p] /\ \A q \in Procs \ {p} : ~ Holds(q, b)'
  BY <1>1
<1> QED
  BY <1>2, <1>3 DEF HolderHasItsSector

\* Who is in idequeue.
LEMMA Queue ==
    ASSUME IInv
    PROVE  /\ \A i, j \in 1 .. Len(idequeue) : idequeue[i] = idequeue[j] => i = j
           /\ \A b \in Bufs : Queued(b) =>
                 \E p \in Procs : buf[p] = b /\ pc[p] \in {"isleep", "iwoken"} /\ unfinished(b)
           /\ \A p \in Procs : pc[p] \in {"isleep", "iwoken"} /\ unfinished(buf[p]) => Queued(buf[p])
           /\ \A i \in 1 .. Len(idequeue) : idequeue[i] \in Bufs /\ idequeue[i] \in busy
           /\ cmd = startnext(idequeue)
<1>1. /\ \A i, j \in 1 .. Len(idequeue) : idequeue[i] = idequeue[j] => i = j
      /\ \A b \in Bufs : Queued(b) <=>
            \E p \in Procs : buf[p] = b /\ pc[p] \in {"isleep", "iwoken"} /\ unfinished(b)
      /\ cmd = startnext(idequeue)
  BY DEF IInv, QueueHoldsRequests, Queued
<1>2. \A p \in Procs : pc[p] \in {"isleep", "iwoken"} => buf[p] \in Bufs /\ buf[p] \in busy
  BY Holders DEF Holding
<1>3. \A i \in 1 .. Len(idequeue) : idequeue[i] \in Bufs
  BY DEF IInv, BufInv
<1>4. \A i \in 1 .. Len(idequeue) : Queued(idequeue[i])
  BY DEF Queued
<1>5. \A i \in 1 .. Len(idequeue) : idequeue[i] \in busy
  BY <1>1, <1>2, <1>3, <1>4
<1>6. \A p \in Procs : pc[p] \in {"isleep", "iwoken"} /\ unfinished(buf[p]) => Queued(buf[p])
  BY <1>1, <1>2
<1>7. \A b \in Bufs : Queued(b) =>
         \E p \in Procs : buf[p] = b /\ pc[p] \in {"isleep", "iwoken"} /\ unfinished(b)
  BY <1>1
<1> QED
  BY <1>1, <1>3, <1>5, <1>6, <1>7

\* The queue stays right in a step that leaves it alone, and with it the flags,
\* the sectors and the data of the buffers in it.
LEMMA QueueKept ==
    ASSUME IInv, UNCHANGED <<idequeue, cmd>>,
           \A b \in Bufs : Queued(b) =>
              /\ sector'[b] = sector[b] /\ data'[b] = data[b]
              /\ (b \in dirty' <=> b \in dirty) /\ (b \in valid' <=> b \in valid),
           \A p \in Procs : pc[p] \in {"isleep", "iwoken"} =>
              \/ pc'[p] \in {"isleep", "iwoken"} /\ buf'[p] = buf[p]
              \/ ~ unfinished(buf[p]),
           \A p \in Procs : pc'[p] \in {"isleep", "iwoken"} =>
              pc[p] \in {"isleep", "iwoken"} /\ buf'[p] = buf[p]
              /\ (unfinished(buf[p])' => unfinished(buf[p]))
    PROVE  QueueHoldsRequests'
<1>1. \A b \in Bufs : Queued(b) => (unfinished(b)' <=> unfinished(b))
  BY DEF unfinished
<1>2. \A b \in Bufs : Queued(b)' <=> Queued(b)
  BY DEF Queued
<1>3. ASSUME NEW b \in Bufs, Queued(b)
      PROVE  \E p \in Procs : buf'[p] = b /\ pc'[p] \in {"isleep", "iwoken"} /\ unfinished(b)'
  <2>1. PICK p \in Procs : buf[p] = b /\ pc[p] \in {"isleep", "iwoken"} /\ unfinished(b)
    BY <1>3, Queue
  <2> QED
    BY <1>1, <1>3, <2>1
<1>4. ASSUME NEW b \in Bufs, NEW p \in Procs,
             buf'[p] = b, pc'[p] \in {"isleep", "iwoken"}, unfinished(b)'
      PROVE  Queued(b)
  <2>1. pc[p] \in {"isleep", "iwoken"} /\ buf[p] = b /\ unfinished(b)
    BY <1>4 DEF unfinished
  <2> QED
    BY <2>1, Queue
<1>5. cmd' = startnext(idequeue)'
  <2>1. CASE idequeue = <<>>
    BY <2>1, Queue DEF startnext
  <2>2. CASE idequeue # <<>>
    <3>1. Len(idequeue) >= 1 /\ Head(idequeue) = idequeue[1]
      BY <2>2 DEF IInv, BufInv
    <3>2. Head(idequeue) \in Bufs /\ Queued(Head(idequeue))
      BY <3>1, Queue DEF Queued
    <3>3. idestart(Head(idequeue))' = idestart(Head(idequeue))
      BY <3>2 DEF idestart
    <3> QED
      BY <2>2, <3>3, Queue DEF startnext
  <2> QED
    BY <2>1, <2>2
<1> QED
  BY <1>2, <1>3, <1>4, <1>5, Queue DEF QueueHoldsRequests, Queued

-----------------------------------------------------------------------------
(* The steps                                                               *)

LEMMA InitIInv == Init => IInv
<1> SUFFICES ASSUME Init PROVE IInv
  OBVIOUS
<1>1. TypeOK
  <2>1. (CHOOSE v \in Values : TRUE) \in Values
    BY ConstAssumption
  <2>2. data \in [Bufs -> Values] /\ disk \in [Sectors -> Values]
    BY <2>1, ConstAssumption DEF Init
  <2>3. lru \in [Bufs -> Bufs]
    BY ConstAssumption DEF Init, Bufs
  <2>4. ASSUME NEW b \in Bufs
        PROVE  \E i \in Bufs : lru[i] = b
    <3>1. NBUF + 1 - b \in Bufs /\ lru[NBUF + 1 - b] = b
      BY ConstAssumption DEF Init, Bufs
    <3> QED
      BY <3>1
  <2> QED
    BY <2>2, <2>3, <2>4 DEF Init, TypeOK
<1>2. HolderHasItsSector
  BY <1>1 DEF Init, HolderHasItsSector, Holds
<1>3. QueueHoldsRequests
  BY DEF Init, QueueHoldsRequests, startnext
<1>4. ProcInv
  BY DEF Init, ProcInv
<1>5. BufInv
  BY DEF Init, BufInv
<1> QED
  BY <1>2, <1>3, <1>4, <1>5 DEF IInv

\* A buffer that is in idequeue is busy, and its holder is in iderw: neither
\* bget nor a holder that uses its buffer can touch it.
LEMMA QueuedIsBusy ==
    ASSUME IInv, NEW b \in Bufs, Queued(b)
    PROVE  b \in busy /\ \A p \in Procs : pc[p] = "use" => buf[p] # b
<1>1. b \in busy
  BY Queue DEF Queued
<1>2. PICK q \in Procs : buf[q] = b /\ pc[q] \in {"isleep", "iwoken"}
  BY Queue
<1> QED
  BY <1>1, <1>2, Holders DEF Holding

\* bget finds the buffer of the sector free.
LEMMA HitStep ==
    ASSUME IInv, NEW p \in Procs, pc[p] \in {"user", "bget"}, NEW s \in Sectors,
           NEW b \in cached(s), hit(p, s, b),
           UNCHANGED <<data, lru, idequeue, cmd, disk>>
    PROVE  IInv'
<1>0. TypeOK /\ ProcInv /\ BufInv /\ None \notin Sectors \cup Nat
  BY ConstAssumption DEF IInv, HolderHasItsSector
<1>a. /\ b \in Bufs /\ sector[b] = s /\ b \notin busy
      /\ busy' = busy \cup {b}
      /\ buf' = [buf EXCEPT ![p] = b] /\ want' = [want EXCEPT ![p] = s]
      /\ pc' = [pc EXCEPT ![p] = IF b \in valid THEN "use" ELSE "iderw"]
      /\ UNCHANGED <<sector, data, valid, dirty, lru, idequeue, cmd, disk, failed>>
  BY DEF hit, given, cached
<1>1. TypeOK'
  BY <1>0, <1>a DEF TypeOK
<1>2. HolderHasItsSector'
  <2>1. \A q \in Procs : pc'[q] = "bsleep" => buf'[q] \in busy'
    BY <1>0, <1>a DEF IInv, HolderHasItsSector, TypeOK
  <2>2. \A q \in Procs : pc'[q] \in Holding => buf'[q] \in busy' /\ sector'[buf'[q]] = want'[q]
    BY <1>0, <1>a, Holders DEF TypeOK
  <2>3. \A q, t \in Procs : pc'[q] \in Holding /\ pc'[t] \in Holding /\ buf'[q] = buf'[t] => q = t
    BY <1>0, <1>a, Holders DEF TypeOK
  <2>4. \A a \in busy' : \E q \in Procs : pc'[q] \in Holding /\ buf'[q] = a
    BY <1>0, <1>a, Holders DEF TypeOK, Holding
  <2> QED
    BY <1>1, <2>1, <2>2, <2>3, <2>4, HoldersNext
<1>3. QueueHoldsRequests'
  BY <1>0, <1>a, QueueKept DEF TypeOK, unfinished
<1>4. ProcInv'
  BY <1>0, <1>a DEF TypeOK, ProcInv, Bufs, unfinished
<1>5. BufInv'
  BY <1>0, <1>a DEF TypeOK, BufInv
<1> QED
  BY <1>2, <1>3, <1>4, <1>5 DEF IInv

\* bget finds the buffer of the sector busy and sleeps.
LEMMA WaitsStep ==
    ASSUME IInv, NEW p \in Procs, pc[p] \in {"user", "bget"}, NEW s \in Sectors,
           NEW b \in cached(s), waits(p, s, b),
           UNCHANGED <<data, lru, idequeue, cmd, disk>>
    PROVE  IInv'
<1>0. TypeOK /\ ProcInv /\ BufInv /\ None \notin Sectors \cup Nat
  BY ConstAssumption DEF IInv, HolderHasItsSector
<1>a. /\ b \in Bufs /\ b \in busy
      /\ buf' = [buf EXCEPT ![p] = b] /\ want' = [want EXCEPT ![p] = s]
      /\ pc' = [pc EXCEPT ![p] = "bsleep"]
      /\ UNCHANGED <<sector, data, busy, valid, dirty, lru, idequeue, cmd, disk, failed>>
  BY DEF waits, cached, flags
<1>1. TypeOK'
  BY <1>0, <1>a DEF TypeOK
<1>2. HolderHasItsSector'
  <2>1. \A q \in Procs : pc'[q] = "bsleep" => buf'[q] \in busy'
    BY <1>0, <1>a DEF IInv, HolderHasItsSector, TypeOK
  <2>2. \A q \in Procs : pc'[q] \in Holding =>
           pc[q] \in Holding /\ buf'[q] = buf[q] /\ want'[q] = want[q]
    BY <1>0, <1>a DEF TypeOK, Holding
  <2>3. \A a \in busy' : \E q \in Procs : pc'[q] \in Holding /\ buf'[q] = a
    BY <1>0, <1>a, Holders DEF TypeOK, Holding
  <2> QED
    BY <1>1, <1>a, <2>1, <2>2, <2>3, Holders, HoldersNext
<1>3. QueueHoldsRequests'
  BY <1>0, <1>a, QueueKept DEF TypeOK, unfinished
<1>4. ProcInv'
  BY <1>0, <1>a DEF TypeOK, ProcInv, Bufs, unfinished
<1>5. BufInv'
  BY <1>0, <1>a DEF TypeOK, BufInv
<1> QED
  BY <1>2, <1>3, <1>4, <1>5 DEF IInv

\* A nonempty set of naturals has a least element.
LEMMA LeastNat ==
    ASSUME NEW T, T \subseteq Nat, T # {}
    PROVE  \E n \in T : \A m \in T : n <= m
<1>1. PICK n \in T : \A m \in T : ~ (<<m, n>> \in OpToRel(<, Nat))
  BY NatLessThanWellFounded, WFMin
<1>2. \A m \in T : ~ (m < n)
  BY <1>1 DEF OpToRel
<1> QED
  BY <1>2

\* The least recently used buffer that is neither busy nor dirty.
LEMMA Recycled ==
    ASSUME TypeOK, recyclable # {}
    PROVE  LET b == lru[CHOOSE i \in recyclable : \A j \in recyclable : j <= i]
           IN  b \in Bufs /\ b \notin busy \cup dirty
<1>1. recyclable \subseteq 1 .. NBUF /\ NBUF \in Nat
  BY ConstAssumption DEF recyclable
<1>2. \E i \in recyclable : \A j \in recyclable : j <= i
  <2>1. PICK k \in recyclable : TRUE
    OBVIOUS
  <2> DEFINE Dist == {n \in Nat : NBUF - n \in recyclable}
  <2>3. NBUF - k \in Dist
    BY <1>1, <2>1
  <2>4. PICK n \in Dist : \A m \in Dist : n <= m
    BY <2>3, LeastNat
  <2>5. NBUF - n \in recyclable
    OBVIOUS
  <2>6. \A j \in recyclable : NBUF - j \in Dist
    BY <1>1
  <2>7. \A j \in recyclable : n <= NBUF - j
    BY <2>4, <2>6
  <2>8. \A j \in recyclable : j <= NBUF - n
    BY <1>1, <2>7
  <2> QED
    BY <2>5, <2>8
<1>3. (CHOOSE i \in recyclable : \A j \in recyclable : j <= i) \in recyclable
  BY <1>2
<1> QED
  BY <1>3 DEF recyclable, TypeOK, Bufs

\* bget recycles a buffer.
LEMMA RecycleStep ==
    ASSUME IInv, NEW p \in Procs, pc[p] \in {"user", "bget"}, NEW s \in Sectors,
           cached(s) = {}, recycle(p, s), UNCHANGED <<data, lru, idequeue, cmd, disk>>
    PROVE  IInv'
<1>0. TypeOK /\ ProcInv /\ BufInv /\ None \notin Sectors \cup Nat
  BY ConstAssumption DEF IInv, HolderHasItsSector
<1>a. PICK b \in Bufs :
        /\ b \notin busy /\ b \notin dirty
        /\ sector' = [sector EXCEPT ![b] = s]
        /\ valid' = valid \ {b} /\ dirty' = dirty \ {b} /\ failed' = failed \ {b}
        /\ busy' = busy \cup {b}
        /\ buf' = [buf EXCEPT ![p] = b] /\ want' = [want EXCEPT ![p] = s]
        /\ pc' = [pc EXCEPT ![p] = "iderw"]
        /\ UNCHANGED <<data, lru, idequeue, cmd, disk>>
  <2> DEFINE c == lru[CHOOSE i \in recyclable : \A j \in recyclable : j <= i]
  <2>1. c \in Bufs /\ c \notin busy /\ c \notin dirty
    BY <1>0, Recycled DEF recycle
  <2>2. /\ sector' = [sector EXCEPT ![c] = s]
        /\ valid' = valid \ {c} /\ dirty' = dirty \ {c} /\ failed' = failed \ {c}
        /\ given(p, s, c)
    BY DEF recycle
  <2> HIDE DEF c
  <2>3. pc' = [pc EXCEPT ![p] = "iderw"]
    BY <2>2 DEF given
  <2> QED
    BY <2>1, <2>2, <2>3 DEF given
<1>b. \A a \in Bufs : sector[a] # s
  BY DEF cached
<1>c. \A q \in Procs : pc[q] \in Holding \cup {"bsleep"} => buf[q] \in busy
  BY Holders DEF IInv, HolderHasItsSector
<1>1. TypeOK'
  BY <1>0, <1>a DEF TypeOK
<1>2. HolderHasItsSector'
  <2>1. \A q \in Procs : pc'[q] = "bsleep" => buf'[q] \in busy'
    BY <1>0, <1>a, <1>c DEF TypeOK
  <2>2. \A q \in Procs : pc'[q] \in Holding => buf'[q] \in busy' /\ sector'[buf'[q]] = want'[q]
    BY <1>0, <1>a, Holders DEF TypeOK
  <2>3. \A q, t \in Procs : pc'[q] \in Holding /\ pc'[t] \in Holding /\ buf'[q] = buf'[t] => q = t
    BY <1>0, <1>a, Holders DEF TypeOK
  <2>4. \A a \in busy' : \E q \in Procs : pc'[q] \in Holding /\ buf'[q] = a
    BY <1>0, <1>a, Holders DEF TypeOK, Holding
  <2> QED
    BY <1>1, <2>1, <2>2, <2>3, <2>4, HoldersNext
<1>3. QueueHoldsRequests'
  <2>1. \A a \in Bufs : Queued(a) => a # b
    BY <1>a, QueuedIsBusy
  <2>2. \A q \in Procs : q # p => pc'[q] = pc[q] /\ buf'[q] = buf[q]
    BY <1>0, <1>a DEF TypeOK
  <2>3. \A q \in Procs : pc[q] \in Holding => buf[q] # b
    BY <1>a, <1>c
  <2> QED
    BY <1>0, <1>a, <2>1, <2>2, <2>3, QueueKept DEF TypeOK, unfinished, Holding
<1>4. ProcInv'
  <2>1. \A q \in Procs : q # p => pc'[q] = pc[q] /\ buf'[q] = buf[q] /\ want'[q] = want[q]
    BY <1>0, <1>a DEF TypeOK
  <2>2. \A q \in Procs : pc[q] \in Holding => buf[q] # b
    BY <1>a, <1>c
  <2>3. pc'[p] = "iderw" /\ buf'[p] = b /\ want'[p] = s /\ b # None
    BY <1>0, <1>a DEF TypeOK, Bufs
  <2> QED
    BY <1>0, <1>a, <2>1, <2>2, <2>3 DEF ProcInv, unfinished, Holding
<1>5. BufInv'
  <2>1. \A a \in Bufs : sector'[a] = IF a = b THEN s ELSE sector[a]
    BY <1>0, <1>a DEF TypeOK
  <2> QED
    BY <1>0, <1>a, <1>b, <2>1 DEF BufInv, TypeOK
<1> QED
  BY <1>2, <1>3, <1>4, <1>5 DEF IInv

\* A step that changes no variable but panicked, or nothing at all.
LEMMA QuietStep ==
    ASSUME IInv, UNCHANGED <<sector, data, flags, lru, idequeue, cmd, disk, failed, pc, buf, want>>
    PROVE  IInv'
<1>1. TypeOK' /\ HolderHasItsSector'
  BY DEF IInv, HolderHasItsSector, TypeOK, Holds, flags
<1>2. QueueHoldsRequests' /\ ProcInv' /\ BufInv'
  BY DEF IInv, QueueHoldsRequests, ProcInv, BufInv, flags, unfinished, startnext, idestart
<1> QED
  BY <1>1, <1>2 DEF IInv

\* bread, or bget after a sleep.
LEMMA BgetStep ==
    ASSUME IInv, NEW p \in Procs, pc[p] \in {"user", "bget"}, NEW s \in Sectors, bget(p, s)
    PROVE  IInv'
<1>0. UNCHANGED <<data, lru, idequeue, cmd, disk>>
  BY DEF bget
<1>1. ASSUME NEW b \in cached(s), hit(p, s, b) PROVE IInv'
  BY <1>0, <1>1, HitStep
<1>2. ASSUME NEW b \in cached(s), waits(p, s, b) PROVE IInv'
  BY <1>0, <1>2, WaitsStep
<1>3. CASE cached(s) = {} /\ recycle(p, s)
  BY <1>0, <1>3, RecycleStep
<1>4. CASE nobuffers
  BY <1>0, <1>4, QuietStep DEF nobuffers
<1> QED
  BY <1>1, <1>2, <1>3, <1>4 DEF bget

\* log_write and bwrite: the holder of a buffer changes its data.
LEMMA ModifyStep ==
    ASSUME IInv, NEW p \in Procs, NEW v \in Values, modify(p, v),
           UNCHANGED pc \/ pc' = [pc EXCEPT ![p] = "iderw"]
    PROVE  IInv'
<1>0. TypeOK /\ ProcInv /\ BufInv
  BY DEF IInv, HolderHasItsSector
<1> DEFINE b == buf[p]
<1>a. /\ pc[p] = "use" /\ b \in Bufs /\ b \in busy /\ b \in valid
      /\ data' = [data EXCEPT ![b] = v]
      /\ dirty' = dirty \cup {b} /\ failed' = failed \ {b}
      /\ UNCHANGED <<sector, busy, valid, lru, idequeue, cmd, disk, buf, want>>
  BY <1>0, Holders DEF modify, Holding, ProcInv
<1>b. \A q \in Procs : pc'[q] = pc[q] \/ (q = p /\ pc'[q] = "iderw")
  BY <1>0 DEF TypeOK
<1>c. \A q \in Procs : pc[q] \in Holding /\ q # p => buf[q] # b
  BY <1>a, Holders DEF Holding
<1>1. TypeOK'
  BY <1>0, <1>a DEF TypeOK
<1>2. HolderHasItsSector'
  <2>1. \A q \in Procs : pc'[q] \in Holding <=> pc[q] \in Holding
    BY <1>a, <1>b DEF Holding
  <2>2. \A q \in Procs : pc'[q] = "bsleep" => buf'[q] \in busy'
    BY <1>a, <1>b DEF IInv, HolderHasItsSector
  <2> QED
    BY <1>1, <1>a, <2>1, <2>2, Holders, HoldersNext
<1>3. QueueHoldsRequests'
  <2>1. \A a \in Bufs : Queued(a) => a # b
    BY <1>a, QueuedIsBusy
  <2>2. \A a \in Bufs : a # b => data'[a] = data[a]
    BY <1>0, <1>a DEF TypeOK
  <2>3. \A q \in Procs : pc[q] \in {"isleep", "iwoken"} =>
           pc'[q] = pc[q] /\ buf'[q] # b
    BY <1>a, <1>b, <1>c DEF Holding
  <2>4. \A q \in Procs : pc'[q] \in {"isleep", "iwoken"} => pc'[q] = pc[q]
    BY <1>b
  <2> QED
    BY <1>a, <2>1, <2>2, <2>3, <2>4, QueueKept DEF unfinished
<1>4. ProcInv'
  BY <1>0, <1>a, <1>b, <1>c DEF ProcInv, unfinished
<1>5. BufInv'
  BY <1>0, <1>a DEF BufInv, TypeOK
<1> QED
  BY <1>2, <1>3, <1>4, <1>5 DEF IInv

\* Moving a buffer to the front keeps every buffer in the LRU list.
LEMMA ToFront ==
    ASSUME TypeOK, NEW b \in Bufs
    PROVE  tofront(b) \in [Bufs -> Bufs] /\ {tofront(b)[i] : i \in Bufs} = Bufs
<1> DEFINE at == CHOOSE i \in Bufs : lru[i] = b
           front == tofront(b)
<1>0. NBUF \in Nat \ {0} /\ lru \in [Bufs -> Bufs] /\ {lru[i] : i \in Bufs} = Bufs
  BY ConstAssumption DEF TypeOK
<1>1. at \in Bufs /\ lru[at] = b
  BY <1>0
<1>2. front = [i \in Bufs |-> IF i = 1 THEN b ELSE IF i <= at THEN lru[i - 1] ELSE lru[i]]
  BY DEF tofront
<1> HIDE DEF at, front
<1>3. \A i \in Bufs : i # 1 => i - 1 \in Bufs
  BY <1>0 DEF Bufs
<1>4. front \in [Bufs -> Bufs]
  BY <1>0, <1>2, <1>3
<1>5. ASSUME NEW a \in Bufs PROVE \E i \in Bufs : front[i] = a
  <2>1. PICK j \in Bufs : lru[j] = a
    BY <1>0
  <2>2. CASE j < at
    <3>1. j + 1 \in Bufs /\ front[j + 1] = a
      BY <1>0, <1>1, <1>2, <2>1, <2>2 DEF Bufs
    <3> QED
      BY <3>1
  <2>3. CASE j = at
    <3>1. 1 \in Bufs /\ front[1] = a
      BY <1>0, <1>1, <1>2, <2>1, <2>3 DEF Bufs
    <3> QED
      BY <3>1
  <2>4. CASE j > at
    <3>1. front[j] = a
      BY <1>0, <1>1, <1>2, <2>1, <2>4 DEF Bufs
    <3> QED
      BY <3>1
  <2>5. j < at \/ j = at \/ j > at
    BY <1>0, <1>1 DEF Bufs
  <2> QED
    BY <2>2, <2>3, <2>4, <2>5
<1> QED
  BY <1>4, <1>5 DEF front

\* brelse gives the buffer back and wakes those who wait for it.
LEMMA BrelseStep ==
    ASSUME IInv, NEW p \in Procs, brelse(p)
    PROVE  IInv'
<1>0. TypeOK /\ ProcInv /\ BufInv /\ None \notin Sectors \cup Nat
  BY ConstAssumption DEF IInv, HolderHasItsSector
<1> DEFINE b == buf[p]
<1>a. /\ pc[p] = "use" /\ b \in Bufs /\ b \in busy /\ b \in valid
      /\ lru' = tofront(b) /\ busy' = busy \ {b}
      /\ buf' = [buf EXCEPT ![p] = None] /\ want' = [want EXCEPT ![p] = None]
      /\ UNCHANGED <<sector, data, valid, dirty, idequeue, cmd, disk, failed>>
  BY <1>0, Holders DEF brelse, Holding, ProcInv
<1>b. \A q \in Procs : q # p /\ pc[q] \in Holding => buf[q] # b
  BY <1>a, Holders DEF Holding
<1>c. /\ pc' \in [Procs -> {"user", "use", "bget", "bsleep", "iderw", "isleep", "iwoken"}]
      /\ pc'[p] = "user"
      /\ \A q \in Procs : q # p =>
            IF pc[q] = "bsleep" /\ buf[q] = b THEN pc'[q] = "bget" ELSE pc'[q] = pc[q]
  <2>1. pc' = wakeup(b, [pc EXCEPT ![p] = "user"])
    BY DEF brelse
  <2>2. \A q \in Procs : q # p /\ pc[q] = "isleep" => buf[q] # b
    BY <1>b DEF Holding
  <2> QED
    BY <1>0, <2>1, <2>2 DEF wakeup, TypeOK
<1>d. \A q \in Procs : q # p => buf'[q] = buf[q] /\ want'[q] = want[q]
  BY <1>0, <1>a DEF TypeOK
<1>e. buf'[p] = None /\ want'[p] = None
  BY <1>0, <1>a DEF TypeOK
<1>1. TypeOK'
  <2>1. lru' \in [Bufs -> Bufs] /\ {lru'[i] : i \in Bufs} = Bufs
    BY <1>0, <1>a, ToFront
  <2> QED
    BY <1>0, <1>a, <1>c, <2>1 DEF TypeOK
<1>2. HolderHasItsSector'
  <2>1. \A q \in Procs : pc'[q] \in Holding => q # p /\ pc[q] \in Holding
    BY <1>c DEF Holding
  <2>2. \A q \in Procs : q # p /\ pc[q] \in Holding => pc'[q] \in Holding
    BY <1>c DEF Holding
  <2>3. \A q \in Procs : pc'[q] = "bsleep" => buf'[q] \in busy'
    BY <1>a, <1>c, <1>d DEF IInv, HolderHasItsSector
  <2>4. \A q \in Procs : pc'[q] \in Holding => buf'[q] \in busy' /\ sector'[buf'[q]] = want'[q]
    BY <1>a, <1>b, <1>d, <2>1, Holders
  <2>5. \A q, t \in Procs : pc'[q] \in Holding /\ pc'[t] \in Holding /\ buf'[q] = buf'[t] => q = t
    BY <1>d, <2>1, Holders
  <2>6. \A a \in busy' : \E q \in Procs : pc'[q] \in Holding /\ buf'[q] = a
    BY <1>a, <1>d, <2>2, Holders
  <2> QED
    BY <1>1, <2>3, <2>4, <2>5, <2>6, HoldersNext
<1>3. QueueHoldsRequests'
  BY <1>a, <1>c, <1>d, QueueKept DEF unfinished
<1>4. ProcInv'
  BY <1>0, <1>a, <1>c, <1>d, <1>e DEF ProcInv, unfinished, TypeOK
<1>5. BufInv'
  BY <1>0, <1>a DEF BufInv
<1> QED
  BY <1>2, <1>3, <1>4, <1>5 DEF IInv

\* A step that moves processes only, from one of the positions in which they
\* hold or wait for their buffers to another.
LEMMA MoveStep ==
    ASSUME IInv, pc' \in [Procs -> {"user", "use", "bget", "bsleep", "iderw", "isleep", "iwoken"}],
           UNCHANGED <<sector, data, flags, lru, idequeue, cmd, disk, failed, buf, want>>,
           \A q \in Procs :
              \/ pc'[q] = pc[q]
              \/ pc[q] = "bsleep" /\ pc'[q] = "bget"
              \/ pc[q] = "isleep" /\ pc'[q] = "iwoken"
              \/ pc[q] = "iwoken" /\ unfinished(buf[q]) /\ pc'[q] = "isleep"
              \/ pc[q] = "iwoken" /\ ~ unfinished(buf[q]) /\ pc'[q] = "use"
    PROVE  IInv'
<1>0. TypeOK /\ ProcInv /\ BufInv
  BY DEF IInv, HolderHasItsSector
<1>a. UNCHANGED <<sector, data, busy, valid, dirty, lru, idequeue, cmd, disk, failed, buf, want>>
  BY DEF flags
<1>1. TypeOK'
  BY <1>0, <1>a DEF TypeOK
<1>2. HolderHasItsSector'
  <2>1. \A q \in Procs : pc'[q] \in Holding <=> pc[q] \in Holding
    BY DEF Holding
  <2>2. \A q \in Procs : pc'[q] = "bsleep" => buf'[q] \in busy'
    BY <1>a DEF IInv, HolderHasItsSector
  <2> QED
    BY <1>1, <1>a, <2>1, <2>2, Holders, HoldersNext
<1>3. QueueHoldsRequests'
  BY <1>a, QueueKept DEF unfinished
<1>4. ProcInv'
  BY <1>0, <1>a DEF ProcInv, unfinished
<1>5. BufInv'
  BY <1>0, <1>a DEF BufInv
<1> QED
  BY <1>2, <1>3, <1>4, <1>5 DEF IInv

\* iderw puts the buffer of its caller at the end of the queue.
LEMMA IderwStep ==
    ASSUME IInv, NEW p \in Procs, iderw(p)
    PROVE  IInv'
<1>0. TypeOK /\ ProcInv /\ BufInv
  BY DEF IInv, HolderHasItsSector
<1> DEFINE b == buf[p]
<1>a. /\ pc[p] = "iderw" /\ b \in Bufs /\ b \in busy /\ unfinished(b)
      /\ idequeue' = Append(idequeue, b)
      /\ cmd' = IF idequeue = <<>> THEN idestart(b) ELSE cmd
      /\ pc' = [pc EXCEPT ![p] = "isleep"]
      /\ UNCHANGED <<sector, data, busy, valid, dirty, lru, disk, failed, buf, want>>
  BY <1>0, Holders DEF iderw, Holding, ProcInv, flags
<1>b. \A q \in Procs : IF q = p THEN pc'[q] = "isleep" ELSE pc'[q] = pc[q]
  BY <1>0, <1>a DEF TypeOK
<1>c. \A q \in Procs : q # p /\ pc[q] \in Holding => buf[q] # b
  BY <1>a, Holders DEF Holding
<1>1. TypeOK'
  BY <1>0, <1>a DEF TypeOK
<1>2. HolderHasItsSector'
  <2>1. \A q \in Procs : pc'[q] \in Holding <=> pc[q] \in Holding
    BY <1>a, <1>b DEF Holding
  <2>2. \A q \in Procs : pc'[q] = "bsleep" => buf'[q] \in busy'
    BY <1>a, <1>b DEF IInv, HolderHasItsSector
  <2> QED
    BY <1>1, <1>a, <2>1, <2>2, Holders, HoldersNext
<1>3. QueueHoldsRequests'
  <2> DEFINE n == Len(idequeue)
  <2>0. n \in Nat /\ idequeue \in Seq(Bufs)
    BY <1>0 DEF BufInv
  <2>1. /\ Len(idequeue') = n + 1 /\ idequeue'[n + 1] = b
        /\ \A i \in 1 .. n : idequeue'[i] = idequeue[i]
    BY <1>a, <2>0
  <2> HIDE DEF n
  <2>2. ~ Queued(b)
    <3>1. \A q \in Procs : pc[q] \in {"isleep", "iwoken"} => buf[q] # b
      BY <1>a, <1>c DEF Holding
    <3> QED
      BY <1>a, <3>1, Queue
  <2>3. \A i \in 1 .. n : idequeue[i] # b
    BY <2>2 DEF Queued, n
  <2>4. \A i, j \in 1 .. Len(idequeue') : idequeue'[i] = idequeue'[j] => i = j
    <3>1. \A i, j \in 1 .. n : idequeue[i] = idequeue[j] => i = j
      BY Queue DEF n
    <3> QED
      BY <2>0, <2>1, <2>3, <3>1
  <2>5. \A a \in Bufs : Queued(a)' <=> Queued(a) \/ a = b
    BY <2>0, <2>1 DEF Queued, n
  <2>6. \A a \in Bufs : unfinished(a)' <=> unfinished(a)
    BY <1>a DEF unfinished
  <2>7. ASSUME NEW a \in Bufs, Queued(a)'
        PROVE  \E q \in Procs : buf'[q] = a /\ pc'[q] \in {"isleep", "iwoken"} /\ unfinished(a)'
    <3>1. CASE a = b
      BY <1>a, <1>b, <2>6, <3>1
    <3>2. CASE a # b
      <4>1. PICK q \in Procs : buf[q] = a /\ pc[q] \in {"isleep", "iwoken"} /\ unfinished(a)
        BY <2>5, <2>7, <3>2, Queue
      <4> QED
        BY <1>a, <1>b, <2>6, <4>1
    <3> QED
      BY <3>1, <3>2
  <2>8. ASSUME NEW a \in Bufs, NEW q \in Procs,
               buf'[q] = a, pc'[q] \in {"isleep", "iwoken"}, unfinished(a)'
        PROVE  Queued(a)'
    <3>1. CASE q = p
      BY <1>a, <2>5, <2>8, <3>1
    <3>2. CASE q # p
      <4>1. Queued(buf[q])
        BY <1>a, <1>b, <2>6, <2>8, <3>2, Queue
      <4> QED
        BY <1>a, <2>5, <2>8, <4>1
    <3> QED
      BY <3>1, <3>2
  <2>9. cmd' = startnext(idequeue)'
    <3>1. \A a \in Bufs : idestart(a)' = idestart(a)
      BY <1>a DEF idestart
    <3>2. idequeue' # <<>>
      BY <2>0, <2>1
    <3>3. CASE idequeue = <<>>
      <4>1. Head(idequeue') = b
        BY <1>a, <3>3
      <4> QED
        BY <1>a, <3>1, <3>2, <3>3, <4>1 DEF startnext
    <3>4. CASE idequeue # <<>>
      <4>1. Head(idequeue') = Head(idequeue) /\ Head(idequeue) \in Bufs
        BY <1>a, <2>0, <3>4
      <4> QED
        BY <1>a, <3>1, <3>2, <3>4, <4>1, Queue DEF startnext
    <3> QED
      BY <3>3, <3>4
  <2> QED
    BY <2>4, <2>7, <2>8, <2>9 DEF QueueHoldsRequests, Queued
<1>4. ProcInv'
  BY <1>0, <1>a, <1>b DEF ProcInv, unfinished
<1>5. BufInv'
  BY <1>0, <1>a DEF BufInv
<1> QED
  BY <1>2, <1>3, <1>4, <1>5 DEF IInv

\* What the interrupt does: the first request is finished and its process woken.
LEMMA Intr ==
    ASSUME IInv, NEW ok \in BOOLEAN, ideintr(ok)
    PROVE  \E b \in Bufs, p \in Procs :
              /\ b = Head(idequeue) /\ idequeue # <<>> /\ Queued(b)
              /\ buf[p] = b /\ pc[p] \in {"isleep", "iwoken"} /\ unfinished(b)
              /\ pc'[p] = "iwoken"
              /\ idequeue' = Tail(idequeue) /\ cmd' = startnext(Tail(idequeue))
              /\ valid' = valid \cup {b} /\ dirty' = dirty \ {b}
              /\ pc' \in [Procs -> {"user", "use", "bget", "bsleep", "iderw", "isleep", "iwoken"}]
              /\ \A q \in Procs : q # p =>
                    IF pc[q] = "bsleep" /\ buf[q] = b THEN pc'[q] = "bget" ELSE pc'[q] = pc[q]
              /\ IF b \in dirty
                 THEN disk' = [disk EXCEPT ![sector[b]] = data[b]] /\ UNCHANGED <<data, failed>>
                 ELSE /\ UNCHANGED disk
                      /\ \/ data' = [data EXCEPT ![b] = disk[sector[b]]] /\ failed' = failed
                         \/ data' = data /\ failed' = failed \cup {b}
              /\ UNCHANGED <<sector, busy, lru, buf, want, panicked>>
<1>0. TypeOK /\ ProcInv /\ BufInv
  BY DEF IInv, HolderHasItsSector
<1> DEFINE b == Head(idequeue)
<1>1. idequeue # <<>> /\ b \in Bufs /\ Queued(b)
  BY <1>0 DEF ideintr, BufInv, Queued
<1>2. PICK p \in Procs : buf[p] = b /\ pc[p] \in {"isleep", "iwoken"} /\ unfinished(b)
  BY <1>1, Queue
<1>3. cmd = idestart(b)
  BY <1>1, Queue DEF startnext
<1>4. /\ disk' = IF cmd.op = "write" THEN [disk EXCEPT ![cmd.at] = cmd.value] ELSE disk
      /\ IF b \in dirty
         THEN ok /\ UNCHANGED <<data, failed>>
         ELSE /\ data' = IF ok THEN [data EXCEPT ![b] = disk[cmd.at]] ELSE data
              /\ failed' = IF ok THEN failed ELSE failed \cup {b}
      /\ valid' = valid \cup {b} /\ dirty' = dirty \ {b}
      /\ pc' = wakeup(b, pc)
      /\ idequeue' = Tail(idequeue) /\ cmd' = startnext(Tail(idequeue))
      /\ UNCHANGED <<sector, busy, lru, buf, want, panicked>>
  BY DEF ideintr
<1> HIDE DEF b
<1>5. /\ pc' \in [Procs -> {"user", "use", "bget", "bsleep", "iderw", "isleep", "iwoken"}]
      /\ pc'[p] = "iwoken"
      /\ \A q \in Procs : q # p =>
            IF pc[q] = "bsleep" /\ buf[q] = b THEN pc'[q] = "bget" ELSE pc'[q] = pc[q]
  <2>1. \A q \in Procs : q # p /\ pc[q] = "isleep" => buf[q] # b
    BY <1>2, Holders DEF Holding
  <2> QED
    BY <1>0, <1>2, <1>4, <2>1 DEF wakeup, TypeOK
<1>6. IF b \in dirty
      THEN disk' = [disk EXCEPT ![sector[b]] = data[b]] /\ UNCHANGED <<data, failed>>
      ELSE /\ UNCHANGED disk
           /\ \/ data' = [data EXCEPT ![b] = disk[sector[b]]] /\ failed' = failed
              \/ data' = data /\ failed' = failed \cup {b}
  <2>1. CASE b \in dirty
    BY <1>3, <1>4, <2>1 DEF idestart
  <2>2. CASE b \notin dirty
    BY <1>3, <1>4, <2>2 DEF idestart
  <2> QED
    BY <2>1, <2>2
<1> QED
  BY <1>1, <1>2, <1>4, <1>5, <1>6 DEF b

\* The interrupt ends the first request and starts the next.
LEMMA IdeintrStep ==
    ASSUME IInv, NEW ok \in BOOLEAN, ideintr(ok)
    PROVE  IInv'
<1>0. TypeOK /\ ProcInv /\ BufInv /\ None \notin Sectors \cup Nat
  BY ConstAssumption DEF IInv, HolderHasItsSector
<1>a. PICK b \in Bufs, p \in Procs :
        /\ b = Head(idequeue) /\ idequeue # <<>> /\ Queued(b)
        /\ buf[p] = b /\ pc[p] \in {"isleep", "iwoken"} /\ unfinished(b)
        /\ pc'[p] = "iwoken"
        /\ idequeue' = Tail(idequeue) /\ cmd' = startnext(Tail(idequeue))
        /\ valid' = valid \cup {b} /\ dirty' = dirty \ {b}
        /\ pc' \in [Procs -> {"user", "use", "bget", "bsleep", "iderw", "isleep", "iwoken"}]
        /\ \A q \in Procs : q # p =>
              IF pc[q] = "bsleep" /\ buf[q] = b THEN pc'[q] = "bget" ELSE pc'[q] = pc[q]
        /\ IF b \in dirty
           THEN disk' = [disk EXCEPT ![sector[b]] = data[b]] /\ UNCHANGED <<data, failed>>
           ELSE /\ UNCHANGED disk
                /\ \/ data' = [data EXCEPT ![b] = disk[sector[b]]] /\ failed' = failed
                   \/ data' = data /\ failed' = failed \cup {b}
        /\ UNCHANGED <<sector, busy, lru, buf, want, panicked>>
  BY Intr
<1>b. sector[b] \in Sectors /\ b \in busy
  <2>1. b \in busy
    BY <1>a, QueuedIsBusy
  <2> QED
    BY <1>0, <2>1 DEF TypeOK, BufInv
<1>c. \A q \in Procs : q # p /\ pc[q] \in Holding => buf[q] # b
  BY <1>a, Holders DEF Holding
<1>1. TypeOK'
  <2>1. CASE b \in dirty
    BY <1>0, <1>a, <1>b, <2>1 DEF TypeOK
  <2>2. CASE b \notin dirty
    <3>1. disk[sector[b]] \in Values
      BY <1>0, <1>b DEF TypeOK
    <3>2. \/ data' = [data EXCEPT ![b] = disk[sector[b]]] /\ failed' = failed
          \/ data' = data /\ failed' = failed \cup {b}
      BY <1>a, <2>2
    <3>3. data' \in [Bufs -> Values] /\ failed' \subseteq Bufs
      BY <1>0, <3>1, <3>2 DEF TypeOK
    <3> QED
      BY <1>0, <1>a, <2>2, <3>3 DEF TypeOK
  <2> QED
    BY <2>1, <2>2
<1>2. HolderHasItsSector'
  <2>1. \A q \in Procs : pc'[q] \in Holding <=> pc[q] \in Holding
    BY <1>a DEF Holding
  <2>2. \A q \in Procs : pc'[q] = "bsleep" => buf'[q] \in busy'
    BY <1>a DEF IInv, HolderHasItsSector
  <2> QED
    BY <1>1, <1>a, <2>1, <2>2, Holders, HoldersNext
<1>3. QueueHoldsRequests'
  <2> DEFINE n == Len(idequeue)
  <2>0. n \in Nat \ {0} /\ idequeue \in Seq(Bufs) /\ idequeue[1] = b
    BY <1>0, <1>a DEF BufInv
  <2>1. Len(idequeue') = n - 1 /\ \A i \in 1 .. n - 1 : idequeue'[i] = idequeue[i + 1]
    BY <1>a, <2>0
  <2>2. \A i, j \in 1 .. n : idequeue[i] = idequeue[j] => i = j
    BY Queue
  <2> HIDE DEF n
  <2>3. \A i, j \in 1 .. Len(idequeue') : idequeue'[i] = idequeue'[j] => i = j
    BY <2>0, <2>1, <2>2
  <2>4. \A a \in Bufs : Queued(a)' <=> Queued(a) /\ a # b
    <3>1. ASSUME NEW a \in Bufs, Queued(a)' PROVE Queued(a) /\ a # b
      <4>1. PICK i \in 1 .. n - 1 : idequeue'[i] = a
        BY <2>1, <3>1 DEF Queued
      <4>2. i + 1 \in 1 .. n /\ idequeue[i + 1] = a /\ i + 1 # 1 /\ 1 \in 1 .. n
        BY <2>0, <2>1, <4>1
      <4> QED
        BY <2>0, <2>2, <4>2 DEF Queued, n
    <3>2. ASSUME NEW a \in Bufs, Queued(a), a # b PROVE Queued(a)'
      <4>1. PICK i \in 1 .. n : idequeue[i] = a
        BY <3>2 DEF Queued, n
      <4>2. i - 1 \in 1 .. n - 1 /\ idequeue'[i - 1] = a
        BY <2>0, <2>1, <3>2, <4>1
      <4> QED
        BY <2>1, <4>2 DEF Queued
    <3> QED
      BY <3>1, <3>2
  <2>5. /\ ~ unfinished(b)'
        /\ \A a \in Bufs : a # b => (unfinished(a)' <=> unfinished(a))
    BY <1>a DEF unfinished
  <2>6. ASSUME NEW a \in Bufs, Queued(a)'
        PROVE  \E q \in Procs : buf'[q] = a /\ pc'[q] \in {"isleep", "iwoken"} /\ unfinished(a)'
    <3>1. PICK q \in Procs : buf[q] = a /\ pc[q] \in {"isleep", "iwoken"} /\ unfinished(a)
      BY <2>4, <2>6, Queue
    <3>2. q # p /\ buf'[q] = a /\ pc'[q] = pc[q]
      BY <1>a, <2>4, <2>6, <3>1
    <3> QED
      BY <2>4, <2>5, <2>6, <3>1, <3>2
  <2>7. ASSUME NEW a \in Bufs, NEW q \in Procs,
               buf'[q] = a, pc'[q] \in {"isleep", "iwoken"}, unfinished(a)'
        PROVE  Queued(a)'
    <3>1. a # b /\ unfinished(a)
      BY <2>5, <2>7
    <3>2. q # p /\ pc[q] \in {"isleep", "iwoken"} /\ buf[q] = a
      BY <1>a, <2>7, <3>1
    <3>3. Queued(a)
      BY <3>1, <3>2, Queue
    <3> QED
      BY <2>4, <3>1, <3>3
  <2>8. cmd' = startnext(idequeue)'
    <3>1. CASE idequeue' = <<>>
      BY <1>a, <3>1 DEF startnext
    <3>2. CASE idequeue' # <<>>
      <4>1. idequeue' \in Seq(Bufs)
        BY <1>a, <2>0
      <4>2. PICK h \in Bufs : h = Head(idequeue') /\ h = idequeue'[1] /\ 1 \in 1 .. Len(idequeue')
        BY <3>2, <4>1
      <4>3. Queued(h)'
        BY <4>2 DEF Queued
      <4>4. h # b
        BY <2>4, <4>3
      <4>5. data'[h] = data[h] /\ sector'[h] = sector[h] /\ (h \in dirty' <=> h \in dirty)
        BY <1>0, <1>a, <4>4 DEF TypeOK
      <4>6. idestart(h)' = idestart(h)
        BY <4>5 DEF idestart
      <4>7. cmd' = idestart(h)
        BY <1>a, <3>2, <4>2 DEF startnext
      <4>8. startnext(idequeue)' = idestart(h)'
        BY <3>2, <4>2 DEF startnext
      <4> QED
        BY <4>6, <4>7, <4>8
    <3> QED
      BY <3>1, <3>2
  <2> QED
    BY <2>3, <2>6, <2>7, <2>8 DEF QueueHoldsRequests, Queued
<1>4. ProcInv'
  BY <1>0, <1>a, <1>c DEF ProcInv, unfinished, Holding
<1>5. BufInv'
  <2>1. idequeue' \in Seq(Bufs)
    BY <1>0, <1>a DEF BufInv
  <2>2. ASSUME NEW a \in valid' \ (dirty' \cup failed')
        PROVE  data'[a] = disk'[sector'[a]]
    <3>1. CASE a = b
      BY <1>0, <1>a, <1>b, <2>2, <3>1 DEF TypeOK, BufInv, unfinished
    <3>2. CASE a # b
      <4>1. a \in valid \ (dirty \cup failed) /\ a \in Bufs /\ data'[a] = data[a]
        BY <1>0, <1>a, <2>2, <3>2 DEF TypeOK
      <4>2. sector[a] # sector[b] /\ sector[a] \in Sectors
        BY <1>0, <1>b, <3>2, <4>1 DEF BufInv, TypeOK
      <4>3. disk'[sector[a]] = disk[sector[a]]
        BY <1>0, <1>a, <4>2 DEF TypeOK
      <4> QED
        BY <1>0, <1>a, <4>1, <4>3 DEF BufInv
    <3> QED
      BY <3>1, <3>2
  <2>3. dirty' \subseteq valid' /\ failed' \subseteq valid' /\ failed' \cap dirty' = {}
    BY <1>0, <1>a DEF BufInv
  <2> QED
    BY <1>0, <1>a, <1>b, <2>1, <2>2, <2>3 DEF BufInv
<1> QED
  BY <1>2, <1>3, <1>4, <1>5 DEF IInv

LEMMA NextIInv == IInv /\ [Next]_vars => IInv'
<1> SUFFICES ASSUME IInv, [Next]_vars PROVE IInv'
  OBVIOUS
<1>0. TypeOK /\ ProcInv
  BY DEF IInv, HolderHasItsSector
<1>1. CASE UNCHANGED vars
  BY <1>1, QuietStep DEF vars
<1>2. ASSUME NEW p \in Procs, bgetagain(p) PROVE IInv'
  BY <1>0, <1>2, BgetStep DEF bgetagain, ProcInv
<1>3. ASSUME NEW p \in Procs, iderw(p) PROVE IInv'
  BY <1>3, IderwStep
<1>4. ASSUME NEW p \in Procs, iderwagain(p) PROVE IInv'
  BY <1>0, <1>4, MoveStep DEF iderwagain, TypeOK
<1>5. ASSUME NEW p \in Procs, brelse(p) PROVE IInv'
  BY <1>5, BrelseStep
<1>6. ASSUME NEW p \in Procs, kill(p) PROVE IInv'
  BY <1>0, <1>6, MoveStep DEF kill, TypeOK
<1>7. ASSUME NEW p \in Procs, NEW s \in Sectors, bread(p, s) PROVE IInv'
  BY <1>7, BgetStep DEF bread
<1>8. ASSUME NEW p \in Procs, NEW v \in Values, log_write(p, v) \/ bwrite(p, v) PROVE IInv'
  BY <1>8, ModifyStep DEF log_write, bwrite
<1>9. ASSUME NEW ok \in BOOLEAN, ideintr(ok) PROVE IInv'
  BY <1>9, IdeintrStep
<1> QED
  BY <1>1, <1>2, <1>3, <1>4, <1>5, <1>6, <1>7, <1>8, <1>9 DEF Next, Continue

\* The invariant the others follow from.
THEOREM Invariance == Spec => []IInv
  BY InitIInv, NextIInv, PTL DEF Spec

\* bget, brelse and the wakeups between them: a busy buffer has one holder, who
\* has the sector it asked for, and nobody sleeps for a buffer that is free.
THEOREM HoldersCorrect == Spec => []HolderHasItsSector
<1>1. IInv => HolderHasItsSector
  BY DEF IInv
<1> QED
  BY <1>1, Invariance, PTL

\* iderw and ideintr: the queue has the unfinished requests, each once, and the
\* disk works for the first.
THEOREM QueueCorrect == Spec => []QueueHoldsRequests
<1>1. IInv => QueueHoldsRequests
  BY DEF IInv
<1> QED
  BY <1>1, Invariance, PTL

-----------------------------------------------------------------------------
(* Refinement                                                              *)

\* A process has sector s and its contents.
Has(p, s) == pc[p] \in Holding /\ want[p] = s /\ buf[p] \in valid

\* What users of the cache see, in terms of buffers and processes.
Seen ==
    /\ content \in [Sectors -> Values] /\ holder \in [Sectors -> Procs \cup {None}]
    /\ \A b \in valid : sector[b] \in Sectors /\ content[sector[b]] = data[b]
    /\ \A s \in Sectors : (\A b \in valid : sector[b] # s) => content[s] = disk[s]
    /\ \A s \in Sectors, p \in Procs : holder[s] = p <=> Has(p, s)
    /\ bad \subseteq Sectors

LEMMA View == IInv => Seen
<1> SUFFICES ASSUME IInv PROVE Seen
  OBVIOUS
<1>0. TypeOK /\ BufInv /\ None \notin Procs
  BY ConstAssumption DEF IInv, HolderHasItsSector
<1>1. \A b \in valid : b \in Bufs /\ sector[b] \in Sectors
  BY <1>0 DEF TypeOK, BufInv
<1>2. \A b \in valid : Sector(sector[b]) = b
  <2> SUFFICES ASSUME NEW b \in valid PROVE Sector(sector[b]) = b
    OBVIOUS
  <2>1. \A a \in Bufs : sector[a] = sector[b] => a = b
    BY <1>0, <1>1, ConstAssumption DEF BufInv
  <2> QED
    BY <1>1, <2>1 DEF Sector
<1>3. ASSUME NEW s \in Sectors
      PROVE  /\ content[s] \in Values
             /\ (\A b \in valid : sector[b] # s) => content[s] = disk[s]
             /\ \A b \in valid : sector[b] = s => content[s] = data[b]
  <2>1. content[s] = IF \E b \in valid : sector[b] = s THEN data[Sector(s)] ELSE disk[s]
    BY DEF content
  <2>2. \A b \in valid : data[b] \in Values
    BY <1>0, <1>1 DEF TypeOK
  <2>3. disk[s] \in Values
    BY <1>0 DEF TypeOK
  <2> QED
    BY <1>2, <2>1, <2>2, <2>3
<1>4. content \in [Sectors -> Values]
  BY <1>3 DEF content
<1>5. ASSUME NEW s \in Sectors
      PROVE  /\ holder[s] \in Procs \cup {None}
             /\ \A p \in Procs : holder[s] = p <=> Has(p, s)
  <2>1. holder[s] = IF \E p \in Procs, b \in valid : sector[b] = s /\ Holds(p, b)
                    THEN CHOOSE p \in Procs : Holds(p, Sector(s)) ELSE None
    BY DEF holder
  <2>2. \A p \in Procs, b \in valid : sector[b] = s /\ Holds(p, b) => Has(p, s)
    BY Holders DEF Holds, Has, Holding
  <2>3. \A p \in Procs : Has(p, s) => buf[p] \in valid /\ sector[buf[p]] = s /\ Holds(p, buf[p])
    BY Holders DEF Holds, Has, Holding
  <2>4. CASE \E p \in Procs, b \in valid : sector[b] = s /\ Holds(p, b)
    <3>1. PICK p \in Procs, b \in valid : sector[b] = s /\ Holds(p, b)
      BY <2>4
    <3>2. Sector(s) = b
      BY <1>2, <3>1
    <3>3. \A q \in Procs : Holds(q, b) => q = p
      BY <3>1, Holders DEF Holds, Holding
    <3>4. holder[s] = p
      BY <2>1, <3>1, <3>2, <3>3
    <3>5. \A q \in Procs : Has(q, s) => q = p
      BY <1>2, <2>3, <3>2, <3>3
    <3> QED
      BY <2>2, <3>1, <3>4, <3>5
  <2>5. CASE ~ \E p \in Procs, b \in valid : sector[b] = s /\ Holds(p, b)
    BY <1>0, <2>1, <2>3, <2>5
  <2> QED
    BY <2>4, <2>5
<1>6. holder \in [Sectors -> Procs \cup {None}]
  BY <1>5 DEF holder
<1>7. bad \subseteq Sectors
  BY <1>0, <1>1 DEF bad, BufInv
<1> QED
  BY <1>1, <1>3, <1>4, <1>5, <1>6, <1>7 DEF Seen

\* The same of the state after a step.
LEMMA ViewNext == IInv' => Seen'
  BY View, PTL

\* Nobody but the new holder sees who has a sector.
LEMMA SameHolder ==
    ASSUME IInv, IInv', NEW s \in Sectors, \A p \in Procs : Has(p, s)' <=> Has(p, s)
    PROVE  holder'[s] = holder[s]
<1>1. /\ holder[s] \in Procs \cup {None} /\ \A p \in Procs : holder[s] = p <=> Has(p, s)
  BY View DEF Seen
<1>2. /\ holder'[s] \in Procs \cup {None} /\ \A p \in Procs : holder'[s] = p <=> Has(p, s)'
  BY ViewNext DEF Seen
<1> QED
  BY <1>1, <1>2

\* The contents of a sector stay when its valid buffer does, or the disk.
LEMMA SameContent ==
    ASSUME IInv, IInv', NEW s \in Sectors,
           \/ \E b \in valid : b \in valid' /\ sector[b] = s /\ sector'[b] = s /\ data'[b] = data[b]
           \/ /\ \A b \in valid : sector[b] # s
              /\ \A b \in valid' : sector'[b] # s
              /\ disk'[s] = disk[s]
    PROVE  content'[s] = content[s]
  BY View, ViewNext DEF Seen

\* Functions on the sectors are equal if their values are.
LEMMA SameView ==
    ASSUME IInv, IInv',
           \A s \in Sectors : content'[s] = content[s],
           \A s \in Sectors : holder'[s] = holder[s],
           bad' = bad
    PROVE  UNCHANGED <<content, holder, bad>>
<1>1. content = [s \in Sectors |-> content[s]] /\ holder = [s \in Sectors |-> holder[s]]
  BY View DEF Seen
<1>2. content' = [s \in Sectors |-> content'[s]] /\ holder' = [s \in Sectors |-> holder'[s]]
  BY ViewNext DEF Seen
<1> QED
  BY <1>1, <1>2

\* Steps that users do not see: they change neither buffers nor the disk, and
\* nobody gets or gives back a valid buffer.
LEMMA Unseen ==
    ASSUME IInv, IInv', UNCHANGED <<sector, data, valid, disk, failed>>,
           \A p \in Procs, s \in Sectors : Has(p, s)' <=> Has(p, s)
    PROVE  [Abs!Next]_Abs!vars
<1>1. \A s \in Sectors : content'[s] = content[s]
  BY SameContent
<1>2. \A s \in Sectors : holder'[s] = holder[s]
  BY SameHolder
<1>3. bad' = bad
  BY DEF bad
<1> QED
  BY <1>1, <1>2, <1>3, SameView DEF Abs!vars

\* A sector gets a new holder.
LEMMA Locks ==
    ASSUME IInv, IInv', NEW p \in Procs, NEW s \in Sectors, Has(p, s)',
           \A q \in Procs : ~ Has(q, s),
           \A q \in Procs, t \in Sectors : t # s => (Has(q, t)' <=> Has(q, t))
    PROVE  holder[s] = None /\ holder' = [holder EXCEPT ![s] = p]
<1>1. holder[s] = None
  BY View DEF Seen
<1>2. holder'[s] = p
  BY ViewNext DEF Seen
<1>3. \A t \in Sectors : t # s => holder'[t] = holder[t]
  BY SameHolder
<1>4. holder \in [Sectors -> Procs \cup {None}] /\ holder' \in [Sectors -> Procs \cup {None}]
  BY View, ViewNext DEF Seen
<1> QED
  BY <1>1, <1>2, <1>3, <1>4

\* bget with a valid buffer reads the sector.
LEMMA HitSimulates ==
    ASSUME IInv, IInv', NEW p \in Procs, pc[p] \in {"user", "bget"}, NEW s \in Sectors,
           NEW b \in cached(s), hit(p, s, b), UNCHANGED <<data, lru, idequeue, cmd, disk>>
    PROVE  [Abs!Next]_Abs!vars
<1>0. TypeOK
  BY DEF IInv, HolderHasItsSector
<1>a. /\ b \in Bufs /\ sector[b] = s /\ b \notin busy
      /\ buf' = [buf EXCEPT ![p] = b] /\ want' = [want EXCEPT ![p] = s]
      /\ pc' = [pc EXCEPT ![p] = IF b \in valid THEN "use" ELSE "iderw"]
      /\ UNCHANGED <<sector, data, valid, disk, failed>>
  BY DEF hit, given, cached
<1>b. \A q \in Procs, t \in Sectors : q # p => (Has(q, t)' <=> Has(q, t))
  BY <1>0, <1>a DEF Has, TypeOK
<1>c. \A t \in Sectors : ~ Has(p, t)
  BY DEF Has, Holding
<1>d. \A t \in Sectors : Has(p, t)' <=> t = s /\ b \in valid
  BY <1>0, <1>a DEF Has, Holding, TypeOK
<1>1. CASE b \in valid
  <2>1. \A q \in Procs : ~ Has(q, s)
    <3> SUFFICES ASSUME NEW q \in Procs, Has(q, s) PROVE FALSE
      OBVIOUS
    <3>1. buf[q] \in busy /\ sector[buf[q]] = s /\ buf[q] \in Bufs
      BY Holders DEF Has
    <3>2. buf[q] = b
      BY <1>a, <3>1, ConstAssumption DEF IInv, BufInv
    <3> QED
      BY <1>a, <3>1, <3>2
  <2>2. holder[s] = None /\ holder' = [holder EXCEPT ![s] = p]
    BY <1>1, <1>b, <1>c, <1>d, <2>1, Locks
  <2>3. \A t \in Sectors : content'[t] = content[t]
    BY <1>a, SameContent
  <2>4. content' = content
    <3>1. content \in [Sectors -> Values] /\ content' \in [Sectors -> Values]
      BY View, ViewNext DEF Seen
    <3> QED
      BY <2>3, <3>1
  <2>5. bad' = bad
    BY <1>a DEF bad
  <2>6. Abs!Read(p, s)
    BY <2>2, <2>4, <2>5 DEF Abs!Read, Abs!Lock
  <2> QED
    BY <2>6 DEF Abs!Next
<1>2. CASE b \notin valid
  BY <1>2, <1>a, <1>b, <1>c, <1>d, Unseen
<1> QED
  BY <1>1, <1>2

\* Recycling a buffer is not seen, unless it held the data of a failed read:
\* then the sector has its contents on disk again.
LEMMA RecycleSimulates ==
    ASSUME IInv, IInv', NEW p \in Procs, pc[p] \in {"user", "bget"}, NEW s \in Sectors,
           cached(s) = {}, recycle(p, s), UNCHANGED <<data, lru, idequeue, cmd, disk>>
    PROVE  [Abs!Next]_Abs!vars
<1>0. TypeOK /\ BufInv
  BY DEF IInv, HolderHasItsSector
<1>a. PICK b \in Bufs :
        /\ b \notin busy /\ b \notin dirty
        /\ sector' = [sector EXCEPT ![b] = s]
        /\ valid' = valid \ {b} /\ failed' = failed \ {b}
        /\ buf' = [buf EXCEPT ![p] = b] /\ want' = [want EXCEPT ![p] = s]
        /\ pc' = [pc EXCEPT ![p] = "iderw"]
        /\ UNCHANGED <<data, disk>>
  <2> DEFINE c == lru[CHOOSE i \in recyclable : \A j \in recyclable : j <= i]
  <2>1. c \in Bufs /\ c \notin busy /\ c \notin dirty
    BY <1>0, Recycled DEF recycle
  <2>2. /\ sector' = [sector EXCEPT ![c] = s]
        /\ valid' = valid \ {c} /\ failed' = failed \ {c}
        /\ given(p, s, c)
    BY DEF recycle
  <2> HIDE DEF c
  <2> QED
    BY <2>1, <2>2 DEF given
<1>b. \A a \in Bufs : sector[a] # s
  BY DEF cached
<1>c. \A q \in Procs, t \in Sectors : Has(q, t)' <=> Has(q, t)
  <2>1. \A q \in Procs : pc[q] \in Holding => buf[q] # b
    BY <1>a, Holders
  <2>2. \A t \in Sectors : ~ Has(p, t) /\ ~ Has(p, t)'
    BY <1>0, <1>a DEF Has, Holding, TypeOK
  <2>3. \A q \in Procs : q # p => pc'[q] = pc[q] /\ buf'[q] = buf[q] /\ want'[q] = want[q]
    BY <1>0, <1>a DEF TypeOK
  <2> QED
    BY <1>a, <2>1, <2>2, <2>3 DEF Has
<1>d. \A a \in Bufs : a # b => sector'[a] = sector[a]
  BY <1>0, <1>a DEF TypeOK
<1>e. valid \subseteq Bufs /\ failed \subseteq valid
  BY <1>0 DEF TypeOK, BufInv
<1>1. \A t \in Sectors : holder'[t] = holder[t]
  BY <1>c, SameHolder
<1>2. \A t \in Sectors : ~ (b \in valid /\ sector[b] = t) => content'[t] = content[t]
  <2> SUFFICES ASSUME NEW t \in Sectors, ~ (b \in valid /\ sector[b] = t)
               PROVE  content'[t] = content[t]
    OBVIOUS
  <2>1. CASE \E a \in valid : sector[a] = t
    BY <1>a, <1>d, <1>e, <2>1, SameContent
  <2>2. CASE \A a \in valid : sector[a] # t
    BY <1>a, <1>d, <1>e, <2>2, SameContent
  <2> QED
    BY <2>1, <2>2
<1>3. b \in valid => /\ sector[b] \in Sectors /\ content'[sector[b]] = disk[sector[b]]
                     /\ content[sector[b]] = data[b]
  <2> SUFFICES ASSUME b \in valid
               PROVE  /\ sector[b] \in Sectors /\ content'[sector[b]] = disk[sector[b]]
                      /\ content[sector[b]] = data[b]
    OBVIOUS
  <2>1. sector[b] \in Sectors /\ content[sector[b]] = data[b]
    BY View DEF Seen
  <2>2. \A a \in valid' : sector'[a] # sector[b]
    BY <1>0, <1>a, <1>d, <1>e, <2>1, ConstAssumption DEF BufInv
  <2> QED
    BY <1>a, <2>1, <2>2, ViewNext DEF Seen
<1>4. CASE b \in failed
  <2>1. sector[b] \in bad /\ sector[b] \in Sectors /\ b \in valid
    BY <1>3, <1>4, <1>e DEF bad
  <2>2. bad' = bad \ {sector[b]}
    <3>1. \A a \in failed : a # b => sector[a] # sector[b]
      BY <1>0, <1>e, <2>1, ConstAssumption DEF BufInv
    <3> QED
      BY <1>a, <1>d, <1>e, <3>1 DEF bad
  <2>3. disk[sector[b]] \in Values
    BY <1>0, <2>1 DEF TypeOK
  <2>4. content' = [content EXCEPT ![sector[b]] = disk[sector[b]]]
    <3>1. content \in [Sectors -> Values] /\ content' \in [Sectors -> Values]
      BY View, ViewNext DEF Seen
    <3> QED
      BY <1>2, <1>3, <2>1, <3>1
  <2>5. holder' = holder
    <3>1. holder = [t \in Sectors |-> holder[t]] /\ holder' = [t \in Sectors |-> holder'[t]]
      BY View, ViewNext DEF Seen
    <3> QED
      BY <1>1, <3>1
  <2>6. Abs!Forget(sector[b])
    BY <2>1, <2>2, <2>3, <2>4, <2>5 DEF Abs!Forget
  <2> QED
    BY <2>1, <2>6 DEF Abs!Next
<1>5. CASE b \notin failed
  <2>1. b \in valid => data[b] = disk[sector[b]]
    BY <1>0, <1>a, <1>5 DEF BufInv
  <2>2. \A t \in Sectors : content'[t] = content[t]
    BY <1>2, <1>3, <2>1
  <2>3. bad' = bad
    BY <1>5, <1>a, <1>d, <1>e DEF bad
  <2> QED
    BY <1>1, <2>2, <2>3, SameView DEF Abs!vars
<1> QED
  BY <1>4, <1>5

\* bget reads the sector, waits, recycles a buffer or finds none.
LEMMA BgetSimulates ==
    ASSUME IInv, IInv', NEW p \in Procs, pc[p] \in {"user", "bget"}, NEW s \in Sectors, bget(p, s)
    PROVE  [Abs!Next]_Abs!vars
<1>0. UNCHANGED <<data, lru, idequeue, cmd, disk>> /\ TypeOK
  BY DEF bget, IInv, HolderHasItsSector
<1>1. ASSUME NEW b \in cached(s), hit(p, s, b) PROVE [Abs!Next]_Abs!vars
  BY <1>0, <1>1, HitSimulates
<1>2. ASSUME NEW b \in cached(s), waits(p, s, b) PROVE [Abs!Next]_Abs!vars
  BY <1>0, <1>2, Unseen DEF waits, Has, Holding, TypeOK, flags
<1>3. CASE cached(s) = {} /\ recycle(p, s)
  BY <1>0, <1>3, RecycleSimulates
<1>4. CASE nobuffers
  BY <1>0, <1>4, Unseen DEF nobuffers, Has, flags
<1> QED
  BY <1>1, <1>2, <1>3, <1>4 DEF bget

\* The holder writes its sector.
LEMMA ModifySimulates ==
    ASSUME IInv, IInv', NEW p \in Procs, NEW v \in Values, modify(p, v),
           UNCHANGED pc \/ pc' = [pc EXCEPT ![p] = "iderw"]
    PROVE  [Abs!Next]_Abs!vars
<1>0. TypeOK /\ BufInv /\ ProcInv
  BY DEF IInv, HolderHasItsSector
<1> DEFINE b == buf[p]
           s == sector[b]
<1>a. /\ pc[p] = "use" /\ b \in Bufs /\ b \in valid /\ s = want[p] /\ s \in Sectors
      /\ data' = [data EXCEPT ![b] = v] /\ failed' = failed \ {b}
      /\ UNCHANGED <<sector, valid, disk, buf, want>>
  BY <1>0, Holders DEF modify, Holding, ProcInv
<1>b. \A q \in Procs : pc'[q] \in Holding <=> pc[q] \in Holding
  BY <1>0, <1>a DEF TypeOK, Holding
<1>c. valid \subseteq Bufs /\ failed \subseteq valid
  BY <1>0 DEF TypeOK, BufInv
<1> HIDE DEF b, s
<1>1. holder' = holder
  <2>1. \A t \in Sectors : holder'[t] = holder[t]
    BY <1>a, <1>b, SameHolder DEF Has
  <2>2. holder = [t \in Sectors |-> holder[t]] /\ holder' = [t \in Sectors |-> holder'[t]]
    BY View, ViewNext DEF Seen
  <2> QED
    BY <2>1, <2>2
<1>2. holder[s] = p
  BY <1>a, View DEF Seen, Has, Holding, b, s
<1>3. content' = [content EXCEPT ![s] = v]
  <2>1. content'[s] = v
    BY <1>0, <1>a, ViewNext DEF Seen, TypeOK, s
  <2>2. \A t \in Sectors : t # s => content'[t] = content[t]
    <3> SUFFICES ASSUME NEW t \in Sectors, t # s PROVE content'[t] = content[t]
      OBVIOUS
    <3>1. CASE \E a \in valid : sector[a] = t
      <4>1. PICK a \in valid : sector[a] = t
        BY <3>1
      <4>2. a # b /\ data'[a] = data[a]
        BY <1>0, <1>a, <1>c, <4>1 DEF TypeOK, s
      <4> QED
        BY <1>a, <4>1, <4>2, SameContent
    <3>2. CASE \A a \in valid : sector[a] # t
      BY <1>a, <3>2, SameContent
    <3> QED
      BY <3>1, <3>2
  <2>3. content \in [Sectors -> Values] /\ content' \in [Sectors -> Values]
    BY View, ViewNext DEF Seen
  <2> QED
    BY <2>1, <2>2, <2>3
<1>4. bad' = bad \ {s}
  <2>1. \A a \in failed : a # b => sector[a] # s
    BY <1>0, <1>a, <1>c, ConstAssumption DEF BufInv, s
  <2> QED
    BY <1>a, <2>1 DEF bad, s
<1>5. Abs!Write(p, s, v)
  BY <1>1, <1>2, <1>3, <1>4 DEF Abs!Write
<1> QED
  BY <1>5, <1>a DEF Abs!Next

\* brelse releases the sector.
LEMMA BrelseSimulates ==
    ASSUME IInv, IInv', NEW p \in Procs, brelse(p)
    PROVE  [Abs!Next]_Abs!vars
<1>0. TypeOK /\ BufInv /\ ProcInv /\ None \notin Sectors
  BY ConstAssumption DEF IInv, HolderHasItsSector
<1> DEFINE b == buf[p]
           s == sector[b]
<1>a. /\ pc[p] = "use" /\ b \in Bufs /\ b \in valid /\ s = want[p] /\ s \in Sectors
      /\ buf' = [buf EXCEPT ![p] = None] /\ want' = [want EXCEPT ![p] = None]
      /\ UNCHANGED <<sector, data, valid, disk, failed>>
  BY <1>0, Holders DEF brelse, Holding, ProcInv
<1>b. \A q \in Procs : pc'[q] \in Holding <=> q # p /\ pc[q] \in Holding
  <2>1. pc' = wakeup(b, [pc EXCEPT ![p] = "user"])
    BY DEF brelse
  <2> QED
    BY <1>0, <2>1 DEF wakeup, TypeOK, Holding
<1>c. \A q \in Procs : q # p => buf'[q] = buf[q] /\ want'[q] = want[q]
  BY <1>0, <1>a DEF TypeOK
<1>d. \A q \in Procs, t \in Sectors : q # p => (Has(q, t)' <=> Has(q, t))
  BY <1>a, <1>b, <1>c DEF Has
<1>e. \A t \in Sectors : ~ Has(p, t)' /\ (Has(p, t) <=> t = s)
  BY <1>a, <1>b DEF Has, Holding
<1> HIDE DEF b, s
<1>1. holder[s] = p
  BY <1>a, <1>e, View DEF Seen
<1>2. \A q \in Procs : q # p => ~ Has(q, s)
  BY <1>a, <1>1, View DEF Seen
<1>3. holder'[s] = None
  BY <1>a, <1>d, <1>e, <1>2, ViewNext DEF Seen
<1>4. \A t \in Sectors : t # s => holder'[t] = holder[t]
  BY <1>d, <1>e, SameHolder
<1>5. holder' = [holder EXCEPT ![s] = None]
  <2>1. holder \in [Sectors -> Procs \cup {None}] /\ holder' \in [Sectors -> Procs \cup {None}]
    BY View, ViewNext DEF Seen
  <2> QED
    BY <1>a, <1>3, <1>4, <2>1
<1>6. content' = content
  <2>1. \A t \in Sectors : content'[t] = content[t]
    BY <1>a, SameContent
  <2>2. content \in [Sectors -> Values] /\ content' \in [Sectors -> Values]
    BY View, ViewNext DEF Seen
  <2> QED
    BY <2>1, <2>2
<1>7. bad' = bad
  BY <1>a DEF bad
<1>8. Abs!Release(p, s)
  BY <1>1, <1>5, <1>6, <1>7 DEF Abs!Release
<1> QED
  BY <1>8, <1>a DEF Abs!Next

\* The end of a read gives the sector to its process, with what is on disk or,
\* if the read failed, with anything; the end of a write is not seen.
LEMMA IdeintrSimulates ==
    ASSUME IInv, IInv', NEW ok \in BOOLEAN, ideintr(ok)
    PROVE  [Abs!Next]_Abs!vars
<1>0. TypeOK /\ BufInv /\ ProcInv
  BY DEF IInv, HolderHasItsSector
<1>a. PICK b \in Bufs, p \in Procs :
        /\ Queued(b) /\ buf[p] = b /\ pc[p] \in {"isleep", "iwoken"} /\ unfinished(b)
        /\ pc'[p] = "iwoken" /\ valid' = valid \cup {b}
        /\ \A q \in Procs : q # p =>
              IF pc[q] = "bsleep" /\ buf[q] = b THEN pc'[q] = "bget" ELSE pc'[q] = pc[q]
        /\ IF b \in dirty
           THEN disk' = [disk EXCEPT ![sector[b]] = data[b]] /\ UNCHANGED <<data, failed>>
           ELSE /\ UNCHANGED disk
                /\ \/ data' = [data EXCEPT ![b] = disk[sector[b]]] /\ failed' = failed
                   \/ data' = data /\ failed' = failed \cup {b}
        /\ UNCHANGED <<sector, buf, want>>
  BY Intr
<1> DEFINE s == sector[b]
<1>b. \A q \in Procs : pc'[q] \in Holding <=> pc[q] \in Holding
  BY <1>a DEF Holding
<1>c. s \in Sectors /\ s = want[p] /\ pc[p] \in Holding
  <2>1. pc[p] \in Holding
    BY <1>a DEF Holding
  <2>2. b \in busy /\ s = want[p]
    BY <1>a, <2>1, Holders
  <2> QED
    BY <1>0, <2>1, <2>2 DEF TypeOK, BufInv
<1>d. \A q \in Procs : q # p /\ pc[q] \in Holding => buf[q] # b
  BY <1>a, <1>c, Holders
<1>e. valid \subseteq Bufs /\ failed \subseteq valid /\ dirty \subseteq valid
  BY <1>0 DEF TypeOK, BufInv
<1>f. \A a \in Bufs : a # b => sector[a] # s
  BY <1>0, <1>c, ConstAssumption DEF BufInv
<1> HIDE DEF s
<1>1. CASE b \in dirty
  <2>1. valid' = valid
    BY <1>1, <1>a, <1>e
  <2>2. \A q \in Procs, t \in Sectors : Has(q, t)' <=> Has(q, t)
    BY <1>a, <1>b, <2>1 DEF Has
  <2>3. \A t \in Sectors : holder'[t] = holder[t]
    BY <2>2, SameHolder
  <2>4. \A t \in Sectors : content'[t] = content[t]
    <3> SUFFICES ASSUME NEW t \in Sectors PROVE content'[t] = content[t]
      OBVIOUS
    <3>1. CASE \E a \in valid : sector[a] = t
      BY <1>1, <1>a, <2>1, <3>1, SameContent
    <3>2. CASE \A a \in valid : sector[a] # t
      <4>1. t # s
        BY <1>1, <1>e, <3>2 DEF s
      <4>2. disk'[t] = disk[t]
        BY <1>0, <1>1, <1>a, <4>1 DEF TypeOK, s
      <4> QED
        BY <1>a, <2>1, <3>2, <4>2, SameContent
    <3> QED
      BY <3>1, <3>2
  <2>5. bad' = bad
    BY <1>1, <1>a DEF bad
  <2> QED
    BY <2>3, <2>4, <2>5, SameView DEF Abs!vars
<1>2. CASE b \notin dirty
  <2>1. b \notin valid
    BY <1>2, <1>a DEF unfinished
  <2>2. \A q \in Procs, t \in Sectors : q # p => (Has(q, t)' <=> Has(q, t))
    BY <1>a, <1>b, <1>d DEF Has
  <2>3. \A t \in Sectors : ~ Has(p, t) /\ (Has(p, t)' <=> t = s)
    BY <1>a, <1>b, <1>c, <2>1 DEF Has
  <2>4. \A q \in Procs : ~ Has(q, s)
    <3> SUFFICES ASSUME NEW q \in Procs, Has(q, s) PROVE FALSE
      OBVIOUS
    <3>1. buf[q] \in Bufs /\ sector[buf[q]] = s /\ q # p /\ pc[q] \in Holding
      BY <1>c, <2>3, Holders DEF Has
    <3> QED
      BY <1>d, <1>f, <3>1
  <2>5. holder[s] = None /\ holder' = [holder EXCEPT ![s] = p]
    BY <1>c, <2>2, <2>3, <2>4, Locks
  <2>6. \A t \in Sectors : t # s => content'[t] = content[t]
    <3> SUFFICES ASSUME NEW t \in Sectors, t # s PROVE content'[t] = content[t]
      OBVIOUS
    <3>1. CASE \E a \in valid : sector[a] = t
      <4>1. PICK a \in valid : sector[a] = t
        BY <3>1
      <4>2. a # b /\ data'[a] = data[a]
        BY <1>0, <1>2, <1>a, <1>e, <2>1, <4>1 DEF TypeOK
      <4> QED
        BY <1>a, <4>1, <4>2, SameContent
    <3>2. CASE \A a \in valid : sector[a] # t
      BY <1>2, <1>a, <3>2, SameContent DEF s
    <3> QED
      BY <3>1, <3>2
  <2>7. content'[s] = data'[b]
    BY <1>a, ViewNext DEF Seen, s
  <2>8. content[s] = disk[s]
    BY <1>c, <1>e, <1>f, <2>1, View DEF Seen
  <2>9. content \in [Sectors -> Values] /\ content' \in [Sectors -> Values]
    BY View, ViewNext DEF Seen
  <2>10. CASE data' = [data EXCEPT ![b] = disk[s]] /\ failed' = failed
    <3>1. data'[b] = disk[s]
      BY <1>0, <2>10 DEF TypeOK
    <3>2. content' = content
      BY <2>6, <2>7, <2>8, <2>9, <3>1
    <3>3. bad' = bad
      BY <1>a, <2>10 DEF bad
    <3>4. Abs!Read(p, s)
      BY <2>5, <3>2, <3>3 DEF Abs!Read, Abs!Lock
    <3> QED
      BY <1>c, <3>4 DEF Abs!Next
  <2>11. CASE data' = data /\ failed' = failed \cup {b}
    <3>1. data[b] \in Values
      BY <1>0 DEF TypeOK
    <3>2. content' = [content EXCEPT ![s] = data[b]]
      BY <1>c, <2>6, <2>7, <2>9, <2>11
    <3>3. bad' = bad \cup {s}
      BY <1>a, <2>11 DEF bad, s
    <3>4. Abs!ReadFailed(p, s)
      BY <2>5, <3>1, <3>2, <3>3 DEF Abs!ReadFailed, Abs!Lock
    <3> QED
      BY <1>c, <3>4 DEF Abs!Next
  <2> QED
    BY <1>2, <1>a, <2>10, <2>11 DEF s
<1> QED
  BY <1>1, <1>2

\* Every step of the cache and the driver is one of the locked sectors, or is
\* not seen.
LEMMA StepSimulates ==
    ASSUME IInv, IInv', [Next]_vars
    PROVE  [Abs!Next]_Abs!vars
<1>0. TypeOK /\ ProcInv
  BY DEF IInv, HolderHasItsSector
<1>1. CASE UNCHANGED vars
  BY <1>1, Unseen DEF vars, flags, Has
<1>2. ASSUME NEW p \in Procs, bgetagain(p) PROVE [Abs!Next]_Abs!vars
  BY <1>0, <1>2, BgetSimulates DEF bgetagain, ProcInv
<1>3. ASSUME NEW p \in Procs, iderw(p) PROVE [Abs!Next]_Abs!vars
  BY <1>0, <1>3, Unseen DEF iderw, flags, Has, Holding, TypeOK
<1>4. ASSUME NEW p \in Procs, iderwagain(p) PROVE [Abs!Next]_Abs!vars
  BY <1>0, <1>4, Unseen DEF iderwagain, flags, Has, Holding, TypeOK
<1>5. ASSUME NEW p \in Procs, brelse(p) PROVE [Abs!Next]_Abs!vars
  BY <1>5, BrelseSimulates
<1>6. ASSUME NEW p \in Procs, kill(p) PROVE [Abs!Next]_Abs!vars
  BY <1>0, <1>6, Unseen DEF kill, flags, Has, Holding, TypeOK
<1>7. ASSUME NEW p \in Procs, NEW s \in Sectors, bread(p, s) PROVE [Abs!Next]_Abs!vars
  BY <1>7, BgetSimulates DEF bread
<1>8. ASSUME NEW p \in Procs, NEW v \in Values, log_write(p, v) \/ bwrite(p, v)
      PROVE  [Abs!Next]_Abs!vars
  BY <1>8, ModifySimulates DEF log_write, bwrite
<1>9. ASSUME NEW ok \in BOOLEAN, ideintr(ok) PROVE [Abs!Next]_Abs!vars
  BY <1>9, IdeintrSimulates
<1> QED
  BY <1>1, <1>2, <1>3, <1>4, <1>5, <1>6, <1>7, <1>8, <1>9 DEF Next, Continue

\* The buffers, their flags, recycling and the disk queue implement sectors that
\* are locked, read and written one process at a time: BufCache implements
\* AbsDisk.
THEOREM Refinement == Spec => RefinesAbs
<1>1. Init => Abs!Init
  <2> SUFFICES ASSUME Init PROVE Abs!Init
    OBVIOUS
  <2>1. IInv /\ valid = {} /\ failed = {}
    BY InitIInv DEF Init
  <2>2. content \in [Sectors -> Values]
    BY <2>1, View DEF Seen
  <2>3. holder = [s \in Sectors |-> None]
    BY <2>1 DEF holder
  <2>4. bad = {}
    BY <2>1 DEF bad
  <2> QED
    BY <2>2, <2>3, <2>4 DEF Abs!Init
<1> QED
  BY <1>1, Invariance, StepSimulates, PTL DEF Spec, RefinesAbs, Abs!Spec

=============================================================================
