-------------------------- MODULE ProcTableProofs ---------------------------
(***************************************************************************)
(* The safety of ProcTable for any number of processes, CPUs and levels:   *)
(* the MLF queues and the CPUs agree with the states of the processes, and *)
(* no zombie is overlooked by the parent that waits for it.                *)
(***************************************************************************)
EXTENDS ProcTable, TLAPS

\* A leaf is tried with Zenon first, briefly: most need no arithmetic.
USE ZenonT(2), SMTT(20), ZenonT(20)

\* The sequence w lists the processes of the set W, each once.
Lists(w, W) ==
    /\ w \in Seq(Procs)
    /\ \A i \in 1 .. Len(w) : w[i] \in W
    /\ \A i, j \in 1 .. Len(w) : w[i] = w[j] => i = j
    /\ \A p \in W : \E i \in 1 .. Len(w) : w[i] = p

At(S, pr, l) == {p \in S : pr[p] = l}

\* The queues q hold exactly the processes of S, each once and at its level pr.
QueueOK(q, S, pr) ==
    /\ q \in [Levels -> Seq(Procs)]
    /\ \A l \in Levels : Lists(q[l], At(S, pr, l))

-----------------------------------------------------------------------------
(* Lists                                                                   *)

\* Two lists of disjoint sets, one after the other.
LEMMA ListsConcat ==
    ASSUME NEW u, NEW v, NEW A, NEW B, Lists(u, A), Lists(v, B), A \cap B = {},
           NEW z, z = u \o v, NEW C, C = A \cup B
    PROVE  Lists(z, C)
<1>1. u \in Seq(Procs) /\ v \in Seq(Procs)
  BY DEF Lists
<1>2. /\ z \in Seq(Procs) /\ Len(z) = Len(u) + Len(v)
      /\ Len(u) \in Nat /\ Len(v) \in Nat
  BY <1>1
<1>3. \A i \in 1 .. Len(u) : i \in 1 .. Len(z) /\ z[i] = u[i]
  BY <1>1
<1>4. \A i \in 1 .. Len(v) : Len(u) + i \in 1 .. Len(z) /\ z[Len(u) + i] = v[i]
  BY <1>1
<1>5. \A i \in 1 .. Len(z) : \/ i \in 1 .. Len(u)
                             \/ i - Len(u) \in 1 .. Len(v) /\ z[i] = v[i - Len(u)]
  BY <1>1
<1>6. ASSUME NEW i \in 1 .. Len(z)
      PROVE  z[i] \in A \cup B
  BY <1>3, <1>5, <1>6 DEF Lists
<1>7. ASSUME NEW i \in 1 .. Len(z), NEW j \in 1 .. Len(z), z[i] = z[j]
      PROVE  i = j
  <2> DEFINE n == Len(u)
  <2>1. CASE i \in 1 .. n /\ j \in 1 .. n
    BY <1>3, <1>7, <2>1 DEF Lists
  <2>2. CASE i \notin 1 .. n /\ j \notin 1 .. n
    <3>1. i - n \in 1 .. Len(v) /\ j - n \in 1 .. Len(v) /\ v[i - n] = v[j - n]
      BY <1>5, <1>7, <2>2
    <3>2. i - n = j - n
      BY <3>1 DEF Lists
    <3> QED
      BY <1>2, <3>2
  <2>3. CASE i \in 1 .. n /\ j \notin 1 .. n
    <3>1. z[i] \in A
      BY <1>3, <2>3 DEF Lists
    <3>2. z[j] \in B
      BY <1>5, <2>3 DEF Lists
    <3> QED
      BY <1>7, <3>1, <3>2
  <2>4. CASE i \notin 1 .. n /\ j \in 1 .. n
    <3>1. z[j] \in A
      BY <1>3, <2>4 DEF Lists
    <3>2. z[i] \in B
      BY <1>5, <2>4 DEF Lists
    <3> QED
      BY <1>7, <3>1, <3>2
  <2> QED
    BY <2>1, <2>2, <2>3, <2>4
<1>8. ASSUME NEW p \in A \cup B
      PROVE  \E i \in 1 .. Len(z) : z[i] = p
  <2>1. CASE p \in A
    <3>1. PICK i \in 1 .. Len(u) : u[i] = p
      BY <2>1 DEF Lists
    <3> QED
      BY <1>3, <3>1
  <2>2. CASE p \in B
    <3>1. PICK i \in 1 .. Len(v) : v[i] = p
      BY <2>2 DEF Lists
    <3> QED
      BY <1>4, <3>1
  <2> QED
    BY <2>1, <2>2
<1> QED
  BY <1>2, <1>6, <1>7, <1>8 DEF Lists

\* A list without its head.
LEMMA ListsTail ==
    ASSUME NEW u, NEW A, Lists(u, A), u # <<>>
    PROVE  u[1] \in A /\ Lists(Tail(u), A \ {u[1]})
<1> DEFINE z == Tail(u)
<1>1. u \in Seq(Procs) /\ Len(u) \in Nat /\ Len(u) >= 1
  BY DEF Lists
<1>2. z \in Seq(Procs) /\ Len(z) = Len(u) - 1
  BY <1>1
<1>3. \A i \in 1 .. Len(z) : i + 1 \in 1 .. Len(u) /\ i + 1 # 1 /\ z[i] = u[i + 1]
  BY <1>1
<1>4. \A j \in 1 .. Len(u) : j # 1 => j - 1 \in 1 .. Len(z) /\ z[j - 1] = u[j]
  BY <1>1
<1> HIDE DEF z
<1>5. 1 \in 1 .. Len(u)
  BY <1>1
<1>6. ASSUME NEW i \in 1 .. Len(z)
      PROVE  z[i] \in A \ {u[1]}
  BY <1>3, <1>5, <1>6 DEF Lists
<1>7. ASSUME NEW i \in 1 .. Len(z), NEW j \in 1 .. Len(z), z[i] = z[j]
      PROVE  i = j
  <2>1. i + 1 = j + 1
    BY <1>3, <1>7 DEF Lists
  <2> QED
    BY <2>1
<1>8. ASSUME NEW p \in A \ {u[1]}
      PROVE  \E i \in 1 .. Len(z) : z[i] = p
  <2>1. PICK j \in 1 .. Len(u) : u[j] = p
    BY <1>8 DEF Lists
  <2> QED
    BY <1>4, <1>8, <2>1
<1>9. Lists(z, A \ {u[1]})
  BY <1>2, <1>6, <1>7, <1>8 DEF Lists
<1> QED
  BY <1>5, <1>9 DEF z, Lists

\* The list of nothing, and of one process.
LEMMA ListsSmall ==
    /\ Lists(<<>>, {})
    /\ \A p \in Procs : Lists(<<p>>, {p})
  BY DEF Lists

\* A loop over the table lists the processes it acts on.
LEMMA ListsTableOrder ==
    ASSUME NEW W \in SUBSET Procs
    PROVE  Lists(TableOrder(W), W)
<1>1. TableOrder(W) \in Seq(W)
  BY OrderAssumption
<1>2. TableOrder(W) \in Seq(Procs) /\ \A i \in 1 .. Len(TableOrder(W)) : TableOrder(W)[i] \in W
  BY <1>1
<1> QED
  BY <1>2, OrderAssumption DEF Lists

-----------------------------------------------------------------------------
(* Queues                                                                  *)

\* q2 is q with p at the tail of level l: make_runnable.
AppendTo(q, q2, l, p) ==
    /\ q2 \in [Levels -> Seq(Procs)]
    /\ \A k \in Levels : q2[k] = IF k = l THEN Append(q[k], p) ELSE q[k]

\* q2 is q without the head of level l: unqueue.
PopFrom(q, q2, l) ==
    /\ q2 \in [Levels -> Seq(Procs)]
    /\ \A k \in Levels : q2[k] = IF k = l THEN Tail(q[k]) ELSE q[k]

\* q2 is q with the processes of W at the tails of their levels: wakeup1.
ExtendBy(q, q2, W, pr) ==
    /\ q2 \in [Levels -> Seq(Procs)]
    /\ \A l \in Levels : q2[l] = q[l] \o TableOrder(At(W, pr, l))

\* Only the levels of the queued processes matter.
LEMMA QueueSame ==
    ASSUME NEW q, NEW S, NEW pr, NEW pr2, QueueOK(q, S, pr),
           \A p \in S : pr2[p] = pr[p]
    PROVE  QueueOK(q, S, pr2)
<1>1. \A l \in Levels : At(S, pr, l) = At(S, pr2, l)
  BY DEF At
<1> QED
  BY <1>1 DEF QueueOK

\* Putting one process that is in no queue at the tail of its level.
LEMMA QueueAppend ==
    ASSUME NEW q, NEW S, NEW pr, NEW pr2, QueueOK(q, S, pr),
           NEW p \in Procs, p \notin S, NEW l \in Levels, pr2[p] = l,
           \A r \in S : pr2[r] = pr[r],
           NEW q2, AppendTo(q, q2, l, p)
    PROVE  QueueOK(q2, S \cup {p}, pr2)
<1> SUFFICES ASSUME NEW k \in Levels
             PROVE  Lists(q2[k], At(S \cup {p}, pr2, k))
  BY ZenonT(100) DEF QueueOK, AppendTo
<1>1. Lists(q[k], At(S, pr, k)) /\ q[k] \in Seq(Procs)
  BY DEF QueueOK
<1>2. CASE k = l
  <2>1. At(S \cup {p}, pr2, k) = At(S, pr, k) \cup {p} /\ At(S, pr, k) \cap {p} = {}
    BY <1>2 DEF At
  <2>2. q2[k] = q[k] \o <<p>>
    <3>1. Append(q[k], p) = q[k] \o <<p>>
      BY <1>1
    <3> QED
      BY <1>2, <3>1 DEF AppendTo
  <2> QED
    BY <1>1, <2>1, <2>2, ListsConcat, ListsSmall
<1>3. CASE k # l
  <2>1. At(S \cup {p}, pr2, k) = At(S, pr, k)
    BY <1>3 DEF At
  <2> QED
    BY <1>1, <1>3, <2>1 DEF AppendTo
<1> QED
  BY <1>2, <1>3

\* Taking the head off a level that is not empty.
LEMMA QueuePop ==
    ASSUME NEW q, NEW S, NEW pr, QueueOK(q, S, pr),
           NEW l \in Levels, q[l] # <<>>, NEW q2, PopFrom(q, q2, l)
    PROVE  q[l][1] \in S /\ pr[q[l][1]] = l /\ QueueOK(q2, S \ {q[l][1]}, pr)
<1> DEFINE h == q[l][1]
<1>1. h \in At(S, pr, l) /\ Lists(Tail(q[l]), At(S, pr, l) \ {h})
  BY ListsTail DEF QueueOK
<1>2. h \in S /\ pr[h] = l
  BY <1>1 DEF At
<1>3. ASSUME NEW k \in Levels
      PROVE  Lists(q2[k], At(S \ {h}, pr, k))
  <2>1. CASE k = l
    <3>1. At(S \ {h}, pr, k) = At(S, pr, l) \ {h}
      BY <2>1 DEF At
    <3> QED
      BY <1>1, <2>1, <3>1 DEF PopFrom
  <2>2. CASE k # l
    <3>1. At(S \ {h}, pr, k) = At(S, pr, k)
      BY <1>2, <2>2 DEF At
    <3> QED
      BY <2>2, <3>1 DEF PopFrom, QueueOK
  <2> QED
    BY <2>1, <2>2
<1> QED
  BY <1>2, <1>3 DEF QueueOK, PopFrom

\* Waking a set of processes that are in no queue.
LEMMA QueueExtend ==
    ASSUME NEW q, NEW S, NEW pr, NEW pr2, QueueOK(q, S, pr),
           NEW W \in SUBSET Procs, W \cap S = {},
           \A p \in S : pr2[p] = pr[p],
           NEW q2, ExtendBy(q, q2, W, pr2)
    PROVE  QueueOK(q2, S \cup W, pr2)
<1> SUFFICES ASSUME NEW k \in Levels
             PROVE  Lists(q2[k], At(S \cup W, pr2, k))
  BY ZenonT(100) DEF QueueOK, ExtendBy
<1>1. Lists(q[k], At(S, pr, k))
  BY DEF QueueOK
<1>2. Lists(TableOrder(At(W, pr2, k)), At(W, pr2, k))
  BY ListsTableOrder DEF At
<1>3. /\ At(S \cup W, pr2, k) = At(S, pr, k) \cup At(W, pr2, k)
      /\ At(S, pr, k) \cap At(W, pr2, k) = {}
  BY DEF At
<1>4. q2[k] = q[k] \o TableOrder(At(W, pr2, k))
  BY DEF ExtendBy
<1> QED
  BY <1>1, <1>2, <1>3, <1>4, ListsConcat

\* The aging loop moves the aged heads and nothing else.
LEMMA QueueAging ==
    ASSUME TypeOK, QueueOK(mlf, Runnable, priority), calculateaging
    PROVE  QueueOK(mlf', Runnable, priority')
<1> DEFINE h(l) == mlf[l][1]
           A(l) == At(Runnable, priority, l)
<1>1. ASSUME NEW l \in AgedLevels
      PROVE  /\ l \in Levels /\ h(l) \in Runnable /\ h(l) \in Procs
             /\ priority[h(l)] = l /\ h(l) \in AgedHeads
             /\ Lists(Tail(mlf[l]), A(l) \ {h(l)})
  <2>1. l \in Levels /\ mlf[l] # <<>>
    BY <1>1 DEF AgedLevels
  <2>2. h(l) \in A(l) /\ Lists(Tail(mlf[l]), A(l) \ {h(l)})
    BY <2>1, ListsTail DEF QueueOK
  <2>3. h(l) \in Runnable /\ priority[h(l)] = l
    BY <2>2 DEF At
  <2> QED
    BY <1>1, <2>1, <2>2, <2>3 DEF AgedHeads, Runnable
<1>2. \A p \in AgedHeads : \E l \in AgedLevels : p = h(l)
  BY DEF AgedHeads
<1>3. \A p \in Procs : priority'[p] = IF p \in AgedHeads THEN raised(p) ELSE priority[p]
  BY DEF calculateaging
<1>4. \A p \in Procs : priority[p] \in Levels /\ priority[p] \in Nat
  BY DEF TypeOK, Levels
<1>5. ASSUME NEW k \in Levels
      PROVE  Lists(mlf'[k], At(Runnable, priority', k))
  <2> DEFINE X == IF k \in AgedLevels THEN Tail(mlf[k]) ELSE mlf[k]
             R == IF k = 0 /\ k \in AgedLevels THEN <<mlf[k][1]>> ELSE <<>>
             U == IF k + 1 \in AgedLevels THEN <<mlf[k + 1][1]>> ELSE <<>>
             XS == A(k) \ (IF k \in AgedLevels THEN {h(k)} ELSE {})
             RS == IF k = 0 /\ k \in AgedLevels THEN {h(k)} ELSE {}
             US == IF k + 1 \in AgedLevels THEN {h(k + 1)} ELSE {}
  <2>1. mlf'[k] = (X \o R) \o U
    BY ZenonT(100) DEF calculateaging
  <2>2. Lists(X, XS)
    <3>1. CASE k \in AgedLevels
      BY <1>1, <3>1
    <3>2. CASE k \notin AgedLevels
      <4>1. XS = A(k)
        BY <3>2
      <4> QED
        BY <3>2, <4>1 DEF QueueOK
    <3> QED
      BY <3>1, <3>2
  <2>3. Lists(R, RS)
    BY <1>1, ListsSmall
  <2>4. Lists(U, US)
    BY <1>1, ListsSmall
  <2>5. k \in Nat /\ k # k + 1
    BY DEF Levels
  <2>6. XS \cap RS = {} /\ (XS \cup RS) \cap US = {}
    <3>1. \A p \in XS \cup RS : priority[p] = k
      BY <1>1 DEF At
    <3>2. \A p \in US : priority[p] = k + 1
      BY <1>1
    <3> QED
      BY <2>5, <3>1, <3>2
  <2>7. ASSUME NEW p \in Procs
        PROVE  p \in At(Runnable, priority', k) <=> p \in (XS \cup RS) \cup US
    <3>1. CASE p \in AgedHeads
      <4>1. PICK l \in AgedLevels : p = h(l)
        BY <1>2, <3>1
      <4>0. l \in Nat
        BY DEF AgedLevels, Levels
      <4>2. p \in Runnable /\ priority[p] = l /\ l \in Nat
        BY <1>1, <4>0, <4>1
      <4>3. priority'[p] = IF l > 0 THEN l - 1 ELSE 0
        BY <1>3, <3>1, <4>2 DEF raised
      <4>4. p \in At(Runnable, priority', k) <=> k = (IF l > 0 THEN l - 1 ELSE 0)
        BY <4>2, <4>3 DEF At
      <4>5. p \notin XS
        BY <4>1, <4>2 DEF At
      <4>6. p \in RS <=> k = 0 /\ l = 0
        BY <1>1, <4>1, <4>2
      <4>7. p \in US <=> l = k + 1
        BY <1>1, <2>5, <4>1, <4>2
      <4> QED
        BY <2>5, <4>2, <4>4, <4>5, <4>6, <4>7
    <3>2. CASE p \notin AgedHeads
      <4>1. p \in At(Runnable, priority', k) <=> p \in A(k)
        BY <1>3, <3>2 DEF At
      <4>2. p \notin RS /\ p \notin US /\ (k \in AgedLevels => p # h(k))
        BY <1>1, <3>2
      <4> QED
        BY <4>1, <4>2
    <3> QED
      BY <3>1, <3>2
  <2>8. At(Runnable, priority', k) = (XS \cup RS) \cup US
    <3>1. At(Runnable, priority', k) \subseteq Procs
      BY DEF At, Runnable
    <3>2. (XS \cup RS) \cup US \subseteq Procs
      BY <1>1 DEF At, Runnable
    <3> HIDE DEF XS, RS, US
    <3> QED
      BY <2>7, <3>1, <3>2
  <2> HIDE DEF X, R, U, XS, RS, US
  <2>9. Lists(X \o R, XS \cup RS)
    BY <2>2, <2>3, <2>6, ListsConcat
  <2> QED
    BY <2>1, <2>4, <2>6, <2>8, <2>9, ListsConcat
<1>6. mlf' \in [Levels -> Seq(Procs)]
  <2>1. \A k \in Levels : mlf'[k] \in Seq(Procs)
    BY <1>5 DEF Lists
  <2> QED
    BY <2>1 DEF calculateaging
<1> QED
  BY <1>5, <1>6 DEF QueueOK

-----------------------------------------------------------------------------
(* The inductive invariant                                                 *)

\* np is set exactly while a process is inside fork, and a process inside fork
\* runs or waits for a CPU (fork never sleeps).
ForkInv ==
    /\ EmbryoOfOneFork
    /\ \A p \in Procs : np[p] # Null => pc[p] \in {"fork", "forked"}
    /\ \A p \in Procs : pc[p] \in {"fork", "forked"} => state[p] \in {"RUNNABLE", "RUNNING"}

\* A CPU that carries the lock across swtch runs the process it switched to.
LockInv == lock # Free => cpu[lock] # Null

IInv ==
    /\ TypeOK
    /\ QueueOK(mlf, Runnable, priority)
    /\ RunningOnOneCpu
    /\ ForkInv
    /\ LockInv

\* The inductive invariant implies the property the runs check.
LEMMA QueueOKImplies ==
    ASSUME TypeOK, QueueOK(mlf, Runnable, priority)
    PROVE  QueuesHoldRunnable
<1>1. \A l \in Levels : Lists(mlf[l], At(Runnable, priority, l))
  BY DEF QueueOK
<1>2. QueuedIsRunnable
  BY <1>1 DEF QueuedIsRunnable, Lists, At
<1>3. NotQueuedTwice
  BY <1>1 DEF NotQueuedTwice, Lists
<1>4. RunnableIsQueued
  <2> SUFFICES ASSUME NEW p \in Runnable
               PROVE  \E i \in 1 .. Len(mlf[priority[p]]) : mlf[priority[p]][i] = p
    BY DEF RunnableIsQueued
  <2>1. priority[p] \in Levels
    BY DEF Runnable, TypeOK
  <2>2. p \in At(Runnable, priority, priority[p])
    BY DEF At
  <2> QED
    BY <1>1, <2>1, <2>2 DEF Lists
<1> QED
  BY <1>2, <1>3, <1>4 DEF QueuesHoldRunnable

\* The state userinit leaves satisfies the inductive invariant.
LEMMA InitIInv == Init => IInv
<1> SUFFICES ASSUME Init PROVE IInv
  OBVIOUS
<1>0. /\ initproc \in Procs /\ 0 \in Levels /\ Null \notin Procs
      /\ 0 \in 0 .. QUANTUM - 1 /\ 0 \in 0 .. TICKSFORAGE - 1
  BY ConstAssumption DEF Procs, Levels, initproc, Null
<1>1. mlf \in [Levels -> Seq(Procs)]
  BY <1>0 DEF Init
<1>2. TypeOK
  BY <1>0, <1>1 DEF Init, TypeOK
<1>3. QueueOK(mlf, Runnable, priority)
  <2>1. ASSUME NEW l \in Levels
        PROVE  Lists(mlf[l], At(Runnable, priority, l))
    <3>1. CASE l = 0
      <4>1. At(Runnable, priority, l) = {initproc} /\ mlf[l] = <<initproc>>
        BY <1>0, <3>1 DEF Init, At, Runnable
      <4> QED
        BY <1>0, <4>1, ListsSmall
    <3>2. CASE l # 0
      <4>1. At(Runnable, priority, l) = {} /\ mlf[l] = <<>>
        BY <1>0, <3>2 DEF Init, At, Runnable
      <4> QED
        BY <4>1, ListsSmall
    <3> QED
      BY <3>1, <3>2
  <2> QED
    BY <1>1, <2>1 DEF QueueOK
<1>4. RunningOnOneCpu
  BY DEF Init, RunningOnOneCpu
<1>5. ForkInv /\ LockInv
  BY DEF Init, ForkInv, EmbryoOfOneFork, LockInv
<1> QED
  BY <1>2, <1>3, <1>4, <1>5 DEF IInv

-----------------------------------------------------------------------------
(* Waking processes                                                        *)

\* The queues after a set of sleepers was woken.
LEMMA WakeQueuesExtend ==
    ASSUME NEW q \in [Levels -> Seq(Procs)], NEW W \in SUBSET Procs,
           NEW pr, \A p \in W : pr[p] = raised(p)
    PROVE  ExtendBy(q, WakeQueues(q, W), W, pr)
<1>1. \A l \in Levels : {p \in W : raised(p) = l} = At(W, pr, l)
  BY DEF At
<1>2. ASSUME NEW l \in Levels
      PROVE  TableOrder(At(W, pr, l)) \in Seq(Procs)
  <2>1. At(W, pr, l) \in SUBSET Procs
    BY DEF At
  <2> QED
    BY <2>1, ListsTableOrder DEF Lists
<1>3. \A l \in Levels : WakeQueues(q, W)[l] = q[l] \o TableOrder(At(W, pr, l))
  BY <1>1 DEF WakeQueues
<1>4. \A l \in Levels : q[l] \o TableOrder(At(W, pr, l)) \in Seq(Procs)
  BY <1>2
<1>5. WakeQueues(q, W) = [l \in Levels |-> WakeQueues(q, W)[l]]
  BY DEF WakeQueues
<1>6. WakeQueues(q, W) \in [Levels -> Seq(Procs)]
  BY <1>3, <1>4, <1>5
<1> QED
  BY <1>3, <1>6 DEF ExtendBy

\* wakeup1 keeps the types of what it assigns.
LEMMA WakeFieldsType ==
    ASSUME TypeOK, NEW W \in SUBSET Procs, WakeFields(W)
    PROVE  priority' \in [Procs -> Levels] /\ age' \in [Procs -> Nat]
<1>1. ASSUME NEW p \in Procs
      PROVE  raised(p) \in Levels
  <2>1. priority[p] \in Levels
    BY DEF TypeOK
  <2> QED
    BY <2>1, ConstAssumption DEF raised, Levels
<1> QED
  BY <1>1 DEF WakeFields, TypeOK

\* wakeup1 moves exactly the sleepers of the channel into the queues.
LEMMA WakeupKeepsQueues ==
    ASSUME TypeOK, QueueOK(mlf, Runnable, priority), NEW ch, wakeup1(ch)
    PROVE  /\ QueueOK(mlf', Runnable', priority')
           /\ mlf' \in [Levels -> Seq(Procs)]
           /\ priority' \in [Procs -> Levels] /\ age' \in [Procs -> Nat]
           /\ state' = [p \in Procs |-> IF p \in Sleepers(ch) THEN "RUNNABLE" ELSE state[p]]
<1> DEFINE W == Sleepers(ch)
           pr2 == priority'
           q2 == mlf'
<1>1. W \in SUBSET Procs /\ W \cap Runnable = {} /\ Runnable' = Runnable \cup W
  BY DEF Sleepers, Runnable, wakeup1, TypeOK
<1>2. /\ \A p \in W : pr2[p] = raised(p)
      /\ \A p \in Runnable : pr2[p] = priority[p]
  BY <1>1 DEF wakeup1, WakeFields, Runnable
<1>3. q2 = WakeQueues(mlf, W) /\ mlf \in [Levels -> Seq(Procs)]
  BY DEF wakeup1, TypeOK
<1>4. pr2 \in [Procs -> Levels] /\ age' \in [Procs -> Nat]
  BY <1>1, WakeFieldsType DEF wakeup1
<1> HIDE DEF pr2, q2, W
<1>5. ExtendBy(mlf, q2, W, pr2)
  BY <1>1, <1>2, <1>3, WakeQueuesExtend
<1>6. QueueOK(q2, Runnable \cup W, pr2)
  BY <1>1, <1>2, <1>5, QueueExtend
<1> QED
  BY <1>1, <1>4, <1>6 DEF pr2, q2, W, wakeup1, QueueOK

-----------------------------------------------------------------------------
(* The steps                                                               *)

\* A step that leaves the queues, the levels and the states alone keeps the
\* queues right.
LEMMA SameQueues ==
    ASSUME QueueOK(mlf, Runnable, priority), UNCHANGED <<mlf, state, priority>>
    PROVE  QueueOK(mlf, Runnable, priority)'
  BY DEF QueueOK, Runnable, At

\* So does a step that changes neither the queues nor the set of RUNNABLE
\* processes nor their levels.
LEMMA SameRunnable ==
    ASSUME QueueOK(mlf, Runnable, priority), mlf' = mlf, Runnable' = Runnable,
           \A p \in Runnable : priority'[p] = priority[p]
    PROVE  QueueOK(mlf, Runnable, priority)'
<1> DEFINE pr2 == priority'
<1>1. \A p \in Runnable : pr2[p] = priority[p]
  OBVIOUS
<1> HIDE DEF pr2
<1>2. QueueOK(mlf, Runnable, pr2)
  BY <1>1, QueueSame
<1> QED
  BY <1>2 DEF pr2, QueueOK

\* make_runnable of a process that is not RUNNABLE, which becomes RUNNABLE.
LEMMA MakeRunnableKeepsQueues ==
    ASSUME TypeOK, QueueOK(mlf, Runnable, priority),
           NEW p \in Procs, NEW l \in Levels, state[p] # "RUNNABLE",
           make_runnable(p, l), state' = [state EXCEPT ![p] = "RUNNABLE"],
           priority'[p] = l, \A r \in Procs : r # p => priority'[r] = priority[r]
    PROVE  /\ QueueOK(mlf, Runnable, priority)'
           /\ mlf' \in [Levels -> Seq(Procs)] /\ age' \in [Procs -> Nat]
<1> DEFINE pr2 == priority'
           q2 == mlf'
<1>1. Runnable' = Runnable \cup {p} /\ p \notin Runnable
  BY DEF Runnable, TypeOK
<1>2. mlf' \in [Levels -> Seq(Procs)] /\ age' \in [Procs -> Nat]
  BY DEF make_runnable, TypeOK
<1>3. AppendTo(mlf, q2, l, p)
  BY <1>2 DEF make_runnable, AppendTo, TypeOK
<1>4. pr2[p] = l /\ \A r \in Runnable : pr2[r] = priority[r]
  BY <1>1 DEF Runnable
<1> HIDE DEF pr2, q2
<1>5. QueueOK(q2, Runnable \cup {p}, pr2)
  BY <1>1, <1>3, <1>4, QueueAppend
<1> QED
  BY <1>1, <1>2, <1>5 DEF pr2, q2, QueueOK

\* A step outside fork concerns no child under construction, if it leaves every
\* EMBRYO alone and puts no forking process to sleep.
LEMMA ForkInvKept ==
    ASSUME TypeOK, ForkInv, UNCHANGED <<np>>, Null \notin Procs,
           \A p \in Procs : state[p] = "EMBRYO" => state'[p] = "EMBRYO",
           \A p \in Procs : pc'[p] \in {"fork", "forked"} =>
              /\ pc[p] \in {"fork", "forked"}
              /\ state'[p] \in {"RUNNABLE", "RUNNING"},
           \A p \in Procs : pc[p] \in {"fork", "forked"} => pc'[p] \in {"fork", "forked"}
    PROVE  ForkInv'
<1>1. \A p \in Procs : np[p] \in Procs \cup {Null}
  BY DEF TypeOK
<1>2. ASSUME NEW p \in Procs, pc'[p] \in {"fork", "forked"}
      PROVE  np'[p] # Null /\ state'[np'[p]] = "EMBRYO"
  BY <1>1, <1>2 DEF ForkInv, EmbryoOfOneFork
<1>3. \A p, q \in Procs : np'[p] # Null /\ np'[p] = np'[q] => p = q
  BY DEF ForkInv, EmbryoOfOneFork
<1>4. \A p \in Procs : np'[p] # Null => pc'[p] \in {"fork", "forked"}
  BY DEF ForkInv
<1> QED
  BY <1>2, <1>3, <1>4 DEF ForkInv, EmbryoOfOneFork

\* No CPU changes hands and the same processes are RUNNING.
LEMMA RunningKept ==
    ASSUME TypeOK, RunningOnOneCpu, Null \notin Procs, UNCHANGED cpu,
           \A q \in Procs : state'[q] = "RUNNING" <=> state[q] = "RUNNING"
    PROVE  RunningOnOneCpu'
<1>1. \A c \in CPUs : cpu[c] \in Procs \cup {Null}
  BY DEF TypeOK
<1> QED
  BY <1>1 DEF RunningOnOneCpu

\* A process gives up its CPU and stops RUNNING.
LEMMA RunningLeft ==
    ASSUME TypeOK, RunningOnOneCpu, Null \notin Procs,
           NEW c \in CPUs, NEW p \in Procs, cpu[c] = p,
           cpu' = [cpu EXCEPT ![c] = Null], state'[p] # "RUNNING",
           \A q \in Procs : q # p => (state'[q] = "RUNNING" <=> state[q] = "RUNNING")
    PROVE  RunningOnOneCpu'
<1>1. \A d \in CPUs : /\ cpu[d] \in Procs \cup {Null}
                     /\ cpu'[d] = IF d = c THEN Null ELSE cpu[d]
  BY DEF TypeOK
<1>2. \A d \in CPUs : d # c => cpu[d] # p
  BY DEF RunningOnOneCpu
<1>3. \A d \in CPUs : cpu'[d] # Null => state'[cpu'[d]] = "RUNNING"
  BY <1>1, <1>2 DEF RunningOnOneCpu
<1>4. \A d, e \in CPUs : d # e /\ cpu'[d] # Null => cpu'[d] # cpu'[e]
  BY <1>1 DEF RunningOnOneCpu
<1>5. \A q \in Procs : state'[q] = "RUNNING" => \E d \in CPUs : cpu'[d] = q
  BY <1>1 DEF RunningOnOneCpu
<1> QED
  BY <1>3, <1>4, <1>5 DEF RunningOnOneCpu

\* scheduler takes the head of the highest level that is not empty.
LEMMA SchedulerStep ==
    ASSUME TypeOK, QueueOK(mlf, Runnable, priority), RunningOnOneCpu, ForkInv,
           LockInv, Null \notin Procs, Free \notin CPUs,
           NEW c \in CPUs, NEW l \in Levels, scheduler(c, l)
    PROVE  IInv'
<1> DEFINE h == mlf[l][1]
           q2 == mlf'
<1>1. /\ cpu[c] = Null /\ mlf[l] # <<>>
      /\ mlf' = [mlf EXCEPT ![l] = Tail(@)]
      /\ cpu' = [cpu EXCEPT ![c] = h]
      /\ state' = [state EXCEPT ![h] = "RUNNING"]
      /\ lock' = c
      /\ UNCHANGED <<pid, parent, killed, chan, priority, age, pticks, ticks,
                     nextpid, pc, ptrap, ctrap, np>>
  BY DEF scheduler, unqueue
<1>2. q2 \in [Levels -> Seq(Procs)]
  BY <1>1 DEF TypeOK
<1>3. PopFrom(mlf, q2, l)
  BY <1>1, <1>2 DEF PopFrom, TypeOK
<1>4. h \in Runnable /\ QueueOK(q2, Runnable \ {h}, priority)
  <2> HIDE DEF q2
  <2> QED
    BY <1>1, <1>3, QueuePop
<1>5. h \in Procs /\ state[h] = "RUNNABLE"
  BY <1>4 DEF Runnable
<1>6. Runnable' = Runnable \ {h}
  BY <1>1, <1>5 DEF Runnable, TypeOK
<1> HIDE DEF h
<1>7. TypeOK'
  BY <1>1, <1>2, <1>5 DEF TypeOK
<1>8. QueueOK(mlf, Runnable, priority)'
  BY <1>1, <1>4, <1>6 DEF QueueOK
<1>9. RunningOnOneCpu'
  BY <1>1, <1>5 DEF TypeOK, RunningOnOneCpu
<1>12. /\ \A q \in Procs : state[q] = "EMBRYO" => state'[q] = "EMBRYO"
       /\ \A q \in Procs : state[q] \in {"RUNNABLE", "RUNNING"}
                             => state'[q] \in {"RUNNABLE", "RUNNING"}
  BY <1>1, <1>5 DEF TypeOK
<1>10. ForkInv'
  BY <1>1, <1>12, ForkInvKept DEF ForkInv
<1>11. LockInv'
  BY <1>1, <1>5 DEF TypeOK, LockInv
<1> QED
  BY <1>7, <1>8, <1>9, <1>10, <1>11 DEF IInv

\* The process the scheduler switched to releases ptable.lock.
LEMMA SchedreturnStep ==
    ASSUME TypeOK, QueueOK(mlf, Runnable, priority), RunningOnOneCpu, ForkInv,
           LockInv, Null \notin Procs, Free \notin CPUs,
           NEW c \in CPUs, schedreturn(c)
    PROVE  IInv'
<1>1. TypeOK'
  BY ZenonT(100) DEF TypeOK, schedreturn
<1>2. QueueOK(mlf, Runnable, priority)'
  BY SameQueues DEF schedreturn
<1>3. RunningOnOneCpu' /\ ForkInv' /\ LockInv'
  BY DEF schedreturn, RunningOnOneCpu, ForkInv, EmbryoOfOneFork, LockInv
<1> QED
  BY <1>1, <1>2, <1>3 DEF IInv

\* A step that wakes the sleepers of a channel, or nobody, and leaves the CPUs alone.
LEMMA WakingStep ==
    ASSUME TypeOK, QueueOK(mlf, Runnable, priority), RunningOnOneCpu, ForkInv,
           LockInv, Null \notin Procs, Free \notin CPUs,
           wakeup1(TicksChan) \/ (\E ch : wakeup1(ch)) \/ UNCHANGED <<state, priority, age, mlf>>, UNCHANGED <<cpu, lock, pc, np>>
    PROVE  /\ QueueOK(mlf, Runnable, priority)'
           /\ mlf' \in [Levels -> Seq(Procs)] /\ state' \in [Procs -> {"UNUSED",
                    "EMBRYO", "SLEEPING", "RUNNABLE", "RUNNING", "ZOMBIE"}]
           /\ priority' \in [Procs -> Levels] /\ age' \in [Procs -> Nat]
           /\ RunningOnOneCpu' /\ ForkInv' /\ LockInv'
<1>1. CASE UNCHANGED <<state, priority, age, mlf>>
  <2>1. QueueOK(mlf, Runnable, priority)'
    BY <1>1, SameQueues
  <2> QED
    BY <1>1, <2>1 DEF TypeOK, RunningOnOneCpu, ForkInv, EmbryoOfOneFork, LockInv
<1>2. CASE \E ch : wakeup1(ch)
  <2>1. PICK ch : wakeup1(ch)
    BY <1>2
  <2>2. /\ QueueOK(mlf', Runnable', priority') /\ mlf' \in [Levels -> Seq(Procs)]
        /\ priority' \in [Procs -> Levels] /\ age' \in [Procs -> Nat]
        /\ state' = [p \in Procs |-> IF p \in Sleepers(ch) THEN "RUNNABLE" ELSE state[p]]
    BY <2>1, WakeupKeepsQueues
  <2>3. \A p \in Procs : state'[p] = state[p] \/ (state[p] = "SLEEPING" /\ state'[p] = "RUNNABLE")
    BY <2>2 DEF Sleepers
  <2>6. ForkInv'
    BY <2>3, ForkInvKept DEF ForkInv
  <2>7. RunningOnOneCpu' /\ LockInv'
    BY <2>3 DEF TypeOK, RunningOnOneCpu, LockInv
  <2>4. RunningOnOneCpu' /\ ForkInv' /\ LockInv'
    BY <2>6, <2>7
  <2>5. QueueOK(mlf, Runnable, priority)'
    BY <2>2 DEF QueueOK
  <2> QED
    BY <2>2, <2>4, <2>5 DEF TypeOK
<1> QED
  BY <1>1, <1>2

\* A timer interrupt.
LEMMA TimerStep ==
    ASSUME TypeOK, QueueOK(mlf, Runnable, priority), RunningOnOneCpu, ForkInv,
           LockInv, Null \notin Procs, Free \notin CPUs,
           NEW c \in CPUs, timer(c)
    PROVE  IInv'
<1>1. wakeup1(TicksChan) \/ UNCHANGED <<state, priority, age, mlf>>
  BY DEF timer
<1>2. UNCHANGED <<pid, parent, killed, chan, pticks, cpu, lock, nextpid, pc, np>>
  BY DEF timer
<1>3. ticks' \in 0 .. TICKSFORAGE - 1
  BY ConstAssumption DEF timer, TypeOK
<1>4. ptrap' \in [Procs -> {"none", "timer", "aging"}] /\ ctrap' \in [CPUs -> {"none", "aging"}]
  BY ZenonT(100) DEF timer, TypeOK
<1> QED
  BY WakingStep, <1>1, <1>2, <1>3, <1>4 DEF IInv, TypeOK

\* wakeup(ch).
LEMMA WakeupStep ==
    ASSUME TypeOK, QueueOK(mlf, Runnable, priority), RunningOnOneCpu, ForkInv,
           LockInv, Null \notin Procs, Free \notin CPUs,
           NEW ch \in Chans, wakeup(ch)
    PROVE  IInv'
<1>1. wakeup1(ch)
  BY DEF wakeup
<1>2. UNCHANGED <<pid, parent, killed, chan, pticks, cpu, lock, ticks, nextpid,
                  pc, ptrap, ctrap, np>>
  BY DEF wakeup
<1>3. /\ QueueOK(mlf, Runnable, priority)'
      /\ mlf' \in [Levels -> Seq(Procs)] /\ state' \in [Procs -> {"UNUSED",
            "EMBRYO", "SLEEPING", "RUNNABLE", "RUNNING", "ZOMBIE"}]
      /\ priority' \in [Procs -> Levels] /\ age' \in [Procs -> Nat]
      /\ RunningOnOneCpu' /\ ForkInv' /\ LockInv'
  BY <1>1, <1>2, WakingStep
<1>4. TypeOK'
  BY <1>2, <1>3 DEF TypeOK
<1> QED
  BY <1>3, <1>4 DEF IInv

\* The timer trap of a killed process.
LEMMA TrapexitStep ==
    ASSUME TypeOK, QueueOK(mlf, Runnable, priority), RunningOnOneCpu, ForkInv,
           LockInv, Null \notin Procs, Free \notin CPUs,
           NEW c \in CPUs, NEW p \in Procs, cpu[c] = p, trapexit(c, p)
    PROVE  IInv'
<1>1. TypeOK'
  BY ConstAssumption DEF TypeOK, trapexit
<1>2. QueueOK(mlf, Runnable, priority)'
  BY SameQueues DEF trapexit
<1>3. RunningOnOneCpu'
  BY DEF trapexit, RunningOnOneCpu
<1>4. ForkInv'
  BY DEF TypeOK, trapexit, ForkInv, EmbryoOfOneFork, RunningOnOneCpu, Runs, Calls
<1>5. LockInv'
  BY DEF trapexit, LockInv
<1> QED
  BY <1>1, <1>2, <1>3, <1>4, <1>5 DEF IInv

\* The timer trap within a quantum.
LEMMA TrapcountStep ==
    ASSUME TypeOK, QueueOK(mlf, Runnable, priority), RunningOnOneCpu, ForkInv,
           LockInv, Null \notin Procs, Free \notin CPUs,
           NEW c \in CPUs, NEW p \in Procs, trapcount(c, p)
    PROVE  IInv'
<1>6. pticks[p] \in 0 .. QUANTUM - 1 /\ pticks[p] # QUANTUM - 1
  BY DEF TypeOK, trapcount
<1>7. pticks[p] + 1 \in 0 .. QUANTUM - 1
  BY <1>6, ConstAssumption
<1>1. TypeOK'
  BY <1>7 DEF TypeOK, trapcount
<1>2. QueueOK(mlf, Runnable, priority)'
  BY SameQueues DEF trapcount
<1>3. RunningOnOneCpu'
  BY DEF trapcount, RunningOnOneCpu
<1>4. ForkInv'
  BY DEF TypeOK, trapcount, ForkInv, EmbryoOfOneFork, RunningOnOneCpu, Runs, Calls
<1>5. LockInv'
  BY ZenonT(100) DEF trapcount, LockInv
<1> QED
  BY <1>1, <1>2, <1>3, <1>4, <1>5 DEF IInv

\* A system call that may sleep begins.
LEMMA EnterStep ==
    ASSUME TypeOK, QueueOK(mlf, Runnable, priority), RunningOnOneCpu, ForkInv,
           LockInv, Null \notin Procs, Free \notin CPUs,
           NEW c \in CPUs, NEW p \in Procs, enter(c, p)
    PROVE  IInv'
<1>1. TypeOK'
  BY ConstAssumption DEF TypeOK, enter
<1>2. QueueOK(mlf, Runnable, priority)'
  BY SameQueues DEF enter
<1>3. RunningOnOneCpu'
  BY DEF enter, RunningOnOneCpu
<1>4. ForkInv'
  BY DEF TypeOK, enter, ForkInv, EmbryoOfOneFork, RunningOnOneCpu, Runs, Calls
<1>5. LockInv'
  BY ZenonT(100) DEF enter, LockInv
<1> QED
  BY <1>1, <1>2, <1>3, <1>4, <1>5 DEF IInv

\* It ends.
LEMMA LeaveStep ==
    ASSUME TypeOK, QueueOK(mlf, Runnable, priority), RunningOnOneCpu, ForkInv,
           LockInv, Null \notin Procs, Free \notin CPUs,
           NEW c \in CPUs, NEW p \in Procs, leave(c, p)
    PROVE  IInv'
<1>1. TypeOK'
  BY ConstAssumption DEF TypeOK, leave
<1>2. QueueOK(mlf, Runnable, priority)'
  BY SameQueues DEF leave
<1>3. RunningOnOneCpu'
  BY DEF leave, RunningOnOneCpu
<1>4. ForkInv'
  BY DEF TypeOK, leave, ForkInv, EmbryoOfOneFork, RunningOnOneCpu, Runs, Calls
<1>5. LockInv'
  BY DEF leave, LockInv
<1> QED
  BY <1>1, <1>2, <1>3, <1>4, <1>5 DEF IInv

\* exit begins.
LEMMA ExitStep ==
    ASSUME TypeOK, QueueOK(mlf, Runnable, priority), RunningOnOneCpu, ForkInv,
           LockInv, Null \notin Procs, Free \notin CPUs,
           NEW c \in CPUs, NEW p \in Procs, exit(c, p)
    PROVE  IInv'
<1>1. TypeOK'
  BY ConstAssumption DEF TypeOK, exit
<1>2. QueueOK(mlf, Runnable, priority)'
  BY SameQueues DEF exit
<1>3. RunningOnOneCpu'
  BY DEF exit, RunningOnOneCpu
<1>4. ForkInv'
  <2>1. UNCHANGED <<np, state>> /\ pc' = [pc EXCEPT ![p] = "exit"] /\ pc[p] = "user"
    BY DEF exit
  <2>2. \A q \in Procs : pc'[q] = IF q = p THEN "exit" ELSE pc[q]
    BY <2>1 DEF TypeOK
  <2>3. \A q \in Procs : pc[q] \in {"fork", "forked"} =>
                             state[q] \in {"RUNNABLE", "RUNNING"}
    BY DEF ForkInv
  <2> QED
    BY <2>1, <2>2, <2>3, ForkInvKept
<1>5. LockInv'
  BY DEF exit, LockInv
<1> QED
  BY <1>1, <1>2, <1>3, <1>4, <1>5 DEF IInv

\* The timer trap at the end of a quantum: yield.
LEMMA YieldStep ==
    ASSUME TypeOK, QueueOK(mlf, Runnable, priority), RunningOnOneCpu, ForkInv,
           LockInv, Null \notin Procs, Free \notin CPUs,
           NEW c \in CPUs, NEW p \in Procs, cpu[c] = p, lock # c, yield(c, p)
    PROVE  IInv'
<1> DEFINE l == IF priority[p] < MLFLEVELS - 1 THEN priority[p] + 1 ELSE priority[p]
<1>1. l \in Levels
  <2>1. priority[p] \in Levels
    BY DEF TypeOK
  <2> QED
    BY <2>1, ConstAssumption DEF Levels
<1>2. /\ priority' = [priority EXCEPT ![p] = l] /\ make_runnable(p, l)
      /\ state' = [state EXCEPT ![p] = "RUNNABLE"]
      /\ pticks' = [pticks EXCEPT ![p] = 0]
      /\ ptrap' = [ptrap EXCEPT ![p] = "aging"]
      /\ cpu' = [cpu EXCEPT ![c] = Null] /\ lock' = Free
      /\ UNCHANGED <<pid, parent, killed, chan, ticks, nextpid, pc, ctrap, np>>
  BY DEF yield, sched
<1> HIDE DEF l
<1>3. state[p] = "RUNNING"
  BY DEF RunningOnOneCpu
<1>4. priority'[p] = l /\ \A r \in Procs : r # p => priority'[r] = priority[r]
  BY <1>2 DEF TypeOK
<1>5. /\ QueueOK(mlf, Runnable, priority)'
      /\ mlf' \in [Levels -> Seq(Procs)] /\ age' \in [Procs -> Nat]
  BY <1>1, <1>2, <1>3, <1>4, MakeRunnableKeepsQueues
<1>11. 0 \in 0 .. QUANTUM - 1
  BY ConstAssumption
<1>12. priority' \in [Procs -> Levels] /\ pticks' \in [Procs -> 0 .. QUANTUM - 1]
  BY <1>1, <1>2, <1>11 DEF TypeOK
<1>6. TypeOK'
  BY <1>2, <1>5, <1>12 DEF TypeOK
<1>7. RunningOnOneCpu'
  BY <1>2 DEF TypeOK, RunningOnOneCpu
<1>8. /\ \A q \in Procs : state[q] = "EMBRYO" => state'[q] = "EMBRYO"
      /\ \A q \in Procs : state[q] \in {"RUNNABLE", "RUNNING"}
                            => state'[q] \in {"RUNNABLE", "RUNNING"}
  BY <1>2, <1>3 DEF TypeOK
<1>9. ForkInv'
  BY <1>2, <1>8, ForkInvKept DEF ForkInv
<1>10. LockInv'
  BY <1>2 DEF LockInv
<1> QED
  BY <1>5, <1>6, <1>7, <1>9, <1>10 DEF IInv

\* The end of the timer trap: aging.
LEMMA TrapagingStep ==
    ASSUME TypeOK, QueueOK(mlf, Runnable, priority), RunningOnOneCpu, ForkInv,
           LockInv, Null \notin Procs, Free \notin CPUs,
           NEW c \in CPUs, trapaging(c)
    PROVE  IInv'
<1>1. /\ calculateaging \/ UNCHANGED <<mlf, age, priority>>
      /\ UNCHANGED <<state, pid, parent, killed, chan, pticks, cpu, lock, ticks,
                     nextpid, np>>
  BY DEF trapaging
<1>2. ctrap' \in [CPUs -> {"none", "aging"}] /\ ptrap' \in [Procs -> {"none", "timer", "aging"}]
  BY ZenonT(100) DEF trapaging, TypeOK
<1>3. /\ pc' \in [Procs -> {"user", "sys", "fork", "forked", "wait", "exit"}]
      /\ \A p \in Procs : pc'[p] = pc[p] \/ (pc[p] = "user" /\ pc'[p] = "exit")
  BY ZenonT(100) DEF trapaging, TypeOK
<1>4. QueueOK(mlf, Runnable, priority)' /\ mlf' \in [Levels -> Seq(Procs)]
  <2>1. CASE calculateaging
    <3>1. QueueOK(mlf', Runnable, priority') /\ Runnable' = Runnable
      BY <1>1, <2>1, QueueAging DEF Runnable
    <3> QED
      BY <3>1 DEF QueueOK
  <2>2. CASE UNCHANGED <<mlf, age, priority>>
    BY <1>1, <2>2, SameQueues DEF TypeOK
  <2> QED
    BY <1>1, <2>1, <2>2
<1>5. age' \in [Procs -> Nat]
  <2>1. CASE calculateaging
    <3>1. age' = [p \in Procs |-> IF p \in AgedHeads THEN 0
                                  ELSE IF p \in Heads THEN age[p] + 1 ELSE age[p]]
      BY <2>1 DEF calculateaging
    <3>2. \A p \in Procs : age[p] \in Nat /\ age[p] + 1 \in Nat
      BY DEF TypeOK
    <3>3. \A p \in Procs : (IF p \in AgedHeads THEN 0
                            ELSE IF p \in Heads THEN age[p] + 1 ELSE age[p]) \in Nat
      BY <3>2
    <3> QED
      BY <3>1, <3>3
  <2>2. CASE UNCHANGED <<mlf, age, priority>>
    BY <2>2 DEF TypeOK
  <2> QED
    BY <1>1, <2>1, <2>2
<1>6. priority' \in [Procs -> Levels]
  <2>1. ASSUME NEW p \in Procs
        PROVE  raised(p) \in Levels
    <3>1. priority[p] \in Levels
      BY DEF TypeOK
    <3> QED
      BY <3>1, ConstAssumption DEF raised, Levels
  <2>2. CASE calculateaging
    <3>1. priority' = [p \in Procs |-> IF p \in AgedHeads THEN raised(p) ELSE priority[p]]
      BY <2>2 DEF calculateaging
    <3>2. \A p \in Procs : priority[p] \in Levels
      BY DEF TypeOK
    <3> QED
      BY <2>1, <3>1, <3>2
  <2>3. CASE UNCHANGED <<mlf, age, priority>>
    BY <2>3 DEF TypeOK
  <2> QED
    BY <1>1, <2>2, <2>3
<1>7. TypeOK'
  BY <1>1, <1>2, <1>3, <1>4, <1>5, <1>6 DEF TypeOK
<1>8. ForkInv'
  BY <1>1, <1>3, ForkInvKept DEF ForkInv
<1>9. RunningOnOneCpu' /\ LockInv'
  BY <1>1 DEF RunningOnOneCpu, LockInv
<1> QED
  BY <1>4, <1>7, <1>8, <1>9 DEF IInv

-----------------------------------------------------------------------------
(* The system calls                                                        *)

\* fork takes a slot.
LEMMA ForkStep ==
    ASSUME TypeOK, QueueOK(mlf, Runnable, priority), RunningOnOneCpu, ForkInv,
           LockInv, Null \notin Procs, Free \notin CPUs,
           NEW c \in CPUs, NEW p \in Procs, fork(c, p)
    PROVE  IInv'
<1>1. PICK q \in Procs :
        /\ state[q] = "UNUSED"
        /\ state' = [state EXCEPT ![q] = "EMBRYO"]
        /\ pid' = [pid EXCEPT ![q] = nextpid]
        /\ np' = [np EXCEPT ![p] = q]
  BY ZenonT(100) DEF fork, allocproc
<1>2. /\ nextpid' = nextpid + 1 /\ pc' = [pc EXCEPT ![p] = "fork"]
      /\ pc[p] = "user" /\ cpu[c] = p
      /\ UNCHANGED <<parent, killed, chan, priority, age, pticks, mlf, cpu, lock,
                     ticks, ptrap, ctrap>>
  BY DEF fork, allocproc, Calls, Runs
<1>3. TypeOK'
  BY <1>1, <1>2 DEF TypeOK
<1>4. QueueOK(mlf, Runnable, priority)'
  <2>1. Runnable' = Runnable
    BY <1>1 DEF Runnable, TypeOK
  <2> QED
    BY <1>2, <2>1, SameRunnable
<1>5. state[p] = "RUNNING" /\ p # q
  BY <1>1, <1>2 DEF RunningOnOneCpu
<1>6. RunningOnOneCpu' /\ LockInv'
  BY <1>1, <1>2 DEF TypeOK, RunningOnOneCpu, LockInv
<1>7. \A r \in Procs : np[r] # q /\ (np[r] # Null => np[r] \in Procs /\ r # p)
  <2> SUFFICES ASSUME NEW r \in Procs
               PROVE  np[r] # q /\ (np[r] # Null => np[r] \in Procs /\ r # p)
    OBVIOUS
  <2>1. np[r] \in Procs \cup {Null} /\ q # Null
    BY DEF TypeOK
  <2>2. np[r] # Null => pc[r] \in {"fork", "forked"} /\ state[np[r]] = "EMBRYO"
    BY DEF ForkInv, EmbryoOfOneFork
  <2> QED
    BY <1>1, <1>2, <2>1, <2>2
<1>8. \A r \in Procs : np'[r] = (IF r = p THEN q ELSE np[r])
                     /\ pc'[r] = (IF r = p THEN "fork" ELSE pc[r])
                     /\ state'[r] = (IF r = q THEN "EMBRYO" ELSE state[r])
  BY <1>1, <1>2 DEF TypeOK
<1>10. \A r \in Procs : pc'[r] \in {"fork", "forked"} =>
              /\ np'[r] # Null /\ state'[np'[r]] = "EMBRYO"
              /\ state'[r] \in {"RUNNABLE", "RUNNING"}
  <2> SUFFICES ASSUME NEW r \in Procs, pc'[r] \in {"fork", "forked"}
               PROVE  /\ np'[r] # Null /\ state'[np'[r]] = "EMBRYO"
                      /\ state'[r] \in {"RUNNABLE", "RUNNING"}
    OBVIOUS
  <2>1. CASE r = p
    BY <1>5, <1>8, <2>1
  <2>2. CASE r # p
    <3>1. /\ np[r] # Null /\ state[np[r]] = "EMBRYO"
          /\ state[r] \in {"RUNNABLE", "RUNNING"}
      BY <1>8, <2>2 DEF ForkInv, EmbryoOfOneFork
    <3> QED
      BY <1>1, <1>7, <1>8, <2>2, <3>1
  <2> QED
    BY <2>1, <2>2
<1>11. \A r \in Procs : np'[r] # Null => pc'[r] \in {"fork", "forked"}
  BY <1>8 DEF ForkInv
<1>12. \A r, t \in Procs : np'[r] # Null /\ np'[r] = np'[t] => r = t
  BY <1>7, <1>8 DEF ForkInv, EmbryoOfOneFork
<1>9. ForkInv'
  BY <1>10, <1>11, <1>12 DEF ForkInv, EmbryoOfOneFork
<1> QED
  BY <1>3, <1>4, <1>6, <1>9 DEF IInv

\* The slot a forking process fills in is an EMBRYO that no CPU runs and no other fork fills in.
LEMMA ForkChild ==
    ASSUME TypeOK, QueueOK(mlf, Runnable, priority), RunningOnOneCpu, ForkInv,
           LockInv, Null \notin Procs, Free \notin CPUs,
           NEW c \in CPUs, NEW p \in Procs, cpu[c] = p, np[p] \in Procs, pc[p] \in {"fork", "forked"}
    PROVE  /\ state[p] = "RUNNING" /\ state[np[p]] = "EMBRYO" /\ np[p] # p
           /\ \A r \in Procs : r # p => np[r] # np[p]
           /\ \A d \in CPUs : cpu[d] # np[p]
BY ZenonT(100) DEF RunningOnOneCpu, ForkInv, EmbryoOfOneFork

\* fork fills in the child, or fails.
LEMMA ForkcopyStep ==
    ASSUME TypeOK, QueueOK(mlf, Runnable, priority), RunningOnOneCpu, ForkInv,
           LockInv, Null \notin Procs, Free \notin CPUs,
           NEW c \in CPUs, NEW p \in Procs, forkcopy(c, p)
    PROVE  IInv'
<1> DEFINE q == np[p]
<1>1. cpu[c] = p /\ pc[p] = "fork" /\ q \in Procs
  BY DEF forkcopy, Runs, TypeOK, ForkInv, EmbryoOfOneFork
<1>2. /\ state[p] = "RUNNING" /\ state[q] = "EMBRYO" /\ q # p
      /\ \A r \in Procs : r # p => np[r] # q
      /\ \A d \in CPUs : cpu[d] # q
  BY ForkChild, <1>1
<1>3. /\ UNCHANGED <<pid, killed, chan, pticks, mlf, cpu, lock, ticks, nextpid,
                     ptrap, ctrap>>
      /\ priority' = priority \/ priority' = [priority EXCEPT ![q] = 0]
      /\ age' = age \/ age' = [age EXCEPT ![q] = 0]
      /\ parent' = parent \/ parent' = [parent EXCEPT ![q] = p]
      /\ \/ /\ state' = [state EXCEPT ![q] = "UNUSED"]
            /\ pc' = [pc EXCEPT ![p] = "user"] /\ np' = [np EXCEPT ![p] = Null]
         \/ pc' = [pc EXCEPT ![p] = "forked"] /\ UNCHANGED <<state, np>>
  BY DEF forkcopy
<1> HIDE DEF q
<1>4. 0 \in Levels
  BY ConstAssumption DEF Levels
<1>12. /\ priority \in [Procs -> Levels] /\ age \in [Procs -> Nat]
       /\ parent \in [Procs -> Procs \cup {Null}] /\ np \in [Procs -> Procs \cup {Null}]
  BY DEF TypeOK
<1>13. /\ priority' = priority \/ priority' = [priority EXCEPT ![q] = 0]
       /\ age' = age \/ age' = [age EXCEPT ![q] = 0]
  BY <1>3
<1>9. priority' \in [Procs -> Levels] /\ age' \in [Procs -> Nat]
  BY <1>4, <1>12, <1>13
<1>14. /\ parent' = parent \/ parent' = [parent EXCEPT ![q] = p]
       /\ np' = np \/ np' = [np EXCEPT ![p] = Null]
  BY <1>3
<1>10. parent' \in [Procs -> Procs \cup {Null}] /\ np' \in [Procs -> Procs \cup {Null}]
  BY <1>12, <1>14
<1>11. /\ state' \in [Procs -> {"UNUSED", "EMBRYO", "SLEEPING", "RUNNABLE",
                                "RUNNING", "ZOMBIE"}]
       /\ pc' \in [Procs -> {"user", "sys", "fork", "forked", "wait", "exit"}]
  BY <1>3 DEF TypeOK
<1>5. TypeOK'
  BY <1>3, <1>9, <1>10, <1>11 DEF TypeOK
<1>6. QueueOK(mlf, Runnable, priority)'
  <2>1. Runnable' = Runnable /\ q \notin Runnable
    BY <1>1, <1>2, <1>3 DEF Runnable, TypeOK
  <2>2. \A r \in Runnable : priority'[r] = priority[r]
    BY <1>3, <2>1 DEF TypeOK, Runnable
  <2> QED
    BY <1>3, <2>1, <2>2, SameRunnable
<1>15. \A r \in Procs : state'[r] = "RUNNING" <=> state[r] = "RUNNING"
  BY <1>2, <1>3 DEF TypeOK
<1>7. RunningOnOneCpu' /\ LockInv'
  BY <1>3, <1>15, RunningKept DEF LockInv
<1>8. ForkInv'
  <2>1. CASE pc' = [pc EXCEPT ![p] = "forked"] /\ UNCHANGED <<state, np>>
    <3>1. \A r \in Procs : pc'[r] = IF r = p THEN "forked" ELSE pc[r]
      BY <2>1 DEF TypeOK
    <3>2. \A r \in Procs : pc[r] \in {"fork", "forked"} =>
                               state[r] \in {"RUNNABLE", "RUNNING"}
      BY DEF ForkInv
    <3> QED
      BY <1>1, <2>1, <3>1, <3>2, ForkInvKept
  <2>2. CASE /\ state' = [state EXCEPT ![q] = "UNUSED"]
             /\ pc' = [pc EXCEPT ![p] = "user"] /\ np' = [np EXCEPT ![p] = Null]
    <3>1. \A r \in Procs : np'[r] = (IF r = p THEN Null ELSE np[r])
                     /\ pc'[r] = (IF r = p THEN "user" ELSE pc[r])
                     /\ state'[r] = (IF r = q THEN "UNUSED" ELSE state[r])
      BY <2>2 DEF TypeOK
    <3>2. \A r \in Procs : np[r] \in Procs \cup {Null}
      BY DEF TypeOK
    <3>3. \A r \in Procs : pc'[r] \in {"fork", "forked"} =>
                  /\ np'[r] # Null /\ state'[np'[r]] = "EMBRYO"
                  /\ state'[r] \in {"RUNNABLE", "RUNNING"}
      BY <1>2, <3>1, <3>2 DEF ForkInv, EmbryoOfOneFork
    <3>4. \A r \in Procs : np'[r] # Null => pc'[r] \in {"fork", "forked"}
      BY <3>1 DEF ForkInv
    <3>5. \A r, t \in Procs : np'[r] # Null /\ np'[r] = np'[t] => r = t
      BY <3>1 DEF ForkInv, EmbryoOfOneFork
    <3> QED
      BY <3>3, <3>4, <3>5 DEF ForkInv, EmbryoOfOneFork
  <2> QED
    BY <1>3, <2>1, <2>2
<1> QED
  BY <1>5, <1>6, <1>7, <1>8 DEF IInv

\* fork makes the child RUNNABLE.
LEMMA ForkdoneStep ==
    ASSUME TypeOK, QueueOK(mlf, Runnable, priority), RunningOnOneCpu, ForkInv,
           LockInv, Null \notin Procs, Free \notin CPUs,
           NEW c \in CPUs, NEW p \in Procs, forkdone(c, p)
    PROVE  IInv'
<1> DEFINE q == np[p]
<1>1. cpu[c] = p /\ pc[p] = "forked" /\ q \in Procs
  BY DEF forkdone, Runs, TypeOK, ForkInv, EmbryoOfOneFork
<1>2. /\ state[p] = "RUNNING" /\ state[q] = "EMBRYO" /\ q # p
      /\ \A r \in Procs : r # p => np[r] # q
      /\ \A d \in CPUs : cpu[d] # q
  BY ForkChild, <1>1
<1>3. /\ make_runnable(q, priority[q])
      /\ state' = [state EXCEPT ![q] = "RUNNABLE"]
      /\ pc' = [pc EXCEPT ![p] = "user", ![q] = "user"]
      /\ np' = [np EXCEPT ![p] = Null]
      /\ UNCHANGED <<pid, parent, killed, chan, priority, pticks, cpu, lock, ticks,
                     nextpid, ptrap, ctrap>>
  BY DEF forkdone
<1> HIDE DEF q
<1>4. priority[q] \in Levels
  BY <1>1 DEF TypeOK
<1>5. /\ QueueOK(mlf, Runnable, priority)'
      /\ mlf' \in [Levels -> Seq(Procs)] /\ age' \in [Procs -> Nat]
  <2>1. state[q] # "RUNNABLE" /\ priority'[q] = priority[q]
        /\ \A r \in Procs : r # q => priority'[r] = priority[r]
    BY <1>2, <1>3
  <2> QED
    BY <1>1, <1>3, <1>4, <2>1, MakeRunnableKeepsQueues
<1>6. TypeOK'
  BY <1>3, <1>5 DEF TypeOK
<1>9. \A r \in Procs : state'[r] = "RUNNING" <=> state[r] = "RUNNING"
  BY <1>2, <1>3 DEF TypeOK
<1>7. RunningOnOneCpu' /\ LockInv'
  BY <1>3, <1>9, RunningKept DEF LockInv
<1>8. ForkInv'
  <2>1. \A r \in Procs : np'[r] = (IF r = p THEN Null ELSE np[r])
                     /\ pc'[r] = (IF r \in {p, q} THEN "user" ELSE pc[r])
                     /\ state'[r] = (IF r = q THEN "RUNNABLE" ELSE state[r])
    BY <1>3 DEF TypeOK
  <2>2. \A r \in Procs : np[r] \in Procs \cup {Null}
    BY DEF TypeOK
  <2>3. np[q] = Null
    BY <1>1, <1>2 DEF ForkInv
  <2>4. \A r \in Procs : pc'[r] \in {"fork", "forked"} =>
                /\ np'[r] # Null /\ state'[np'[r]] = "EMBRYO"
                /\ state'[r] \in {"RUNNABLE", "RUNNING"}
    <3> SUFFICES ASSUME NEW r \in Procs, pc'[r] \in {"fork", "forked"}
                 PROVE  /\ np'[r] # Null /\ state'[np'[r]] = "EMBRYO"
                        /\ state'[r] \in {"RUNNABLE", "RUNNING"}
      OBVIOUS
    <3>1. r # p /\ r # q /\ pc[r] \in {"fork", "forked"} /\ np'[r] = np[r]
          /\ state'[r] = state[r]
      BY <2>1
    <3>2. /\ np[r] # Null /\ state[np[r]] = "EMBRYO"
          /\ state[r] \in {"RUNNABLE", "RUNNING"}
      BY <3>1 DEF ForkInv, EmbryoOfOneFork
    <3>3. np[r] \in Procs /\ np[r] # q
      BY <1>2, <2>2, <3>1, <3>2
    <3> QED
      BY <2>1, <3>1, <3>2, <3>3
  <2>5. \A r \in Procs : np'[r] # Null => pc'[r] \in {"fork", "forked"}
    BY <2>1, <2>3 DEF ForkInv
  <2>6. \A r, t \in Procs : np'[r] # Null /\ np'[r] = np'[t] => r = t
    BY <2>1 DEF ForkInv, EmbryoOfOneFork
  <2> QED
    BY <2>4, <2>5, <2>6 DEF ForkInv, EmbryoOfOneFork
<1> QED
  BY <1>5, <1>6, <1>7, <1>8 DEF IInv

\* sleep.
LEMMA SleepStep ==
    ASSUME TypeOK, QueueOK(mlf, Runnable, priority), RunningOnOneCpu, ForkInv,
           LockInv, Null \notin Procs, Free \notin CPUs,
           NEW c \in CPUs, NEW p \in Procs, NEW ch \in Chans, sleep(c, p, ch)
    PROVE  IInv'
<1>1. /\ cpu[c] = p /\ pc[p] \in {"sys", "exit"}
      /\ chan' = [chan EXCEPT ![p] = ch]
      /\ state' = [state EXCEPT ![p] = "SLEEPING"]
      /\ cpu' = [cpu EXCEPT ![c] = Null] /\ lock' = Free
      /\ UNCHANGED <<pid, parent, killed, priority, age, pticks, mlf, ticks,
                     nextpid, pc, ptrap, ctrap, np>>
  BY DEF sleep, Runs, sched
<1>2. state[p] = "RUNNING"
  BY <1>1 DEF RunningOnOneCpu
<1>3. TypeOK'
  BY <1>1 DEF TypeOK
<1>4. QueueOK(mlf, Runnable, priority)'
  <2>1. Runnable' = Runnable
    BY <1>1, <1>2 DEF Runnable, TypeOK
  <2> QED
    BY <1>1, <2>1, SameRunnable
<1>5. RunningOnOneCpu' /\ LockInv'
  BY <1>1, <1>2 DEF TypeOK, RunningOnOneCpu, LockInv
<1>6. \A q \in Procs : state'[q] = (IF q = p THEN "SLEEPING" ELSE state[q])
  BY <1>1 DEF TypeOK
<1>7. ForkInv'
  BY <1>1, <1>2, <1>6, ForkInvKept DEF ForkInv
<1> QED
  BY <1>3, <1>4, <1>5, <1>7 DEF IInv

\* setpriority.
LEMMA SetpriorityStep ==
    ASSUME TypeOK, QueueOK(mlf, Runnable, priority), RunningOnOneCpu, ForkInv,
           LockInv, Null \notin Procs, Free \notin CPUs,
           NEW c \in CPUs, NEW p \in Procs, NEW l \in Levels, setpriority(c, p, l)
    PROVE  IInv'
<1>1. /\ cpu[c] = p /\ priority' = [priority EXCEPT ![p] = l]
      /\ UNCHANGED <<state, pid, parent, killed, chan, age, pticks, mlf, cpu, lock,
                     ticks, nextpid, pc, ptrap, ctrap, np>>
  BY ZenonT(100) DEF setpriority, Calls, Runs
<1>2. TypeOK'
  BY <1>1 DEF TypeOK
<1>3. QueueOK(mlf, Runnable, priority)'
  <2>1. Runnable' = Runnable /\ p \notin Runnable
    BY <1>1 DEF Runnable, RunningOnOneCpu
  <2>2. \A r \in Runnable : priority'[r] = priority[r]
    BY <1>1, <2>1 DEF TypeOK, Runnable
  <2> QED
    BY <1>1, <2>1, <2>2, SameRunnable
<1>4. RunningOnOneCpu' /\ LockInv' /\ ForkInv'
  BY <1>1 DEF RunningOnOneCpu, LockInv, ForkInv, EmbryoOfOneFork
<1> QED
  BY <1>2, <1>3, <1>4 DEF IInv

\* kill.
LEMMA KillStep ==
    ASSUME TypeOK, QueueOK(mlf, Runnable, priority), RunningOnOneCpu, ForkInv,
           LockInv, Null \notin Procs, Free \notin CPUs,
           NEW c \in CPUs, NEW p \in Procs, NEW n, kill(c, p, n)
    PROVE  IInv'
<1>1. PICK q \in Procs :
        /\ killed' = [killed EXCEPT ![q] = TRUE]
        /\ IF state[q] = "SLEEPING"
           THEN /\ make_runnable(q, priority[q])
                /\ state' = [state EXCEPT ![q] = "RUNNABLE"]
           ELSE UNCHANGED <<mlf, age, state>>
  BY ZenonT(100) DEF kill
<1>2. UNCHANGED <<pid, parent, chan, priority, pticks, cpu, lock, ticks,
                  nextpid, pc, ptrap, ctrap, np>>
  BY DEF kill
<1>3. /\ QueueOK(mlf, Runnable, priority)'
      /\ mlf' \in [Levels -> Seq(Procs)] /\ age' \in [Procs -> Nat]
  <2>1. CASE state[q] = "SLEEPING"
    <3>1. /\ make_runnable(q, priority[q]) /\ state' = [state EXCEPT ![q] = "RUNNABLE"]
          /\ priority[q] \in Levels /\ state[q] # "RUNNABLE"
          /\ priority'[q] = priority[q]
          /\ \A r \in Procs : r # q => priority'[r] = priority[r]
      BY <1>1, <1>2, <2>1 DEF TypeOK
    <3> QED
      BY <3>1, MakeRunnableKeepsQueues
  <2>2. CASE state[q] # "SLEEPING"
    BY <1>1, <1>2, <2>2, SameQueues DEF TypeOK
  <2> QED
    BY <2>1, <2>2
<1>4. \A r \in Procs : state'[r] = state[r] \/ (state[r] = "SLEEPING" /\ state'[r] = "RUNNABLE")
  BY <1>1 DEF TypeOK
<1>5. /\ state' \in [Procs -> {"UNUSED", "EMBRYO", "SLEEPING", "RUNNABLE",
                                "RUNNING", "ZOMBIE"}]
      /\ killed' \in [Procs -> BOOLEAN]
  BY <1>1 DEF TypeOK
<1>6. TypeOK'
  BY <1>2, <1>3, <1>5 DEF TypeOK
<1>9. \A d \in CPUs : cpu[d] \in Procs \cup {Null}
  BY DEF TypeOK
<1>7. RunningOnOneCpu' /\ LockInv'
  BY <1>2, <1>4, <1>9 DEF RunningOnOneCpu, LockInv
<1>8. ForkInv'
  BY <1>2, <1>4, ForkInvKept DEF ForkInv
<1> QED
  BY <1>3, <1>6, <1>7, <1>8 DEF IInv

\* A turn of the loop in wait.
LEMMA WaitStep ==
    ASSUME TypeOK, QueueOK(mlf, Runnable, priority), RunningOnOneCpu, ForkInv,
           LockInv, Null \notin Procs, Free \notin CPUs,
           NEW c \in CPUs, NEW p \in Procs, wait(c, p)
    PROVE  IInv'
<1>1. /\ cpu[c] = p /\ pc[p] \in {"user", "wait"} /\ (lock = Free \/ lock = c)
      /\ UNCHANGED <<priority, age, pticks, mlf, ticks, nextpid, ptrap, ctrap, np>>
  BY ZenonT(100) DEF wait, Calls, Runs
<1>2. state[p] = "RUNNING"
  BY <1>1 DEF RunningOnOneCpu
<1>3. \/ /\ UNCHANGED cpu
         /\ \/ UNCHANGED <<state, pid, parent, killed>>
            \/ \E q \in Procs : reap(p, q)
      \/ /\ state' = [state EXCEPT ![p] = "SLEEPING"] /\ cpu' = [cpu EXCEPT ![c] = Null]
         /\ UNCHANGED <<pid, parent, killed>>
  BY DEF wait, sched
<1>4. /\ lock' = Free
      /\ pc' = [pc EXCEPT ![p] = "user"] \/ pc' = [pc EXCEPT ![p] = "wait"]
      /\ chan' = [chan EXCEPT ![p] = Null] \/ chan' = [chan EXCEPT ![p] = p]
  BY DEF wait, sched
<1>5. \A q \in Procs : state'[q] = state[q] \/ (state[q] = "ZOMBIE" /\ state'[q] = "UNUSED")
                      \/ (q = p /\ state'[q] = "SLEEPING" /\ cpu' = [cpu EXCEPT ![c] = Null])
  BY <1>3 DEF TypeOK, reap
<1>6. TypeOK'
  <2>1. /\ state' \in [Procs -> {"UNUSED", "EMBRYO", "SLEEPING", "RUNNABLE",
                                 "RUNNING", "ZOMBIE"}]
        /\ pid' \in [Procs -> Nat] /\ parent' \in [Procs -> Procs \cup {Null}]
        /\ killed' \in [Procs -> BOOLEAN]
    <3>1. /\ state \in [Procs -> {"UNUSED", "EMBRYO", "SLEEPING", "RUNNABLE",
                                  "RUNNING", "ZOMBIE"}]
          /\ pid \in [Procs -> Nat] /\ parent \in [Procs -> Procs \cup {Null}]
          /\ killed \in [Procs -> BOOLEAN]
      BY DEF TypeOK
    <3>2. CASE \E q \in Procs : reap(p, q)
      <4>1. PICK q \in Procs : reap(p, q)
        BY <3>2
      <4>2. /\ state' = [state EXCEPT ![q] = "UNUSED"] /\ pid' = [pid EXCEPT ![q] = 0]
            /\ parent' = [parent EXCEPT ![q] = Null]
            /\ killed' = [killed EXCEPT ![q] = FALSE]
        BY <4>1 DEF reap
      <4> QED
        BY <3>1, <4>2
    <3>3. CASE UNCHANGED <<pid, parent, killed>>
               /\ (UNCHANGED state \/ state' = [state EXCEPT ![p] = "SLEEPING"])
      BY <3>1, <3>3
    <3> QED
      BY <1>3, <3>2, <3>3
  <2>2. /\ pc' \in [Procs -> {"user", "sys", "fork", "forked", "wait", "exit"}]
        /\ chan' \in [Procs -> Procs \cup Chans \cup {Null}]
    <3>1. /\ pc \in [Procs -> {"user", "sys", "fork", "forked", "wait", "exit"}]
          /\ chan \in [Procs -> Procs \cup Chans \cup {Null}]
      BY DEF TypeOK
    <3> QED
      BY <1>4, <3>1
  <2>3. cpu' \in [CPUs -> Procs \cup {Null}]
    BY <1>3 DEF TypeOK
  <2> QED
    BY <1>1, <1>4, <2>1, <2>2, <2>3 DEF TypeOK
<1>7. QueueOK(mlf, Runnable, priority)'
  <2>1. Runnable' = Runnable
    BY <1>2, <1>5 DEF Runnable
  <2> QED
    BY <1>1, <2>1, SameRunnable
<1>8. RunningOnOneCpu'
  <2>1. \A d \in CPUs : cpu[d] \in Procs \cup {Null}
    BY DEF TypeOK
  <2>2. CASE UNCHANGED cpu /\ \A q \in Procs : state[q] = "RUNNING" <=> state'[q] = "RUNNING"
    BY <2>1, <2>2 DEF RunningOnOneCpu
  <2>3. CASE state' = [state EXCEPT ![p] = "SLEEPING"] /\ cpu' = [cpu EXCEPT ![c] = Null]
    BY <1>1, <1>2, <2>1, <2>3 DEF RunningOnOneCpu, TypeOK
  <2>5. cpu' = [cpu EXCEPT ![c] = Null] => cpu' # cpu
    <3>1. cpu \in [CPUs -> Procs \cup {Null}] /\ cpu[c] # Null
      BY <1>1 DEF TypeOK
    <3> QED
      BY <3>1
  <2>4. UNCHANGED cpu => \A q \in Procs : state[q] = "RUNNING" <=> state'[q] = "RUNNING"
    BY <1>5, <2>5
  <2> QED
    BY <1>3, <2>2, <2>3, <2>4
<1>9. LockInv'
  BY <1>4 DEF LockInv
<1>10. ForkInv'
  <2>1. \A q \in Procs : pc'[q] = pc[q] \/ (q = p /\ pc'[q] \in {"user", "wait"})
    BY <1>4 DEF TypeOK
  <2>2. \A q \in Procs : state[q] = "EMBRYO" => state'[q] = "EMBRYO"
    BY <1>2, <1>5
  <2>3. ASSUME NEW q \in Procs, pc'[q] \in {"fork", "forked"}
        PROVE  pc[q] \in {"fork", "forked"} /\ state'[q] \in {"RUNNABLE", "RUNNING"}
    <3>1. pc[q] \in {"fork", "forked"} /\ q # p
      BY <1>1, <2>1, <2>3
    <3>2. state[q] \in {"RUNNABLE", "RUNNING"}
      BY <3>1 DEF ForkInv
    <3> QED
      BY <1>5, <3>1, <3>2
  <2>4. \A q \in Procs : pc[q] \in {"fork", "forked"} => pc'[q] \in {"fork", "forked"}
    BY <1>1, <2>1
  <2> QED
    BY <1>1, <2>2, <2>3, <2>4, ForkInvKept
<1> QED
  BY <1>6, <1>7, <1>8, <1>9, <1>10 DEF IInv

\* The locked end of exit.
LEMMA ExitlockedStep ==
    ASSUME TypeOK, QueueOK(mlf, Runnable, priority), RunningOnOneCpu, ForkInv,
           LockInv, Null \notin Procs, Free \notin CPUs,
           NEW c \in CPUs, NEW p \in Procs, exitlocked(c, p)
    PROVE  IInv'
<1> DEFINE W1 == ParentWoken(p)
           W2 == InitWoken(p)
           W == W1 \cup W2
           q1 == WakeQueues(mlf, W1)
           q2 == WakeQueues(q1, W2)
           pr2 == priority'
           pr1 == [r \in Procs |-> IF r \in W1 THEN raised(r) ELSE priority[r]]
<1>1. /\ cpu[c] = p /\ pc[p] = "exit"
      /\ mlf' = q2 /\ WakeFields(W)
      /\ state' = [q \in Procs |-> IF q = p THEN "ZOMBIE"
                                   ELSE IF q \in W THEN "RUNNABLE" ELSE state[q]]
      /\ parent' = [q \in Procs |-> IF parent[q] = p THEN initproc ELSE parent[q]]
      /\ cpu' = [cpu EXCEPT ![c] = Null] /\ lock' = Free
      /\ UNCHANGED <<pid, killed, chan, pticks, ticks, nextpid, pc, ptrap, ctrap, np>>
  BY ZenonT(100) DEF exitlocked, Runs, sched, Adopted
<1>2. /\ W1 \subseteq Procs /\ W2 \subseteq Procs /\ W1 \cap W2 = {}
      /\ \A r \in W : r \in Procs /\ state[r] = "SLEEPING"
  BY ZenonT(100) DEF Sleepers, ParentWoken, InitWoken
<1>3. /\ pr2 \in [Procs -> Levels] /\ age' \in [Procs -> Nat]
      /\ \A r \in W : pr2[r] = raised(r)
      /\ \A r \in Procs \ W : pr2[r] = priority[r]
  <2> HIDE DEF W
  <2>1. W \in SUBSET Procs
    BY <1>2
  <2> QED
    BY <1>1, <1>2, <2>1, WakeFieldsType DEF WakeFields
<1>4. /\ \A r \in W1 : pr1[r] = raised(r)
      /\ \A r \in Procs \ W1 : pr1[r] = priority[r]
  BY <1>2
<1>5. W = W1 \cup W2
  OBVIOUS
<1>6. mlf \in [Levels -> Seq(Procs)]
  BY DEF TypeOK
<1>7. q1 = WakeQueues(mlf, W1) /\ q2 = WakeQueues(q1, W2) /\ mlf' = q2 /\ priority' = pr2
  BY <1>1
<1>8. Runnable' = (Runnable \cup W1) \cup W2
  <2>1. state[p] = "RUNNING"
    BY <1>1 DEF RunningOnOneCpu
  <2> HIDE DEF W1, W2
  <2> QED
    BY <1>1, <1>2, <2>1 DEF Runnable, TypeOK
<1> HIDE DEF W1, W2, W, q1, q2, pr1, pr2
<1>9. ExtendBy(mlf, q1, W1, pr1)
  BY <1>2, <1>4, <1>6, <1>7, WakeQueuesExtend
<1>10. W1 \cap Runnable = {} /\ \A r \in Runnable : pr1[r] = priority[r]
  BY <1>2, <1>4, <1>5 DEF Runnable
<1>11. QueueOK(q1, Runnable \cup W1, pr1)
  BY <1>2, <1>9, <1>10, QueueExtend
<1>12. ExtendBy(q1, q2, W2, pr2)
  <2>1. q1 \in [Levels -> Seq(Procs)]
    BY <1>9 DEF ExtendBy
  <2>2. \A r \in W2 : pr2[r] = raised(r)
    BY <1>3, <1>5
  <2> QED
    BY <1>2, <1>7, <2>1, <2>2, WakeQueuesExtend
<1>13. /\ W2 \cap (Runnable \cup W1) = {}
       /\ \A r \in Runnable \cup W1 : pr2[r] = pr1[r]
  BY <1>2, <1>3, <1>4, <1>5 DEF Runnable
<1>14. QueueOK(q2, (Runnable \cup W1) \cup W2, pr2)
  BY <1>2, <1>11, <1>12, <1>13, QueueExtend
<1>15. QueueOK(mlf, Runnable, priority)'
  BY <1>7, <1>8, <1>14 DEF QueueOK
<1>16. mlf' \in [Levels -> Seq(Procs)] /\ priority' \in [Procs -> Levels]
  BY <1>3, <1>7, <1>12 DEF ExtendBy
<1>17. TypeOK'
  <2>1. initproc \in Procs
    BY ConstAssumption DEF initproc, Procs
  <2>2. parent' \in [Procs -> Procs \cup {Null}] /\ cpu' \in [CPUs -> Procs \cup {Null}]
    BY <1>1, <2>1 DEF TypeOK
  <2>3. state' \in [Procs -> {"UNUSED", "EMBRYO", "SLEEPING", "RUNNABLE",
                               "RUNNING", "ZOMBIE"}]
    BY <1>1 DEF TypeOK
  <2> QED
    BY <1>1, <1>3, <1>16, <2>2, <2>3 DEF TypeOK
<1>18. \A q \in Procs : state'[q] = (IF q = p THEN "ZOMBIE"
                                    ELSE IF q \in W THEN "RUNNABLE" ELSE state[q])
  BY <1>1
<1>19. RunningOnOneCpu'
  <2>1. cpu[c] = p /\ cpu' = [cpu EXCEPT ![c] = Null]
    BY <1>1
  <2>2. \A q \in Procs : q # p => (state'[q] = "RUNNING" <=> state[q] = "RUNNING")
    BY <1>2, <1>18
  <2>3. state'[p] # "RUNNING"
    BY <1>18
  <2> QED
    BY <2>1, <2>2, <2>3, RunningLeft
<1>20. LockInv'
  BY <1>1 DEF LockInv
<1>21. ForkInv'
  <2>1. state[p] = "RUNNING"
    BY <1>1 DEF RunningOnOneCpu
  <2>2. /\ \A q \in Procs : state[q] = "EMBRYO" => state'[q] = "EMBRYO"
        /\ \A q \in Procs : pc'[q] \in {"fork", "forked"} =>
              /\ pc[q] \in {"fork", "forked"}
              /\ state'[q] \in {"RUNNABLE", "RUNNING"}
        /\ \A q \in Procs : pc[q] \in {"fork", "forked"} => pc'[q] = pc[q]
    BY <1>1, <1>2, <1>18, <2>1 DEF ForkInv
  <2> QED
    BY <1>1, <2>2, ForkInvKept
<1> QED
  BY <1>15, <1>17, <1>19, <1>20, <1>21 DEF IInv

\* Every step of the scheduler, the timer trap and the system calls keeps the
\* inductive invariant.
LEMMA NextIInv == IInv /\ [Next]_vars => IInv'
<1> SUFFICES ASSUME IInv, [Next]_vars PROVE IInv'
  OBVIOUS
<1>0. /\ TypeOK /\ QueueOK(mlf, Runnable, priority) /\ RunningOnOneCpu
      /\ ForkInv /\ LockInv
      /\ Null \notin Procs /\ Free \notin CPUs
  BY ConstAssumption DEF IInv, Procs, Null, Free, CPUs
<1>1. CASE UNCHANGED vars
  <2>1. QueueOK(mlf, Runnable, priority)'
    BY <1>0, <1>1, SameQueues DEF vars
  <2>2. TypeOK' /\ RunningOnOneCpu' /\ ForkInv' /\ LockInv'
    <3>1. TypeOK'
      BY <1>0, <1>1 DEF vars, TypeOK
    <3>2. RunningOnOneCpu' /\ LockInv'
      BY <1>0, <1>1 DEF vars, RunningOnOneCpu, LockInv
    <3>3. ForkInv'
      BY <1>0, <1>1 DEF vars, ForkInv, EmbryoOfOneFork
    <3> QED
      BY <3>1, <3>2, <3>3
  <2> QED
    BY <2>1, <2>2 DEF IInv
<1>2. ASSUME NEW c \in CPUs, NEW l \in Levels, scheduler(c, l)
      PROVE  IInv'
  BY <1>0, <1>2, SchedulerStep
<1>3. ASSUME NEW c \in CPUs, schedreturn(c)
      PROVE  IInv'
  BY <1>0, <1>3, SchedreturnStep
<1>5. ASSUME NEW c \in CPUs, timer(c)
      PROVE  IInv'
  BY <1>0, <1>5, TimerStep
<1>6. ASSUME NEW ch \in Chans, wakeup(ch)
      PROVE  IInv'
  BY <1>0, <1>6, WakeupStep
<1>7. ASSUME NEW c \in CPUs, NEW p \in Procs, cpu[c] = p, trapexit(c, p)
      PROVE  IInv'
  BY <1>0, <1>7, TrapexitStep
<1>8. ASSUME NEW c \in CPUs, NEW p \in Procs, trapcount(c, p)
      PROVE  IInv'
  BY <1>0, <1>8, TrapcountStep
<1>9. ASSUME NEW c \in CPUs, NEW p \in Procs, enter(c, p)
      PROVE  IInv'
  BY <1>0, <1>9, EnterStep
<1>10. ASSUME NEW c \in CPUs, NEW p \in Procs, leave(c, p)
      PROVE  IInv'
  BY <1>0, <1>10, LeaveStep
<1>11. ASSUME NEW c \in CPUs, NEW p \in Procs, exit(c, p)
      PROVE  IInv'
  BY <1>0, <1>11, ExitStep
<1>12. ASSUME NEW c \in CPUs, NEW p \in Procs, cpu[c] = p, lock # c, yield(c, p)
      PROVE  IInv'
  BY <1>0, <1>12, YieldStep
<1>13. ASSUME NEW c \in CPUs, trapaging(c)
      PROVE  IInv'
  BY <1>0, <1>13, TrapagingStep
<1>14. ASSUME NEW c \in CPUs, NEW p \in Procs, fork(c, p)
      PROVE  IInv'
  BY <1>0, <1>14, ForkStep
<1>16. ASSUME NEW c \in CPUs, NEW p \in Procs, forkcopy(c, p)
      PROVE  IInv'
  BY <1>0, <1>16, ForkcopyStep
<1>17. ASSUME NEW c \in CPUs, NEW p \in Procs, forkdone(c, p)
      PROVE  IInv'
  BY <1>0, <1>17, ForkdoneStep
<1>18. ASSUME NEW c \in CPUs, NEW p \in Procs, NEW ch \in Chans, sleep(c, p, ch)
      PROVE  IInv'
  BY <1>0, <1>18, SleepStep
<1>19. ASSUME NEW c \in CPUs, NEW p \in Procs, NEW l \in Levels, setpriority(c, p, l)
      PROVE  IInv'
  BY <1>0, <1>19, SetpriorityStep
<1>20. ASSUME NEW c \in CPUs, NEW p \in Procs, NEW n, kill(c, p, n)
      PROVE  IInv'
  BY <1>0, <1>20, KillStep
<1>21. ASSUME NEW c \in CPUs, NEW p \in Procs, wait(c, p)
      PROVE  IInv'
  BY <1>0, <1>21, WaitStep
<1>22. ASSUME NEW c \in CPUs, NEW p \in Procs, exitlocked(c, p)
      PROVE  IInv'
  BY <1>0, <1>22, ExitlockedStep
<1>23. ASSUME NEW c \in CPUs, trapquantum(c)
      PROVE  IInv'
  BY <1>7, <1>8, <1>12, <1>23 DEF trapquantum
<1>24. ASSUME NEW c \in CPUs, Step(c)
      PROVE  IInv'
  BY ZenonT(100), <1>2, <1>3, <1>5, <1>9, <1>10, <1>11, <1>13, <1>14, <1>16, <1>17, <1>18,
     <1>19, <1>20, <1>21, <1>22, <1>23, <1>24 DEF Step
<1> QED
  BY <1>1, <1>6, <1>24 DEF Next

-----------------------------------------------------------------------------
(* The theorems                                                            *)

\* The inductive invariant holds in every reachable state of proc.c's table.
THEOREM Invariance == Spec => []IInv
  BY InitIInv, NextIInv, PTL DEF Spec

\* Type correctness: in particular no level, queue, CPU slot or quantum counter
\* of proc.c and trap.c ever leaves its range.
THEOREM TypeCorrect == Spec => []TypeOK
<1>1. IInv => TypeOK
  BY DEF IInv
<1> QED
  BY <1>1, Invariance, PTL

\* The queues of proc.c hold exactly the RUNNABLE processes, each once and at
\* its own level: unqueue and calculateaging never panic.
THEOREM QueuesCorrect == Spec => []QueuesHoldRunnable
<1>1. IInv => QueuesHoldRunnable
  BY QueueOKImplies DEF IInv
<1> QED
  BY <1>1, Invariance, PTL

\* No process runs on two CPUs and none is RUNNING without a CPU, although
\* ptable.lock passes from the scheduler to the process across swtch.
THEOREM OneCpu == Spec => []RunningOnOneCpu
<1>1. IInv => RunningOnOneCpu
  BY DEF IInv
<1> QED
  BY <1>1, Invariance, PTL

\* The child that fork fills in without the lock belongs to that fork alone.
THEOREM EmbryoOwned == Spec => []EmbryoOfOneFork
<1>1. IInv => EmbryoOfOneFork
  BY DEF IInv, ForkInv
<1> QED
  BY <1>1, Invariance, PTL

-----------------------------------------------------------------------------
(* Parents and children                                                    *)

Alive(p) == state[p] \in {"SLEEPING", "RUNNABLE", "RUNNING"}

\* Who sleeps in wait has to, on its own channel.
WaitInv ==
    \A p \in Procs : state[p] = "SLEEPING" /\ pc[p] = "wait" =>
        /\ chan[p] = p /\ ~ killed[p]
        /\ \A z \in Procs : ~ (state[z] = "ZOMBIE" /\ parent[z] = p)

\* initproc never ends, the parent of a process is another one and alive, and fork
\* has named the parent before the child can run.
ParentInv ==
    /\ Alive(initproc) /\ ~ killed[initproc] /\ pc[initproc] # "exit"
    /\ parent[initproc] = Null /\ \A p \in Procs : parent[p] # p
    /\ \A p \in Procs \ {initproc} : state[p] \notin {"UNUSED", "EMBRYO"} =>
          parent[p] \in Procs /\ Alive(parent[p])
    /\ \A p \in Procs : pc[p] = "forked" => parent[np[p]] = p

FamilyInv == WaitInv /\ ParentInv

LEMMA InitFamily == Init => FamilyInv
<1>1. initproc \in Procs
  BY ConstAssumption DEF Procs, initproc
<1>2. Null \notin Procs
  BY ConstAssumption DEF Procs, Null
<1> QED
  BY <1>1, <1>2 DEF Init, FamilyInv, WaitInv, ParentInv, Alive

LEMMA Constants == initproc \in Procs /\ Null \notin Procs
  BY ConstAssumption DEF Procs, initproc, Null

\* What a step may do to the families: nobody goes to sleep in wait, and no zombie
\* is new or changes its parent;
NoNewWaiter ==
    \A p \in Procs : state'[p] = "SLEEPING" /\ pc'[p] = "wait" =>
        /\ state[p] = "SLEEPING" /\ pc[p] = "wait"
        /\ chan'[p] = chan[p] /\ killed'[p] = killed[p]

NoNewZombie ==
    \A z \in Procs : state'[z] = "ZOMBIE" => state[z] = "ZOMBIE" /\ parent'[z] = parent[z]

\* who is alive stays so, who is born has its parent already, and the children
\* that fork is building keep theirs.
LivesOn == \A p \in Procs : Alive(p) => Alive(p)'

NoNewChild ==
    \A p \in Procs : state'[p] \notin {"UNUSED", "EMBRYO"} =>
        state[p] \notin {"UNUSED", "EMBRYO"} /\ parent'[p] = parent[p]

NoNewFork ==
    \A p \in Procs : pc'[p] = "forked" =>
        pc[p] = "forked" /\ np'[p] = np[p] /\ parent'[np[p]] = parent[np[p]]

InitStays ==
    ~ killed'[initproc] /\ pc'[initproc] # "exit" /\ parent'[initproc] = parent[initproc]

LEMMA WaitKept == ASSUME WaitInv, NoNewWaiter, NoNewZombie PROVE WaitInv'
<1>1. ASSUME NEW x \in Procs, state'[x] = "SLEEPING", pc'[x] = "wait"
      PROVE  /\ chan'[x] = x /\ ~ killed'[x]
             /\ \A z \in Procs : ~ (state'[z] = "ZOMBIE" /\ parent'[z] = x)
  <2>1. /\ state[x] = "SLEEPING" /\ pc[x] = "wait"
        /\ chan'[x] = chan[x] /\ killed'[x] = killed[x]
    BY <1>1 DEF NoNewWaiter
  <2>2. /\ chan[x] = x /\ ~ killed[x]
        /\ \A z \in Procs : ~ (state[z] = "ZOMBIE" /\ parent[z] = x)
    BY <2>1 DEF WaitInv
  <2> QED
    BY <2>1, <2>2 DEF NoNewZombie
<1> QED
  BY <1>1 DEF WaitInv

\* The conjuncts of ParentInv, one by one.
LEMMA InitprocLives ==
    ASSUME ParentInv
    PROVE  /\ Alive(initproc) /\ ~ killed[initproc] /\ pc[initproc] # "exit"
           /\ parent[initproc] = Null
  BY DEF ParentInv

LEMMA NotOwnParent == ASSUME ParentInv, NEW p \in Procs PROVE parent[p] # p
  BY DEF ParentInv

LEMMA ParentAlive ==
    ASSUME ParentInv, NEW p \in Procs, p # initproc, state[p] \notin {"UNUSED", "EMBRYO"}
    PROVE  parent[p] \in Procs /\ Alive(parent[p])
  BY DEF ParentInv

LEMMA ForkedParent == ASSUME ParentInv, NEW p \in Procs, pc[p] = "forked" PROVE parent[np[p]] = p
  BY DEF ParentInv

LEMMA ParentKept ==
    ASSUME ParentInv, InitStays, LivesOn, NoNewChild, NoNewFork, \A p \in Procs : parent'[p] # p
    PROVE  ParentInv'
<1>1. /\ Alive(initproc)' /\ ~ killed'[initproc] /\ pc'[initproc] # "exit"
      /\ parent'[initproc] = Null
  BY InitprocLives, Constants DEF InitStays, LivesOn
<1>2. ASSUME NEW p \in Procs \ {initproc}, state'[p] \notin {"UNUSED", "EMBRYO"}
      PROVE  parent'[p] \in Procs /\ state'[parent'[p]] \in {"SLEEPING", "RUNNABLE", "RUNNING"}
  <2>1. state[p] \notin {"UNUSED", "EMBRYO"} /\ parent'[p] = parent[p]
    BY <1>2 DEF NoNewChild
  <2>2. parent[p] \in Procs /\ Alive(parent[p])
    BY <2>1, ParentAlive
  <2>3. PICK y \in Procs : y = parent'[p] /\ Alive(y)
    BY <2>1, <2>2
  <2> QED
    BY <2>3 DEF LivesOn, Alive
<1>3. ASSUME NEW p \in Procs, pc'[p] = "forked" PROVE parent'[np'[p]] = p
  BY <1>3, ForkedParent DEF NoNewFork
<1> QED
  BY <1>1, <1>2, <1>3 DEF ParentInv, Alive

\* The steps in which nobody is born or ends, and nobody goes to sleep in wait.
LEMMA FamilyKept ==
    ASSUME FamilyInv, parent' = parent, NoNewWaiter,
           \A p \in Procs : state'[p] = state[p] \/ (Alive(p) /\ Alive(p)'),
           \A p \in Procs : pc'[p] = "forked" => pc[p] = "forked" /\ np'[p] = np[p],
           ~ killed'[initproc], pc'[initproc] # "exit"
    PROVE  FamilyInv'
<1>0. WaitInv /\ ParentInv
  BY DEF FamilyInv
<1>1. NoNewZombie
  BY DEF NoNewZombie, Alive
<1>2. LivesOn
  BY DEF LivesOn, Alive
<1>3. NoNewChild
  BY DEF NoNewChild, Alive
<1>4. NoNewFork /\ InitStays
  BY DEF NoNewFork, InitStays
<1>5. \A p \in Procs : parent'[p] # p
  BY <1>0, NotOwnParent
<1> QED
  BY <1>0, <1>1, <1>2, <1>3, <1>4, <1>5, WaitKept, ParentKept DEF FamilyInv

\* The processes that a wakeup1 makes RUNNABLE were asleep.
LEMMA WakesSleepers ==
    ASSUME NEW ch, wakeup1(ch)
    PROVE  \A p \in Procs : state'[p] = state[p] \/ (state[p] = "SLEEPING" /\ state'[p] = "RUNNABLE")
  BY DEF wakeup1, Sleepers

\* The steps that only wake sleepers.
LEMMA FamilyWoken ==
    ASSUME FamilyInv, UNCHANGED <<parent, killed, chan, pc, np>>,
           \A p \in Procs : state'[p] = state[p] \/ (state[p] = "SLEEPING" /\ state'[p] = "RUNNABLE")
    PROVE  FamilyInv'
<1>1. ~ killed'[initproc] /\ pc'[initproc] # "exit"
  BY InitprocLives DEF FamilyInv
<1>2. NoNewWaiter
  BY DEF NoNewWaiter
<1>3. \A p \in Procs : state'[p] = state[p] \/ (Alive(p) /\ Alive(p)')
  BY DEF Alive
<1> QED
  BY <1>1, <1>2, <1>3, FamilyKept

LEMMA SchedulerFamily ==
    ASSUME IInv, FamilyInv, NEW c \in CPUs,
           (\E l \in Levels : scheduler(c, l)) \/ schedreturn(c)
    PROVE  FamilyInv'
<1>0. TypeOK /\ QueuesHoldRunnable /\ RunningOnOneCpu /\ LockInv
  BY QueueOKImplies DEF IInv
<1>a. ~ killed[initproc] /\ pc[initproc] # "exit"
  BY InitprocLives DEF FamilyInv
<1>1. ASSUME NEW l \in Levels, scheduler(c, l)
      PROVE  FamilyInv'
  <2>1. mlf[l] # <<>> /\ mlf[l] \in Seq(Procs)
    BY <1>0, <1>1 DEF scheduler, TypeOK
  <2>2. PICK p \in Procs : p = mlf[l][1] /\ state[p] = "RUNNABLE"
    BY <1>0, <2>1 DEF QueuesHoldRunnable, QueuedIsRunnable, Runnable
  <2>3. /\ state' = [state EXCEPT ![p] = "RUNNING"]
        /\ UNCHANGED <<pid, parent, killed, chan, pc, np>>
    BY <1>1, <2>2 DEF scheduler
  <2>4. \A q \in Procs : state'[q] = IF q = p THEN "RUNNING" ELSE state[q]
    BY <1>0, <2>3 DEF TypeOK
  <2>5. NoNewWaiter
    BY <2>3, <2>4 DEF NoNewWaiter
  <2>6. \A q \in Procs : state'[q] = state[q] \/ (Alive(q) /\ Alive(q)')
    BY <2>2, <2>4 DEF Alive
  <2> QED
    BY <1>a, <2>3, <2>5, <2>6, FamilyKept
<1>2. CASE schedreturn(c)
  <2>0. c # Free
    BY ConstAssumption DEF CPUs, Free
  <2>1. PICK p \in Procs : p = cpu[c] /\ state[p] = "RUNNING"
    <3>1. lock = c /\ cpu[c] # Null
      BY <1>0, <1>2, <2>0 DEF schedreturn, LockInv
    <3>2. cpu[c] \in Procs
      BY <1>0, <3>1 DEF TypeOK
    <3> QED
      BY <1>0, <3>2, Constants DEF RunningOnOneCpu
  <2>2. /\ chan' = [chan EXCEPT ![p] = Null]
        /\ UNCHANGED <<state, parent, killed, pc, np>>
    BY <1>2, <2>1 DEF schedreturn
  <2>3. \A q \in Procs : q # p => chan'[q] = chan[q]
    BY <1>0, <2>2 DEF TypeOK
  <2>4. NoNewWaiter
    BY <2>1, <2>2, <2>3 DEF NoNewWaiter
  <2> QED
    BY <1>a, <2>2, <2>4, FamilyKept
<1> QED
  BY <1>1, <1>2

\* A step that only moves one process on, not into wait nor a fork.
LEMMA FamilyMoved ==
    ASSUME TypeOK, FamilyInv, NEW p \in Procs, NEW a, a \notin {"wait", "forked"},
           a = "exit" => p # initproc, pc' = [pc EXCEPT ![p] = a],
           UNCHANGED <<state, parent, killed, chan, np>>
    PROVE  FamilyInv'
<1>1. \A q \in Procs : pc'[q] = IF q = p THEN a ELSE pc[q]
  BY DEF TypeOK
<1>2. ~ killed[initproc] /\ pc[initproc] # "exit"
  BY InitprocLives DEF FamilyInv
<1>3. ~ killed'[initproc] /\ pc'[initproc] # "exit"
  BY <1>1, <1>2, Constants
<1>4. NoNewWaiter
  BY <1>1 DEF NoNewWaiter
<1>5. \A q \in Procs : pc'[q] = "forked" => pc[q] = "forked" /\ np'[q] = np[q]
  BY <1>1
<1> QED
  BY <1>3, <1>4, <1>5, FamilyKept

LEMMA TrapFamily ==
    ASSUME IInv, FamilyInv, NEW c \in CPUs, timer(c) \/ trapquantum(c) \/ trapaging(c)
    PROVE  FamilyInv'
<1>0. TypeOK /\ RunningOnOneCpu
  BY DEF IInv
<1>a. ~ killed[initproc] /\ pc[initproc] # "exit"
  BY InitprocLives DEF FamilyInv
<1>b. ASSUME UNCHANGED <<state, parent, killed, chan, pc, np>>
      PROVE  FamilyInv'
  <2>1. \A q \in Procs : state'[q] = state[q] \/ (state[q] = "SLEEPING" /\ state'[q] = "RUNNABLE")
    BY <1>b
  <2> QED
    BY <1>b, <2>1, FamilyWoken
<1>1. CASE timer(c)
  <2>1. UNCHANGED <<parent, killed, chan, pc, np>>
    BY <1>1 DEF timer
  <2>2. \A p \in Procs : state'[p] = state[p] \/ (state[p] = "SLEEPING" /\ state'[p] = "RUNNABLE")
    BY <1>1, WakesSleepers DEF timer
  <2> QED
    BY <2>1, <2>2, FamilyWoken
<1>2. ASSUME NEW p \in Procs, cpu[c] = p, trapexit(c, p)
      PROVE  FamilyInv'
  <2>1. /\ killed[p] /\ pc' = [pc EXCEPT ![p] = "exit"]
        /\ UNCHANGED <<state, parent, killed, chan, np>>
    BY <1>2 DEF trapexit
  <2>2. p # initproc
    BY <1>a, <2>1
  <2> QED
    BY <1>0, <2>1, <2>2, FamilyMoved
<1>3. ASSUME NEW p \in Procs, cpu[c] = p, trapcount(c, p)
      PROVE  FamilyInv'
  <2>1. UNCHANGED <<state, parent, killed, chan, pc, np>>
    BY <1>3 DEF trapcount
  <2> QED
    BY <1>b, <2>1
<1>4. ASSUME NEW p \in Procs, cpu[c] = p, yield(c, p)
      PROVE  FamilyInv'
  <2>1. /\ state' = [state EXCEPT ![p] = "RUNNABLE"]
        /\ UNCHANGED <<parent, killed, chan, pc, np>>
    BY <1>4 DEF yield
  <2>2. state[p] = "RUNNING"
    BY <1>0, <1>4, Constants DEF RunningOnOneCpu
  <2>3. \A q \in Procs : state'[q] = IF q = p THEN "RUNNABLE" ELSE state[q]
    BY <1>0, <2>1 DEF TypeOK
  <2>4. NoNewWaiter
    BY <2>1, <2>3 DEF NoNewWaiter
  <2>5. \A q \in Procs : state'[q] = state[q] \/ (Alive(q) /\ Alive(q)')
    BY <2>2, <2>3 DEF Alive
  <2> QED
    BY <1>a, <2>1, <2>4, <2>5, FamilyKept
<1>5. CASE trapaging(c)
  <2>1. UNCHANGED <<state, parent, killed, chan, np>>
    BY <1>5 DEF trapaging
  <2>2. CASE cpu[c] = Null
    <3>1. UNCHANGED pc
      BY <1>5, <2>2 DEF trapaging
    <3> QED
      BY <1>b, <2>1, <3>1
  <2>3. CASE cpu[c] # Null
    <3>1. PICK p \in Procs : p = cpu[c]
      BY <1>0, <2>3 DEF TypeOK
    <3>2. pc' = [pc EXCEPT ![p] = IF pc[p] = "user" /\ killed[p] THEN "exit" ELSE pc[p]]
      BY <1>5, <2>3, <3>1 DEF trapaging
    <3>3. CASE pc[p] = "user" /\ killed[p]
      <4>1. pc' = [pc EXCEPT ![p] = "exit"] /\ p # initproc
        BY <1>a, <3>2, <3>3
      <4> QED
        BY <1>0, <2>1, <4>1, FamilyMoved
    <3>4. CASE ~ (pc[p] = "user" /\ killed[p])
      <4>1. pc' = pc
        BY <1>0, <3>2, <3>4 DEF TypeOK
      <4> QED
        BY <1>b, <2>1, <4>1
    <3> QED
      BY <3>3, <3>4
  <2> QED
    BY <2>2, <2>3
<1> QED
  BY <1>1, <1>2, <1>3, <1>4, <1>5 DEF trapquantum

\* The system calls that create and end nobody.
LEMMA CallFamily ==
    ASSUME IInv, FamilyInv, NEW c \in CPUs, NEW p \in Procs,
           \/ exit(c, p) \/ enter(c, p) \/ leave(c, p)
           \/ \E ch \in Chans : sleep(c, p, ch)
           \/ \E l \in Levels : setpriority(c, p, l)
    PROVE  FamilyInv'
<1>0. TypeOK /\ RunningOnOneCpu
  BY DEF IInv
<1>a. ~ killed[initproc] /\ pc[initproc] # "exit"
  BY InitprocLives DEF FamilyInv
<1>1. CASE exit(c, p)
  <2>1. /\ p # initproc /\ pc' = [pc EXCEPT ![p] = "exit"]
        /\ UNCHANGED <<state, parent, chan, np>>
        /\ killed' = killed \/ killed' = [killed EXCEPT ![p] = TRUE]
    BY <1>1 DEF exit
  <2>2. \A q \in Procs : pc'[q] = IF q = p THEN "exit" ELSE pc[q]
    BY <1>0, <2>1 DEF TypeOK
  <2>3. \A q \in Procs \ {p} : killed'[q] = killed[q]
    BY <1>0, <2>1 DEF TypeOK
  <2>4. ~ killed'[initproc] /\ pc'[initproc] # "exit"
    BY <1>a, <2>1, <2>2, <2>3, Constants
  <2>5. NoNewWaiter
    BY <2>1, <2>2, <2>3 DEF NoNewWaiter
  <2>6. \A q \in Procs : pc'[q] = "forked" => pc[q] = "forked" /\ np'[q] = np[q]
    BY <2>1, <2>2
  <2> QED
    BY <2>1, <2>4, <2>5, <2>6, FamilyKept
<1>2. CASE enter(c, p) \/ leave(c, p)
  <2>1. /\ pc' = [pc EXCEPT ![p] = "sys"] \/ pc' = [pc EXCEPT ![p] = "user"]
        /\ UNCHANGED <<state, parent, killed, chan, np>>
    BY <1>2 DEF enter, leave
  <2> QED
    BY <1>0, <2>1, FamilyMoved
<1>3. ASSUME NEW ch \in Chans, sleep(c, p, ch)
      PROVE  FamilyInv'
  <2>1. /\ pc[p] \in {"sys", "exit"} /\ cpu[c] = p
        /\ chan' = [chan EXCEPT ![p] = ch] /\ state' = [state EXCEPT ![p] = "SLEEPING"]
        /\ UNCHANGED <<parent, killed, pc, np>>
    BY <1>3 DEF sleep, Runs
  <2>2. state[p] = "RUNNING"
    BY <1>0, <2>1, Constants DEF RunningOnOneCpu
  <2>3. \A q \in Procs : /\ state'[q] = IF q = p THEN "SLEEPING" ELSE state[q]
                         /\ q # p => chan'[q] = chan[q]
    BY <1>0, <2>1 DEF TypeOK
  <2>4. NoNewWaiter
    BY <2>1, <2>3 DEF NoNewWaiter
  <2>5. \A q \in Procs : state'[q] = state[q] \/ (Alive(q) /\ Alive(q)')
    BY <2>2, <2>3 DEF Alive
  <2> QED
    BY <1>a, <2>1, <2>4, <2>5, FamilyKept
<1>4. ASSUME NEW l \in Levels, setpriority(c, p, l)
      PROVE  FamilyInv'
  <2>1. UNCHANGED <<state, parent, killed, chan, pc, np>>
    BY <1>4 DEF setpriority
  <2>2. \A q \in Procs : state'[q] = state[q] \/ (state[q] = "SLEEPING" /\ state'[q] = "RUNNABLE")
    BY <2>1
  <2> QED
    BY <2>1, <2>2, FamilyWoken
<1> QED
  BY <1>1, <1>2, <1>3, <1>4

\* kill finds no process with the pid of initproc but initproc, and makes one that
\* sleeps in wait RUNNABLE.
LEMMA KillFamily ==
    ASSUME IInv, FamilyInv, NEW c \in CPUs, NEW p \in Procs, NEW n, kill(c, p, n)
    PROVE  FamilyInv'
<1>0. TypeOK
  BY DEF IInv
<1>1. PICK q \in Procs :
          /\ pid[q] = n /\ killed' = [killed EXCEPT ![q] = TRUE]
          /\ IF state[q] = "SLEEPING"
             THEN state' = [state EXCEPT ![q] = "RUNNABLE"]
             ELSE UNCHANGED state
  BY DEF kill
<1>2. n # pid[initproc] /\ UNCHANGED <<parent, chan, pc, np>>
  BY DEF kill
<1>3. q # initproc
  BY <1>1, <1>2
<1>4. \A x \in Procs :
          /\ state'[x] = IF x = q /\ state[q] = "SLEEPING" THEN "RUNNABLE" ELSE state[x]
          /\ x # q => killed'[x] = killed[x]
  BY <1>0, <1>1 DEF TypeOK
<1>5. ~ killed'[initproc] /\ pc'[initproc] # "exit"
  BY <1>2, <1>3, <1>4, InitprocLives, Constants DEF FamilyInv
<1>6. NoNewWaiter
  BY <1>2, <1>4 DEF NoNewWaiter
<1>7. \A x \in Procs : state'[x] = state[x] \/ (Alive(x) /\ Alive(x)')
  BY <1>4 DEF Alive
<1> QED
  BY <1>2, <1>5, <1>6, <1>7, FamilyKept

\* The child that a fork builds.
LEMMA ForksEmbryo ==
    ASSUME TypeOK, ForkInv, NEW p \in Procs, pc[p] \in {"fork", "forked"}
    PROVE  /\ np[p] \in Procs /\ state[np[p]] = "EMBRYO"
           /\ state[p] \in {"RUNNABLE", "RUNNING"}
           /\ \A x \in Procs : np[x] = np[p] => x = p
<1>1. np[p] \in Procs \cup {Null}
  BY DEF TypeOK
<1>2. EmbryoOfOneFork /\ state[p] \in {"RUNNABLE", "RUNNING"}
  BY DEF ForkInv
<1>3. np[p] # Null /\ state[np[p]] = "EMBRYO"
  BY <1>2 DEF EmbryoOfOneFork
<1>4. \A x \in Procs : np[x] = np[p] => x = p
  BY <1>2, <1>3 DEF EmbryoOfOneFork
<1> QED
  BY <1>1, <1>2, <1>3, <1>4

\* fork takes an UNUSED slot, and fills in a child that no process is a parent of
\* or waits for; the child has its parent when it becomes RUNNABLE.
LEMMA ForkFamily ==
    ASSUME IInv, FamilyInv, NEW c \in CPUs, NEW p \in Procs, fork(c, p)
    PROVE  FamilyInv'
<1>0. TypeOK /\ WaitInv /\ ParentInv
  BY DEF IInv, FamilyInv
<1>1. PICK q \in Procs : /\ state[q] = "UNUSED" /\ state' = [state EXCEPT ![q] = "EMBRYO"]
                         /\ np' = [np EXCEPT ![p] = q]
  BY DEF fork, allocproc
<1>2. /\ pc' = [pc EXCEPT ![p] = "fork"] /\ UNCHANGED <<parent, killed, chan>>
  BY DEF fork
<1>3. \A x \in Procs : /\ state'[x] = IF x = q THEN "EMBRYO" ELSE state[x]
                       /\ pc'[x] = IF x = p THEN "fork" ELSE pc[x]
                       /\ x # p => np'[x] = np[x]
  BY <1>0, <1>1, <1>2 DEF TypeOK
<1>4. LivesOn
  BY <1>1, <1>3 DEF LivesOn, Alive
<1>5. NoNewWaiter /\ NoNewZombie
  BY <1>2, <1>3 DEF NoNewWaiter, NoNewZombie
<1>6. NoNewChild
  BY <1>2, <1>3 DEF NoNewChild
<1>7. NoNewFork
  BY <1>2, <1>3 DEF NoNewFork
<1>8. InitStays
  BY <1>0, <1>2, <1>3, InitprocLives, Constants DEF InitStays
<1>9. \A x \in Procs : parent'[x] # x
  BY <1>0, <1>2, NotOwnParent
<1> QED
  BY <1>0, <1>4, <1>5, <1>6, <1>7, <1>8, <1>9, WaitKept, ParentKept DEF FamilyInv

LEMMA ForkcopyFamily ==
    ASSUME IInv, FamilyInv, NEW c \in CPUs, NEW p \in Procs, forkcopy(c, p)
    PROVE  FamilyInv'
<1>0. TypeOK /\ ForkInv /\ WaitInv /\ ParentInv
  BY DEF IInv, FamilyInv
<1>1. pc[p] = "fork" /\ UNCHANGED <<killed, chan>>
  BY DEF forkcopy
<1>2. PICK q \in Procs : q = np[p] /\ state[q] = "EMBRYO"
  BY <1>0, <1>1, ForksEmbryo
<1>3. \A x \in Procs : x # p => np[x] # q
  BY <1>0, <1>1, <1>2, ForksEmbryo
<1>4. CASE /\ state' = [state EXCEPT ![q] = "UNUSED"] /\ pc' = [pc EXCEPT ![p] = "user"]
           /\ np' = [np EXCEPT ![p] = Null] /\ UNCHANGED parent
  <2>1. \A x \in Procs : /\ state'[x] = IF x = q THEN "UNUSED" ELSE state[x]
                         /\ pc'[x] = IF x = p THEN "user" ELSE pc[x]
                         /\ x # p => np'[x] = np[x]
    BY <1>0, <1>4 DEF TypeOK
  <2>2. LivesOn
    BY <1>2, <2>1 DEF LivesOn, Alive
  <2>3. NoNewWaiter /\ NoNewZombie
    BY <1>1, <1>4, <2>1 DEF NoNewWaiter, NoNewZombie
  <2>4. NoNewChild
    BY <1>4, <2>1 DEF NoNewChild
  <2>5. NoNewFork
    BY <1>4, <2>1 DEF NoNewFork
  <2>6. InitStays
    BY <1>0, <1>1, <1>4, <2>1, InitprocLives, Constants DEF InitStays
  <2>7. \A x \in Procs : parent'[x] # x
    BY <1>0, <1>4, NotOwnParent
  <2> QED
    BY <1>0, <2>2, <2>3, <2>4, <2>5, <2>6, <2>7, WaitKept, ParentKept DEF FamilyInv
<1>5. CASE /\ parent' = [parent EXCEPT ![q] = p] /\ pc' = [pc EXCEPT ![p] = "forked"]
           /\ UNCHANGED <<state, np>>
  <2>1. \A x \in Procs : /\ parent'[x] = IF x = q THEN p ELSE parent[x]
                         /\ pc'[x] = IF x = p THEN "forked" ELSE pc[x]
    BY <1>0, <1>5 DEF TypeOK
  <2>2. NoNewWaiter /\ NoNewZombie
    BY <1>1, <1>2, <1>5, <2>1 DEF NoNewWaiter, NoNewZombie
  <2>3. state[p] \in {"RUNNABLE", "RUNNING"}
    BY <1>0, <1>1, ForksEmbryo
  <2>4. q # p /\ q # initproc
    BY <1>0, <1>2, <2>3, InitprocLives DEF Alive
  <2>5. /\ Alive(initproc)' /\ ~ killed'[initproc] /\ pc'[initproc] # "exit"
        /\ parent'[initproc] = Null
    BY <1>0, <1>1, <1>5, <2>1, <2>4, InitprocLives, Constants DEF Alive
  <2>6. \A x \in Procs : parent'[x] # x
    BY <1>0, <2>1, <2>4, NotOwnParent
  <2>7. ASSUME NEW x \in Procs \ {initproc}, state'[x] \notin {"UNUSED", "EMBRYO"}
        PROVE  parent'[x] \in Procs /\ state'[parent'[x]] \in {"SLEEPING", "RUNNABLE", "RUNNING"}
    <3>1. x # q /\ state[x] \notin {"UNUSED", "EMBRYO"} /\ parent'[x] = parent[x]
      BY <1>2, <1>5, <2>1, <2>7
    <3>2. parent[x] \in Procs /\ Alive(parent[x])
      BY <1>0, <3>1, ParentAlive
    <3> QED
      BY <1>5, <3>1, <3>2 DEF Alive
  <2>8. ASSUME NEW x \in Procs, pc'[x] = "forked" PROVE parent'[np'[x]] = x
    <3>1. CASE x = p
      BY <1>2, <1>5, <2>1, <3>1
    <3>2. CASE x # p
      <4>1. pc[x] = "forked" /\ np[x] # q
        BY <1>3, <2>1, <2>8, <3>2
      <4>2. np[x] \in Procs
        BY <1>0, <4>1, ForksEmbryo
      <4>3. parent[np[x]] = x
        BY <1>0, <4>1, ForkedParent
      <4> QED
        BY <1>5, <2>1, <4>1, <4>2, <4>3
    <3> QED
      BY <3>1, <3>2
  <2>9. ParentInv'
    BY <2>5, <2>6, <2>7, <2>8 DEF ParentInv, Alive
  <2> QED
    BY <1>0, <2>2, <2>9, WaitKept DEF FamilyInv
<1> QED
  BY <1>2, <1>4, <1>5 DEF forkcopy

LEMMA ForkdoneFamily ==
    ASSUME IInv, FamilyInv, NEW c \in CPUs, NEW p \in Procs, forkdone(c, p)
    PROVE  FamilyInv'
<1>0. TypeOK /\ ForkInv /\ WaitInv /\ ParentInv
  BY DEF IInv, FamilyInv
<1>1. pc[p] = "forked" /\ UNCHANGED <<parent, killed, chan>>
  BY DEF forkdone
<1>2. PICK q \in Procs : q = np[p] /\ state[q] = "EMBRYO"
  BY <1>0, <1>1, ForksEmbryo
<1>3. parent[q] = p /\ state[p] \in {"RUNNABLE", "RUNNING"}
  BY <1>0, <1>1, <1>2, ForkedParent, ForksEmbryo
<1>4. /\ state' = [state EXCEPT ![q] = "RUNNABLE"] /\ np' = [np EXCEPT ![p] = Null]
      /\ pc' = [pc EXCEPT ![p] = "user", ![q] = "user"]
  BY <1>2 DEF forkdone
<1>5. \A x \in Procs : /\ state'[x] = IF x = q THEN "RUNNABLE" ELSE state[x]
                       /\ pc'[x] = IF x = p \/ x = q THEN "user" ELSE pc[x]
                       /\ x # p => np'[x] = np[x]
  BY <1>0, <1>4 DEF TypeOK
<1>6. \A x \in Procs : Alive(x) => Alive(x)'
  BY <1>2, <1>5 DEF Alive
<1>7. NoNewWaiter /\ NoNewZombie
  BY <1>1, <1>5 DEF NoNewWaiter, NoNewZombie
<1>8. Alive(p)'
  BY <1>3, <1>6 DEF Alive
<1>9. ParentInv'
  <2>1. /\ Alive(initproc)' /\ ~ killed'[initproc] /\ pc'[initproc] # "exit"
        /\ parent'[initproc] = Null
    BY <1>0, <1>1, <1>5, <1>6, InitprocLives, Constants
  <2>2. \A x \in Procs : parent'[x] # x
    BY <1>0, <1>1, NotOwnParent
  <2>3. ASSUME NEW x \in Procs \ {initproc}, state'[x] \notin {"UNUSED", "EMBRYO"}
        PROVE  parent'[x] \in Procs /\ Alive(parent[x])'
    <3>1. CASE x = q
      BY <1>1, <1>3, <1>8, <3>1
    <3>2. CASE x # q
      <4>1. parent[x] \in Procs /\ Alive(parent[x])
        BY <1>0, <1>5, <2>3, <3>2, ParentAlive
      <4> QED
        BY <1>1, <1>6, <4>1
    <3> QED
      BY <3>1, <3>2
  <2>4. ASSUME NEW x \in Procs, pc'[x] = "forked" PROVE parent'[np'[x]] = x
    <3>1. pc[x] = "forked" /\ np'[x] = np[x]
      BY <1>5, <2>4
    <3> QED
      BY <1>0, <1>1, <3>1, ForkedParent
  <2> QED
    BY <2>1, <2>2, <2>3, <2>4 DEF ParentInv
<1> QED
  BY <1>0, <1>7, <1>9, WaitKept DEF FamilyInv

\* wait reaps a zombie, which is nobody's parent, or sleeps when no child is one.
LEMMA WaitFamily ==
    ASSUME IInv, FamilyInv, NEW c \in CPUs, NEW p \in Procs, wait(c, p)
    PROVE  FamilyInv'
<1>0. TypeOK /\ RunningOnOneCpu /\ ForkInv /\ WaitInv /\ ParentInv
  BY DEF IInv, FamilyInv
<1>1. cpu[c] = p /\ pc[p] \in {"user", "wait"} /\ np' = np
  BY DEF wait, Calls, Runs
<1>2. state[p] = "RUNNING"
  BY <1>0, <1>1, Constants DEF RunningOnOneCpu
<1>3. CASE /\ \E q \in Procs : reap(p, q)
           /\ pc' = [pc EXCEPT ![p] = "user"] /\ chan' = [chan EXCEPT ![p] = Null]
  <2>1. PICK q \in Procs : reap(p, q)
    BY <1>3
  <2>a. /\ state[q] = "ZOMBIE" /\ state' = [state EXCEPT ![q] = "UNUSED"]
        /\ parent' = [parent EXCEPT ![q] = Null] /\ killed' = [killed EXCEPT ![q] = FALSE]
    BY <2>1 DEF reap
  <2>2. \A x \in Procs : /\ state'[x] = IF x = q THEN "UNUSED" ELSE state[x]
                         /\ parent'[x] = IF x = q THEN Null ELSE parent[x]
                         /\ x # q => killed'[x] = killed[x]
                         /\ pc'[x] = IF x = p THEN "user" ELSE pc[x]
                         /\ x # p => chan'[x] = chan[x]
    BY <1>0, <1>3, <2>a DEF TypeOK
  <2>3. q # initproc
    BY <1>0, <2>a, InitprocLives DEF Alive
  <2>4. LivesOn
    BY <2>2, <2>a DEF LivesOn, Alive
  <2>5. NoNewWaiter
    BY <2>2 DEF NoNewWaiter
  <2>6. NoNewZombie
    BY <2>2 DEF NoNewZombie
  <2>7. NoNewChild
    BY <2>2 DEF NoNewChild
  <2>8. NoNewFork
    <3> SUFFICES ASSUME NEW x \in Procs, pc'[x] = "forked"
                 PROVE  pc[x] = "forked" /\ np'[x] = np[x] /\ parent'[np[x]] = parent[np[x]]
      BY DEF NoNewFork
    <3>1. pc[x] = "forked" /\ np'[x] = np[x]
      BY <1>1, <2>2
    <3>2. np[x] \in Procs /\ state[np[x]] = "EMBRYO"
      BY <1>0, <3>1, ForksEmbryo
    <3> QED
      BY <2>2, <2>a, <3>1, <3>2
  <2>9. InitStays
    BY <1>0, <2>2, <2>3, InitprocLives, Constants DEF InitStays
  <2>10. \A x \in Procs : parent'[x] # x
    BY <1>0, <2>2, NotOwnParent, Constants
  <2> QED
    BY <1>0, <2>4, <2>5, <2>6, <2>7, <2>8, <2>9, <2>10, WaitKept, ParentKept DEF FamilyInv
<1>4. CASE /\ pc' = [pc EXCEPT ![p] = "user"] /\ chan' = [chan EXCEPT ![p] = Null]
           /\ UNCHANGED <<state, parent, killed>>
  <2>1. \A x \in Procs : /\ pc'[x] = IF x = p THEN "user" ELSE pc[x]
                         /\ x # p => chan'[x] = chan[x]
    BY <1>0, <1>4 DEF TypeOK
  <2>2. ~ killed'[initproc] /\ pc'[initproc] # "exit"
    BY <1>0, <1>4, <2>1, InitprocLives, Constants
  <2>3. NoNewWaiter
    BY <1>4, <2>1 DEF NoNewWaiter
  <2>4. \A x \in Procs : pc'[x] = "forked" => pc[x] = "forked" /\ np'[x] = np[x]
    BY <1>1, <2>1
  <2> QED
    BY <1>4, <2>2, <2>3, <2>4, FamilyKept
<1>5. CASE /\ \A q \in Children(p) : state[q] # "ZOMBIE"
           /\ ~ waitfails(p)
           /\ pc' = [pc EXCEPT ![p] = "wait"] /\ chan' = [chan EXCEPT ![p] = p]
           /\ state' = [state EXCEPT ![p] = "SLEEPING"]
           /\ UNCHANGED <<parent, killed>>
  <2>1. \A x \in Procs : /\ pc'[x] = IF x = p THEN "wait" ELSE pc[x]
                         /\ chan'[x] = IF x = p THEN p ELSE chan[x]
                         /\ state'[x] = IF x = p THEN "SLEEPING" ELSE state[x]
    BY <1>0, <1>5 DEF TypeOK
  <2>2. LivesOn
    BY <2>1 DEF LivesOn, Alive
  <2>3. ~ killed[p] /\ \A z \in Procs : ~ (state[z] = "ZOMBIE" /\ parent[z] = p)
    BY <1>5 DEF waitfails, Children
  <2>4. \A z \in Procs : state'[z] = "ZOMBIE" => state[z] = "ZOMBIE"
    BY <2>1
  <2>5. ASSUME NEW x \in Procs, state'[x] = "SLEEPING", pc'[x] = "wait"
        PROVE  /\ chan'[x] = x /\ ~ killed'[x]
               /\ \A z \in Procs : ~ (state'[z] = "ZOMBIE" /\ parent'[z] = x)
    <3>1. CASE x = p
      BY <1>5, <2>1, <2>3, <2>4, <3>1
    <3>2. CASE x # p
      <4>1. /\ chan[x] = x /\ ~ killed[x]
            /\ \A z \in Procs : ~ (state[z] = "ZOMBIE" /\ parent[z] = x)
        BY <1>0, <2>1, <2>5, <3>2 DEF WaitInv
      <4> QED
        BY <1>5, <2>1, <2>4, <3>2, <4>1
    <3> QED
      BY <3>1, <3>2
  <2>6. WaitInv'
    BY <2>5 DEF WaitInv
  <2>7. NoNewChild
    BY <1>2, <1>5, <2>1 DEF NoNewChild
  <2>8. NoNewFork
    BY <1>1, <1>5, <2>1 DEF NoNewFork
  <2>9. InitStays
    BY <1>0, <1>5, <2>1, InitprocLives, Constants DEF InitStays
  <2>10. \A x \in Procs : parent'[x] # x
    BY <1>0, <1>5, NotOwnParent
  <2> QED
    BY <1>0, <2>2, <2>6, <2>7, <2>8, <2>9, <2>10, ParentKept DEF FamilyInv
<1> QED
  BY <1>3, <1>4, <1>5 DEF wait

\* exit wakes the parent, passes the children to initproc, and wakes initproc when
\* one of them is a zombie.
LEMMA ExitlockedFamily ==
    ASSUME IInv, FamilyInv, NEW c \in CPUs, NEW p \in Procs, exitlocked(c, p)
    PROVE  FamilyInv'
<1>0. TypeOK /\ RunningOnOneCpu /\ ForkInv /\ WaitInv /\ ParentInv
  BY DEF IInv, FamilyInv
<1>1. /\ cpu[c] = p /\ pc[p] = "exit"
      /\ parent' = Adopted(p) /\ UNCHANGED <<killed, chan, pc, np>>
  BY DEF exitlocked, Runs
<1>2. p # initproc
  BY <1>0, <1>1, InitprocLives
<1>3. \A x \in Procs :
          /\ state'[x] = IF x = p THEN "ZOMBIE"
                         ELSE IF x \in ParentWoken(p) \cup InitWoken(p) THEN "RUNNABLE"
                         ELSE state[x]
          /\ parent'[x] = IF parent[x] = p THEN initproc ELSE parent[x]
  BY <1>1 DEF exitlocked, Adopted
<1>4. \A x \in ParentWoken(p) \cup InitWoken(p) : state[x] = "SLEEPING"
  BY DEF ParentWoken, InitWoken, Sleepers
<1>5. \A x \in Procs : Alive(x) /\ x # p => Alive(x)'
  BY <1>3 DEF Alive
<1>6. WaitInv'
  <2> SUFFICES ASSUME NEW x \in Procs, state'[x] = "SLEEPING", pc'[x] = "wait"
               PROVE  /\ chan'[x] = x /\ ~ killed'[x]
                      /\ \A z \in Procs : ~ (state'[z] = "ZOMBIE" /\ parent'[z] = x)
    BY DEF WaitInv
  <2>1. /\ x # p /\ state[x] = "SLEEPING" /\ pc[x] = "wait"
        /\ x \notin ParentWoken(p) /\ x \notin InitWoken(p)
    BY <1>1, <1>3
  <2>2. /\ chan[x] = x /\ ~ killed[x]
        /\ \A z \in Procs : ~ (state[z] = "ZOMBIE" /\ parent[z] = x)
    BY <1>0, <2>1 DEF WaitInv
  <2>3. parent[p] # x
    BY <2>1, <2>2 DEF ParentWoken, Sleepers
  <2>4. ASSUME NEW z \in Procs, state'[z] = "ZOMBIE", parent'[z] = x
        PROVE  FALSE
    <3>1. CASE z = p
      BY <1>0, <1>3, <2>3, <2>4, <3>1, NotOwnParent
    <3>2. CASE z # p
      <4>1. state[z] = "ZOMBIE"
        BY <1>3, <2>4, <3>2
      <4>2. parent[z] = p /\ x = initproc
        BY <1>3, <2>2, <2>4, <4>1
      <4>3. InitWoken(p) = Sleepers(initproc) \ ParentWoken(p)
        BY <4>1, <4>2 DEF InitWoken
      <4>4. x \in Sleepers(initproc)
        BY <2>1, <2>2, <4>2 DEF Sleepers
      <4> QED
        BY <2>1, <4>3, <4>4
    <3> QED
      BY <3>1, <3>2
  <2> QED
    BY <1>1, <2>2, <2>4
<1>7. ParentInv'
  <2>1. Alive(initproc)' /\ ~ killed'[initproc] /\ pc'[initproc] # "exit"
    BY <1>0, <1>1, <1>2, <1>5, InitprocLives, Constants
  <2>2. ASSUME NEW x \in Procs \ {initproc}, state'[x] \notin {"UNUSED", "EMBRYO"}
        PROVE  parent'[x] \in Procs /\ state'[parent'[x]] \in {"SLEEPING", "RUNNABLE", "RUNNING"}
    <3>1. state[p] = "RUNNING"
      BY <1>0, <1>1, Constants DEF RunningOnOneCpu
    <3>2. state[x] \notin {"UNUSED", "EMBRYO"}
      BY <1>3, <1>4, <2>2, <3>1
    <3>3. parent[x] \in Procs /\ Alive(parent[x])
      BY <1>0, <3>2, ParentAlive
    <3>4. CASE parent[x] = p
      BY <1>3, <2>1, <3>4, Constants DEF Alive
    <3>5. CASE parent[x] # p
      <4>1. PICK y \in Procs : y = parent[x] /\ y # p /\ Alive(y)
        BY <3>3, <3>5
      <4>2. parent'[x] = y /\ Alive(y)'
        BY <1>3, <1>5, <3>5, <4>1
      <4> QED
        BY <4>2 DEF Alive
    <3> QED
      BY <3>4, <3>5
  <2>3. ASSUME NEW x \in Procs, pc'[x] = "forked"
        PROVE  parent'[np'[x]] = x
    <3>1. pc[x] = "forked" /\ x # p /\ np'[x] = np[x]
      BY <1>1, <2>3
    <3>2. np[x] \in Procs /\ parent[np[x]] = x
      BY <1>0, <3>1, ForksEmbryo, ForkedParent
    <3> QED
      BY <1>3, <3>1, <3>2
  <2>4. parent'[initproc] = Null /\ \A x \in Procs : parent'[x] # x
    BY <1>0, <1>2, <1>3, InitprocLives, NotOwnParent, Constants
  <2> QED
    BY <2>1, <2>2, <2>3, <2>4 DEF ParentInv, Alive
<1> QED
  BY <1>6, <1>7 DEF FamilyInv

LEMMA NextFamily == IInv /\ FamilyInv /\ [Next]_vars => FamilyInv'
<1> SUFFICES ASSUME IInv, FamilyInv, [Next]_vars PROVE FamilyInv'
  OBVIOUS
<1>1. CASE UNCHANGED vars
  BY <1>1 DEF vars, FamilyInv, WaitInv, ParentInv, Alive
<1>2. ASSUME NEW ch, wakeup(ch) PROVE FamilyInv'
  <2>1. UNCHANGED <<parent, killed, chan, pc, np>>
    BY <1>2 DEF wakeup
  <2>2. \A p \in Procs : state'[p] = state[p] \/ (state[p] = "SLEEPING" /\ state'[p] = "RUNNABLE")
    BY <1>2, WakesSleepers DEF wakeup
  <2> QED
    BY <2>1, <2>2, FamilyWoken
<1>3. ASSUME NEW c \in CPUs, Step(c) PROVE FamilyInv'
  BY <1>3, SchedulerFamily, TrapFamily, CallFamily, KillFamily, ForkFamily, ForkcopyFamily,
     ForkdoneFamily, WaitFamily, ExitlockedFamily DEF Step
<1> QED
  BY <1>1, <1>2, <1>3 DEF Next

\* A process sleeps in wait only while no child is a zombie and nobody has killed
\* it, and every process has a living parent to reap it, whichever CPUs run exit,
\* kill, fork and wait in which order.
THEOREM ZombiesNoticed == Spec => []NoZombieOverlooked
<1>1. Init => FamilyInv
  BY InitFamily
<1>2. IInv /\ FamilyInv => NoZombieOverlooked
  BY DEF FamilyInv, WaitInv, ParentInv, Alive, NoZombieOverlooked
<1> QED
  BY <1>1, <1>2, Invariance, NextFamily, PTL DEF Spec

=============================================================================
