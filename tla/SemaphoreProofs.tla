-------------------------- MODULE SemaphoreProofs ---------------------------
(***************************************************************************)
(* The safety of Semaphore for any number of processes and any table size, *)
(* and that it provides what AbsSemaphore promises.                        *)
(***************************************************************************)
EXTENDS Semaphore, FiniteSetTheorems, TLAPS

\* A leaf is tried with Zenon first, briefly: most need no arithmetic.
USE ZenonT(2), SMTT(20), ZenonT(20)

\* The entries of an array of osemaphore arrays that hold s.
HandlesOf(f, s) == {h \in Procs \X Slots : f[h[1]][h[2]] = s}

\* g is f but for slot i of process p, which holds v.
Updated(f, g, p, i, v) ==
    \A q \in Procs, j \in Slots :
        g[q][j] = IF q = p /\ j = i THEN v ELSE f[q][j]

-----------------------------------------------------------------------------
(* Counting handles                                                        *)

\* The handles of a semaphore are finitely many.
LEMMA HandlesFinite ==
    ASSUME NEW f, NEW s
    PROVE  IsFiniteSet(HandlesOf(f, s))
<1>1. IsFiniteSet(Slots)
  BY ConstAssumption, FS_Interval DEF Slots
<1>2. IsFiniteSet(Procs \X Slots)
  BY <1>1, ConstAssumption, FS_Product
<1> QED
  BY <1>2, FS_Subset DEF HandlesOf

\* Filling an empty slot with s gives s one handle more and no other semaphore
\* any: the stores at label found of semget and next to semdup in fork.
LEMMA HandlesAdd ==
    ASSUME NEW f \in [Procs -> [Slots -> Sems \cup {None}]],
           NEW p \in Procs, NEW i \in Slots, NEW s \in Sems,
           f[p][i] = None, NEW t \in Sems,
           NEW g, Updated(f, g, p, i, s)
    PROVE  Cardinality(HandlesOf(g, t)) =
                 IF t = s THEN Cardinality(HandlesOf(f, t)) + 1
                 ELSE Cardinality(HandlesOf(f, t))
<1> None \notin Sems
  BY ConstAssumption DEF Sems
<1>1. \A h \in Procs \X Slots :
         g[h[1]][h[2]] = IF h = <<p, i>> THEN s ELSE f[h[1]][h[2]]
  BY DEF Updated
<1>2. CASE t = s
  <2>1. HandlesOf(g, t) = HandlesOf(f, t) \cup {<<p, i>>}
    BY <1>1, <1>2 DEF HandlesOf
  <2>2. <<p, i>> \notin HandlesOf(f, t)
    BY DEF HandlesOf
  <2> QED
    BY ZenonT(100), <2>1, <2>2, <1>2, HandlesFinite, FS_AddElement
<1>3. CASE t # s
  <2>1. HandlesOf(g, t) = HandlesOf(f, t)
    BY <1>1, <1>3 DEF HandlesOf
  <2> QED
    BY <2>1, <1>3
<1> QED
  BY <1>2, <1>3

\* Clearing a slot that holds s takes one handle from s and none from another
\* semaphore: the stores of semfree and of exit.
LEMMA HandlesRemove ==
    ASSUME NEW f \in [Procs -> [Slots -> Sems \cup {None}]],
           NEW p \in Procs, NEW i \in Slots, NEW s \in Sems,
           f[p][i] = s, NEW t \in Sems,
           NEW g, Updated(f, g, p, i, None)
    PROVE  Cardinality(HandlesOf(g, t)) =
                 IF t = s THEN Cardinality(HandlesOf(f, t)) - 1
                 ELSE Cardinality(HandlesOf(f, t))
<1> None \notin Sems
  BY ConstAssumption DEF Sems
<1>1. \A h \in Procs \X Slots :
         g[h[1]][h[2]] = IF h = <<p, i>> THEN None ELSE f[h[1]][h[2]]
  BY DEF Updated
<1>2. CASE t = s
  <2>1. HandlesOf(g, t) = HandlesOf(f, t) \ {<<p, i>>}
    BY <1>1, <1>2 DEF HandlesOf
  <2>2. <<p, i>> \in HandlesOf(f, t)
    BY <1>2 DEF HandlesOf
  <2> QED
    BY ZenonT(100), <2>1, <2>2, <1>2, HandlesFinite, FS_RemoveElement
<1>3. CASE t # s
  <2>1. HandlesOf(g, t) = HandlesOf(f, t)
    BY <1>1, <1>3 DEF HandlesOf
  <2> QED
    BY <2>1, <1>3
<1> QED
  BY <1>2, <1>3

-----------------------------------------------------------------------------
(* The inductive invariant                                                 *)

\* A slot that fork, exit or wait is busy with, or that nobody uses, holds no
\* handle the count could miss: the child's entries from idx on are empty, an
\* exiting process has cleared its entries below idx, an unused slot is empty.
\* A child under construction belongs to one forking process.
SlotInv ==
    /\ \A p \in Procs : pc[p] = "fork" =>
          /\ child[p] \in Procs
          /\ pc[child[p]] = "embryo"
          /\ \A i \in Slots : i >= idx[p] => osemaphore[child[p]][i] = None
    /\ \A p, q \in Procs :
          pc[p] = "fork" /\ pc[q] = "fork" /\ p # q => child[p] # child[q]
    /\ \A p \in Procs : pc[p] = "exit" =>
          \A i \in Slots : i < idx[p] => osemaphore[p][i] = None
    /\ \A p \in Procs : pc[p] = "unused" =>
          \A i \in Slots : osemaphore[p][i] = None

IInv == TypeOK /\ RefCount /\ NoLostWakeup /\ WaiterHolds /\ SlotInv

\* A semaphore with no reference has no handle, and so no sleeper.
LEMMA UnusedHasNoHandle ==
    ASSUME TypeOK, RefCount, NEW s \in Sems, references[s] = 0
    PROVE  \A p \in Procs : ~ Holds(p, s)
<1>1. Handles(s) = HandlesOf(osemaphore, s)
  BY DEF Handles, HandlesOf
<1>2. IsFiniteSet(Handles(s))
  BY <1>1, HandlesFinite
<1>3. Cardinality(Handles(s)) = 0
  BY DEF RefCount
<1>4. Handles(s) = {}
  BY <1>2, <1>3, FS_EmptySet
<1> SUFFICES ASSUME NEW p \in Procs, NEW i \in Slots, osemaphore[p][i] = s
             PROVE  FALSE
  BY DEF Holds
<1>5. <<p, i>> \in Handles(s)
  BY DEF Handles
<1> QED
  BY <1>4, <1>5

\* A semaphore with a reference has a handle.
LEMMA UsedHasHandle ==
    ASSUME TypeOK, RefCount, NEW s \in Sems, references[s] > 0
    PROVE  \E p \in Procs : Holds(p, s)
<1>1. Cardinality(Handles(s)) # 0
  BY DEF RefCount, TypeOK
<1>3. Handles(s) # {}
  BY <1>1, FS_EmptySet
<1>2. PICK h \in Procs \X Slots : osemaphore[h[1]][h[2]] = s
  BY <1>3 DEF Handles
<1> QED
  BY <1>2 DEF Holds

\* The initial state satisfies the inductive invariant.
LEMMA InitIInv == Init => IInv
<1> SUFFICES ASSUME Init PROVE IInv
  OBVIOUS
<1> USE ConstAssumption DEF Sems, Slots
<1>1. TypeOK
  BY DEF Init, TypeOK
<1>2. RefCount
  <2> SUFFICES ASSUME NEW s \in Sems PROVE references[s] = Cardinality(Handles(s))
    BY DEF RefCount
  <2>1. Handles(s) = {}
    BY DEF Init, Handles
  <2> QED
    BY <2>1, FS_EmptySet DEF Init
<1>3. NoLostWakeup /\ WaiterHolds /\ SlotInv
  BY DEF Init, NoLostWakeup, WaiterHolds, SlotInv
<1> QED
  BY ZenonT(100), <1>1, <1>2, <1>3 DEF IInv

\* A step that fills the empty slot i of p with s and counts one reference more
\* keeps the count exact.
LEMMA FoundKeepsCount ==
    ASSUME TypeOK, RefCount, NEW p \in Procs, NEW i \in Slots, NEW s \in Sems,
           osemaphore[p][i] = None, found(p, i, s)
    PROVE  /\ RefCount'
           /\ references' \in [Sems -> Nat]
           /\ osemaphore' \in [Procs -> [Slots -> Sems \cup {None}]]
<1>1. osemaphore \in [Procs -> [Slots -> Sems \cup {None}]]
  BY DEF TypeOK
<1>2. \A t \in Sems : Cardinality(HandlesOf(osemaphore', t)) =
         IF t = s THEN Cardinality(HandlesOf(osemaphore, t)) + 1
         ELSE Cardinality(HandlesOf(osemaphore, t))
  <2> DEFINE g == osemaphore'
  <2>1. Updated(osemaphore, g, p, i, s)
    BY <1>1 DEF found, Updated
  <2> HIDE DEF g
  <2> SUFFICES ASSUME NEW t \in Sems
               PROVE  Cardinality(HandlesOf(g, t)) =
                         IF t = s THEN Cardinality(HandlesOf(osemaphore, t)) + 1
                         ELSE Cardinality(HandlesOf(osemaphore, t))
    BY DEF g
  <2> QED
    BY <1>1, <2>1, HandlesAdd
<1>3. \A t \in Sems : references'[t] = IF t = s THEN references[t] + 1 ELSE references[t]
  BY DEF found, TypeOK
<1>4. \A t \in Sems : references[t] = Cardinality(HandlesOf(osemaphore, t))
  BY DEF RefCount, Handles, HandlesOf
<1>5. \A t \in Sems : references'[t] = Cardinality(HandlesOf(osemaphore', t))
  BY <1>2, <1>3, <1>4
<1>6. RefCount'
  BY ZenonT(100), <1>5 DEF RefCount, Handles, HandlesOf
<1> QED
  BY <1>1, <1>6 DEF found, TypeOK

\* A step that clears a slot that holds s and counts one reference less keeps
\* the count exact.
LEMMA DropKeepsCount ==
    ASSUME TypeOK, RefCount, NEW p \in Procs, NEW i \in Slots, NEW s \in Sems,
           osemaphore[p][i] = s, references[s] >= 1,
           references' = [references EXCEPT ![s] = @ - 1],
           osemaphore' = [osemaphore EXCEPT ![p][i] = None]
    PROVE  /\ RefCount'
           /\ references' \in [Sems -> Nat]
           /\ osemaphore' \in [Procs -> [Slots -> Sems \cup {None}]]
<1>1. osemaphore \in [Procs -> [Slots -> Sems \cup {None}]]
  BY DEF TypeOK
<1>2. \A t \in Sems : Cardinality(HandlesOf(osemaphore', t)) =
         IF t = s THEN Cardinality(HandlesOf(osemaphore, t)) - 1
         ELSE Cardinality(HandlesOf(osemaphore, t))
  <2> DEFINE g == osemaphore'
  <2>1. Updated(osemaphore, g, p, i, None)
    BY <1>1 DEF Updated
  <2> HIDE DEF g
  <2> SUFFICES ASSUME NEW t \in Sems
               PROVE  Cardinality(HandlesOf(g, t)) =
                         IF t = s THEN Cardinality(HandlesOf(osemaphore, t)) - 1
                         ELSE Cardinality(HandlesOf(osemaphore, t))
    BY ZenonT(100) DEF g
  <2> QED
    BY <1>1, <2>1, HandlesRemove
<1>3. \A t \in Sems : references'[t] = IF t = s THEN references[t] - 1 ELSE references[t]
  BY DEF TypeOK
<1>4. \A t \in Sems : references[t] = Cardinality(HandlesOf(osemaphore, t))
  BY DEF RefCount, Handles, HandlesOf
<1>5. \A t \in Sems : references'[t] = Cardinality(HandlesOf(osemaphore', t))
  BY ZenonT(100), <1>2, <1>3, <1>4
<1>6. RefCount'
  BY ZenonT(100), <1>5 DEF RefCount, Handles, HandlesOf
<1> QED
  BY <1>1, <1>6 DEF TypeOK

\* A step that touches neither the counts nor the handles keeps the count.
LEMMA SameCount ==
    ASSUME RefCount, UNCHANGED <<references, osemaphore>>
    PROVE  RefCount'
  BY DEF RefCount, Handles

\* One turn of semdown's loop, by a process that holds the semaphore.
LEMMA DownloopStep ==
    ASSUME TypeOK, RefCount, NoLostWakeup, WaiterHolds, SlotInv, None \notin Sems,
           NEW p \in Procs, NEW s \in Sems, downloop(p, s), Holds(p, s),
           pc[p] \in {"user", "woken"},
           UNCHANGED <<id, references, osemaphore, child, idx>>
    PROVE  IInv'
<1>1. RefCount'
  BY SameCount
<1>2. TypeOK'
  <2>1. value' \in [Sems -> Int]
    BY DEF TypeOK, downloop
  <2>2. pc' \in [Procs -> {"unused", "embryo", "user", "fork", "exit",
                           "sleeping", "woken", "wakeup"}]
    BY DEF TypeOK, downloop
  <2>3. chan' \in [Procs -> Sems \cup {None}]
    BY ZenonT(100) DEF TypeOK, downloop
  <2> QED
    BY <2>1, <2>2, <2>3 DEF TypeOK
<1>3. NoLostWakeup'
  <2>1. CASE value[s] > 0
    <3>1. /\ pc'[p] = "user" /\ \A q \in Procs : q # p => pc'[q] = pc[q]
          /\ \A q \in Procs : q # p => chan'[q] = chan[q]
      BY <2>1 DEF TypeOK, downloop
    <3>2. \A t \in Sems : value'[t] > 0 => value[t] > 0
      BY SMTT(30), <2>1 DEF TypeOK, downloop
    <3> SUFFICES ASSUME NEW q \in Procs, pc'[q] = "sleeping", value'[chan'[q]] > 0
                 PROVE  \E r \in Procs : pc'[r] = "wakeup" /\ chan'[r] = chan'[q]
      BY DEF NoLostWakeup
    <3>3. q # p /\ pc[q] = "sleeping" /\ chan'[q] = chan[q]
      BY <3>1
    <3>4. chan[q] \in Sems
      BY <3>3 DEF WaiterHolds, TypeOK
    <3>5. PICK r \in Procs : pc[r] = "wakeup" /\ chan[r] = chan[q]
      BY <3>2, <3>3, <3>4 DEF NoLostWakeup
    <3> QED
      BY <3>1, <3>3, <3>5
  <2>2. CASE value[s] <= 0
    BY SMTT(30), <2>2 DEF TypeOK, downloop, NoLostWakeup, WaiterHolds
  <2> QED
    BY <2>1, <2>2 DEF TypeOK
<1>4. WaiterHolds'
  BY DEF TypeOK, downloop, WaiterHolds, Holds
<1>5. SlotInv'
  <2>1. pc'[p] \in {"user", "sleeping"} /\ \A q \in Procs : q # p => pc'[q] = pc[q]
    BY DEF TypeOK, downloop
  <2>2. \A q \in Procs : /\ pc'[q] = "fork" <=> pc[q] = "fork"
                         /\ pc'[q] = "exit" <=> pc[q] = "exit"
                         /\ pc'[q] = "unused" <=> pc[q] = "unused"
                         /\ pc'[q] = "embryo" <=> pc[q] = "embryo"
    BY <2>1
  <2>3. osemaphore' = osemaphore /\ child' = child /\ idx' = idx
    OBVIOUS
  <2> QED
    BY ONLY SMTT(30), SlotInv, <2>2, <2>3 DEF SlotInv
<1> QED
  BY ZenonT(100), <1>1, <1>2, <1>3, <1>4, <1>5 DEF IInv

\* Every step of a semaphore call, of fork or of exit keeps the inductive
\* invariant.
LEMMA NextIInv == IInv /\ [Next]_vars => IInv'
<1> SUFFICES ASSUME IInv, [Next]_vars PROVE IInv'
  OBVIOUS
<1>0. /\ TypeOK /\ RefCount /\ NoLostWakeup /\ WaiterHolds /\ SlotInv
      /\ None \notin Sems /\ None \notin Procs
      /\ Sems \subseteq Int /\ Slots \subseteq Int /\ InitValues \subseteq Int
      /\ 0 \in 0 .. MAXPROCSEM /\ \A i \in Slots : i + 1 \in 0 .. MAXPROCSEM
      /\ \A i \in Slots : ~ (i < 0) /\ i < MAXPROCSEM
  BY ConstAssumption DEF IInv, Sems, Slots
<1>1. CASE UNCHANGED vars
  <2>1. TypeOK' /\ NoLostWakeup' /\ WaiterHolds' /\ SlotInv'
    BY <1>0, <1>1 DEF vars, TypeOK, NoLostWakeup, WaiterHolds, SlotInv, Holds
  <2>2. RefCount'
    BY <1>0, <1>1, SameCount DEF vars
  <2> QED
    BY ZenonT(100), <2>1, <2>2 DEF IInv
<1>2. ASSUME NEW p \in Procs, NEW v \in InitValues, semgetnew(p, v)
      PROVE  IInv'
  <2>1. PICK i \in allocinprocess(p), s \in allocinsystem :
           /\ id' = [id EXCEPT ![s] = s]
           /\ value' = [value EXCEPT ![s] = v]
           /\ found(p, i, s)
    BY ZenonT(100), <1>2 DEF semgetnew
  <2>2. i \in Slots /\ osemaphore[p][i] = None /\ s \in Sems /\ references[s] = 0
    BY DEF allocinprocess, allocinsystem
  <2>3. /\ RefCount'
        /\ references' \in [Sems -> Nat]
        /\ osemaphore' \in [Procs -> [Slots -> Sems \cup {None}]]
    BY ZenonT(100), <1>0, <2>1, <2>2, FoundKeepsCount
  <2>4. TypeOK'
    BY ZenonT(100), <1>0, <1>2, <2>1, <2>2, <2>3 DEF TypeOK, semgetnew
  <2>5. \A q \in Procs : ~ Holds(q, s)
    BY ZenonT(100), <1>0, <2>2, UnusedHasNoHandle
  <2>6. NoLostWakeup'
    BY <1>0, <1>2, <2>1, <2>2, <2>5 DEF TypeOK, semgetnew, NoLostWakeup, WaiterHolds
  <2>7. WaiterHolds'
    BY <1>0, <1>2, <2>1, <2>2 DEF TypeOK, semgetnew, WaiterHolds, Holds, found
  <2>8. SlotInv'
    BY <1>0, <1>2, <2>1, <2>2 DEF TypeOK, semgetnew, SlotInv, found
  <2> QED
    BY ZenonT(100), <2>3, <2>4, <2>6, <2>7, <2>8 DEF IInv
<1>3. ASSUME NEW p \in Procs, NEW semid \in Sems, semgetold(p, semid)
      PROVE  IInv'
  <2>1. PICK i \in allocinprocess(p), s \in searchinsystem(semid) : found(p, i, s)
    BY <1>3 DEF semgetold
  <2>2. i \in Slots /\ osemaphore[p][i] = None /\ s \in Sems
    BY DEF allocinprocess, searchinsystem
  <2>3. /\ RefCount'
        /\ references' \in [Sems -> Nat]
        /\ osemaphore' \in [Procs -> [Slots -> Sems \cup {None}]]
    BY <1>0, <2>1, <2>2, FoundKeepsCount
  <2>4. TypeOK'
    BY <1>0, <1>3, <2>3 DEF TypeOK, semgetold
  <2>5. NoLostWakeup'
    BY <1>0, <1>3 DEF semgetold, NoLostWakeup
  <2>6. WaiterHolds'
    BY SMTT(30), <1>0, <1>3, <2>1, <2>2 DEF TypeOK, semgetold, WaiterHolds, Holds, found
  <2>7. SlotInv'
    BY <1>0, <1>3, <2>1, <2>2 DEF TypeOK, semgetold, SlotInv, found
  <2> QED
    BY ZenonT(100), <2>3, <2>4, <2>5, <2>6, <2>7 DEF IInv
<1>4. ASSUME NEW p \in Procs, NEW semid \in Sems, semfree(p, semid)
      PROVE  IInv'
  <2>1. PICK i \in searchinprocess(p, semid) :
           /\ references[osemaphore[p][i]] >= 1
           /\ references' = [references EXCEPT ![osemaphore[p][i]] = @ - 1]
           /\ osemaphore' = [osemaphore EXCEPT ![p][i] = None]
    BY ZenonT(100), <1>4 DEF semfree
  <2>2. i \in Slots /\ osemaphore[p][i] \in Sems
    BY <1>0 DEF searchinprocess, SlotMatches, TypeOK
  <2>3. /\ RefCount'
        /\ references' \in [Sems -> Nat]
        /\ osemaphore' \in [Procs -> [Slots -> Sems \cup {None}]]
    BY ZenonT(100), <1>0, <2>1, <2>2, DropKeepsCount
  <2>4. TypeOK'
    BY <1>0, <1>4, <2>3 DEF TypeOK, semfree
  <2>5. NoLostWakeup'
    BY <1>0, <1>4 DEF semfree, NoLostWakeup
  <2>6. WaiterHolds'
    BY SMTT(30), <1>0, <1>4, <2>1, <2>2 DEF TypeOK, semfree, WaiterHolds, Holds
  <2>7. SlotInv'
    BY <1>0, <1>4, <2>1, <2>2 DEF TypeOK, semfree, SlotInv
  <2> QED
    BY ZenonT(100), <2>3, <2>4, <2>5, <2>6, <2>7 DEF IInv
<1>5. ASSUME NEW p \in Procs, NEW s \in Sems, downloop(p, s), Holds(p, s),
             pc[p] \in {"user", "woken"},
             UNCHANGED <<id, references, osemaphore, child, idx>>
      PROVE  IInv'
  BY <1>0, <1>5, DownloopStep
<1>6. ASSUME NEW p \in Procs, NEW semid \in Sems, semdown(p, semid)
      PROVE  IInv'
  <2>1. PICK i \in searchinprocess(p, semid) : downloop(p, osemaphore[p][i])
    BY <1>6 DEF semdown
  <2>2. osemaphore[p][i] \in Sems /\ Holds(p, osemaphore[p][i])
    BY <1>0 DEF searchinprocess, SlotMatches, TypeOK, Holds
  <2> QED
    BY <1>5, <1>6, <2>1, <2>2 DEF semdown
<1>7. ASSUME NEW p \in Procs, semdownresume(p)
      PROVE  IInv'
  <2>1. chan[p] \in Sems /\ Holds(p, chan[p])
    BY <1>0, <1>7 DEF semdownresume, WaiterHolds, TypeOK
  <2> QED
    BY <1>5, <1>7, <2>1 DEF semdownresume
<1>8. ASSUME NEW p \in Procs, NEW semid \in Sems, semup(p, semid)
      PROVE  IInv'
  <2>1. PICK i \in searchinprocess(p, semid) :
           /\ value' = [value EXCEPT ![osemaphore[p][i]] = @ + 1]
           /\ chan' = [chan EXCEPT ![p] = osemaphore[p][i]]
    BY ZenonT(100), <1>8 DEF semup
  <2>2. i \in Slots /\ osemaphore[p][i] \in Sems
    BY <1>0 DEF searchinprocess, SlotMatches, TypeOK
  <2>3. RefCount'
    BY <1>0, <1>8, SameCount DEF semup
  <2>4. TypeOK'
    <3>1. value' \in [Sems -> Int]
      <4>1. value \in [Sems -> Int]
        BY <1>0 DEF TypeOK
      <4> QED
        BY <2>1, <2>2, <4>1
    <3>2. chan' \in [Procs -> Sems \cup {None}]
      BY SMTT(30), <1>0, <2>1, <2>2 DEF TypeOK
    <3> QED
      BY <1>0, <1>8, <3>1, <3>2 DEF TypeOK, semup
  <2>5. NoLostWakeup'
    BY SMTT(30), <1>0, <1>8, <2>1, <2>2 DEF TypeOK, semup, NoLostWakeup
  <2>6. WaiterHolds'
    BY SMTT(30), <1>0, <1>8, <2>1, <2>2 DEF TypeOK, semup, WaiterHolds, Holds
  <2>7. SlotInv'
    BY <1>0, <1>8 DEF TypeOK, semup, SlotInv
  <2> QED
    BY SMTT(30), <2>3, <2>4, <2>5, <2>6, <2>7 DEF IInv
<1>9. ASSUME NEW p \in Procs, wakeup(p)
      PROVE  IInv'
  <2>1. RefCount'
    BY <1>0, <1>9, SameCount DEF wakeup
  <2>2. TypeOK'
    BY <1>0, <1>9 DEF TypeOK, wakeup
  <2>3. NoLostWakeup'
    BY <1>0, <1>9 DEF TypeOK, wakeup, NoLostWakeup, WaiterHolds
  <2>4. WaiterHolds'
    BY SMTT(30), <1>0, <1>9 DEF TypeOK, wakeup, WaiterHolds, Holds
  <2>5. SlotInv'
    BY <1>0, <1>9 DEF TypeOK, wakeup, SlotInv
  <2> QED
    BY ZenonT(100), <2>1, <2>2, <2>3, <2>4, <2>5 DEF IInv
<1>10. ASSUME NEW p \in Procs, NEW q \in Procs, kill(p, q)
       PROVE  IInv'
  <2>1. RefCount'
    BY SMTT(30), <1>0, <1>10, SameCount DEF kill
  <2>2. TypeOK' /\ NoLostWakeup' /\ WaiterHolds' /\ SlotInv'
    BY <1>0, <1>10 DEF TypeOK, kill, NoLostWakeup, WaiterHolds, SlotInv, Holds
  <2> QED
    BY ZenonT(100), <2>1, <2>2 DEF IInv
<1>11. ASSUME NEW p \in Procs, NEW np \in Procs, fork(p, np)
       PROVE  IInv'
  <2>1. RefCount'
    BY <1>0, <1>11, SameCount DEF fork
  <2>3. TypeOK'
    BY <1>0, <1>11 DEF TypeOK, fork
  <2>4. NoLostWakeup'
    BY SMTT(30), <1>0, <1>11 DEF TypeOK, fork, NoLostWakeup
  <2>5. WaiterHolds'
    BY <1>0, <1>11 DEF TypeOK, fork, WaiterHolds, Holds
  <2>6. SlotInv'
    BY <1>0, <1>11 DEF TypeOK, fork, SlotInv
  <2> QED
    BY ZenonT(100), <2>1, <2>3, <2>4, <2>5, <2>6 DEF IInv
<1>12. ASSUME NEW p \in Procs, forkdup(p)
       PROVE  IInv'
  <2> DEFINE s == osemaphore[p][idx[p]]
             np == child[p]
  <2>1. /\ np \in Procs /\ pc[np] = "embryo" /\ np # p
        /\ idx[p] \in Slots /\ osemaphore[np][idx[p]] = None
        /\ s \in Sems \cup {None}
    BY SMTT(30), <1>0, <1>12, ConstAssumption DEF forkdup, SlotInv, TypeOK, Slots
  <2>2. /\ RefCount'
        /\ references' \in [Sems -> Nat]
        /\ osemaphore' \in [Procs -> [Slots -> Sems \cup {None}]]
    <3>1. CASE s = None
      BY SMTT(30), <1>0, <1>12, <3>1, SameCount DEF forkdup, TypeOK
    <3>2. CASE s # None
      BY ZenonT(100), <1>0, <1>12, <2>1, <3>2, FoundKeepsCount DEF forkdup
    <3> QED
      BY <3>1, <3>2
  <2>3. \A q \in Procs : q # np => osemaphore'[q] = osemaphore[q]
    BY <1>0, <1>12, <2>1 DEF forkdup, found, TypeOK
  <2>4. \A j \in Slots : j # idx[p] => osemaphore'[np][j] = osemaphore[np][j]
    BY <1>0, <1>12, <2>1 DEF forkdup, found, TypeOK
  <2>5. TypeOK'
    BY ZenonT(100), <1>0, <1>12, <2>1, <2>2 DEF TypeOK, forkdup
  <2>6. NoLostWakeup'
    BY <1>0, <1>12 DEF forkdup, NoLostWakeup
  <2>7. WaiterHolds'
    BY SMTT(30), <1>0, <1>12, <2>1, <2>3 DEF forkdup, WaiterHolds, Holds
  <2>8. SlotInv'
    BY SMTT(30), <1>0, <1>12, <2>1, <2>3, <2>4 DEF forkdup, SlotInv, TypeOK
  <2> QED
    BY SMTT(30), <2>2, <2>5, <2>6, <2>7, <2>8 DEF IInv
<1>13. ASSUME NEW p \in Procs, forkdone(p)
       PROVE  IInv'
  <2>1. RefCount'
    BY <1>0, <1>13, SameCount DEF forkdone
  <2>2. child[p] \in Procs /\ pc[child[p]] = "embryo"
    BY <1>0, <1>13 DEF forkdone, SlotInv
  <2>3. TypeOK'
    BY SMTT(30), <1>0, <1>13, <2>2 DEF TypeOK, forkdone
  <2>4. NoLostWakeup'
    BY ZenonT(100), <1>0, <1>13, <2>2 DEF TypeOK, forkdone, NoLostWakeup
  <2>5. WaiterHolds'
    BY <1>0, <1>13, <2>2 DEF TypeOK, forkdone, WaiterHolds, Holds
  <2>6. SlotInv'
    BY <1>0, <1>13, <2>2 DEF TypeOK, forkdone, SlotInv
  <2> QED
    BY ZenonT(100), <2>1, <2>3, <2>4, <2>5, <2>6 DEF IInv
<1>14. ASSUME NEW p \in Procs, exit(p)
       PROVE  IInv'
  <2>1. RefCount'
    BY <1>0, <1>14, SameCount DEF exit
  <2>3. TypeOK'
    BY <1>0, <1>14 DEF TypeOK, exit
  <2>4. NoLostWakeup'
    BY <1>0, <1>14 DEF TypeOK, exit, NoLostWakeup
  <2>5. WaiterHolds'
    BY SMTT(30), <1>0, <1>14 DEF TypeOK, exit, WaiterHolds, Holds
  <2>6. SlotInv'
    BY SMTT(30), <1>0, <1>14 DEF TypeOK, exit, SlotInv
  <2> QED
    BY ZenonT(100), <2>1, <2>3, <2>4, <2>5, <2>6 DEF IInv
<1>15. ASSUME NEW p \in Procs, exitclose(p)
       PROVE  IInv'
  <2> DEFINE s == osemaphore[p][idx[p]]
  <2>1. idx[p] \in Slots /\ s \in Sems \cup {None}
    BY SMTT(30), <1>0, <1>15, ConstAssumption DEF exitclose, TypeOK, Slots
  <2>2. /\ RefCount'
        /\ references' \in [Sems -> Nat]
        /\ osemaphore' \in [Procs -> [Slots -> Sems \cup {None}]]
    <3>1. CASE s = None
      BY SMTT(30), <1>0, <1>15, <3>1, SameCount DEF exitclose, TypeOK
    <3>2. CASE s # None
      BY SMTT(30), <1>0, <1>15, <2>1, <3>2, DropKeepsCount DEF exitclose
    <3> QED
      BY <3>1, <3>2
  <2>3. \A q \in Procs : q # p => osemaphore'[q] = osemaphore[q]
    BY SMTT(30), <1>0, <1>15, <2>1 DEF exitclose, TypeOK
  <2>4. /\ osemaphore'[p][idx[p]] = None
        /\ \A j \in Slots : j # idx[p] => osemaphore'[p][j] = osemaphore[p][j]
    BY SMTT(30), <1>0, <1>15, <2>1 DEF exitclose, TypeOK
  <2>5. TypeOK'
    BY ZenonT(100), <1>0, <1>15, <2>1, <2>2 DEF TypeOK, exitclose
  <2>6. NoLostWakeup'
    BY <1>0, <1>15 DEF exitclose, NoLostWakeup
  <2>7. WaiterHolds'
    BY <1>0, <1>15, <2>3 DEF exitclose, WaiterHolds, Holds
  <2>8. SlotInv'
    <3>1. /\ pc' = pc /\ child' = child
          /\ idx'[p] = idx[p] + 1 /\ \A q \in Procs : q # p => idx'[q] = idx[q]
          /\ pc[p] = "exit"
      BY <1>0, <1>15 DEF exitclose, TypeOK
    <3>2. ASSUME NEW q \in Procs, pc[q] = "exit"
          PROVE  \A i \in Slots : i < idx'[q] => osemaphore'[q][i] = None
      <4>1. CASE q = p
        <5>1. \A i \in Slots : i < idx[p] => osemaphore[p][i] = None
          BY <1>0, <3>1 DEF SlotInv
        <5>2. \A i \in Slots : i < idx[p] + 1 => i < idx[p] \/ i = idx[p]
          BY SMTT(30), <2>1 DEF Slots
        <5> QED
          BY SMTT(30), <5>1, <5>2, <2>4, <3>1, <4>1
      <4>2. CASE q # p
        BY SMTT(30), <1>0, <2>3, <3>1, <3>2, <4>2 DEF SlotInv
      <4> QED
        BY SMTT(30), <4>1, <4>2
    <3> QED
      BY SMTT(30), <1>0, <2>3, <3>1, <3>2 DEF SlotInv
  <2> QED
    BY ZenonT(100), <2>2, <2>5, <2>6, <2>7, <2>8 DEF IInv
<1>16. ASSUME NEW p \in Procs, exitdone(p)
       PROVE  IInv'
  <2>1. RefCount'
    BY <1>0, <1>16, SameCount DEF exitdone
  <2>3. TypeOK'
    BY <1>0, <1>16 DEF TypeOK, exitdone
  <2>4. NoLostWakeup'
    BY <1>0, <1>16 DEF TypeOK, exitdone, NoLostWakeup
  <2>5. WaiterHolds'
    BY SMTT(30), <1>0, <1>16 DEF TypeOK, exitdone, WaiterHolds, Holds
  <2>6. SlotInv'
    BY <1>0, <1>16 DEF TypeOK, exitdone, SlotInv
  <2> QED
    BY ZenonT(100), <2>1, <2>3, <2>4, <2>5, <2>6 DEF IInv
<1> QED
  BY <1>1, <1>2, <1>3, <1>4, <1>6, <1>7, <1>8, <1>9, <1>10, <1>11, <1>12,
     <1>13, <1>14, <1>15, <1>16 DEF Next

\* In every reachable state of the semaphore table, for any number of processes
\* and any table sizes, the inductive invariant holds.
THEOREM Invariance == Spec => []IInv
  BY InitIInv, NextIInv, PTL DEF Spec

\* The variables keep their types.
THEOREM TypeCorrect == Spec => []TypeOK
<1>1. IInv => TypeOK
  BY DEF IInv
<1> QED
  BY <1>1, Invariance, PTL

\* references always equals the number of osemaphore entries: semget, semfree,
\* fork and exit never lose or invent a reference.
THEOREM RefCountCorrect == Spec => []RefCount
<1>1. IInv => RefCount
  BY DEF IInv
<1> QED
  BY <1>1, Invariance, PTL

\* semdown and semup never lose a wakeup.
THEOREM NoWakeupLost == Spec => []NoLostWakeup
<1>1. IInv => NoLostWakeup
  BY DEF IInv
<1> QED
  BY <1>1, Invariance, PTL

\* No semaphore is recycled under a process that sleeps on it or wakes it.
THEOREM WaitersHold == Spec => []WaiterHolds
<1>1. IInv => WaiterHolds
  BY DEF IInv
<1> QED
  BY <1>1, Invariance, PTL

-----------------------------------------------------------------------------
(* The refinement                                                          *)

\* One turn of semdown's loop takes a token of a semaphore the process holds,
\* or changes nothing a caller can see.
LEMMA DownSimulates ==
    ASSUME NEW p \in Procs, NEW s \in Sems, Holds(p, s), downloop(p, s),
           UNCHANGED osemaphore
    PROVE  [Abs!Next]_Abs!vars
<1>1. CASE value[s] > 0 /\ value' = [value EXCEPT ![s] = @ - 1]
  <2>1. Abs!Down(p, s)
    BY <1>1 DEF Abs!Down, Abs!Holds, Holds
  <2> QED
    BY <2>1 DEF Abs!Next
<1>2. CASE UNCHANGED value
  BY <1>2 DEF Abs!vars
<1> QED
  BY <1>1, <1>2 DEF downloop

\* Every step of the table is a step of the abstract semaphores, or changes
\* neither a handle nor a value.
LEMMA StepSimulates ==
    ASSUME IInv, [Next]_vars
    PROVE  [Abs!Next]_Abs!vars
<1>0. TypeOK /\ RefCount /\ WaiterHolds /\ SlotInv /\ None \notin Sems
  BY ConstAssumption DEF IInv, Sems
<1>1. CASE UNCHANGED vars
  BY <1>1 DEF vars, Abs!vars
<1>2. ASSUME NEW p \in Procs, NEW v \in InitValues, semgetnew(p, v)
      PROVE  [Abs!Next]_Abs!vars
  <2>1. PICK i \in allocinprocess(p), s \in allocinsystem :
           value' = [value EXCEPT ![s] = v] /\ found(p, i, s)
    BY ZenonT(100), <1>2 DEF semgetnew
  <2>2. i \in Slots /\ osemaphore[p][i] = None /\ s \in Sems /\ references[s] = 0
    BY DEF allocinprocess, allocinsystem
  <2>3. ~ Abs!InUse(s)
    BY <1>0, <2>2, UnusedHasNoHandle DEF Abs!InUse, Abs!Holds, Holds
  <2>4. Abs!Create(p, i, s, v)
    BY <2>1, <2>2, <2>3 DEF Abs!Create, found
  <2> QED
    BY <2>2, <2>4 DEF Abs!Next
<1>3. ASSUME NEW p \in Procs, NEW semid \in Sems, semgetold(p, semid)
      PROVE  [Abs!Next]_Abs!vars
  <2>1. PICK i \in allocinprocess(p), s \in searchinsystem(semid) : found(p, i, s)
    BY <1>3 DEF semgetold
  <2>2. i \in Slots /\ osemaphore[p][i] = None /\ s \in Sems
    BY DEF allocinprocess, searchinsystem
  <2>3. references[s] > 0
    <3>1. \E t \in searchinsystem(semid) : references[t] > 0
      BY <1>3, ConstAssumption DEF semgetold, semgeterror, Sems
    <3>2. \A t \in searchinsystem(semid) : t = s
      BY DEF searchinsystem, Sems
    <3> QED
      BY <3>1, <3>2
  <2>4. Abs!InUse(s)
    BY <1>0, <2>2, <2>3, UsedHasHandle DEF Abs!InUse, Abs!Holds, Holds
  <2>5. Abs!Attach(p, i, s)
    BY ZenonT(100), <1>3, <2>1, <2>2, <2>4 DEF Abs!Attach, found, semgetold
  <2> QED
    BY <2>2, <2>5 DEF Abs!Next
<1>4. ASSUME NEW p \in Procs, NEW semid \in Sems, semfree(p, semid)
      PROVE  [Abs!Next]_Abs!vars
  <2>1. PICK i \in searchinprocess(p, semid) :
           osemaphore' = [osemaphore EXCEPT ![p][i] = None]
    BY ZenonT(100), <1>4 DEF semfree
  <2>2. i \in Slots /\ osemaphore[p][i] # None
    BY DEF searchinprocess, SlotMatches
  <2>3. Abs!Detach(p, i)
    BY ZenonT(100), <1>4, <2>1, <2>2 DEF Abs!Detach, semfree
  <2> QED
    BY <2>2, <2>3 DEF Abs!Next
<1>5. ASSUME NEW p \in Procs, NEW semid \in Sems, semdown(p, semid)
      PROVE  [Abs!Next]_Abs!vars
  <2>1. PICK i \in searchinprocess(p, semid) : downloop(p, osemaphore[p][i])
    BY <1>5 DEF semdown
  <2>2. osemaphore[p][i] \in Sems /\ Holds(p, osemaphore[p][i])
    BY <1>0 DEF searchinprocess, SlotMatches, TypeOK, Holds
  <2>3. UNCHANGED osemaphore
    BY <1>5 DEF semdown
  <2> QED
    BY <2>1, <2>2, <2>3, DownSimulates
<1>6. ASSUME NEW p \in Procs, semdownresume(p)
      PROVE  [Abs!Next]_Abs!vars
  <2>1. chan[p] \in Sems /\ Holds(p, chan[p])
    BY <1>0, <1>6 DEF semdownresume, WaiterHolds, TypeOK
  <2>2. downloop(p, chan[p]) /\ UNCHANGED osemaphore
    BY <1>6 DEF semdownresume
  <2> QED
    BY <2>1, <2>2, DownSimulates
<1>7. ASSUME NEW p \in Procs, NEW semid \in Sems, semup(p, semid)
      PROVE  [Abs!Next]_Abs!vars
  <2>1. PICK i \in searchinprocess(p, semid) :
           value' = [value EXCEPT ![osemaphore[p][i]] = @ + 1]
    BY ZenonT(100), <1>7 DEF semup
  <2>2. i \in Slots /\ osemaphore[p][i] \in Sems
    BY <1>0 DEF searchinprocess, SlotMatches, TypeOK
  <2>3. Abs!Up(p, osemaphore[p][i])
    BY ZenonT(100), <1>7, <2>1, <2>2 DEF Abs!Up, Abs!Holds, semup
  <2> QED
    BY <2>2, <2>3 DEF Abs!Next
<1>8. ASSUME NEW p \in Procs, forkdup(p)
      PROVE  [Abs!Next]_Abs!vars
  <2> DEFINE s == osemaphore[p][idx[p]]
  <2>1. /\ child[p] \in Procs /\ idx[p] \in Slots
        /\ osemaphore[child[p]][idx[p]] = None /\ s \in Sems \cup {None}
    BY <1>0, <1>8, ConstAssumption DEF forkdup, SlotInv, TypeOK, Slots
  <2>2. CASE s = None
    BY <1>8, <2>2 DEF forkdup, Abs!vars
  <2>3. CASE s # None
    <3>1. Abs!InUse(s)
      BY <2>1 DEF Abs!InUse, Abs!Holds
    <3>2. Abs!Attach(child[p], idx[p], s)
      BY <1>8, <2>1, <2>3, <3>1 DEF forkdup, found, Abs!Attach
    <3> QED
      BY <2>1, <2>3, <3>2 DEF Abs!Next
  <2> QED
    BY <2>2, <2>3
<1>9. ASSUME NEW p \in Procs, exitclose(p)
      PROVE  [Abs!Next]_Abs!vars
  <2> DEFINE s == osemaphore[p][idx[p]]
  <2>1. idx[p] \in Slots
    BY <1>0, <1>9, ConstAssumption DEF exitclose, TypeOK, Slots
  <2>2. CASE s = None
    BY <1>9, <2>2 DEF exitclose, Abs!vars
  <2>3. CASE s # None
    <3>1. Abs!Detach(p, idx[p])
      BY <1>9, <2>3 DEF exitclose, Abs!Detach
    <3> QED
      BY <2>1, <3>1 DEF Abs!Next
  <2> QED
    BY <2>2, <2>3
<1>10. ASSUME NEW p \in Procs,
              \/ wakeup(p) \/ (\E q \in Procs : kill(p, q) \/ fork(p, q))
              \/ forkdone(p) \/ exit(p) \/ exitdone(p)
       PROVE  [Abs!Next]_Abs!vars
  BY <1>10 DEF wakeup, kill, fork, forkdone, exit, exitdone, Abs!vars
<1> QED
  BY <1>1, <1>2, <1>3, <1>4, <1>5, <1>6, <1>7, <1>8, <1>9, <1>10 DEF Next

\* The semaphore table, with its reference counts, its sleeping processes and
\* its delayed wakeups, implements semaphores with atomic operations.
THEOREM Refinement == Spec => RefinesAbs
<1>1. Init => Abs!Init
  BY DEF Init, Abs!Init
<1> QED
  BY <1>1, StepSimulates, Invariance, PTL DEF Spec, RefinesAbs, Abs!Spec

=============================================================================
