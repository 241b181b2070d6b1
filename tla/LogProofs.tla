----------------------------- MODULE LogProofs ------------------------------
(***************************************************************************)
(* The safety of Log, and that it makes operations atomic, for any number  *)
(* of processes, blocks and contents and any sizes of the log and of       *)
(* operations.                                                             *)
(***************************************************************************)
EXTENDS Log, FiniteSetTheorems, TLAPS

\* A leaf is tried with Zenon first, briefly: most need no arithmetic.
USE ZenonT(2), SMTT(20), ZenonT(20)

Active == {p \in Procs : InOp(p)}

Distinct(s) == \A i, j \in 1 .. Len(s) : s[i] = s[j] => i = j

Held(b) == \E p \in Procs : blk[p] = b

\* The blocks before position n of the list are on disk as the log has them.
InstalledTo(n) == \A i \in 1 .. Len(lh) : i < n => disk[lh[i]] = dlog[i]

\* The log blocks before position n hold what the cache has.
LoggedTo(n) == \A i \in 1 .. Len(lh) : i < n => dlog[i] = contents(lh[i])

\* Who is where: the count of operations, the process that commits, the
\* buffers held.
ProcInv ==
    /\ outstanding = Cardinality(Active)
    /\ \A p \in Procs : pc[p] = "commit" => committing
    /\ \A p, q \in Procs : pc[p] = "commit" /\ pc[q] = "commit" => p = q
    /\ committing => Active = {}
    /\ \A p \in Procs : blk[p] # None => pc[p] = "log_write"
    /\ \A p \in Procs : pc[p] = "log_write" => blk[p] # None /\ used[p] < MAXOPBLOCKS
    /\ ~ up => \A p \in Procs : pc[p] = "idle"

\* A buffer that differs from the disk is in the transaction and pinned, or
\* still held by the process that writes it.
CacheInv ==
    /\ \A b \in Blocks : cache[b] \in {None, disk[b]} \/ b \in dirty \/ Held(b)
    /\ \A b \in dirty : \E i \in 1 .. Len(lh) : lh[i] = b

\* What holds at each point of a commit, of recovery, and between them.
PhaseInv ==
    /\ phase = "none" => up /\ ~ committing /\ dhead = <<>> /\ (lh # <<>> => Active # {})
    /\ phase # "none" => Active = {}
    /\ phase \in {"write_log", "write_head", "done"} => up /\ committing /\ dhead = <<>>
    /\ phase = "write_log" => tail <= Len(lh) /\ LoggedTo(tail)
    /\ phase = "write_head" => tail = 1 /\ lh # <<>> /\ LoggedTo(Len(lh) + 1)
    /\ phase = "install_trans" =>
          tail <= Len(lh) /\ InstalledTo(tail)
    /\ phase = "erase" => InstalledTo(Len(lh) + 1)
    /\ phase \in {"install_trans", "erase"} =>
          dhead = lh /\ (up => committing /\ LoggedTo(Len(lh) + 1))
    /\ phase = "install_trans" => \A i \in 1 .. Len(lh) : i < tail => lh[i] \notin dirty
    /\ phase \in {"erase", "done"} => dirty = {}
    /\ phase = "done" => lh = <<>>
    /\ phase = "read_head" => ~ up /\ lh = <<>>
    /\ ~ up => ~ committing /\ dirty = {} /\ phase \in {"read_head", "install_trans", "erase"}

IInv ==
    /\ TypeOK /\ ProcInv /\ CacheInv /\ PhaseInv /\ NoLostWakeup /\ LogSpace
    /\ Distinct(lh) /\ Distinct(dhead) /\ Len(dhead) <= LOGSIZE

-----------------------------------------------------------------------------
(* Parts of a step                                                         *)

\* The operations under way are finitely many.
LEMMA ActiveFinite == IsFiniteSet(Active)
<1>1. Active \subseteq Procs
  BY DEF Active
<1> QED
  BY <1>1, ConstAssumption, FS_Subset

\* The reserved places are finitely many.
LEMMA ReservedFinite == IsFiniteSet(Reserved)
<1>1. IsFiniteSet(1 .. MAXOPBLOCKS)
  BY ConstAssumption, FS_Interval
<1>2. IsFiniteSet(Procs \X (1 .. MAXOPBLOCKS))
  BY <1>1, ConstAssumption, FS_Product
<1>3. Reserved \subseteq Procs \X (1 .. MAXOPBLOCKS)
  BY DEF Reserved
<1> QED
  BY <1>2, <1>3, FS_Subset

\* A step that starts or ends no operation keeps the set of operations.
LEMMA SameActive ==
    ASSUME \A q \in Procs : InOp(q)' <=> InOp(q)
    PROVE  Active' = Active
  BY DEF Active

\* A step that starts or ends no operation and logs no block keeps the room
\* reserved.
LEMMA SameSpace ==
    ASSUME LogSpace, lh' = lh, used' = used, \A q \in Procs : InOp(q)' <=> InOp(q)
    PROVE  LogSpace'
<1>1. Reserved' = Reserved
  BY DEF Reserved
<1> QED
  BY <1>1 DEF LogSpace

\* A step that changes nothing commit and recovery look at, and lets bread
\* return what it returned, keeps PhaseInv.
LEMMA SamePhase ==
    ASSUME TypeOK, PhaseInv, Active' = Active, \A b \in Blocks : contents(b)' = contents(b),
           UNCHANGED <<disk, dlog, dhead, dirty, lh, committing, phase, tail, up>>
    PROVE  PhaseInv'
<1>1. \A i \in 1 .. Len(lh) : lh[i] \in Blocks
  BY DEF TypeOK
<1>2. \A n : LoggedTo(n)' <=> LoggedTo(n)
  BY <1>1 DEF LoggedTo
<1>3. \A n : InstalledTo(n)' <=> InstalledTo(n)
  BY DEF InstalledTo
<1> QED
  BY <1>2, <1>3 DEF PhaseInv

-----------------------------------------------------------------------------
(* One lemma per action                                                    *)

\* The initial states, with an empty log on disk.
LEMMA InitIInv == Init => IInv
<1> SUFFICES ASSUME Init PROVE IInv
  OBVIOUS
<1>0. Active = {} /\ Reserved = {}
  BY DEF Init, Active, Reserved, InOp
<1>1. TypeOK
  <2>1. dhead \in Seq(Blocks) /\ lh \in Seq(Blocks)
    BY DEF Init
  <2>2. cache \in [Blocks -> Values \cup {None}] /\ blk \in [Procs -> Blocks \cup {None}]
    BY DEF Init
  <2>3. /\ pc \in [Procs -> {"idle", "begin", "sleep", "op", "log_write", "commit"}]
        /\ used \in [Procs -> Nat]
    BY DEF Init
  <2>4. outstanding \in Nat /\ tail \in Nat \ {0} /\ dirty \subseteq Blocks
    BY DEF Init
  <2>5. committing \in BOOLEAN /\ up \in BOOLEAN /\ panicked \in BOOLEAN
    BY ZenonT(100) DEF Init
  <2> QED
    BY ZenonT(100), <2>1, <2>2, <2>3, <2>4, <2>5 DEF Init, TypeOK
<1>2. ProcInv
  BY <1>0, FS_EmptySet DEF Init, ProcInv
<1>3. CacheInv
  BY DEF Init, CacheInv
<1>4. PhaseInv
  BY <1>0 DEF Init, PhaseInv
<1>5. NoLostWakeup
  BY DEF Init, NoLostWakeup
<1>6. LogSpace
  BY <1>0, FS_EmptySet, ConstAssumption DEF Init, LogSpace
<1>7. Distinct(lh) /\ Distinct(dhead) /\ Len(dhead) <= LOGSIZE
  BY ConstAssumption DEF Init, Distinct
<1> QED
  BY <1>1, <1>2, <1>3, <1>4, <1>5, <1>6, <1>7 DEF IInv

\* kill puts a sleeper back to begin_op's test.
LEMMA KillStep ==
    ASSUME IInv, NEW p \in Procs, kill(p)
    PROVE  IInv'
<1>0. /\ TypeOK /\ ProcInv /\ CacheInv /\ PhaseInv /\ NoLostWakeup /\ LogSpace
      /\ Distinct(lh) /\ Distinct(dhead) /\ Len(dhead) <= LOGSIZE
  BY DEF IInv
<1>1. /\ pc'[p] = "begin" /\ pc[p] = "sleep"
      /\ \A q \in Procs : q # p => pc'[q] = pc[q]
  BY <1>0 DEF kill, TypeOK
<1>2. \A q \in Procs : InOp(q)' <=> InOp(q)
  BY <1>1 DEF InOp
<1>3. Active' = Active
  BY <1>2, SameActive
<1>4. TypeOK'
  BY <1>0 DEF kill, TypeOK
<1>5. ProcInv'
  BY <1>0, <1>1, <1>3 DEF kill, ProcInv, Running
<1>6. CacheInv'
  BY <1>0 DEF kill, CacheInv, Held
<1>7. PhaseInv'
  BY <1>0, <1>3, SamePhase DEF kill, contents
<1>8. NoLostWakeup'
  BY <1>0, <1>1 DEF kill, NoLostWakeup, mustwait
<1>9. LogSpace'
  BY <1>0, <1>2, SameSpace DEF kill
<1>10. Distinct(lh)' /\ Distinct(dhead)' /\ (Len(dhead) <= LOGSIZE)'
  BY <1>0 DEF kill, Distinct
<1> QED
  BY ZenonT(100), <1>4, <1>5, <1>6, <1>7, <1>8, <1>9, <1>10 DEF IInv

\* x operations and one more.
LEMMA OneMoreOp ==
    ASSUME NEW x \in Nat
    PROVE  (x + 1) * MAXOPBLOCKS = x * MAXOPBLOCKS + MAXOPBLOCKS
  BY ConstAssumption

\* begin_op sleeps, or starts an operation.
LEMMA BeginSleepStep ==
    ASSUME IInv, NEW p \in Procs, begin_op(p), mustwait, pc' = [pc EXCEPT ![p] = "sleep"],
           UNCHANGED <<outstanding, used>>
    PROVE  IInv'
<1>0. /\ TypeOK /\ ProcInv /\ CacheInv /\ PhaseInv /\ NoLostWakeup /\ LogSpace
      /\ Distinct(lh) /\ Distinct(dhead) /\ Len(dhead) <= LOGSIZE
  BY DEF IInv
<1>a. UNCHANGED <<disk, dlog, dhead, cache, dirty, lh, committing, blk, phase, tail, up, panicked>>
  BY DEF begin_op
<1>1. /\ pc'[p] = "sleep" /\ pc[p] \in {"idle", "begin"}
      /\ \A q \in Procs : q # p => pc'[q] = pc[q]
  BY <1>0 DEF begin_op, TypeOK
<1>2. \A q \in Procs : InOp(q)' <=> InOp(q)
  BY <1>1 DEF InOp
<1>3. Active' = Active
  BY <1>2, SameActive
<1>4. TypeOK'
  BY <1>0, <1>a DEF TypeOK
<1>5. ProcInv'
  BY <1>0, <1>1, <1>3, <1>a DEF ProcInv, begin_op, Running
<1>6. CacheInv'
  BY <1>0, <1>a DEF CacheInv, Held
<1>7. PhaseInv'
  BY <1>0, <1>3, <1>a, SamePhase DEF contents
<1>8. NoLostWakeup'
  BY <1>a DEF NoLostWakeup, mustwait
<1>9. LogSpace'
  BY <1>0, <1>2, <1>a, SameSpace
<1>10. Distinct(lh)' /\ Distinct(dhead)' /\ (Len(dhead) <= LOGSIZE)'
  BY <1>0, <1>a DEF Distinct
<1> QED
  BY ZenonT(100), <1>4, <1>5, <1>6, <1>7, <1>8, <1>9, <1>10 DEF IInv

\* Outside commit and recovery the phase is "none".
LEMMA NoPhase ==
    ASSUME TypeOK, PhaseInv, up, ~ committing
    PROVE  phase = "none"
  BY DEF TypeOK, PhaseInv

\* begin_op starts an operation and reserves its blocks.
LEMMA BeginStep ==
    ASSUME IInv, NEW p \in Procs, begin_op(p), ~ mustwait
    PROVE  IInv'
<1>0. /\ TypeOK /\ ProcInv /\ CacheInv /\ PhaseInv /\ NoLostWakeup /\ LogSpace
      /\ Distinct(lh) /\ Distinct(dhead) /\ Len(dhead) <= LOGSIZE
  BY DEF IInv
<1>a. /\ UNCHANGED <<disk, dlog, dhead, cache, dirty, lh, committing, blk, phase, tail, up, panicked>>
      /\ outstanding' = outstanding + 1
      /\ pc' = [pc EXCEPT ![p] = "op"]
      /\ used' = [used EXCEPT ![p] = 0]
      /\ up /\ pc[p] \in {"idle", "begin"}
  BY DEF begin_op, Running
<1>b. ~ committing /\ Len(lh) + (outstanding + 1) * MAXOPBLOCKS <= LOGSIZE
  BY <1>0, ConstAssumption DEF mustwait, TypeOK
<1>1. pc'[p] = "op" /\ \A q \in Procs : q # p => pc'[q] = pc[q]
  BY <1>0, <1>a DEF TypeOK
<1>2. \A q \in Procs : InOp(q)' <=> InOp(q) \/ q = p
  BY <1>1 DEF InOp
<1>3. Active' = Active \cup {p} /\ p \notin Active
  BY <1>a, <1>2 DEF Active, InOp
<1>4. TypeOK'
  BY <1>0, <1>a DEF TypeOK
<1>5. outstanding' = Cardinality(Active')
  <2>1. Cardinality(Active \cup {p}) = Cardinality(Active) + 1
    BY ZenonT(100), <1>3, ActiveFinite, FS_AddElement
  <2> QED
    BY <1>0, <1>3, <1>a, <2>1 DEF ProcInv
<1>6. ProcInv'
  BY <1>0, <1>1, <1>5, <1>a, <1>b DEF ProcInv
<1>7. CacheInv'
  BY <1>0, <1>a DEF CacheInv, Held
<1>8. phase = "none"
  BY <1>0, <1>a, <1>b, NoPhase
<1>9. PhaseInv'
  BY <1>0, <1>3, <1>8, <1>a, <1>b DEF PhaseInv
<1>10. NoLostWakeup'
  BY <1>0, <1>1, <1>a, <1>b, OneMoreOp, ConstAssumption DEF NoLostWakeup, mustwait, TypeOK
<1>11. LogSpace'
  <2>1. IsFiniteSet(1 .. MAXOPBLOCKS) /\ Cardinality(1 .. MAXOPBLOCKS) = MAXOPBLOCKS
    BY ConstAssumption, FS_Interval
  <2>2. IsFiniteSet(Active') /\ Cardinality(Active') = outstanding + 1
    BY <1>3, <1>5, <1>a, ActiveFinite, FS_AddElement
  <2>3. /\ IsFiniteSet(Active' \X (1 .. MAXOPBLOCKS))
        /\ Cardinality(Active' \X (1 .. MAXOPBLOCKS)) = (outstanding + 1) * MAXOPBLOCKS
    BY ZenonT(100), <2>1, <2>2, FS_Product
  <2>4. Reserved' \subseteq Active' \X (1 .. MAXOPBLOCKS)
    BY DEF Reserved, Active
  <2>5. Cardinality(Reserved') <= Cardinality(Active' \X (1 .. MAXOPBLOCKS)) /\ IsFiniteSet(Reserved')
    BY <2>3, <2>4, FS_Subset
  <2>6. Cardinality(Reserved') \in Nat
    BY <2>5, FS_CardinalityType
  <2> QED
    BY <1>0, <1>a, <1>b, <2>3, <2>5, <2>6, ConstAssumption DEF LogSpace, TypeOK
<1>12. Distinct(lh)' /\ Distinct(dhead)' /\ (Len(dhead) <= LOGSIZE)'
  BY <1>0, <1>a DEF Distinct
<1> QED
  BY ZenonT(100), <1>4, <1>6, <1>7, <1>9, <1>10, <1>11, <1>12 DEF IInv

\* log_write up to acquire: the buffer is changed and still held.
LEMMA LogWriteStep ==
    ASSUME IInv, NEW p \in Procs, NEW b \in Blocks, NEW v \in Values, log_write(p, b, v)
    PROVE  IInv'
<1>0. /\ TypeOK /\ ProcInv /\ CacheInv /\ PhaseInv /\ NoLostWakeup /\ LogSpace
      /\ Distinct(lh) /\ Distinct(dhead) /\ Len(dhead) <= LOGSIZE
  BY DEF IInv
<1>a. /\ UNCHANGED <<disk, dlog, dhead, dirty, lh, outstanding, committing, used, phase, tail, up>>
      /\ cache' = [cache EXCEPT ![b] = v]
      /\ pc' = [pc EXCEPT ![p] = "log_write"]
      /\ blk' = [blk EXCEPT ![p] = b]
      /\ panicked' \in BOOLEAN
      /\ pc[p] = "op" /\ used[p] < MAXOPBLOCKS
  BY DEF log_write
<1>1. pc'[p] = "log_write" /\ \A q \in Procs : q # p => pc'[q] = pc[q]
  BY <1>0, <1>a DEF TypeOK
<1>2. \A q \in Procs : InOp(q)' <=> InOp(q)
  BY <1>1, <1>a DEF InOp
<1>3. Active' = Active /\ p \in Active
  BY <1>2, <1>a, SameActive DEF Active, InOp
<1>4. TypeOK'
  <2>1. /\ pc' \in [Procs -> {"idle", "begin", "sleep", "op", "log_write", "commit"}]
        /\ blk' \in [Procs -> Blocks \cup {None}] /\ cache' \in [Blocks -> Values \cup {None}]
    BY <1>0, <1>a DEF TypeOK
  <2> QED
    BY ZenonT(100), <1>0, <1>a, <2>1 DEF TypeOK
<1>5. blk'[p] = b /\ b # None /\ \A q \in Procs : q # p => blk'[q] = blk[q]
  BY <1>0, <1>a, ConstAssumption DEF TypeOK
<1>6. ProcInv'
  BY <1>0, <1>1, <1>3, <1>5, <1>a DEF ProcInv
<1>7. CacheInv'
  <2>1. \A c \in Blocks : c # b => cache'[c] = cache[c]
    BY <1>0, <1>a DEF TypeOK
  <2>2. blk[p] = None
    BY <1>0, <1>a DEF ProcInv
  <2>3. Held(b)' /\ \A c \in Blocks : Held(c) => Held(c)'
    BY <1>5, <2>2, ConstAssumption DEF Held
  <2> QED
    BY <1>0, <1>a, <2>1, <2>3 DEF CacheInv
<1>8. phase = "none"
  BY <1>0, <1>3 DEF PhaseInv
<1>9. PhaseInv'
  BY <1>0, <1>3, <1>8, <1>a DEF PhaseInv
<1>10. NoLostWakeup'
  BY <1>0, <1>1, <1>a DEF NoLostWakeup, mustwait
<1>11. LogSpace'
  BY <1>0, <1>2, <1>a, SameSpace
<1>12. Distinct(lh)' /\ Distinct(dhead)' /\ (Len(dhead) <= LOGSIZE)'
  BY <1>0, <1>a DEF Distinct
<1> QED
  BY ZenonT(100), <1>4, <1>6, <1>7, <1>9, <1>10, <1>11, <1>12 DEF IInv

\* A block enters the list of sectors at most once, at its end.
LEMMA Absorb ==
    ASSUME NEW b \in Blocks, lh \in Seq(Blocks), Distinct(lh)
    PROVE  /\ absorbed(b) \in Seq(Blocks) /\ Distinct(absorbed(b))
           /\ Len(absorbed(b)) \in {Len(lh), Len(lh) + 1}
           /\ \E i \in 1 .. Len(absorbed(b)) : absorbed(b)[i] = b
           /\ \A i \in 1 .. Len(lh) : i \in 1 .. Len(absorbed(b)) /\ absorbed(b)[i] = lh[i]
           /\ absorbed(b) # <<>>
<1>1. CASE b \in Sectors(lh)
  <2>1. absorbed(b) = lh
    BY <1>1 DEF absorbed
  <2>2. PICK i \in 1 .. Len(lh) : lh[i] = b
    BY <1>1 DEF Sectors
  <2> QED
    BY <2>1, <2>2
<1>2. CASE b \notin Sectors(lh)
  <2>1. absorbed(b) = Append(lh, b)
    BY <1>2 DEF absorbed
  <2>2. \A i \in 1 .. Len(lh) : lh[i] # b
    BY <1>2 DEF Sectors
  <2>3. /\ Append(lh, b) \in Seq(Blocks) /\ Len(Append(lh, b)) = Len(lh) + 1
        /\ Append(lh, b)[Len(lh) + 1] = b
        /\ \A i \in 1 .. Len(lh) : Append(lh, b)[i] = lh[i]
    OBVIOUS
  <2>4. Distinct(Append(lh, b))
    BY <2>2, <2>3 DEF Distinct
  <2> QED
    BY <2>1, <2>3, <2>4
<1> QED
  BY <1>1, <1>2

\* log_write under the lock: the block is in the transaction and pinned.
LEMMA LogAbsorbStep ==
    ASSUME IInv, NEW p \in Procs, log_absorb(p)
    PROVE  IInv'
<1>0. /\ TypeOK /\ ProcInv /\ CacheInv /\ PhaseInv /\ NoLostWakeup /\ LogSpace
      /\ Distinct(lh) /\ Distinct(dhead) /\ Len(dhead) <= LOGSIZE
  BY DEF IInv
<1>a. /\ UNCHANGED <<disk, dlog, dhead, cache, outstanding, committing, phase, tail, up, panicked>>
      /\ lh' = absorbed(blk[p])
      /\ dirty' = dirty \cup {blk[p]}
      /\ used' = [used EXCEPT ![p] = @ + 1]
      /\ pc' = [pc EXCEPT ![p] = "op"]
      /\ blk' = [blk EXCEPT ![p] = None]
      /\ pc[p] = "log_write"
  BY DEF log_absorb, pinned
<1>b. blk[p] \in Blocks /\ used[p] < MAXOPBLOCKS /\ lh \in Seq(Blocks)
  BY <1>0, <1>a DEF TypeOK, ProcInv
<1>c. /\ lh' \in Seq(Blocks) /\ Distinct(lh')
      /\ Len(lh') \in {Len(lh), Len(lh) + 1}
      /\ \E i \in 1 .. Len(lh') : lh'[i] = blk[p]
      /\ \A i \in 1 .. Len(lh) : i \in 1 .. Len(lh') /\ lh'[i] = lh[i]
      /\ lh' # <<>>
  BY ZenonT(100), <1>0, <1>a, <1>b, Absorb
<1>1. pc'[p] = "op" /\ \A q \in Procs : q # p => pc'[q] = pc[q]
  BY <1>0, <1>a DEF TypeOK
<1>2. \A q \in Procs : InOp(q)' <=> InOp(q)
  BY <1>1, <1>a DEF InOp
<1>3. Active' = Active /\ p \in Active
  BY <1>2, <1>a, SameActive DEF Active, InOp
<1>4. TypeOK'
  <2>1. /\ pc' \in [Procs -> {"idle", "begin", "sleep", "op", "log_write", "commit"}]
        /\ blk' \in [Procs -> Blocks \cup {None}] /\ used' \in [Procs -> Nat]
        /\ dirty' \subseteq Blocks
    BY <1>0, <1>a, <1>b DEF TypeOK
  <2> QED
    BY ZenonT(100), <1>0, <1>a, <1>c, <2>1 DEF TypeOK
<1>5. blk'[p] = None /\ \A q \in Procs : q # p => blk'[q] = blk[q] /\ used'[q] = used[q]
  BY <1>0, <1>a DEF TypeOK
<1>6. ProcInv'
  BY <1>0, <1>1, <1>3, <1>5, <1>a DEF ProcInv
<1>7. CacheInv'
  <2>1. \A c \in Blocks : Held(c) => Held(c)' \/ c = blk[p]
    BY SMTT(30), <1>5 DEF Held
  <2>2. \A c \in Blocks : cache'[c] \in {None, disk'[c]} \/ c \in dirty' \/ Held(c)'
    BY <1>0, <1>a, <2>1 DEF CacheInv
  <2>3. \A c \in dirty' : \E i \in 1 .. Len(lh') : lh'[i] = c
    BY <1>0, <1>a, <1>c DEF CacheInv
  <2> QED
    BY <2>2, <2>3 DEF CacheInv
<1>8. phase = "none"
  BY <1>0, <1>3 DEF PhaseInv
<1>9. PhaseInv'
  BY SMTT(30), <1>0, <1>3, <1>8, <1>a DEF PhaseInv
<1>10. NoLostWakeup'
  <2>1. mustwait => mustwait'
    BY SMTT(30), <1>0, <1>a, <1>b, <1>c, ConstAssumption DEF mustwait, TypeOK
  <2> QED
    BY SMTT(30), <1>0, <1>1, <2>1 DEF NoLostWakeup
<1>11. LogSpace'
  <2> DEFINE r == <<p, used[p] + 1>>
  <2>1. r \in Reserved
    BY <1>0, <1>a, <1>b, ConstAssumption DEF Reserved, InOp, TypeOK
  <2>2. Reserved' = Reserved \ {r}
    <3>1. used'[p] = used[p] + 1 /\ used[p] \in Nat
      BY <1>0, <1>a DEF TypeOK
    <3> QED
      BY <1>2, <1>5, <3>1, ConstAssumption DEF Reserved
  <2>3. Cardinality(Reserved \ {r}) = Cardinality(Reserved) - 1
    BY ZenonT(100), <2>1, ReservedFinite, FS_RemoveElement
  <2>4. Cardinality(Reserved) \in Nat
    BY ReservedFinite, FS_CardinalityType
  <2> QED
    BY SMTT(30), <1>0, <1>b, <1>c, <2>2, <2>3, <2>4, ConstAssumption DEF LogSpace
<1>12. Distinct(lh)' /\ Distinct(dhead)' /\ (Len(dhead) <= LOGSIZE)'
  BY <1>0, <1>a, <1>c DEF Distinct
<1> QED
  BY ZenonT(100), <1>4, <1>6, <1>7, <1>9, <1>10, <1>11, <1>12 DEF IInv

\* The reserved places shrink when an operation ends.
LEMMA EndSpace ==
    ASSUME LogSpace, lh' = lh, lh \in Seq(Blocks), used' = used, \A q \in Procs : InOp(q)' => InOp(q)
    PROVE  LogSpace'
<1>1. Reserved' \subseteq Reserved
  BY DEF Reserved
<1>2. /\ IsFiniteSet(Reserved') /\ Cardinality(Reserved') <= Cardinality(Reserved)
      /\ Cardinality(Reserved) \in Nat /\ Cardinality(Reserved') \in Nat
  BY <1>1, ReservedFinite, FS_Subset, FS_CardinalityType
<1> QED
  BY <1>2, ConstAssumption DEF LogSpace

\* end_op while others run, or the one that starts the commit.
LEMMA EndStep ==
    ASSUME IInv, NEW p \in Procs, end_op(p)
    PROVE  IInv'
<1>0. /\ TypeOK /\ ProcInv /\ CacheInv /\ PhaseInv /\ NoLostWakeup /\ LogSpace
      /\ Distinct(lh) /\ Distinct(dhead) /\ Len(dhead) <= LOGSIZE
  BY DEF IInv
<1>b. pc[p] = "op" /\ p \in Active /\ ~ committing /\ phase = "none" /\ up
  BY <1>0 DEF end_op, Active, InOp, ProcInv, PhaseInv
<1>a. /\ UNCHANGED <<disk, dlog, dhead, cache, dirty, lh, blk, used, up, panicked>>
      /\ outstanding' = outstanding - 1
      /\ endop_others(p) \/ endop_last(p)
  BY <1>b DEF end_op, oneless
<1>1. \A q \in Procs : pc'[q] = "sleep" => pc[q] = "sleep" /\ outstanding = 1
  BY ZenonT(100), <1>0, <1>a DEF endop_others, endop_last, wokenby, TypeOK
<1>2. /\ \A q \in Procs : InOp(q)' <=> InOp(q) /\ q # p
      /\ \A q \in Procs : pc[q] = "log_write" => pc'[q] = "log_write"
      /\ \A q \in Procs : pc'[q] = "log_write" => pc[q] = "log_write"
  BY ZenonT(100), <1>0, <1>a, <1>b DEF InOp, endop_others, endop_last, wokenby, TypeOK
<1>3. Active' = Active \ {p}
  BY <1>2 DEF Active
<1>4. /\ outstanding \in Nat \ {0} /\ outstanding' = Cardinality(Active')
      /\ outstanding = 1 => Active' = {}
      /\ outstanding # 1 => Active' # {}
  <2>1. Cardinality(Active \ {p}) = Cardinality(Active) - 1 /\ IsFiniteSet(Active \ {p})
    BY <1>b, ActiveFinite, FS_RemoveElement
  <2>2. Cardinality(Active) = outstanding /\ outstanding \in Nat
    BY <1>0 DEF ProcInv, TypeOK
  <2>3. Cardinality(Active) # 0
    BY <1>b, ActiveFinite, FS_EmptySet
  <2>4. Cardinality(Active \ {p}) = 0 <=> Active \ {p} = {}
    BY ZenonT(100), <2>1, FS_EmptySet
  <2> QED
    BY <1>3, <1>a, <2>1, <2>2, <2>3, <2>4
<1>5. TypeOK'
  <2>1. outstanding' \in Nat
    BY <1>4, <1>a
  <2>2. pc' \in [Procs -> {"idle", "begin", "sleep", "op", "log_write", "commit"}]
    BY ZenonT(100), <1>0, <1>a DEF TypeOK, endop_others, endop_last, wokenby
  <2>3. committing' \in BOOLEAN
    BY ZenonT(100), <1>0, <1>a DEF TypeOK, endop_others, endop_last
  <2>4. /\ phase' \in {"none", "write_log", "write_head", "install_trans", "erase",
                       "done", "read_head"}
        /\ tail' \in Nat \ {0}
    BY <1>0, <1>a DEF TypeOK, endop_others, endop_last
  <2> QED
    BY ZenonT(100), <1>0, <1>a, <2>1, <2>2, <2>3, <2>4 DEF TypeOK
<1>6. ProcInv'
  <2>1. \A q \in Procs : pc[q] # "commit"
    BY <1>0, <1>b DEF ProcInv
  <2>2. \A q \in Procs : pc'[q] = "commit" => committing' /\ q = p
    BY <1>0, <1>a, <2>1 DEF endop_others, endop_last, wokenby, TypeOK
  <2>3. committing' => Active' = {}
    BY ZenonT(100), <1>4, <1>a, <1>b DEF endop_others, endop_last
  <2> QED
    BY <1>0, <1>2, <1>4, <1>a, <1>b, <2>2, <2>3 DEF ProcInv
<1>7. CacheInv'
  BY <1>0, <1>a DEF CacheInv, Held
<1>8. PhaseInv'
  <2>1. CASE endop_others(p)
    BY <1>0, <1>4, <1>a, <1>b, <2>1 DEF PhaseInv, endop_others
  <2>2. CASE endop_last(p) /\ Len(lh) > 0
    <3>1. LoggedTo(1)'
      BY DEF LoggedTo
    <3>2. Active' = {} /\ phase' = "write_log" /\ tail' = 1 /\ committing' /\ up /\ dhead = <<>>
      BY <1>0, <1>4, <1>b, <2>2 DEF endop_last, PhaseInv
    <3>3. tail' <= Len(lh')
      BY <1>0, <1>a, <2>2, <3>2 DEF TypeOK
    <3> QED
      BY <1>a, <3>1, <3>2, <3>3 DEF PhaseInv
  <2>3. CASE endop_last(p) /\ ~ (Len(lh) > 0)
    <3>1. Active' = {} /\ phase' = "done" /\ committing' /\ up /\ dhead = <<>>
      BY <1>0, <1>4, <1>b, <2>3 DEF endop_last, PhaseInv
    <3>2. lh = <<>> /\ dirty = {}
      BY <1>0, <2>3 DEF CacheInv, TypeOK
    <3> QED
      BY <1>a, <3>1, <3>2 DEF PhaseInv
  <2> QED
    BY <1>a, <2>1, <2>2, <2>3
<1>9. NoLostWakeup'
  BY <1>0, <1>1, <1>a DEF NoLostWakeup, mustwait, endop_others, endop_last
<1>10. LogSpace'
  BY <1>0, <1>2, <1>a, EndSpace DEF TypeOK
<1>11. Distinct(lh)' /\ Distinct(dhead)' /\ (Len(dhead) <= LOGSIZE)'
  BY <1>0, <1>a DEF Distinct
<1> QED
  BY ZenonT(100), <1>5, <1>6, <1>7, <1>8, <1>9, <1>10, <1>11 DEF IInv

-----------------------------------------------------------------------------
(* Commit and recovery                                                     *)

\* A step of commit or of recovery moves no process.
LEMMA QuietStep ==
    ASSUME ProcInv, NoLostWakeup, LogSpace, lh' = lh, up' = up,
           UNCHANGED <<outstanding, committing, pc, blk, used>>
    PROVE  /\ ProcInv' /\ NoLostWakeup' /\ LogSpace' /\ Active' = Active
           /\ \A b : Held(b)' <=> Held(b)
<1>1. \A q \in Procs : InOp(q)' <=> InOp(q)
  BY DEF InOp
<1>2. Active' = Active
  BY <1>1, SameActive
<1>3. ProcInv'
  BY <1>2 DEF ProcInv
<1>4. NoLostWakeup'
  BY DEF NoLostWakeup, mustwait
<1>5. LogSpace'
  BY <1>1, SameSpace
<1>6. \A b : Held(b)' <=> Held(b)
  BY DEF Held
<1> QED
  BY <1>2, <1>3, <1>4, <1>5, <1>6

\* The transaction fits in the log, so each of its blocks has a log block.
LEMMA ListFits ==
    ASSUME IInv
    PROVE  /\ lh \in Seq(Blocks) /\ Len(lh) \in Nat /\ Len(lh) <= LOGSIZE
           /\ \A i \in 1 .. Len(lh) : i \in 1 .. LOGSIZE /\ lh[i] \in Blocks /\ dlog[i] \in Values
<1>0. TypeOK /\ LogSpace
  BY DEF IInv
<1>1. Cardinality(Reserved) \in Nat
  BY ReservedFinite, FS_CardinalityType
<1>2. lh \in Seq(Blocks) /\ Len(lh) \in Nat /\ dlog \in [1 .. LOGSIZE -> Values]
  BY <1>0 DEF TypeOK
<1>3. Len(lh) <= LOGSIZE
  BY <1>0, <1>1, <1>2, ConstAssumption DEF LogSpace
<1> QED
  BY <1>2, <1>3, ConstAssumption

\* During commit and recovery no buffer is held.
LEMMA NoneHeld ==
    ASSUME ProcInv, Active = {}
    PROVE  \A b \in Blocks : ~ Held(b)
  BY ConstAssumption DEF ProcInv, Active, InOp, Held

\* write_log copies a block of the transaction into the log.
LEMMA WriteLogStep ==
    ASSUME IInv, write_log
    PROVE  IInv'
<1>0. /\ TypeOK /\ ProcInv /\ CacheInv /\ PhaseInv /\ NoLostWakeup /\ LogSpace
      /\ Distinct(lh) /\ Distinct(dhead) /\ Len(dhead) <= LOGSIZE
  BY DEF IInv
<1>a. /\ UNCHANGED <<disk, dhead, dirty, lh, outstanding, committing, pc, blk, used, up, panicked>>
      /\ phase = "write_log" /\ dlog' = [dlog EXCEPT ![tail] = contents(lh[tail])]
      /\ cache' = [cache EXCEPT ![lh[tail]] = contents(lh[tail])]
  BY DEF write_log
<1>b. /\ lh \in Seq(Blocks) /\ Len(lh) \in Nat /\ Len(lh) <= LOGSIZE
      /\ \A i \in 1 .. Len(lh) : i \in 1 .. LOGSIZE /\ lh[i] \in Blocks
  BY ListFits
<1>c. tail \in 1 .. Len(lh) /\ LoggedTo(tail) /\ up /\ committing /\ dhead = <<>> /\ Active = {}
  BY <1>0, <1>a, <1>b DEF PhaseInv, TypeOK
<1>d. contents(lh[tail]) \in Values /\ contents(lh[tail]) # None
  BY <1>0, <1>b, <1>c, ConstAssumption DEF TypeOK, contents
<1>1. ProcInv' /\ NoLostWakeup' /\ LogSpace' /\ Active' = Active /\ \A b : Held(b)' <=> Held(b)
  BY <1>0, <1>a, QuietStep
<1>2. \A b \in Blocks : contents(b)' = contents(b)
  BY <1>0, <1>a, <1>b, <1>c, <1>d DEF TypeOK, contents
<1>3. \A i \in 1 .. Len(lh) : i <= tail => dlog'[i] = contents(lh[i])'
  <2>1. dlog'[tail] = contents(lh[tail])
    BY <1>0, <1>a, <1>b, <1>c DEF TypeOK
  <2>2. \A i \in 1 .. Len(lh) : i # tail => dlog'[i] = dlog[i]
    BY <1>0, <1>a, <1>b, <1>c DEF TypeOK
  <2> QED
    BY <1>2, <1>a, <1>b, <1>c, <2>1, <2>2 DEF LoggedTo
<1>4. TypeOK'
  <2>1. dlog' \in [1 .. LOGSIZE -> Values] /\ cache' \in [Blocks -> Values \cup {None}]
    BY SMTT(30), <1>0, <1>a, <1>b, <1>c, <1>d DEF TypeOK
  <2>2. /\ phase' \in {"none", "write_log", "write_head", "install_trans", "erase",
                       "done", "read_head"}
        /\ tail' \in Nat \ {0}
    BY <1>0, <1>a, <1>c DEF TypeOK, write_log
  <2> QED
    BY ZenonT(100), <1>0, <1>a, <2>1, <2>2 DEF TypeOK
<1>5. CacheInv'
  <2>1. \A b \in Blocks : b # lh[tail] => cache'[b] = cache[b]
    BY <1>0, <1>a, <1>b, <1>c DEF TypeOK
  <2>2. lh[tail] \in Blocks /\ cache'[lh[tail]] \in {cache[lh[tail]], disk[lh[tail]]}
    BY <1>0, <1>a, <1>b, <1>c DEF TypeOK, contents
  <2> QED
    BY <1>0, <1>1, <1>a, <2>1, <2>2 DEF CacheInv
<1>6. PhaseInv'
  <2>1. CASE tail < Len(lh)
    <3>1. tail' = tail + 1 /\ phase' = "write_log"
      BY <1>a, <2>1 DEF write_log
    <3>2. tail' <= Len(lh')
      BY <1>a, <1>b, <1>c, <2>1, <3>1
    <3>3. LoggedTo(tail)'
      BY <1>3, <1>a, <1>b, <1>c, <3>1 DEF LoggedTo
    <3> QED
      BY <1>1, <1>a, <1>c, <3>1, <3>2, <3>3 DEF PhaseInv
  <2>2. CASE ~ (tail < Len(lh))
    <3>1. tail' = 1 /\ phase' = "write_head"
      BY <1>a, <2>2 DEF write_log
    <3>2. LoggedTo(Len(lh) + 1)' /\ lh # <<>>
      BY <1>3, <1>a, <1>b, <1>c, <2>2 DEF LoggedTo
    <3> QED
      BY <1>1, <1>a, <1>c, <3>1, <3>2 DEF PhaseInv
  <2> QED
    BY <2>1, <2>2
<1>7. Distinct(lh)' /\ Distinct(dhead)' /\ (Len(dhead) <= LOGSIZE)'
  BY <1>0, <1>a DEF Distinct
<1> QED
  BY ZenonT(100), <1>1, <1>4, <1>5, <1>6, <1>7 DEF IInv

\* write_head, the commit point.
LEMMA WriteHeadStep ==
    ASSUME IInv, write_head
    PROVE  IInv'
<1>0. /\ TypeOK /\ ProcInv /\ CacheInv /\ PhaseInv /\ NoLostWakeup /\ LogSpace
      /\ Distinct(lh) /\ Distinct(dhead) /\ Len(dhead) <= LOGSIZE
  BY DEF IInv
<1>a. /\ UNCHANGED <<disk, dlog, cache, dirty, lh, outstanding, committing, pc, blk, used, tail, up, panicked>>
      /\ dhead' = lh /\ phase = "write_head" /\ phase' = "install_trans"
  BY DEF write_head
<1>b. lh \in Seq(Blocks) /\ Len(lh) \in Nat /\ Len(lh) <= LOGSIZE
  BY ListFits
<1>c. tail = 1 /\ lh # <<>> /\ LoggedTo(Len(lh) + 1) /\ up /\ committing /\ Active = {}
  BY <1>0, <1>a DEF PhaseInv
<1>1. ProcInv' /\ NoLostWakeup' /\ LogSpace' /\ Active' = Active /\ \A b : Held(b)' <=> Held(b)
  BY <1>0, <1>a, QuietStep
<1>2. TypeOK'
  BY ZenonT(100), <1>0, <1>a, <1>b DEF TypeOK
<1>3. CacheInv'
  BY <1>0, <1>1, <1>a DEF CacheInv
<1>4. PhaseInv'
  <2>1. tail <= Len(lh)
    BY <1>b, <1>c
  <2>2. InstalledTo(tail)' /\ \A i \in 1 .. Len(lh) : ~ (i < tail)
    BY <1>a, <1>b, <1>c DEF InstalledTo
  <2>3. LoggedTo(Len(lh) + 1)'
    BY <1>a, <1>c DEF LoggedTo, contents
  <2> QED
    BY <1>1, <1>a, <1>c, <2>1, <2>2, <2>3 DEF PhaseInv
<1>5. Distinct(lh)' /\ Distinct(dhead)' /\ (Len(dhead) <= LOGSIZE)'
  BY SMTT(30), <1>0, <1>a, <1>b DEF Distinct
<1> QED
  BY ZenonT(100), <1>1, <1>2, <1>3, <1>4, <1>5 DEF IInv

\* install_trans copies a log block to its home, in commit or in recovery.
LEMMA InstallStep ==
    ASSUME IInv, install_trans
    PROVE  IInv'
<1>0. /\ TypeOK /\ ProcInv /\ CacheInv /\ PhaseInv /\ NoLostWakeup /\ LogSpace
      /\ Distinct(lh) /\ Distinct(dhead) /\ Len(dhead) <= LOGSIZE
  BY DEF IInv
<1>a. /\ UNCHANGED <<dlog, dhead, lh, outstanding, committing, pc, blk, used, up, panicked>>
      /\ phase = "install_trans" /\ dirty' = dirty \ {lh[tail]}
      /\ disk' = [disk EXCEPT ![lh[tail]] = dlog[tail]]
      /\ cache' = [cache EXCEPT ![lh[tail]] = dlog[tail]]
  BY DEF install_trans
<1>b. /\ lh \in Seq(Blocks) /\ Len(lh) \in Nat
      /\ \A i \in 1 .. Len(lh) : lh[i] \in Blocks /\ dlog[i] \in Values
  BY ListFits
<1>c. /\ tail \in 1 .. Len(lh) /\ InstalledTo(tail) /\ Active = {} /\ dhead = lh
      /\ \A i \in 1 .. Len(lh) : i < tail => lh[i] \notin dirty
      /\ up => committing /\ LoggedTo(Len(lh) + 1)
      /\ ~ up => ~ committing /\ dirty = {}
  BY SMTT(30), <1>0, <1>a, <1>b DEF PhaseInv, TypeOK
<1>d. /\ disk'[lh[tail]] = dlog[tail] /\ cache'[lh[tail]] = dlog[tail] /\ dlog[tail] # None
      /\ \A b \in Blocks : b # lh[tail] => disk'[b] = disk[b] /\ cache'[b] = cache[b]
  BY <1>0, <1>a, <1>b, <1>c, ConstAssumption DEF TypeOK
<1>e. \A i \in 1 .. Len(lh) : i # tail => lh[i] # lh[tail]
  BY <1>0, <1>c DEF Distinct
<1>1. ProcInv' /\ NoLostWakeup' /\ LogSpace' /\ Active' = Active /\ \A b : Held(b)' <=> Held(b)
  BY <1>0, <1>a, QuietStep
<1>2. TypeOK'
  <2>1. /\ disk' \in [Blocks -> Values] /\ cache' \in [Blocks -> Values \cup {None}]
        /\ dirty' \subseteq Blocks
    BY <1>0, <1>a, <1>b, <1>c DEF TypeOK
  <2>2. /\ phase' \in {"none", "write_log", "write_head", "install_trans", "erase",
                       "done", "read_head"}
        /\ tail' \in Nat \ {0}
    BY <1>0, <1>a, <1>c DEF TypeOK, install_trans
  <2> QED
    BY ZenonT(100), <1>0, <1>a, <2>1, <2>2 DEF TypeOK
<1>3. CacheInv'
  BY <1>0, <1>1, <1>a, <1>d DEF CacheInv
<1>4. \A i \in 1 .. Len(lh) : i <= tail => disk'[lh[i]] = dlog[i] /\ lh[i] \notin dirty'
  BY <1>a, <1>b, <1>c, <1>d, <1>e DEF InstalledTo
<1>5. up => LoggedTo(Len(lh) + 1)'
  <2> SUFFICES ASSUME up, NEW i \in 1 .. Len(lh) PROVE dlog[i] = contents(lh[i])'
    BY <1>a, <1>b DEF LoggedTo
  <2>1. dlog[i] = contents(lh[i])
    BY <1>b, <1>c DEF LoggedTo
  <2>2. CASE i = tail
    BY <1>d, <1>a, <2>2 DEF contents
  <2>3. CASE i # tail
    BY <1>a, <1>b, <1>d, <1>e, <2>1, <2>3 DEF contents
  <2> QED
    BY <2>2, <2>3
<1>6. PhaseInv'
  <2>1. CASE tail < Len(lh)
    <3>1. tail' = tail + 1 /\ phase' = "install_trans"
      BY <1>a, <2>1 DEF install_trans
    <3>2. tail' <= Len(lh') /\ InstalledTo(tail)' /\ \A i \in 1 .. Len(lh) : i < tail' => lh[i] \notin dirty'
      BY <1>4, <1>a, <1>b, <1>c, <2>1, <3>1 DEF InstalledTo
    <3> QED
      BY <1>1, <1>5, <1>a, <1>c, <3>1, <3>2 DEF PhaseInv
  <2>2. CASE ~ (tail < Len(lh))
    <3>1. tail' = 1 /\ phase' = "erase"
      BY <1>a, <2>2 DEF install_trans
    <3>2. \A i \in 1 .. Len(lh) : i <= tail
      BY <1>b, <1>c, <2>2
    <3>3. InstalledTo(Len(lh) + 1)' /\ dirty' = {}
      BY <1>0, <1>4, <1>a, <3>2 DEF InstalledTo, CacheInv
    <3> QED
      BY <1>1, <1>5, <1>a, <1>c, <3>1, <3>3 DEF PhaseInv
  <2> QED
    BY <2>1, <2>2
<1>7. Distinct(lh)' /\ Distinct(dhead)' /\ (Len(dhead) <= LOGSIZE)'
  BY <1>0, <1>a DEF Distinct
<1> QED
  BY ZenonT(100), <1>1, <1>2, <1>3, <1>6, <1>7 DEF IInv

\* The header is erased, which ends recovery.
LEMMA EraseStep ==
    ASSUME IInv, erase
    PROVE  IInv'
<1>0. /\ TypeOK /\ ProcInv /\ CacheInv /\ PhaseInv /\ NoLostWakeup /\ LogSpace
      /\ Distinct(lh) /\ Distinct(dhead) /\ Len(dhead) <= LOGSIZE
  BY DEF IInv
<1>a. /\ UNCHANGED <<disk, dlog, cache, dirty, outstanding, committing, pc, blk, used, tail, panicked>>
      /\ phase = "erase" /\ lh' = <<>> /\ dhead' = <<>> /\ up' = TRUE
      /\ phase' = IF up THEN "done" ELSE "none"
  BY DEF erase
<1>b. Active = {} /\ dirty = {} /\ (up => committing) /\ (~ up => ~ committing)
  BY <1>0, <1>a DEF PhaseInv
<1>c. \A q \in Procs : InOp(q)' <=> InOp(q)
  BY <1>a DEF InOp
<1>1. Active' = Active
  BY <1>c, SameActive
<1>2. TypeOK'
  <2>1. /\ phase' \in {"none", "write_log", "write_head", "install_trans", "erase",
                       "done", "read_head"}
        /\ lh' \in Seq(Blocks) /\ dhead' \in Seq(Blocks)
    BY <1>a
  <2> QED
    BY ZenonT(100), <1>0, <1>a, <2>1 DEF TypeOK
<1>3. ProcInv'
  BY <1>0, <1>1, <1>a DEF ProcInv
<1>4. CacheInv'
  BY <1>0, <1>a, <1>b DEF CacheInv, Held
<1>5. PhaseInv'
  BY SMTT(30), <1>0, <1>1, <1>a, <1>b DEF PhaseInv
<1>6. NoLostWakeup'
  BY <1>0, <1>a, <1>b DEF NoLostWakeup, mustwait, ProcInv
<1>7. LogSpace'
  <2>1. Reserved' = {}
    BY <1>1, <1>b DEF Reserved, Active
  <2> QED
    BY <1>a, <2>1, FS_EmptySet, ConstAssumption DEF LogSpace
<1>8. Distinct(lh)' /\ Distinct(dhead)' /\ (Len(dhead) <= LOGSIZE)'
  BY SMTT(30), <1>a, ConstAssumption DEF Distinct
<1> QED
  BY ZenonT(100), <1>2, <1>3, <1>4, <1>5, <1>6, <1>7, <1>8 DEF IInv

\* The end of end_op after a commit.
LEMMA CommittedStep ==
    ASSUME IInv, NEW p \in Procs, committed(p)
    PROVE  IInv'
<1>0. /\ TypeOK /\ ProcInv /\ CacheInv /\ PhaseInv /\ NoLostWakeup /\ LogSpace
      /\ Distinct(lh) /\ Distinct(dhead) /\ Len(dhead) <= LOGSIZE
  BY DEF IInv
<1>a. /\ UNCHANGED <<disk, dlog, dhead, cache, dirty, lh, outstanding, blk, used, tail, up, panicked>>
      /\ phase = "done" /\ pc[p] = "commit" /\ committing' = FALSE /\ phase' = "none"
      /\ pc' = wokenby(p)
  BY DEF committed
<1>b. Active = {} /\ lh = <<>> /\ dirty = {} /\ up /\ dhead = <<>>
  BY <1>0, <1>a DEF PhaseInv
<1>c. pc'[p] = "idle" /\ \A q \in Procs : q # p => pc'[q] = IF pc[q] = "sleep" THEN "begin" ELSE pc[q]
  BY <1>a DEF wokenby
<1>d. \A q \in Procs : InOp(q)' <=> InOp(q)
  BY <1>a, <1>c DEF InOp
<1>1. Active' = Active
  BY <1>d, SameActive
<1>2. TypeOK'
  <2>1. pc' \in [Procs -> {"idle", "begin", "sleep", "op", "log_write", "commit"}]
    BY SMTT(30), <1>0, <1>a DEF TypeOK, wokenby
  <2> QED
    BY ZenonT(100), <1>0, <1>a, <2>1 DEF TypeOK
<1>3. ProcInv'
  <2>1. \A q \in Procs : pc'[q] # "commit"
    <3>1. \A q \in Procs : q # p => pc[q] # "commit"
      BY <1>0, <1>a DEF ProcInv
    <3> QED
      BY <1>c, <3>1
  <2>2. /\ (outstanding = Cardinality(Active))' /\ Active' = {} /\ up'
        /\ \A q \in Procs : blk'[q] = blk[q] /\ used'[q] = used[q]
    BY <1>0, <1>1, <1>a, <1>b DEF ProcInv
  <2>3. \A q \in Procs : /\ blk'[q] # None => pc'[q] = "log_write"
                         /\ pc'[q] = "log_write" => blk'[q] # None /\ used'[q] < MAXOPBLOCKS
    <3>1. \A q \in Procs : /\ blk[q] # None => pc[q] = "log_write"
                           /\ pc[q] = "log_write" => blk[q] # None /\ used[q] < MAXOPBLOCKS
      BY <1>0 DEF ProcInv
    <3>2. \A q \in Procs : pc'[q] = "log_write" <=> pc[q] = "log_write"
      BY <1>a, <1>c
    <3> QED
      BY <2>2, <3>1, <3>2
  <2> QED
    BY SMTT(30), <2>1, <2>2, <2>3 DEF ProcInv
<1>4. CacheInv'
  BY ZenonT(100), <1>0, <1>a DEF CacheInv, Held
<1>5. PhaseInv'
  BY <1>1, <1>a, <1>b DEF PhaseInv
<1>6. NoLostWakeup'
  BY <1>a, <1>c DEF NoLostWakeup
<1>7. LogSpace'
  BY <1>0, <1>a, <1>d, SameSpace
<1>8. Distinct(lh)' /\ Distinct(dhead)' /\ (Len(dhead) <= LOGSIZE)'
  BY SMTT(30), <1>0, <1>a DEF Distinct
<1> QED
  BY ZenonT(100), <1>2, <1>3, <1>4, <1>5, <1>6, <1>7, <1>8 DEF IInv

\* Recovery reads the header.
LEMMA ReadHeadStep ==
    ASSUME IInv, read_head
    PROVE  IInv'
<1>0. /\ TypeOK /\ ProcInv /\ CacheInv /\ PhaseInv /\ NoLostWakeup /\ LogSpace
      /\ Distinct(lh) /\ Distinct(dhead) /\ Len(dhead) <= LOGSIZE
  BY DEF IInv
<1>a. /\ UNCHANGED <<disk, dlog, dhead, cache, dirty, outstanding, committing, pc, blk, used, up, panicked>>
      /\ phase = "read_head" /\ lh' = dhead /\ tail' = 1
      /\ phase' = IF Len(dhead) > 0 THEN "install_trans" ELSE "erase"
  BY DEF read_head
<1>b. Active = {} /\ dirty = {} /\ ~ up /\ ~ committing /\ \A q \in Procs : pc[q] = "idle"
  BY <1>0, <1>a DEF PhaseInv, ProcInv
<1>c. \A q \in Procs : InOp(q)' <=> InOp(q)
  BY <1>a DEF InOp
<1>1. Active' = Active
  BY <1>c, SameActive
<1>2. TypeOK'
  <2>1. /\ phase' \in {"none", "write_log", "write_head", "install_trans", "erase",
                       "done", "read_head"}
        /\ lh' \in Seq(Blocks) /\ tail' \in Nat \ {0}
    BY <1>0, <1>a DEF TypeOK
  <2> QED
    BY ZenonT(100), <1>0, <1>a, <2>1 DEF TypeOK
<1>3. ProcInv'
  BY ZenonT(100), <1>0, <1>1, <1>a DEF ProcInv
<1>4. CacheInv'
  BY <1>0, <1>a, <1>b DEF CacheInv, Held
<1>5. PhaseInv'
  <2>1. dhead \in Seq(Blocks) /\ Len(dhead) \in Nat
    BY <1>0 DEF TypeOK
  <2>2. CASE Len(dhead) > 0
    <3>1. InstalledTo(tail)' /\ tail' <= Len(lh') /\ phase' = "install_trans"
      BY <1>a, <2>1, <2>2 DEF InstalledTo
    <3> QED
      BY <1>1, <1>a, <1>b, <3>1 DEF PhaseInv
  <2>3. CASE ~ (Len(dhead) > 0)
    <3>1. InstalledTo(Len(lh) + 1)' /\ phase' = "erase"
      BY <1>a, <2>1, <2>3 DEF InstalledTo
    <3> QED
      BY <1>1, <1>a, <1>b, <3>1 DEF PhaseInv
  <2> QED
    BY <2>2, <2>3
<1>6. NoLostWakeup'
  BY <1>a, <1>b DEF NoLostWakeup
<1>7. LogSpace'
  <2>1. Reserved' = {}
    BY <1>1, <1>b DEF Reserved, Active
  <2> QED
    BY <1>0, <1>a, <2>1, FS_EmptySet, ConstAssumption DEF LogSpace, TypeOK
<1>8. Distinct(lh)' /\ Distinct(dhead)' /\ (Len(dhead) <= LOGSIZE)'
  BY <1>0, <1>a DEF Distinct
<1> QED
  BY ZenonT(100), <1>2, <1>3, <1>4, <1>5, <1>6, <1>7, <1>8 DEF IInv

\* The cache drops a clean buffer, or reads one: bread returns the same.
LEMMA BufferStep ==
    ASSUME IInv, NEW b \in Blocks, bget(b) \/ bread(b)
    PROVE  IInv' /\ \A c \in Blocks : contents(c)' = contents(c)
<1>0. /\ TypeOK /\ ProcInv /\ CacheInv /\ PhaseInv /\ NoLostWakeup /\ LogSpace
      /\ Distinct(lh) /\ Distinct(dhead) /\ Len(dhead) <= LOGSIZE
  BY DEF IInv
<1>a. /\ UNCHANGED <<disk, dlog, dhead, dirty, lh, outstanding, committing, pc, blk, used, phase, tail, up, panicked>>
      /\ cache' = [cache EXCEPT ![b] = IF bget(b) THEN None ELSE disk[b]]
  BY SMTT(30) DEF bget, bread
<1>b. bget(b) => cache[b] = disk[b]
  BY <1>0 DEF bget, evictable, CacheInv, Held
<1>c. ~ bget(b) => cache[b] = None
  BY DEF bread
<1>1. ProcInv' /\ NoLostWakeup' /\ LogSpace' /\ Active' = Active /\ \A c : Held(c)' <=> Held(c)
  BY <1>0, <1>a, QuietStep
<1>2. /\ cache'[b] \in {None, disk[b]} /\ \A c \in Blocks : c # b => cache'[c] = cache[c]
      /\ cache' \in [Blocks -> Values \cup {None}]
  BY <1>0, <1>a DEF TypeOK
<1>3. \A c \in Blocks : contents(c)' = contents(c)
  <2>1. contents(b)' = contents(b)
    BY <1>2, <1>a, <1>b, <1>c DEF contents
  <2> QED
    BY <1>2, <1>a, <2>1 DEF contents
<1>4. TypeOK'
  BY ZenonT(100), <1>0, <1>2, <1>a DEF TypeOK
<1>5. CacheInv'
  BY <1>0, <1>1, <1>2, <1>a DEF CacheInv
<1>6. PhaseInv'
  BY <1>0, <1>1, <1>3, <1>a, SamePhase
<1>7. Distinct(lh)' /\ Distinct(dhead)' /\ (Len(dhead) <= LOGSIZE)'
  BY <1>0, <1>a DEF Distinct
<1> QED
  BY ZenonT(100), <1>1, <1>3, <1>4, <1>5, <1>6, <1>7 DEF IInv

\* A crash loses the memory and leaves the disk.
LEMMA CrashStep ==
    ASSUME IInv, crash
    PROVE  IInv'
<1>0. TypeOK /\ Distinct(dhead) /\ Len(dhead) <= LOGSIZE
  BY DEF IInv
<1>1. Active' = {} /\ Reserved' = {}
  BY DEF crash, Active, Reserved, InOp
<1>2. TypeOK'
  <2>1. lh' \in Seq(Blocks) /\ cache' \in [Blocks -> Values \cup {None}]
    BY DEF crash
  <2>2. /\ pc' \in [Procs -> {"idle", "begin", "sleep", "op", "log_write", "commit"}]
        /\ used' \in [Procs -> Nat] /\ blk' \in [Procs -> Blocks \cup {None}]
    BY DEF crash
  <2>3. outstanding' \in Nat /\ tail' \in Nat \ {0} /\ dirty' \subseteq Blocks
    BY DEF crash
  <2>4. committing' \in BOOLEAN /\ up' \in BOOLEAN /\ panicked' \in BOOLEAN
    BY ZenonT(100) DEF crash
  <2> QED
    BY ZenonT(100), <1>0, <2>1, <2>2, <2>3, <2>4 DEF crash, TypeOK
<1>3. ProcInv'
  BY <1>1, FS_EmptySet DEF crash, ProcInv
<1>4. CacheInv'
  BY DEF crash, CacheInv
<1>5. PhaseInv'
  BY <1>1 DEF crash, PhaseInv
<1>6. NoLostWakeup'
  BY DEF crash, NoLostWakeup
<1>7. LogSpace'
  BY <1>1, FS_EmptySet, ConstAssumption DEF crash, LogSpace
<1>8. Distinct(lh)' /\ Distinct(dhead)' /\ (Len(dhead) <= LOGSIZE)'
  BY <1>0 DEF crash, Distinct
<1> QED
  BY ZenonT(100), <1>2, <1>3, <1>4, <1>5, <1>6, <1>7, <1>8 DEF IInv

\* Every step keeps the inductive invariant.
LEMMA NextIInv == IInv /\ [Next]_vars => IInv'
<1> SUFFICES ASSUME IInv, [Next]_vars PROVE IInv'
  OBVIOUS
<1>1. CASE UNCHANGED vars
  <2>1. /\ lh' = lh /\ up' = up /\ UNCHANGED <<disk, dlog, dhead, cache, dirty, phase, tail, panicked>>
        /\ UNCHANGED <<outstanding, committing, pc, blk, used>>
    BY <1>1 DEF vars, mem
  <2>2. ProcInv' /\ NoLostWakeup' /\ LogSpace' /\ Active' = Active /\ \A b : Held(b)' <=> Held(b)
    BY <2>1, QuietStep DEF IInv
  <2>3. \A b \in Blocks : contents(b)' = contents(b)
    BY <2>1 DEF contents
  <2>4. PhaseInv'
    BY <2>1, <2>2, <2>3, SamePhase DEF IInv
  <2>5. TypeOK'
    BY ZenonT(100), <2>1 DEF IInv, TypeOK
  <2>6. CacheInv'
    BY <2>1, <2>2 DEF IInv, CacheInv
  <2> QED
    BY <2>1, <2>2, <2>4, <2>5, <2>6 DEF IInv, Distinct
<1>2. ASSUME NEW p \in Procs, begin_op(p) PROVE IInv'
  <2>1. CASE mustwait
    BY <1>2, <2>1, BeginSleepStep DEF begin_op
  <2>2. CASE ~ mustwait
    BY <1>2, <2>2, BeginStep
  <2> QED
    BY <2>1, <2>2
<1> QED
  BY ZenonT(100), <1>1, <1>2, KillStep, LogWriteStep, LogAbsorbStep, EndStep, CommittedStep,
     WriteLogStep, WriteHeadStep, InstallStep, EraseStep, ReadHeadStep, BufferStep, CrashStep
     DEF Next, Step

-----------------------------------------------------------------------------
(* The invariants                                                          *)

\* The inductive invariant holds in every reachable state of the log.
THEOREM Invariance == Spec => []IInv
  BY InitIInv, NextIInv, PTL DEF Spec

\* Type correctness of the log, its buffers and the disk.
THEOREM TypeCorrect == Spec => []TypeOK
<1>1. IInv => TypeOK
  BY DEF IInv
<1> QED
  BY <1>1, Invariance, PTL

\* begin_op sleeps only while it must: no wakeup of end_op is lost.
THEOREM NoWakeupLost == Spec => []NoLostWakeup
<1>1. IInv => NoLostWakeup
  BY DEF IInv
<1> QED
  BY <1>1, Invariance, PTL

\* The reservations of begin_op never exceed LOGSIZE.
THEOREM SpaceReserved == Spec => []LogSpace
<1>1. IInv => LogSpace
  BY DEF IInv
<1> QED
  BY <1>1, Invariance, PTL

\* What the disk has for the blocks of the header and for the others.
LEMMA RecoveredBlocks ==
    ASSUME TypeOK, Distinct(dhead)
    PROVE  /\ \A i \in 1 .. Len(dhead) : recovered[dhead[i]] = dlog[i]
           /\ \A b \in Blocks : b \notin Sectors(dhead) => recovered[b] = disk[b]
<1>1. ASSUME NEW i \in 1 .. Len(dhead) PROVE recovered[dhead[i]] = dlog[i]
  <2>1. dhead[i] \in Blocks /\ dhead[i] \in Sectors(dhead)
    BY DEF TypeOK, Sectors
  <2>2. \A j \in 1 .. Len(dhead) : dhead[j] = dhead[i] => j = i
    BY DEF Distinct
  <2>3. (CHOOSE j \in 1 .. Len(dhead) : dhead[j] = dhead[i]) = i
    BY <2>2
  <2> QED
    BY ZenonT(100), <2>1, <2>3 DEF recovered
<1>2. \A b \in Blocks : b \notin Sectors(dhead) => recovered[b] = disk[b]
  BY DEF recovered
<1> QED
  BY <1>1, <1>2

\* With an empty header, recovery changes nothing.
LEMMA RecoveredEmpty ==
    ASSUME dhead = <<>>
    PROVE  \A b \in Blocks : recovered[b] = disk[b]
<1>1. Sectors(dhead) = {}
  BY DEF Sectors
<1> QED
  BY <1>1 DEF recovered

\* When the log is idle, everything the operations wrote is on disk.
THEOREM DurableWhenIdle == Spec => []Durable
<1>1. IInv => Durable
  <2> SUFFICES ASSUME IInv, up, outstanding = 0, ~ committing, NEW b \in Blocks
               PROVE  recovered[b] = contents(b)
    BY DEF Durable
  <2>0. TypeOK /\ ProcInv /\ CacheInv /\ PhaseInv
    BY DEF IInv
  <2>1. phase = "none"
    BY <2>0, NoPhase
  <2>2. Active = {}
    BY <2>0, ActiveFinite, FS_EmptySet DEF ProcInv
  <2>3. dhead = <<>> /\ lh = <<>>
    BY <2>0, <2>1, <2>2 DEF PhaseInv
  <2>4. b \notin dirty /\ ~ Held(b)
    BY <2>0, <2>2, <2>3, NoneHeld DEF CacheInv
  <2>5. contents(b) = disk[b]
    BY <2>0, <2>4 DEF CacheInv, contents
  <2> QED
    BY <2>3, <2>5, RecoveredEmpty
<1> QED
  BY <1>1, Invariance, PTL

-----------------------------------------------------------------------------
(* The refinement                                                          *)

\* What AbsLog calls current.
Current == IF up THEN [b \in Blocks |-> contents(b)] ELSE recovered

\* A step that changes neither the recoverable blocks, nor the blocks bread
\* returns, nor the operations under way.
LEMMA Stutters ==
    ASSUME recovered' = recovered, Current' = Current, Active' = Active
    PROVE  [Abs!Next]_Abs!vars
  BY DEF Abs!vars, Current, Active

\* Current stays when bread returns the same.
LEMMA SameCurrent ==
    ASSUME up' = up, recovered' = recovered, \A b \in Blocks : contents(b)' = contents(b)
    PROVE  Current' = Current
  BY DEF Current

\* recovered depends on the disk only.
LEMMA SameRecovered ==
    ASSUME UNCHANGED <<disk, dlog, dhead>>
    PROVE  recovered' = recovered
  BY DEF recovered

\* Two states of the blocks are equal when they agree on every block.
LEMMA RecoveredEqual ==
    ASSUME \A b \in Blocks : recovered'[b] = recovered[b]
    PROVE  recovered' = recovered
<1>1. recovered = [b \in Blocks |-> recovered[b]] /\ recovered' = [b \in Blocks |-> recovered'[b]]
  BY DEF recovered
<1> QED
  BY <1>1

\* begin_op, end_op, committed and kill change no block.
LEMMA ControlSimulates ==
    ASSUME UNCHANGED <<disk, dlog, dhead, cache, up>>, NEW p \in Procs,
           Active' \in {Active, Active \cup {p}, Active \ {p}}
    PROVE  [Abs!Next]_Abs!vars
<1>1. recovered' = recovered
  BY SameRecovered
<1>2. \A b \in Blocks : contents(b)' = contents(b)
  BY DEF contents
<1>3. Current' = Current
  BY <1>1, <1>2, SameCurrent
<1>4. CASE Active' = Active
  BY <1>1, <1>3, <1>4, Stutters
<1>5. CASE Active' = Active \cup {p}
  <2>1. Abs!Begin(p)
    BY <1>1, <1>3, <1>5 DEF Abs!Begin, Current, Active
  <2> QED
    BY <2>1 DEF Abs!Next
<1>6. CASE Active' = Active \ {p}
  <2>1. Abs!End(p)
    BY <1>1, <1>3, <1>6 DEF Abs!End, Current, Active
  <2> QED
    BY <2>1 DEF Abs!Next
<1> QED
  BY <1>4, <1>5, <1>6

\* begin_op, end_op, committed and kill start or end at most one operation.
LEMMA ControlSteps ==
    ASSUME IInv, NEW p \in Procs, begin_op(p) \/ end_op(p) \/ committed(p) \/ kill(p) \/ log_absorb(p)
    PROVE  [Abs!Next]_Abs!vars
<1>0. TypeOK
  BY DEF IInv
<1>1. UNCHANGED <<disk, dlog, dhead, cache, up>>
  BY DEF begin_op, end_op, committed, kill, log_absorb
<1>2. \A q \in Procs : q # p => (InOp(q)' <=> InOp(q))
  <2>1. CASE end_op(p) /\ committing
    BY <2>1 DEF end_op, InOp
  <2>2. CASE end_op(p) /\ ~ committing
    BY <1>0, <2>2 DEF end_op, endop_others, endop_last, wokenby, InOp, TypeOK
  <2>3. CASE committed(p)
    BY <1>0, <2>3 DEF committed, wokenby, InOp, TypeOK
  <2>4. CASE begin_op(p)
    BY SMTT(30), <1>0, <2>4 DEF begin_op, InOp, TypeOK
  <2>5. CASE kill(p) \/ log_absorb(p)
    BY <1>0, <2>5 DEF kill, log_absorb, InOp, TypeOK
  <2> QED
    BY <2>1, <2>2, <2>3, <2>4, <2>5
<1>3. Active' \in {Active, Active \cup {p}, Active \ {p}}
  <2>1. CASE InOp(p)'
    <3>1. Active' = Active \cup {p}
      BY <1>2, <2>1 DEF Active
    <3> QED
      BY <3>1
  <2>2. CASE ~ InOp(p)'
    <3>1. Active' = Active \ {p}
      BY <1>2, <2>2 DEF Active
    <3> QED
      BY <3>1
  <2> QED
    BY <2>1, <2>2
<1> QED
  BY <1>1, <1>3, ControlSimulates

\* log_write is the abstract write.
LEMMA LogWriteSimulates ==
    ASSUME IInv, NEW p \in Procs, NEW b \in Blocks, NEW v \in Values, log_write(p, b, v)
    PROVE  [Abs!Next]_Abs!vars
<1>0. TypeOK
  BY DEF IInv
<1>1. /\ UNCHANGED <<disk, dlog, dhead, up>> /\ up /\ pc[p] = "op"
      /\ cache' = [cache EXCEPT ![b] = v] /\ pc' = [pc EXCEPT ![p] = "log_write"]
  BY DEF log_write, Running
<1>2. recovered' = recovered
  BY <1>1, SameRecovered
<1>3. \A q \in Procs : InOp(q)' <=> InOp(q)
  BY <1>0, <1>1 DEF InOp, TypeOK
<1>4. Active' = Active /\ p \in Active
  BY <1>1, <1>3, SameActive DEF Active, InOp
<1>5. \A c \in Blocks : contents(c)' = IF c = b THEN v ELSE contents(c)
  BY <1>0, <1>1, ConstAssumption DEF contents, TypeOK
<1>6. Current' = [Current EXCEPT ![b] = v]
  BY ZenonT(100), <1>1, <1>5 DEF Current
<1>7. Abs!Write(p, b, v)
  BY <1>2, <1>4, <1>6 DEF Abs!Write, Current, Active
<1> QED
  BY <1>7 DEF Abs!Next

\* A step of commit or recovery, or of the cache, that moves no process.
LEMMA QuietSimulates ==
    ASSUME pc' = pc, up' = up, \A b \in Blocks : recovered'[b] = recovered[b],
           \A b \in Blocks : contents(b)' = contents(b)
    PROVE  [Abs!Next]_Abs!vars
<1>1. \A q \in Procs : InOp(q)' <=> InOp(q)
  BY DEF InOp
<1>2. Active' = Active
  BY <1>1, SameActive
<1>3. recovered' = recovered
  BY RecoveredEqual
<1> QED
  BY <1>2, <1>3, SameCurrent, Stutters

\* write_log writes log blocks that no header refers to.
LEMMA WriteLogSimulates ==
    ASSUME IInv, write_log
    PROVE  [Abs!Next]_Abs!vars
<1>0. TypeOK /\ PhaseInv
  BY DEF IInv
<1>1. /\ UNCHANGED <<disk, dhead, pc, up>> /\ phase = "write_log"
      /\ cache' = [cache EXCEPT ![lh[tail]] = contents(lh[tail])]
  BY DEF write_log
<1>2. dhead = <<>> /\ tail \in 1 .. Len(lh) /\ lh[tail] \in Blocks
  BY SMTT(30), <1>0, <1>1 DEF PhaseInv, TypeOK
<1>3. \A b \in Blocks : recovered'[b] = disk[b] /\ recovered[b] = disk[b]
  <2>1. \A b \in Blocks : recovered[b] = disk[b]
    BY <1>2, RecoveredEmpty
  <2>2. Sectors(dhead)' = {}
    BY SMTT(30), <1>1, <1>2 DEF Sectors
  <2> QED
    BY <1>1, <2>1, <2>2 DEF recovered
<1>4. contents(lh[tail]) # None
  BY SMTT(30), <1>0, <1>2, ConstAssumption DEF contents, TypeOK
<1>5. \A b \in Blocks : contents(b)' = contents(b)
  BY <1>0, <1>1, <1>2, <1>4 DEF contents, TypeOK
<1> QED
  BY <1>1, <1>3, <1>5, QuietSimulates

\* write_head makes the cached blocks the recoverable ones: the commit.
LEMMA WriteHeadSimulates ==
    ASSUME IInv, write_head
    PROVE  [Abs!Next]_Abs!vars
<1>0. TypeOK /\ ProcInv /\ CacheInv /\ PhaseInv /\ Distinct(lh)
  BY DEF IInv
<1>1. UNCHANGED <<disk, dlog, cache, dirty, lh, pc, blk, up>> /\ dhead' = lh /\ phase = "write_head"
  BY DEF write_head
<1>2. up /\ Active = {} /\ LoggedTo(Len(lh) + 1)
  BY <1>0, <1>1 DEF PhaseInv
<1>3. \A q \in Procs : InOp(q)' <=> InOp(q)
  BY <1>1 DEF InOp
<1>4. Active' = Active
  BY <1>3, SameActive
<1>5. \A b \in Blocks : contents(b)' = contents(b)
  BY <1>1 DEF contents
<1>6. \A b \in Blocks : recovered'[b] = contents(b)
  <2> SUFFICES ASSUME NEW b \in Blocks PROVE recovered'[b] = contents(b)
    OBVIOUS
  <2>0. recovered'[b] = IF b \in Sectors(lh)
                        THEN dlog[CHOOSE i \in 1 .. Len(lh) : lh[i] = b] ELSE disk[b]
    BY <1>1 DEF recovered, Sectors
  <2>1. CASE \E i \in 1 .. Len(lh) : lh[i] = b
    <3>1. PICK i \in 1 .. Len(lh) : lh[i] = b
      BY <2>1
    <3>2. recovered'[b] = dlog[i]
      <4>1. \A j \in 1 .. Len(lh) : lh[j] = b => j = i
        BY <1>0, <3>1 DEF Distinct
      <4>2. (CHOOSE j \in 1 .. Len(lh) : lh[j] = b) = i
        BY <3>1, <4>1
      <4>3. b \in Sectors(lh)
        BY <3>1 DEF Sectors
      <4> QED
        BY ZenonT(100), <2>0, <4>2, <4>3
    <3>3. dlog[i] = contents(lh[i])
      BY <1>0, <1>2 DEF LoggedTo, TypeOK
    <3> QED
      BY <3>1, <3>2, <3>3
  <2>2. CASE ~ \E i \in 1 .. Len(lh) : lh[i] = b
    <3>1. b \notin Sectors(lh)
      BY SMTT(30), <2>2 DEF Sectors
    <3>2. b \notin dirty /\ ~ Held(b)
      BY ZenonT(100), <1>0, <1>2, <2>2, NoneHeld DEF CacheInv
    <3>3. contents(b) = disk[b]
      BY ZenonT(100), <1>0, <3>2 DEF CacheInv, contents
    <3> QED
      BY SMTT(30), <2>0, <3>1, <3>3
  <2> QED
    BY <2>1, <2>2
<1>7. recovered' = [b \in Blocks |-> contents(b)]
  <2>1. recovered' = [b \in Blocks |-> recovered'[b]]
    BY DEF recovered
  <2> QED
    BY SMTT(30), <1>6, <2>1
<1>8. Current = [b \in Blocks |-> contents(b)] /\ Current' = Current
  BY SMTT(30), <1>1, <1>2, <1>5 DEF Current
<1>9. Abs!Commit
  BY <1>2, <1>4, <1>7, <1>8 DEF Abs!Commit, Current, Active
<1> QED
  BY <1>9 DEF Abs!Next

\* install_trans writes what recovery would write.
LEMMA InstallSimulates ==
    ASSUME IInv, install_trans
    PROVE  [Abs!Next]_Abs!vars
<1>0. TypeOK /\ PhaseInv
  BY DEF IInv
<1>1. /\ UNCHANGED <<dlog, dhead, lh, pc, up>> /\ phase = "install_trans"
      /\ disk' = [disk EXCEPT ![lh[tail]] = dlog[tail]]
      /\ cache' = [cache EXCEPT ![lh[tail]] = dlog[tail]]
  BY SMTT(30) DEF install_trans
<1>2. /\ dhead = lh /\ tail \in 1 .. Len(lh) /\ lh[tail] \in Blocks /\ dlog[tail] # None
      /\ up => LoggedTo(Len(lh) + 1)
  BY SMTT(30), <1>0, <1>1, ListFits, ConstAssumption DEF PhaseInv, TypeOK
<1>3. \A b \in Blocks : b # lh[tail] => disk'[b] = disk[b] /\ cache'[b] = cache[b]
  BY SMTT(30), <1>0, <1>1, <1>2 DEF TypeOK
<1>4. \A b \in Blocks : recovered'[b] = recovered[b]
  <2>1. lh[tail] \in Sectors(dhead)
    BY SMTT(30), <1>2 DEF Sectors
  <2>2. Sectors(dhead)' = Sectors(dhead)
    BY SMTT(30), <1>1 DEF Sectors
  <2> QED
    BY SMTT(30), <1>1, <1>3, <2>1, <2>2 DEF recovered
<1>5. CASE up
  <2>1. dlog[tail] = contents(lh[tail])
    BY SMTT(30), <1>0, <1>2, <1>5, ListFits DEF LoggedTo
  <2>2. \A b \in Blocks : b = lh[tail] => contents(b)' = dlog[tail]
    BY SMTT(30), <1>0, <1>1, <1>2 DEF contents, TypeOK
  <2>3. \A b \in Blocks : contents(b)' = contents(b)
    BY ZenonT(100), <1>1, <1>3, <2>1, <2>2 DEF contents
  <2> QED
    BY <1>1, <1>4, <2>3, QuietSimulates
<1>6. CASE ~ up
  <2>1. recovered' = recovered
    BY SMTT(30), <1>4, RecoveredEqual
  <2>2. Current' = Current
    BY ZenonT(100), <1>1, <1>6, <2>1 DEF Current
  <2>3. \A q \in Procs : InOp(q)' <=> InOp(q)
    BY <1>1 DEF InOp
  <2> QED
    BY <2>1, <2>2, <2>3, SameActive, Stutters
<1> QED
  BY SMTT(30), <1>5, <1>6

\* Erasing the header loses nothing: its blocks are installed.
LEMMA EraseSimulates ==
    ASSUME IInv, erase
    PROVE  [Abs!Next]_Abs!vars
<1>0. TypeOK /\ ProcInv /\ CacheInv /\ PhaseInv /\ Distinct(dhead)
  BY DEF IInv
<1>1. UNCHANGED <<disk, dlog, cache, pc>> /\ dhead' = <<>> /\ up' = TRUE /\ phase = "erase"
  BY DEF erase
<1>2. Active = {} /\ dirty = {} /\ dhead = lh /\ InstalledTo(Len(lh) + 1)
  BY <1>0, <1>1 DEF PhaseInv
<1>3. \A b \in Blocks : recovered[b] = disk[b]
  <2> SUFFICES ASSUME NEW b \in Blocks, b \in Sectors(dhead) PROVE recovered[b] = disk[b]
    BY <1>0, RecoveredBlocks
  <2>1. PICK i \in 1 .. Len(dhead) : dhead[i] = b
    BY DEF Sectors
  <2>2. recovered[b] = dlog[i]
    BY SMTT(30), <1>0, <2>1, RecoveredBlocks
  <2>3. disk[b] = dlog[i]
    BY SMTT(30), <1>0, <1>2, <2>1 DEF InstalledTo, TypeOK
  <2> QED
    BY <2>2, <2>3
<1>4. \A b \in Blocks : recovered'[b] = disk[b]
  <2>1. Sectors(dhead)' = {}
    BY <1>1 DEF Sectors
  <2> QED
    BY <1>1, <2>1 DEF recovered
<1>5. recovered' = recovered
  BY SMTT(30), <1>3, <1>4, RecoveredEqual
<1>6. \A b \in Blocks : contents(b) = disk[b] /\ contents(b)' = disk[b]
  <2>1. \A b \in Blocks : cache[b] \in {None, disk[b]}
    BY <1>0, <1>2, NoneHeld DEF CacheInv
  <2> QED
    BY SMTT(30), <1>1, <2>1 DEF contents
<1>7. Current' = Current
  <2>1. Current' = [b \in Blocks |-> disk[b]]
    BY SMTT(30), <1>1, <1>6 DEF Current
  <2>2. recovered = [b \in Blocks |-> recovered[b]]
    BY DEF recovered
  <2>3. Current = [b \in Blocks |-> disk[b]]
    BY <1>3, <1>6, <2>2 DEF Current
  <2> QED
    BY <2>1, <2>3
<1>8. \A q \in Procs : InOp(q)' <=> InOp(q)
  BY <1>1 DEF InOp
<1> QED
  BY <1>5, <1>7, <1>8, SameActive, Stutters

\* Reading the header and moving buffers change no block; a crash goes back
\* to what recovery produces.
LEMMA MachineSimulates ==
    ASSUME IInv, IInv', read_head \/ crash \/ \E b \in Blocks : bget(b) \/ bread(b)
    PROVE  [Abs!Next]_Abs!vars
<1>1. UNCHANGED <<disk, dlog, dhead>>
  BY DEF read_head, crash, bget, bread
<1>2. recovered' = recovered
  BY SMTT(30), <1>1, SameRecovered
<1>3. CASE read_head
  BY ZenonT(100), <1>2, <1>3, QuietSimulates DEF read_head, contents
<1>4. CASE crash
  <2>1. Current' = recovered /\ Active' = {}
    BY <1>2, <1>4 DEF crash, Current, Active, InOp
  <2>2. Abs!Crash
    BY <1>2, <2>1 DEF Abs!Crash, Current, Active
  <2> QED
    BY <2>2 DEF Abs!Next
<1>5. ASSUME NEW b \in Blocks, bget(b) \/ bread(b) PROVE [Abs!Next]_Abs!vars
  <2>1. \A c \in Blocks : contents(c)' = contents(c)
    BY SMTT(30), <1>5, BufferStep
  <2>2. pc' = pc /\ up' = up
    BY <1>5 DEF bget, bread
  <2> QED
    BY <1>2, <2>1, <2>2, QuietSimulates
<1> QED
  BY SMTT(30), <1>3, <1>4, <1>5

\* Every step of the log is a step of AbsLog or changes nothing it shows.
LEMMA StepSimulates ==
    ASSUME IInv, IInv', [Next]_vars
    PROVE  [Abs!Next]_Abs!vars
<1>1. CASE UNCHANGED vars
  <2>1. UNCHANGED <<disk, dlog, dhead, cache, pc, up>>
    BY <1>1 DEF vars, mem
  <2> QED
    BY SMTT(30), <2>1, SameRecovered, QuietSimulates DEF contents
<1> QED
  BY ZenonT(100), <1>1, ControlSteps, LogWriteSimulates, WriteLogSimulates, WriteHeadSimulates,
     InstallSimulates, EraseSimulates, MachineSimulates DEF Next, Step

\* The log makes the operations of the file system atomic and durable as a
\* group across crashes: Log implements AbsLog.
THEOREM Refinement == Spec => RefinesAbs
<1>1. Init => Abs!Init
  <2> SUFFICES ASSUME Init PROVE Abs!Init
    OBVIOUS
  <2>1. dhead = <<>> /\ ~ up /\ disk \in [Blocks -> Values] /\ {p \in Procs : InOp(p)} = {}
    BY DEF Init, InOp
  <2>2. recovered = [b \in Blocks |-> recovered[b]] /\ \A b \in Blocks : recovered[b] = disk[b]
    BY ZenonT(100), <2>1, RecoveredEmpty DEF recovered
  <2>3. recovered \in [Blocks -> Values]
    BY <2>1, <2>2
  <2> QED
    BY <2>1, <2>3 DEF Abs!Init
<1> QED
  BY <1>1, Invariance, StepSimulates, PTL DEF Spec, RefinesAbs, Abs!Spec

=============================================================================
