-------------------------------- MODULE Log --------------------------------
(***************************************************************************)
(* The write-ahead log of log.c over the buffer cache, with crashes of the *)
(* machine and recovery at the next start.                                 *)
(*                                                                         *)
(* One bwrite is one step: a block is a disk sector, written whole or not  *)
(* at all.  A section under log.lock is one step; sleep(&log, &log.lock)   *)
(* takes ptable.lock before it gives up log.lock, so testing and going to  *)
(* sleep is one step.  log_write tests the size of the log BEFORE it takes *)
(* the lock: that is a step of its own, and the caller's store into the    *)
(* buffer, which it holds B_BUSY, joins it.  The contents of a block is a  *)
(* value; the header is the sequence of its n block numbers.               *)
(***************************************************************************)
EXTENDS Integers, Sequences, FiniteSets

CONSTANTS
    Procs,         \* processes that make file system calls
    Blocks,        \* the disk blocks outside the log
    Values,        \* contents of a block
    MAXOPBLOCKS,   \* most blocks one operation writes
    LOGSIZE,       \* most blocks in a transaction
    LogSize,       \* log.size: the blocks mkfs sets aside, header included
    None           \* not cached; no block

ASSUME ConstAssumption ==
    /\ IsFiniteSet(Procs)
    /\ MAXOPBLOCKS \in Nat \ {0} /\ LOGSIZE \in Nat /\ LogSize \in Nat \ {0}
    /\ MAXOPBLOCKS <= LOGSIZE
    /\ None \notin Values /\ None \notin Blocks

VARIABLES
    disk,          \* the home locations on disk
    dlog,          \* the log blocks on disk, by position
    dhead,         \* the header block on disk
    cache,         \* the buffer cache: contents, or None
    dirty,         \* the buffers with B_DIRTY
    lh,            \* log.lh: sectors[0 .. n-1]
    outstanding,   \* log.outstanding
    committing,    \* log.committing
    pc,            \* where each process is
    blk,           \* the buffer a process holds in log_write, or None
    used,          \* blocks the operation has logged
    phase,         \* where commit or recovery is
    tail,          \* the loop counter of write_log and install_trans
    up,            \* recovery is over
    panicked       \* panic was called

mem  == <<cache, dirty, lh, outstanding, committing, pc, blk, used, phase, tail, up, panicked>>
vars == <<disk, dlog, dhead, mem>>

Sectors(s) == {s[i] : i \in 1 .. Len(s)}

\* What a bread of the block returns.
contents(b) == IF cache[b] # None THEN cache[b] ELSE disk[b]

InOp(p) == pc[p] \in {"op", "log_write"}

Running == up /\ ~ panicked

Init ==
    /\ disk \in [Blocks -> Values]
    /\ dlog \in [1 .. LOGSIZE -> Values]
    /\ dhead = <<>>
    /\ cache = [b \in Blocks |-> None]
    /\ dirty = {}
    /\ lh = <<>>
    /\ outstanding = 0
    /\ committing = FALSE
    /\ pc = [p \in Procs |-> "idle"]
    /\ blk = [p \in Procs |-> None]
    /\ used = [p \in Procs |-> 0]
    /\ phase = "read_head"
    /\ tail = 1
    /\ up = FALSE
    /\ panicked = FALSE

-----------------------------------------------------------------------------
(* The system calls' side.                                                 *)

\* pc once p is back from end_op and wakeup(&log) has woken the sleepers.
wokenby(p) == [q \in Procs |-> IF q = p THEN "idle" ELSE
                               IF pc[q] = "sleep" THEN "begin" ELSE pc[q]]

\* Mutant: blocks already in the log do not count.
mustwait_nolog == committing \/ (outstanding + 1) * MAXOPBLOCKS > LOGSIZE

mustwait ==
    \/ committing
    \/ Len(lh) + (outstanding + 1) * MAXOPBLOCKS > LOGSIZE

\* A process that was woken is in "begin", one that starts its call in "idle".
begin_op(p) ==
    /\ Running
    /\ pc[p] \in {"idle", "begin"}
    /\ \/ /\ mustwait
          /\ pc' = [pc EXCEPT ![p] = "sleep"]
          /\ UNCHANGED <<outstanding, used>>
       \/ /\ ~ mustwait
          /\ outstanding' = outstanding + 1
          /\ pc' = [pc EXCEPT ![p] = "op"]
          /\ used' = [used EXCEPT ![p] = 0]
    /\ UNCHANGED <<disk, dlog, dhead, cache, dirty, lh, committing, blk, phase, tail, up, panicked>>

\* bread, the store of the new contents, and log_write up to acquire.
log_write(p, b, v) ==
    /\ Running
    /\ pc[p] = "op"
    /\ used[p] < MAXOPBLOCKS
    /\ \A q \in Procs : blk[q] # b
    /\ cache' = [cache EXCEPT ![b] = v]
    /\ pc' = [pc EXCEPT ![p] = "log_write"]
    /\ blk' = [blk EXCEPT ![p] = b]
    /\ panicked' = (Len(lh) >= LOGSIZE \/ Len(lh) >= LogSize - 1)
    /\ UNCHANGED <<disk, dlog, dhead, dirty, lh, outstanding, committing, used, phase, tail, up>>

\* The sector list with the block in it once.
absorbed(b) == IF b \in Sectors(lh) THEN lh ELSE Append(lh, b)

\* Mutant: B_DIRTY is not set.
pinned_not(b) == dirty

pinned(b) == dirty \cup {b}

\* The section of log_write under log.lock, and brelse.
log_absorb(p) ==
    /\ Running
    /\ pc[p] = "log_write"
    /\ lh' = absorbed(blk[p])
    /\ dirty' = pinned(blk[p])
    /\ used' = [used EXCEPT ![p] = @ + 1]
    /\ pc' = [pc EXCEPT ![p] = "op"]
    /\ blk' = [blk EXCEPT ![p] = None]
    /\ UNCHANGED <<disk, dlog, dhead, cache, outstanding, committing, phase, tail, up, panicked>>

\* end_op when other operations are outstanding.
endop_others(p) ==
    /\ outstanding # 1
    /\ pc' = wokenby(p)
    /\ UNCHANGED <<committing, phase, tail>>

\* Mutant: commit skips a transaction of one block.
endop_last_skips(p) ==
    /\ outstanding = 1
    /\ committing' = TRUE
    /\ pc' = [pc EXCEPT ![p] = "commit"]
    /\ phase' = IF Len(lh) > 1 THEN "write_log" ELSE "done"
    /\ tail' = 1

\* end_op of the last one, and the test that starts commit.
endop_last(p) ==
    /\ outstanding = 1
    /\ committing' = TRUE
    /\ pc' = [pc EXCEPT ![p] = "commit"]
    /\ phase' = IF Len(lh) > 0 THEN "write_log" ELSE "done"
    /\ tail' = 1

oneless == outstanding - 1

end_op(p) ==
    /\ Running
    /\ pc[p] = "op"
    /\ outstanding' = oneless
    /\ IF committing
       THEN panicked' = TRUE /\ UNCHANGED <<committing, pc, phase, tail>>
       ELSE (endop_others(p) \/ endop_last(p)) /\ UNCHANGED panicked
    /\ UNCHANGED <<disk, dlog, dhead, cache, dirty, lh, blk, used, up>>

-----------------------------------------------------------------------------
(* commit and recover_from_log.                                            *)

\* An iteration of write_log.
write_log ==
    /\ Running
    /\ phase = "write_log"
    /\ dlog' = [dlog EXCEPT ![tail] = contents(lh[tail])]
    /\ cache' = [cache EXCEPT ![lh[tail]] = contents(lh[tail])]
    /\ IF tail < Len(lh)
       THEN tail' = tail + 1 /\ UNCHANGED phase
       ELSE tail' = 1 /\ phase' = "write_head"
    /\ UNCHANGED <<disk, dhead, dirty, lh, outstanding, committing, pc, blk, used, up, panicked>>

\* The commit point.
write_head ==
    /\ Running
    /\ phase = "write_head"
    /\ dhead' = lh
    /\ phase' = "install_trans"
    /\ UNCHANGED <<disk, dlog, cache, dirty, lh, outstanding, committing, pc, blk, used, tail, up, panicked>>

\* An iteration of install_trans.  iderw clears B_DIRTY.
install_trans ==
    /\ ~ panicked
    /\ phase = "install_trans"
    /\ disk' = [disk EXCEPT ![lh[tail]] = dlog[tail]]
    /\ cache' = [cache EXCEPT ![lh[tail]] = dlog[tail]]
    /\ dirty' = dirty \ {lh[tail]}
    /\ IF tail < Len(lh)
       THEN tail' = tail + 1 /\ UNCHANGED phase
       ELSE tail' = 1 /\ phase' = "erase"
    /\ UNCHANGED <<dlog, dhead, lh, outstanding, committing, pc, blk, used, up, panicked>>

\* log.lh.n = 0 and write_head.  It ends recovery, and in commit leaves the
\* section of end_op that clears log.committing.
erase ==
    /\ ~ panicked
    /\ phase = "erase"
    /\ lh' = <<>>
    /\ dhead' = <<>>
    /\ phase' = IF up THEN "done" ELSE "none"
    /\ up' = TRUE
    /\ UNCHANGED <<disk, dlog, cache, dirty, outstanding, committing, pc, blk, used, tail, panicked>>

\* Mutant: the end of a commit wakes nobody.
committed_nowake(p) ==
    /\ Running
    /\ phase = "done" /\ pc[p] = "commit"
    /\ committing' = FALSE
    /\ phase' = "none"
    /\ pc' = [pc EXCEPT ![p] = "idle"]
    /\ UNCHANGED <<disk, dlog, dhead, cache, dirty, lh, outstanding, blk, used, tail, up, panicked>>

committed(p) ==
    /\ Running
    /\ phase = "done" /\ pc[p] = "commit"
    /\ committing' = FALSE
    /\ phase' = "none"
    /\ pc' = wokenby(p)
    /\ UNCHANGED <<disk, dlog, dhead, cache, dirty, lh, outstanding, blk, used, tail, up, panicked>>

read_head ==
    /\ phase = "read_head"
    /\ lh' = dhead
    /\ tail' = 1
    /\ phase' = IF Len(dhead) > 0 THEN "install_trans" ELSE "erase"
    /\ UNCHANGED <<disk, dlog, dhead, cache, dirty, outstanding, committing, pc, blk, used, up, panicked>>

-----------------------------------------------------------------------------
(* The buffer cache and the machine.                                       *)

\* bget recycles a buffer that is neither B_BUSY nor B_DIRTY.
evictable(b) == cache[b] # None /\ b \notin dirty /\ \A p \in Procs : blk[p] # b

bget(b) ==
    /\ ~ panicked
    /\ evictable(b)
    /\ cache' = [cache EXCEPT ![b] = None]
    /\ UNCHANGED <<disk, dlog, dhead, dirty, lh, outstanding, committing, pc, blk, used, phase, tail, up, panicked>>

\* A read outside any operation.
bread(b) ==
    /\ Running
    /\ cache[b] = None
    /\ cache' = [cache EXCEPT ![b] = disk[b]]
    /\ UNCHANGED <<disk, dlog, dhead, dirty, lh, outstanding, committing, pc, blk, used, phase, tail, up, panicked>>

\* kill takes a process out of sleep; begin_op tests again.
kill(p) ==
    /\ Running
    /\ pc[p] = "sleep"
    /\ pc' = [pc EXCEPT ![p] = "begin"]
    /\ UNCHANGED <<disk, dlog, dhead, cache, dirty, lh, outstanding, committing, blk, used, phase, tail, up, panicked>>

\* Power fails, or the machine is restarted after a panic: memory is lost.
crash ==
    /\ cache' = [b \in Blocks |-> None]
    /\ dirty' = {}
    /\ lh' = <<>>
    /\ outstanding' = 0
    /\ committing' = FALSE
    /\ pc' = [p \in Procs |-> "idle"]
    /\ blk' = [p \in Procs |-> None]
    /\ used' = [p \in Procs |-> 0]
    /\ phase' = "read_head"
    /\ tail' = 1
    /\ up' = FALSE
    /\ panicked' = FALSE
    /\ UNCHANGED <<disk, dlog, dhead>>

Step ==
    \/ \E p \in Procs :
           \/ begin_op(p) \/ log_absorb(p) \/ end_op(p) \/ committed(p) \/ kill(p)
           \/ \E b \in Blocks, v \in Values : log_write(p, b, v)
    \/ write_log \/ write_head \/ install_trans \/ erase \/ read_head
    \/ \E b \in Blocks : bget(b) \/ bread(b)

Next == Step \/ crash

Spec == Init /\ [][Next]_vars

(***************************************************************************)
(* An operation that has begun comes to its end_op: file system calls loop *)
(* over a bounded number of blocks and wait only for buffers and inodes    *)
(* that other operations hold and release.  The disk answers, and a        *)
(* runnable process runs.                                                  *)
(***************************************************************************)
Fairness ==
    /\ \A p \in Procs : WF_vars(log_absorb(p)) /\ WF_vars(end_op(p)) /\ WF_vars(committed(p))
    /\ WF_vars(write_log) /\ WF_vars(write_head)
    /\ WF_vars(install_trans) /\ WF_vars(erase) /\ WF_vars(read_head)

LiveSpec == Spec /\ Fairness

-----------------------------------------------------------------------------
(* Properties                                                              *)

\* The variables have the types of the C declarations.
TypeOK ==
    /\ disk \in [Blocks -> Values]
    /\ dlog \in [1 .. LOGSIZE -> Values]
    /\ dhead \in Seq(Blocks)
    /\ cache \in [Blocks -> Values \cup {None}]
    /\ dirty \subseteq Blocks
    /\ lh \in Seq(Blocks)
    /\ outstanding \in Nat
    /\ committing \in BOOLEAN
    /\ pc \in [Procs -> {"idle", "begin", "sleep", "op", "log_write", "commit"}]
    /\ blk \in [Procs -> Blocks \cup {None}]
    /\ used \in [Procs -> Nat]
    /\ phase \in {"none", "write_log", "write_head", "install_trans", "erase",
                  "done", "read_head"}
    /\ tail \in Nat \ {0}
    /\ up \in BOOLEAN /\ panicked \in BOOLEAN

\* What recover_from_log would leave on the disk if the machine stopped now.
recovered ==
    [b \in Blocks |-> IF b \in Sectors(dhead)
                      THEN dlog[CHOOSE i \in 1 .. Len(dhead) : dhead[i] = b]
                      ELSE disk[b]]

\* When no operation runs and no commit is in progress, every block already
\* is on disk as the operations left it: end_op of the last operation returns
\* only after its whole group is durable.
Durable ==
    up /\ outstanding = 0 /\ ~ committing => \A b \in Blocks : recovered[b] = contents(b)

\* A process sleeps in begin_op only while the condition it slept for holds:
\* whatever ends the condition also wakes it.
NoLostWakeup == \A p \in Procs : pc[p] = "sleep" => mustwait

\* The blocks the running operations may still add to the transaction.
Reserved == {r \in Procs \X (1 .. MAXOPBLOCKS) : InOp(r[1]) /\ used[r[1]] < r[2]}

\* begin_op reserves room: the blocks in the log and those the running
\* operations may still add fit in a transaction of LOGSIZE blocks.
LogSpace == Len(lh) + Cardinality(Reserved) <= LOGSIZE

\* The log makes operations atomic: each step of log.c is a step of AbsLog,
\* with stable the disk that recovery would produce, and current the blocks
\* that bread returns (before recovery is over, what it will produce).
Abs == INSTANCE AbsLog WITH
           stable  <- recovered,
           current <- IF up THEN [b \in Blocks |-> contents(b)] ELSE recovered,
           active  <- {p \in Procs : InOp(p)}

RefinesAbs == Abs!Spec

\* A process asleep in begin_op is woken, unless the machine panics.
SleeperWakes == \A p \in Procs : pc[p] = "sleep" ~> (pc[p] # "sleep" \/ panicked)

=============================================================================
