------------------------------ MODULE MCFiles ------------------------------
EXTENDS Files

CONSTANTS p1, p2, i1

MCCalls ==
    p1 :> {"open", "pipe", "fork", "mmap", "page", "read", "dup", "close"}
    @@ p2 :> {"write", "seek", "munmap", "exit"}

\* Only a mapping can still lead to what a free file holds.
View ==
    LET left(f) == ref[f] > 0 \/ \E p \in Procs : maps(p, f) \/ (pc[p] \in {"xfer", "moving"} /\ cur[p] = f)
    IN  <<ref, type, ofile, ommap, iref, lock, size, ends, pc, locals, panic, stale,
          [f \in {g \in Files : left(g)} |->
              IF type[f] = "INODE" \/ stale
              THEN <<ip[f], writable[f], off[f], sought[f], IF sought[f] THEN 0 ELSE done[f]>>
              ELSE <<writable[f]>>]>>
=============================================================================
