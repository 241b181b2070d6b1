---------------------------- MODULE MCAddrSpace ----------------------------
(* Instances of AddrSpace for TLC.                                         *)
EXTENDS AddrSpace

MCDeltas == {<<"+", 1>>, <<"-", 1>>}

\* Which frame kalloc() gives makes no difference: two states in which every
\* frame has at most one use and that differ only in the numbers of the frames
\* have the same futures.  The view leaves the numbers out, and the fields
\* that are written before they are read again: those of a process that does
\* not run, and the size of a mapping that is not in use.  It keeps the
\* number of frames in use, so that no state with a frame in two uses is passed
\* over.
Shape(p) ==
    <<as[p].dir # 0, {t \in Tables : as[p].tab[t] # 0}, {g \in Pages : as[p].pte[g] # 0},
      state[p],
      IF state[p] # "runs" THEN <<>>
      ELSE <<sz[p], sstack[p], [i \in Slots |-> IF ommap[p][i].file THEN ommap[p][i] ELSE NoMap]>> >>

View == <<Cardinality(free), Cardinality(other), [p \in Procs |-> Shape(p)], panic, dry,
          Cardinality(Used)>>

=============================================================================
