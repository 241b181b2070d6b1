------------------------------ MODULE AbsPipe ------------------------------
(***************************************************************************)
(* What a pipe promises: a bounded first-in first-out queue of bytes.      *)
(***************************************************************************)
EXTENDS Naturals, Sequences

CONSTANTS Procs, Bytes, PIPESIZE, MaxWrite, MaxRead

VARIABLES
    queue,   \* the bytes in the pipe
    todo,    \* what is left of the write a process is in, or <<>>
    got,     \* what the last read returned
    ropen, wopen

vars == <<queue, todo, got, ropen, wopen>>

Init ==
    /\ queue = <<>> /\ todo = [p \in Procs |-> <<>>] /\ got = <<>>
    /\ ropen = FALSE /\ wopen = FALSE

Open ==
    /\ ~ ropen /\ ~ wopen
    /\ queue' = <<>> /\ ropen' = TRUE /\ wopen' = TRUE
    /\ UNCHANGED <<todo, got>>

Write(p, s) ==
    /\ todo[p] = <<>>
    /\ todo' = [todo EXCEPT ![p] = s]
    /\ UNCHANGED <<queue, got, ropen, wopen>>

\* The next k bytes of the write go in, in order.
Put(p, k) ==
    /\ k <= Len(todo[p]) /\ Len(queue) + k <= PIPESIZE
    /\ queue' = queue \o SubSeq(todo[p], 1, k)
    /\ todo' = [todo EXCEPT ![p] = SubSeq(@, k + 1, Len(@))]
    /\ UNCHANGED <<got, ropen, wopen>>

\* A write is cut short only when the pipe is full.
Fail(p, k) ==
    /\ k <= Len(todo[p]) /\ Len(queue) + k = PIPESIZE
    /\ queue' = queue \o SubSeq(todo[p], 1, k)
    /\ todo' = [todo EXCEPT ![p] = <<>>]
    /\ UNCHANGED <<got, ropen, wopen>>

\* A read returns the oldest bytes, and nothing only at the end of the file.
Get(n) ==
    /\ queue # <<>> \/ ~ wopen
    /\ LET k == IF n < Len(queue) THEN n ELSE Len(queue)
       IN  /\ got' = SubSeq(queue, 1, k)
           /\ queue' = SubSeq(queue, k + 1, Len(queue))
    /\ UNCHANGED <<todo, ropen, wopen>>

Close ==
    /\ \/ ropen /\ ropen' = FALSE /\ UNCHANGED wopen
       \/ wopen /\ wopen' = FALSE /\ UNCHANGED ropen
    /\ queue' = IF ropen' \/ wopen' THEN queue ELSE <<>>
    /\ UNCHANGED <<todo, got>>

Next ==
    \/ Open \/ Close
    \/ \E n \in 1 .. MaxRead : Get(n)
    \/ \E p \in Procs :
          \/ \E n \in 1 .. MaxWrite : \E s \in [1 .. n -> Bytes] : Write(p, s)
          \/ \E k \in 0 .. PIPESIZE : Put(p, k) \/ Fail(p, k)

Spec == Init /\ [][Next]_vars

=============================================================================
