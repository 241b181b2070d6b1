----------------------------- MODULE MCFileSys -----------------------------
EXTENDS FileSys

CONSTANTS p1, p2

Two == {p1, p2}
MCNames == {"a"}
P(abs, elems) == [abs |-> abs, elems |-> elems]
MCPaths == {P(FALSE, <<"a">>), P(FALSE, <<"..">>), P(FALSE, <<"a", "a">>), P(TRUE, <<>>)}
MCCalls == p1 :> {"mkdir", "unlink", "chdir"} @@ p2 :> {"create", "link", "unlink", "open"}
\* Local variables that are not read before they are set again are left out: all
\* of a process at rest or about to be, and the name that a walk replaces.
View ==
    <<disk, ents, icache, cwd, file, pc, panic, orphaned,
      [p \in Procs |->
          IF pc[p] = "user" THEN <<>>
          ELSE IF drop[p] # <<>> /\ ret[p] = "user" THEN <<drop[p], cur[p], obj[p]>>
          ELSE <<call[p], path[p], cur[p], obj[p], drop[p],
                 IF drop[p] = <<>> THEN "" ELSE ret[p],
                 IF pc[p] \in {"link2", "unlink", "unlink2", "create1", "create2"} THEN name[p] ELSE "">>]>>
=============================================================================
