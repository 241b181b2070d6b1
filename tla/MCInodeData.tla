---------------------------- MODULE MCInodeData ----------------------------
EXTENDS InodeData

TwoInodes == {1, 2}
MCSizes == <<{3, 5}, {6}>>
MCSeeks == {0}
MCValues == {0}

\* What a free block holds is never read; what was logged counts during a write.
View ==
    <<bitmap, [b \in bitmap |-> <<data[b], a[b]>>], addrs, size, dinode, op, bytes, panic,
      [i \in Inodes |-> IF op[i].at = "write" THEN logged[i] ELSE {}]>>
=============================================================================
