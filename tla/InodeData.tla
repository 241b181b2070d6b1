----------------------------- MODULE InodeData -----------------------------
(***************************************************************************)
(* The contents of files: block allocation, bmap, itrunc, readi and writei *)
(* of fs.c, and the loop of filewrite (file.c) that splits a write into    *)
(* transactions.                                                           *)
(*                                                                         *)
(* The lock of an inode is held from the start of a chunk, or of itrunc,   *)
(* to its end, so an inode has one operation at a time, and op[i] is its   *)
(* state.  Operations on different inodes meet in the bitmap: one step     *)
(* takes or gives back one block.                                          *)
(***************************************************************************)
EXTENDS Naturals, Sequences, FiniteSets

CONSTANTS
    Inodes, Values,
    NBLOCKS, BPB,           \* data blocks, and blocks per block of the bitmap
    BSIZE, NDIRECT, NINDIRECT, LOGSIZE,
    Sizes, Seeks            \* bounds: the lengths of writes to each, and offsets besides the end

Blocks == 1 .. NBLOCKS
MAXFILE == NDIRECT + NINDIRECT
Zero == <<0, 0, 0>>

ASSUME ConstAssumption ==
    /\ {NBLOCKS, BPB, BSIZE, NINDIRECT} \subseteq Nat \ {0} /\ NDIRECT \in Nat
    /\ LOGSIZE \in Nat /\ LOGSIZE > 5
    /\ Inodes \subseteq Nat \ {0} /\ Values \subseteq Nat
    /\ \A i \in Inodes : Sizes[i] \subseteq Nat

VARIABLES
    bitmap,     \* the blocks in use
    data,       \* bytes of a block
    a,          \* block numbers in a block, where it is an indirect block
    addrs, size,        \* struct inode
    dinode,     \* the same on the disk
    op,         \* what is being done to the inode
    bytes,      \* history: the contents that the finished writes should give
    logged,     \* history: blocks that the operation has passed to log_write
    panic

vars == <<bitmap, data, a, addrs, size, dinode, op, bytes, logged, panic>>

Idle == [at |-> "idle"]
NoBytes == [o \in 0 .. BSIZE - 1 |-> Zero]
NoAddrs == [n \in 0 .. NDIRECT |-> 0]

Init ==
    /\ bitmap = {}
    /\ data = [b \in Blocks |-> NoBytes] /\ a = [b \in Blocks |-> [n \in 0 .. NINDIRECT - 1 |-> 0]]
    /\ addrs = [i \in Inodes |-> NoAddrs] /\ size = [i \in Inodes |-> 0]
    /\ dinode = [i \in Inodes |-> [addrs |-> NoAddrs, size |-> 0]]
    /\ op = [i \in Inodes |-> Idle]
    /\ bytes = [i \in Inodes |-> <<>>] /\ logged = [i \in Inodes |-> {}]
    /\ panic = "none"

At(i, where) == op[i].at = where /\ panic = "none"

-----------------------------------------------------------------------------
(* Blocks                                                                  *)

\* The block of the bitmap that has the bit of b.
BBLOCK(b) == <<"bitmap", b \div BPB>>

\* A block of a file, and the block of an inode, as blocks of the disk.
DBLOCK(b) == <<"data", b>>
IBLOCK(i) == <<"inode", i>>

\* Mutant: the bits are not looked at.
balloc_any == {b \in Blocks : \A c \in Blocks : BBLOCK(b) = BBLOCK(c) => b <= c}

\* The blocks balloc() may find: the first free ones of their bitmap blocks.
\* It looks at one bitmap block after the other, and what it passed may have
\* been freed since.
balloc ==
    {b \in Blocks \ bitmap : \A c \in Blocks \ bitmap : BBLOCK(b) = BBLOCK(c) => b <= c}

\* The numbers in a block after bzero().
bzero(b) == [n \in 0 .. NINDIRECT - 1 |-> 0]

log_write(i, bs) == logged' = [logged EXCEPT ![i] = @ \cup bs]

\* bfree(b) in an operation on i.
bfree(i, b) ==
    /\ bitmap' = bitmap \ {b} /\ log_write(i, {BBLOCK(b)})
    /\ panic' = IF b \in bitmap THEN "none" ELSE "freeing free block"

\* The number of block n of the file, or 0 if bmap() has to allocate it.
mapped(i, n) ==
    IF n < NDIRECT THEN addrs[i][n]
    ELSE IF addrs[i][NDIRECT] = 0 THEN 0 ELSE a[addrs[i][NDIRECT]][n - NDIRECT]

-----------------------------------------------------------------------------
(* readi and writei                                                        *)

Least(m, n) == IF m < n THEN m ELSE n

\* The bytes that the loop of readi() copies from off on, up to end.
copied(i, off, end) ==
    LET loop[o \in Nat] ==
            IF o >= end THEN <<>>
            ELSE LET m == Least(end - o, BSIZE - (o % BSIZE))
                 IN  [k \in 1 .. m |-> data[mapped(i, o \div BSIZE)][(o % BSIZE) + k - 1]] \o loop[o + m]
    IN  loop[off]

\* What readi() returns: -1 is <<"bad">>.
readi(i, off, n) ==
    IF off > size[i] THEN <<"bad">> ELSE copied(i, off, Least(off + n, size[i]))

\* Mutant: the slop for writes that are not aligned is forgotten.
max_noslop == ((LOGSIZE - 1 - 1) \div 2) * BSIZE

\* The bytes that filewrite() writes in one transaction.
max == ((LOGSIZE - 1 - 1 - 2) \div 2) * BSIZE

\* filewrite() of n bytes with value v at off, which fileseek() keeps within the file.
filewrite(i, off, n, v) ==
    /\ At(i, "idle") /\ off <= size[i] /\ off \in Seeks \cup {size[i]}
    /\ op' = [op EXCEPT ![i] = [at |-> "chunk", off |-> off, left |-> n, v |-> v]]
    /\ UNCHANGED <<bitmap, data, a, addrs, size, dinode, bytes, logged, panic>>

toolarge(end) == end > MAXFILE * BSIZE

\* The next chunk: writei() refuses what would not fit in a file.
chunk(i) ==
    /\ At(i, "chunk")
    /\ LET o  == op[i]
           n1 == Least(o.left, max)
       IN  op' = [op EXCEPT ![i] =
               IF toolarge(o.off + n1) THEN Idle
               ELSE [at |-> "write", off |-> o.off, left |-> o.left, v |-> o.v,
                     start |-> o.off, end |-> o.off + n1]]
    /\ logged' = [logged EXCEPT ![i] = {}]
    /\ UNCHANGED <<bitmap, data, a, addrs, size, dinode, bytes, panic>>

\* writei() is to write to block Bn(i) of the file.
Bn(i) == op[i].off \div BSIZE
Writing(i) == At(i, "write") /\ op[i].off < op[i].end

\* bmap() allocates the indirect block.
bmapindirect(i) ==
    /\ Writing(i) /\ Bn(i) >= NDIRECT /\ addrs[i][NDIRECT] = 0
    /\ \E b \in balloc :
          /\ bitmap' = bitmap \cup {b}
          /\ a' = [a EXCEPT ![b] = bzero(b)] /\ data' = [data EXCEPT ![b] = NoBytes]
          /\ addrs' = [addrs EXCEPT ![i][NDIRECT] = b]
          /\ log_write(i, {DBLOCK(b), BBLOCK(b)})
    /\ UNCHANGED <<size, dinode, op, bytes, panic>>

\* bmap() allocates the block itself.
bmap(i) ==
    /\ Writing(i) /\ mapped(i, Bn(i)) = 0
    /\ Bn(i) >= NDIRECT => addrs[i][NDIRECT] # 0
    /\ \E b \in balloc :
          /\ bitmap' = bitmap \cup {b}
          /\ data' = [data EXCEPT ![b] = NoBytes]
          /\ IF Bn(i) < NDIRECT
             THEN /\ addrs' = [addrs EXCEPT ![i][Bn(i)] = b]
                  /\ a' = [a EXCEPT ![b] = bzero(b)]
                  /\ log_write(i, {DBLOCK(b), BBLOCK(b)})
             ELSE /\ a' = [a EXCEPT ![b] = bzero(b), ![addrs[i][NDIRECT]][Bn(i) - NDIRECT] = b]
                  /\ log_write(i, {DBLOCK(b), BBLOCK(b), DBLOCK(addrs[i][NDIRECT])}) /\ UNCHANGED addrs
    /\ UNCHANGED <<size, dinode, op, bytes, panic>>

\* balloc: out of blocks.
outofblocks(i) ==
    /\ Writing(i) /\ mapped(i, Bn(i)) = 0 /\ balloc = {}
    /\ panic' = "balloc: out of blocks"
    /\ UNCHANGED <<bitmap, data, a, addrs, size, dinode, op, bytes, logged>>

\* What writei() copies to the block of off.
portion(off, end) == Least(end - off, BSIZE - (off % BSIZE))

\* The loop of writei() copies to one block.  A byte is a record of the file
\* and the place it is meant for, and of what was written.
writeblock(i) ==
    /\ Writing(i) /\ mapped(i, Bn(i)) # 0
    /\ LET b   == mapped(i, Bn(i))
           off == op[i].off
           m   == portion(off, op[i].end)
       IN  /\ data' = [data EXCEPT ![b] = [o \in 0 .. BSIZE - 1 |->
                          IF o \in off % BSIZE .. (off % BSIZE) + m - 1
                          THEN <<i, Bn(i) * BSIZE + o, op[i].v>> ELSE @[o]]]
           /\ op' = [op EXCEPT ![i].off = off + m]
           /\ log_write(i, {DBLOCK(b)})
    /\ UNCHANGED <<bitmap, a, addrs, size, dinode, bytes, panic>>

\* Mutant: the inode is written in the last chunk only.
updates_late(i) == op[i].off > size[i] /\ op[i].left = op[i].end - op[i].start

\* The end of writei() changes the inode only if the file has grown.
updates(i) == op[i].off > size[i]

\* The end of writei(); filewrite() goes on to the next chunk.
writedone(i) ==
    /\ At(i, "write") /\ op[i].off = op[i].end
    /\ LET o    == op[i]
           left == o.left - (o.end - o.start)
           new  == IF updates(i) THEN o.off ELSE size[i]
       IN  /\ size' = [size EXCEPT ![i] = new]
           /\ IF updates(i)
              THEN /\ dinode' = [dinode EXCEPT ![i] = [addrs |-> addrs[i], size |-> new]]
                   /\ log_write(i, {IBLOCK(i)})
              ELSE UNCHANGED <<dinode, logged>>
           /\ bytes' = [bytes EXCEPT ![i] = [k \in 1 .. Len(@) \cup 1 .. o.end |->
                            IF k \in o.start + 1 .. o.end THEN <<i, k - 1, o.v>> ELSE @[k]]]
           /\ op' = [op EXCEPT ![i] =
                  IF left = 0 THEN Idle
                  ELSE [at |-> "chunk", off |-> o.off, left |-> left, v |-> o.v]]
    /\ UNCHANGED <<bitmap, data, a, addrs, panic>>

-----------------------------------------------------------------------------
(* itrunc                                                                  *)

\* iput() of the last reference to an inode without links.
truncate(i) ==
    /\ At(i, "idle")
    /\ op' = [op EXCEPT ![i] = [at |-> "trunc", n |-> 0]]
    /\ logged' = [logged EXCEPT ![i] = {}]
    /\ UNCHANGED <<bitmap, data, a, addrs, size, dinode, bytes, panic>>

\* The number at position n of the loops of itrunc(): the direct blocks, the
\* blocks in the indirect block, and the indirect block.
freeing(i, n) == IF n < MAXFILE THEN mapped(i, n) ELSE addrs[i][NDIRECT]

\* Mutant: the indirect block itself is not freed.
truncs_direct == MAXFILE

truncs == MAXFILE + 1

\* One turn of the loops.  Numbers in the indirect block are not erased.
itrunc(i) ==
    /\ At(i, "trunc") /\ op[i].n < truncs
    /\ LET n == op[i].n
           b == freeing(i, n)
       IN  /\ IF b = 0 THEN UNCHANGED <<bitmap, logged, panic>> ELSE bfree(i, b)
           /\ addrs' = [addrs EXCEPT ![i] = [m \in 0 .. NDIRECT |->
                  IF (m = n /\ n < NDIRECT) \/ (m = NDIRECT /\ n = MAXFILE) THEN 0 ELSE @[m]]]
           /\ op' = [op EXCEPT ![i].n = n + 1]
    /\ UNCHANGED <<data, a, size, dinode, bytes>>

\* The end of itrunc(), and of iput(): the inode is free, to be allocated anew.
truncated(i) ==
    /\ At(i, "trunc") /\ op[i].n = truncs
    /\ addrs' = [addrs EXCEPT ![i] = NoAddrs] /\ size' = [size EXCEPT ![i] = 0]
    /\ dinode' = [dinode EXCEPT ![i] = [addrs |-> NoAddrs, size |-> 0]]
    /\ log_write(i, {IBLOCK(i)})
    /\ op' = [op EXCEPT ![i] = Idle] /\ bytes' = [bytes EXCEPT ![i] = <<>>]
    /\ UNCHANGED <<bitmap, data, a, panic>>

Next ==
    \E i \in Inodes :
        \/ \E off \in 0 .. MAXFILE * BSIZE, n \in Sizes[i], v \in Values : filewrite(i, off, n, v)
        \/ chunk(i) \/ bmapindirect(i) \/ bmap(i) \/ outofblocks(i) \/ writeblock(i) \/ writedone(i)
        \/ truncate(i) \/ itrunc(i) \/ truncated(i)

Spec == Init /\ [][Next]_vars

-----------------------------------------------------------------------------
(* Properties                                                              *)

\* Block numbers and sizes have the types of fs.h and file.h, and a file has at
\* most MAXFILE blocks.
TypeOK ==
    /\ bitmap \subseteq Blocks
    /\ addrs \in [Inodes -> [0 .. NDIRECT -> {0} \cup Blocks]]
    /\ a \in [Blocks -> [0 .. NINDIRECT - 1 -> {0} \cup Blocks]]
    /\ size \in [Inodes -> 0 .. MAXFILE * BSIZE]
    /\ op \in [Inodes -> [at : {"idle"}] \cup [at : {"trunc"}, n : 0 .. MAXFILE + 1]
                 \cup [at : {"chunk"}, off : 0 .. MAXFILE * BSIZE, left : Nat, v : Values]
                 \cup [at : {"write"}, off : 0 .. MAXFILE * BSIZE, left : Nat, v : Values,
                       start : Nat, end : 0 .. MAXFILE * BSIZE]]

\* The places of file i that still have their block: itrunc() leaves the
\* numbers it has freed in the indirect block.
Places(i) ==
    {n \in 0 .. MAXFILE : freeing(i, n) # 0 /\ (op[i].at = "trunc" => n >= op[i].n)}

\* Every block is free, or in use in one place of one file: balloc() gives out no
\* block twice, itrunc() gives back every block of a file, and never finds that
\* it is "freeing free block".
BlocksAccounted ==
    LET places == UNION {{<<i, n>> : n \in Places(i)} : i \in Inodes}
        block(x) == freeing(x[1], x[2])
    IN  /\ TypeOK
        /\ \A x, y \in places : block(x) = block(y) => x = y
        /\ bitmap = {block(x) : x \in places}
        /\ panic # "freeing free block"

\* readi() of a file that nobody changes gives the bytes that were written, from
\* any offset and of any length, whatever happened to other files.
ReadsBack ==
    \A i \in Inodes : op[i].at = "idle" =>
        \A off \in 0 .. size[i], n \in 0 .. MAXFILE * BSIZE :
            readi(i, off, n) = SubSeq(bytes[i], off + 1, Least(off + n, Len(bytes[i])))

\* Between operations the inode on the disk is the one in memory: bmap() changes
\* addrs without iupdate() and relies on writei() to do it.
InodeOnDisk ==
    \A i \in Inodes : op[i].at \in {"idle", "chunk"} => dinode[i] = [addrs |-> addrs[i], size |-> size[i]]

\* A chunk of filewrite() writes at most LOGSIZE blocks ("to avoid exceeding the
\* maximum log transaction size"): those that writei() has passed to log_write,
\* the bitmap and the indirect block among them, and the inode at its end.
ChunkFits ==
    \A i \in Inodes : op[i].at = "write" => Cardinality(logged[i] \cup {IBLOCK(i)}) <= LOGSIZE

=============================================================================
