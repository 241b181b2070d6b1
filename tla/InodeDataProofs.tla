-------------------------- MODULE InodeDataProofs --------------------------
(***************************************************************************)
(* The safety of InodeData for any number of inodes and blocks, and any    *)
(* sizes of blocks, files and log: every block is free or in one place of  *)
(* one file, between operations the inode on the disk is the one in memory,*)
(* a chunk of filewrite() fits in the log, and readi() gives the bytes     *)
(* that were written.                                                      *)
(***************************************************************************)
EXTENDS InodeData, TLAPS

\* A leaf is tried with Zenon first, briefly: most need no arithmetic.
USE ZenonT(2), SMTT(20), ZenonT(20)

-----------------------------------------------------------------------------
(* The inductive invariant                                                 *)

\* Block b is in place n of file i.
Owns(i, n, b) == n \in Places(i) /\ freeing(i, n) = b

\* BlocksAccounted, place by place.
Accounted ==
    /\ \A i, j \in Inodes, n, m \in 0 .. MAXFILE, b \in Blocks :
          Owns(i, n, b) /\ Owns(j, m, b) => i = j /\ n = m
    /\ \A b \in Blocks : b \in bitmap <=> \E i \in Inodes, n \in 0 .. MAXFILE : Owns(i, n, b)

\* itrunc() has forgotten the indirect block when it has freed it.
Forgotten ==
    \A i \in Inodes : op[i].at = "trunc" /\ op[i].n = MAXFILE + 1 => addrs[i][NDIRECT] = 0

\* A chunk is a part of what is left to write, and not larger than max.
ChunkOK(o) == o.start <= o.end /\ o.end <= o.start + o.left /\ o.end <= o.start + max

Chunked == \A i \in Inodes : op[i].at = "write" => ChunkOK(op[i])

\* The blocks of file i below the offset o are there.
Filled(i, o) == \A n \in 0 .. MAXFILE - 1 : n * BSIZE < o => mapped(i, n) # 0

Saved(i) == dinode[i] = [addrs |-> addrs[i], size |-> size[i]]

\* A write that has allocated a block ends behind the end of the file, so that
\* writei() will call iupdate().
DiskOK(i) ==
    /\ op[i].at \in {"idle", "chunk"} => Saved(i)
    /\ op[i].at \in {"idle", "chunk", "write"} => Filled(i, size[i])
    /\ op[i].at = "chunk" => op[i].off <= size[i]
    /\ op[i].at = "write" =>
          /\ op[i].start <= size[i] /\ op[i].start <= op[i].off /\ op[i].off <= op[i].end
          /\ Saved(i) \/ op[i].end > size[i]
          /\ Filled(i, op[i].off)

Dinodes == [addrs : [0 .. NDIRECT -> {0} \cup Blocks], size : 0 .. MAXFILE * BSIZE]

DiskInv == dinode \in [Inodes -> Dinodes] /\ \A i \in Inodes : DiskOK(i)

BlockInv == TypeOK /\ Accounted /\ Forgotten /\ Chunked /\ panic # "freeing free block"

IInv == BlockInv /\ DiskInv

-----------------------------------------------------------------------------
(* Constants, and the operations on an inode                               *)

LEMMA Constants ==
    /\ BSIZE \in Nat \ {0} /\ NDIRECT \in Nat /\ NINDIRECT \in Nat \ {0}
    /\ MAXFILE \in Nat \ {0} /\ MAXFILE = NDIRECT + NINDIRECT
    /\ 0 \notin Blocks /\ Blocks \subseteq Nat
    /\ NDIRECT \in 0 .. NDIRECT /\ MAXFILE \in 0 .. MAXFILE /\ ~ (MAXFILE < MAXFILE)
<1>1. BSIZE \in Nat \ {0} /\ NDIRECT \in Nat /\ NINDIRECT \in Nat \ {0} /\ NBLOCKS \in Nat
  BY ConstAssumption
<1> QED
  BY <1>1 DEF MAXFILE, Blocks

LEMMA ChunkSize == max \in Nat /\ MAXFILE * BSIZE \in Nat
<1>1. BSIZE \in Nat /\ LOGSIZE \in Nat /\ LOGSIZE > 5
  BY ConstAssumption
<1>2. LOGSIZE - 1 - 1 - 2 \in Nat
  BY <1>1
<1> QED
  BY <1>1, <1>2, Constants DEF max

\* The state of an operation.
Idles == [at : {"idle"}]
Truncs == [at : {"trunc"}, n : 0 .. MAXFILE + 1]
Chunks == [at : {"chunk"}, off : 0 .. MAXFILE * BSIZE, left : Nat, v : Values]
Writes == [at : {"write"}, off : 0 .. MAXFILE * BSIZE, left : Nat, v : Values,
           start : Nat, end : 0 .. MAXFILE * BSIZE]
Ops == Idles \cup Truncs \cup Chunks \cup Writes

LEMMA OpType == TypeOK => op \in [Inodes -> Ops]
  BY DEF TypeOK, Ops, Idles, Truncs, Chunks, Writes

LEMMA OpFields ==
    ASSUME NEW o \in Ops
    PROVE  /\ o.at \in {"idle", "trunc", "chunk", "write"}
           /\ o.at = "trunc" => o \in Truncs
           /\ o.at = "chunk" => o \in Chunks
           /\ o.at = "write" => o \in Writes
<1>1. CASE o \in Idles
  BY <1>1 DEF Idles
<1>2. CASE o \in Truncs
  BY <1>2 DEF Truncs
<1>3. CASE o \in Chunks
  BY <1>3 DEF Chunks
<1>4. CASE o \in Writes
  BY <1>4 DEF Writes
<1> QED
  BY <1>1, <1>2, <1>3, <1>4 DEF Ops

LEMMA OpTrunc ==
    ASSUME NEW o \in Truncs
    PROVE  o.n \in 0 .. MAXFILE + 1 /\ o.n \in Nat
<1>1. o.n \in 0 .. MAXFILE + 1
  BY DEF Truncs
<1> QED
  BY <1>1, Constants

LEMMA OpChunk ==
    ASSUME NEW o \in Chunks
    PROVE  o.off \in 0 .. MAXFILE * BSIZE /\ o.off \in Nat /\ o.left \in Nat /\ o.v \in Values
<1>1. o.off \in 0 .. MAXFILE * BSIZE /\ o.left \in Nat /\ o.v \in Values
  BY DEF Chunks
<1> QED
  BY <1>1, ChunkSize

LEMMA OpWrite ==
    ASSUME NEW o \in Writes
    PROVE  /\ o.off \in 0 .. MAXFILE * BSIZE /\ o.off \in Nat /\ o.left \in Nat /\ o.v \in Values
           /\ o.start \in Nat /\ o.end \in 0 .. MAXFILE * BSIZE /\ o.end \in Nat
<1>1. /\ o.off \in 0 .. MAXFILE * BSIZE /\ o.left \in Nat /\ o.v \in Values
      /\ o.start \in Nat /\ o.end \in 0 .. MAXFILE * BSIZE
  BY DEF Writes
<1> QED
  BY <1>1, ChunkSize

-----------------------------------------------------------------------------
(* Blocks and places                                                       *)

LEMMA AccountedSame ==
    ASSUME Accounted, bitmap' = bitmap,
           \A j \in Inodes, n \in 0 .. MAXFILE, b \in Blocks : Owns(j, n, b)' <=> Owns(j, n, b)
    PROVE  Accounted'
  BY DEF Accounted

\* A block that was free gets a place.
LEMMA AccountedAdd ==
    ASSUME Accounted, NEW i \in Inodes, NEW m \in 0 .. MAXFILE, NEW c \in Blocks,
           c \notin bitmap, bitmap' = bitmap \cup {c},
           \A j \in Inodes, n \in 0 .. MAXFILE, b \in Blocks :
              Owns(j, n, b)' <=> Owns(j, n, b) \/ (j = i /\ n = m /\ b = c)
    PROVE  Accounted'
<1>1. \A j \in Inodes, n \in 0 .. MAXFILE : ~ Owns(j, n, c)
  BY DEF Accounted
<1>2. ASSUME NEW j \in Inodes, NEW k \in Inodes, NEW n \in 0 .. MAXFILE, NEW q \in 0 .. MAXFILE,
             NEW b \in Blocks, Owns(j, n, b)', Owns(k, q, b)'
      PROVE  j = k /\ n = q
  <2>1. CASE b = c
    BY <1>1, <1>2, <2>1
  <2>2. CASE b # c
    BY <1>2, <2>2 DEF Accounted
  <2> QED
    BY <2>1, <2>2
<1>3. ASSUME NEW b \in Blocks
      PROVE  b \in bitmap' <=> \E j \in Inodes, n \in 0 .. MAXFILE : Owns(j, n, b)'
  <2>1. CASE b = c
    BY <2>1
  <2>2. CASE b # c
    BY <2>2 DEF Accounted
  <2> QED
    BY <2>1, <2>2
<1> QED
  BY <1>2, <1>3 DEF Accounted

\* The block of a place is freed.
LEMMA AccountedDrop ==
    ASSUME Accounted, NEW i \in Inodes, NEW m \in 0 .. MAXFILE, NEW c \in Blocks,
           Owns(i, m, c), bitmap' = bitmap \ {c},
           \A j \in Inodes, n \in 0 .. MAXFILE, b \in Blocks :
              Owns(j, n, b)' <=> Owns(j, n, b) /\ ~ (j = i /\ n = m)
    PROVE  Accounted'
<1>1. \A j \in Inodes, n \in 0 .. MAXFILE : Owns(j, n, c) => j = i /\ n = m
  BY DEF Accounted
<1>2. \A b \in Blocks : Owns(i, m, b) => b = c
  BY DEF Owns
<1>3. ASSUME NEW j \in Inodes, NEW k \in Inodes, NEW n \in 0 .. MAXFILE, NEW q \in 0 .. MAXFILE,
             NEW b \in Blocks, Owns(j, n, b)', Owns(k, q, b)'
      PROVE  j = k /\ n = q
  BY <1>3 DEF Accounted
<1>4. ASSUME NEW b \in Blocks
      PROVE  b \in bitmap' <=> \E j \in Inodes, n \in 0 .. MAXFILE : Owns(j, n, b)'
  <2>1. CASE b = c
    BY <1>1, <2>1
  <2>2. CASE b # c
    <3>1. b \in bitmap' <=> b \in bitmap
      BY <2>2
    <3>2. \A j \in Inodes, n \in 0 .. MAXFILE : Owns(j, n, b)' <=> Owns(j, n, b)
      BY <1>2, <2>2
    <3> QED
      BY <3>1, <3>2 DEF Accounted
  <2> QED
    BY <2>1, <2>2
<1> QED
  BY <1>3, <1>4 DEF Accounted

\* Block numbers are numbers of blocks.
LEMMA Numbers ==
    ASSUME TypeOK, NEW j \in Inodes
    PROVE  /\ addrs[j] \in [0 .. NDIRECT -> {0} \cup Blocks]
           /\ addrs[j][NDIRECT] \in {0} \cup Blocks
           /\ \A b \in Blocks : a[b] \in [0 .. NINDIRECT - 1 -> {0} \cup Blocks]
           /\ \A n \in 0 .. MAXFILE - 1 : mapped(j, n) \in {0} \cup Blocks
           /\ \A n \in 0 .. MAXFILE : freeing(j, n) \in {0} \cup Blocks
<1>1. addrs[j] \in [0 .. NDIRECT -> {0} \cup Blocks]
  BY DEF TypeOK
<1>2. addrs[j][NDIRECT] \in {0} \cup Blocks
  BY <1>1, Constants
<1>3. \A b \in Blocks : a[b] \in [0 .. NINDIRECT - 1 -> {0} \cup Blocks]
  BY DEF TypeOK
<1>4. ASSUME NEW n \in 0 .. MAXFILE - 1 PROVE mapped(j, n) \in {0} \cup Blocks
  <2>1. CASE n < NDIRECT
    <3>1. n \in 0 .. NDIRECT
      BY <2>1, Constants
    <3> QED
      BY <1>1, <2>1, <3>1 DEF mapped
  <2>2. CASE ~ (n < NDIRECT)
    <3>1. n - NDIRECT \in 0 .. NINDIRECT - 1
      BY <2>2, Constants
    <3>2. CASE addrs[j][NDIRECT] = 0
      BY <2>2, <3>2 DEF mapped
    <3>3. CASE addrs[j][NDIRECT] \in Blocks
      <4>1. a[addrs[j][NDIRECT]][n - NDIRECT] \in {0} \cup Blocks
        BY <1>3, <3>1, <3>3
      <4> QED
        BY <2>2, <4>1 DEF mapped
    <3> QED
      BY <1>2, <3>2, <3>3
  <2> QED
    BY <2>1, <2>2
<1>5. ASSUME NEW n \in 0 .. MAXFILE PROVE freeing(j, n) \in {0} \cup Blocks
  <2>1. n < MAXFILE => n \in 0 .. MAXFILE - 1
    BY Constants
  <2> QED
    BY <1>2, <1>4, <2>1 DEF freeing
<1> QED
  BY <1>1, <1>2, <1>3, <1>4, <1>5

\* What the place n of an inode has, in terms of the numbers.
LEMMA OwnsIs ==
    ASSUME NEW j, NEW n \in 0 .. MAXFILE, NEW b \in Blocks
    PROVE  Owns(j, n, b) <=> freeing(j, n) = b /\ (op[j].at = "trunc" => n >= op[j].n)
  BY Constants DEF Owns, Places

LEMMA OwnsIsNext ==
    ASSUME NEW j, NEW n \in 0 .. MAXFILE, NEW b \in Blocks
    PROVE  Owns(j, n, b)' <=> freeing(j, n)' = b /\ (op'[j].at = "trunc" => n >= op'[j].n)
  BY Constants DEF Owns, Places

\* An indirect block is in use, and in one file.
LEMMA IndirectOwned ==
    ASSUME BlockInv, NEW j \in Inodes, addrs[j][NDIRECT] # 0
    PROVE  /\ addrs[j][NDIRECT] \in Blocks /\ addrs[j][NDIRECT] \in bitmap
           /\ Owns(j, MAXFILE, addrs[j][NDIRECT])
<1>0. TypeOK /\ Accounted /\ Forgotten
  BY DEF BlockInv
<1>1. PICK b \in Blocks : b = addrs[j][NDIRECT]
  BY <1>0, Numbers
<1>2. freeing(j, MAXFILE) = b
  BY <1>1, Constants DEF freeing
<1>3. op[j].at = "trunc" => MAXFILE >= op[j].n
  <2>1. op[j].at = "trunc" => op[j].n \in 0 .. MAXFILE + 1 /\ op[j].n # MAXFILE + 1
    BY <1>0, OpType, OpFields, OpTrunc DEF Forgotten
  <2> QED
    BY <2>1, Constants
<1>4. Owns(j, MAXFILE, b)
  BY <1>2, <1>3, OwnsIs, Constants
<1>5. b \in bitmap
  BY <1>0, <1>4, Constants DEF Accounted
<1> QED
  BY <1>1, <1>4, <1>5

LEMMA IndirectDistinct ==
    ASSUME BlockInv, NEW i \in Inodes, NEW j \in Inodes, i # j, addrs[j][NDIRECT] # 0
    PROVE  addrs[i][NDIRECT] # addrs[j][NDIRECT]
<1>1. SUFFICES ASSUME addrs[i][NDIRECT] = addrs[j][NDIRECT] PROVE FALSE
  OBVIOUS
<1>2. PICK b : b = addrs[j][NDIRECT]
  OBVIOUS
<1>3. b \in Blocks /\ Owns(j, MAXFILE, b)
  BY <1>2, IndirectOwned
<1>4. Owns(i, MAXFILE, b)
  BY <1>1, <1>2, IndirectOwned
<1> QED
  BY <1>3, <1>4, Constants DEF BlockInv, Accounted

\* The numbers of an inode whose addrs and indirect block a step leaves alone.
LEMMA NumbersKept ==
    ASSUME NEW j, addrs'[j] = addrs[j],
           addrs[j][NDIRECT] # 0 => a'[addrs[j][NDIRECT]] = a[addrs[j][NDIRECT]]
    PROVE  \A n : mapped(j, n)' = mapped(j, n) /\ freeing(j, n)' = freeing(j, n)
<1>1. \A n : mapped(j, n)' = mapped(j, n)
  BY DEF mapped
<1> QED
  BY <1>1 DEF freeing

-----------------------------------------------------------------------------
(* The steps keep the blocks accounted                                     *)

LEMMA TypeNext ==
    ASSUME bitmap' \subseteq Blocks, addrs' \in [Inodes -> [0 .. NDIRECT -> {0} \cup Blocks]],
           a' \in [Blocks -> [0 .. NINDIRECT - 1 -> {0} \cup Blocks]],
           size' \in [Inodes -> 0 .. MAXFILE * BSIZE], op' \in [Inodes -> Ops]
    PROVE  TypeOK'
  BY DEF TypeOK, Ops, Idles, Truncs, Chunks, Writes

\* Nothing happens to blocks, and the operation on i does not go on freeing.
Quiet(i) ==
    /\ UNCHANGED <<bitmap, a, addrs, panic>>
    /\ op' = [op EXCEPT ![i] = op'[i]] /\ op'[i] \in Ops
    /\ op[i].at # "trunc" /\ (op'[i].at = "trunc" => op'[i].n = 0)
    /\ op'[i].at = "write" => ChunkOK(op'[i])
    /\ size' \in [Inodes -> 0 .. MAXFILE * BSIZE]

LEMMA QuietBlocks ==
    ASSUME BlockInv, NEW i \in Inodes, Quiet(i)
    PROVE  BlockInv'
<1>0. TypeOK /\ Accounted /\ Forgotten /\ Chunked
  BY DEF BlockInv
<1>1. op \in [Inodes -> Ops]
  BY <1>0, OpType
<1>2. op' \in [Inodes -> Ops] /\ \A j \in Inodes : j # i => op'[j] = op[j]
  BY <1>1 DEF Quiet
<1>3. TypeOK'
  BY <1>0, <1>2, TypeNext DEF TypeOK, Quiet
<1>4. Accounted'
  <2>1. ASSUME NEW j \in Inodes, NEW n \in 0 .. MAXFILE, NEW b \in Blocks
        PROVE  Owns(j, n, b)' <=> Owns(j, n, b)
    <3>1. freeing(j, n)' = freeing(j, n)
      BY NumbersKept DEF Quiet
    <3>2. n >= 0
      BY Constants
    <3>3. (op'[j].at = "trunc" => n >= op'[j].n) <=> (op[j].at = "trunc" => n >= op[j].n)
      BY <1>2, <3>2 DEF Quiet
    <3> QED
      BY <3>1, <3>3, OwnsIs, OwnsIsNext
  <2>2. bitmap' = bitmap
    BY DEF Quiet
  <2> QED
    BY <1>0, <2>1, <2>2, AccountedSame
<1>5. Forgotten'
  <2>1. MAXFILE + 1 # 0
    BY Constants
  <2> QED
    BY <1>0, <1>2, <2>1 DEF Forgotten, Quiet
<1>6. Chunked'
  <2>1. ASSUME NEW j \in Inodes, op'[j].at = "write" PROVE ChunkOK(op'[j])
    BY <1>0, <1>2, <2>1 DEF Chunked, Quiet
  <2> QED
    BY <2>1 DEF Chunked, ChunkOK
<1> QED
  BY <1>3, <1>4, <1>5, <1>6 DEF BlockInv, Quiet

LEMMA FilewriteQuiet ==
    ASSUME BlockInv, NEW i \in Inodes, NEW off \in 0 .. MAXFILE * BSIZE, NEW n \in Sizes[i],
           NEW v \in Values, filewrite(i, off, n, v)
    PROVE  Quiet(i) /\ op'[i] = [at |-> "chunk", off |-> off, left |-> n, v |-> v]
<1>1. op \in [Inodes -> Ops]
  BY OpType DEF BlockInv
<1>2. op'[i] = [at |-> "chunk", off |-> off, left |-> n, v |-> v]
  BY <1>1 DEF filewrite
<1>3. n \in Nat
  BY ConstAssumption
<1>4. op'[i] \in Ops
  BY <1>2, <1>3 DEF Ops, Chunks
<1> QED
  BY <1>1, <1>2, <1>4 DEF filewrite, At, Quiet, BlockInv, TypeOK

\* The chunk that chunk() starts, or what is left when writei() refuses it.
LEMMA ChunkQuiet ==
    ASSUME BlockInv, NEW i \in Inodes, chunk(i)
    PROVE  /\ Quiet(i) /\ op[i] \in Chunks
           /\ \/ op'[i] = Idle
              \/ \E n1 \in Nat :
                   /\ n1 <= max /\ n1 <= op[i].left
                   /\ op'[i] = [at |-> "write", off |-> op[i].off, left |-> op[i].left,
                                v |-> op[i].v, start |-> op[i].off, end |-> op[i].off + n1]
                   /\ op'[i] \in Writes
<1>1. op \in [Inodes -> Ops]
  BY OpType DEF BlockInv
<1>2. op[i] \in Chunks
  BY <1>1, OpFields DEF chunk, At
<1>3. PICK o : o = op[i]
  OBVIOUS
<1>4. o.off \in 0 .. MAXFILE * BSIZE /\ o.off \in Nat /\ o.left \in Nat /\ o.v \in Values
  BY <1>2, <1>3, OpChunk
<1>5. PICK n1 : n1 = Least(o.left, max)
  OBVIOUS
<1>6. n1 \in Nat /\ n1 <= max /\ n1 <= o.left
  BY <1>4, <1>5, ChunkSize DEF Least
<1>7. op'[i] = IF toolarge(o.off + n1) THEN Idle
               ELSE [at |-> "write", off |-> o.off, left |-> o.left, v |-> o.v,
                     start |-> o.off, end |-> o.off + n1]
  BY <1>1, <1>3, <1>5 DEF chunk
<1>8. CASE toolarge(o.off + n1)
  <2>1. op'[i] = Idle
    BY <1>7, <1>8
  <2>2. op'[i] \in Ops
    BY <2>1 DEF Ops, Idles, Idle
  <2>3. Quiet(i)
    BY <1>1, <1>7, <1>8, <2>2 DEF chunk, At, Quiet, BlockInv, TypeOK, Idle
  <2> QED
    BY <1>2, <2>1, <2>3
<1>9. CASE ~ toolarge(o.off + n1)
  <2>1. op'[i] = [at |-> "write", off |-> o.off, left |-> o.left, v |-> o.v,
                  start |-> o.off, end |-> o.off + n1]
    BY <1>7, <1>9
  <2>2. o.off + n1 \in 0 .. MAXFILE * BSIZE
    BY <1>4, <1>6, <1>9, ChunkSize DEF toolarge
  <2>3. op'[i] \in Writes
    BY <1>4, <2>1, <2>2 DEF Writes
  <2>4. op'[i] \in Ops
    BY <2>3 DEF Ops
  <2>5. ChunkOK(op'[i])
    BY <1>4, <1>6, <2>1, ChunkSize DEF ChunkOK
  <2>6. Quiet(i)
    BY <1>1, <2>1, <2>4, <2>5 DEF chunk, At, Quiet, BlockInv, TypeOK
  <2> QED
    BY <1>2, <1>3, <1>6, <2>1, <2>3, <2>6
<1> QED
  BY <1>8, <1>9

\* The block of an offset, and the place in it.
LEMMA Offset ==
    ASSUME NEW x \in Nat
    PROVE  /\ x \div BSIZE \in Nat /\ x % BSIZE \in 0 .. BSIZE - 1
           /\ (x \div BSIZE) * BSIZE \in Nat /\ x = (x \div BSIZE) * BSIZE + (x % BSIZE)
<1>1. BSIZE \in Nat \ {0}
  BY Constants
<1> QED
  BY <1>1

\* Lower blocks end before higher ones begin.
LEMMA BlockOrder ==
    ASSUME NEW m \in Nat, NEW n \in Nat
    PROVE  /\ m * BSIZE \in Nat /\ n * BSIZE \in Nat /\ (n + 1) * BSIZE = n * BSIZE + BSIZE
           /\ m < n => m * BSIZE + BSIZE <= n * BSIZE
           /\ m <= n => m * BSIZE <= n * BSIZE
<1>0. BSIZE \in Nat \ {0}
  BY Constants
<1>1. m * BSIZE \in Nat /\ n * BSIZE \in Nat /\ (n + 1) * BSIZE = n * BSIZE + BSIZE
  BY <1>0
<1>2. ASSUME NEW p \in Nat, NEW q \in Nat, p <= q PROVE p * BSIZE <= q * BSIZE
  <2>1. PICK d \in Nat : q = p + d
    <3>1. q - p \in Nat /\ q = p + (q - p)
      BY <1>2
    <3> QED
      BY <3>1
  <2>2. q * BSIZE = p * BSIZE + d * BSIZE /\ d * BSIZE \in Nat /\ p * BSIZE \in Nat
    BY <1>0, <2>1
  <2> QED
    BY <2>2
<1>3. m < n => (m + 1) * BSIZE <= n * BSIZE
  <2>1. m < n => m + 1 <= n /\ m + 1 \in Nat
    OBVIOUS
  <2> QED
    BY <1>2, <2>1
<1>4. (m + 1) * BSIZE = m * BSIZE + BSIZE
  BY <1>0
<1> QED
  BY <1>1, <1>2, <1>3, <1>4

\* An offset within a file is in one of its blocks.
LEMMA OffsetBlock ==
    ASSUME NEW x \in Nat, x < MAXFILE * BSIZE
    PROVE  x \div BSIZE \in 0 .. MAXFILE - 1
<1>1. PICK n \in Nat, r \in 0 .. BSIZE - 1 : n = x \div BSIZE /\ x = n * BSIZE + r
  BY Offset
<1>2. MAXFILE \in Nat /\ BSIZE \in Nat \ {0}
  BY Constants
<1>3. MAXFILE <= n => MAXFILE * BSIZE <= n * BSIZE
  BY <1>2, BlockOrder
<1>4. MAXFILE * BSIZE \in Nat /\ n * BSIZE \in Nat
  BY <1>2, BlockOrder
<1>5. ~ (MAXFILE <= n)
  BY <1>1, <1>2, <1>3, <1>4
<1> QED
  BY <1>1, <1>2, <1>5

\* What one turn of writei() copies: to the end of the block, or of the write.
LEMMA Portion ==
    ASSUME NEW off \in Nat, NEW end \in Nat, off < end, NEW m, m = portion(off, end)
    PROVE  /\ m \in Nat \ {0} /\ off + m <= end /\ (off % BSIZE) + m <= BSIZE
           /\ off + m = end \/ (off % BSIZE) + m = BSIZE
<1>1. off % BSIZE \in 0 .. BSIZE - 1 /\ BSIZE \in Nat \ {0}
  BY Offset, Constants
<1> QED
  BY <1>1 DEF portion, Least

LEMMA WriteblockQuiet ==
    ASSUME BlockInv, NEW i \in Inodes, writeblock(i)
    PROVE  /\ Quiet(i) /\ op[i] \in Writes /\ op'[i] \in Writes
           /\ op[i].off < op[i].end
           /\ op'[i] = [op[i] EXCEPT !.off = @ + portion(op[i].off, op[i].end)]
           /\ mapped(i, Bn(i)) # 0
<1>1. op \in [Inodes -> Ops]
  BY OpType DEF BlockInv
<1>2. op[i] \in Writes /\ op[i].off < op[i].end
  BY <1>1, OpFields DEF writeblock, Writing, At
<1>3. PICK o, m : o = op[i] /\ m = portion(o.off, o.end)
  OBVIOUS
<1>4. o.off \in Nat /\ o.end \in Nat /\ o.end \in 0 .. MAXFILE * BSIZE
  BY <1>2, <1>3, OpWrite
<1>5. m \in Nat \ {0} /\ o.off + m <= o.end
  BY <1>2, <1>3, <1>4, Portion
<1>6. o.off + m \in 0 .. MAXFILE * BSIZE
  BY <1>4, <1>5, ChunkSize
<1>7. op'[i] = [o EXCEPT !.off = o.off + m]
  BY <1>1, <1>3 DEF writeblock
<1>8. op'[i] \in Writes
  BY <1>2, <1>3, <1>6, <1>7 DEF Writes
<1>9. op'[i].at = "write" /\ op'[i] \in Ops
  BY <1>8 DEF Writes, Ops
<1>10. op' = [op EXCEPT ![i] = op'[i]]
  BY <1>1 DEF writeblock
<1>11. ChunkOK(op'[i])
  <2>1. ChunkOK(o)
    BY <1>2, <1>3 DEF BlockInv, Chunked, Writes
  <2>2. op'[i].start = o.start /\ op'[i].end = o.end /\ op'[i].left = o.left
    BY <1>2, <1>3, <1>7 DEF Writes
  <2> QED
    BY <2>1, <2>2 DEF ChunkOK
<1>12. Quiet(i)
  BY <1>9, <1>10, <1>11 DEF writeblock, Writing, At, Quiet, BlockInv, TypeOK
<1> QED
  BY <1>2, <1>3, <1>7, <1>8, <1>12 DEF writeblock

LEMMA WritedoneQuiet ==
    ASSUME BlockInv, NEW i \in Inodes, writedone(i)
    PROVE  /\ Quiet(i) /\ op[i] \in Writes /\ op[i].off = op[i].end
           /\ size' = [size EXCEPT ![i] = IF op[i].off > size[i] THEN op[i].off ELSE size[i]]
           /\ op'[i] = Idle \/ (op'[i] \in Chunks /\ op'[i].off = op[i].off)
<1>0. TypeOK /\ Chunked
  BY DEF BlockInv
<1>1. op \in [Inodes -> Ops]
  BY <1>0, OpType
<1>2. op[i] \in Writes /\ op[i].off = op[i].end /\ op[i].at = "write"
  BY <1>1, OpFields DEF writedone, At
<1>3. PICK o : o = op[i]
  OBVIOUS
<1>4. /\ o.off \in 0 .. MAXFILE * BSIZE /\ o.off \in Nat /\ o.left \in Nat /\ o.v \in Values
      /\ o.start \in Nat /\ o.end \in Nat
  BY <1>2, <1>3, OpWrite
<1>5. PICK left : left = o.left - (o.end - o.start)
  OBVIOUS
<1>6. left \in Nat
  <2>1. ChunkOK(o)
    BY <1>0, <1>2, <1>3 DEF Chunked
  <2> QED
    BY <1>4, <1>5, <2>1 DEF ChunkOK
<1>7. op'[i] = IF left = 0 THEN Idle ELSE [at |-> "chunk", off |-> o.off, left |-> left, v |-> o.v]
  BY <1>1, <1>3, <1>5 DEF writedone
<1>8. op' = [op EXCEPT ![i] = op'[i]]
  BY <1>1 DEF writedone
<1>9. /\ op'[i] = Idle \/ (op'[i] \in Chunks /\ op'[i].off = op[i].off)
      /\ op'[i].at \in {"idle", "chunk"} /\ op'[i] \in Ops
  <2>1. CASE left = 0
    BY <1>7, <2>1 DEF Idle, Ops, Idles
  <2>2. CASE left # 0
    <3>1. op'[i] = [at |-> "chunk", off |-> o.off, left |-> left, v |-> o.v]
      BY <1>7, <2>2
    <3>2. op'[i] \in Chunks
      BY <1>4, <1>6, <3>1 DEF Chunks
    <3> QED
      BY <1>3, <3>1, <3>2 DEF Ops
  <2> QED
    BY <2>1, <2>2
<1>10. size' = [size EXCEPT ![i] = IF o.off > size[i] THEN o.off ELSE size[i]]
  BY <1>3 DEF writedone, updates
<1>11. size' \in [Inodes -> 0 .. MAXFILE * BSIZE]
  <2>1. size \in [Inodes -> 0 .. MAXFILE * BSIZE]
    BY <1>0 DEF TypeOK
  <2> QED
    BY <1>4, <1>10, <2>1
<1>12. Quiet(i)
  BY <1>2, <1>8, <1>9, <1>11 DEF writedone, Quiet
<1> QED
  BY <1>2, <1>3, <1>9, <1>10, <1>12

LEMMA TruncateQuiet ==
    ASSUME BlockInv, NEW i \in Inodes, truncate(i)
    PROVE  Quiet(i) /\ op'[i].at = "trunc"
<1>1. op \in [Inodes -> Ops]
  BY OpType DEF BlockInv
<1>2. op'[i] = [at |-> "trunc", n |-> 0] /\ op' = [op EXCEPT ![i] = op'[i]]
  BY <1>1 DEF truncate
<1>3. 0 \in 0 .. MAXFILE + 1
  BY Constants
<1>4. op'[i] \in Ops
  BY <1>2, <1>3 DEF Ops, Truncs
<1> QED
  BY <1>1, <1>2, <1>4 DEF truncate, At, Quiet, BlockInv, TypeOK

\* Place m of file i gets the block c, and nothing else changes hands.
Alloc(i, m, c) ==
    /\ c \in Blocks /\ c \notin bitmap /\ bitmap' = bitmap \cup {c}
    /\ op[i].at = "write" /\ UNCHANGED <<op, size, dinode, panic>>
    /\ freeing(i, m) = 0
    /\ \A n \in 0 .. MAXFILE : freeing(i, n)' = IF n = m THEN c ELSE freeing(i, n)
    /\ \A j \in Inodes : j # i => \A n \in 0 .. MAXFILE : freeing(j, n)' = freeing(j, n)
    /\ \A j \in Inodes : j # i => addrs'[j] = addrs[j]

LEMMA AllocBlocks ==
    ASSUME BlockInv, NEW i \in Inodes, NEW m \in 0 .. MAXFILE, NEW c, Alloc(i, m, c), TypeOK'
    PROVE  BlockInv'
<1>0. TypeOK /\ Accounted /\ Forgotten /\ Chunked
  BY DEF BlockInv
<1>1. ASSUME NEW j \in Inodes, NEW n \in 0 .. MAXFILE, NEW b \in Blocks
      PROVE  Owns(j, n, b)' <=> Owns(j, n, b) \/ (j = i /\ n = m /\ b = c)
  <2>1. CASE j = i
    <3>1. Owns(i, n, b)' <=> freeing(i, n)' = b
      BY OwnsIsNext DEF Alloc
    <3>2. Owns(i, n, b) <=> freeing(i, n) = b
      BY OwnsIs DEF Alloc
    <3> QED
      BY <2>1, <3>1, <3>2, Constants DEF Alloc
  <2>2. CASE j # i
    BY <2>2, OwnsIs, OwnsIsNext DEF Alloc
  <2> QED
    BY <2>1, <2>2
<1>2. c \in Blocks /\ c \notin bitmap /\ bitmap' = bitmap \cup {c}
  BY DEF Alloc
<1>3. Accounted'
  BY <1>0, <1>1, <1>2, AccountedAdd
<1>4. Forgotten'
  BY <1>0 DEF Forgotten, Alloc
<1>5. Chunked'
  BY <1>0 DEF Chunked, ChunkOK, Alloc
<1> QED
  BY <1>3, <1>4, <1>5 DEF BlockInv, Alloc

\* A block that balloc() finds is no indirect block.
LEMMA Fresh ==
    ASSUME BlockInv, NEW c \in balloc
    PROVE  /\ c \in Blocks /\ c \notin bitmap
           /\ \A j \in Inodes : addrs[j][NDIRECT] # c
<1>1. c \in Blocks /\ c \notin bitmap
  BY DEF balloc
<1> QED
  BY <1>1, IndirectOwned, Constants

LEMMA BmapindirectAlloc ==
    ASSUME BlockInv, NEW i \in Inodes, bmapindirect(i)
    PROVE  /\ \E c : Alloc(i, MAXFILE, c)
           /\ TypeOK' /\ mapped(i, Bn(i)) = 0 /\ op[i] \in Writes /\ op[i].off < op[i].end
<1>0. TypeOK /\ addrs \in [Inodes -> [0 .. NDIRECT -> {0} \cup Blocks]]
      /\ a \in [Blocks -> [0 .. NINDIRECT - 1 -> {0} \cup Blocks]]
  BY DEF BlockInv, TypeOK
<1>1. op \in [Inodes -> Ops]
  BY <1>0, OpType
<1>2. op[i] \in Writes /\ op[i].at = "write" /\ op[i].off < op[i].end
  BY <1>1, OpFields DEF bmapindirect, Writing, At
<1>3. PICK c \in balloc :
        /\ bitmap' = bitmap \cup {c}
        /\ a' = [a EXCEPT ![c] = bzero(c)]
        /\ addrs' = [addrs EXCEPT ![i][NDIRECT] = c]
  BY DEF bmapindirect
<1>4. c \in Blocks /\ c \notin bitmap /\ \A j \in Inodes : addrs[j][NDIRECT] # c
  BY Fresh
<1>5. addrs[i][NDIRECT] = 0 /\ UNCHANGED <<op, size, dinode, panic>>
  BY DEF bmapindirect
<1>6. bzero(c) \in [0 .. NINDIRECT - 1 -> {0} \cup Blocks]
  BY DEF bzero
<1>7. /\ a'[c] = bzero(c) /\ \A b \in Blocks : b # c => a'[b] = a[b]
      /\ a' \in [Blocks -> [0 .. NINDIRECT - 1 -> {0} \cup Blocks]]
  BY <1>0, <1>3, <1>4, <1>6
<1>8. /\ addrs' \in [Inodes -> [0 .. NDIRECT -> {0} \cup Blocks]]
      /\ addrs'[i] = [addrs[i] EXCEPT ![NDIRECT] = c]
      /\ \A j \in Inodes : j # i => addrs'[j] = addrs[j]
  BY <1>0, <1>3, <1>4, Constants
<1>9. TypeOK'
  <2>1. bitmap' \subseteq Blocks
    BY <1>0, <1>3, <1>4 DEF TypeOK
  <2> QED
    BY <1>0, <1>1, <1>5, <1>7, <1>8, <2>1, TypeNext DEF TypeOK
<1>10. ASSUME NEW j \in Inodes, j # i PROVE \A n : freeing(j, n)' = freeing(j, n)
  <2>1. addrs[j][NDIRECT] # 0 => addrs[j][NDIRECT] \in Blocks
    BY <1>0, Numbers
  <2>2. addrs[j][NDIRECT] # 0 => a'[addrs[j][NDIRECT]] = a[addrs[j][NDIRECT]]
    BY <1>4, <1>7, <2>1
  <2>3. addrs'[j] = addrs[j]
    BY <1>8, <1>10
  <2> QED
    BY <2>2, <2>3, NumbersKept
<1>11. addrs'[i][NDIRECT] = c /\ c # 0 /\ \A n \in 0 .. NDIRECT : n # NDIRECT => addrs'[i][n] = addrs[i][n]
  <2>1. addrs[i] \in [0 .. NDIRECT -> {0} \cup Blocks]
    BY <1>0
  <2> QED
    BY <1>4, <1>8, <2>1, Constants
<1>12. ASSUME NEW n \in 0 .. MAXFILE
       PROVE  freeing(i, n)' = IF n = MAXFILE THEN c ELSE freeing(i, n)
  <2>1. CASE n = MAXFILE
    BY <1>11, <2>1, Constants DEF freeing
  <2>2. CASE n < NDIRECT
    <3>1. n \in 0 .. NDIRECT /\ n # NDIRECT /\ n < MAXFILE /\ n # MAXFILE
      BY <2>2, Constants
    <3> QED
      BY <1>11, <2>2, <3>1 DEF freeing, mapped
  <2>3. CASE ~ (n < NDIRECT) /\ n # MAXFILE
    <3>1. n - NDIRECT \in 0 .. NINDIRECT - 1 /\ n < MAXFILE
      BY <2>3, Constants
    <3>2. freeing(i, n) = 0
      BY <1>5, <2>3, <3>1 DEF freeing, mapped
    <3>3. freeing(i, n)' = bzero(c)[n - NDIRECT]
      BY <1>7, <1>11, <2>3, <3>1 DEF freeing, mapped
    <3> QED
      BY <2>3, <3>1, <3>2, <3>3 DEF bzero
  <2> QED
    BY <2>1, <2>2, <2>3
<1>13. freeing(i, MAXFILE) = 0 /\ mapped(i, Bn(i)) = 0
  <2>1. ~ (Bn(i) < NDIRECT)
    <3>1. op[i].off \in Nat
      BY <1>2, OpWrite
    <3>2. Bn(i) \in Nat
      BY <3>1, Offset DEF Bn
    <3>3. Bn(i) >= NDIRECT
      BY DEF bmapindirect
    <3> QED
      BY <3>2, <3>3, Constants
  <2> QED
    BY <1>5, <2>1, Constants DEF freeing, mapped
<1> QED
  BY <1>2, <1>3, <1>4, <1>5, <1>8, <1>9, <1>10, <1>12, <1>13 DEF Alloc

\* bmap() of a direct block.
LEMMA DirectNumbers ==
    ASSUME TypeOK, NEW i \in Inodes, NEW c \in Blocks, \A j \in Inodes : addrs[j][NDIRECT] # c,
           NEW k \in 0 .. MAXFILE - 1, k < NDIRECT,
           addrs' = [addrs EXCEPT ![i][k] = c], a' = [a EXCEPT ![c] = bzero(c)]
    PROVE  /\ addrs' \in [Inodes -> [0 .. NDIRECT -> {0} \cup Blocks]]
           /\ a' \in [Blocks -> [0 .. NINDIRECT - 1 -> {0} \cup Blocks]]
           /\ \A n \in 0 .. MAXFILE : freeing(i, n)' = IF n = k THEN c ELSE freeing(i, n)
           /\ \A j \in Inodes : j # i => addrs'[j] = addrs[j] /\ \A n : freeing(j, n)' = freeing(j, n)
<1>0. /\ addrs \in [Inodes -> [0 .. NDIRECT -> {0} \cup Blocks]]
      /\ a \in [Blocks -> [0 .. NINDIRECT - 1 -> {0} \cup Blocks]]
  BY DEF TypeOK
<1>1. bzero(c) \in [0 .. NINDIRECT - 1 -> {0} \cup Blocks]
  BY DEF bzero
<1>2. /\ \A b \in Blocks : b # c => a'[b] = a[b]
      /\ a' \in [Blocks -> [0 .. NINDIRECT - 1 -> {0} \cup Blocks]]
  BY <1>0, <1>1
<1>3. k \in 0 .. NDIRECT /\ k # NDIRECT /\ k < MAXFILE
  BY Constants
<1>4. /\ addrs' \in [Inodes -> [0 .. NDIRECT -> {0} \cup Blocks]]
      /\ addrs'[i] = [addrs[i] EXCEPT ![k] = c]
      /\ \A j \in Inodes : j # i => addrs'[j] = addrs[j]
  BY <1>0, <1>3
<1>5. /\ addrs'[i][k] = c /\ addrs'[i][NDIRECT] = addrs[i][NDIRECT]
      /\ \A n \in 0 .. NDIRECT : n # k => addrs'[i][n] = addrs[i][n]
  <2>1. addrs[i] \in [0 .. NDIRECT -> {0} \cup Blocks]
    BY <1>0
  <2> QED
    BY <1>3, <1>4, <2>1, Constants
<1>6. \A j \in Inodes : addrs[j][NDIRECT] # 0 => a'[addrs[j][NDIRECT]] = a[addrs[j][NDIRECT]]
  BY <1>2, Numbers
<1>7. ASSUME NEW n \in 0 .. MAXFILE PROVE freeing(i, n)' = IF n = k THEN c ELSE freeing(i, n)
  <2>1. CASE n < NDIRECT
    <3>1. n \in 0 .. NDIRECT /\ n < MAXFILE
      BY <2>1, Constants
    <3> QED
      BY <1>5, <2>1, <3>1 DEF freeing, mapped
  <2>2. CASE ~ (n < NDIRECT)
    <3>1. n # k
      BY <2>2
    <3>2. mapped(i, n)' = mapped(i, n)
      BY <1>5, <1>6, <2>2 DEF mapped
    <3> QED
      BY <1>5, <3>1, <3>2 DEF freeing
  <2> QED
    BY <2>1, <2>2
<1>8. ASSUME NEW j \in Inodes, j # i PROVE \A n : freeing(j, n)' = freeing(j, n)
  <2>1. addrs'[j] = addrs[j]
    BY <1>4, <1>8
  <2>2. addrs[j][NDIRECT] # 0 => a'[addrs[j][NDIRECT]] = a[addrs[j][NDIRECT]]
    BY <1>6
  <2> QED
    BY <2>1, <2>2, NumbersKept
<1> QED
  BY <1>2, <1>4, <1>7, <1>8

LEMMA StoredAt ==
    ASSUME NEW D, NEW S, NEW y \in [D -> S], NEW e \in D, NEW f \in D, NEW c,
           NEW z, z = [y EXCEPT ![e] = c]
    PROVE  z[f] = IF f = e THEN c ELSE y[f]
  OBVIOUS

\* bmap() of a block whose number is in the indirect block d.
LEMMA IndirectNumbers ==
    ASSUME BlockInv, NEW i \in Inodes, NEW c \in Blocks, \A j \in Inodes : addrs[j][NDIRECT] # c,
           NEW k \in 0 .. MAXFILE - 1, ~ (k < NDIRECT), NEW d, d = addrs[i][NDIRECT], d # 0,
           addrs' = addrs, a' = [a EXCEPT ![c] = bzero(c), ![d][k - NDIRECT] = c]
    PROVE  /\ a' \in [Blocks -> [0 .. NINDIRECT - 1 -> {0} \cup Blocks]]
           /\ \A n \in 0 .. MAXFILE : freeing(i, n)' = IF n = k THEN c ELSE freeing(i, n)
           /\ \A j \in Inodes : j # i => \A n : freeing(j, n)' = freeing(j, n)
<1>0. TypeOK /\ a \in [Blocks -> [0 .. NINDIRECT - 1 -> {0} \cup Blocks]]
  BY DEF BlockInv, TypeOK
<1>1. bzero(c) \in [0 .. NINDIRECT - 1 -> {0} \cup Blocks]
  BY DEF bzero
<1>2. d \in Blocks /\ d # c
  BY <1>0, Numbers
<1>3. PICK e \in 0 .. NINDIRECT - 1 : e = k - NDIRECT
  BY Constants
<1>4. /\ a'[d] = [a[d] EXCEPT ![e] = c]
      /\ \A b \in Blocks : b # c /\ b # d => a'[b] = a[b]
      /\ a' \in [Blocks -> [0 .. NINDIRECT - 1 -> {0} \cup Blocks]]
  <2>1. PICK z : z = [a EXCEPT ![c] = bzero(c)]
    OBVIOUS
  <2>2. z \in [Blocks -> [0 .. NINDIRECT - 1 -> {0} \cup Blocks]] /\ z[d] = a[d]
        /\ \A b \in Blocks : b # c => z[b] = a[b]
    BY <1>0, <1>1, <1>2, <2>1
  <2>3. a' = [z EXCEPT ![d][e] = c]
    BY <1>3, <2>1
  <2> QED
    BY <1>2, <1>3, <2>2, <2>3
<1>5. ASSUME NEW n \in 0 .. MAXFILE PROVE freeing(i, n)' = IF n = k THEN c ELSE freeing(i, n)
  <2>1. CASE n < NDIRECT
    BY <2>1 DEF freeing, mapped
  <2>2. CASE ~ (n < NDIRECT) /\ n < MAXFILE
    <3>1. PICK f \in 0 .. NINDIRECT - 1 : f = n - NDIRECT
      BY <2>2, Constants
    <3>2. freeing(i, n) = a[d][f] /\ freeing(i, n)' = a'[d][f]
      BY <2>2, <3>1 DEF freeing, mapped
    <3>3. n = k <=> f = e
      BY <1>3, <3>1, Constants
    <3>4. a[d] \in [0 .. NINDIRECT - 1 -> {0} \cup Blocks]
      BY <1>0, <1>2
    <3>5. a'[d][f] = IF f = e THEN c ELSE a[d][f]
      <4>1. PICK y, z : y = a[d] /\ z = a'[d]
        OBVIOUS
      <4>2. y \in [0 .. NINDIRECT - 1 -> {0} \cup Blocks] /\ z = [y EXCEPT ![e] = c]
        BY <1>4, <3>4, <4>1
      <4>3. z[f] = IF f = e THEN c ELSE y[f]
        BY <4>2, StoredAt
      <4> QED
        BY <4>1, <4>3
    <3> QED
      BY <3>2, <3>3, <3>5
  <2>3. CASE ~ (n < MAXFILE)
    <3>1. n # k
      BY <2>3, Constants
    <3> QED
      BY <2>3, <3>1 DEF freeing
  <2> QED
    BY <2>1, <2>2, <2>3
<1>6. ASSUME NEW j \in Inodes, j # i PROVE \A n : freeing(j, n)' = freeing(j, n)
  <2>1. addrs[j][NDIRECT] # 0 => addrs[j][NDIRECT] \in Blocks /\ addrs[j][NDIRECT] # d
    BY <1>0, <1>6, Numbers, IndirectDistinct
  <2>2. addrs[j][NDIRECT] # 0 => a'[addrs[j][NDIRECT]] = a[addrs[j][NDIRECT]]
    BY <1>4, <2>1
  <2>3. addrs'[j] = addrs[j]
    OBVIOUS
  <2> QED
    BY <2>2, <2>3, NumbersKept
<1> QED
  BY <1>4, <1>5, <1>6

LEMMA BmapAlloc ==
    ASSUME BlockInv, NEW i \in Inodes, bmap(i)
    PROVE  /\ \E c : Alloc(i, Bn(i), c)
           /\ Bn(i) \in 0 .. MAXFILE - 1
           /\ TypeOK' /\ mapped(i, Bn(i)) = 0 /\ op[i] \in Writes /\ op[i].off < op[i].end
<1>0. TypeOK
  BY DEF BlockInv
<1>1. op \in [Inodes -> Ops]
  BY <1>0, OpType
<1>2. op[i] \in Writes /\ op[i].at = "write" /\ op[i].off < op[i].end
  BY <1>1, OpFields DEF bmap, Writing, At
<1>3. PICK k \in 0 .. MAXFILE - 1 : k = Bn(i)
  <2>1. op[i].off \in Nat /\ op[i].end \in 0 .. MAXFILE * BSIZE
    BY <1>2, OpWrite
  <2>2. op[i].off < MAXFILE * BSIZE
    BY <1>2, <2>1, ChunkSize
  <2> QED
    BY <2>1, <2>2, OffsetBlock DEF Bn
<1>4. PICK c \in balloc :
        /\ bitmap' = bitmap \cup {c}
        /\ IF k < NDIRECT
           THEN addrs' = [addrs EXCEPT ![i][k] = c] /\ a' = [a EXCEPT ![c] = bzero(c)]
           ELSE a' = [a EXCEPT ![c] = bzero(c), ![addrs[i][NDIRECT]][k - NDIRECT] = c] /\ addrs' = addrs
  BY <1>3 DEF bmap
<1>5. c \in Blocks /\ c \notin bitmap /\ \A j \in Inodes : addrs[j][NDIRECT] # c
  BY Fresh
<1>6. mapped(i, k) = 0 /\ UNCHANGED <<op, size, dinode, panic>>
  BY <1>3 DEF bmap
<1>7. /\ addrs' \in [Inodes -> [0 .. NDIRECT -> {0} \cup Blocks]]
      /\ a' \in [Blocks -> [0 .. NINDIRECT - 1 -> {0} \cup Blocks]]
      /\ \A n \in 0 .. MAXFILE : freeing(i, n)' = IF n = k THEN c ELSE freeing(i, n)
      /\ \A j \in Inodes : j # i => addrs'[j] = addrs[j] /\ \A n : freeing(j, n)' = freeing(j, n)
  <2>1. CASE k < NDIRECT
    <3>1. addrs' = [addrs EXCEPT ![i][k] = c] /\ a' = [a EXCEPT ![c] = bzero(c)]
      BY <1>4, <2>1
    <3> QED
      BY <1>0, <1>5, <2>1, <3>1, DirectNumbers
  <2>2. CASE ~ (k < NDIRECT)
    <3>1. PICK d : d = addrs[i][NDIRECT]
      OBVIOUS
    <3>2. d # 0
      BY <1>3, <2>2, <3>1, Constants DEF bmap
    <3>3. a' = [a EXCEPT ![c] = bzero(c), ![d][k - NDIRECT] = c] /\ addrs' = addrs
      BY <1>4, <2>2, <3>1
    <3>4. /\ a' \in [Blocks -> [0 .. NINDIRECT - 1 -> {0} \cup Blocks]]
          /\ \A n \in 0 .. MAXFILE : freeing(i, n)' = IF n = k THEN c ELSE freeing(i, n)
          /\ \A j \in Inodes : j # i => \A n : freeing(j, n)' = freeing(j, n)
      BY <1>5, <2>2, <3>1, <3>2, <3>3, IndirectNumbers
    <3> QED
      BY <1>0, <3>3, <3>4 DEF TypeOK
  <2> QED
    BY <2>1, <2>2
<1>8. TypeOK'
  <2>1. bitmap' \subseteq Blocks
    BY <1>0, <1>4, <1>5 DEF TypeOK
  <2> QED
    BY <1>0, <1>1, <1>6, <1>7, <2>1, TypeNext DEF TypeOK
<1>9. freeing(i, k) = 0
  <2>1. k < MAXFILE
    BY Constants
  <2> QED
    BY <1>6, <2>1 DEF freeing
<1>10. Alloc(i, k, c)
  BY <1>2, <1>4, <1>5, <1>6, <1>7, <1>9 DEF Alloc
<1> QED
  BY <1>2, <1>3, <1>6, <1>8, <1>10

\* One turn of itrunc().
LEMMA ItruncBlocks ==
    ASSUME BlockInv, NEW i \in Inodes, itrunc(i)
    PROVE  BlockInv' /\ op[i].at = "trunc" /\ op'[i].at = "trunc"
<1>0. /\ TypeOK /\ Accounted /\ Forgotten /\ Chunked /\ panic # "freeing free block"
      /\ addrs \in [Inodes -> [0 .. NDIRECT -> {0} \cup Blocks]]
  BY DEF BlockInv, TypeOK
<1>1. op \in [Inodes -> Ops]
  BY <1>0, OpType
<1>2. op[i] \in Truncs /\ op[i].at = "trunc" /\ op[i].n < truncs
  BY <1>1, OpFields DEF itrunc, At
<1>3. PICK n \in 0 .. MAXFILE : n = op[i].n
  <2>1. op[i].n \in 0 .. MAXFILE + 1
    BY <1>2, OpTrunc
  <2> QED
    BY <1>2, <2>1, Constants DEF truncs
<1>4. PICK b : b = freeing(i, n)
  OBVIOUS
<1>5. b \in {0} \cup Blocks
  BY <1>0, <1>4, Numbers
<1>6. /\ op' = [op EXCEPT ![i].n = n + 1]
      /\ addrs' = [addrs EXCEPT ![i] = [m \in 0 .. NDIRECT |->
            IF (m = n /\ n < NDIRECT) \/ (m = NDIRECT /\ n = MAXFILE) THEN 0 ELSE addrs[i][m]]]
      /\ UNCHANGED <<a, size>>
  BY <1>3 DEF itrunc
<1>7. /\ op'[i] = [op[i] EXCEPT !.n = n + 1] /\ \A j \in Inodes : j # i => op'[j] = op[j]
  BY <1>1, <1>6
<1>8. op'[i] \in Truncs /\ op'[i].n = n + 1 /\ op'[i].at = "trunc"
  <2>1. n + 1 \in 0 .. MAXFILE + 1
    BY Constants
  <2> QED
    BY <1>2, <1>7, <2>1 DEF Truncs
<1>9. op' \in [Inodes -> Ops]
  <2>1. op'[i] \in Ops
    BY <1>8 DEF Ops
  <2> QED
    BY <1>1, <1>6, <1>7, <2>1
<1>10. /\ addrs' \in [Inodes -> [0 .. NDIRECT -> {0} \cup Blocks]]
       /\ \A j \in Inodes : j # i => addrs'[j] = addrs[j]
       /\ \A m \in 0 .. NDIRECT : addrs'[i][m] =
             IF (m = n /\ n < NDIRECT) \/ (m = NDIRECT /\ n = MAXFILE) THEN 0 ELSE addrs[i][m]
  <2>1. PICK x : x = [m \in 0 .. NDIRECT |->
            IF (m = n /\ n < NDIRECT) \/ (m = NDIRECT /\ n = MAXFILE) THEN 0 ELSE addrs[i][m]]
    OBVIOUS
  <2>2. x \in [0 .. NDIRECT -> {0} \cup Blocks]
    BY <1>0, <2>1
  <2>3. addrs' = [addrs EXCEPT ![i] = x]
    BY <1>6, <2>1
  <2> QED
    BY <1>0, <2>1, <2>2, <2>3
<1>11. ASSUME NEW j \in Inodes, j # i PROVE \A m : freeing(j, m)' = freeing(j, m)
  BY <1>6, <1>10, <1>11, NumbersKept
<1>12. ASSUME NEW m \in 0 .. MAXFILE, m > n PROVE freeing(i, m)' = freeing(i, m)
  <2>0. n # MAXFILE /\ n < MAXFILE
    BY <1>12, Constants
  <2>1. addrs'[i][NDIRECT] = addrs[i][NDIRECT]
    BY <1>10, <2>0, Constants
  <2>2. m < NDIRECT => addrs'[i][m] = addrs[i][m]
    <3>1. m < NDIRECT => m \in 0 .. NDIRECT /\ m # n /\ m # NDIRECT
      BY <1>12, Constants
    <3> QED
      BY <1>10, <3>1
  <2>3. mapped(i, m)' = mapped(i, m)
    BY <1>6, <2>1, <2>2 DEF mapped
  <2> QED
    BY <2>1, <2>3 DEF freeing
<1>13. ASSUME NEW j \in Inodes, NEW m \in 0 .. MAXFILE, NEW c \in Blocks
       PROVE  Owns(j, m, c)' <=> Owns(j, m, c) /\ ~ (j = i /\ m = n)
  <2>1. CASE j = i
    <3>1. Owns(i, m, c)' <=> freeing(i, m)' = c /\ m >= n + 1
      BY <1>8, OwnsIsNext
    <3>2. Owns(i, m, c) <=> freeing(i, m) = c /\ m >= n
      BY <1>2, <1>3, OwnsIs
    <3>3. (m >= n + 1 <=> m > n) /\ (m >= n /\ m # n <=> m > n)
      BY Constants
    <3> QED
      BY <1>12, <2>1, <3>1, <3>2, <3>3
  <2>2. CASE j # i
    <3>1. op'[j] = op[j] /\ freeing(j, m)' = freeing(j, m)
      BY <1>7, <1>11, <2>2
    <3> QED
      BY <2>2, <3>1, OwnsIs, OwnsIsNext
  <2> QED
    BY <2>1, <2>2
<1>14. Owns(i, n, b) \/ b = 0
  <2>1. n >= n
    BY Constants
  <2> QED
    BY <1>3, <1>4, <1>5, <2>1, OwnsIs
<1>15. Accounted' /\ panic' # "freeing free block" /\ bitmap' \subseteq Blocks
  <2>1. CASE b = 0
    <3>1. bitmap' = bitmap /\ panic' = panic
      BY <1>3, <1>4, <2>1 DEF itrunc
    <3>2. \A c \in Blocks : ~ Owns(i, n, c)
      BY <1>4, <2>1, OwnsIs, Constants
    <3>3. \A j \in Inodes, m \in 0 .. MAXFILE, c \in Blocks : Owns(j, m, c)' <=> Owns(j, m, c)
      BY <1>13, <3>2
    <3> QED
      BY <1>0, <3>1, <3>3, AccountedSame DEF TypeOK
  <2>2. CASE b # 0
    <3>1. b \in Blocks /\ Owns(i, n, b)
      BY <1>5, <1>14, <2>2
    <3>2. b \in bitmap
      BY <1>0, <3>1 DEF Accounted
    <3>3. bitmap' = bitmap \ {b} /\ panic' = "none"
      BY <1>3, <1>4, <2>2, <3>2 DEF itrunc, bfree
    <3>4. Accounted'
      BY <1>0, <1>13, <3>1, <3>3, AccountedDrop
    <3> QED
      BY <1>0, <3>3, <3>4 DEF TypeOK
  <2> QED
    BY <2>1, <2>2
<1>16. TypeOK'
  BY <1>0, <1>6, <1>9, <1>10, <1>15, TypeNext DEF TypeOK
<1>17. Forgotten'
  <2>1. n + 1 = MAXFILE + 1 => addrs'[i][NDIRECT] = 0
    BY <1>10, Constants
  <2> QED
    BY <1>0, <1>7, <1>8, <1>10, <2>1 DEF Forgotten
<1>18. Chunked'
  BY <1>0, <1>7, <1>8 DEF Chunked, ChunkOK
<1> QED
  BY <1>2, <1>8, <1>15, <1>16, <1>17, <1>18 DEF BlockInv

\* The end of itrunc().
LEMMA TruncatedBlocks ==
    ASSUME BlockInv, NEW i \in Inodes, truncated(i)
    PROVE  /\ BlockInv' /\ op'[i] = Idle /\ \A j \in Inodes : j # i => op'[j] = op[j] /\ addrs'[j] = addrs[j]
<1>0. /\ TypeOK /\ Accounted /\ Forgotten /\ Chunked
      /\ addrs \in [Inodes -> [0 .. NDIRECT -> {0} \cup Blocks]]
      /\ size \in [Inodes -> 0 .. MAXFILE * BSIZE]
  BY DEF BlockInv, TypeOK
<1>1. op \in [Inodes -> Ops]
  BY <1>0, OpType
<1>2. op[i].at = "trunc" /\ op[i].n = MAXFILE + 1
  BY DEF truncated, At, truncs
<1>3. /\ op'[i] = Idle /\ op' \in [Inodes -> Ops] /\ \A j \in Inodes : j # i => op'[j] = op[j]
  <2>1. Idle \in Ops
    BY DEF Ops, Idles, Idle
  <2> QED
    BY <1>1, <2>1 DEF truncated
<1>4. /\ addrs' \in [Inodes -> [0 .. NDIRECT -> {0} \cup Blocks]]
      /\ addrs'[i] = NoAddrs /\ \A j \in Inodes : j # i => addrs'[j] = addrs[j]
  <2>1. NoAddrs \in [0 .. NDIRECT -> {0} \cup Blocks]
    BY DEF NoAddrs
  <2> QED
    BY <1>0, <2>1 DEF truncated
<1>5. size' \in [Inodes -> 0 .. MAXFILE * BSIZE]
  <2>1. 0 \in 0 .. MAXFILE * BSIZE
    BY ChunkSize
  <2> QED
    BY <1>0, <2>1 DEF truncated
<1>6. bitmap' = bitmap /\ a' = a /\ panic' = panic
  BY DEF truncated
<1>7. TypeOK'
  BY <1>0, <1>3, <1>4, <1>5, <1>6, TypeNext DEF TypeOK
<1>8. ASSUME NEW n \in 0 .. MAXFILE PROVE freeing(i, n)' = 0
  <2>1. \A m \in 0 .. NDIRECT : addrs'[i][m] = 0
    BY <1>4 DEF NoAddrs
  <2>2. n < NDIRECT => n \in 0 .. NDIRECT
    BY Constants
  <2> QED
    BY <2>1, <2>2, Constants DEF freeing, mapped
<1>9. ASSUME NEW j \in Inodes, NEW n \in 0 .. MAXFILE, NEW b \in Blocks
      PROVE  Owns(j, n, b)' <=> Owns(j, n, b)
  <2>1. CASE j = i
    <3>1. ~ (n >= MAXFILE + 1)
      BY Constants
    <3>2. b # 0
      BY Constants
    <3>3. ~ Owns(j, n, b)'
      BY <1>8, <2>1, <3>2, OwnsIsNext
    <3>4. ~ Owns(j, n, b)
      BY <1>2, <2>1, <3>1, OwnsIs
    <3> QED
      BY <3>3, <3>4
  <2>2. CASE j # i
    <3>1. freeing(j, n)' = freeing(j, n)
      BY <1>4, <1>6, <2>2, NumbersKept
    <3> QED
      BY <1>3, <2>2, <3>1, OwnsIs, OwnsIsNext
  <2> QED
    BY <2>1, <2>2
<1>10. Accounted'
  BY <1>0, <1>6, <1>9, AccountedSame
<1>11. Forgotten' /\ Chunked'
  <2>1. op'[i].at = "idle"
    BY <1>3 DEF Idle
  <2>2. Forgotten'
    BY <1>0, <1>3, <1>4, <2>1 DEF Forgotten
  <2>3. ASSUME NEW j \in Inodes, op'[j].at = "write" PROVE ChunkOK(op'[j])
    BY <1>0, <1>3, <2>1, <2>3 DEF Chunked
  <2> QED
    BY <2>2, <2>3 DEF Chunked, ChunkOK
<1> QED
  BY <1>3, <1>4, <1>6, <1>7, <1>10, <1>11 DEF BlockInv

-----------------------------------------------------------------------------
(* The steps keep the inode on the disk up to date                         *)

\* An inode that a step leaves alone.
Untouched(j) ==
    /\ op'[j] = op[j] /\ size'[j] = size[j] /\ dinode'[j] = dinode[j] /\ addrs'[j] = addrs[j]
    /\ \A n \in 0 .. MAXFILE - 1 : mapped(j, n)' = mapped(j, n)

LEMMA DiskUntouched ==
    ASSUME NEW j \in Inodes, DiskOK(j), Untouched(j)
    PROVE  DiskOK(j)'
<1>1. Saved(j)' <=> Saved(j)
  BY DEF Saved, Untouched
<1>3. Filled(j, size[j])' <=> Filled(j, size[j])
  BY DEF Filled, Untouched
<1>4. Filled(j, op[j].off)' <=> Filled(j, op[j].off)
  BY DEF Filled, Untouched
<1> QED
  BY <1>1, <1>3, <1>4 DEF DiskOK, Untouched

\* Only the inode of the operation has to be looked at.
LEMMA DiskFrom ==
    ASSUME DiskInv, NEW i \in Inodes, DiskOK(i)', \A j \in Inodes : j # i => Untouched(j),
           dinode' \in [Inodes -> Dinodes]
    PROVE  DiskInv'
  BY DiskUntouched DEF DiskInv

LEMMA QuietOthers ==
    ASSUME BlockInv, DiskInv, NEW i \in Inodes, Quiet(i), NEW s, size' = [size EXCEPT ![i] = s] \/ size' = size,
           NEW d, dinode' = [dinode EXCEPT ![i] = d] \/ dinode' = dinode
    PROVE  /\ \A j \in Inodes : j # i => Untouched(j)
           /\ addrs' = addrs /\ \A n : mapped(i, n)' = mapped(i, n)
<1>1. op \in [Inodes -> Ops]
  BY OpType DEF BlockInv
<1>2. \A j \in Inodes : j # i => op'[j] = op[j] /\ size'[j] = size[j] /\ dinode'[j] = dinode[j]
  <2>1. size \in [Inodes -> 0 .. MAXFILE * BSIZE] /\ dinode \in [Inodes -> Dinodes]
    BY DEF BlockInv, TypeOK, DiskInv
  <2>2. \A j \in Inodes : j # i => op'[j] = op[j]
    BY <1>1 DEF Quiet
  <2>3. \A j \in Inodes : j # i => size'[j] = size[j]
    BY <2>1
  <2>4. \A j \in Inodes : j # i => dinode'[j] = dinode[j]
    BY <2>1
  <2> QED
    BY <2>2, <2>3, <2>4
<1>3. addrs' = addrs /\ a' = a
  BY DEF Quiet
<1>4. \A j : \A n : mapped(j, n)' = mapped(j, n)
  BY <1>3 DEF mapped
<1> QED
  BY <1>2, <1>3, <1>4 DEF Untouched

\* The other inodes, in a step that allocates or frees blocks.
LEMMA AllocOthers ==
    ASSUME NEW i \in Inodes, NEW m \in 0 .. MAXFILE, NEW c, Alloc(i, m, c)
    PROVE  \A j \in Inodes : j # i => Untouched(j)
<1>1. \A n \in 0 .. MAXFILE - 1 : n \in 0 .. MAXFILE /\ n < MAXFILE
  BY Constants
<1>2. \A j : \A n \in 0 .. MAXFILE - 1 : freeing(j, n) = mapped(j, n) /\ freeing(j, n)' = mapped(j, n)'
  BY <1>1 DEF freeing
<1> QED
  BY <1>1, <1>2 DEF Alloc, Untouched

LEMMA ItruncOthers ==
    ASSUME TypeOK, NEW i \in Inodes, itrunc(i)
    PROVE  \A j \in Inodes : j # i => Untouched(j)
<1>1. size' = size /\ dinode' = dinode /\ a' = a
  BY DEF itrunc
<1>2. ASSUME NEW j \in Inodes, j # i PROVE Untouched(j)
  <2>1. op'[j] = op[j]
    BY <1>2, OpType DEF itrunc
  <2>2. addrs'[j] = addrs[j]
    BY <1>2 DEF itrunc, TypeOK
  <2> QED
    BY <1>1, <2>1, <2>2, NumbersKept DEF Untouched
<1> QED
  BY <1>2

LEMMA TruncatedOthers ==
    ASSUME BlockInv, dinode \in [Inodes -> Dinodes], NEW i \in Inodes, truncated(i)
    PROVE  \A j \in Inodes : j # i => Untouched(j)
<1>1. \A j \in Inodes : j # i => op'[j] = op[j] /\ addrs'[j] = addrs[j]
  BY TruncatedBlocks
<1>2. /\ a' = a /\ size' = [size EXCEPT ![i] = 0]
      /\ dinode' = [dinode EXCEPT ![i] = [addrs |-> NoAddrs, size |-> 0]]
  BY DEF truncated
<1>3. ASSUME NEW j \in Inodes, j # i PROVE Untouched(j)
  <2>1. size'[j] = size[j]
    BY <1>2, <1>3 DEF BlockInv, TypeOK
  <2>2. dinode'[j] = dinode[j]
    BY <1>2, <1>3
  <2> QED
    BY <1>1, <1>2, <1>3, <2>1, <2>2, NumbersKept DEF Untouched
<1> QED
  BY <1>3

LEMMA FilewriteDisk ==
    ASSUME IInv, NEW i \in Inodes, NEW off \in 0 .. MAXFILE * BSIZE, NEW n \in Sizes[i],
           NEW v \in Values, filewrite(i, off, n, v)
    PROVE  DiskInv'
<1>0. BlockInv /\ DiskInv /\ DiskOK(i)
  BY DEF IInv, DiskInv
<1>1. Quiet(i) /\ op'[i] = [at |-> "chunk", off |-> off, left |-> n, v |-> v]
  BY <1>0, FilewriteQuiet
<1>2. size' = size /\ dinode' = dinode /\ op[i].at = "idle" /\ off <= size[i]
  BY DEF filewrite, At
<1>3. /\ \A j \in Inodes : j # i => Untouched(j)
      /\ addrs' = addrs /\ \A m : mapped(i, m)' = mapped(i, m)
  BY <1>0, <1>1, <1>2, QuietOthers
<1>4. Saved(i)' /\ Filled(i, size[i])'
  BY <1>0, <1>2, <1>3 DEF DiskOK, Saved, Filled
<1>5. DiskOK(i)'
  BY <1>1, <1>2, <1>4 DEF DiskOK
<1> QED
  BY <1>0, <1>2, <1>3, <1>5, DiskFrom DEF DiskInv

LEMMA ChunkDisk ==
    ASSUME IInv, NEW i \in Inodes, chunk(i)
    PROVE  DiskInv'
<1>0. BlockInv /\ DiskInv /\ DiskOK(i)
  BY DEF IInv, DiskInv
<1>1. Quiet(i) /\ op[i] \in Chunks
  BY <1>0, ChunkQuiet
<1>2. size' = size /\ dinode' = dinode /\ op[i].at = "chunk"
  BY DEF chunk, At
<1>3. /\ \A j \in Inodes : j # i => Untouched(j)
      /\ addrs' = addrs /\ \A m : mapped(i, m)' = mapped(i, m)
  BY <1>0, <1>1, <1>2, QuietOthers
<1>4. Saved(i)' /\ Filled(i, size[i])'
  BY <1>0, <1>2, <1>3 DEF DiskOK, Saved, Filled
<1>5. ASSUME op'[i] = Idle PROVE DiskOK(i)'
  <2>1. op'[i].at = "idle"
    BY <1>5 DEF Idle
  <2> QED
    BY <1>2, <1>4, <2>1 DEF DiskOK
<1>6. ASSUME \E n1 \in Nat :
                op'[i] = [at |-> "write", off |-> op[i].off, left |-> op[i].left,
                          v |-> op[i].v, start |-> op[i].off, end |-> op[i].off + n1]
      PROVE  DiskOK(i)'
  <2>1. PICK n1 \in Nat :
          op'[i] = [at |-> "write", off |-> op[i].off, left |-> op[i].left,
                    v |-> op[i].v, start |-> op[i].off, end |-> op[i].off + n1]
    BY <1>6
  <2>2. /\ op'[i].at = "write" /\ op'[i].start = op[i].off /\ op'[i].off = op[i].off
        /\ op'[i].end = op[i].off + n1
    BY <2>1
  <2>3. op[i].off \in Nat /\ op[i].off <= size[i] /\ size[i] \in Nat
    <3>1. op[i].off \in Nat /\ op[i].off <= size[i]
      BY <1>0, <1>1, <1>2, OpChunk DEF DiskOK
    <3>2. size[i] \in 0 .. MAXFILE * BSIZE
      BY <1>0 DEF BlockInv, TypeOK
    <3> QED
      BY <3>1, <3>2, ChunkSize
  <2>4. op'[i].start <= size'[i] /\ op'[i].start <= op'[i].off /\ op'[i].off <= op'[i].end
    BY <1>2, <2>2, <2>3
  <2>5. Filled(i, op[i].off)'
    <3>1. ASSUME NEW n \in 0 .. MAXFILE - 1, n * BSIZE < op'[i].off PROVE mapped(i, n)' # 0
      <4>1. n * BSIZE \in Nat
        BY BlockOrder, Constants
      <4>2. n * BSIZE < size[i]
        BY <2>2, <2>3, <3>1, <4>1
      <4> QED
        BY <1>0, <1>2, <1>3, <4>2 DEF DiskOK, Filled
    <3> QED
      BY <3>1 DEF Filled
  <2> QED
    BY <1>2, <1>4, <2>2, <2>4, <2>5 DEF DiskOK
<1>7. DiskOK(i)'
  <2>1. \/ op'[i] = Idle
        \/ \E n1 \in Nat :
             op'[i] = [at |-> "write", off |-> op[i].off, left |-> op[i].left,
                       v |-> op[i].v, start |-> op[i].off, end |-> op[i].off + n1]
    BY <1>0, ChunkQuiet
  <2> QED
    BY <1>5, <1>6, <2>1
<1> QED
  BY <1>0, <1>2, <1>3, <1>7, DiskFrom DEF DiskInv

LEMMA WriteblockDisk ==
    ASSUME IInv, NEW i \in Inodes, writeblock(i)
    PROVE  DiskInv'
<1>0. BlockInv /\ DiskInv /\ DiskOK(i)
  BY DEF IInv, DiskInv
<1>1. /\ Quiet(i) /\ op[i] \in Writes /\ op'[i] \in Writes
      /\ op[i].off < op[i].end
      /\ op'[i] = [op[i] EXCEPT !.off = @ + portion(op[i].off, op[i].end)]
      /\ mapped(i, Bn(i)) # 0
  BY <1>0, WriteblockQuiet
<1>2. size' = size /\ dinode' = dinode
  BY DEF writeblock
<1>3. /\ \A j \in Inodes : j # i => Untouched(j)
      /\ addrs' = addrs /\ \A m : mapped(i, m)' = mapped(i, m)
  BY <1>0, <1>1, <1>2, QuietOthers
<1>4. PICK o, m : o = op[i] /\ m = portion(o.off, o.end)
  OBVIOUS
<1>5. o.off \in Nat /\ o.end \in Nat /\ o.start \in Nat /\ o.at = "write"
  BY <1>1, <1>4, OpWrite DEF Writes
<1>6. m \in Nat \ {0} /\ o.off + m <= o.end /\ (o.off % BSIZE) + m <= BSIZE
  BY <1>1, <1>4, <1>5, Portion
<1>7. /\ op'[i].at = "write" /\ op'[i].start = o.start /\ op'[i].off = o.off + m
      /\ op'[i].end = o.end
  BY <1>1, <1>4 DEF Writes
<1>8. (Saved(i)' <=> Saved(i)) /\ (Filled(i, size[i])' <=> Filled(i, size[i]))
  BY <1>2, <1>3 DEF Saved, Filled
<1>9. Filled(i, op[i].off)'
  <2>1. ASSUME NEW n \in 0 .. MAXFILE - 1, n * BSIZE < o.off + m PROVE mapped(i, n) # 0
    <3>1. PICK k \in Nat, r \in 0 .. BSIZE - 1 : k = Bn(i) /\ o.off = k * BSIZE + r /\ r = o.off % BSIZE
      BY <1>4, <1>5, Offset DEF Bn
    <3>2. n \in Nat /\ BSIZE \in Nat \ {0}
      BY Constants
    <3>3. n * BSIZE \in Nat /\ k * BSIZE \in Nat /\ (k < n => k * BSIZE + BSIZE <= n * BSIZE)
      BY <3>2, BlockOrder
    <3>4. ~ (k < n)
      BY <1>6, <2>1, <3>1, <3>2, <3>3
    <3>5. CASE n = k
      BY <1>1, <3>1, <3>5
    <3>6. CASE n < k
      <4>1. n * BSIZE + BSIZE <= k * BSIZE
        BY <3>2, <3>6, BlockOrder
      <4>2. n * BSIZE < o.off
        BY <3>1, <3>2, <3>3, <4>1
      <4> QED
        BY <1>0, <1>4, <1>5, <4>2 DEF DiskOK, Filled
    <3>7. n = k \/ n < k
      BY <3>2, <3>4
    <3> QED
      BY <3>5, <3>6, <3>7
  <2> QED
    BY <1>3, <1>7, <2>1 DEF Filled
<1>10. /\ o.start <= size[i] /\ o.start <= o.off /\ (Saved(i) \/ o.end > size[i])
       /\ Filled(i, size[i])
  BY <1>0, <1>4, <1>5 DEF DiskOK
<1>11. o.start <= o.off + m
  BY <1>5, <1>6, <1>10
<1>12. DiskOK(i)'
  BY <1>2, <1>6, <1>7, <1>8, <1>9, <1>10, <1>11 DEF DiskOK
<1> QED
  BY <1>0, <1>2, <1>3, <1>12, DiskFrom DEF DiskInv

LEMMA WritedoneDisk ==
    ASSUME IInv, NEW i \in Inodes, writedone(i)
    PROVE  DiskInv'
<1>0. BlockInv /\ DiskInv /\ DiskOK(i) /\ dinode \in [Inodes -> Dinodes]
  BY DEF IInv, DiskInv
<1>1. /\ Quiet(i) /\ op[i] \in Writes /\ op[i].off = op[i].end
      /\ size' = [size EXCEPT ![i] = IF op[i].off > size[i] THEN op[i].off ELSE size[i]]
      /\ op'[i] = Idle \/ (op'[i] \in Chunks /\ op'[i].off = op[i].off)
  BY <1>0, WritedoneQuiet
<1>2. PICK o, s : o = op[i] /\ s = IF o.off > size[i] THEN o.off ELSE size[i]
  OBVIOUS
<1>3. o.off \in 0 .. MAXFILE * BSIZE /\ o.off \in Nat /\ o.at = "write" /\ o.off = o.end
  BY <1>1, <1>2, OpWrite DEF Writes
<1>4. addrs[i] \in [0 .. NDIRECT -> {0} \cup Blocks] /\ size \in [Inodes -> 0 .. MAXFILE * BSIZE]
  BY <1>0 DEF BlockInv, TypeOK
<1>5. size[i] \in Nat
  BY <1>4, ChunkSize
<1>6. s \in 0 .. MAXFILE * BSIZE /\ s \in Nat /\ o.off <= s /\ size[i] <= s /\ (s = o.off \/ s = size[i])
  BY <1>2, <1>3, <1>4, <1>5
<1>7. size'[i] = s
  BY <1>1, <1>2, <1>4
<1>8. dinode' = IF o.off > size[i] THEN [dinode EXCEPT ![i] = [addrs |-> addrs[i], size |-> s]] ELSE dinode
  BY <1>2 DEF writedone, updates
<1>9. [addrs |-> addrs[i], size |-> s] \in Dinodes
  BY <1>4, <1>6 DEF Dinodes
<1>10. dinode' \in [Inodes -> Dinodes]
  BY <1>0, <1>8, <1>9
<1>11. /\ \A j \in Inodes : j # i => Untouched(j)
       /\ addrs' = addrs /\ \A n : mapped(i, n)' = mapped(i, n)
  BY <1>0, <1>1, <1>8, QuietOthers
<1>12. dinode'[i] = [addrs |-> addrs[i], size |-> s]
  <2>1. CASE o.off > size[i]
    BY <1>0, <1>8, <2>1
  <2>2. CASE ~ (o.off > size[i])
    <3>1. Saved(i)
      BY <1>0, <1>2, <1>3, <2>2 DEF DiskOK
    <3>2. s = size[i]
      BY <1>2, <2>2
    <3> QED
      BY <1>8, <2>2, <3>1, <3>2 DEF Saved
  <2> QED
    BY <2>1, <2>2
<1>13. Saved(i)'
  BY <1>7, <1>11, <1>12 DEF Saved
<1>14. Filled(i, size[i])'
  <2>1. Filled(i, size[i]) /\ Filled(i, o.off)
    BY <1>0, <1>2, <1>3 DEF DiskOK
  <2>2. Filled(i, s)
    BY <1>6, <2>1
  <2> QED
    BY <1>7, <1>11, <2>2 DEF Filled
<1>15. op'[i].at = "idle" \/ (op'[i].at = "chunk" /\ op'[i].off <= size'[i])
  <2>1. op'[i] = Idle => op'[i].at = "idle"
    BY DEF Idle
  <2>2. op'[i] \in Chunks => op'[i].at = "chunk"
    BY DEF Chunks
  <2> QED
    BY <1>1, <1>2, <1>6, <1>7, <2>1, <2>2
<1>16. DiskOK(i)'
  BY <1>13, <1>14, <1>15 DEF DiskOK
<1> QED
  BY <1>0, <1>10, <1>11, <1>16, DiskFrom

LEMMA TruncateDisk ==
    ASSUME IInv, NEW i \in Inodes, truncate(i)
    PROVE  DiskInv'
<1>0. BlockInv /\ DiskInv
  BY DEF IInv
<1>1. Quiet(i) /\ op'[i].at = "trunc"
  BY <1>0, TruncateQuiet
<1>2. size' = size /\ dinode' = dinode
  BY DEF truncate
<1>3. \A j \in Inodes : j # i => Untouched(j)
  BY <1>0, <1>1, <1>2, QuietOthers
<1>4. DiskOK(i)'
  BY <1>1 DEF DiskOK
<1> QED
  BY <1>0, <1>2, <1>3, <1>4, DiskFrom DEF DiskInv

\* A place that has no block is not below the end of the file, so the write that
\* allocates it ends behind.
LEMMA AllocDisk ==
    ASSUME IInv, NEW i \in Inodes, NEW m \in 0 .. MAXFILE, NEW c, Alloc(i, m, c),
           mapped(i, Bn(i)) = 0, op[i] \in Writes, op[i].off < op[i].end
    PROVE  DiskInv'
<1>0. BlockInv /\ DiskInv /\ DiskOK(i) /\ TypeOK
  BY DEF IInv, DiskInv, BlockInv
<1>1. \A n \in 0 .. MAXFILE - 1 : n \in 0 .. MAXFILE /\ n < MAXFILE
  BY Constants
<1>2. \A j : \A n \in 0 .. MAXFILE - 1 : freeing(j, n) = mapped(j, n) /\ freeing(j, n)' = mapped(j, n)'
  BY <1>1 DEF freeing
<1>3. \A j \in Inodes : j # i => Untouched(j)
  BY AllocOthers
<1>4. c # 0
  BY Constants DEF Alloc
<1>5. \A n \in 0 .. MAXFILE - 1 : mapped(i, n) # 0 => mapped(i, n)' # 0
  BY <1>1, <1>2, <1>4 DEF Alloc
<1>6. PICK o : o = op[i]
  OBVIOUS
<1>7. /\ o.off \in Nat /\ o.end \in Nat /\ o.end \in 0 .. MAXFILE * BSIZE /\ o.at = "write"
      /\ o.off < o.end
  BY <1>6, OpWrite DEF Writes
<1>8. size[i] \in Nat
  BY <1>0, ChunkSize DEF TypeOK
<1>9. o.end > size[i]
  <2>1. PICK k \in Nat, r \in 0 .. BSIZE - 1 : k = Bn(i) /\ o.off = k * BSIZE + r
    BY <1>6, <1>7, Offset DEF Bn
  <2>2. o.off < MAXFILE * BSIZE
    BY <1>7, ChunkSize
  <2>3. k \in 0 .. MAXFILE - 1
    BY <1>6, <1>7, <2>1, <2>2, OffsetBlock DEF Bn
  <2>4. ~ (k * BSIZE < size[i])
    BY <1>0, <1>6, <1>7, <2>1, <2>3 DEF DiskOK, Filled
  <2>5. k * BSIZE \in Nat
    BY BlockOrder
  <2> QED
    BY <1>7, <1>8, <2>1, <2>4, <2>5
<1>10. size' = size /\ dinode' = dinode /\ op' = op
  BY DEF Alloc
<1>11. Filled(i, size[i])' /\ Filled(i, op[i].off)'
  <2>1. Filled(i, size[i]) /\ Filled(i, op[i].off)
    BY <1>0, <1>6, <1>7 DEF DiskOK
  <2> QED
    BY <1>5, <1>10, <2>1 DEF Filled
<1>12. DiskOK(i)'
  <2>1. /\ op[i].at = "write" /\ op[i].start <= size[i] /\ op[i].start <= op[i].off
        /\ op[i].off <= op[i].end /\ op[i].end > size[i]
    BY <1>0, <1>6, <1>7, <1>9 DEF DiskOK
  <2> QED
    BY <1>10, <1>11, <2>1 DEF DiskOK
<1> QED
  BY <1>0, <1>3, <1>10, <1>12, DiskFrom DEF DiskInv

LEMMA ItruncDisk ==
    ASSUME IInv, NEW i \in Inodes, itrunc(i)
    PROVE  DiskInv'
<1>0. BlockInv /\ DiskInv /\ TypeOK
  BY DEF IInv, BlockInv
<1>1. op'[i].at = "trunc"
  BY <1>0, ItruncBlocks
<1>2. dinode' = dinode
  BY DEF itrunc
<1>3. \A j \in Inodes : j # i => Untouched(j)
  BY <1>0, ItruncOthers
<1>4. DiskOK(i)'
  BY <1>1 DEF DiskOK
<1> QED
  BY <1>0, <1>2, <1>3, <1>4, DiskFrom DEF DiskInv

LEMMA TruncatedDisk ==
    ASSUME IInv, NEW i \in Inodes, truncated(i)
    PROVE  DiskInv'
<1>0. BlockInv /\ DiskInv /\ TypeOK /\ dinode \in [Inodes -> Dinodes]
  BY DEF IInv, BlockInv, DiskInv
<1>1. op'[i] = Idle
  BY <1>0, TruncatedBlocks
<1>2. /\ size' = [size EXCEPT ![i] = 0]
      /\ dinode' = [dinode EXCEPT ![i] = [addrs |-> NoAddrs, size |-> 0]]
      /\ addrs' = [addrs EXCEPT ![i] = NoAddrs]
  BY DEF truncated
<1>3. [addrs |-> NoAddrs, size |-> 0] \in Dinodes
  <2>1. 0 \in 0 .. MAXFILE * BSIZE
    BY ChunkSize
  <2> QED
    BY <2>1 DEF Dinodes, NoAddrs
<1>4. dinode' \in [Inodes -> Dinodes] /\ dinode'[i] = [addrs |-> NoAddrs, size |-> 0]
  BY <1>0, <1>2, <1>3
<1>5. size'[i] = 0 /\ addrs'[i] = NoAddrs
  BY <1>0, <1>2 DEF TypeOK
<1>6. \A j \in Inodes : j # i => Untouched(j)
  BY <1>0, TruncatedOthers
<1>7. Saved(i)'
  BY <1>4, <1>5 DEF Saved
<1>8. Filled(i, size[i])'
  <2>1. \A n \in 0 .. MAXFILE - 1 : ~ (n * BSIZE < 0)
    BY BlockOrder, Constants
  <2> QED
    BY <1>5, <2>1 DEF Filled
<1>9. op'[i].at = "idle"
  BY <1>1 DEF Idle
<1>10. DiskOK(i)'
  BY <1>7, <1>8, <1>9 DEF DiskOK
<1> QED
  BY <1>0, <1>4, <1>6, <1>10, DiskFrom

-----------------------------------------------------------------------------
(* Invariance                                                              *)

LEMMA InitInv == Init => IInv
<1> SUFFICES ASSUME Init PROVE IInv
  OBVIOUS
<1>1. \A i \in Inodes : op[i] = Idle /\ addrs[i] = NoAddrs /\ size[i] = 0
      /\ dinode[i] = [addrs |-> NoAddrs, size |-> 0]
  BY DEF Init
<1>2. \A i \in Inodes : op[i].at = "idle"
  BY <1>1 DEF Idle
<1>3. \A m \in 0 .. NDIRECT : NoAddrs[m] = 0
  BY DEF NoAddrs
<1>4. TypeOK
  <2>1. NoAddrs \in [0 .. NDIRECT -> {0} \cup Blocks] /\ 0 \in 0 .. MAXFILE * BSIZE /\ Idle \in [at : {"idle"}]
    BY ChunkSize DEF NoAddrs, Idle
  <2>2. bitmap \subseteq Blocks /\ a \in [Blocks -> [0 .. NINDIRECT - 1 -> {0} \cup Blocks]]
    BY DEF Init
  <2>3. /\ addrs \in [Inodes -> [0 .. NDIRECT -> {0} \cup Blocks]]
        /\ size \in [Inodes -> 0 .. MAXFILE * BSIZE]
    BY <2>1 DEF Init
  <2>4. op = [i \in Inodes |-> Idle]
    BY DEF Init
  <2> QED
    BY <2>1, <2>2, <2>3, <2>4 DEF TypeOK
<1>5. ASSUME NEW i \in Inodes, NEW n \in 0 .. MAXFILE PROVE freeing(i, n) = 0
  <2>1. n < NDIRECT => n \in 0 .. NDIRECT
    BY Constants
  <2> QED
    BY <1>1, <1>3, <2>1, Constants DEF freeing, mapped
<1>6. Accounted
  <2>1. \A i \in Inodes, n \in 0 .. MAXFILE, b \in Blocks : ~ Owns(i, n, b)
    BY <1>5, OwnsIs, Constants
  <2>2. bitmap = {}
    BY DEF Init
  <2> QED
    BY <2>1, <2>2 DEF Accounted
<1>7. Forgotten /\ Chunked /\ panic # "freeing free block"
  BY <1>2 DEF Forgotten, Chunked, Init
<1>8. dinode \in [Inodes -> Dinodes]
  <2>1. 0 \in 0 .. MAXFILE * BSIZE
    BY ChunkSize
  <2>2. [addrs |-> NoAddrs, size |-> 0] \in Dinodes
    BY <2>1 DEF Dinodes, NoAddrs
  <2> QED
    BY <2>2 DEF Init
<1>9. ASSUME NEW i \in Inodes PROVE DiskOK(i)
  <2>1. \A n \in 0 .. MAXFILE - 1 : ~ (n * BSIZE < 0)
    BY BlockOrder, Constants
  <2>2. Saved(i) /\ Filled(i, size[i])
    BY <1>1, <2>1 DEF Saved, Filled
  <2> QED
    BY <1>2, <2>2 DEF DiskOK
<1> QED
  BY <1>4, <1>6, <1>7, <1>8, <1>9 DEF IInv, BlockInv, DiskInv

\* Every step keeps the invariant.
LEMMA StepInv ==
    ASSUME IInv, Next
    PROVE  IInv'
<1>0. BlockInv /\ DiskInv
  BY DEF IInv
<1>1. PICK i \in Inodes :
        \/ \E off \in 0 .. MAXFILE * BSIZE, n \in Sizes[i], v \in Values : filewrite(i, off, n, v)
        \/ chunk(i) \/ bmapindirect(i) \/ bmap(i) \/ outofblocks(i) \/ writeblock(i) \/ writedone(i)
        \/ truncate(i) \/ itrunc(i) \/ truncated(i)
  BY DEF Next
<1>2. CASE \E off \in 0 .. MAXFILE * BSIZE, n \in Sizes[i], v \in Values : filewrite(i, off, n, v)
  <2>1. PICK off \in 0 .. MAXFILE * BSIZE, n \in Sizes[i], v \in Values : filewrite(i, off, n, v)
    BY <1>2
  <2> QED
    BY <1>0, <2>1, FilewriteQuiet, QuietBlocks, FilewriteDisk DEF IInv
<1>3. CASE chunk(i)
  BY <1>0, <1>3, ChunkQuiet, QuietBlocks, ChunkDisk DEF IInv
<1>4. CASE bmapindirect(i)
  <2>1. PICK c : Alloc(i, MAXFILE, c)
    BY <1>0, <1>4, BmapindirectAlloc
  <2>2. TypeOK' /\ mapped(i, Bn(i)) = 0 /\ op[i] \in Writes /\ op[i].off < op[i].end
    BY <1>0, <1>4, BmapindirectAlloc
  <2>3. BlockInv'
    BY <1>0, <2>1, <2>2, AllocBlocks, Constants
  <2>4. DiskInv'
    BY <2>1, <2>2, AllocDisk, Constants
  <2> QED
    BY <2>3, <2>4 DEF IInv
<1>5. CASE bmap(i)
  <2>1. PICK c : Alloc(i, Bn(i), c)
    BY <1>0, <1>5, BmapAlloc
  <2>2. /\ Bn(i) \in 0 .. MAXFILE - 1
        /\ TypeOK' /\ mapped(i, Bn(i)) = 0 /\ op[i] \in Writes /\ op[i].off < op[i].end
    BY <1>0, <1>5, BmapAlloc
  <2>3. PICK m \in 0 .. MAXFILE : m = Bn(i)
    BY <2>2, Constants
  <2>4. BlockInv'
    BY <1>0, <2>1, <2>2, <2>3, AllocBlocks
  <2>5. DiskInv'
    BY <2>1, <2>2, <2>3, AllocDisk
  <2> QED
    BY <2>4, <2>5 DEF IInv
<1>6. CASE outofblocks(i)
  <2>1. /\ UNCHANGED <<bitmap, a, addrs, size, dinode, op>> /\ panic' # "freeing free block"
    BY <1>6 DEF outofblocks
  <2>2. \A j : \A n : mapped(j, n)' = mapped(j, n) /\ freeing(j, n)' = freeing(j, n)
    BY <2>1, NumbersKept
  <2>3. Accounted'
    <3>1. \A j \in Inodes, n \in 0 .. MAXFILE, b \in Blocks : Owns(j, n, b)' <=> Owns(j, n, b)
      BY <2>1, <2>2, OwnsIs, OwnsIsNext
    <3> QED
      BY <1>0, <2>1, <3>1, AccountedSame DEF BlockInv
  <2>4. TypeOK' /\ Forgotten' /\ Chunked'
    BY <1>0, <2>1 DEF BlockInv, TypeOK, Forgotten, Chunked, ChunkOK
  <2>5. \A j \in Inodes : Untouched(j)
    BY <2>1, <2>2 DEF Untouched
  <2>6. DiskInv'
    BY <1>0, <2>1, <2>5, DiskUntouched DEF DiskInv
  <2> QED
    BY <2>1, <2>3, <2>4, <2>6 DEF IInv, BlockInv
<1>7. CASE writeblock(i)
  BY <1>0, <1>7, WriteblockQuiet, QuietBlocks, WriteblockDisk DEF IInv
<1>8. CASE writedone(i)
  BY <1>0, <1>8, WritedoneQuiet, QuietBlocks, WritedoneDisk DEF IInv
<1>9. CASE truncate(i)
  BY <1>0, <1>9, TruncateQuiet, QuietBlocks, TruncateDisk DEF IInv
<1>10. CASE itrunc(i)
  BY <1>0, <1>10, ItruncBlocks, ItruncDisk DEF IInv
<1>11. CASE truncated(i)
  BY <1>0, <1>11, TruncatedBlocks, TruncatedDisk DEF IInv
<1> QED
  BY <1>1, <1>2, <1>3, <1>4, <1>5, <1>6, <1>7, <1>8, <1>9, <1>10, <1>11

\* A step that changes nothing keeps the invariant too.
LEMMA StutterInv ==
    ASSUME IInv, UNCHANGED vars
    PROVE  IInv'
<1>1. UNCHANGED <<bitmap, a, addrs, size, dinode, op, panic>>
  BY DEF vars
<1>2. \A j : \A n : mapped(j, n)' = mapped(j, n) /\ freeing(j, n)' = freeing(j, n)
  BY <1>1, NumbersKept
<1>3. \A j \in Inodes, n \in 0 .. MAXFILE, b \in Blocks : Owns(j, n, b)' <=> Owns(j, n, b)
  BY <1>1, <1>2, OwnsIs, OwnsIsNext
<1>4. Accounted'
  BY <1>1, <1>3, AccountedSame DEF IInv, BlockInv
<1>5. TypeOK' /\ Forgotten' /\ Chunked'
  BY <1>1 DEF IInv, BlockInv, TypeOK, Forgotten, Chunked, ChunkOK
<1>6. \A j \in Inodes : Untouched(j)
  BY <1>1, <1>2 DEF Untouched
<1>7. DiskInv'
  BY <1>1, <1>6, DiskUntouched DEF IInv, DiskInv
<1> QED
  BY <1>1, <1>4, <1>5, <1>7 DEF IInv, BlockInv

\* The inductive invariant holds in every behaviour of fs.c and file.c.
THEOREM Invariance == Spec => []IInv
<1>1. IInv /\ [Next]_vars => IInv'
  BY StepInv, StutterInv
<1> QED
  BY InitInv, <1>1, PTL DEF Spec

\* Place by place is what BlocksAccounted says.
LEMMA AccountedImplies ==
    ASSUME BlockInv
    PROVE  BlocksAccounted
<1> DEFINE places == UNION {{<<i, n>> : n \in Places(i)} : i \in Inodes}
<1> DEFINE block(x) == freeing(x[1], x[2])
<1>0. TypeOK /\ Accounted /\ bitmap \subseteq Blocks
  BY DEF BlockInv, TypeOK
<1>1. ASSUME NEW x \in places
      PROVE  \E i \in Inodes, n \in 0 .. MAXFILE :
                x = <<i, n>> /\ block(x) \in Blocks /\ Owns(i, n, block(x))
  <2>1. PICK i \in Inodes : x \in {<<i, n>> : n \in Places(i)}
    OBVIOUS
  <2>2. PICK n \in Places(i) : x = <<i, n>>
    BY <2>1
  <2>3. n \in 0 .. MAXFILE /\ freeing(i, n) # 0
    BY <2>2 DEF Places
  <2>4. block(x) = freeing(i, n)
    BY <2>2
  <2>5. freeing(i, n) \in Blocks
    BY <1>0, <2>3, Numbers
  <2> QED
    BY <2>2, <2>3, <2>4, <2>5 DEF Owns
<1>2. ASSUME NEW i \in Inodes, NEW n \in 0 .. MAXFILE, NEW b \in Blocks, Owns(i, n, b)
      PROVE  <<i, n>> \in places /\ block(<<i, n>>) = b
  BY <1>2 DEF Owns
<1> HIDE DEF places, block
<1>3. \A x, y \in places : block(x) = block(y) => x = y
  <2>1. SUFFICES ASSUME NEW x \in places, NEW y \in places, block(x) = block(y) PROVE x = y
    OBVIOUS
  <2>2. PICK i \in Inodes, n \in 0 .. MAXFILE :
          x = <<i, n>> /\ block(x) \in Blocks /\ Owns(i, n, block(x))
    BY <1>1
  <2>3. PICK j \in Inodes, m \in 0 .. MAXFILE :
          y = <<j, m>> /\ block(y) \in Blocks /\ Owns(j, m, block(y))
    BY <1>1
  <2>4. i = j /\ n = m
    BY <1>0, <2>1, <2>2, <2>3 DEF Accounted
  <2> QED
    BY <2>2, <2>3, <2>4
<1>4. bitmap = {block(x) : x \in places}
  <2>1. ASSUME NEW b \in bitmap PROVE \E x \in places : b = block(x)
    <3>1. PICK i \in Inodes, n \in 0 .. MAXFILE : Owns(i, n, b)
      BY <1>0 DEF Accounted
    <3> QED
      BY <1>0, <1>2, <3>1
  <2>2. ASSUME NEW x \in places PROVE block(x) \in bitmap
    BY <1>0, <1>1 DEF Accounted
  <2> QED
    BY <2>1, <2>2
<1> QED
  BY <1>0, <1>3, <1>4 DEF BlocksAccounted, BlockInv, places, block

\* For any number of inodes, blocks and sizes: balloc() gives out no block twice,
\* itrunc() gives back every block of a file, and bfree() never panics with
\* "freeing free block".
THEOREM BlocksCorrect == Spec => []BlocksAccounted
<1>1. IInv => BlocksAccounted
  BY AccountedImplies DEF IInv
<1> QED
  BY <1>1, Invariance, PTL

\* Between operations the inode on the disk is the one in memory, although bmap()
\* changes addrs without iupdate(): a write that allocates a block makes the
\* file longer.
THEOREM InodesSaved == Spec => []InodeOnDisk
<1>1. IInv => InodeOnDisk
  BY DEF IInv, DiskInv, DiskOK, Saved, InodeOnDisk
<1> QED
  BY <1>1, Invariance, PTL

-----------------------------------------------------------------------------
(* What a chunk passes to log_write                                        *)

\* The blocks of file i that the chunk reaches, and those that begin in it:
\* writei() finds a block that began before in the file, and does not allocate it.
Reached(i) == {n \in 0 .. MAXFILE - 1 : op[i].start < n * BSIZE + BSIZE /\ n * BSIZE < op[i].end}
Begun(i) == {n \in 0 .. MAXFILE - 1 : op[i].start <= n * BSIZE /\ n * BSIZE < op[i].end}

\* Block x of the disk is one that the chunk may write.
Covered(i, x) ==
    \/ \E n \in Reached(i) : mapped(i, n) # 0 /\ x = DBLOCK(mapped(i, n))
    \/ \E n \in Begun(i) : mapped(i, n) # 0 /\ x = BBLOCK(mapped(i, n))
    \/ addrs[i][NDIRECT] # 0 /\ x \in {DBLOCK(addrs[i][NDIRECT]), BBLOCK(addrs[i][NDIRECT])}

LogOK(i) == op[i].at = "write" => \A x \in logged[i] : Covered(i, x)

LogInv == DOMAIN logged = Inodes /\ \A i \in Inodes : LogOK(i)

\* What has a block keeps it.
LEMMA CoveredKept ==
    ASSUME NEW i, NEW x, Covered(i, x), op'[i].start = op[i].start, op'[i].end = op[i].end,
           \A n \in 0 .. MAXFILE - 1 : mapped(i, n) # 0 => mapped(i, n)' = mapped(i, n),
           addrs[i][NDIRECT] # 0 => addrs'[i][NDIRECT] = addrs[i][NDIRECT]
    PROVE  Covered(i, x)'
<1>1. Reached(i)' = Reached(i) /\ Begun(i)' = Begun(i)
  BY DEF Reached, Begun
<1>2. Reached(i) \subseteq 0 .. MAXFILE - 1 /\ Begun(i) \subseteq 0 .. MAXFILE - 1
  BY DEF Reached, Begun
<1>3. CASE \E n \in Reached(i) : mapped(i, n) # 0 /\ x = DBLOCK(mapped(i, n))
  <2>1. PICK n \in Reached(i) : mapped(i, n) # 0 /\ x = DBLOCK(mapped(i, n))
    BY <1>3
  <2>2. mapped(i, n)' # 0 /\ x = DBLOCK(mapped(i, n)')
    BY <1>2, <2>1
  <2>3. x = DBLOCK(mapped(i, n))'
    BY <2>2 DEF DBLOCK
  <2> QED
    BY <1>1, <2>2, <2>3 DEF Covered
<1>4. CASE \E n \in Begun(i) : mapped(i, n) # 0 /\ x = BBLOCK(mapped(i, n))
  <2>1. PICK n \in Begun(i) : mapped(i, n) # 0 /\ x = BBLOCK(mapped(i, n))
    BY <1>4
  <2>2. mapped(i, n)' # 0 /\ x = BBLOCK(mapped(i, n)')
    BY <1>2, <2>1
  <2>3. x = BBLOCK(mapped(i, n))'
    BY <2>2 DEF BBLOCK
  <2> QED
    BY <1>1, <2>2, <2>3 DEF Covered
<1>5. CASE addrs[i][NDIRECT] # 0 /\ x \in {DBLOCK(addrs[i][NDIRECT]), BBLOCK(addrs[i][NDIRECT])}
  <2>1. addrs'[i][NDIRECT] # 0 /\ x \in {DBLOCK(addrs[i][NDIRECT])', BBLOCK(addrs[i][NDIRECT])'}
    BY <1>5 DEF DBLOCK, BBLOCK
  <2> QED
    BY <2>1 DEF Covered
<1> QED
  BY <1>3, <1>4, <1>5 DEF Covered

\* Only the inode of the operation has to be looked at.
LEMMA LogFrom ==
    ASSUME LogInv, NEW i \in Inodes, NEW l, logged' = [logged EXCEPT ![i] = l] \/ logged' = logged,
           \A j \in Inodes : j # i => Untouched(j), LogOK(i)'
    PROVE  LogInv'
<1>1. DOMAIN logged' = Inodes /\ \A j \in Inodes : j # i => logged'[j] = logged[j]
  BY DEF LogInv
<1>2. ASSUME NEW j \in Inodes, j # i PROVE LogOK(j)'
  <2>1. op'[j] = op[j] /\ addrs'[j] = addrs[j] /\ \A n \in 0 .. MAXFILE - 1 : mapped(j, n)' = mapped(j, n)
    BY <1>2 DEF Untouched
  <2>2. LogOK(j)
    BY DEF LogInv
  <2>3. \A x : Covered(j, x) => Covered(j, x)'
    BY <2>1, CoveredKept
  <2> QED
    BY <1>1, <1>2, <2>1, <2>2, <2>3 DEF LogOK
<1> QED
  BY <1>1, <1>2 DEF LogInv

LEMMA FilewriteLog ==
    ASSUME IInv, LogInv, NEW i \in Inodes, NEW off \in 0 .. MAXFILE * BSIZE, NEW n \in Sizes[i],
           NEW v \in Values, filewrite(i, off, n, v)
    PROVE  LogInv'
<1>0. BlockInv /\ DiskInv
  BY DEF IInv
<1>1. Quiet(i) /\ op'[i] = [at |-> "chunk", off |-> off, left |-> n, v |-> v]
  BY <1>0, FilewriteQuiet
<1>2. size' = size /\ dinode' = dinode /\ logged' = logged
  BY DEF filewrite
<1>3. \A j \in Inodes : j # i => Untouched(j)
  BY <1>0, <1>1, <1>2, QuietOthers
<1>4. LogOK(i)'
  BY <1>1 DEF LogOK
<1> QED
  BY <1>2, <1>3, <1>4, LogFrom

LEMMA ChunkLog ==
    ASSUME IInv, LogInv, NEW i \in Inodes, chunk(i)
    PROVE  LogInv'
<1>0. BlockInv /\ DiskInv
  BY DEF IInv
<1>1. Quiet(i)
  BY <1>0, ChunkQuiet
<1>2. size' = size /\ dinode' = dinode /\ logged' = [logged EXCEPT ![i] = {}]
  BY DEF chunk
<1>3. \A j \in Inodes : j # i => Untouched(j)
  BY <1>0, <1>1, <1>2, QuietOthers
<1>4. LogOK(i)'
  BY <1>2 DEF LogOK, LogInv
<1> QED
  BY <1>2, <1>3, <1>4, LogFrom

\* The offset of a write is in a block that the chunk reaches.
LEMMA Reaching ==
    ASSUME IInv, NEW i \in Inodes, op[i] \in Writes, op[i].off < op[i].end
    PROVE  /\ Bn(i) \in Reached(i)
           /\ mapped(i, Bn(i)) = 0 => Bn(i) \in Begun(i)
<1>0. BlockInv /\ DiskOK(i) /\ TypeOK
  BY DEF IInv, DiskInv, BlockInv
<1>1. PICK o : o = op[i]
  OBVIOUS
<1>2. /\ o.off \in Nat /\ o.end \in Nat /\ o.start \in Nat /\ o.end \in 0 .. MAXFILE * BSIZE
      /\ o.at = "write" /\ o.off < o.end
  BY <1>1, OpWrite DEF Writes
<1>3. PICK k \in Nat, r \in 0 .. BSIZE - 1 : k = Bn(i) /\ o.off = k * BSIZE + r
  BY <1>1, <1>2, Offset DEF Bn
<1>4. o.off < MAXFILE * BSIZE
  BY <1>2, ChunkSize
<1>5. k \in 0 .. MAXFILE - 1
  BY <1>1, <1>2, <1>3, <1>4, OffsetBlock DEF Bn
<1>6. o.start <= o.off /\ o.start <= size[i] /\ Filled(i, size[i]) /\ size[i] \in Nat
  BY <1>0, <1>1, <1>2, ChunkSize DEF DiskOK, TypeOK
<1>7. PICK kb : kb = k * BSIZE
  OBVIOUS
<1>8. kb \in Nat /\ BSIZE \in Nat \ {0}
  BY <1>7, BlockOrder, Constants
<1>9. o.start < kb + BSIZE /\ kb < o.end
  BY <1>2, <1>3, <1>6, <1>7, <1>8
<1>10. mapped(i, k) = 0 => o.start <= kb
  <2>1. mapped(i, k) = 0 => ~ (kb < size[i])
    BY <1>5, <1>6, <1>7 DEF Filled
  <2> QED
    BY <1>2, <1>6, <1>8, <2>1
<1> QED
  BY <1>1, <1>3, <1>5, <1>7, <1>9, <1>10 DEF Reached, Begun

LEMMA WriteblockLog ==
    ASSUME IInv, LogInv, NEW i \in Inodes, writeblock(i)
    PROVE  LogInv'
<1>0. BlockInv /\ DiskInv
  BY DEF IInv
<1>1. /\ Quiet(i) /\ op[i] \in Writes /\ op[i].off < op[i].end
      /\ op'[i] = [op[i] EXCEPT !.off = @ + portion(op[i].off, op[i].end)]
      /\ mapped(i, Bn(i)) # 0
  BY <1>0, WriteblockQuiet
<1>2. /\ size' = size /\ dinode' = dinode
      /\ logged' = [logged EXCEPT ![i] = logged[i] \cup {DBLOCK(mapped(i, Bn(i)))}]
  BY DEF writeblock, log_write
<1>3. /\ \A j \in Inodes : j # i => Untouched(j)
      /\ addrs' = addrs /\ \A m : mapped(i, m)' = mapped(i, m)
  BY <1>0, <1>1, <1>2, QuietOthers
<1>4. op[i].at = "write" /\ op'[i].start = op[i].start /\ op'[i].end = op[i].end
  BY <1>1 DEF Writes
<1>5. ASSUME NEW x, Covered(i, x) PROVE Covered(i, x)'
  BY <1>3, <1>4, <1>5, CoveredKept
<1>6. ASSUME NEW x, x \in logged'[i] PROVE Covered(i, x)
  <2>1. x \in logged[i] \/ x = DBLOCK(mapped(i, Bn(i)))
    BY <1>2, <1>6 DEF LogInv
  <2>2. x \in logged[i] => Covered(i, x)
    BY <1>4 DEF LogInv, LogOK
  <2>3. Bn(i) \in Reached(i)
    BY <1>1, Reaching
  <2> QED
    BY <1>1, <2>1, <2>2, <2>3 DEF Covered
<1>7. LogOK(i)'
  BY <1>5, <1>6 DEF LogOK
<1> QED
  BY <1>2, <1>3, <1>7, LogFrom

LEMMA WritedoneLog ==
    ASSUME IInv, LogInv, NEW i \in Inodes, writedone(i)
    PROVE  LogInv'
<1>0. BlockInv /\ DiskInv
  BY DEF IInv
<1>1. /\ Quiet(i)
      /\ size' = [size EXCEPT ![i] = IF op[i].off > size[i] THEN op[i].off ELSE size[i]]
      /\ op'[i] = Idle \/ op'[i] \in Chunks
  BY <1>0, WritedoneQuiet
<1>2. PICK d : dinode' = [dinode EXCEPT ![i] = d] \/ dinode' = dinode
  BY DEF writedone
<1>3. \A j \in Inodes : j # i => Untouched(j)
  BY <1>0, <1>1, <1>2, QuietOthers
<1>4. PICK l : logged' = [logged EXCEPT ![i] = l] \/ logged' = logged
  BY DEF writedone, log_write
<1>5. op'[i].at # "write"
  BY <1>1 DEF Idle, Chunks
<1>6. LogOK(i)'
  BY <1>5 DEF LogOK
<1> QED
  BY <1>3, <1>4, <1>6, LogFrom

\* itrunc() starts to log anew, and is no chunk of filewrite().
LEMMA TruncLog ==
    ASSUME IInv, LogInv, NEW i \in Inodes, truncate(i) \/ itrunc(i) \/ truncated(i)
    PROVE  LogInv'
<1>0. BlockInv /\ DiskInv /\ TypeOK /\ dinode \in [Inodes -> Dinodes]
  BY DEF IInv, BlockInv, DiskInv
<1>1. CASE truncate(i)
  <2>1. Quiet(i) /\ op'[i].at = "trunc"
    BY <1>0, <1>1, TruncateQuiet
  <2>2. size' = size /\ dinode' = dinode /\ logged' = [logged EXCEPT ![i] = {}]
    BY <1>1 DEF truncate
  <2>3. \A j \in Inodes : j # i => Untouched(j)
    BY <1>0, <2>1, <2>2, QuietOthers
  <2>4. LogOK(i)'
    BY <2>1 DEF LogOK
  <2> QED
    BY <2>2, <2>3, <2>4, LogFrom
<1>2. CASE itrunc(i)
  <2>1. PICK l : logged' = [logged EXCEPT ![i] = l] \/ logged' = logged
    BY <1>2 DEF itrunc, bfree, log_write
  <2>2. \A j \in Inodes : j # i => Untouched(j)
    BY <1>0, <1>2, ItruncOthers
  <2>3. LogOK(i)'
    BY <1>0, <1>2, ItruncBlocks DEF LogOK
  <2> QED
    BY <2>1, <2>2, <2>3, LogFrom
<1>3. CASE truncated(i)
  <2>1. logged' = [logged EXCEPT ![i] = logged[i] \cup {IBLOCK(i)}]
    BY <1>3 DEF truncated, log_write
  <2>2. \A j \in Inodes : j # i => Untouched(j)
    BY <1>0, <1>3, TruncatedOthers
  <2>3. op'[i].at = "idle"
    BY <1>0, <1>3, TruncatedBlocks DEF Idle
  <2>4. LogOK(i)'
    BY <2>3 DEF LogOK
  <2> QED
    BY <2>1, <2>2, <2>4, LogFrom
<1> QED
  BY <1>1, <1>2, <1>3

\* A place that gets a block had none.
LEMMA AllocKeeps ==
    ASSUME NEW i \in Inodes, NEW m \in 0 .. MAXFILE, NEW c, Alloc(i, m, c)
    PROVE  /\ \A n \in 0 .. MAXFILE - 1 : mapped(i, n) # 0 => mapped(i, n)' = mapped(i, n)
           /\ m < MAXFILE => mapped(i, m)' = c
           /\ addrs[i][NDIRECT] # 0 => addrs'[i][NDIRECT] = addrs[i][NDIRECT]
           /\ m = MAXFILE => addrs'[i][NDIRECT] = c
           /\ c \in Blocks /\ c # 0
<1>1. \A n \in 0 .. MAXFILE - 1 : n \in 0 .. MAXFILE /\ n < MAXFILE
  BY Constants
<1>2. \A n \in 0 .. MAXFILE - 1 : freeing(i, n) = mapped(i, n) /\ freeing(i, n)' = mapped(i, n)'
  BY <1>1 DEF freeing
<1>3. freeing(i, MAXFILE) = addrs[i][NDIRECT] /\ freeing(i, MAXFILE)' = addrs'[i][NDIRECT]
  BY Constants DEF freeing
<1>4. MAXFILE \in 0 .. MAXFILE /\ c \in Blocks /\ c # 0
  BY Constants DEF Alloc
<1>5. m < MAXFILE => m \in 0 .. MAXFILE - 1
  BY Constants
<1> QED
  BY <1>1, <1>2, <1>3, <1>4, <1>5 DEF Alloc

\* The block that is allocated is the one that the bitmap gains.
LEMMA SameBlock ==
    ASSUME NEW i, NEW m, NEW c, Alloc(i, m, c), NEW b \in balloc, bitmap' = bitmap \cup {b}
    PROVE  b = c
  BY DEF Alloc, balloc

\* A chunk that allocates block c for the place m: what it logs is covered.
LEMMA AllocLog ==
    ASSUME IInv, LogInv, NEW i \in Inodes, NEW m \in 0 .. MAXFILE, NEW c, Alloc(i, m, c),
           m = MAXFILE \/ m \in Begun(i), NEW l,
           logged' = [logged EXCEPT ![i] = logged[i] \cup l],
           l \subseteq {DBLOCK(c), BBLOCK(c)} \cup
                       (IF addrs[i][NDIRECT] = 0 THEN {} ELSE {DBLOCK(addrs[i][NDIRECT])})
    PROVE  LogInv'
<1>1. /\ \A n \in 0 .. MAXFILE - 1 : mapped(i, n) # 0 => mapped(i, n)' = mapped(i, n)
      /\ m < MAXFILE => mapped(i, m)' = c
      /\ addrs[i][NDIRECT] # 0 => addrs'[i][NDIRECT] = addrs[i][NDIRECT]
      /\ m = MAXFILE => addrs'[i][NDIRECT] = c
      /\ c \in Blocks /\ c # 0
  BY AllocKeeps
<1>2. op' = op /\ op[i].at = "write"
  BY DEF Alloc
<1>3. ASSUME NEW x, Covered(i, x) PROVE Covered(i, x)'
  BY <1>1, <1>2, <1>3, CoveredKept
<1>4. ASSUME NEW x \in {DBLOCK(c), BBLOCK(c)} PROVE Covered(i, x)'
  <2>1. CASE m = MAXFILE
    <3>1. addrs'[i][NDIRECT] # 0 /\ x \in {DBLOCK(addrs[i][NDIRECT])', BBLOCK(addrs[i][NDIRECT])'}
      BY <1>1, <2>1 DEF DBLOCK, BBLOCK
    <3> QED
      BY <3>1 DEF Covered
  <2>2. CASE m # MAXFILE
    <3>1. m \in Begun(i) /\ m \in 0 .. MAXFILE - 1 /\ m < MAXFILE
      BY <2>2, Constants DEF Begun
    <3>2. m \in Reached(i)
      <4>1. PICK s, mb : s = op[i].start /\ mb = m * BSIZE
        OBVIOUS
      <4>2. s \in Nat /\ mb \in Nat /\ BSIZE \in Nat \ {0}
        <5>1. op[i] \in Writes
          BY <1>2, OpType, OpFields DEF IInv, BlockInv
        <5>2. m \in Nat
          BY <3>1, Constants
        <5> QED
          BY <4>1, <5>1, <5>2, OpWrite, BlockOrder, Constants
      <4>3. s <= mb
        BY <3>1, <4>1 DEF Begun
      <4>4. s < mb + BSIZE
        BY <4>2, <4>3
      <4> QED
        BY <3>1, <4>1, <4>4 DEF Begun, Reached
    <3>3. m \in Begun(i)' /\ m \in Reached(i)'
      BY <1>2, <3>1, <3>2 DEF Begun, Reached
    <3>4. mapped(i, m)' # 0 /\ (x = DBLOCK(mapped(i, m))' \/ x = BBLOCK(mapped(i, m))')
      BY <1>1, <3>1 DEF DBLOCK, BBLOCK
    <3> QED
      BY <3>3, <3>4 DEF Covered
  <2> QED
    BY <2>1, <2>2
<1>5. ASSUME NEW x, addrs[i][NDIRECT] # 0, x = DBLOCK(addrs[i][NDIRECT]) PROVE Covered(i, x)
  BY <1>5 DEF Covered
<1>6. ASSUME NEW x, x \in logged'[i] PROVE Covered(i, x)'
  <2>1. x \in logged[i] \/ x \in l
    BY <1>6 DEF LogInv
  <2>2. x \in logged[i] => Covered(i, x)
    BY <1>2 DEF LogInv, LogOK
  <2>3. x \in l => x \in {DBLOCK(c), BBLOCK(c)} \/ (addrs[i][NDIRECT] # 0 /\ x = DBLOCK(addrs[i][NDIRECT]))
    OBVIOUS
  <2> QED
    BY <1>3, <1>4, <1>5, <2>1, <2>2, <2>3
<1>7. LogOK(i)'
  BY <1>6 DEF LogOK
<1>8. \A j \in Inodes : j # i => Untouched(j)
  BY AllocOthers
<1> QED
  BY <1>7, <1>8, LogFrom

LEMMA BmapLog ==
    ASSUME IInv, LogInv, NEW i \in Inodes, bmapindirect(i) \/ bmap(i)
    PROVE  LogInv'
<1>0. BlockInv
  BY DEF IInv
<1>1. CASE bmapindirect(i)
  <2>1. PICK c : Alloc(i, MAXFILE, c)
    BY <1>0, <1>1, BmapindirectAlloc
  <2>2. PICK b \in balloc :
          bitmap' = bitmap \cup {b} /\ logged' = [logged EXCEPT ![i] = logged[i] \cup {DBLOCK(b), BBLOCK(b)}]
    BY <1>1 DEF bmapindirect, log_write
  <2>3. b = c
    BY <2>1, <2>2, SameBlock
  <2> QED
    BY <2>1, <2>2, <2>3, AllocLog, Constants
<1>2. CASE bmap(i)
  <2>1. PICK c : Alloc(i, Bn(i), c)
    BY <1>0, <1>2, BmapAlloc
  <2>2. Bn(i) \in 0 .. MAXFILE - 1 /\ mapped(i, Bn(i)) = 0 /\ op[i] \in Writes /\ op[i].off < op[i].end
    BY <1>0, <1>2, BmapAlloc
  <2>3. PICK m \in 0 .. MAXFILE : m = Bn(i)
    BY <2>2, Constants
  <2>4. m \in Begun(i)
    BY <2>2, <2>3, Reaching
  <2>5. PICK b \in balloc :
          /\ bitmap' = bitmap \cup {b}
          /\ \/ logged' = [logged EXCEPT ![i] = logged[i] \cup {DBLOCK(b), BBLOCK(b)}]
             \/ /\ addrs[i][NDIRECT] # 0
                /\ logged' = [logged EXCEPT ![i] =
                                 logged[i] \cup {DBLOCK(b), BBLOCK(b), DBLOCK(addrs[i][NDIRECT])}]
    <3>1. Bn(i) \in Nat /\ NDIRECT \in Nat
      BY <2>2, Constants
    <3> QED
      BY <1>2, <3>1 DEF bmap, log_write
  <2>6. b = c
    BY <2>1, <2>5, SameBlock
  <2>7. PICK l : /\ logged' = [logged EXCEPT ![i] = logged[i] \cup l]
                 /\ l \subseteq {DBLOCK(c), BBLOCK(c)} \cup
                       (IF addrs[i][NDIRECT] = 0 THEN {} ELSE {DBLOCK(addrs[i][NDIRECT])})
    BY <2>5, <2>6
  <2> QED
    BY <2>1, <2>3, <2>4, <2>7, AllocLog
<1> QED
  BY <1>1, <1>2

LEMMA LogStep ==
    ASSUME IInv, LogInv, [Next]_vars
    PROVE  LogInv'
<1>1. CASE Next
  <2>1. PICK i \in Inodes :
          \/ \E off \in 0 .. MAXFILE * BSIZE, n \in Sizes[i], v \in Values : filewrite(i, off, n, v)
          \/ chunk(i) \/ bmapindirect(i) \/ bmap(i) \/ outofblocks(i) \/ writeblock(i) \/ writedone(i)
          \/ truncate(i) \/ itrunc(i) \/ truncated(i)
    BY <1>1 DEF Next
  <2>2. CASE outofblocks(i)
    <3>1. UNCHANGED <<a, addrs, size, dinode, op, logged>>
      BY <2>2 DEF outofblocks
    <3>2. \A j \in Inodes : Untouched(j)
      BY <3>1, NumbersKept DEF Untouched
    <3>3. LogOK(i)'
      <4>1. LogOK(i) /\ \A x : Covered(i, x) => Covered(i, x)'
        BY <3>1, <3>2, CoveredKept DEF LogInv, Untouched
      <4> QED
        BY <3>1, <4>1 DEF LogOK
    <3> QED
      BY <3>1, <3>2, <3>3, LogFrom
  <2> QED
    BY <2>1, <2>2, FilewriteLog, ChunkLog, BmapLog, WriteblockLog, WritedoneLog, TruncLog
<1>2. CASE UNCHANGED vars
  BY <1>2 DEF vars, LogInv, LogOK, Covered, Reached, Begun, mapped
<1> QED
  BY <1>1, <1>2

LEMMA LogInvariance == Spec => [](IInv /\ LogInv)
<1>1. Init => LogInv
  <2>1. ASSUME Init PROVE LogInv
    BY <2>1 DEF Init, LogInv, LogOK
  <2> QED
    BY <2>1
<1>2. IInv /\ LogInv /\ [Next]_vars => LogInv'
  BY LogStep
<1> QED
  BY <1>1, <1>2, Invariance, PTL DEF Spec

-----------------------------------------------------------------------------
(* The contents of files                                                   *)

\* The byte of file i at the offset x, as readi() finds it.
Byte(i, x) == data[mapped(i, x \div BSIZE)][x % BSIZE]

\* The write in progress has copied the byte at x.
Copied(i, x) == op[i].at = "write" /\ op[i].start <= x /\ x < op[i].off

\* The bytes that are there, and what they should be.
Live(i, x) == x < size[i] \/ Copied(i, x)
Expected(i, x) == IF Copied(i, x) THEN <<i, x, op[i].v>> ELSE bytes[i][x + 1]

ContentsOK(i) ==
    op[i].at # "trunc" =>
        /\ Len(bytes[i]) = size[i]
        /\ \A x \in 0 .. MAXFILE * BSIZE - 1 : Live(i, x) => Byte(i, x) = Expected(i, x)

Cells == Nat \X Nat \X Nat

DataInv ==
    /\ DOMAIN data = Blocks /\ bytes \in [Inodes -> Seq(Cells)]
    /\ \A i \in Inodes : ContentsOK(i)

\* An offset has one block and one place in it.
LEMMA OffsetUnique ==
    ASSUME NEW x \in Nat, NEW n \in Nat, NEW r \in 0 .. BSIZE - 1, x = n * BSIZE + r
    PROVE  x \div BSIZE = n /\ x % BSIZE = r
<1>1. PICK m \in Nat, s \in 0 .. BSIZE - 1 : m = x \div BSIZE /\ s = x % BSIZE /\ x = m * BSIZE + s
  BY Offset
<1>2. PICK mb, nb : mb = m * BSIZE /\ nb = n * BSIZE
  OBVIOUS
<1>3. mb \in Nat /\ nb \in Nat /\ BSIZE \in Nat \ {0}
  BY <1>2, BlockOrder, Constants
<1>4. (m < n => mb + BSIZE <= nb) /\ (n < m => nb + BSIZE <= mb)
  BY <1>2, BlockOrder
<1>5. ~ (m < n) /\ ~ (n < m)
  BY <1>1, <1>2, <1>3, <1>4
<1>6. m = n
  BY <1>5
<1> QED
  BY <1>1, <1>2, <1>3, <1>6

\* The block of a byte that is there is in use, for this byte only.
LEMMA LiveOwned ==
    ASSUME IInv, NEW i \in Inodes, op[i].at # "trunc", NEW x \in 0 .. MAXFILE * BSIZE - 1, Live(i, x)
    PROVE  /\ x \in Nat /\ x \div BSIZE \in 0 .. MAXFILE - 1 /\ x \div BSIZE \in Nat
           /\ x % BSIZE \in 0 .. BSIZE - 1
           /\ mapped(i, x \div BSIZE) # 0
<1>0. TypeOK /\ DiskOK(i)
  BY DEF IInv, BlockInv, DiskInv
<1>1. x \in Nat /\ x < MAXFILE * BSIZE
  BY ChunkSize
<1>2. PICK n \in Nat, r \in 0 .. BSIZE - 1 : n = x \div BSIZE /\ r = x % BSIZE /\ x = n * BSIZE + r
  BY <1>1, Offset
<1>3. n \in 0 .. MAXFILE - 1
  BY <1>1, <1>2, OffsetBlock
<1>4. n * BSIZE \in Nat
  BY BlockOrder
<1>5. PICK nb : nb = n * BSIZE
  OBVIOUS
<1>6. op[i].at \in {"idle", "chunk", "write"} /\ (op[i].at = "write" => op[i] \in Writes)
  BY <1>0, OpType, OpFields
<1>7. CASE x < size[i]
  <2>1. size[i] \in Nat
    BY <1>0, ChunkSize DEF TypeOK
  <2>2. nb < size[i]
    BY <1>1, <1>2, <1>4, <1>5, <1>7, <2>1, Constants
  <2>3. Filled(i, size[i])
    BY <1>0, <1>6 DEF DiskOK
  <2> QED
    BY <1>1, <1>2, <1>3, <1>5, <2>2, <2>3 DEF Filled
<1>8. CASE Copied(i, x)
  <2>1. op[i].at = "write" /\ x < op[i].off /\ op[i].off \in Nat
    BY <1>6, <1>8, OpWrite DEF Copied
  <2>2. nb < op[i].off
    <3>1. nb <= x /\ nb \in Nat
      BY <1>1, <1>2, <1>4, <1>5, Constants
    <3> QED
      BY <1>1, <2>1, <3>1
  <2>3. Filled(i, op[i].off)
    BY <1>0, <2>1 DEF DiskOK
  <2> QED
    BY <1>1, <1>2, <1>3, <1>5, <2>2, <2>3 DEF Filled
<1> QED
  BY <1>7, <1>8 DEF Live

\* A file keeps its contents when data changes in a block c that it does not have.
LEMMA ContentsKept ==
    ASSUME IInv, NEW j \in Inodes, ContentsOK(j),
           op'[j] = op[j], size'[j] = size[j], bytes'[j] = bytes[j], NEW c,
           \A b \in Blocks : b # c => data'[b] = data[b],
           op[j].at # "trunc" =>
              \A n \in 0 .. MAXFILE - 1 : mapped(j, n) # 0 => mapped(j, n)' = mapped(j, n) /\ mapped(j, n) # c
    PROVE  ContentsOK(j)'
<1>1. SUFFICES ASSUME op[j].at # "trunc" PROVE ContentsOK(j)'
  BY DEF ContentsOK
<1>2. ASSUME NEW x \in 0 .. MAXFILE * BSIZE - 1, Live(j, x)' PROVE Byte(j, x)' = Expected(j, x)'
  <2>1. Copied(j, x)' <=> Copied(j, x)
    BY DEF Copied
  <2>2. Live(j, x) /\ Expected(j, x)' = Expected(j, x)
    BY <1>2, <2>1 DEF Live, Expected
  <2>3. x \div BSIZE \in 0 .. MAXFILE - 1 /\ mapped(j, x \div BSIZE) # 0
    BY <1>1, <2>2, LiveOwned
  <2>4. PICK n \in 0 .. MAXFILE - 1 : n = x \div BSIZE
    BY <2>3
  <2>5. mapped(j, n) \in Blocks /\ mapped(j, n)' = mapped(j, n) /\ mapped(j, n) # c
    BY <1>1, <2>3, <2>4, Numbers DEF IInv, BlockInv
  <2>6. Byte(j, x)' = Byte(j, x)
    BY <2>4, <2>5 DEF Byte
  <2> QED
    BY <1>1, <2>2, <2>6 DEF ContentsOK
<1> QED
  BY <1>1, <1>2 DEF ContentsOK

\* Only the inode of the operation has to be looked at.
LEMMA DataFrom ==
    ASSUME IInv, DataInv, NEW i \in Inodes, ContentsOK(i)', \A j \in Inodes : j # i => Untouched(j),
           bytes' \in [Inodes -> Seq(Cells)], \A j \in Inodes : j # i => bytes'[j] = bytes[j],
           DOMAIN data' = Blocks, NEW c, \A b \in Blocks : b # c => data'[b] = data[b],
           \A j \in Inodes : j # i /\ op[j].at # "trunc" =>
              \A n \in 0 .. MAXFILE - 1 : mapped(j, n) # 0 => mapped(j, n) # c
    PROVE  DataInv'
<1>1. ASSUME NEW j \in Inodes, j # i PROVE ContentsOK(j)'
  <2>1. ContentsOK(j)
    BY DEF DataInv
  <2>2. /\ op'[j] = op[j] /\ size'[j] = size[j] /\ bytes'[j] = bytes[j]
        /\ \A n \in 0 .. MAXFILE - 1 : mapped(j, n)' = mapped(j, n)
    BY <1>1 DEF Untouched
  <2>3. op[j].at # "trunc" =>
           \A n \in 0 .. MAXFILE - 1 : mapped(j, n) # 0 => mapped(j, n)' = mapped(j, n) /\ mapped(j, n) # c
    BY <1>1, <2>2
  <2> QED
    BY <2>1, <2>2, <2>3, ContentsKept
<1> QED
  BY <1>1 DEF DataInv

\* A step between writes that leaves the file alone.
LEMMA ContentsIdle ==
    ASSUME IInv, NEW i \in Inodes, ContentsOK(i), op[i].at \in {"idle", "chunk"},
           \A x \in 0 .. MAXFILE * BSIZE - 1 : ~ Copied(i, x)', size'[i] = size[i], bytes'[i] = bytes[i], data' = data,
           \A n : mapped(i, n)' = mapped(i, n)
    PROVE  ContentsOK(i)'
<1>1. \A x : ~ Copied(i, x)
  BY DEF Copied
<1>2. \A x \in 0 .. MAXFILE * BSIZE - 1 :
         (Live(i, x)' <=> Live(i, x)) /\ Expected(i, x)' = Expected(i, x) /\ Byte(i, x)' = Byte(i, x)
  BY <1>1 DEF Live, Expected, Byte
<1> QED
  BY <1>2 DEF ContentsOK

LEMMA FilewriteData ==
    ASSUME IInv, DataInv, NEW i \in Inodes, NEW off \in 0 .. MAXFILE * BSIZE, NEW n \in Sizes[i],
           NEW v \in Values, filewrite(i, off, n, v)
    PROVE  DataInv'
<1>0. BlockInv /\ DiskInv /\ ContentsOK(i)
  BY DEF IInv, DataInv
<1>1. Quiet(i) /\ op'[i] = [at |-> "chunk", off |-> off, left |-> n, v |-> v]
  BY <1>0, FilewriteQuiet
<1>2. size' = size /\ dinode' = dinode /\ data' = data /\ bytes' = bytes /\ op[i].at = "idle"
  BY DEF filewrite, At
<1>3. /\ \A j \in Inodes : j # i => Untouched(j)
      /\ \A m : mapped(i, m)' = mapped(i, m)
  BY <1>0, <1>1, <1>2, QuietOthers
<1>4. \A x : ~ Copied(i, x)'
  BY <1>1 DEF Copied
<1>5. ContentsOK(i)'
  BY <1>0, <1>2, <1>3, <1>4, ContentsIdle
<1> QED
  BY <1>2, <1>3, <1>5, DataFrom DEF DataInv

LEMMA ChunkData ==
    ASSUME IInv, DataInv, NEW i \in Inodes, chunk(i)
    PROVE  DataInv'
<1>0. BlockInv /\ DiskInv /\ ContentsOK(i)
  BY DEF IInv, DataInv
<1>1. Quiet(i) /\ op[i] \in Chunks
  BY <1>0, ChunkQuiet
<1>2. size' = size /\ dinode' = dinode /\ data' = data /\ bytes' = bytes /\ op[i].at = "chunk"
  BY DEF chunk, At
<1>3. /\ \A j \in Inodes : j # i => Untouched(j)
      /\ \A m : mapped(i, m)' = mapped(i, m)
  BY <1>0, <1>1, <1>2, QuietOthers
<1>4. op'[i] = Idle \/ (op'[i] \in Writes /\ op'[i].start = op'[i].off)
  <2>1. \/ op'[i] = Idle
        \/ \E n1 \in Nat :
             /\ op'[i] = [at |-> "write", off |-> op[i].off, left |-> op[i].left,
                          v |-> op[i].v, start |-> op[i].off, end |-> op[i].off + n1]
             /\ op'[i] \in Writes
    BY <1>0, ChunkQuiet
  <2>2. ASSUME NEW n1 \in Nat,
               op'[i] = [at |-> "write", off |-> op[i].off, left |-> op[i].left,
                         v |-> op[i].v, start |-> op[i].off, end |-> op[i].off + n1]
        PROVE  op'[i].start = op'[i].off
    BY <2>2
  <2> QED
    BY <2>1, <2>2
<1>5. SUFFICES ContentsOK(i)'
  BY <1>2, <1>3, DataFrom DEF DataInv
<1>6. CASE op'[i] = Idle
  <2>1. \A x : ~ Copied(i, x)'
    BY <1>6 DEF Copied, Idle
  <2> QED
    BY <1>0, <1>2, <1>3, <2>1, ContentsIdle
<1>7. CASE op'[i] \in Writes /\ op'[i].start = op'[i].off
  <2>1. op'[i].off \in Nat
    BY <1>7, OpWrite
  <2>2. ASSUME NEW x \in 0 .. MAXFILE * BSIZE - 1 PROVE ~ Copied(i, x)'
    <3>1. x \in Nat
      BY ChunkSize
    <3> QED
      BY <1>7, <2>1, <3>1 DEF Copied
  <2> QED
    BY <1>0, <1>2, <1>3, <2>2, ContentsIdle
<1> QED
  BY <1>4, <1>6, <1>7

\* A block that a file has, in use elsewhere neither in the file nor in another.
LEMMA MappedOwned ==
    ASSUME BlockInv, NEW j \in Inodes, op[j].at # "trunc", NEW n \in 0 .. MAXFILE - 1, mapped(j, n) # 0
    PROVE  mapped(j, n) \in Blocks /\ mapped(j, n) \in bitmap /\ Owns(j, n, mapped(j, n))
<1>0. TypeOK /\ Accounted
  BY DEF BlockInv
<1>1. n \in 0 .. MAXFILE /\ n < MAXFILE
  BY Constants
<1>2. freeing(j, n) = mapped(j, n)
  BY <1>1 DEF freeing
<1>3. PICK b \in Blocks : b = mapped(j, n)
  BY <1>0, Numbers
<1>4. Owns(j, n, b)
  BY <1>1, <1>2, <1>3, OwnsIs
<1>5. b \in bitmap
  BY <1>0, <1>1, <1>4 DEF Accounted
<1> QED
  BY <1>3, <1>4, <1>5

\* The block that is allocated was in no file.
LEMMA BmapData ==
    ASSUME IInv, DataInv, NEW i \in Inodes, bmapindirect(i) \/ bmap(i)
    PROVE  DataInv'
<1>0. BlockInv
  BY DEF IInv
<1>1. \E m \in 0 .. MAXFILE : \E c : Alloc(i, m, c)
  <2>1. CASE bmapindirect(i)
    BY <1>0, <2>1, BmapindirectAlloc, Constants
  <2>2. CASE bmap(i)
    <3>1. Bn(i) \in 0 .. MAXFILE
      BY <1>0, <2>2, BmapAlloc, Constants
    <3> QED
      BY <1>0, <2>2, <3>1, BmapAlloc
  <2> QED
    BY <2>1, <2>2
<1>2. PICK b \in balloc : bitmap' = bitmap \cup {b} /\ data' = [data EXCEPT ![b] = NoBytes]
  BY DEF bmapindirect, bmap
<1>3. bytes' = bytes
  BY DEF bmapindirect, bmap
<1>4. DOMAIN data' = Blocks /\ \A d \in Blocks : d # b => data'[d] = data[d]
  BY <1>2 DEF DataInv
<1>5. b \notin bitmap
  BY <1>2 DEF balloc
<1>6. ASSUME NEW j \in Inodes, op[j].at # "trunc"
      PROVE  \A n \in 0 .. MAXFILE - 1 : mapped(j, n) # 0 => mapped(j, n) # b
  BY <1>0, <1>5, <1>6, MappedOwned
<1>7. PICK m \in 0 .. MAXFILE : \E c : Alloc(i, m, c)
  BY <1>1
<1>8. PICK c : Alloc(i, m, c)
  BY <1>7
<1>9. \A j \in Inodes : j # i => Untouched(j)
  BY <1>8, AllocOthers
<1>10. ContentsOK(i)'
  <2>1. op'[i] = op[i] /\ size'[i] = size[i] /\ bytes'[i] = bytes[i]
    BY <1>3, <1>8 DEF Alloc
  <2>2. \A n \in 0 .. MAXFILE - 1 : mapped(i, n) # 0 => mapped(i, n)' = mapped(i, n)
    BY <1>8, AllocKeeps
  <2>3. ContentsOK(i)
    BY DEF DataInv
  <2> QED
    BY <1>4, <1>6, <2>1, <2>2, <2>3, ContentsKept
<1> QED
  BY <1>3, <1>4, <1>6, <1>9, <1>10, DataFrom DEF DataInv

\* itrunc() changes no data, and the file is empty at its end.
LEMMA TruncData ==
    ASSUME IInv, DataInv, NEW i \in Inodes, truncate(i) \/ itrunc(i) \/ truncated(i)
    PROVE  DataInv'
<1>0. /\ BlockInv /\ DiskInv /\ TypeOK /\ dinode \in [Inodes -> Dinodes]
      /\ DOMAIN data = Blocks /\ bytes \in [Inodes -> Seq(Cells)]
  BY DEF IInv, BlockInv, DiskInv, DataInv
<1>1. CASE truncate(i)
  <2>1. Quiet(i) /\ op'[i].at = "trunc"
    BY <1>0, <1>1, TruncateQuiet
  <2>2. size' = size /\ dinode' = dinode /\ data' = data /\ bytes' = bytes
    BY <1>1 DEF truncate
  <2>3. \A j \in Inodes : j # i => Untouched(j)
    BY <1>0, <2>1, <2>2, QuietOthers
  <2>4. ContentsOK(i)'
    BY <2>1 DEF ContentsOK
  <2> QED
    BY <1>0, <2>2, <2>3, <2>4, DataFrom
<1>2. CASE itrunc(i)
  <2>1. data' = data /\ bytes' = bytes
    BY <1>2 DEF itrunc
  <2>2. \A j \in Inodes : j # i => Untouched(j)
    BY <1>0, <1>2, ItruncOthers
  <2>3. ContentsOK(i)'
    BY <1>0, <1>2, ItruncBlocks DEF ContentsOK
  <2> QED
    BY <1>0, <2>1, <2>2, <2>3, DataFrom
<1>3. CASE truncated(i)
  <2>1. data' = data /\ bytes' = [bytes EXCEPT ![i] = <<>>] /\ size' = [size EXCEPT ![i] = 0]
    BY <1>3 DEF truncated
  <2>2. \A j \in Inodes : j # i => Untouched(j)
    BY <1>0, <1>3, TruncatedOthers
  <2>3. op'[i].at = "idle"
    BY <1>0, <1>3, TruncatedBlocks DEF Idle
  <2>4. /\ bytes' \in [Inodes -> Seq(Cells)] /\ bytes'[i] = <<>>
        /\ \A j \in Inodes : j # i => bytes'[j] = bytes[j]
    BY <1>0, <2>1
  <2>5. size'[i] = 0
    BY <1>0, <2>1 DEF TypeOK
  <2>6. ContentsOK(i)'
    <3>1. \A x \in 0 .. MAXFILE * BSIZE - 1 : ~ Live(i, x)'
      BY <2>3, <2>5, ChunkSize DEF Live, Copied
    <3>2. Len(bytes'[i]) = size'[i]
      BY <2>4, <2>5
    <3> QED
      BY <3>1, <3>2 DEF ContentsOK
  <2> QED
    BY <1>0, <2>1, <2>2, <2>4, <2>6, DataFrom
<1> QED
  BY <1>1, <1>2, <1>3

\* One turn of writei(): the bytes that it copies are those of the write, the
\* others stay.
LEMMA WriteblockContents ==
    ASSUME IInv, DataInv, NEW i \in Inodes, writeblock(i)
    PROVE  ContentsOK(i)'
<1>0. BlockInv /\ DiskInv /\ DiskOK(i) /\ ContentsOK(i) /\ DOMAIN data = Blocks
  BY DEF IInv, DiskInv, DataInv
<1>1. /\ Quiet(i) /\ op[i] \in Writes /\ op[i].off < op[i].end
      /\ op'[i] = [op[i] EXCEPT !.off = @ + portion(op[i].off, op[i].end)]
      /\ mapped(i, Bn(i)) # 0
  BY <1>0, WriteblockQuiet
<1>2. size' = size /\ dinode' = dinode /\ bytes' = bytes
  BY DEF writeblock
<1>3. \A n : mapped(i, n)' = mapped(i, n)
  BY <1>0, <1>1, <1>2, QuietOthers
<1>4. PICK off, m, s, v : off = op[i].off /\ m = portion(off, op[i].end) /\ s = op[i].start /\ v = op[i].v
  OBVIOUS
<1>5. off \in Nat /\ s \in Nat /\ op[i].at = "write" /\ off < op[i].end /\ op[i].end \in Nat
      /\ op[i].end \in 0 .. MAXFILE * BSIZE
  BY <1>1, <1>4, OpWrite DEF Writes
<1>6. m \in Nat \ {0} /\ off + m <= op[i].end /\ (off % BSIZE) + m <= BSIZE
  BY <1>4, <1>5, Portion
<1>7. op'[i].at = "write" /\ op'[i].start = s /\ op'[i].off = off + m /\ op'[i].v = v
  BY <1>1, <1>4 DEF Writes
<1>8. s <= off
  BY <1>0, <1>4, <1>5 DEF DiskOK
<1>9. PICK k \in Nat, r \in 0 .. BSIZE - 1 : k = Bn(i) /\ r = off % BSIZE /\ off = k * BSIZE + r
  BY <1>4, <1>5, Offset DEF Bn
<1>10. k \in 0 .. MAXFILE - 1
  <2>1. off < MAXFILE * BSIZE
    BY <1>5, ChunkSize
  <2> QED
    BY <1>4, <1>5, <1>9, <2>1, OffsetBlock DEF Bn
<1>11. PICK b \in Blocks : b = mapped(i, k) /\ b # 0
  BY <1>0, <1>1, <1>9, <1>10, Numbers DEF BlockInv
<1>12. data' = [data EXCEPT ![b] = [o \in 0 .. BSIZE - 1 |->
                    IF o \in r .. r + m - 1 THEN <<i, k * BSIZE + o, v>> ELSE data[b][o]]]
  BY <1>4, <1>9, <1>11 DEF writeblock
<1>13. /\ \A d \in Blocks : d # b => data'[d] = data[d]
       /\ \A o \in 0 .. BSIZE - 1 :
             data'[b][o] = IF o \in r .. r + m - 1 THEN <<i, k * BSIZE + o, v>> ELSE data[b][o]
  BY <1>0, <1>12
<1>14. PICK kb \in Nat : kb = k * BSIZE
  BY BlockOrder
<1>15. ASSUME NEW x \in 0 .. MAXFILE * BSIZE - 1, off <= x, x < off + m
       PROVE  Byte(i, x)' = Expected(i, x)'
  <2>1. x \in Nat
    BY ChunkSize
  <2>2. PICK o : o = x - kb
    OBVIOUS
  <2>3. o \in 0 .. BSIZE - 1 /\ o \in r .. r + m - 1 /\ x = kb + o
    BY <1>5, <1>6, <1>9, <1>14, <1>15, <2>1, <2>2, Constants
  <2>4. x \div BSIZE = k /\ x % BSIZE = o
    BY <1>14, <2>1, <2>3, OffsetUnique
  <2>5. Byte(i, x)' = <<i, x, v>>
    BY <1>3, <1>11, <1>13, <1>14, <2>3, <2>4 DEF Byte
  <2>6. Copied(i, x)'
    BY <1>5, <1>6, <1>7, <1>8, <1>15, <2>1 DEF Copied
  <2> QED
    BY <1>7, <2>5, <2>6 DEF Expected
<1>16. ASSUME NEW x \in 0 .. MAXFILE * BSIZE - 1, ~ (off <= x /\ x < off + m), Live(i, x)'
       PROVE  Byte(i, x)' = Expected(i, x)'
  <2>1. x \in Nat
    BY ChunkSize
  <2>2. Copied(i, x)' <=> Copied(i, x)
    BY <1>4, <1>5, <1>6, <1>7, <1>16, <2>1 DEF Copied
  <2>3. Live(i, x) /\ Expected(i, x)' = Expected(i, x)
    BY <1>2, <1>4, <1>7, <1>16, <2>2 DEF Live, Expected
  <2>4. PICK n \in 0 .. MAXFILE - 1, o \in 0 .. BSIZE - 1 :
          n = x \div BSIZE /\ o = x % BSIZE /\ x = n * BSIZE + o /\ mapped(i, n) # 0
    BY <1>5, <2>1, <2>3, LiveOwned, Offset
  <2>5. Byte(i, x)' = Byte(i, x)
    <3>1. CASE n = k
      <4>1. ~ (o \in r .. r + m - 1)
        BY <1>5, <1>6, <1>9, <1>14, <1>16, <2>1, <2>4, <3>1
      <4> QED
        BY <1>3, <1>11, <1>13, <2>4, <3>1, <4>1 DEF Byte
    <3>2. CASE n # k
      <4>1. mapped(i, n) \in Blocks /\ Owns(i, n, mapped(i, n)) /\ Owns(i, k, b)
        BY <1>0, <1>5, <1>10, <1>11, <2>4, MappedOwned
      <4>2. n \in 0 .. MAXFILE /\ k \in 0 .. MAXFILE
        BY <1>10, Constants
      <4>3. mapped(i, n) # b
        <5>1. SUFFICES ASSUME mapped(i, n) = b PROVE FALSE
          OBVIOUS
        <5>2. Owns(i, n, b)
          BY <4>1, <5>1
        <5>3. Accounted
          BY <1>0 DEF BlockInv
        <5> QED
          BY <3>2, <4>1, <4>2, <5>2, <5>3 DEF Accounted
      <4> QED
        BY <1>3, <1>13, <2>4, <4>1, <4>3 DEF Byte
    <3> QED
      BY <3>1, <3>2
  <2> QED
    BY <1>0, <1>5, <2>3, <2>5 DEF ContentsOK
<1>17. Len(bytes'[i]) = size'[i]
  BY <1>0, <1>2, <1>5 DEF ContentsOK
<1> QED
  BY <1>7, <1>15, <1>16, <1>17 DEF ContentsOK

LEMMA WriteblockData ==
    ASSUME IInv, DataInv, NEW i \in Inodes, writeblock(i)
    PROVE  DataInv'
<1>0. BlockInv /\ DiskInv /\ TypeOK /\ Accounted /\ DOMAIN data = Blocks /\ bytes \in [Inodes -> Seq(Cells)]
  BY DEF IInv, BlockInv, DataInv
<1>1. Quiet(i) /\ op[i] \in Writes /\ op[i].off < op[i].end /\ mapped(i, Bn(i)) # 0
  BY <1>0, WriteblockQuiet
<1>2. size' = size /\ dinode' = dinode /\ bytes' = bytes
  BY DEF writeblock
<1>3. \A j \in Inodes : j # i => Untouched(j)
  BY <1>0, <1>1, <1>2, QuietOthers
<1>4. PICK k \in 0 .. MAXFILE - 1 : k = Bn(i)
  BY <1>1, Reaching DEF Reached
<1>5. PICK b \in Blocks : b = mapped(i, k) /\ Owns(i, k, b)
  <2>1. op[i].at # "trunc"
    BY <1>1 DEF Writes
  <2> QED
    BY <1>0, <1>1, <1>4, <2>1, MappedOwned
<1>6. PICK z : data' = [data EXCEPT ![b] = z]
  BY <1>4, <1>5 DEF writeblock
<1>7. DOMAIN data' = Blocks /\ \A d \in Blocks : d # b => data'[d] = data[d]
  BY <1>0, <1>6
<1>8. ASSUME NEW j \in Inodes, j # i, op[j].at # "trunc", NEW n \in 0 .. MAXFILE - 1, mapped(j, n) # 0
      PROVE  mapped(j, n) # b
  <2>1. Owns(j, n, mapped(j, n)) /\ mapped(j, n) \in Blocks
    BY <1>0, <1>8, MappedOwned
  <2>2. n \in 0 .. MAXFILE /\ k \in 0 .. MAXFILE
    BY Constants
  <2> QED
    BY <1>0, <1>5, <1>8, <2>1, <2>2 DEF Accounted
<1>9. ContentsOK(i)'
  BY WriteblockContents
<1> QED
  <2>1. bytes' \in [Inodes -> Seq(Cells)] /\ \A j \in Inodes : j # i => bytes'[j] = bytes[j]
    BY <1>0, <1>2
  <2>2. \A j \in Inodes : j # i /\ op[j].at # "trunc" =>
           \A n \in 0 .. MAXFILE - 1 : mapped(j, n) # 0 => mapped(j, n) # b
    BY <1>8
  <2> QED
    BY <1>3, <1>7, <1>9, <2>1, <2>2, DataFrom

\* The end of writei(): the bytes of the chunk become contents of the file.
LEMMA WritedoneData ==
    ASSUME IInv, DataInv, NEW i \in Inodes, writedone(i)
    PROVE  DataInv'
<1>0. /\ BlockInv /\ DiskInv /\ TypeOK /\ DiskOK(i) /\ ContentsOK(i)
      /\ DOMAIN data = Blocks /\ bytes \in [Inodes -> Seq(Cells)]
  BY DEF IInv, BlockInv, DiskInv, DataInv
<1>1. /\ Quiet(i) /\ op[i] \in Writes /\ op[i].off = op[i].end
      /\ size' = [size EXCEPT ![i] = IF op[i].off > size[i] THEN op[i].off ELSE size[i]]
      /\ op'[i] = Idle \/ op'[i] \in Chunks
  BY <1>0, WritedoneQuiet
<1>2. PICK d : dinode' = [dinode EXCEPT ![i] = d] \/ dinode' = dinode
  BY DEF writedone
<1>3. /\ \A j \in Inodes : j # i => Untouched(j)
      /\ \A n : mapped(i, n)' = mapped(i, n)
  BY <1>0, <1>1, <1>2, QuietOthers
<1>4. PICK s, e, v, z : s = op[i].start /\ e = op[i].end /\ v = op[i].v /\ z = size[i]
  OBVIOUS
<1>5. /\ s \in Nat /\ e \in Nat /\ v \in Nat /\ z \in Nat /\ i \in Nat /\ op[i].off = e
      /\ op[i].at = "write"
  <2>1. v \in Values /\ z \in 0 .. MAXFILE * BSIZE
    BY <1>0, <1>1, <1>4, OpWrite DEF TypeOK
  <2> QED
    BY <1>1, <1>4, <2>1, OpWrite, ChunkSize, ConstAssumption DEF Writes
<1>6. s <= z /\ s <= e
  BY <1>0, <1>1, <1>4, <1>5 DEF DiskOK
<1>7. PICK w, y : w = bytes[i] /\ y = bytes'[i]
  OBVIOUS
<1>8. w \in Seq(Cells) /\ Len(w) = z
  BY <1>0, <1>4, <1>5, <1>7 DEF ContentsOK
<1>9. PICK t \in Nat : t = IF e > z THEN e ELSE z
  BY <1>5
<1>10. size'[i] = t
  BY <1>0, <1>1, <1>4, <1>5, <1>9 DEF TypeOK
<1>11. /\ bytes' = [bytes EXCEPT ![i] = [k \in 1 .. Len(w) \cup 1 .. e |->
                        IF k \in s + 1 .. e THEN <<i, k - 1, v>> ELSE w[k]]]
       /\ data' = data
  BY <1>4, <1>7 DEF writedone
<1>12. 1 .. Len(w) \cup 1 .. e = 1 .. t
  BY <1>5, <1>8, <1>9
<1>13. y = [k \in 1 .. t |-> IF k \in s + 1 .. e THEN <<i, k - 1, v>> ELSE w[k]]
  BY <1>0, <1>7, <1>11, <1>12
<1>14. y \in Seq(Cells) /\ Len(y) = t
  <2>1. ASSUME NEW k \in 1 .. t PROVE (IF k \in s + 1 .. e THEN <<i, k - 1, v>> ELSE w[k]) \in Cells
    <3>1. CASE k \in s + 1 .. e
      <4>1. k - 1 \in Nat
        BY <1>5, <3>1
      <4> QED
        BY <1>5, <3>1, <4>1 DEF Cells
    <3>2. CASE ~ (k \in s + 1 .. e)
      <4>1. k \in 1 .. Len(w)
        BY <1>5, <1>6, <1>8, <1>9, <3>2
      <4>2. w[k] \in Cells
        BY <1>8, <4>1
      <4> QED
        BY <3>2, <4>2
    <3> QED
      BY <3>1, <3>2
  <2>2. y \in [1 .. t -> Cells]
    BY <1>13, <2>1
  <2> QED
    BY <1>9, <2>2
<1>15. /\ bytes' \in [Inodes -> Seq(Cells)]
       /\ \A j \in Inodes : j # i => bytes'[j] = bytes[j]
  BY <1>0, <1>7, <1>11, <1>14
<1>16. ASSUME NEW x \in 0 .. MAXFILE * BSIZE - 1, Live(i, x)' PROVE Byte(i, x)' = Expected(i, x)'
  <2>1. x \in Nat
    BY ChunkSize
  <2>2. ~ Copied(i, x)'
    BY <1>1 DEF Copied, Idle, Chunks
  <2>3. x < t /\ Expected(i, x)' = y[x + 1]
    BY <1>7, <1>10, <1>16, <2>2 DEF Live, Expected
  <2>4. Copied(i, x) <=> x + 1 \in s + 1 .. e
    BY <1>4, <1>5, <2>1 DEF Copied
  <2>5. y[x + 1] = IF x + 1 \in s + 1 .. e THEN <<i, x, v>> ELSE w[x + 1]
    <3>1. x + 1 \in 1 .. t /\ (x + 1) - 1 = x
      <4>1. x < t /\ t \in Nat
        BY <1>9, <2>3
      <4> QED
        BY <2>1, <4>1
    <3> QED
      BY <1>13, <3>1
  <2>6. Expected(i, x) = y[x + 1]
    BY <1>4, <1>7, <2>4, <2>5 DEF Expected
  <2>7. Live(i, x)
    <3>1. CASE x < z
      BY <1>4, <3>1 DEF Live
    <3>2. CASE ~ (x < z)
      <4>1. s <= x /\ x < e
        BY <1>5, <1>6, <1>9, <2>1, <2>3, <3>2
      <4> QED
        BY <1>4, <1>5, <4>1 DEF Live, Copied
    <3> QED
      BY <3>1, <3>2
  <2>8. Byte(i, x)' = Byte(i, x)
    BY <1>3, <1>11 DEF Byte
  <2> QED
    BY <1>0, <1>5, <2>3, <2>6, <2>7, <2>8 DEF ContentsOK
<1>17. ContentsOK(i)'
  BY <1>7, <1>10, <1>14, <1>16 DEF ContentsOK
<1> QED
  BY <1>0, <1>3, <1>11, <1>15, <1>17, DataFrom

LEMMA DataStep ==
    ASSUME IInv, DataInv, [Next]_vars
    PROVE  DataInv'
<1>1. ASSUME UNCHANGED <<data, a, addrs, size, op, bytes>> PROVE DataInv'
  <2>1. \A j \in Inodes : ContentsOK(j)
    BY DEF DataInv
  <2>2. \A j : \A n : mapped(j, n)' = mapped(j, n)
    BY <1>1, NumbersKept
  <2>3. \A j \in Inodes : ContentsOK(j)'
    BY <1>1, <2>1, <2>2, ContentsKept
  <2> QED
    BY <1>1, <2>3 DEF DataInv
<1>2. CASE Next
  <2>1. PICK i \in Inodes :
          \/ \E off \in 0 .. MAXFILE * BSIZE, n \in Sizes[i], v \in Values : filewrite(i, off, n, v)
          \/ chunk(i) \/ bmapindirect(i) \/ bmap(i) \/ outofblocks(i) \/ writeblock(i) \/ writedone(i)
          \/ truncate(i) \/ itrunc(i) \/ truncated(i)
    BY <1>2 DEF Next
  <2>2. CASE outofblocks(i)
    BY <1>1, <2>2 DEF outofblocks
  <2> QED
    BY <2>1, <2>2, FilewriteData, ChunkData, BmapData, WriteblockData, WritedoneData, TruncData
<1>3. CASE UNCHANGED vars
  BY <1>1, <1>3 DEF vars
<1> QED
  BY <1>2, <1>3

LEMMA DataInvariance == Spec => [](IInv /\ DataInv)
<1>1. Init => DataInv
  <2>1. ASSUME Init PROVE DataInv
    <3>1. DOMAIN data = Blocks /\ bytes \in [Inodes -> Seq(Cells)]
      BY <2>1 DEF Init
    <3>2. ASSUME NEW i \in Inodes PROVE ContentsOK(i)
      <4>1. bytes[i] = <<>> /\ size[i] = 0 /\ op[i] = Idle
        BY <2>1 DEF Init
      <4>2. \A x \in 0 .. MAXFILE * BSIZE - 1 : ~ Live(i, x)
        BY <4>1, ChunkSize DEF Live, Copied, Idle
      <4>3. Len(<<>>) = 0
        OBVIOUS
      <4> QED
        BY <4>1, <4>2, <4>3 DEF ContentsOK
    <3> QED
      BY <3>1, <3>2 DEF DataInv
  <2> QED
    BY <2>1
<1>2. IInv /\ DataInv /\ [Next]_vars => DataInv'
  BY DataStep
<1> QED
  BY <1>1, <1>2, Invariance, PTL DEF Spec

-----------------------------------------------------------------------------
(* The loop of readi                                                       *)

\* One turn of the loop of readi(), and what the loop is.
Turn(i, o, end) == [k \in 1 .. portion(o, end) |-> data[mapped(i, o \div BSIZE)][(o % BSIZE) + k - 1]]

IsLoop(i, end, g) ==
    g = [o \in Nat |-> IF o >= end THEN <<>> ELSE Turn(i, o, end) \o g[o + portion(o, end)]]

LEMMA CopiedIsLoop ==
    ASSUME NEW i, NEW off, NEW end
    PROVE  copied(i, off, end) = (CHOOSE g : IsLoop(i, end, g))[off]
  BY DEF copied, IsLoop, Turn, portion

\* The bytes from o to end.
Slice(i, end) == [o \in Nat |-> IF o >= end THEN <<>> ELSE [k \in 1 .. end - o |-> Byte(i, o + k - 1)]]

\* The sequence h has the p elements of f and then the q elements of g.
Joins(S, p, q, f, g, h) ==
    /\ p \in Nat /\ q \in Nat
    /\ f \in [1 .. p -> S] /\ g \in [1 .. q -> S] /\ h \in [1 .. p + q -> S]
    /\ \A k \in 1 .. p : h[k] = f[k]
    /\ \A k \in 1 .. q : h[p + k] = g[k]

\* A turn of readi() puts the bytes up to the end of its block before the others.
LEMMA TurnSlice ==
    ASSUME NEW i, NEW end \in Nat, NEW o \in Nat, ~ (o >= end)
    PROVE  \E S, p, q : Joins(S, p, q, Turn(i, o, end), Slice(i, end)[o + portion(o, end)], Slice(i, end)[o])
<1>1. PICK m : m = portion(o, end)
  OBVIOUS
<1>2. m \in Nat \ {0} /\ o + m <= end /\ (o % BSIZE) + m <= BSIZE
  BY <1>1, Portion
<1>3. PICK n \in Nat, r \in 0 .. BSIZE - 1 : n = o \div BSIZE /\ r = o % BSIZE /\ o = n * BSIZE + r
  BY Offset
<1>4. PICK nb \in Nat : nb = n * BSIZE
  BY BlockOrder
<1>5. PICK S : \A x \in Nat : Byte(i, x) \in S
  <2> DEFINE T == {Byte(i, x) : x \in Nat}
  <2>1. \A x \in Nat : Byte(i, x) \in T
    OBVIOUS
  <2> QED
    BY <2>1
<1>6. PICK f : f = Turn(i, o, end)
  OBVIOUS
<1>7. ASSUME NEW k \in 1 .. m PROVE data[mapped(i, n)][r + k - 1] = Byte(i, o + k - 1)
  <2>1. PICK x \in Nat, s \in 0 .. BSIZE - 1 : x = o + k - 1 /\ s = r + k - 1 /\ x = nb + s
    BY <1>2, <1>3, <1>4, Constants
  <2>2. x \div BSIZE = n /\ x % BSIZE = s
    BY <1>4, <2>1, OffsetUnique
  <2> QED
    BY <2>1, <2>2 DEF Byte
<1>8. f = [k \in 1 .. m |-> Byte(i, o + k - 1)]
  BY <1>1, <1>3, <1>6, <1>7 DEF Turn
<1>9. PICK h : h = [k \in 1 .. end - o |-> Byte(i, o + k - 1)]
  OBVIOUS
<1>10. Slice(i, end)[o] = h
  BY <1>9 DEF Slice
<1>11. \A k \in 1 .. end - o : o + k - 1 \in Nat
  OBVIOUS
<1>12. f \in [1 .. m -> S] /\ h \in [1 .. end - o -> S]
  <2>1. \A k \in 1 .. m : o + k - 1 \in Nat
    BY <1>2
  <2> QED
    BY <1>5, <1>8, <1>9, <1>11, <2>1
<1>13. PICK q \in Nat : q = end - (o + m) /\ end - o = m + q
  BY <1>2
<1>14. PICK g : g = Slice(i, end)[o + m]
  OBVIOUS
<1>15. g \in [1 .. q -> S] /\ \A k \in 1 .. q : g[k] = Byte(i, o + m + k - 1)
  <2>1. CASE o + m >= end
    <3>1. q = 0 /\ g = <<>>
      BY <1>2, <1>13, <1>14, <2>1 DEF Slice
    <3>2. <<>> \in [1 .. 0 -> S] /\ 1 .. 0 = {}
      OBVIOUS
    <3> QED
      BY <3>1, <3>2
  <2>2. CASE ~ (o + m >= end)
    <3>1. g = [k \in 1 .. q |-> Byte(i, o + m + k - 1)]
      BY <1>2, <1>13, <1>14, <2>2 DEF Slice
    <3>2. \A k \in 1 .. q : o + m + k - 1 \in Nat
      BY <1>2
    <3> QED
      BY <1>5, <3>1, <3>2
  <2> QED
    BY <2>1, <2>2
<1>16. \A k \in 1 .. m : h[k] = f[k]
  BY <1>2, <1>8, <1>9, <1>13
<1>17. ASSUME NEW k \in 1 .. q PROVE h[m + k] = g[k]
  <2>1. m + k \in 1 .. end - o /\ o + (m + k) - 1 = o + m + k - 1
    BY <1>2, <1>13
  <2> QED
    BY <1>9, <1>15, <2>1
<1>18. h \in [1 .. m + q -> S] /\ m \in Nat
  BY <1>2, <1>12, <1>13
<1>19. Joins(S, m, q, f, g, h)
  BY <1>12, <1>15, <1>16, <1>17, <1>18 DEF Joins
<1> QED
  BY <1>1, <1>6, <1>10, <1>14, <1>19

\* Two results of a loop agree at a turn when they agree at the later ones.
LEMMA LoopsAgree ==
    ASSUME NEW i, NEW end \in Nat, NEW f, NEW g, IsLoop(i, end, f), IsLoop(i, end, g),
           NEW n \in Nat, n <= end, \A m \in Nat : m < n => f[end - m] = g[end - m]
    PROVE  f[end - n] = g[end - n]
<1>1. \A o \in Nat : /\ f[o] = IF o >= end THEN <<>> ELSE Turn(i, o, end) \o f[o + portion(o, end)]
                     /\ g[o] = IF o >= end THEN <<>> ELSE Turn(i, o, end) \o g[o + portion(o, end)]
  <2>1. \A o \in Nat : f[o] = IF o >= end THEN <<>> ELSE Turn(i, o, end) \o f[o + portion(o, end)]
    BY DEF IsLoop
  <2>2. \A o \in Nat : g[o] = IF o >= end THEN <<>> ELSE Turn(i, o, end) \o g[o + portion(o, end)]
    BY DEF IsLoop
  <2> QED
    BY <2>1, <2>2
<1>2. PICK o \in Nat : o = end - n
  OBVIOUS
<1>3. CASE o >= end
  BY <1>1, <1>2, <1>3
<1>4. CASE ~ (o >= end)
  <2>1. PICK m : m = portion(o, end)
    OBVIOUS
  <2>2. m \in Nat \ {0} /\ o + m <= end
    BY <1>4, <2>1, Portion
  <2>3. PICK p \in Nat : p = n - m /\ p < n /\ end - p = o + m
    BY <1>2, <2>2
  <2>4. f[o + m] = g[o + m]
    BY <2>3
  <2> QED
    BY <1>1, <1>2, <1>4, <2>1, <2>4
<1> QED
  BY <1>3, <1>4

\* The bytes that readi() puts together for a file that nobody changes.
LEMMA IdleContents ==
    ASSUME IInv, DataInv, NEW i \in Inodes, op[i].at = "idle"
    PROVE  size[i] \in Nat /\ bytes[i] \in Seq(Cells) /\ Len(bytes[i]) = size[i]
<1>1. size[i] \in 0 .. MAXFILE * BSIZE
  BY DEF IInv, BlockInv, TypeOK
<1>2. size[i] \in Nat
  BY <1>1, ChunkSize
<1> QED
  BY <1>2 DEF DataInv, ContentsOK

LEMMA SliceContents ==
    ASSUME IInv, DataInv, NEW i \in Inodes, op[i].at = "idle",
           NEW off \in Nat, NEW end \in Nat, off < end, end <= size[i]
    PROVE  Slice(i, end)[off] = [k \in 1 .. end - off |-> bytes[i][off + k]]
<1>1. size[i] \in 0 .. MAXFILE * BSIZE
  BY DEF IInv, BlockInv, TypeOK
<1>2. PICK z \in Nat : z = size[i] /\ z <= MAXFILE * BSIZE /\ end <= z
  BY <1>1, ChunkSize
<1>3. ASSUME NEW x \in Nat, x < z PROVE Byte(i, x) = bytes[i][x + 1]
  <2>1. x \in 0 .. MAXFILE * BSIZE - 1
    BY <1>2, <1>3, ChunkSize
  <2>2. Live(i, x) /\ Expected(i, x) = bytes[i][x + 1]
    BY <1>2, <1>3 DEF Live, Copied, Expected
  <2> QED
    BY <2>1, <2>2 DEF DataInv, ContentsOK
<1>4. Slice(i, end)[off] = [k \in 1 .. end - off |-> Byte(i, off + k - 1)]
  BY DEF Slice
<1>5. ASSUME NEW k \in 1 .. end - off PROVE Byte(i, off + k - 1) = bytes[i][off + k]
  <2>1. PICK x \in Nat : x = off + k - 1 /\ x < z /\ x + 1 = off + k
    BY <1>2
  <2> QED
    BY <1>3, <2>1
<1> QED
  BY <1>4, <1>5

-----------------------------------------------------------------------------
(* A chunk fits in the log                                                 *)

\* The first block that begins at or after x.
LEMMA NextBlock ==
    ASSUME NEW x \in Nat
    PROVE  \E q \in Nat : x <= q * BSIZE /\ q * BSIZE < x + BSIZE
<1>1. PICK n \in Nat, r \in 0 .. BSIZE - 1 : x = n * BSIZE + r
  BY Offset
<1>2. n * BSIZE \in Nat /\ (n + 1) * BSIZE = n * BSIZE + BSIZE /\ BSIZE \in Nat \ {0}
  BY BlockOrder, Constants
<1>3. PICK nb : nb = n * BSIZE
  OBVIOUS
<1>4. CASE r = 0
  <2>1. x <= n * BSIZE /\ n * BSIZE < x + BSIZE
    BY <1>1, <1>2, <1>3, <1>4
  <2> QED
    BY <2>1
<1>5. CASE r # 0
  <2>1. x <= nb + BSIZE /\ nb + BSIZE < x + BSIZE
    BY <1>1, <1>2, <1>3, <1>5
  <2>2. n + 1 \in Nat
    OBVIOUS
  <2> QED
    BY <1>2, <1>3, <2>1, <2>2
<1> QED
  BY <1>4, <1>5

\* The blocks that max bytes allow a chunk, at most one more than begin in it.
LEMMA ChunkRange ==
    ASSUME IInv, NEW i \in Inodes, op[i].at = "write", NEW k, k = (LOGSIZE - 1 - 1 - 2) \div 2
    PROVE  /\ k \in Nat /\ 2 * k + 4 <= LOGSIZE
           /\ \E q \in Nat : Begun(i) \subseteq q .. q + k - 1 /\ Reached(i) \subseteq q - 1 .. q + k - 1
<1>0. BSIZE \in Nat \ {0} /\ MAXFILE \in Nat /\ LOGSIZE \in Nat /\ LOGSIZE > 5
  BY Constants, ConstAssumption
<1>1. k \in Nat /\ 2 * k + 4 <= LOGSIZE /\ max = k * BSIZE
  BY <1>0 DEF max
<1>2. PICK s, e : s = op[i].start /\ e = op[i].end
  OBVIOUS
<1>3. s \in Nat /\ e \in Nat /\ e <= s + k * BSIZE
  <2>1. op[i] \in Writes
    BY OpType, OpFields DEF IInv, BlockInv
  <2>2. ChunkOK(op[i])
    BY DEF IInv, BlockInv, Chunked
  <2> QED
    BY <1>1, <1>2, <2>1, <2>2, OpWrite DEF ChunkOK
<1>4. PICK q \in Nat : s <= q * BSIZE /\ q * BSIZE < s + BSIZE
  BY <1>3, NextBlock
<1>5. PICK qb, kb : qb = q * BSIZE /\ kb = k * BSIZE
  OBVIOUS
<1>6. qb \in Nat /\ kb \in Nat /\ (q + k) * BSIZE = qb + kb
  BY <1>0, <1>1, <1>5, BlockOrder
<1>7. ASSUME NEW n \in 0 .. MAXFILE - 1, n * BSIZE < e PROVE n < q + k
  <2>1. n \in Nat /\ n * BSIZE \in Nat
    BY <1>0, BlockOrder
  <2>2. q + k <= n => qb + kb <= n * BSIZE
    BY <1>1, <1>6, <2>1, BlockOrder
  <2>3. n * BSIZE < qb + kb
    <3>1. PICK nb : nb = n * BSIZE
      OBVIOUS
    <3> QED
      BY <1>3, <1>4, <1>5, <1>6, <1>7, <2>1, <3>1
  <2> QED
    BY <1>1, <1>6, <2>1, <2>2, <2>3
<1>8. ASSUME NEW n \in 0 .. MAXFILE - 1, s < n * BSIZE + BSIZE PROVE q - 1 <= n
  <2>1. n \in Nat /\ n * BSIZE \in Nat /\ (n + 1) * BSIZE = n * BSIZE + BSIZE
    BY <1>0, BlockOrder
  <2>2. n + 1 < q => (n + 1) * BSIZE + BSIZE <= q * BSIZE
    BY <2>1, BlockOrder
  <2>3. PICK nb : nb = n * BSIZE
    OBVIOUS
  <2>4. ~ (nb + BSIZE + BSIZE <= qb)
    BY <1>0, <1>3, <1>4, <1>5, <1>6, <1>8, <2>1, <2>3
  <2>5. ~ (n + 1 < q)
    BY <1>5, <2>1, <2>2, <2>3, <2>4
  <2> QED
    BY <2>1, <2>5
<1>9. ASSUME NEW n \in 0 .. MAXFILE - 1, s <= n * BSIZE PROVE q <= n
  <2>1. n \in Nat /\ n * BSIZE \in Nat
    BY <1>0, BlockOrder
  <2>2. n < q => n * BSIZE + BSIZE <= q * BSIZE
    BY <2>1, BlockOrder
  <2>3. PICK nb : nb = n * BSIZE
    OBVIOUS
  <2>4. ~ (nb + BSIZE <= qb)
    BY <1>0, <1>3, <1>4, <1>5, <1>6, <1>9, <2>1, <2>3
  <2>5. ~ (n < q)
    BY <1>5, <2>1, <2>2, <2>3, <2>4
  <2> QED
    BY <2>1, <2>5
<1>10. Begun(i) \subseteq q .. q + k - 1
  <2>1. ASSUME NEW n \in Begun(i) PROVE n \in q .. q + k - 1
    <3>1. n \in 0 .. MAXFILE - 1 /\ s <= n * BSIZE /\ n * BSIZE < e
      BY <1>2 DEF Begun
    <3>2. q <= n /\ n < q + k
      BY <1>7, <1>9, <3>1
    <3> QED
      BY <1>0, <1>1, <3>1, <3>2
  <2> QED
    BY <2>1
<1>11. Reached(i) \subseteq q - 1 .. q + k - 1
  <2>1. ASSUME NEW n \in Reached(i) PROVE n \in q - 1 .. q + k - 1
    <3>1. n \in 0 .. MAXFILE - 1 /\ s < n * BSIZE + BSIZE /\ n * BSIZE < e
      BY <1>2 DEF Reached
    <3>2. q - 1 <= n /\ n < q + k
      BY <1>7, <1>8, <3>1
    <3> QED
      BY <1>0, <1>1, <3>1, <3>2
  <2> QED
    BY <2>1
<1> QED
  BY <1>1, <1>10, <1>11

\* The blocks a chunk has passed to log_write(), by what they are.
LEMMA CoveredBlocks ==
    ASSUME LogInv, NEW i \in Inodes, op[i].at = "write",
           NEW ds, ds = [n \in Reached(i) |-> DBLOCK(mapped(i, n))],
           NEW bs, bs = [n \in Begun(i) |-> BBLOCK(mapped(i, n))]
    PROVE  logged[i] \subseteq ({ds[n] : n \in Reached(i)} \cup {bs[n] : n \in Begun(i)})
                              \cup {DBLOCK(addrs[i][NDIRECT]), BBLOCK(addrs[i][NDIRECT])}
<1>1. PICK D, B : D = {ds[n] : n \in Reached(i)} /\ B = {bs[n] : n \in Begun(i)}
  OBVIOUS
<1>2. ASSUME NEW x \in logged[i]
      PROVE  x \in (D \cup B) \cup {DBLOCK(addrs[i][NDIRECT]), BBLOCK(addrs[i][NDIRECT])}
  <2>1. Covered(i, x)
    BY DEF LogInv, LogOK
  <2>2. \A n \in Reached(i) : DBLOCK(mapped(i, n)) \in D
    BY <1>1
  <2>3. \A n \in Begun(i) : BBLOCK(mapped(i, n)) \in B
    BY <1>1
  <2> QED
    BY <2>1, <2>2, <2>3 DEF Covered
<1> QED
  BY <1>1, <1>2

\* The definition of Cardinality, which carries what is proved of the Cardinality
\* that FiniteSetTheorems brings in to the one that InodeData uses.
Count(S) ==
    LET CS[T \in SUBSET S] == IF T = {} THEN 0 ELSE 1 + CS[T \ {CHOOSE x : x \in T}]
    IN  CS[S]

LEMMA ChunkFitsCount ==
    ASSUME \A i \in Inodes : op[i].at = "write" => Count(logged[i] \cup {IBLOCK(i)}) <= LOGSIZE
    PROVE  ChunkFits
<1>1. \A S : Cardinality(S) = Count(S)
  BY ZenonT(100) DEF Cardinality, Count
<1> QED
  BY <1>1, ZenonT(100) DEF ChunkFits

LOCAL INSTANCE FiniteSetTheorems
LOCAL INSTANCE SequenceTheorems

LEMMA CardinalityCount ==
    ASSUME NEW S
    PROVE  Cardinality(S) = Count(S)
  BY ZenonT(100) DEF Cardinality, Count

LEMMA ImageCardinality ==
    ASSUME NEW S, IsFiniteSet(S), NEW f
    PROVE  /\ IsFiniteSet({f[x] : x \in S})
           /\ Cardinality({f[x] : x \in S}) \in Nat
           /\ Cardinality({f[x] : x \in S}) <= Cardinality(S)
<1> DEFINE T == {f[x] : x \in S}
<1> DEFINE g == [x \in S |-> f[x]]
<1>1. g \in Surjection(S, T)
  BY DEF Surjection
<1>2. IsFiniteSet(T) /\ Cardinality(T) <= Cardinality(S)
  BY <1>1, FS_Surjection
<1> QED
  BY <1>2, FS_CardinalityType

LEMMA UnionCardinality ==
    ASSUME NEW S, NEW T, IsFiniteSet(S), IsFiniteSet(T), NEW m \in Nat, NEW n \in Nat,
           Cardinality(S) <= m, Cardinality(T) <= n
    PROVE  IsFiniteSet(S \cup T) /\ Cardinality(S \cup T) <= m + n
<1>1. /\ IsFiniteSet(S \cup T)
      /\ Cardinality(S \cup T) = Cardinality(S) + Cardinality(T) - Cardinality(S \cap T)
  BY FS_Union
<1>2. IsFiniteSet(S \cap T)
  BY FS_Intersection
<1>3. Cardinality(S) \in Nat /\ Cardinality(T) \in Nat /\ Cardinality(S \cap T) \in Nat
  BY <1>2, FS_CardinalityType
<1> QED
  BY <1>1, <1>3

LEMMA ChunkBlocks ==
    ASSUME IInv, NEW i \in Inodes, op[i].at = "write", NEW k, k = (LOGSIZE - 1 - 1 - 2) \div 2
    PROVE  /\ IsFiniteSet(Begun(i)) /\ Cardinality(Begun(i)) <= k
           /\ IsFiniteSet(Reached(i)) /\ Cardinality(Reached(i)) <= k + 1
           /\ k \in Nat /\ 2 * k + 4 <= LOGSIZE
<1>0. k \in Nat /\ 2 * k + 4 <= LOGSIZE
  BY ChunkRange
<1>1. PICK q \in Nat : Begun(i) \subseteq q .. q + k - 1 /\ Reached(i) \subseteq q - 1 .. q + k - 1
  BY ChunkRange
<1>2. IsFiniteSet(q .. q + k - 1) /\ Cardinality(q .. q + k - 1) = k
  <2>1. PICK h \in Int : h = q + k - 1
    BY <1>0
  <2>2. IsFiniteSet(q .. h) /\ Cardinality(q .. h) = IF q > h THEN 0 ELSE h - q + 1
    <3>1. q \in Int
      OBVIOUS
    <3> QED
      BY <3>1, FS_Interval, ZenonT(100)
  <2>3. (IF q > h THEN 0 ELSE h - q + 1) = k
    BY <1>0, <2>1
  <2> QED
    BY <2>1, <2>2, <2>3
<1>3. IsFiniteSet(q - 1 .. q + k - 1) /\ Cardinality(q - 1 .. q + k - 1) = k + 1
  <2>1. PICK g \in Int, h \in Int : g = q - 1 /\ h = q + k - 1
    BY <1>0
  <2>2. IsFiniteSet(g .. h) /\ Cardinality(g .. h) = IF g > h THEN 0 ELSE h - g + 1
    BY FS_Interval, ZenonT(100)
  <2>3. (IF g > h THEN 0 ELSE h - g + 1) = k + 1
    BY <1>0, <2>1
  <2> QED
    BY <2>1, <2>2, <2>3
<1>4. IsFiniteSet(Begun(i)) /\ Cardinality(Begun(i)) <= k
  <2>1. PICK S : S = q .. q + k - 1
    OBVIOUS
  <2> QED
    BY <1>1, <1>2, <2>1, FS_Subset
<1>5. IsFiniteSet(Reached(i)) /\ Cardinality(Reached(i)) <= k + 1
  <2>1. PICK S : S = q - 1 .. q + k - 1
    OBVIOUS
  <2> QED
    BY <1>1, <1>3, <2>1, FS_Subset
<1> QED
  BY <1>0, <1>4, <1>5

LEMMA CoveredFits ==
    ASSUME IInv, LogInv, NEW i \in Inodes, op[i].at = "write"
    PROVE  Count(logged[i] \cup {IBLOCK(i)}) <= LOGSIZE
<1>2. PICK k : k = (LOGSIZE - 1 - 1 - 2) \div 2
  OBVIOUS
<1>3. /\ IsFiniteSet(Begun(i)) /\ Cardinality(Begun(i)) <= k
      /\ IsFiniteSet(Reached(i)) /\ Cardinality(Reached(i)) <= k + 1
      /\ k \in Nat /\ 2 * k + 4 <= LOGSIZE
  BY <1>2, ChunkBlocks
<1>4. PICK ds, bs : /\ ds = [n \in Reached(i) |-> DBLOCK(mapped(i, n))]
                    /\ bs = [n \in Begun(i) |-> BBLOCK(mapped(i, n))]
  OBVIOUS
<1>5. PICK D, B, J, I : /\ D = {ds[n] : n \in Reached(i)} /\ B = {bs[n] : n \in Begun(i)}
                        /\ J = {DBLOCK(addrs[i][NDIRECT]), BBLOCK(addrs[i][NDIRECT])}
                        /\ I = {IBLOCK(i)}
  OBVIOUS
<1>6. logged[i] \subseteq (D \cup B) \cup J
  BY <1>4, <1>5, CoveredBlocks
<1>7. IsFiniteSet(D) /\ Cardinality(D) <= k + 1
  <2>1. IsFiniteSet(D) /\ Cardinality(D) \in Nat /\ Cardinality(D) <= Cardinality(Reached(i))
    BY <1>3, <1>5, ImageCardinality
  <2>2. Cardinality(Reached(i)) \in Nat
    BY <1>3, FS_CardinalityType
  <2> QED
    BY <1>3, <2>1, <2>2
<1>8. IsFiniteSet(B) /\ Cardinality(B) <= k
  <2>1. IsFiniteSet(B) /\ Cardinality(B) \in Nat /\ Cardinality(B) <= Cardinality(Begun(i))
    BY <1>3, <1>5, ImageCardinality
  <2>2. Cardinality(Begun(i)) \in Nat
    BY <1>3, FS_CardinalityType
  <2> QED
    BY <1>3, <2>1, <2>2
<1>9. IsFiniteSet(J) /\ Cardinality(J) <= 2
  <2>1. PICK x, y : J = {x} \cup {y}
    BY <1>5
  <2>2. IsFiniteSet({x}) /\ Cardinality({x}) = 1 /\ IsFiniteSet({y}) /\ Cardinality({y}) = 1
    BY FS_Singleton
  <2>3. IsFiniteSet({x} \cup {y}) /\ Cardinality({x} \cup {y}) <= 1 + 1
    <3>1. PICK S, T : S = {x} /\ T = {y}
      OBVIOUS
    <3>2. PICK n \in Nat : n = 1
      OBVIOUS
    <3>3. IsFiniteSet(S) /\ IsFiniteSet(T) /\ Cardinality(S) <= n /\ Cardinality(T) <= n
      BY <2>2, <3>1, <3>2
    <3>4. IsFiniteSet(S \cup T) /\ Cardinality(S \cup T) <= n + n
      BY <3>3, UnionCardinality, ZenonT(100)
    <3> QED
      BY <3>1, <3>2, <3>4
  <2> QED
    BY <2>1, <2>3
<1>10. IsFiniteSet(I) /\ Cardinality(I) <= 1
  <2>1. IsFiniteSet(I) /\ Cardinality(I) = 1
    BY <1>5, FS_Singleton, ZenonT(100)
  <2> QED
    BY <2>1
<1>11. k + 1 \in Nat /\ (k + 1) + k \in Nat /\ ((k + 1) + k) + 2 \in Nat /\ 2 \in Nat /\ 1 \in Nat
  BY <1>3
<1>12. IsFiniteSet(D \cup B) /\ Cardinality(D \cup B) <= (k + 1) + k
  BY <1>3, <1>7, <1>8, <1>11, UnionCardinality, ZenonT(100)
<1>13. IsFiniteSet((D \cup B) \cup J) /\ Cardinality((D \cup B) \cup J) <= ((k + 1) + k) + 2
  BY <1>9, <1>11, <1>12, UnionCardinality, ZenonT(100)
<1>14. IsFiniteSet(((D \cup B) \cup J) \cup I) /\ Cardinality(((D \cup B) \cup J) \cup I) <= (((k + 1) + k) + 2) + 1
  BY <1>10, <1>11, <1>13, UnionCardinality, ZenonT(100)
<1>15. PICK X, L : X = ((D \cup B) \cup J) \cup I /\ L = logged[i] \cup I
  OBVIOUS
<1>16. L \in SUBSET X
  BY <1>6, <1>15
<1>17. IsFiniteSet(L) /\ Cardinality(L) <= Cardinality(X)
  BY <1>14, <1>15, <1>16, FS_Subset
<1>18. Cardinality(L) \in Nat /\ Cardinality(X) \in Nat
  BY <1>14, <1>15, <1>17, FS_CardinalityType
<1>19. Cardinality(L) <= LOGSIZE
  BY <1>3, <1>14, <1>15, <1>17, <1>18, ConstAssumption
<1> QED
  BY <1>5, <1>15, <1>19, CardinalityCount

\* A chunk of filewrite() fits in the log for any size of blocks, files and log:
\* the max of its comment, with the indirect block, the bitmap, the inode and the
\* blocks of slop, is small enough.
THEOREM ChunksFit == Spec => []ChunkFits
<1>1. IInv /\ LogInv => ChunkFits
  BY CoveredFits, ChunkFitsCount
<1> QED
  BY <1>1, LogInvariance, PTL

-----------------------------------------------------------------------------
(* What readi gives                                                        *)

LEMMA Concatenation ==
    ASSUME NEW S, NEW p, NEW q, NEW f, NEW g, NEW h, Joins(S, p, q, f, g, h)
    PROVE  h = f \o g
<1>0. /\ p \in Nat /\ q \in Nat
      /\ f \in [1 .. p -> S] /\ g \in [1 .. q -> S] /\ h \in [1 .. p + q -> S]
      /\ \A k \in 1 .. p : h[k] = f[k]
      /\ \A k \in 1 .. q : h[p + k] = g[k]
  BY DEF Joins
<1>1. f \in Seq(S) /\ Len(f) = p /\ g \in Seq(S) /\ Len(g) = q /\ h \in Seq(S) /\ Len(h) = p + q
  BY <1>0
<1>2. /\ f \o g \in Seq(S) /\ Len(f \o g) = p + q
      /\ \A k \in 1 .. p + q : (f \o g)[k] = IF k <= p THEN f[k] ELSE g[k - p]
  BY <1>0, <1>1, ConcatProperties
<1>3. ASSUME NEW k \in 1 .. p + q PROVE h[k] = (f \o g)[k]
  <2>1. CASE k \in 1 .. p
    BY <1>0, <1>2, <2>1
  <2>2. CASE ~ (k \in 1 .. p)
    <3>1. PICK l \in 1 .. q : k = p + l /\ l = k - p /\ ~ (k <= p)
      BY <1>0, <2>2
    <3>2. (f \o g)[k] = g[l]
      BY <1>2, <3>1
    <3> QED
      BY <1>0, <3>1, <3>2
  <2> QED
    BY <2>1, <2>2
<1>4. PICK u : u = f \o g
  OBVIOUS
<1>5. u \in Seq(S) /\ Len(h) = Len(u) /\ \A k \in 1 .. Len(h) : h[k] = u[k]
  BY <1>1, <1>2, <1>3, <1>4
<1>6. h = u
  BY <1>1, <1>5, SeqEqual, ZenonT(100)
<1> QED
  BY <1>4, <1>6

\* The turns of readi() put the bytes together in order.
LEMMA SliceIsLoop ==
    ASSUME NEW i, NEW end \in Nat
    PROVE  IsLoop(i, end, Slice(i, end))
<1>1. ASSUME NEW o \in Nat, ~ (o >= end)
      PROVE  Slice(i, end)[o] = Turn(i, o, end) \o Slice(i, end)[o + portion(o, end)]
  <2>1. PICK S, p, q : Joins(S, p, q, Turn(i, o, end), Slice(i, end)[o + portion(o, end)], Slice(i, end)[o])
    BY <1>1, TurnSlice
  <2> QED
    BY <2>1, Concatenation, ZenonT(100)
<1>2. ASSUME NEW o \in Nat, o >= end PROVE Slice(i, end)[o] = <<>>
  BY <1>2 DEF Slice
<1>3. PICK z : z = Slice(i, end)
  OBVIOUS
<1>4. z = [o \in Nat |-> z[o]]
  BY <1>3 DEF Slice
<1>5. \A o \in Nat : z[o] = IF o >= end THEN <<>> ELSE Turn(i, o, end) \o z[o + portion(o, end)]
  BY <1>1, <1>2, <1>3
<1> QED
  BY <1>3, <1>4, <1>5 DEF IsLoop

LEMMA LeastNat ==
    ASSUME NEW T, T \subseteq Nat, T # {}
    PROVE  \E n \in T : \A m \in T : n <= m
<1>1. PICK n \in T : \A m \in T : ~ (<<m, n>> \in OpToRel(<, Nat))
  BY NatLessThanWellFounded, WFMin
<1>2. \A m \in T : ~ (m < n)
  BY <1>1 DEF OpToRel
<1> QED
  BY <1>2

\* A loop has one result: the last turn with another result would not exist.
LEMMA LoopUnique ==
    ASSUME NEW i, NEW end \in Nat, NEW f, NEW g, IsLoop(i, end, f), IsLoop(i, end, g), NEW off \in Nat
    PROVE  f[off] = g[off]
<1>1. CASE off >= end
  BY <1>1 DEF IsLoop
<1>2. CASE ~ (off >= end)
  <2> DEFINE T == {n \in Nat : n <= end /\ f[end - n] # g[end - n]}
  <2>1. SUFFICES ASSUME T # {} PROVE FALSE
    <3>1. end - off \in Nat /\ end - off <= end /\ end - (end - off) = off
      BY <1>2
    <3> QED
      BY <3>1
  <2>2. PICK n \in T : \A m \in T : n <= m
    BY <2>1, LeastNat
  <2>3. \A m \in Nat : m < n => f[end - m] = g[end - m]
    BY <2>2
  <2>4. f[end - n] = g[end - n]
    BY <2>2, <2>3, LoopsAgree
  <2> QED
    BY <2>2, <2>4
<1> QED
  BY <1>1, <1>2

LEMMA CopiedIs ==
    ASSUME NEW i, NEW off \in Nat, NEW end \in Nat
    PROVE  copied(i, off, end) = Slice(i, end)[off]
<1>1. PICK g : g = CHOOSE h : IsLoop(i, end, h)
  OBVIOUS
<1>2. IsLoop(i, end, g)
  BY <1>1, SliceIsLoop
<1>3. g[off] = Slice(i, end)[off]
  BY <1>2, SliceIsLoop, LoopUnique
<1> QED
  BY <1>1, <1>3, CopiedIsLoop

\* The contents of a file that nobody changes are what readi() copies.
LEMMA ContentsRead ==
    ASSUME IInv, DataInv
    PROVE  ReadsBack
<1>1. SUFFICES ASSUME NEW i \in Inodes, op[i].at = "idle", NEW off \in 0 .. size[i], NEW n \in 0 .. MAXFILE * BSIZE
               PROVE  readi(i, off, n) = SubSeq(bytes[i], off + 1, Least(off + n, Len(bytes[i])))
  BY DEF ReadsBack
<1>2. PICK z \in Nat, w \in Seq(Cells) : z = size[i] /\ w = bytes[i] /\ Len(w) = z
  BY <1>1, IdleContents
<1>3. off \in Nat /\ off <= z /\ n \in Nat
  BY <1>1, <1>2, ChunkSize
<1>4. PICK end \in Nat : end = Least(off + n, z) /\ off <= end /\ end <= z
  BY <1>3 DEF Least
<1>5. readi(i, off, n) = Slice(i, end)[off]
  <2>1. ~ (off > size[i])
    BY <1>2, <1>3
  <2> QED
    BY <1>2, <1>3, <1>4, <2>1, CopiedIs DEF readi
<1>6. PICK q : q = SubSeq(w, off + 1, end)
  OBVIOUS
<1>7. Slice(i, end)[off] = q
  <2>1. CASE off >= end
    <3>1. off + 1 \in Int /\ end \in Int /\ end < off + 1
      BY <1>3, <1>4, <2>1
    <3>2. q = <<>>
      BY <1>6, <3>1, SubSeqEmpty, ZenonT(100)
    <3>3. Slice(i, end)[off] = <<>>
      BY <1>3, <2>1 DEF Slice
    <3> QED
      BY <3>2, <3>3
  <2>2. CASE ~ (off >= end)
    <3>1. PICK l, h \in Int : l = off + 1 /\ h = end
      BY <1>3, <1>4
    <3>2. \A k \in l .. h : w[k] \in Cells
      BY <1>2, <1>3, <1>4, <3>1
    <3>3. /\ q \in Seq(Cells) /\ Len(q) = IF l <= h THEN h - l + 1 ELSE 0
          /\ \A k \in 1 .. h - l + 1 : q[k] = w[l + k - 1]
      BY <1>6, <3>1, <3>2, SubSeqProperties
    <3>4. PICK m \in Nat : m = end - off /\ m = h - l + 1 /\ l <= h /\ \A k \in 1 .. m : l + k - 1 = off + k /\ off + k \in l .. h
      BY <1>3, <1>4, <2>2, <3>1
    <3>5. PICK s : s = Slice(i, end)[off]
      OBVIOUS
    <3>6. s = [k \in 1 .. m |-> w[off + k]]
      <4>1. off < end /\ end <= size[i]
        BY <1>2, <1>3, <1>4, <2>2
      <4>2. s = [k \in 1 .. end - off |-> bytes[i][off + k]]
        BY <1>1, <1>3, <3>5, <4>1, SliceContents, ZenonT(100)
      <4> QED
        BY <1>2, <3>4, <4>2
    <3>7. s \in Seq(Cells) /\ Len(s) = m
      <4>1. s \in [1 .. m -> Cells]
        BY <3>2, <3>4, <3>6
      <4> QED
        BY <4>1
    <3>8. Len(s) = Len(q) /\ \A k \in 1 .. Len(s) : s[k] = q[k]
      BY <3>3, <3>4, <3>6, <3>7
    <3>9. s = q
      BY <3>3, <3>7, <3>8, SeqEqual, ZenonT(100)
    <3> QED
      BY <3>5, <3>9
  <2> QED
    BY <2>1, <2>2
<1> QED
  BY <1>2, <1>4, <1>5, <1>6, <1>7

\* For any number of inodes, blocks and sizes: readi() of a file that nobody
\* changes gives the bytes that were written, from any offset and of any length.
THEOREM ReadsCorrect == Spec => []ReadsBack
<1>1. IInv /\ DataInv => ReadsBack
  BY ContentsRead
<1> QED
  BY <1>1, DataInvariance, PTL

=============================================================================
