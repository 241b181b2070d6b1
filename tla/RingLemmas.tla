----------------------------- MODULE RingLemmas -----------------------------
(***************************************************************************)
(* Arithmetic of the rings of pipe.c and console.c: buffers of N bytes     *)
(* indexed, modulo N, by counters that wrap at W, a multiple of N.         *)
(***************************************************************************)
EXTENDS Integers, TLAPS

-----------------------------------------------------------------------------
(* Remainders                                                              *)

\* A remainder is what is left over a multiple.
LEMMA Remainder ==
    ASSUME NEW m \in Nat \ {0}, NEW q \in Int, NEW r \in 0 .. m - 1, NEW a, a = q * m + r
    PROVE  a % m = r
  OBVIOUS

LEMMA SmallRemainder ==
    ASSUME NEW m \in Nat \ {0}, NEW a \in 0 .. m - 1
    PROVE  a % m = a
  OBVIOUS

LEMMA NextRemainder ==
    ASSUME NEW m \in Nat \ {0}, NEW a \in m .. 2 * m - 1
    PROVE  a % m = a - m
  OBVIOUS

\* Division with remainder.
LEMMA Division ==
    ASSUME NEW a \in Nat, NEW m \in Nat \ {0}
    PROVE  \E q \in Nat, r \in 0 .. m - 1 : a = q * m + r
<1>1. a \div m \in Nat /\ a % m \in 0 .. m - 1
  OBVIOUS
<1>2. a = (a \div m) * m + (a % m)
  OBVIOUS
<1> QED
  BY <1>1, <1>2

\* Adding a multiple of m changes no remainder by m.
LEMMA AddMultiple ==
    ASSUME NEW m \in Nat \ {0}, NEW a \in Nat, NEW k \in Nat
    PROVE  (a + k * m) % m = a % m
<1>1. PICK q \in Nat, r \in 0 .. m - 1 : a = q * m + r
  BY Division
<1>2. a % m = r
  BY <1>1, Remainder
<1>3. PICK p \in Int : p = q + k
  OBVIOUS
<1>4. \A c, t : t \in 0 .. m - 1 /\ c = p * m + t => c % m = t
  BY ZenonT(100), Remainder
<1>5. a + k * m = p * m + r
  BY <1>1, <1>3
<1> QED
  BY ZenonT(100), <1>2, <1>4, <1>5

LEMMA AddOnce ==
    ASSUME NEW m \in Nat \ {0}, NEW a \in Nat
    PROVE  (a + m) % m = a % m
<1>1. 1 \in Nat /\ 1 * m = m
  OBVIOUS
<1>2. (a + 1 * m) % m = a % m
  BY ZenonT(100), <1>1, AddMultiple
<1> QED
  BY ZenonT(100), <1>1, <1>2

\* A sum of two remainders wraps at most once.
LEMMA Wrap ==
    ASSUME NEW W \in Nat \ {0}, NEW x \in 0 .. W - 1, NEW y \in 0 .. W - 1
    PROVE  /\ (x + y) % W = IF x + y < W THEN x + y ELSE x + y - W
           /\ (x + y) % W \in 0 .. W - 1
<1>1. PICK s \in 0 .. 2 * W - 1 : s = x + y
  OBVIOUS
<1>2. s % W = IF s < W THEN s ELSE s - W
  <2>1. CASE s < W
    BY <2>1, SmallRemainder
  <2>2. CASE s >= W
    <3>1. s \in W .. 2 * W - 1
      BY <2>2
    <3> QED
      BY <2>2, <3>1, NextRemainder
  <2> QED
    BY <2>1, <2>2
<1> QED
  BY <1>1, <1>2

-----------------------------------------------------------------------------
(* A ring of N cells, indexed by counters modulo W                         *)

\* Counter a advanced by b, the distance from one counter to another, and the cell
\* of a counter.
Add(W, a, b) == (a + b) % W
Gap(W, from, to) == (to + W - from) % W
Cell(N, a) == a % N

LEMMA AddType ==
    ASSUME NEW W \in Nat \ {0}, NEW a \in 0 .. W - 1, NEW b \in 0 .. W - 1
    PROVE  /\ Add(W, a, b) \in 0 .. W - 1
           /\ Add(W, a, b) = IF a + b < W THEN a + b ELSE a + b - W
  BY ZenonT(100), Wrap DEF Add

LEMMA CellType ==
    ASSUME NEW N \in Nat \ {0}, NEW a \in Nat
    PROVE  Cell(N, a) \in 0 .. N - 1
  BY DEF Cell

\* The counters wrap at a multiple of the size of the ring, so that the cell of a
\* counter does not depend on it.
LEMMA AddCell ==
    ASSUME NEW N \in Nat \ {0}, NEW W \in Nat \ {0}, W % N = 0,
           NEW a \in 0 .. W - 1, NEW b \in 0 .. W - 1
    PROVE  Cell(N, Add(W, a, b)) = Cell(N, a + b)
<1>1. PICK k \in Nat : W = k * N
  <2>0. W \in Nat
    OBVIOUS
  <2>1. PICK k \in Nat, r \in 0 .. N - 1 : W = k * N + r
    BY ZenonT(100), <2>0, Division
  <2>2. r = 0
    BY <2>1, Remainder
  <2> QED
    BY <2>1, <2>2
<1>2. Add(W, a, b) = IF a + b < W THEN a + b ELSE a + b - W
  BY ZenonT(100), AddType
<1>3. CASE a + b < W
  BY <1>2, <1>3
<1>4. CASE a + b >= W
  <2>1. PICK d \in Nat : d = a + b - W /\ d = Add(W, a, b)
    BY <1>2, <1>4
  <2>2. (d + k * N) % N = d % N
    BY ZenonT(100), AddMultiple
  <2>3. d + k * N = a + b
    BY <1>1, <2>1
  <2> QED
    BY <2>1, <2>2, <2>3 DEF Cell
<1> QED
  BY <1>3, <1>4

\* The distance from one counter to another is what takes the one to the other.
LEMMA GapIs ==
    ASSUME NEW W \in Nat \ {0}, NEW a \in 0 .. W - 1, NEW b \in 0 .. W - 1
    PROVE  /\ Gap(W, a, b) \in 0 .. W - 1
           /\ Gap(W, a, b) = IF b >= a THEN b - a ELSE b + W - a
<1>1. CASE b >= a
  <2>1. b + W - a \in W .. 2 * W - 1
    BY <1>1
  <2>2. (b + W - a) % W = b - a
    BY <2>1, NextRemainder
  <2> QED
    BY <1>1, <2>2 DEF Gap
<1>2. CASE b < a
  <2>1. b + W - a \in 0 .. W - 1
    BY <1>2
  <2>2. (b + W - a) % W = b + W - a
    BY <2>1, SmallRemainder
  <2> QED
    BY <1>2, <2>1, <2>2 DEF Gap
<1> QED
  BY <1>1, <1>2

LEMMA GapAdd ==
    ASSUME NEW W \in Nat \ {0}, NEW a \in 0 .. W - 1, NEW b \in 0 .. W - 1, NEW c \in 0 .. W - 1
    PROVE  Gap(W, a, b) = c <=> b = Add(W, a, c)
<1>1. PICK g \in 0 .. W - 1 : g = Gap(W, a, b) /\ g = IF b >= a THEN b - a ELSE b + W - a
  BY ZenonT(100), GapIs
<1>2. PICK s \in 0 .. W - 1 : s = Add(W, a, c) /\ s = IF a + c < W THEN a + c ELSE a + c - W
  BY ZenonT(100), AddType
<1> QED
  BY <1>1, <1>2

\* Advancing a counter twice is advancing it once.
LEMMA AddTwice ==
    ASSUME NEW W \in Nat \ {0}, NEW a \in 0 .. W - 1, NEW b \in 0 .. W - 1, NEW c \in 0 .. W - 1,
           b + c < W
    PROVE  Add(W, Add(W, a, b), c) = Add(W, a, b + c)
<1>1. PICK d \in 0 .. W - 1 : d = Add(W, a, b)
  BY AddType
<1>2. d = IF a + b < W THEN a + b ELSE a + b - W
  BY ZenonT(100), <1>1, AddType
<1>3. Add(W, d, c) = IF d + c < W THEN d + c ELSE d + c - W
  BY AddType
<1>4. PICK y \in 0 .. W - 1 : y = b + c
  OBVIOUS
<1>5. Add(W, a, y) = IF a + y < W THEN a + y ELSE a + y - W
  BY AddType
<1>6. Add(W, d, c) = Add(W, a, y)
  BY <1>2, <1>3, <1>4, <1>5
<1> QED
  BY <1>1, <1>4, <1>6

LEMMA AddZero ==
    ASSUME NEW W \in Nat \ {0}, NEW a \in 0 .. W - 1
    PROVE  Add(W, a, 0) = a
  BY AddType

\* The cell that is j after that of n is at distance j from it.
LEMMA CellGap ==
    ASSUME NEW N \in Nat \ {0}, NEW n \in Nat, NEW j \in 0 .. N - 1, NEW m, m = n + j
    PROVE  Gap(N, Cell(N, n), Cell(N, m)) = j
<1>1. PICK q \in Nat, r \in 0 .. N - 1 : n = q * N + r
  BY ZenonT(100), Division
<1>2. n % N = r
  BY <1>1, Remainder
<1>3. CASE r + j < N
  <2>1. m = q * N + (r + j) /\ r + j \in 0 .. N - 1
    BY <1>1, <1>3
  <2>2. \A a, t : t \in 0 .. N - 1 /\ a = q * N + t => a % N = t
    BY Remainder
  <2>3. PICK t \in 0 .. N - 1 : t = r + j /\ m % N = t
    BY ZenonT(100), <2>1, <2>2
  <2>4. Gap(N, r, t) = j
    BY <2>3, GapIs
  <2> QED
    BY <1>2, <2>3, <2>4 DEF Cell
<1>4. CASE r + j >= N
  <2>1. m = (q + 1) * N + (r + j - N) /\ r + j - N \in 0 .. N - 1
    BY <1>1, <1>4
  <2>2. PICK p \in Int : p = q + 1
    OBVIOUS
  <2>3. \A a, t : t \in 0 .. N - 1 /\ a = p * N + t => a % N = t
    BY Remainder
  <2>4. PICK t \in 0 .. N - 1 : t = r + j - N /\ m % N = t
    BY ZenonT(100), <2>1, <2>2, <2>3
  <2>5. Gap(N, r, t) = j
    BY <2>4, GapIs
  <2> QED
    BY <1>2, <2>4, <2>5 DEF Cell
<1> QED
  BY <1>3, <1>4

\* Counters that are less than N apart have different cells.
LEMMA CellsDiffer ==
    ASSUME NEW N \in Nat \ {0}, NEW n \in Nat, NEW i \in 0 .. N - 1, NEW j \in 0 .. N - 1,
           NEW x, x = n + i, NEW y, y = n + j, Cell(N, x) = Cell(N, y)
    PROVE  i = j
<1>1. Gap(N, Cell(N, n), Cell(N, x)) = i
  BY CellGap
<1>2. Gap(N, Cell(N, n), Cell(N, y)) = j
  BY CellGap
<1> QED
  BY <1>1, <1>2

=============================================================================
