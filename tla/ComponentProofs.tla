-------------------------- MODULE ComponentProofs ---------------------------
(***************************************************************************)
(* Proofs about the copies in and out of the ring, for every ring size:    *)
(* what set() and get() do with their one or two memcpy calls is what they *)
(* mean cell by cell, whatever the index and whichever side of the end of  *)
(* the buffer a byte falls on.                                             *)
(*                                                                         *)
(* Proofs about Stream and StreamBuffered, for every set of lengths, every *)
(* buffer size, however often the FILE fails and whether it then keeps or  *)
(* drops its bytes: a write() or buffered flush() that returns with a byte *)
(* lost, repeated or moved has counted it, an unbuffered stream never      *)
(* repeats a byte, the buffer is never overrun before the first error, and *)
(* a file that ends without an error is complete.                          *)
(***************************************************************************)
EXTENDS MCComponents, ModularArithmetic, SequenceTheorems, TLAPS

RingCells == 0..(Size - 1)

(* Counting from an index, the first cells are those up to the end of the  *)
(* buffer and the rest those from its start, as the code splits a copy.    *)
LEMMA CellSplit ==
    ASSUME NEW index \in Nat, NEW k \in 1..Size
    PROVE  /\ normalize(index) \in RingCells
           /\ CellAt(index, k - 1) = IF normalize(index) + k <= Size
                                     THEN normalize(index) + k - 1
                                     ELSE normalize(index) + k - 1 - Size
<1> DEFINE j == k - 1
           r == index % Size
<1>1. Size \in Nat \ {0} /\ j \in Nat /\ j < Size
  BY SizeAssumption
<1>2. r \in 0..(Size - 1)
  BY <1>1, DivMod
<1> HIDE DEF j
<1>3. (r + j) % Size = (index + j) % Size
  BY <1>1, AddModulo
<1> HIDE DEF r
<1> DEFINE x == r + j
<1>4. x \in Nat /\ x < 2 * Size
  BY <1>1, <1>2
<1> HIDE DEF x
<1>5. /\ x < Size => x % Size = x
      /\ x >= Size => x % Size = x - Size
  BY <1>1, <1>4, WordReduced
<1>6. (index + j) % Size = IF r + j < Size THEN r + j ELSE r + j - Size
  BY <1>1, <1>2, <1>3, <1>5 DEF x
<1>7. CellAt(index, k - 1) = (index + j) % Size /\ normalize(index) = r
  BY DEF CellAt, normalize, j, r
<1>8. r + j < Size <=> r + k <= Size
  BY <1>1, <1>2 DEF j
<1> QED BY <1>1, <1>2, <1>6, <1>7, <1>8 DEF RingCells, j

(* A block that fits the ring meets every cell at most once. *)
LEMMA CellOnce ==
    ASSUME NEW index \in Nat, NEW j \in 1..Size, NEW k \in 1..Size,
           CellAt(index, j - 1) = CellAt(index, k - 1)
    PROVE  j = k
<1>1. Size \in Nat \ {0}
  BY SizeAssumption
<1>2. normalize(index) \in RingCells
  BY CellSplit
<1> DEFINE r == normalize(index)
<1>3. /\ CellAt(index, j - 1) = IF r + j <= Size THEN r + j - 1 ELSE r + j - 1 - Size
      /\ CellAt(index, k - 1) = IF r + k <= Size THEN r + k - 1 ELSE r + k - 1 - Size
  BY CellSplit
<1> HIDE DEF r
<1>4. r \in 0..(Size - 1)
  BY <1>2 DEF r, RingCells
<1> QED BY <1>1, <1>3, <1>4

(* The cell a set() of src at index leaves in place c *)
Copied(old, index, src, c) ==
    IF \E k \in 1..Len(src) : CellAt(index, k - 1) = c
    THEN src[CHOOSE k \in 1..Len(src) : CellAt(index, k - 1) = c]
    ELSE old[c]

(* set() puts the k-th byte into the k-th cell from the index on, going    *)
(* round the end of the buffer, and leaves every other cell alone.         *)
LEMMA SetCells ==
    ASSUME NEW V, NEW old \in [RingCells -> V], NEW index \in Nat,
           NEW src \in Seq(V), Len(src) \in 1..Size
    PROVE  set(old, index, src) = [c \in RingCells |-> Copied(old, index, src, c)]
<1> DEFINE n == Len(src)
           r == normalize(index)
           m == Size - r
           one == memcpyTo(old, r, src)
           top == SubSeq(src, 1, m)
           bottom == SubSeq(src, m + 1, n)
           two == memcpyTo(memcpyTo(old, r, top), 0, bottom)
<1>1. Size \in Nat \ {0} /\ n \in 1..Size /\ r \in RingCells
  BY SizeAssumption, CellSplit DEF RingCells
<1>2. DOMAIN old = RingCells
  OBVIOUS
<1>3. \A k \in 1..n : CellAt(index, k - 1) = IF r + k <= Size THEN r + k - 1 ELSE r + k - 1 - Size
  BY <1>1, CellSplit
<1>4. \A k \in 1..n, c \in RingCells : CellAt(index, k - 1) = c => Copied(old, index, src, c) = src[k]
  <2> SUFFICES ASSUME NEW k \in 1..n, NEW c \in RingCells, CellAt(index, k - 1) = c
               PROVE  Copied(old, index, src, c) = src[k]
    OBVIOUS
  <2> DEFINE P(h) == CellAt(index, h - 1) = c
             j == CHOOSE h \in 1..n : P(h)
  <2>1. j \in 1..n /\ P(j)
    OBVIOUS
  <2>2. Copied(old, index, src, c) = src[j]
    BY DEF Copied
  <2> HIDE DEF j
  <2>3. j \in 1..Size /\ k \in 1..Size
    BY <1>1, <2>1
  <2>4. j = k
    BY <2>1, <2>3, CellOnce
  <2> QED BY <2>2, <2>4
<1>5. \A c \in RingCells : (\A k \in 1..n : CellAt(index, k - 1) # c) => Copied(old, index, src, c) = old[c]
  BY DEF Copied
<1> HIDE DEF r, n
<1>6. CASE r + n <= Size
  <2>1. set(old, index, src) = one
    BY <1>6 DEF set, n, r
  <2>2. one = [c \in RingCells |-> IF c \in r..(r + n - 1) THEN src[c - r + 1] ELSE old[c]]
    BY <1>2 DEF memcpyTo, n
  <2>3. ASSUME NEW c \in RingCells
        PROVE  (IF c \in r..(r + n - 1) THEN src[c - r + 1] ELSE old[c]) = Copied(old, index, src, c)
    <3>1. CASE c \in r..(r + n - 1)
      <4> DEFINE k == c - r + 1
      <4>1. k \in 1..n /\ r + k <= Size /\ r + k - 1 = c
        BY <1>1, <1>6, <3>1 DEF RingCells
      <4>2. CellAt(index, k - 1) = c
        <5> HIDE DEF k
        <5> QED BY <1>3, <4>1
      <4> QED BY <3>1, <4>1, <4>2, <1>4
    <3>2. CASE c \notin r..(r + n - 1)
      <4>1. \A k \in 1..n : CellAt(index, k - 1) # c
        BY <1>1, <1>3, <1>6, <3>2 DEF RingCells
      <4> QED BY <3>2, <4>1, <1>5
    <3> QED BY <3>1, <3>2
  <2> DEFINE F(c) == IF c \in r..(r + n - 1) THEN src[c - r + 1] ELSE old[c]
             G(c) == Copied(old, index, src, c)
  <2>4. [c \in RingCells |-> F(c)] = [c \in RingCells |-> G(c)]
    <3>1. \A c \in RingCells : F(c) = G(c)
      BY <2>3
    <3> HIDE DEF F, G
    <3> QED BY <3>1
  <2> HIDE DEF one
  <2> QED BY <2>1, <2>2, <2>4
<1>7. CASE r + n > Size
  <2>1. set(old, index, src) = two
    <3>1. ~(r + n <= Size)
      BY <1>1, <1>7 DEF RingCells
    <3> QED BY <3>1 DEF set, n, r
  <2>2. /\ m \in 1..n /\ n - m \in 1..n
        /\ Len(top) = m /\ \A k \in 1..m : top[k] = src[k]
        /\ Len(bottom) = n - m /\ \A k \in 1..(n - m) : bottom[k] = src[m + k]
    <3>1. m \in 1..n /\ n - m \in 1..n
      BY <1>1, <1>7 DEF RingCells
    <3>2. Len(src) = n
      BY DEF n
    <3> HIDE DEF m
    <3> QED BY <1>1, <3>1, <3>2
  <2>3. two = [c \in RingCells |-> IF c \in 0..(n - m - 1) THEN bottom[c + 1]
                                   ELSE IF c \in r..(r + m - 1) THEN top[c - r + 1] ELSE old[c]]
    <3> HIDE DEF top, bottom
    <3> DEFINE half == memcpyTo(old, r, top)
    <3>1. half = [c \in RingCells |-> IF c \in r..(r + m - 1) THEN top[c - r + 1] ELSE old[c]]
      BY <1>2, <2>2 DEF memcpyTo
    <3> HIDE DEF half
    <3>2. memcpyTo(half, 0, bottom) = [c \in RingCells |-> IF c \in 0..(0 + Len(bottom) - 1)
                                                            THEN bottom[c - 0 + 1] ELSE half[c]]
      BY <3>1 DEF memcpyTo
    <3>3. \A c \in RingCells : c - 0 + 1 = c + 1
      BY <1>1 DEF RingCells
    <3>4. 0 + Len(bottom) - 1 = n - m - 1
      BY <2>2
    <3> QED BY <3>1, <3>2, <3>3, <3>4 DEF half
  <2>4. ASSUME NEW c \in RingCells
        PROVE  (IF c \in 0..(n - m - 1) THEN bottom[c + 1]
                ELSE IF c \in r..(r + m - 1) THEN top[c - r + 1] ELSE old[c])
                   = Copied(old, index, src, c)
    <3> HIDE DEF top, bottom
    <3>1. CASE c \in 0..(n - m - 1)
      <4> DEFINE k == m + (c + 1)
      <4>1. k \in 1..n /\ CellAt(index, k - 1) = c /\ c + 1 \in 1..(n - m)
        BY <1>1, <1>3, <1>7, <3>1 DEF RingCells
      <4>2. bottom[c + 1] = src[k]
        BY <2>2, <4>1
      <4> QED BY <3>1, <4>1, <4>2, <1>4
    <3>2. CASE c \in r..(r + m - 1)
      <4> DEFINE k == c - r + 1
      <4>1. k \in 1..n /\ k \in 1..m /\ r + k <= Size /\ r + k - 1 = c
        BY <1>1, <1>7, <3>2 DEF RingCells
      <4>4. CellAt(index, k - 1) = c
        <5> HIDE DEF k
        <5> QED BY <1>3, <4>1
      <4>2. top[k] = src[k]
        BY <2>2, <4>1
      <4>3. c \notin 0..(n - m - 1)
        BY <1>1, <1>7, <3>2 DEF RingCells
      <4> QED BY <3>2, <4>1, <4>2, <4>3, <4>4, <1>4
    <3>3. CASE c \notin 0..(n - m - 1) /\ c \notin r..(r + m - 1)
      <4>1. \A k \in 1..n : CellAt(index, k - 1) # c
        BY <1>1, <1>3, <1>7, <3>3 DEF RingCells
      <4> QED BY <3>3, <4>1, <1>5
    <3> QED BY <3>1, <3>2, <3>3
  <2> HIDE DEF top, bottom, m
  <2> DEFINE F(c) == IF c \in 0..(n - m - 1) THEN bottom[c + 1]
                     ELSE IF c \in r..(r + m - 1) THEN top[c - r + 1] ELSE old[c]
             G(c) == Copied(old, index, src, c)
  <2>5. [c \in RingCells |-> F(c)] = [c \in RingCells |-> G(c)]
    <3>1. \A c \in RingCells : F(c) = G(c)
      BY <2>4
    <3> HIDE DEF F, G
    <3> QED BY <3>1
  <2> HIDE DEF two
  <2> QED BY <2>1, <2>3, <2>5
<1> QED
  BY <1>1, <1>6, <1>7 DEF RingCells

(* A function on 1..n is a sequence, and a sequence is the function that   *)
(* lists its elements.                                                     *)
LEMMA ListIsSequence ==
    ASSUME NEW V, NEW n \in Nat, NEW f \in [1..n -> V]
    PROVE  f \in Seq(V) /\ Len(f) = n
  OBVIOUS

LEMMA SequenceIsList ==
    ASSUME NEW V, NEW s \in Seq(V)
    PROVE  s = [k \in 1..Len(s) |-> s[k]]
  OBVIOUS

(* get() returns the k-th cell from the index on as its k-th byte. *)
LEMMA GetCells ==
    ASSUME NEW V, NEW old \in [RingCells -> V], NEW index \in Nat, NEW n \in 1..Size
    PROVE  get(old, index, n) = [k \in 1..n |-> old[CellAt(index, k - 1)]]
<1> DEFINE r == normalize(index)
           m == Size - r
           top == memcpyFrom(old, r, m)
           bottom == memcpyFrom(old, 0, n - m)
<1>1. Size \in Nat \ {0} /\ r \in RingCells
  BY SizeAssumption, CellSplit DEF RingCells
<1>2. \A k \in 1..n : CellAt(index, k - 1) = IF r + k <= Size THEN r + k - 1 ELSE r + k - 1 - Size
  BY <1>1, CellSplit
<1>3. CASE r + n <= Size
  <2>1. get(old, index, n) = [k \in 1..n |-> old[r + k - 1]]
    BY <1>3 DEF get, memcpyFrom
  <2>2. \A k \in 1..n : CellAt(index, k - 1) = r + k - 1
    <3> HIDE DEF r
    <3> QED BY <1>1, <1>2, <1>3 DEF RingCells
  <2> QED BY <2>1, <2>2
<1>4. CASE r + n > Size
  <2>1. get(old, index, n) = top \o bottom
    <3>1. ~(r + n <= Size)
      BY <1>1, <1>4 DEF RingCells
    <3> QED BY <3>1 DEF get
  <2>2. m \in 1..n /\ n - m \in 1..n
    BY <1>1, <1>4 DEF RingCells
  <2> HIDE DEF r
  <2>3. /\ top \in [1..m -> V] /\ \A k \in 1..m : top[k] = old[r + k - 1]
        /\ bottom \in [1..(n - m) -> V] /\ \A k \in 1..(n - m) : bottom[k] = old[k - 1]
    <3>1. \A k \in 1..m : r + k - 1 \in RingCells
      BY <1>1 DEF RingCells
    <3>2. \A k \in 1..(n - m) : 0 + k - 1 \in RingCells /\ 0 + k - 1 = k - 1
      BY <1>1, <1>4 DEF RingCells
    <3> HIDE DEF m
    <3>3. top = [k \in 1..m |-> old[r + k - 1]] /\ bottom = [k \in 1..(n - m) |-> old[0 + k - 1]]
      BY DEF memcpyFrom
    <3> QED BY <3>1, <3>2, <3>3
  <2>4. top \in Seq(V) /\ Len(top) = m /\ bottom \in Seq(V) /\ Len(bottom) = n - m
    <3> HIDE DEF top, bottom, m
    <3>1. m \in Nat /\ n - m \in Nat
      BY <2>2
    <3> QED BY <2>3, <3>1, ListIsSequence
  <2>5. ASSUME NEW k \in 1..n
        PROVE  (top \o bottom)[k] = old[CellAt(index, k - 1)]
    <3> HIDE DEF top, bottom
    <3>1. CASE k <= m
      <4>1. (top \o bottom)[k] = top[k] /\ k \in 1..m
        BY <2>2, <2>4, <3>1
      <4>2. CellAt(index, k - 1) = r + k - 1
        BY <1>1, <1>2, <3>1 DEF RingCells
      <4> QED BY <2>3, <4>1, <4>2
    <3>2. CASE k > m
      <4>1. (top \o bottom)[k] = bottom[k - m] /\ k - m \in 1..(n - m)
        BY <2>2, <2>4, <3>2
      <4>2. CellAt(index, k - 1) = (k - m) - 1
        BY <1>1, <1>2, <3>2 DEF RingCells
      <4> QED BY <2>3, <4>1, <4>2
    <3>3. k <= m \/ k > m
      <4> HIDE DEF m
      <4> QED BY <2>2
    <3> QED BY <3>1, <3>2, <3>3
  <2> DEFINE whole == top \o bottom
  <2>6. whole \in Seq(V) /\ Len(whole) = n
    <3> HIDE DEF top, bottom, m
    <3> QED BY <2>2, <2>4
  <2>7. \A k \in 1..n : whole[k] = old[CellAt(index, k - 1)]
    BY <2>5
  <2> HIDE DEF whole
  <2>8. whole = [k \in 1..n |-> whole[k]]
    BY <2>6, SequenceIsList
  <2>9. whole = [k \in 1..n |-> old[CellAt(index, k - 1)]]
    BY <2>7, <2>8
  <2> QED BY <2>1, <2>9 DEF whole
<1> QED
  BY <1>1, <1>3, <1>4 DEF RingCells

-----------------------------------------------------------------------------
RingBytes == Values \cup {0}

CopyInv == ring \in [RingCells -> RingBytes] /\ SetGoesRound

LEMMA CopyInitial == CopyInit => CopyInv
  BY DEF CopyInit, CopyInv, SetGoesRound, RingCells, RingBytes

LEMMA CopyStep ==
    ASSUME CopyInv, CopyNext
    PROVE  CopyInv'
<1>1. PICK index \in Indices, src \in Blocks : Set(index, src)
  BY DEF CopyNext
<1>2. Size \in Nat \ {0} /\ index \in Nat
  BY SizeAssumption DEF Indices
<1>3. PICK n \in 1..Size : src \in [1..n -> Values]
  BY DEF Blocks
<1>4. src \in Seq(RingBytes) /\ Len(src) \in 1..Size
  <2>1. src \in [1..n -> RingBytes]
    BY <1>3 DEF RingBytes
  <2> QED BY <1>2, <2>1
<1>5. ring' = [c \in RingCells |-> Copied(ring, index, src, c)]
  BY <1>1, <1>2, <1>4, SetCells DEF CopyInv, Set
<1>6. cells' = [c \in RingCells |-> Copied(cells, index, src, c)]
  BY <1>1 DEF CopyInv, SetGoesRound, Set, Copied
<1>7. \A c \in RingCells : Copied(ring, index, src, c) \in RingBytes
  BY <1>4 DEF Copied, CopyInv
<1> QED
  BY <1>5, <1>6, <1>7 DEF CopyInv, SetGoesRound

(* set() and get(), called in any order with any index and block, mean     *)
(* what they mean cell by cell, for every size of the ring and every byte. *)
THEOREM CopiesExact == AllSpec => []CopiesGoRound
<1>1. AllInit => CopyInv
  BY CopyInitial DEF AllInit
<1>2. CopyInv /\ [AllNext]_allVars => CopyInv'
  <2> SUFFICES ASSUME CopyInv, [AllNext]_allVars PROVE CopyInv'
    OBVIOUS
  <2>1. CopyNext \/ UNCHANGED copyVars
    BY DEF AllNext, allVars
  <2>2. CASE UNCHANGED copyVars
    BY <2>2 DEF copyVars, CopyInv, SetGoesRound
  <2> QED BY <2>1, <2>2, CopyStep
<1>3. CopyInv => CopiesGoRound
  <2> SUFFICES ASSUME CopyInv,
                      NEW index \in Indices, NEW n \in 1..Size
               PROVE  get(ring, index, n) = [k \in 1..n |-> ring[CellAt(index, k - 1)]]
    BY DEF CopiesGoRound, CopyInv, GetGoesRound
  <2>1. index \in Nat
    BY SizeAssumption DEF Indices
  <2> QED BY <2>1, GetCells DEF CopyInv
<1> QED
  BY <1>1, <1>2, <1>3, PTL DEF AllSpec

-----------------------------------------------------------------------------
(* Streams *)

(* Fields and the bytes they hold *)
StreamTypes ==
    /\ mode \in {"plain", "buffered"}
    /\ fileHandle \in {"null", "open", "closed"}
    /\ ferror \in BOOLEAN
    /\ accepted \in Seq(Nat) /\ disk \in Seq(Nat) /\ buffer \in Seq(Nat)
    /\ bufferSize \in Nat
    /\ ioWriteError \in Nat
    /\ given \in Nat
    /\ life \in {"live", "closed", "destroyed", "dead"}

(* Which handle goes with which stage of the stream's life, and what the   *)
(* FILE and the buffer can hold then                                       *)
Stages ==
    /\ mode = "plain" => buffer = <<>>
    /\ ioWriteError > 0 => ferror
    /\ life = "live" => fileHandle # "closed"
    /\ (life = "live" /\ fileHandle = "null") => accepted = <<>>
    /\ life = "closed" => fileHandle = "closed"

(* Bytes in the order they were given to write(), the last no later than n *)
Ascending(s, n) ==
    /\ \A k \in 1..Len(s) : s[k] <= n
    /\ \A j, k \in 1..Len(s) : j < k => s[j] < s[k]

NoRepeats == mode = "plain" => Ascending(disk \o accepted, given)

(* Whatever damages a live stream leaves the FILE's error flag set. *)
DamageMarked == life = "live" => ferror \/ Intact

-----------------------------------------------------------------------------
(* A sequence of bytes cut in two: fwrite and fflush take the first part. *)
LEMMA CutInTwo ==
    ASSUME NEW s \in Seq(Nat), NEW m \in 0..Len(s)
    PROVE  /\ SubSeq(s, 1, m) \in Seq(Nat) /\ Len(SubSeq(s, 1, m)) = m
           /\ \A k \in 1..m : SubSeq(s, 1, m)[k] = s[k]
           /\ SubSeq(s, m + 1, Len(s)) \in Seq(Nat)
           /\ SubSeq(s, 1, m) \o SubSeq(s, m + 1, Len(s)) = s
           /\ m = Len(s) => SubSeq(s, 1, m) = s /\ SubSeq(s, m + 1, Len(s)) = <<>>
<1>0. Len(s) \in Nat /\ \A k \in 1..Len(s) : s[k] \in Nat
  BY LenProperties, ElementOfSeq
<1>1. \A k \in 1..m : s[k] \in Nat
  BY <1>0
<1>2. \A k \in (m + 1)..Len(s) : s[k] \in Nat
  BY <1>0
<1>3. /\ SubSeq(s, 1, m) \in Seq(Nat) /\ Len(SubSeq(s, 1, m)) = m
      /\ \A k \in 1..m : SubSeq(s, 1, m)[k] = s[k]
  BY <1>0, <1>1, SubSeqProperties
<1>4. SubSeq(s, m + 1, Len(s)) \in Seq(Nat)
  BY <1>0, <1>2, SubSeqProperties
<1>5. SubSeq(s, 1, Len(s)) = s
  BY SubSeqFull
<1>6. SubSeq(s, 1, m) \o SubSeq(s, m + 1, Len(s)) = s
  <2>1. 1 \in 1..(Len(s) + 1) /\ m \in (1 - 1)..Len(s) /\ Len(s) \in m..Len(s)
    BY <1>0
  <2>2. SubSeq(s, 1, m) \o SubSeq(s, m + 1, Len(s)) = SubSeq(s, 1, Len(s))
    BY <2>1, ConcatAdjacentSubSeq, Zenon
  <2> QED BY <1>5, <2>2
<1>7. m = Len(s) => SubSeq(s, m + 1, Len(s)) = <<>>
  BY <1>0, SubSeqEmpty
<1> QED BY <1>3, <1>4, <1>5, <1>6, <1>7

(* Concatenation of bytes is associative. *)
LEMMA Associative ==
    ASSUME NEW s \in Seq(Nat), NEW t \in Seq(Nat), NEW u \in Seq(Nat)
    PROVE  (s \o t) \o u = s \o (t \o u)
  BY ConcatAssociative, SMTT(30)

(* The bytes of one write, numbered from the last one given *)
LEMMA BytesOf ==
    ASSUME given \in Nat, NEW len \in Nat
    PROVE  /\ Bytes(len) \in Seq(Nat) /\ Len(Bytes(len)) = len
           /\ \A k \in 1..len : Bytes(len)[k] = given + k
           /\ All \in Seq(Nat) /\ Len(All) = given
  BY DEF Bytes, All

(* All bytes given, after a write of len more *)
LEMMA AllGrows ==
    ASSUME given \in Nat, NEW len \in Nat, given' = given + len
    PROVE  All' = All \o Bytes(len)
<1> DEFINE a == All
           b == Bytes(len)
           c == All'
<1>1. b \in Seq(Nat) /\ Len(b) = len /\ a \in Seq(Nat) /\ Len(a) = given
  BY BytesOf
<1>2. c \in Seq(Nat) /\ Len(c) = given + len
  BY DEF All
<1>3. \A i \in 1..(given + len) : c[i] = IF i <= given THEN a[i] ELSE b[i - given]
  BY DEF All, Bytes
<1> HIDE DEF a, b, c
<1>4. /\ a \o b \in Seq(Nat) /\ Len(a \o b) = given + len
      /\ \A i \in 1..(given + len) : (a \o b)[i] = IF i <= given THEN a[i] ELSE b[i - given]
  BY <1>1, ConcatProperties
<1>5. c = a \o b
  <2>1. \A i \in 1..Len(c) : c[i] = (a \o b)[i]
    BY <1>2, <1>3, <1>4
  <2> QED BY <1>2, <1>4, <2>1, SeqEqual
<1> QED BY <1>5 DEF a, b, c

(* Appending a prefix of a write to bytes that ascend: they still do. *)
LEMMA AscendingGrows ==
    ASSUME given \in Nat, NEW len \in Nat,
           NEW s \in Seq(Nat), Ascending(s, given), NEW w \in 0..len
    PROVE  Ascending(s \o SubSeq(Bytes(len), 1, w), given + len)
<1> DEFINE a == Bytes(len)
           b == SubSeq(a, 1, w)
           c == s \o b
<1>1. a \in Seq(Nat) /\ Len(a) = len /\ \A k \in 1..len : a[k] = given + k
  BY BytesOf
<1> HIDE DEF a
<1>2. b \in Seq(Nat) /\ Len(b) = w /\ \A k \in 1..w : b[k] = given + k
  <2>1. w \in 0..Len(a)
    BY <1>1
  <2>2. b \in Seq(Nat) /\ Len(b) = w /\ \A k \in 1..w : b[k] = a[k]
    BY <1>1, <2>1, CutInTwo
  <2>3. \A k \in 1..w : k \in 1..len
    OBVIOUS
  <2> QED BY <1>1, <2>2, <2>3
<1> HIDE DEF b
<1>3. /\ c \in Seq(Nat) /\ Len(c) = Len(s) + w /\ Len(s) \in Nat /\ w \in Nat
      /\ \A i \in 1..(Len(s) + w) : c[i] = IF i <= Len(s) THEN s[i] ELSE b[i - Len(s)]
  BY <1>2, ConcatProperties, LenProperties
<1> HIDE DEF c
<1>4. \A k \in 1..Len(s) : s[k] \in Nat /\ s[k] <= given /\ c[k] = s[k]
  BY <1>3, ElementOfSeq DEF Ascending
<1>5. \A k \in 1..Len(c) : k > Len(s) => c[k] = given + (k - Len(s)) /\ k - Len(s) \in 1..w
  <2> TAKE k \in 1..Len(c)
  <2> HAVE k > Len(s)
  <2>1. k - Len(s) \in 1..w
    BY <1>3
  <2> QED BY <1>2, <1>3, <2>1
<1>6. \A k \in 1..Len(c) : c[k] <= given + len
  <2> TAKE k \in 1..Len(c)
  <2>1. CASE k <= Len(s)
    <3>1. k \in 1..Len(s)
      BY <1>3, <2>1
    <3> QED BY <1>4, <3>1
  <2>2. CASE k > Len(s)
    <3>1. c[k] = given + (k - Len(s)) /\ k - Len(s) \in 1..w
      BY <1>5, <2>2
    <3> QED BY <3>1
  <2> QED BY <1>3, <2>1, <2>2
<1>7. ASSUME NEW j \in 1..Len(c), NEW k \in 1..Len(c), j < k PROVE c[j] < c[k]
  <2>1. CASE k <= Len(s)
    <3>1. j \in 1..Len(s) /\ k \in 1..Len(s)
      BY <1>3, <1>7, <2>1
    <3> QED BY <1>4, <1>7, <3>1 DEF Ascending
  <2>2. CASE j <= Len(s) /\ k > Len(s)
    <3>1. c[k] = given + (k - Len(s)) /\ k - Len(s) \in 1..w
      BY <1>5, <2>2
    <3>2. j \in 1..Len(s)
      BY <1>3, <2>2
    <3>3. c[j] \in Nat /\ c[j] <= given
      BY <1>4, <3>2
    <3> QED BY <3>1, <3>3
  <2>3. CASE j > Len(s)
    <3>1. k > Len(s)
      BY <1>3, <1>7, <2>3
    <3>2. c[k] = given + (k - Len(s)) /\ c[j] = given + (j - Len(s))
      BY <1>5, <2>3, <3>1
    <3> QED BY <1>3, <1>7, <3>2
  <2> QED BY <1>3, <2>1, <2>2, <2>3
<1>8. Ascending(c, given + len)
  BY <1>6, <1>7 DEF Ascending
<1> QED BY <1>8 DEF a, b, c

(* A prefix of bytes that ascend ascends. *)
LEMMA AscendingCut ==
    ASSUME NEW n \in Nat, NEW s \in Seq(Nat), NEW t \in Seq(Nat), Ascending(s \o t, n)
    PROVE  Ascending(s, n)
<1> DEFINE c == s \o t
<1>1. Len(s) \in Nat /\ Len(t) \in Nat
  BY LenProperties
<1>2. Len(c) = Len(s) + Len(t) /\ \A i \in 1..(Len(s) + Len(t)) : i <= Len(s) => c[i] = s[i]
  BY ConcatProperties
<1>3. Ascending(c, n)
  OBVIOUS
<1> HIDE DEF c
<1>4. \A i \in 1..Len(s) : i \in 1..Len(c) /\ c[i] = s[i]
  BY <1>1, <1>2
<1> QED BY <1>3, <1>4 DEF Ascending

-----------------------------------------------------------------------------
(* fwrite and the test of its result: without an error everything has been *)
(* accepted, and an error is counted.                                      *)
LEMMA WrittenFacts ==
    ASSUME StreamTypes, NEW bytes \in Seq(Nat), NEW written, Written(bytes, written)
    PROVE  /\ written \in 0..Len(bytes)
           /\ accepted' = accepted \o SubSeq(bytes, 1, written)
           /\ accepted' \in Seq(Nat) /\ ferror' \in BOOLEAN /\ ioWriteError' \in Nat
           /\ ioWriteError' >= ioWriteError
           /\ ferror => ferror'
           /\ ferror' => ioWriteError' > ioWriteError /\ ioWriteError' > 0
           /\ ~ferror' => accepted' = accepted \o bytes /\ ioWriteError' = ioWriteError
<1>1. /\ written \in 0..Len(bytes)
      /\ accepted' = accepted \o SubSeq(bytes, 1, written)
      /\ ferror' = (ferror \/ written < Len(bytes))
      /\ ioWriteError' = IF ferror' THEN ioWriteError + 1 ELSE ioWriteError
  BY DEF Written, fwrite
<1>2. Len(bytes) \in Nat
  BY LenProperties
<1>3. SubSeq(bytes, 1, written) \in Seq(Nat) /\ (written = Len(bytes) => SubSeq(bytes, 1, written) = bytes)
  BY <1>1, CutInTwo
<1>4. accepted' \in Seq(Nat)
  BY <1>1, <1>3, ConcatProperties DEF StreamTypes
<1>5. written < Len(bytes) \/ written = Len(bytes)
  BY <1>1, <1>2
<1>6. ferror' \in BOOLEAN /\ (ferror => ferror') /\ (~ferror' => written = Len(bytes))
  BY <1>1, <1>5, Zenon
<1>7. /\ ferror' => ioWriteError' = ioWriteError + 1
      /\ ~ferror' => ioWriteError' = ioWriteError
  BY <1>1, Zenon
<1>8. ioWriteError \in Nat
  BY DEF StreamTypes
<1>9. /\ ioWriteError' \in Nat /\ ioWriteError' >= ioWriteError
      /\ ferror' => ioWriteError' > ioWriteError /\ ioWriteError' > 0
  <2>1. CASE ferror'
    BY <1>7, <1>8, <2>1
  <2>2. CASE ~ferror'
    BY <1>7, <1>8, <2>2
  <2> QED BY <2>1, <2>2
<1>10. ~ferror' => accepted' = accepted \o bytes
  BY <1>1, <1>3, <1>6, Zenon
<1> QED BY <1>1, <1>4, <1>6, <1>7, <1>9, <1>10, Zenon

(* fflush repeats no byte and keeps their order, also when it drops some;  *)
(* without an error it moves them all.                                     *)
LEMMA FlushFacts ==
    ASSUME StreamTypes, NEW moved, fflush(moved)
    PROVE  /\ accepted' \in Seq(Nat) /\ disk' \in Seq(Nat) /\ ferror' \in BOOLEAN
           /\ Ascending(disk \o accepted, given) => Ascending(disk' \o accepted', given)
           /\ ferror => ferror'
           /\ ~ferror' => disk' = disk \o accepted /\ accepted' = <<>>
<1> DEFINE a == SubSeq(accepted, 1, moved)
           b == SubSeq(accepted, moved + 1, Len(accepted))
<1>1. moved \in 0..Len(accepted) /\ Len(accepted) \in Nat
  BY LenProperties DEF fflush, StreamTypes
<1>2. disk' = disk \o a /\ accepted' \in {b, <<>>} /\ ferror' = (ferror \/ moved < Len(accepted))
  BY DEF fflush
<1>3. /\ a \in Seq(Nat) /\ b \in Seq(Nat) /\ a \o b = accepted
      /\ moved = Len(accepted) => a = accepted /\ b = <<>>
  BY <1>1, CutInTwo DEF StreamTypes
<1> HIDE DEF a, b
<1>4. disk \in Seq(Nat) /\ given \in Nat /\ <<>> \in Seq(Nat)
  BY EmptySeq DEF StreamTypes
<1>5. disk \o a \in Seq(Nat)
  BY <1>3, <1>4, ConcatProperties
<1>6. (disk \o a) \o b = disk \o accepted
  <2>1. (disk \o a) \o b = disk \o (a \o b)
    BY <1>3, <1>4, Associative
  <2> QED BY <1>3, <2>1
<1>7. moved < Len(accepted) \/ moved = Len(accepted)
  BY <1>1
<1>8. ferror' \in BOOLEAN /\ (ferror => ferror') /\ (~ferror' => moved = Len(accepted))
  BY <1>2, <1>7, Zenon
<1>9. ASSUME Ascending(disk \o accepted, given)
      PROVE  Ascending((disk \o a) \o accepted', given)
  <2>1. CASE accepted' = b
    BY <1>6, <1>9, <2>1
  <2>2. CASE accepted' = <<>>
    <3> DEFINE d == disk \o a
    <3>1. d \in Seq(Nat) /\ Ascending(d \o b, given)
      BY <1>5, <1>6, <1>9
    <3> HIDE DEF d
    <3>2. Ascending(d, given) /\ d \o <<>> = d
      BY <1>3, <1>4, <3>1, AscendingCut, ConcatEmptySeq
    <3> QED BY <2>2, <3>2 DEF d
  <2> QED BY <1>2, <2>1, <2>2
<1>10. accepted' \in Seq(Nat)
  BY <1>2, <1>3, <1>4
<1>11. ~ferror' => disk' = disk \o accepted /\ accepted' = <<>>
  <2>1. ~ferror' => a = accepted /\ b = <<>>
    BY <1>3, <1>8, Zenon
  <2> QED BY <1>2, <2>1, Zenon
<1> QED BY <1>2, <1>5, <1>8, <1>9, <1>10, <1>11, Zenon

(* Emptying the buffer of StreamBuffered: without an error the bytes move  *)
(* to the FILE, and with a FILE none stay behind; an error is counted.     *)
LEMMA EmptyBufferFacts ==
    ASSUME StreamTypes, NEW rest \in {buffer, <<>>}, EmptyBuffer(rest)
    PROVE  /\ rest \in Seq(Nat)
           /\ accepted' \in Seq(Nat) /\ ferror' \in BOOLEAN /\ ioWriteError' \in Nat
           /\ ioWriteError' >= ioWriteError
           /\ ferror => ferror'
           /\ ioWriteError' > ioWriteError => ferror'
           /\ ~ferror' => accepted' \o rest = accepted \o buffer
           /\ (ioWriteError' = 0 /\ fileHandle = "open") => rest = <<>>
           /\ (ferror' /\ fileHandle = "open") => ioWriteError' > ioWriteError
           /\ fileHandle = "null" => accepted' = accepted
<1>0. buffer \in Seq(Nat) /\ <<>> \in Seq(Nat) /\ accepted \in Seq(Nat)
  BY EmptySeq DEF StreamTypes
<1>1. CASE fileHandle = "null" /\ rest = buffer /\ UNCHANGED <<accepted, ferror, ioWriteError>>
  BY <1>0, <1>1 DEF StreamTypes
<1>2. ASSUME fileHandle = "open", NEW written \in 0..bufferIdx, Written(buffer, written),
             rest = IF ferror' THEN buffer ELSE <<>>
      PROVE  /\ rest \in Seq(Nat)
             /\ accepted' \in Seq(Nat) /\ ferror' \in BOOLEAN /\ ioWriteError' \in Nat
             /\ ioWriteError' >= ioWriteError
             /\ ferror => ferror'
             /\ ioWriteError' > ioWriteError => ferror'
             /\ ~ferror' => accepted' \o rest = accepted \o buffer
             /\ ioWriteError' = 0 => rest = <<>>
             /\ ferror' => ioWriteError' > ioWriteError
  <2>1. /\ accepted' \in Seq(Nat) /\ ferror' \in BOOLEAN /\ ioWriteError' \in Nat
        /\ ioWriteError' >= ioWriteError
        /\ ferror => ferror'
        /\ ferror' => ioWriteError' > ioWriteError /\ ioWriteError' > 0
        /\ ~ferror' => accepted' = accepted \o buffer /\ ioWriteError' = ioWriteError
    BY <1>0, <1>2, WrittenFacts
  <2>2. accepted' \o <<>> = accepted'
    BY <2>1, ConcatEmptySeq
  <2>3. /\ ioWriteError' = 0 => rest = <<>>
        /\ ~ferror' => rest = <<>> /\ accepted' = accepted \o buffer
    BY <1>2, <2>1
  <2>4. ioWriteError \in Nat
    BY DEF StreamTypes
  <2>5. ioWriteError' > ioWriteError => ferror'
    BY <2>1, <2>4
  <2> QED BY <1>0, <1>2, <2>1, <2>2, <2>3, <2>5
<1> QED BY <1>1, <1>2 DEF EmptyBuffer

-----------------------------------------------------------------------------
(* The inductive invariant: the properties need each other, which handle   *)
(* is open when, and that damage and counted errors leave the flag set.    *)
StreamInv ==
    /\ StreamTypes
    /\ Stages
    /\ DamageMarked
    /\ NoRepeats
    /\ BufferInBounds
    /\ CompleteAtEnd

(* Stream::create() establishes it, whatever FILE and buffer size it gets. *)
LEMMA InitStream == StreamInit => StreamInv
<1> SUFFICES ASSUME StreamInit PROVE StreamInv
  OBVIOUS
<1>1. /\ accepted = <<>> /\ disk = <<>> /\ buffer = <<>> /\ given = 0 /\ ioWriteError = 0
      /\ ferror = FALSE /\ life = "live"
      /\ mode \in {"plain", "buffered"} /\ fileHandle \in {"null", "open"} /\ bufferSize \in Nat
  BY StreamAssumption DEF StreamInit
<1>2. <<>> \in Seq(Nat) /\ Len(<<>>) = 0
  BY EmptySeq
<1>3. StreamTypes
  BY <1>1, <1>2 DEF StreamTypes
<1>4. Stages
  BY <1>1 DEF Stages
<1>5. disk \o accepted = <<>> /\ (disk \o accepted) \o buffer = <<>>
  <2>1. <<>> \o <<>> = <<>>
    BY <1>2, ConcatEmptySeq
  <2> QED BY <1>1, <2>1
<1>6. All = <<>>
  <2>1. All \in Seq(Nat) /\ Len(All) = 0
    BY <1>1, BytesOf
  <2> QED BY <2>1, EmptySeq
<1>7. DamageMarked
  BY <1>5, <1>6 DEF DamageMarked, Intact
<1>8. NoRepeats
  BY <1>2, <1>5 DEF NoRepeats, Ascending
<1>9. BufferInBounds
  BY <1>1, <1>2 DEF BufferInBounds, bufferIdx
<1>10. CompleteAtEnd
  BY <1>1 DEF CompleteAtEnd
<1> QED BY <1>3, <1>4, <1>7, <1>8, <1>9, <1>10 DEF StreamInv

(* An exception or a crash ends the stream; nothing is promised of it but   *)
(* that what reached the FILE is not repeated.                              *)
LEMMA DieKeeps ==
    ASSUME StreamInv, Die
    PROVE  StreamInv'
<1> USE DEF Die, StreamInv
<1>1. StreamTypes' BY DEF StreamTypes
<1>2. Stages' BY DEF Stages
<1>3. DamageMarked' BY DEF DamageMarked
<1>4. NoRepeats' BY DEF NoRepeats, Ascending
<1>5. BufferInBounds' BY DEF BufferInBounds, bufferIdx
<1>6. CompleteAtEnd' BY DEF CompleteAtEnd
<1> QED BY <1>1, <1>2, <1>3, <1>4, <1>5, <1>6

(* Stream::write() *)
LEMMA PlainWriteKeeps ==
    ASSUME StreamInv, NEW len \in WriteLens, PlainWrite(len)
    PROVE  StreamInv'
<1>1. CASE Die
  BY <1>1, DieKeeps
<1>2. CASE fileHandle = "open" /\ ~Die
  <2>1. PICK written \in 0..len : Written(Bytes(len), written)
    BY <1>2 DEF PlainWrite
  <2>2. /\ mode = "plain" /\ life = "live" /\ fileHandle = "open" /\ given' = given + len
        /\ UNCHANGED <<mode, fileHandle, disk, bufferSize, buffer, life>>
    BY <1>2 DEF PlainWrite
  <2>3. /\ given \in Nat /\ len \in Nat /\ StreamTypes
        /\ disk \in Seq(Nat) /\ accepted \in Seq(Nat) /\ <<>> \in Seq(Nat)
    BY StreamAssumption, EmptySeq DEF StreamInv, StreamTypes
  <2> DEFINE b == Bytes(len)
             w == SubSeq(b, 1, written)
  <2>4. b \in Seq(Nat) /\ Len(b) = len
    BY <2>3, BytesOf
  <2>5. w \in Seq(Nat)
    BY <2>1, <2>4, CutInTwo
  <2>6. /\ accepted' = accepted \o w
        /\ accepted' \in Seq(Nat) /\ ferror' \in BOOLEAN /\ ioWriteError' \in Nat
        /\ ioWriteError' >= ioWriteError
        /\ ferror => ferror'
        /\ ferror' => ioWriteError' > 0
        /\ ~ferror' => accepted' = accepted \o b /\ ioWriteError' = ioWriteError
    BY <2>1, <2>3, <2>4, WrittenFacts
  <2>7. StreamTypes'
    BY <2>2, <2>3, <2>6 DEF StreamTypes
  <2>8. Stages'
    <3>1. ioWriteError' > 0 => ferror'
      BY <2>6 DEF StreamInv, Stages
    <3> QED BY <2>2, <3>1 DEF StreamInv, Stages
  <2>9. DamageMarked'
    <3> SUFFICES ASSUME ~ferror' PROVE (disk' \o accepted') \o buffer' = All'
      BY DEF DamageMarked, Intact
    <3>1. accepted' = accepted \o b /\ ~ferror
      BY <2>6, Zenon
    <3>2. buffer = <<>> /\ (disk \o accepted) \o buffer = All
      BY <2>2, <3>1 DEF StreamInv, Stages, DamageMarked, Intact
    <3>3. disk \o accepted \in Seq(Nat) /\ (disk \o accepted) \o <<>> = disk \o accepted
      BY <2>3, ConcatProperties, ConcatEmptySeq
    <3>4. disk \o (accepted \o b) = (disk \o accepted) \o b
      BY <2>3, <2>4, Associative
    <3>5. disk' \o accepted' = All \o b
      BY <2>2, <3>1, <3>2, <3>3, <3>4
    <3>6. All' = All \o b
      BY <2>2, <2>3, AllGrows
    <3>7. All' \in Seq(Nat) /\ All' \o <<>> = All'
      <4>1. All \in Seq(Nat)
        BY <2>3, BytesOf
      <4>2. All' \in Seq(Nat)
        BY <2>4, <3>6, <4>1, ConcatProperties
      <4> QED BY <4>2, ConcatEmptySeq
    <3> QED BY <2>2, <3>2, <3>5, <3>6, <3>7
  <2>10. NoRepeats'
    <3>1. disk \o accepted \in Seq(Nat)
      BY <2>3, ConcatProperties
    <3>2. Ascending(disk \o accepted, given)
      BY <2>2 DEF StreamInv, NoRepeats
    <3>3. Ascending((disk \o accepted) \o w, given + len)
      BY <2>1, <2>3, <3>1, <3>2, AscendingGrows
    <3>4. (disk \o accepted) \o w = disk \o (accepted \o w)
      BY <2>3, <2>5, Associative
    <3>5. Ascending(disk' \o accepted', given')
      BY <2>2, <2>6, <3>3, <3>4
    <3> QED BY <3>5 DEF NoRepeats, Ascending
  <2>11. BufferInBounds'
    BY <2>2 DEF BufferInBounds
  <2>12. CompleteAtEnd'
    BY <2>2 DEF CompleteAtEnd
  <2> QED BY <2>7, <2>8, <2>9, <2>10, <2>11, <2>12 DEF StreamInv
<1> QED BY <1>1, <1>2 DEF PlainWrite

(* Stream::flush() and the write-backs of the C library *)
LEMMA FlushKeeps ==
    ASSUME StreamInv, life = "live", fileHandle = "open", NEW moved, fflush(moved),
           UNCHANGED <<mode, fileHandle, bufferSize, buffer, ioWriteError, given, life>>
    PROVE  StreamInv'
<1>1. /\ accepted' \in Seq(Nat) /\ disk' \in Seq(Nat) /\ ferror' \in BOOLEAN
      /\ Ascending(disk \o accepted, given) => Ascending(disk' \o accepted', given)
      /\ ferror => ferror'
      /\ ~ferror' => disk' = disk \o accepted /\ accepted' = <<>>
  BY FlushFacts DEF StreamInv
<1>2. StreamTypes'
  BY <1>1 DEF StreamInv, StreamTypes
<1>3. Stages'
  BY <1>1 DEF StreamInv, Stages
<1>4. DamageMarked'
  <2> SUFFICES ASSUME ~ferror' PROVE (disk' \o accepted') \o buffer' = All'
    BY DEF DamageMarked, Intact
  <2>1. ~ferror /\ disk' = disk \o accepted /\ accepted' = <<>>
    BY <1>1, Zenon
  <2>2. disk' \o <<>> = disk'
    BY <1>1, ConcatEmptySeq
  <2>3. (disk \o accepted) \o buffer = All
    BY <2>1 DEF StreamInv, DamageMarked, Intact
  <2> QED BY <2>1, <2>2, <2>3 DEF All
<1>5. NoRepeats'
  <2>1. mode = "plain" => Ascending(disk' \o accepted', given')
    BY <1>1 DEF StreamInv, NoRepeats
  <2> QED BY <2>1 DEF NoRepeats, Ascending
<1>6. BufferInBounds'
  BY DEF StreamInv, BufferInBounds, bufferIdx
<1>7. CompleteAtEnd'
  BY DEF CompleteAtEnd
<1> QED BY <1>2, <1>3, <1>4, <1>5, <1>6, <1>7 DEF StreamInv

(* What both operations of StreamBuffered keep when the bytes b follow what *)
(* is left of the buffer                                                    *)
LEMMA BufferedKeeps ==
    ASSUME StreamInv, mode = "buffered", life = "live",
           NEW rest \in {buffer, <<>>}, NEW len \in Nat,
           \/ EmptyBuffer(rest)
           \/ rest = buffer /\ UNCHANGED <<accepted, ferror, ioWriteError>>,
           buffer' = rest \o Bytes(len), given' = given + len,
           len > 0 => len <= bufferSize,
           (len > 0 /\ UNCHANGED <<accepted, ferror, ioWriteError>> /\ rest = buffer
              /\ fileHandle = "open" /\ ioWriteError = 0 /\ bufferIdx <= bufferSize)
              => bufferIdx + len <= bufferSize,
           life' \in {"live", "dead"},
           UNCHANGED <<mode, fileHandle, disk, bufferSize>>
    PROVE  StreamInv'
<1>0. /\ StreamTypes /\ given \in Nat /\ disk \in Seq(Nat) /\ accepted \in Seq(Nat)
      /\ buffer \in Seq(Nat) /\ bufferSize \in Nat /\ ioWriteError \in Nat
  BY DEF StreamInv, StreamTypes
<1> DEFINE b == Bytes(len)
<1>1. b \in Seq(Nat) /\ Len(b) = len
  BY <1>0, BytesOf
<1>2. /\ rest \in Seq(Nat)
      /\ accepted' \in Seq(Nat) /\ ferror' \in BOOLEAN /\ ioWriteError' \in Nat
      /\ ioWriteError' >= ioWriteError
      /\ ferror => ferror'
      /\ ioWriteError' > ioWriteError => ferror'
      /\ ~ferror' => accepted' \o rest = accepted \o buffer
      /\ fileHandle = "null" => accepted' = accepted
  <2>1. CASE EmptyBuffer(rest)
    BY <1>0, <2>1, EmptyBufferFacts
  <2>2. CASE rest = buffer /\ UNCHANGED <<accepted, ferror, ioWriteError>>
    BY <1>0, <2>2 DEF StreamTypes
  <2> QED BY <2>1, <2>2
<1> HIDE DEF b
<1>3. buffer' \in Seq(Nat) /\ Len(buffer') = Len(rest) + len
  <2>1. buffer' = rest \o b
    BY DEF b
  <2> QED BY <1>1, <1>2, <2>1, ConcatProperties
<1>4. StreamTypes'
  BY <1>0, <1>2, <1>3 DEF StreamTypes
<1>5. Stages'
  <2>1. ioWriteError' > 0 => ferror'
    BY <1>0, <1>2 DEF StreamInv, Stages
  <2> QED BY <1>2, <2>1 DEF StreamInv, Stages
<1>6. DamageMarked'
  <2> SUFFICES ASSUME ~ferror' PROVE (disk' \o accepted') \o buffer' = All'
    BY DEF DamageMarked, Intact
  <2>1. ~ferror
    BY <1>2, Zenon
  <2>2. (disk \o accepted) \o buffer = All
    BY <2>1 DEF StreamInv, DamageMarked, Intact
  <2>3. (disk \o accepted') \o (rest \o b) = ((disk \o accepted) \o buffer) \o b
    <3> DEFINE sent == accepted'
    <3>1. sent \in Seq(Nat) /\ sent \o rest = accepted \o buffer
      BY <1>2, <2>1
    <3> HIDE DEF sent
    <3>2. (disk \o sent) \o (rest \o b) = ((disk \o accepted) \o buffer) \o b
      <4>1. disk \o sent \in Seq(Nat)
        BY <1>0, <3>1, ConcatProperties
      <4>2. (disk \o sent) \o (rest \o b) = ((disk \o sent) \o rest) \o b
        BY <1>1, <1>2, <4>1, Associative
      <4>3. (disk \o sent) \o rest = disk \o (sent \o rest)
        BY <1>0, <1>2, <3>1, Associative
      <4>4. disk \o (accepted \o buffer) = (disk \o accepted) \o buffer
        BY <1>0, Associative
      <4> QED BY <3>1, <4>2, <4>3, <4>4
    <3> QED BY <3>2 DEF sent
  <2>4. All' = All \o b
    BY <1>0, AllGrows DEF b
  <2> QED BY <2>2, <2>3, <2>4 DEF b
<1>7. NoRepeats'
  BY DEF NoRepeats
<1>8. BufferInBounds'
  <2> SUFFICES ASSUME bufferSize <= Usable, fileHandle = "open", ioWriteError' = 0
               PROVE  Len(buffer') <= bufferSize
    BY DEF BufferInBounds, bufferIdx
  <2>1. ioWriteError = 0 /\ bufferIdx <= bufferSize
    BY <1>0, <1>2 DEF StreamInv, BufferInBounds
  <2>2. Len(<<>>) = 0 /\ Len(rest) \in Nat
    BY <1>2, EmptySeq, LenProperties
  <2>3. CASE EmptyBuffer(rest)
    <3>1. rest = <<>>
      BY <1>0, <2>3, EmptyBufferFacts
    <3> QED BY <1>0, <1>3, <2>2, <3>1
  <2>4. CASE rest = buffer /\ UNCHANGED <<accepted, ferror, ioWriteError>>
    <3>1. len > 0 => bufferIdx + len <= bufferSize
      BY <2>1, <2>4
    <3>2. bufferIdx \in Nat
      BY <1>0, LenProperties DEF bufferIdx
    <3> QED BY <1>0, <1>3, <2>1, <2>4, <3>1, <3>2 DEF bufferIdx
  <2> QED BY <2>3, <2>4
<1>9. CompleteAtEnd'
  BY DEF CompleteAtEnd
<1> QED BY <1>4, <1>5, <1>6, <1>7, <1>8, <1>9 DEF StreamInv

(* StreamBuffered::flush() *)
LEMMA BufferedFlushKeeps ==
    ASSUME StreamInv, BufferedFlush
    PROVE  StreamInv'
<1>1. PICK rest \in {buffer, <<>>} : EmptyBuffer(rest) /\ buffer' = rest
  BY DEF BufferedFlush
<1>2. given \in Nat /\ buffer \in Seq(Nat) /\ <<>> \in Seq(Nat)
  BY EmptySeq DEF StreamInv, StreamTypes
<1>3. Bytes(0) = <<>>
  BY <1>2, BytesOf, EmptySeq
<1>4. buffer' = rest \o Bytes(0)
  BY <1>1, <1>2, <1>3, ConcatEmptySeq
<1>5. given' = given + 0
  BY <1>2 DEF BufferedFlush
<1>6. /\ mode = "buffered" /\ life = "live" /\ life' = life
      /\ UNCHANGED <<mode, fileHandle, disk, bufferSize>>
  BY DEF BufferedFlush
<1>7. ~(0 > 0) /\ 0 \in Nat
  OBVIOUS
<1>8. life' \in {"live", "dead"}
  BY <1>6
<1> QED BY <1>1, <1>4, <1>5, <1>6, <1>7, <1>8, BufferedKeeps

(* StreamBuffered::write() *)
LEMMA BufferedWriteKeeps ==
    ASSUME StreamInv, NEW len \in WriteLens, BufferedWrite(len)
    PROVE  StreamInv'
<1>1. CASE Die
  BY <1>1, DieKeeps
<1>2. CASE len <= bufferSize /\ ~Die
  <2>1. PICK rest \in {buffer, <<>>} :
           /\ IF bufferHasRoom(len)
              THEN rest = buffer /\ UNCHANGED <<accepted, ferror, ioWriteError>>
              ELSE EmptyBuffer(rest)
           /\ buffer' = rest \o Bytes(len)
    BY <1>2 DEF BufferedWrite
  <2>2. /\ mode = "buffered" /\ life = "live" /\ life' \in {"live", "dead"}
        /\ given' = given + len
        /\ UNCHANGED <<mode, fileHandle, disk, bufferSize>>
    BY <1>2 DEF BufferedWrite
  <2>3. len \in Nat /\ bufferSize \in Nat /\ bufferIdx \in Nat
    BY StreamAssumption, LenProperties DEF StreamInv, StreamTypes, bufferIdx
  <2>4. CASE bufferHasRoom(len)
    <3>1. bufferIdx <= bufferSize => bufferIdx + len <= bufferSize
      BY <2>3, <2>4 DEF bufferHasRoom
    <3> QED BY <1>2, <2>1, <2>2, <2>3, <2>4, <3>1, BufferedKeeps
  <2>5. CASE ~bufferHasRoom(len)
    <3>1. EmptyBuffer(rest)
      BY <2>1, <2>5
    <3>2. (fileHandle = "open" /\ ioWriteError' = ioWriteError /\ ioWriteError = 0) => rest = <<>>
      BY <3>1, EmptyBufferFacts DEF StreamInv
    <3>3. (rest = buffer /\ rest = <<>>) => bufferIdx + len <= bufferSize
      BY <1>2, <2>3, EmptySeq DEF bufferIdx
    <3> QED BY <1>2, <2>1, <2>2, <2>3, <3>1, <3>2, <3>3, BufferedKeeps
  <2> QED BY <2>4, <2>5
<1> QED BY <1>1, <1>2 DEF BufferedWrite

(* ~Log(): without an error the file has everything that was written. *)
LEMMA CloseKeeps ==
    ASSUME StreamInv, CloseFile
    PROVE  StreamInv'
<1>1. PICK moved \in 0..Len(accepted) :
        /\ disk' = disk \o SubSeq(accepted, 1, moved)
        /\ ferror' = (ferror \/ moved < Len(accepted))
  BY DEF CloseFile
<1>2. /\ life = "live" /\ life' = "closed" /\ fileHandle' = "closed" /\ accepted' = <<>>
      /\ UNCHANGED <<mode, bufferSize, buffer, ioWriteError, given>>
  BY DEF CloseFile
<1>3. /\ disk \in Seq(Nat) /\ accepted \in Seq(Nat) /\ Len(accepted) \in Nat /\ given \in Nat
      /\ <<>> \in Seq(Nat) /\ ioWriteError \in Nat
  BY EmptySeq, LenProperties DEF StreamInv, StreamTypes
<1> DEFINE a == SubSeq(accepted, 1, moved)
           z == SubSeq(accepted, moved + 1, Len(accepted))
<1>4. /\ a \in Seq(Nat) /\ z \in Seq(Nat) /\ a \o z = accepted
      /\ moved = Len(accepted) => a = accepted
  BY <1>3, CutInTwo
<1> HIDE DEF a, z
<1>5. disk' = disk \o a /\ disk' \in Seq(Nat)
  BY <1>1, <1>3, <1>4, ConcatProperties DEF a
<1>6. moved < Len(accepted) \/ moved = Len(accepted)
  BY <1>3
<1>7. ferror' \in BOOLEAN /\ (ferror => ferror') /\ (~ferror' => moved = Len(accepted))
  BY <1>1, <1>6, Zenon
<1>8. StreamTypes'
  BY <1>2, <1>3, <1>5, <1>7 DEF StreamInv, StreamTypes
<1>9. Stages'
  BY <1>2, <1>7 DEF StreamInv, Stages
<1>10. DamageMarked'
  BY <1>2 DEF DamageMarked
<1>11. NoRepeats'
  <2> SUFFICES ASSUME mode = "plain" PROVE Ascending(disk' \o accepted', given)
    BY <1>2 DEF NoRepeats, Ascending
  <2>1. Ascending(disk \o accepted, given)
    BY DEF StreamInv, NoRepeats
  <2>2. (disk \o a) \o z = disk \o accepted
    <3>1. (disk \o a) \o z = disk \o (a \o z)
      BY <1>3, <1>4, Associative
    <3> QED BY <1>4, <3>1
  <2>3. Ascending(disk', given)
    <3>1. Ascending(disk' \o z, given)
      BY <1>5, <2>1, <2>2
    <3> DEFINE d == disk'
    <3>2. d \in Seq(Nat) /\ Ascending(d \o z, given)
      BY <1>5, <3>1
    <3> HIDE DEF d
    <3>3. Ascending(d, given)
      BY <1>3, <1>4, <3>2, AscendingCut
    <3> QED BY <3>3 DEF d
  <2>4. disk' \o accepted' = disk'
    BY <1>2, <1>5, ConcatEmptySeq
  <2> QED BY <2>3, <2>4
<1>12. BufferInBounds'
  BY <1>2 DEF BufferInBounds
<1>13. CompleteAtEnd'
  <2> SUFFICES ASSUME mode = "plain", ~ferror' PROVE disk' = All'
    BY <1>2 DEF CompleteAtEnd
  <2>1. ~ferror /\ a = accepted
    BY <1>4, <1>7
  <2>2. buffer = <<>>
    BY DEF StreamInv, Stages
  <2>3. (disk \o accepted) \o buffer = All
    BY <1>2, <2>1 DEF StreamInv, DamageMarked, Intact
  <2>4. disk' = disk \o accepted /\ disk' \o <<>> = disk'
    BY <1>5, <2>1, ConcatEmptySeq
  <2>5. All' = All
    BY <1>2 DEF All
  <2> QED BY <2>2, <2>3, <2>4, <2>5
<1> QED BY <1>8, <1>9, <1>10, <1>11, <1>12, <1>13 DEF StreamInv

(* ~Stream(), of stdout's stream or of one whose file ~Log() has closed *)
LEMMA DestroyKeeps ==
    ASSUME StreamInv, DestroyStream
    PROVE  StreamInv'
<1>1. /\ life \in {"live", "closed"} /\ life' \in {"destroyed", "dead"} /\ fileHandle' = "null"
      /\ UNCHANGED <<mode, bufferSize, buffer, ioWriteError, given>>
  BY DEF DestroyStream
<1>2. /\ disk' \in Seq(Nat) /\ accepted' \in Seq(Nat) /\ ferror' \in BOOLEAN
      /\ Ascending(disk \o accepted, given) => Ascending(disk' \o accepted', given)
      /\ ferror => ferror'
      /\ \/ fileHandle = "open" /\ (~ferror' => disk' = disk \o accepted)
         \/ fileHandle # "open" /\ UNCHANGED <<disk, accepted, ferror>>
  <2>1. CASE fileHandle = "open" /\ \E moved \in 0..Len(accepted) : fflush(moved)
    BY <2>1, FlushFacts DEF StreamInv
  <2>2. CASE fileHandle # "open" /\ UNCHANGED <<disk, accepted, ferror>>
    BY <2>2 DEF StreamInv, StreamTypes
  <2> QED BY <2>1, <2>2 DEF DestroyStream
<1>3. StreamTypes'
  BY <1>1, <1>2 DEF StreamInv, StreamTypes
<1>4. Stages'
  BY <1>1, <1>2 DEF StreamInv, Stages
<1>5. DamageMarked'
  BY <1>1 DEF DamageMarked
<1>6. NoRepeats'
  <2>1. mode = "plain" => Ascending(disk' \o accepted', given')
    BY <1>1, <1>2 DEF StreamInv, NoRepeats
  <2> QED BY <1>1, <2>1 DEF NoRepeats, Ascending
<1>7. BufferInBounds'
  BY <1>1 DEF BufferInBounds
<1>8. CompleteAtEnd'
  <2> SUFFICES ASSUME mode = "plain", ~ferror' PROVE disk' = All
    BY <1>1 DEF CompleteAtEnd, All
  <2>0. ~ferror /\ disk \in Seq(Nat) /\ accepted \in Seq(Nat) /\ ioWriteError \in Nat
    BY <1>2 DEF StreamInv, StreamTypes
  <2>1. CASE life = "closed"
    <3>1. fileHandle # "open" /\ disk = All
      BY <2>0, <2>1 DEF StreamInv, Stages, CompleteAtEnd
    <3> QED BY <1>2, <3>1
  <2>2. CASE life = "live"
    <3>1. buffer = <<>>
      BY DEF StreamInv, Stages
    <3>2. (disk \o accepted) \o buffer = All
      BY <2>0, <2>2 DEF StreamInv, DamageMarked, Intact
    <3>3. disk \o accepted \in Seq(Nat)
      BY <2>0, ConcatProperties
    <3>4. disk \o accepted = All
      BY <3>1, <3>2, <3>3, ConcatEmptySeq
    <3>5. CASE fileHandle = "open"
      BY <1>2, <3>4, <3>5
    <3>6. CASE fileHandle # "open"
      <4>1. accepted = <<>>
        BY <2>2, <3>6 DEF StreamInv, Stages, StreamTypes
      <4>2. disk \o <<>> = disk
        BY <2>0, ConcatEmptySeq
      <4> QED BY <1>2, <3>4, <3>6, <4>1, <4>2
    <3> QED BY <3>5, <3>6
  <2> QED BY <1>1, <2>1, <2>2
<1> QED BY <1>3, <1>4, <1>5, <1>6, <1>7, <1>8 DEF StreamInv

(* Every step of a stream keeps the invariant. *)
LEMMA StreamStep == StreamInv /\ [StreamNext]_streamVars => StreamInv'
<1> SUFFICES ASSUME StreamInv, [StreamNext]_streamVars PROVE StreamInv'
  OBVIOUS
<1>1. CASE PlainFlush
  BY <1>1, FlushKeeps DEF PlainFlush
<1>2. CASE WriteBack
  BY <1>2, FlushKeeps DEF WriteBack
<1>3. CASE UNCHANGED streamVars
  <2>1. StreamTypes' /\ Stages'
    BY <1>3 DEF streamVars, StreamInv, StreamTypes, Stages
  <2>2. DamageMarked' /\ CompleteAtEnd'
    BY <1>3 DEF streamVars, StreamInv, DamageMarked, Intact, CompleteAtEnd, All
  <2>3. NoRepeats' /\ BufferInBounds'
    BY <1>3 DEF streamVars, StreamInv, NoRepeats, Ascending, BufferInBounds, bufferIdx
  <2> QED BY <2>1, <2>2, <2>3 DEF StreamInv
<1> QED
  BY <1>1, <1>2, <1>3, PlainWriteKeeps, BufferedWriteKeeps, BufferedFlushKeeps, CloseKeeps, DestroyKeeps
  DEF StreamNext

-----------------------------------------------------------------------------
(* The inductive invariant of the streams holds, whatever the FILE does. *)
LEMMA StreamInvariant == StreamSpec => []StreamInv
  BY InitStream, StreamStep, PTL DEF StreamSpec

(***************************************************************************)
(* However writes, flushes and write-backs fail, and whether the C library *)
(* keeps or drops what it could not write, a write() of a plain stream or  *)
(* flush() of a buffered one that returns while a byte is lost, repeated   *)
(* or moved has counted it in ioWriteError.                                *)
(***************************************************************************)
THEOREM StreamDamageCounted == StreamSpec => DamageCounted
<1>1. ASSUME StreamInv, StreamInv', CheckedCall, life' = "live"
      PROVE  ioWriteError' > ioWriteError \/ Intact'
  <2>1. ~ferror' => Intact'
    BY <1>1 DEF StreamInv, DamageMarked
  <2>2. ferror' => ioWriteError' > ioWriteError
    <3>1. ASSUME NEW len \in WriteLens, PlainWrite(len)
          PROVE  ferror' => ioWriteError' > ioWriteError
      <4>1. PICK written \in 0..len : Written(Bytes(len), written)
        BY <1>1, <3>1 DEF PlainWrite, Die
      <4>2. Bytes(len) \in Seq(Nat)
        BY <1>1, StreamAssumption, BytesOf DEF StreamInv, StreamTypes
      <4> QED BY <1>1, <4>1, <4>2, WrittenFacts DEF StreamInv
    <3>2. ASSUME BufferedFlush, fileHandle = "open"
          PROVE  ferror' => ioWriteError' > ioWriteError
      <4>1. PICK rest \in {buffer, <<>>} : EmptyBuffer(rest)
        BY <3>2 DEF BufferedFlush
      <4> QED BY <1>1, <3>2, <4>1, EmptyBufferFacts DEF StreamInv
    <3> QED BY <1>1, <3>1, <3>2 DEF CheckedCall
  <2> QED BY <2>1, <2>2
<1>2. StreamInv /\ StreamInv' /\ [StreamNext]_streamVars
        => [CheckedCall /\ life' = "live" => ioWriteError' > ioWriteError \/ Intact']_streamVars
  BY <1>1
<1> QED BY <1>2, StreamInvariant, PTL DEF StreamSpec, DamageCounted

(***************************************************************************)
(* Stream::write() never writes a byte twice or after a later one, for     *)
(* every length of the writes and every failure of the FILE.               *)
(***************************************************************************)
THEOREM StreamNeverRepeats == StreamSpec => []PlainNeverRepeats
<1>1. StreamInv => PlainNeverRepeats
  BY DEF StreamInv, NoRepeats, Ascending, PlainNeverRepeats
<1> QED BY <1>1, StreamInvariant, PTL

(***************************************************************************)
(* StreamBuffered stays within its buffer until the first error, for every *)
(* buffer size its memory has and every length of the writes.              *)
(***************************************************************************)
THEOREM StreamInBounds == StreamSpec => []BufferInBounds
<1>1. StreamInv => BufferInBounds
  BY DEF StreamInv
<1> QED BY <1>1, StreamInvariant, PTL

(***************************************************************************)
(* A plain stream that ended without an error has everything in its file,  *)
(* whether ~Log() closed it or ~Stream() flushed it.                       *)
(***************************************************************************)
THEOREM StreamCompleteAtEnd == StreamSpec => []CompleteAtEnd
<1>1. StreamInv => CompleteAtEnd
  BY DEF StreamInv
<1> QED BY <1>1, StreamInvariant, PTL
=============================================================================
