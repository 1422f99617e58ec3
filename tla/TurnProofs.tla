----------------------------- MODULE TurnProofs -----------------------------
(***************************************************************************)
(* Proofs about the trace file for any number of turns of the ring, for    *)
(* one thread that logs and never laps the bookmark: through the rollover  *)
(* of the index, entries that straddle the end of the ring, and ~Log()     *)
(* collecting beside the worker; and, at the end, about dump() of a ring   *)
(* that has wrapped around, for one thread that may lap the bookmark.      *)
(***************************************************************************)
EXTENDS QueueProofs

(* No entry is longer than the margin of the rollover check, as in the     *)
(* code; the thread that logs stays behind the bookmark; the last written  *)
(* index starts where the current index starts.                            *)
MarginCovers == \A len \in Lens : len <= Margin
NeverLaps == MaxLag < Size
EmptyAtStart == \A index \in InitIndex, last \in InitLast : normalize(index) = normalize(last)

-----------------------------------------------------------------------------
(* The locals of the thread that logs *)
Writer == IF Producers = {} THEN Idle ELSE prod[CHOOSE p \in Producers : TRUE]

(* Where the n-th entry ends and the next one begins, were the ring endless *)
Edge(es, h, n) == IF n < Len(es) THEN es[n + 1].pos ELSE h

(* The inductive invariant, part by part: the entries follow each other,   *)
(* and the index follows them around the ring, ...                         *)
Chained(es, h) ==
    /\ \A n \in 1..Len(es) : /\ es[n].pos + es[n].len = Edge(es, h, n)
                             /\ normalize(es[n].loc) = normalize(es[n].pos)
                             /\ es[n].len < Size
    /\ \A m, n \in 0..Len(es) : m < n => Edge(es, h, m) < Edge(es, h, n)

Folded(t, index, h) ==
    /\ normalize(index) = normalize(h)
    /\ t.pc \in {"wrap", "add"} => index < Size

(* ... a cell of the last turn is there unless it is still to be copied,   *)
(* and no other cell is there unless its successor is still to be copied,  *)
Pending(t, n, k) == t.pc = "copy" /\ t.entry = n /\ k \in t.todo

HeldBy(t, es, h, ring) ==
    \A n \in 1..Len(es) : \A k \in 0..(es[n].len - 1) :
        (h <= es[n].pos + k + Size /\ ~Pending(t, n, k)) => ring[normalize(es[n].pos + k)] = CellOf(n, k)

Overdue(t, es, c) == t.pc = "copy" /\ \E j \in t.todo : normalize(es[Len(es)].pos + j) = c

OwnedBy(t, es, h, ring) ==
    \A c \in RingCells :
        \/ ring[c] = Blank
        \/ /\ ring[c].entry \in 1..Len(es)
           /\ ring[c].part \in 0..(es[ring[c].entry].len - 1)
           /\ normalize(es[ring[c].entry].pos + ring[c].part) = c
           /\ h <= es[ring[c].entry].pos + ring[c].part + Size \/ Overdue(t, es, c)

Latest(t, es) ==
    t.pc \in Copying => /\ t.entry = Len(es) /\ Len(es) > 0
                        /\ t.pc = "copy" => t.todo \subseteq 0..(es[Len(es)].len - 1)

TurnRing ==
    /\ Chained(entries, head) /\ Folded(Writer, currentIndex, head)
    /\ HeldBy(Writer, entries, head, mem) /\ OwnedBy(Writer, entries, head, mem)
    /\ Latest(Writer, entries)
    /\ published = 1..Done

(* ... the last written index is where the last complete entry ends.       *)
TurnLast ==
    /\ normalize(lastWritten) = normalize(Edge(entries, head, Done))
    /\ Writer.pc = "last" => normalize(Writer.index) = normalize(head)

-----------------------------------------------------------------------------
(* Cells of the ring *)
LEMMA CellIs ==
    ASSUME NEW x \in Nat
    PROVE  normalize(x) \in RingCells /\ normalize(x) \in Nat
  BY RingSize, DivMod DEF normalize, RingCells

LEMMA CellAhead ==
    ASSUME NEW x \in Nat, NEW y \in Nat, normalize(x) = normalize(y), NEW k \in Nat
    PROVE  normalize(x + k) = normalize(y + k)
<1>1. ((x % Size) + k) % Size = (x + k) % Size /\ ((y % Size) + k) % Size = (y + k) % Size
  BY RingSize, AddModulo
<1> QED BY <1>1 DEF normalize

LEMMA CellApart ==
    ASSUME NEW x \in Nat, NEW y \in Nat, x # y, x < y + Size, y < x + Size
    PROVE  normalize(x) # normalize(y)
<1>1. CASE x < y
  <2>1. y - x < Size
    BY RingSize
  <2>2. x % Size # y % Size
    BY <1>1, <2>1, RingSize, DifferentCells
  <2> QED BY <2>2 DEF normalize
<1>2. CASE y < x
  <2>1. x - y < Size
    BY RingSize
  <2>2. y % Size # x % Size
    BY <1>2, <2>1, RingSize, DifferentCells
  <2> QED BY <2>2 DEF normalize
<1> QED BY <1>1, <1>2

LEMMA CellRound ==
    ASSUME NEW x \in Nat
    PROVE  normalize(x + Size) = normalize(x)
<1> DEFINE y == x + Size
           one == 1
<1>1. y \in Nat /\ one \in Int /\ y = x + one * Size
  BY RingSize
<1> HIDE DEF y, one
<1>2. y % Size = x % Size
  BY <1>1, RingSize, SameCell
<1> QED BY <1>2 DEF normalize, y

(* The turn of the ring that a position belongs to *)
LEMMA TurnOf ==
    ASSUME NEW x \in Nat
    PROVE  /\ x - normalize(x) \in Nat /\ normalize(x - normalize(x)) = 0
           /\ normalize(x) < Size
<1> DEFINE r == x % Size
           q == x \div Size
<1>1. r \in 0..(Size - 1) /\ q \in Nat /\ x = Size * q + r
  BY RingSize, DivMod
<1> HIDE DEF r, q
<1>2. Size * q \in Nat /\ Size * q = 0 + q * Size
  BY <1>1, RingSize
<1>3. (Size * q) % Size = 0 % Size
  BY <1>1, <1>2, RingSize, SameCell
<1>4. 0 % Size = 0
  BY RingSize, WordReduced
<1>5. x - r = Size * q
  BY <1>1, <1>2
<1>6. r < Size
  BY <1>1, RingSize
<1> QED BY <1>2, <1>3, <1>4, <1>5, <1>6 DEF normalize, r

LEMMA InTurn ==
    ASSUME NEW t \in Nat, normalize(t) = 0, NEW i \in Nat, i < Size
    PROVE  normalize(t + i) = i
<1>1. normalize(0) = 0
  BY RingSize, BelowSize
<1>2. normalize(t + i) = normalize(0 + i)
  BY <1>1, CellAhead
<1> QED BY <1>2, BelowSize

-----------------------------------------------------------------------------
(* One more entry *)
LEMMA EntryFields ==
    ASSUME NEW e \in Entry
    PROVE  e.len \in Nat /\ e.len >= 2 /\ e.loc \in Nat /\ e.pos \in Nat
<1>1. e.len \in Lens /\ e.loc \in Nat /\ e.pos \in Nat
  BY RingSize DEF Entry
<1>2. \A len \in Lens : len \in Nat /\ len >= 2
  BY LogAssumption
<1> QED BY <1>1, <1>2

LEMMA EdgeIsNatural ==
    ASSUME NEW es \in Seq(Entry), NEW h \in Nat, NEW n \in 0..Len(es)
    PROVE  Edge(es, h, n) \in Nat
<1>1. CASE n < Len(es)
  <2>1. es[n + 1] \in Entry
    BY <1>1
  <2> QED BY <1>1, <2>1, EntryFields DEF Edge
<1>2. CASE ~(n < Len(es))
  BY <1>2 DEF Edge
<1> QED BY <1>1, <1>2

(* The entries and edges there were are still there. *)
Extended(es, h, fs, k) ==
    /\ Grown(es, fs) /\ h <= k
    /\ \A n \in 0..Len(es) : Edge(fs, k, n) = Edge(es, h, n)

LEMMA EdgesAppended ==
    ASSUME NEW es \in Seq(Entry), NEW h \in Nat, NEW e \in Entry, e.pos = h
    PROVE  /\ Extended(es, h, Append(es, e), h + e.len)
           /\ Edge(Append(es, e), h + e.len, Len(es) + 1) = h + e.len
           /\ Edge(es, h, Len(es)) = h
<1> DEFINE fs == Append(es, e)
           L == Len(es)
<1>1. L \in Nat /\ Len(fs) = L + 1 /\ fs[L + 1] = e /\ Grown(es, fs)
  BY DEF Grown
<1>2. e.len \in Nat
  BY EntryFields
<1> HIDE DEF fs
<1>3. \A n \in 0..L : Edge(fs, h + e.len, n) = Edge(es, h, n)
  <2> SUFFICES ASSUME NEW n \in 0..L PROVE Edge(fs, h + e.len, n) = Edge(es, h, n)
    OBVIOUS
  <2>1. CASE n = L
    BY <1>1, <2>1 DEF Edge
  <2>2. CASE n # L
    <3>1. n < L /\ n < Len(fs) /\ n + 1 \in 1..L
      BY <1>1, <2>2
    <3>2. fs[n + 1] = es[n + 1]
      BY <1>1, <3>1 DEF Grown
    <3> QED BY <3>1, <3>2 DEF Edge
  <2> QED BY <2>1, <2>2
<1>4. Edge(fs, h + e.len, L + 1) = h + e.len
  BY <1>1 DEF Edge
<1> QED BY <1>1, <1>2, <1>3, <1>4 DEF Extended, fs, Edge

LEMMA ChainAppended ==
    ASSUME NEW es \in Seq(Entry), NEW h \in Nat, NEW e \in Entry, e.pos = h, Chained(es, h),
           normalize(e.loc) = normalize(h), e.len < Size
    PROVE  Chained(Append(es, e), h + e.len)
<1> DEFINE fs == Append(es, e)
           L == Len(es)
           k == h + e.len
<1>1. L \in Nat /\ Len(fs) = L + 1 /\ fs[L + 1] = e /\ Grown(es, fs)
  BY DEF Grown
<1>2. e.len \in Nat /\ e.len >= 2 /\ k \in Nat /\ h < k
  BY EntryFields
<1>3. /\ \A n \in 0..L : Edge(fs, k, n) = Edge(es, h, n) /\ Edge(es, h, n) \in Nat
      /\ Edge(fs, k, L + 1) = k /\ Edge(es, h, L) = h
  BY EdgesAppended, EdgeIsNatural DEF Extended
<1> HIDE DEF fs, L
<1>4. \A n \in 1..Len(fs) : /\ fs[n].pos + fs[n].len = Edge(fs, k, n)
                            /\ normalize(fs[n].loc) = normalize(fs[n].pos)
                            /\ fs[n].len < Size
  <2> SUFFICES ASSUME NEW n \in 1..Len(fs)
               PROVE  /\ fs[n].pos + fs[n].len = Edge(fs, k, n)
                      /\ normalize(fs[n].loc) = normalize(fs[n].pos)
                      /\ fs[n].len < Size
    OBVIOUS
  <2>1. CASE n = L + 1
    BY <1>1, <1>3, <2>1
  <2>2. CASE n # L + 1
    <3>1. n \in 1..L /\ n \in 0..L
      BY <1>1, <2>2
    <3>2. fs[n] = es[n]
      BY <1>1, <3>1 DEF Grown, L
    <3> QED BY <1>3, <3>1, <3>2 DEF Chained, L
  <2> QED BY <2>1, <2>2
<1>5. \A m, n \in 0..Len(fs) : m < n => Edge(fs, k, m) < Edge(fs, k, n)
  <2> SUFFICES ASSUME NEW m \in 0..Len(fs), NEW n \in 0..Len(fs), m < n
               PROVE  Edge(fs, k, m) < Edge(fs, k, n)
    OBVIOUS
  <2>1. m \in 0..L
    BY <1>1
  <2>2. Edge(es, h, m) <= h
    <3>1. CASE m = L
      BY <1>2, <1>3, <3>1
    <3>2. CASE m # L
      <4>1. m < L /\ L \in 0..L
        BY <1>1, <2>1, <3>2
      <4> QED BY <1>3, <2>1, <4>1 DEF Chained, L
    <3> QED BY <3>1, <3>2
  <2>3. CASE n = L + 1
    <3>1. Edge(fs, k, n) = k /\ Edge(fs, k, m) = Edge(es, h, m) /\ Edge(es, h, m) \in Nat
      BY <1>3, <2>1, <2>3
    <3> HIDE DEF k
    <3> QED BY <1>2, <2>2, <3>1
  <2>4. CASE n # L + 1
    <3>1. n \in 0..L
      BY <1>1, <2>4
    <3>2. Edge(es, h, m) < Edge(es, h, n)
      BY <2>1, <3>1 DEF Chained, L
    <3> QED BY <1>3, <2>1, <3>1, <3>2
  <2> QED BY <2>3, <2>4
<1> QED BY <1>4, <1>5 DEF Chained, fs

(* What the chain says of one entry *)
LEMMA ChainAt ==
    ASSUME NEW es \in Seq(Entry), NEW h \in Nat, Chained(es, h), NEW n \in 1..Len(es)
    PROVE  /\ es[n].len \in Nat /\ es[n].len >= 2 /\ es[n].len < Size /\ es[n].pos \in Nat /\ es[n].loc \in Nat
           /\ es[n].pos = Edge(es, h, n - 1) /\ es[n].pos + es[n].len = Edge(es, h, n)
           /\ Edge(es, h, n) \in Nat /\ Edge(es, h, n) <= h
           /\ normalize(es[n].loc) = normalize(es[n].pos)
<1>1. Len(es) \in Nat /\ es[n] \in Entry
  OBVIOUS
<1>2. es[n].len \in Nat /\ es[n].len >= 2 /\ es[n].pos \in Nat /\ es[n].loc \in Nat
  BY <1>1, EntryFields
<1>3. es[n].pos = Edge(es, h, n - 1)
  <2>1. n - 1 < Len(es) /\ (n - 1) + 1 = n
    BY <1>1
  <2> QED BY <2>1 DEF Edge
<1>4. n \in 0..Len(es) /\ Len(es) \in 0..Len(es)
  BY <1>1
<1>5. Edge(es, h, n) \in Nat /\ Edge(es, h, Len(es)) = h
  BY <1>4, EdgeIsNatural DEF Edge
<1>6. Edge(es, h, n) <= h
  <2>1. CASE n = Len(es)
    BY <1>5, <2>1
  <2>2. CASE n # Len(es)
    <3>1. n < Len(es)
      BY <1>1, <2>2
    <3> QED BY <1>4, <1>5, <3>1 DEF Chained
  <2> QED BY <2>1, <2>2
<1> QED BY <1>2, <1>3, <1>5, <1>6 DEF Chained

-----------------------------------------------------------------------------
(* The cells when a region is claimed, and when a cell of it is copied *)
LEMMA HeldAppended ==
    ASSUME NEW es \in Seq(Entry), NEW h \in Nat, NEW e \in Entry, e.pos = h, NEW ring, NEW t, NEW u,
           t.pc # "copy", HeldBy(t, es, h, ring),
           u.pc = "copy", u.entry = Len(es) + 1, u.todo = 0..(e.len - 1)
    PROVE  HeldBy(u, Append(es, e), h + e.len, ring)
<1> DEFINE fs == Append(es, e)
           L == Len(es)
<1>1. L \in Nat /\ Len(fs) = L + 1 /\ fs[L + 1] = e /\ \A n \in 1..L : fs[n] = es[n]
  OBVIOUS
<1>2. e.len \in Nat
  BY EntryFields
<1> HIDE DEF fs
<1> SUFFICES ASSUME NEW n \in 1..Len(fs), NEW k \in 0..(fs[n].len - 1),
                    h + e.len <= fs[n].pos + k + Size, ~Pending(u, n, k)
             PROVE  ring[normalize(fs[n].pos + k)] = CellOf(n, k)
  BY DEF HeldBy, fs
<1>3. n # L + 1
  BY <1>1 DEF Pending
<1>4. n \in 1..L /\ fs[n] = es[n]
  BY <1>1, <1>3
<1>5. es[n].len \in Nat /\ es[n].pos \in Nat
  <2>1. es[n] \in Entry
    BY <1>4
  <2> QED BY <2>1, EntryFields
<1>6. h <= es[n].pos + k + Size
  <2> DEFINE pos == es[n].pos
             len == e.len
  <2>1. pos \in Nat /\ len \in Nat /\ h + len <= pos + k + Size /\ k \in Nat
    BY <1>2, <1>4, <1>5
  <2> HIDE DEF pos, len
  <2>2. h <= pos + k + Size
    BY <2>1, RingSize
  <2> QED BY <2>2 DEF pos
<1>7. ~Pending(t, n, k)
  BY DEF Pending
<1> QED BY <1>4, <1>6, <1>7 DEF HeldBy

LEMMA OwnedAppended ==
    ASSUME NEW es \in Seq(Entry), NEW h \in Nat, NEW e \in Entry, e.pos = h, NEW ring, NEW t, NEW u,
           t.pc # "copy", OwnedBy(t, es, h, ring),
           u.pc = "copy", u.entry = Len(es) + 1, u.todo = 0..(e.len - 1)
    PROVE  OwnedBy(u, Append(es, e), h + e.len, ring)
<1> DEFINE fs == Append(es, e)
           L == Len(es)
<1>1. L \in Nat /\ Len(fs) = L + 1 /\ fs[L + 1] = e /\ \A n \in 1..L : fs[n] = es[n]
  OBVIOUS
<1>2. e.len \in Nat
  BY EntryFields
<1> HIDE DEF fs
<1> SUFFICES ASSUME NEW c \in RingCells, ring[c] # Blank
             PROVE  /\ ring[c].entry \in 1..Len(fs)
                    /\ ring[c].part \in 0..(fs[ring[c].entry].len - 1)
                    /\ normalize(fs[ring[c].entry].pos + ring[c].part) = c
                    /\ h + e.len <= fs[ring[c].entry].pos + ring[c].part + Size \/ Overdue(u, fs, c)
  BY DEF OwnedBy, fs
<1> DEFINE n == ring[c].entry
           k == ring[c].part
<1>3. n \in 1..L /\ k \in 0..(es[n].len - 1) /\ normalize(es[n].pos + k) = c /\ h <= es[n].pos + k + Size
  BY DEF OwnedBy, Overdue
<1> HIDE DEF n, k
<1>4. n \in 1..Len(fs) /\ fs[n] = es[n]
  BY <1>1, <1>3
<1>5. es[n].len \in Nat /\ es[n].pos \in Nat
  <2>1. es[n] \in Entry
    BY <1>3
  <2> QED BY <2>1, EntryFields
<1>6. h + e.len <= es[n].pos + k + Size \/ Overdue(u, fs, c)
  <2> SUFFICES ASSUME ~(h + e.len <= es[n].pos + k + Size) PROVE Overdue(u, fs, c)
    OBVIOUS
  <2> DEFINE x == es[n].pos + k
             j == x + Size - h
  <2>1. x \in Nat /\ j \in 0..(e.len - 1) /\ h + j = x + Size
    <3>1. x \in Nat /\ h <= x + Size /\ ~(h + e.len <= x + Size)
      BY <1>3, <1>5
    <3> HIDE DEF x
    <3> QED BY <1>2, <3>1, RingSize
  <2> HIDE DEF x, j
  <2>2. normalize(h + j) = c
    BY <1>3, <2>1, CellRound DEF x
  <2> QED BY <1>1, <2>1, <2>2 DEF Overdue
<1> QED BY <1>3, <1>4, <1>6 DEF n, k

(* Two cells of the last turn are different, and so are their positions. *)
LEMMA HeldCopied ==
    ASSUME NEW es \in Seq(Entry), NEW h \in Nat, Chained(es, h), NEW ring \in [RingCells -> Cell],
           NEW t, NEW u, NEW j, HeldBy(t, es, h, ring), t.pc = "copy", Latest(t, es), j \in t.todo,
           u.entry = t.entry, u.todo = t.todo \ {j},
           u.pc = IF t.todo = {j} THEN "index" ELSE "copy"
    PROVE  HeldBy(u, es, h, [ring EXCEPT ![normalize(es[Len(es)].pos + j)] = CellOf(Len(es), j)])
<1> DEFINE L == Len(es)
           y == es[L].pos + j
           new == [ring EXCEPT ![normalize(y)] = CellOf(L, j)]
<1>1. t.entry = L /\ L \in 1..L /\ L \in Nat /\ j \in 0..(es[L].len - 1)
  BY DEF Latest, Copying
<1>2. es[L].len \in Nat /\ es[L].len < Size /\ es[L].pos \in Nat /\ es[L].pos + es[L].len = h
  <2>1. Edge(es, h, L) = h
    BY <1>1 DEF Edge
  <2> QED BY <1>1, <2>1, ChainAt
<1>3. y \in Nat /\ y < h /\ h <= y + Size
  <2> DEFINE pos == es[L].pos
             len == es[L].len
  <2>1. pos \in Nat /\ len \in Nat /\ len < Size /\ pos + len = h /\ j \in 0..(len - 1)
    BY <1>1, <1>2
  <2> HIDE DEF pos, len
  <2>2. pos + j \in Nat /\ pos + j < h /\ h <= pos + j + Size
    BY <2>1, RingSize
  <2> QED BY <2>2 DEF pos
<1> SUFFICES ASSUME NEW n \in 1..L, NEW k \in 0..(es[n].len - 1),
                    h <= es[n].pos + k + Size, ~Pending(u, n, k)
             PROVE  new[normalize(es[n].pos + k)] = CellOf(n, k)
  BY DEF HeldBy
<1>4. es[n].len \in Nat /\ es[n].pos \in Nat /\ es[n].pos + es[n].len <= h /\ es[n].pos + es[n].len = Edge(es, h, n)
  BY ChainAt
<1> DEFINE x == es[n].pos + k
<1>5. x \in Nat /\ x < h /\ h <= x + Size
  BY <1>4, RingSize
<1>6. normalize(x) \in RingCells /\ normalize(y) \in RingCells
  BY <1>3, <1>5, CellIs
<1>7. CASE n = L /\ k = j
  BY <1>6, <1>7
<1>8. CASE ~(n = L /\ k = j)
  <2>1. x # y
    <3>1. CASE n = L
      BY <1>1, <1>2, <1>4, <1>8, <3>1
    <3>2. CASE n # L
      <4>1. n \in 0..L /\ L - 1 \in 0..L /\ n <= L - 1
        BY <1>1, <3>2
      <4>2. Edge(es, h, n) <= Edge(es, h, L - 1)
        <5>1. Edge(es, h, n) \in Nat /\ Edge(es, h, L - 1) \in Nat
          BY <4>1, EdgeIsNatural
        <5>2. n = L - 1 \/ n < L - 1
          BY <1>1, <4>1
        <5> QED BY <4>1, <5>1, <5>2 DEF Chained
      <4>3. es[L].pos = Edge(es, h, L - 1)
        BY <1>1, ChainAt
      <4> QED BY <1>1, <1>2, <1>4, <4>2, <4>3
    <3> QED BY <3>1, <3>2
  <2> HIDE DEF x, y
  <2>2. normalize(x) # normalize(y)
    <3>1. x < y + Size /\ y < x + Size
      BY <1>3, <1>5, RingSize
    <3> QED BY <1>3, <1>5, <2>1, <3>1, CellApart
  <2>3. new[normalize(x)] = ring[normalize(x)]
    BY <1>6, <2>2
  <2>4. ~Pending(t, n, k)
    <3> SUFFICES ASSUME Pending(t, n, k) PROVE FALSE
      OBVIOUS
    <3>1. n = L /\ k \in t.todo /\ k # j
      BY <1>1, <1>8 DEF Pending
    <3> QED BY <1>1, <3>1 DEF Pending
  <2>5. ring[normalize(x)] = CellOf(n, k)
    BY <2>4 DEF HeldBy, x
  <2> QED BY <2>3, <2>5 DEF x
<1> QED BY <1>7, <1>8

LEMMA OwnedCopied ==
    ASSUME NEW es \in Seq(Entry), NEW h \in Nat, Chained(es, h), NEW ring \in [RingCells -> Cell],
           NEW t, NEW u, NEW j, OwnedBy(t, es, h, ring), t.pc = "copy", Latest(t, es), j \in t.todo,
           u.entry = t.entry, u.todo = t.todo \ {j},
           u.pc = IF t.todo = {j} THEN "index" ELSE "copy"
    PROVE  OwnedBy(u, es, h, [ring EXCEPT ![normalize(es[Len(es)].pos + j)] = CellOf(Len(es), j)])
<1> DEFINE L == Len(es)
           y == es[L].pos + j
           new == [ring EXCEPT ![normalize(y)] = CellOf(L, j)]
<1>1. t.entry = L /\ L \in 1..L /\ L \in Nat /\ j \in 0..(es[L].len - 1)
  BY DEF Latest, Copying
<1>2. es[L].len \in Nat /\ es[L].len < Size /\ es[L].pos \in Nat /\ es[L].pos + es[L].len = h
  <2>1. Edge(es, h, L) = h
    BY <1>1 DEF Edge
  <2> QED BY <1>1, <2>1, ChainAt
<1>3. y \in Nat /\ h <= y + Size /\ normalize(y) \in RingCells
  <2>1. y \in Nat /\ h <= y + Size
    BY <1>1, <1>2, RingSize
  <2> QED BY <2>1, CellIs
<1> SUFFICES ASSUME NEW c \in RingCells, new[c] # Blank
             PROVE  /\ new[c].entry \in 1..Len(es)
                    /\ new[c].part \in 0..(es[new[c].entry].len - 1)
                    /\ normalize(es[new[c].entry].pos + new[c].part) = c
                    /\ h <= es[new[c].entry].pos + new[c].part + Size \/ Overdue(u, es, c)
  BY DEF OwnedBy
<1>4. CASE c = normalize(y)
  <2>1. new[c] = CellOf(L, j)
    BY <1>4
  <2> HIDE DEF new
  <2> QED BY <1>1, <1>3, <1>4, <2>1 DEF CellOf
<1>5. CASE c # normalize(y)
  <2>1. new[c] = ring[c]
    BY <1>5
  <2> HIDE DEF new
  <2>2. Overdue(t, es, c) => Overdue(u, es, c)
    <3> SUFFICES ASSUME NEW i \in t.todo, normalize(es[L].pos + i) = c PROVE Overdue(u, es, c)
      BY DEF Overdue
    <3>1. i \in u.todo /\ u.pc = "copy"
      BY <1>5
    <3> QED BY <3>1 DEF Overdue
  <2> QED BY <2>1, <2>2 DEF OwnedBy
<1> QED BY <1>4, <1>5

-----------------------------------------------------------------------------
(* The thread that logs *)
LEMMA WriterIs ==
    ASSUME OneProducer, NEW p \in Producers
    PROVE  Writer = prod[p] /\ Writer' = prod'[p]
<1>1. (CHOOSE q \in Producers : TRUE) \in Producers
  OBVIOUS
<1>2. (CHOOSE q \in Producers : TRUE) = p
  BY <1>1 DEF OneProducer
<1>3. Producers # {}
  OBVIOUS
<1> QED BY <1>2, <1>3 DEF Writer

LEMMA WriterFields ==
    ASSUME OneProducer, LogInv
    PROVE  /\ Writer \in Thread
           /\ Done = IF Writer.pc \in Copying THEN Len(entries) - 1 ELSE Len(entries)
           /\ \A p \in Producers : prod[p] = Writer
<1>1. CASE Producers = {}
  <2>1. Writer = Idle
    BY <1>1 DEF Writer
  <2> QED BY <1>1, <2>1, IdleThread DEF Done, DoneOf, Copying
<1>2. CASE Producers # {}
  <2>1. PICK p \in Producers : TRUE
    BY <1>2
  <2>2. Writer = prod[p] /\ \A q \in Producers : q = p
    BY WriterIs DEF OneProducer
  <2> QED BY <2>2, DoneIs DEF LogInv, ProducerTypes, Done
<1> QED BY <1>1, <1>2

LEMMA TurnFacts ==
    ASSUME OneProducer, LogInv, TurnRing
    PROVE  /\ entries \in Seq(Entry) /\ Len(entries) \in Nat /\ head \in Nat /\ currentIndex \in 0..IndexMax
           /\ Chained(entries, head) /\ mem \in [RingCells -> Cell]
           /\ Done \in 0..Len(entries) /\ Done \in Nat
           /\ Edge(entries, head, Len(entries)) = head
<1>1. /\ entries \in Seq(Entry) /\ Len(entries) \in Nat /\ head \in Nat /\ currentIndex \in 0..IndexMax
      /\ Chained(entries, head) /\ mem \in [RingCells -> Cell]
  BY DEF LogInv, RingTypes, TurnRing
<1>2. Done \in 0..Len(entries) /\ Done \in Nat
  BY <1>1, WriterFields DEF TurnRing, Latest
<1> QED BY <1>1, <1>2 DEF Edge

(* What a step of the thread that logs leaves *)
TurnGrown ==
    /\ TurnRing' /\ (TurnLast => TurnLast')
    /\ Extended(entries, head, entries', head') /\ Done <= Done'

LEMMA TurnRingStep ==
    ASSUME OneProducer, MarginCovers, LogInv, TurnRing, NEW p \in Producers,
           Tracing(p) \/ \E len \in Lens : ReadId(p, len),
           prod[p].pc \in {"alloc", "add"} => prod[p].len < Size
    PROVE  TurnGrown
<1> DEFINE t == prod[p]
           u == prod'[p]
           L == Len(entries)
           D == IF t.pc \in Copying THEN L - 1 ELSE L
           D1 == IF u.pc \in Copying THEN Len(entries') - 1 ELSE Len(entries')
           last == /\ normalize(lastWritten) = normalize(Edge(entries, head, D))
                   /\ t.pc = "last" => normalize(t.index) = normalize(head)
<1>1. /\ t \in Thread /\ prod \in [Producers -> Thread] /\ Writer = t /\ Writer' = u
      /\ Done = D /\ Done' = D1
  <2>1. t \in Thread /\ prod \in [Producers -> Thread]
    BY DEF LogInv, ProducerTypes
  <2> QED BY <2>1, WriterIs, DoneIs DEF Done
<1>2. /\ Chained(entries, head) /\ Folded(t, currentIndex, head)
      /\ HeldBy(t, entries, head, mem) /\ OwnedBy(t, entries, head, mem)
      /\ Latest(t, entries) /\ published = 1..D
  BY <1>1 DEF TurnRing
<1>3. /\ entries \in Seq(Entry) /\ L \in Nat /\ head \in Nat /\ currentIndex \in 0..IndexMax
      /\ mem \in [RingCells -> Cell] /\ Edge(entries, head, L) = head /\ D \in 0..L
  BY <1>1, TurnFacts
<1>4. ASSUME Chained(entries', head'), Folded(u, currentIndex', head'),
             HeldBy(u, entries', head', mem'), OwnedBy(u, entries', head', mem'),
             Latest(u, entries'), published' = 1..D1,
             last => normalize(lastWritten') = normalize(Edge(entries', head', D1)),
             last => (u.pc = "last" => normalize(u.index) = normalize(head')),
             Extended(entries, head, entries', head'), D <= D1
      PROVE  TurnGrown
  <2>1. TurnRing'
    BY <1>1, <1>4 DEF TurnRing
  <2>2. TurnLast => TurnLast'
    BY <1>1, <1>4 DEF TurnLast
  <2> QED BY <1>1, <1>4, <2>1, <2>2 DEF TurnGrown
<1>5. ASSUME UNCHANGED <<entries, mem, head, published, lastWritten>>,
             t.pc \notin Copying, u.pc \notin Copying, Folded(u, currentIndex', head)
      PROVE  TurnGrown
  <2>1. D = L /\ D1 = L
    BY <1>5
  <2>2. HeldBy(u, entries, head, mem)
    BY <1>2, <1>5 DEF HeldBy, Pending, Copying
  <2>3. OwnedBy(u, entries, head, mem)
    BY <1>2, <1>5 DEF OwnedBy, Overdue, Copying
  <2>4. Latest(u, entries) /\ u.pc # "last"
    BY <1>5 DEF Latest, Copying
  <2>5. Extended(entries, head, entries, head)
    BY <1>3 DEF Extended, Grown
  <2> HIDE DEF D, D1, u, t
  <2> QED BY <1>2, <1>3, <1>4, <1>5, <2>1, <2>2, <2>3, <2>4, <2>5
<1>6. ASSUME NEW len \in Lens, ReadId(p, len) PROVE TurnGrown
  <2>1. t.pc = "idle" /\ u.pc = "id" /\ UNCHANGED <<entries, mem, head, currentIndex, published, lastWritten>>
    BY <1>1, <1>6 DEF ReadId, Idle
  <2> QED BY <1>2, <1>5, <2>1 DEF Folded, Copying
<1>7. CASE WriteId(p)
  <2>1. t.pc = "id" /\ u.pc = "alloc" /\ UNCHANGED <<entries, mem, head, currentIndex, published, lastWritten>>
    BY <1>1, <1>7 DEF WriteId, Thread
  <2> QED BY <1>2, <1>5, <2>1 DEF Folded, Copying
<1>8. CASE FoldIndex(p)
  <2>1. /\ t.pc = "alloc" /\ u.pc = "wrap" /\ currentIndex' = normalize(currentIndex)
        /\ UNCHANGED <<entries, mem, head, published, lastWritten>>
    BY <1>1, <1>8 DEF FoldIndex, Thread
  <2>2. normalize(currentIndex) \in Nat /\ normalize(currentIndex) < Size
    BY <1>3, TurnOf, CellIs
  <2>3. Folded(u, currentIndex', head)
    BY <1>2, <2>1, <2>2, BelowSize DEF Folded
  <2> QED BY <1>5, <2>1, <2>3 DEF Copying
<1>9. CASE StoreWrapCount(p)
  <2>1. t.pc = "wrap" /\ u.pc = "add" /\ UNCHANGED <<entries, mem, head, currentIndex, published, lastWritten>>
    BY <1>1, <1>9 DEF StoreWrapCount, Thread
  <2> QED BY <1>2, <1>5, <2>1 DEF Folded, Copying
<1>10. CASE Allocate(p)
  <2> DEFINE e == [loc |-> currentIndex, pos |-> head, len |-> t.len, id |-> t.id]
             len == t.len
  <2>1. /\ t.pc \in {"alloc", "add"} /\ (t.pc = "alloc" => ~isIndexRollingOver(currentIndex))
        /\ entries' = Append(entries, e) /\ head' = head + len
        /\ currentIndex' = (currentIndex + len) % (IndexMax + 1)
        /\ mem' = mem /\ published' = published /\ lastWritten' = lastWritten
    BY <1>10 DEF Allocate
  <2>2. /\ len \in Lens /\ len \in Nat /\ len < Size /\ len <= Margin
        /\ e \in Entry /\ e.loc = currentIndex /\ e.pos = head /\ e.len = len
    <3>1. len \in Lens /\ len \in Nat /\ t.id \in Nat
      BY <1>1, <2>1, ThreadFields DEF LogInv, ProducerTypes
    <3>2. e \in Entry
      BY <1>3, <3>1 DEF Entry
    <3> QED BY <2>1, <3>1, <3>2 DEF MarginCovers
  <2>3. u.pc = "copy" /\ u.entry = L + 1 /\ u.todo = 0..(len - 1)
    BY <1>1, <1>10 DEF Allocate, Thread
  <2> HIDE DEF e, len
  <2>4. Len(entries') = L + 1 /\ entries'[L + 1] = e
    BY <1>3, <2>1, <2>2
  <2>5. Extended(entries, head, entries', head') /\ Chained(entries', head')
    <3>1. normalize(e.loc) = normalize(head)
      BY <1>2, <2>2 DEF Folded
    <3> QED BY <1>2, <1>3, <2>1, <2>2, <3>1, EdgesAppended, ChainAppended
  <2>6. currentIndex' = currentIndex + len
    <3>1. currentIndex + len <= IndexMax
      <4>1. CASE t.pc = "add"
        BY <1>2, <1>3, <2>2, <4>1, RingSize, LogAssumption DEF Folded
      <4>2. CASE t.pc = "alloc"
        BY <1>3, <2>1, <2>2, <4>2, RingSize, LogAssumption DEF isIndexRollingOver
      <4> QED BY <2>1, <4>1, <4>2
    <3>2. (currentIndex + len) % (IndexMax + 1) = currentIndex + len
      BY <1>3, <2>2, <3>1, RingSize, WithinWidth
    <3> QED BY <2>1, <3>2
  <2>7. Folded(u, currentIndex', head')
    <3>1. normalize(currentIndex + len) = normalize(head + len)
      BY <1>2, <1>3, <2>2, CellAhead DEF Folded
    <3> QED BY <2>1, <2>3, <2>6, <3>1 DEF Folded
  <2>8. HeldBy(u, entries', head', mem') /\ OwnedBy(u, entries', head', mem')
    <3>1. t.pc # "copy"
      BY <2>1
    <3> HIDE DEF t, u
    <3> QED BY <1>2, <1>3, <2>1, <2>2, <2>3, <3>1, HeldAppended, OwnedAppended
  <2>9. Latest(u, entries')
    BY <1>3, <2>2, <2>3, <2>4 DEF Latest
  <2>10. D = L /\ D1 = L
    BY <1>3, <2>1, <2>3, <2>4 DEF Copying
  <2>11. Edge(entries', head', D1) = Edge(entries, head, D)
    BY <1>3, <2>5, <2>10 DEF Extended
  <2>12. u.pc # "last" /\ D <= D1
    BY <1>3, <2>3, <2>10
  <2> HIDE DEF u, t, D, D1
  <2> QED BY <1>2, <1>4, <2>1, <2>5, <2>7, <2>8, <2>9, <2>10, <2>11, <2>12
<1>11. CASE CopyCell(p)
  <2>1. PICK k \in t.todo :
          /\ mem' = set(mem, entries[t.entry].loc + k, <<CellOf(t.entry, k)>>)
          /\ prod' = [prod EXCEPT ![p].todo = @ \ {k},
                                  ![p].pc = IF prod[p].todo = {k} THEN "index" ELSE "copy"]
    BY <1>11 DEF CopyCell, CellOf
  <2>2. /\ t.pc = "copy" /\ UNCHANGED <<entries, head, currentIndex, published, lastWritten>>
        /\ u.todo = t.todo \ {k} /\ u.entry = t.entry
        /\ u.pc = IF t.todo = {k} THEN "index" ELSE "copy"
    BY <1>1, <1>11, <2>1 DEF CopyCell, Thread
  <2>3. t.entry = L /\ L \in 1..L /\ k \in 0..(entries[L].len - 1)
    BY <1>2, <1>3, <2>2 DEF Latest, Copying
  <2>4. mem' = [mem EXCEPT ![normalize(entries[L].pos + k)] = CellOf(L, k)]
    <3>1. /\ entries[L].loc \in Nat /\ entries[L].pos \in Nat /\ entries[L].len \in Nat
          /\ normalize(entries[L].loc) = normalize(entries[L].pos)
      BY <1>2, <1>3, <2>3, ChainAt
    <3>2. k \in Nat
      BY <2>3, <3>1
    <3>3. normalize(entries[L].loc + k) = normalize(entries[L].pos + k) /\ entries[L].loc + k \in Nat
      BY <3>1, <3>2, CellAhead
    <3>4. set(mem, entries[L].loc + k, <<CellOf(L, k)>>) = [mem EXCEPT ![normalize(entries[L].loc + k)] = CellOf(L, k)]
      <4> DEFINE x == entries[L].loc + k
                 v == CellOf(L, k)
      <4>1. x \in Nat
        BY <3>3
      <4> HIDE DEF x, v
      <4>2. set(mem, x, <<v>>) = [mem EXCEPT ![normalize(x)] = v]
        BY <1>3, <4>1, SetOneCell, ZenonT(40)
      <4> QED BY <4>2 DEF x, v
    <3> QED BY <2>1, <2>3, <3>3, <3>4
  <2> HIDE DEF t, u
  <2>5. HeldBy(u, entries', head', mem') /\ OwnedBy(u, entries', head', mem')
    <3> DEFINE ring == mem
               es == entries
    <3> HIDE DEF ring, es
    <3>1. /\ es \in Seq(Entry) /\ Chained(es, head) /\ ring \in [RingCells -> Cell] /\ Latest(t, es)
          /\ HeldBy(t, es, head, ring) /\ OwnedBy(t, es, head, ring)
      BY <1>2, <1>3 DEF ring, es
    <3>2. /\ t.pc = "copy" /\ k \in t.todo /\ u.entry = t.entry /\ u.todo = t.todo \ {k}
          /\ u.pc = IF t.todo = {k} THEN "index" ELSE "copy"
      BY <2>2 DEF t
    <3>3. /\ HeldBy(u, es, head, [ring EXCEPT ![normalize(es[Len(es)].pos + k)] = CellOf(Len(es), k)])
          /\ OwnedBy(u, es, head, [ring EXCEPT ![normalize(es[Len(es)].pos + k)] = CellOf(Len(es), k)])
      BY <1>3, <3>1, <3>2, HeldCopied, OwnedCopied
    <3> QED BY <2>2, <2>4, <3>3 DEF ring, es
  <2>6. Latest(u, entries')
    BY <1>2, <2>2 DEF Latest, Copying
  <2>7. D = L - 1 /\ D1 = L - 1 /\ D <= D1
    BY <1>3, <2>2 DEF Copying
  <2>8. Folded(u, currentIndex', head') /\ u.pc # "last"
    BY <1>2, <2>2 DEF Folded
  <2>9. Extended(entries, head, entries', head')
    BY <1>3, <2>2 DEF Extended, Grown
  <2> HIDE DEF D, D1
  <2> QED BY <1>2, <1>4, <2>2, <2>5, <2>6, <2>7, <2>8, <2>9
<1>12. CASE ReadIndex(p)
  <2>1. /\ t.pc = "index" /\ u.pc = "last" /\ u.entry = t.entry /\ u.index = currentIndex
        /\ UNCHANGED <<entries, mem, head, currentIndex, published, lastWritten>>
    BY <1>1, <1>12 DEF ReadIndex, Thread
  <2> HIDE DEF t, u
  <2>2. D = L - 1 /\ D1 = L - 1 /\ D <= D1
    BY <1>3, <2>1 DEF Copying
  <2>3. HeldBy(u, entries, head, mem) /\ OwnedBy(u, entries, head, mem)
    BY <1>2, <2>1 DEF HeldBy, OwnedBy, Pending, Overdue
  <2>4. Latest(u, entries) /\ Folded(u, currentIndex, head)
    BY <1>2, <2>1 DEF Latest, Copying, Folded
  <2>5. Extended(entries, head, entries, head) /\ normalize(u.index) = normalize(head)
    BY <1>2, <1>3, <2>1 DEF Extended, Grown, Folded
  <2> HIDE DEF D, D1
  <2> QED BY <1>2, <1>4, <2>1, <2>2, <2>3, <2>4, <2>5
<1>13. CASE StoreLast(p)
  <2>1. /\ t.pc = "last" /\ u.pc = "idle" /\ lastWritten' = t.index /\ published' = published \cup {t.entry}
        /\ UNCHANGED <<entries, mem, head, currentIndex>>
    BY <1>1, <1>13 DEF StoreLast, Idle
  <2>2. t.entry = L /\ L > 0
    BY <1>2, <2>1 DEF Latest, Copying
  <2> HIDE DEF t, u
  <2>3. D = L - 1 /\ D1 = L /\ D <= D1
    BY <1>3, <2>1, <2>2 DEF Copying
  <2>4. HeldBy(u, entries, head, mem) /\ OwnedBy(u, entries, head, mem)
    BY <1>2, <2>1 DEF HeldBy, OwnedBy, Pending, Overdue
  <2>5. Latest(u, entries) /\ Folded(u, currentIndex, head) /\ u.pc # "last"
    BY <1>2, <2>1 DEF Latest, Copying, Folded
  <2>6. Extended(entries, head, entries, head)
    BY <1>3 DEF Extended, Grown
  <2>7. published' = 1..L
    <3>1. published = 1..(L - 1) /\ published' = published \cup {L}
      BY <1>2, <2>1, <2>2, <2>3 DEF t
    <3>2. ASSUME NEW n \in Nat, n > 0 PROVE (1..(n - 1)) \cup {n} = 1..n
      BY <3>2
    <3> HIDE DEF L
    <3> QED BY <1>3, <2>2, <3>1, <3>2
  <2>8. last => normalize(lastWritten') = normalize(Edge(entries, head, L))
    <3>1. last => (lastWritten' = t.index /\ normalize(t.index) = normalize(head))
      BY <1>2, <2>1 DEF t
    <3> HIDE DEF L
    <3> QED BY <1>3, <3>1
  <2> HIDE DEF D, D1
  <2> QED BY <1>2, <1>4, <2>1, <2>3, <2>4, <2>5, <2>6, <2>7, <2>8
<1> QED BY <1>6, <1>7, <1>8, <1>9, <1>10, <1>11, <1>12, <1>13 DEF Tracing

-----------------------------------------------------------------------------
(* The trace file.  x is a position in the endless ring, a turn of it      *)
(* begins at t, and the reader d is in that turn.                          *)

(* An entry that straddles the end of the ring, and the start of the ring  *)
(* inside such an entry: the bookmark may be left there.                   *)
Across(e) == normalize(e.loc) + e.len > Size

InTail(es, h, n, x) ==
    /\ n \in 1..Len(es) /\ Across(es[n])
    /\ es[n].pos < x /\ x < Edge(es, h, n) /\ normalize(x) = 0

Behind(es, h, n, x) == x = Edge(es, h, n) \/ InTail(es, h, n, x)

(* The first n entries are in the file, but for straddlers, which the      *)
(* reader has reported; the lines of the file are entries up to n, in      *)
(* their order.                                                            *)
Stored(n, es, lines, marks) ==
    \A m \in 1..n : (\E k \in 1..Len(lines) : lines[k] = m) \/ (Across(es[m]) /\ "file" \in marks)

Ordered(lines, n) ==
    /\ \A k \in 1..Len(lines) : lines[k] <= n
    /\ \A j, k \in 1..Len(lines) : j < k => lines[j] < lines[k]

(* A reader in the middle of the n-th entry has read nothing else. *)
Matches(d, n) ==
    d.pc = "body" => d.hdr = CellOf(n, 0) /\ \A k \in 1..Len(d.buf) : d.buf[k] = CellOf(n, k - 1)

(* The range of a dumpRange() that collect() called: to the end of the     *)
(* ring and not of the entry there, or to the end of the g-th entry.       *)
InRange(d, t, g, es, h) ==
    /\ normalize(d.rangeEnd) = normalize(Edge(es, h, g))
    /\ IF d.task = "top" THEN d.end = Size /\ t + Size < Edge(es, h, g)
                         ELSE d.task \in {"only", "bottom"} /\ t + d.end = Edge(es, h, g)

(* The reader is at the entry behind the w-th, or it is at the tail of the *)
(* w-th, which straddles: about to fail to print it, or searching from     *)
(* there for the header of the entry behind it.                            *)
Showing(d, t, w, es, h) ==
    /\ d.mode = "print" /\ d.pc \in {"hdr", "body"} /\ d.at = d.i /\ d.i < d.end
    /\ t + d.i = Edge(es, h, w) /\ Matches(d, w + 1)

Stumbling(d, t, w, es, h) ==
    /\ d.mode = "print" /\ d.pc = "hdr" /\ d.at = 0 /\ d.i = 0 /\ d.task # "top"
    /\ InTail(es, h, w, t)

Searching(d, t, w, es, h) ==
    /\ d.mode = "scan" /\ d.pc \in Looking /\ d.i = 0 /\ d.task # "top"
    /\ InTail(es, h, w, t)
    /\ IF d.at < d.end
       THEN /\ t + d.at <= Edge(es, h, w) /\ (d.pc # "cmp" => t + d.at = Edge(es, h, w))
            /\ Matches(d, w + 1)
       ELSE t + d.end <= Edge(es, h, w)

Looks(d, t, w, es, h, lines, marks) ==
    \/ Showing(d, t, w, es, h) /\ Stored(w, es, lines, marks)
    \/ Stumbling(d, t, w, es, h) /\ Stored(w - 1, es, lines, marks)
    \/ Searching(d, t, w, es, h) /\ Stored(w - 1, es, lines, marks)

(* A reader that collects up to the g-th entry and is behind the w-th *)
TopDone(d, t, w, g, es, h) ==
    /\ d.pc = "ret" /\ d.task = "top" /\ InTail(es, h, w, t + Size)
    /\ normalize(d.rangeEnd) = normalize(Edge(es, h, g)) /\ t + Size < Edge(es, h, g)

AllDone(d, t, w, g, es, h) ==
    d.pc = "ret" /\ d.task \in {"only", "bottom"} /\ w = g /\ Behind(es, h, g, t + d.ret)

Collects(d, lo, t, w, g, es, h, lines, marks) ==
    /\ normalize(t) = 0
    /\ \/ InRange(d, t, g, es, h) /\ Looks(d, t, w, es, h, lines, marks) /\ lo <= t + d.i
       \/ TopDone(d, t, w, g, es, h) /\ lo <= t + Size /\ Stored(w - 1, es, lines, marks)
       \/ AllDone(d, t, w, g, es, h) /\ lo <= t + d.ret /\ Stored(g, es, lines, marks)

(* The bookmark is at m, behind the f-th entry and less than a turn behind *)
(* the log; the worker has gone on from there to the w-th entry.           *)
Marked(f, m) ==
    /\ normalize(bookmark) = normalize(m) /\ head < m + Size
    /\ Behind(entries, head, f, m) /\ Stored(f, entries, file, reported)

AtWork(d, f, m, w) ==
    \/ d.pc \in {"idle", "collect"} /\ w = f
    \/ d.pc = "split" /\ w = f /\ \E g \in f..Done : normalize(d.rangeEnd) = normalize(Edge(entries, head, g))
    \/ \E g \in w..Done, t \in 0..head : Collects(d, m, t, w, g, entries, head, file, reported)

WorkerTurn ==
    \E f \in 0..Done, m \in 0..head :
        /\ Marked(f, m)
        /\ \E w \in f..Done : AtWork(rd["worker"], f, m, w) /\ (ctl.main \in Running => Ordered(file, w))

(* ~Log() collects beside the worker, from a bookmark that may be stale *)
MainAtWork(d, g) ==
    \/ d.pc \in {"idle", "collect"}
    \/ d.pc = "split" /\ normalize(d.rangeEnd) = normalize(head)
    \/ \E w \in 0..g, t \in 0..head, lo \in 0..head :
          head < lo + Size /\ Collects(d, lo, t, w, g, entries, head, file, reported)

MainTurn == ctl.main = "flushing" => MainAtWork(rd["main"], Len(entries))

(* Once ~Log() has collected, the worker may collect again what is already *)
(* in the file, from wherever the bookmark is; nobody writes the ring, and *)
(* what getLog() accepts there is one entry.  So it is where no worker was *)
(* started and ~Log() collects from a bookmark that nobody set.            *)
WholeRead(d, es, ring) ==
    (d.pc = "body" /\ d.mode = "print" /\ d.task \notin {"first", "dump"}) =>
        /\ Matches(d, d.hdr.entry)
        /\ \A k \in 0..(es[d.hdr.entry].len - 1) : ring[normalize(d.at + k)] = CellOf(d.hdr.entry, k)

Flushed ==
    /\ \A r \in Readers : WholeRead(rd[r], entries, mem)
    /\ ctl.worker # "none" => Stored(Len(entries), entries, file, reported)
    /\ (ctl.worker = "none" /\ ctl.main \in Running) => file = <<>>

InMiddle == ctl.worker # "none" /\ ctl.main \in Running \cup {"flushing"}

TurnFile ==
    /\ \A k \in 1..Len(file) : file[k] # Torn
    /\ IF InMiddle THEN WorkerTurn /\ MainTurn ELSE Flushed

(* Nobody logs to a Log that is being destroyed; closing flushes it all. *)
Quiet == ctl.main \notin Running => \A p \in Producers : prod[p].pc = "idle"
AtClose == ctl.main = "closed" => flushed = Len(file)

TurnInv == TurnRing /\ TurnLast /\ Quiet /\ AtClose /\ (AvoidsBoundary => TurnFile)

-----------------------------------------------------------------------------
(* What a reader finds in the ring *)

(* A position of a complete entry that is less than a turn behind *)
LEMMA CellThere ==
    ASSUME OneProducer, LogInv, TurnRing, NEW n \in 1..Done, NEW x \in Nat,
           entries[n].pos <= x, x < Edge(entries, head, n), head <= x + Size
    PROVE  getByte(mem, x) = CellOf(n, x - entries[n].pos)
<1> DEFINE k == x - entries[n].pos
           e == entries[n]
<1>1. n \in 1..Len(entries) /\ Done \in 0..Len(entries) /\ Len(entries) \in Nat
  BY TurnFacts
<1>2. e.pos \in Nat /\ e.len \in Nat /\ e.pos + e.len = Edge(entries, head, n)
  BY <1>1, TurnFacts, ChainAt
<1>3. k \in 0..(e.len - 1) /\ e.pos + k = x
  BY <1>2
<1>4. ~Pending(Writer, n, k)
  <2> SUFFICES ASSUME Writer.pc = "copy", Writer.entry = n PROVE FALSE
    BY DEF Pending
  <2>1. Writer.pc \in Copying /\ Writer.entry = Len(entries)
    BY DEF Copying, TurnRing, Latest
  <2>2. Done = Len(entries) - 1
    BY <2>1, WriterFields
  <2> QED BY <1>1, <2>1, <2>2
<1> HIDE DEF k
<1>5. mem[normalize(e.pos + k)] = CellOf(n, k)
  BY <1>1, <1>3, <1>4 DEF TurnRing, HeldBy
<1> QED BY <1>3, <1>5 DEF getByte, k

(* A header in a ring that nobody writes to begins a complete entry. *)
LEMMA CleanHeader ==
    ASSUME OneProducer, LogInv, TurnRing, Writer.pc # "copy", NEW x \in Nat, IsHeader(getByte(mem, x)),
           NEW n, n = getByte(mem, x).entry
    PROVE  /\ n \in 1..Len(entries) /\ getByte(mem, x) = CellOf(n, 0)
           /\ \A k \in 0..(entries[n].len - 1) : mem[normalize(x + k)] = CellOf(n, k)
<1> DEFINE c == normalize(x)
           cell == mem[c]
<1>1. c \in RingCells /\ cell = getByte(mem, x) /\ cell \in Cell
  BY CellIs, TurnFacts DEF getByte
<1>2. cell.entry = n /\ cell.part = 0 /\ n # 0
  BY <1>1 DEF IsHeader
<1>3. cell # Blank
  BY <1>2 DEF Blank
<1>4. /\ n \in 1..Len(entries) /\ normalize(entries[n].pos + 0) = c
      /\ head <= entries[n].pos + 0 + Size \/ Overdue(Writer, entries, c)
  BY <1>1, <1>2, <1>3 DEF TurnRing, OwnedBy
<1>5. /\ entries[n].pos \in Nat /\ entries[n].len \in Nat /\ head \in Nat
  BY <1>4, TurnFacts, ChainAt
<1>6. normalize(entries[n].pos) = normalize(x) /\ head <= entries[n].pos + Size
  BY <1>4, <1>5, RingSize DEF Overdue
<1>7. getByte(mem, x) = CellOf(n, 0)
  <2> HIDE DEF cell
  <2> QED BY <1>1, <1>2 DEF Cell, CellOf
<1>8. ASSUME NEW k \in 0..(entries[n].len - 1) PROVE mem[normalize(x + k)] = CellOf(n, k)
  <2>1. k \in Nat /\ head <= entries[n].pos + k + Size
    BY <1>5, <1>6, RingSize
  <2>2. normalize(x + k) = normalize(entries[n].pos + k)
    BY <1>5, <1>6, <2>1, CellAhead
  <2>3. ~Pending(Writer, n, k)
    BY DEF Pending
  <2> QED BY <1>4, <2>1, <2>2, <2>3 DEF TurnRing, HeldBy
<1> QED BY <1>4, <1>7, <1>8

(* What a reader does at a whole entry: it reads on, or getLog() accepts   *)
(* the entry, and the line printed for it is that entry.                   *)
Onward(d, next, n) ==
    /\ next.pc = "body" /\ next.task = d.task /\ next.mode = d.mode /\ next.i = d.i
    /\ next.end = d.end /\ next.at = d.at /\ next.rangeEnd = d.rangeEnd /\ next.loop = d.loop
    /\ Matches(next, n) /\ stdout' = stdout

Accepts(d, next, n) ==
    /\ d.pc = "body" /\ LenOf(d.hdr) = entries[n].len /\ next = GetLogSucceeded(d)
    /\ file' = IF d.mode = "print" /\ d.at + entries[n].len <= d.end /\ Stream(d) = "file"
               THEN Append(file, n) ELSE file
    /\ stdout' = IF d.mode = "print" /\ d.at + entries[n].len <= d.end /\ Stream(d) = "stdout"
                 THEN Append(stdout, n) ELSE stdout

LEMMA ReadsWhole ==
    ASSUME CollectorInv, NEW r \in Readers, NEW n \in 1..Len(entries),
           rd[r].pc \in {"hdr", "body"}, Matches(rd[r], n),
           \A k \in 0..(entries[n].len - 1) : getByte(mem, rd[r].at + k) = CellOf(n, k),
           Reading(r)
    PROVE  \E next :
              /\ rd' = [rd EXCEPT ![r] = next] /\ WriteMessage(rd[r], next)
              /\ \/ Onward(rd[r], next, n) /\ file' = file
                 \/ Accepts(rd[r], next, n)
<1> DEFINE d == rd[r]
           len == entries[n].len
           at == d.at
<1>1. n # 0 /\ n \in Nat
  BY DEF CollectorInv, LogInv, RingTypes
<1>2. len \in Nat /\ len >= 2
  BY EntryLength DEF CollectorInv
<1>3. d \in Reader /\ at \in Nat /\ d.buf \in Seq(Cell)
  BY ReaderFields DEF CollectorInv, ReaderTypes
<1>4. /\ d.pc = "hdr" => d.buf = <<>>
      /\ d.pc = "body" => /\ d.hdr = CellOf(n, 0)
                          /\ \A k \in 1..Len(d.buf) : d.buf[k] = CellOf(n, k - 1)
                          /\ Len(d.buf) < len
  BY DEF Matches, CollectorInv, ReaderTypes, GoodReader, CellOf
<1>5. ~ComparePattern(r)
  BY DEF ComparePattern
<1>6. CASE ReadHeader(r)
  <2> DEFINE c == getByte(mem, at)
             next == [d EXCEPT !.pc = "body", !.hdr = c]
  <2>1. c = CellOf(n, 0)
    <3>1. at + 0 = at /\ 0 \in 0..(len - 1)
      BY <1>2, <1>3
    <3> QED BY <3>1
  <2>2. IsHeader(c)
    BY <1>1, <2>1 DEF IsHeader, CellOf
  <2>3. /\ rd' = [rd EXCEPT ![r] = next] /\ WriteMessage(d, next) /\ d.pc = "hdr"
        /\ file' = file /\ stdout' = stdout
    BY <1>3, <1>6, <2>2 DEF ReadHeader, Step
  <2>4. /\ next.pc = "body" /\ next.hdr = c /\ next.task = d.task /\ next.end = d.end /\ next.i = d.i
        /\ next.mode = d.mode /\ next.at = d.at /\ next.buf = d.buf /\ next.rangeEnd = d.rangeEnd
        /\ next.loop = d.loop
    BY <1>3 DEF Reader
  <2> HIDE DEF next, c
  <2>5. Onward(d, next, n)
    BY <1>4, <2>1, <2>3, <2>4 DEF Onward, Matches
  <2> QED BY <2>3, <2>5
<1>7. CASE ReadBody(r)
  <2> DEFINE c == getByte(mem, at + Len(d.buf))
             buf == Append(d.buf, c)
             l == Len(d.buf)
  <2>1. d.pc = "body" /\ LenOf(d.hdr) = len /\ l \in Nat /\ l < len
    BY <1>3, <1>4, <1>7 DEF ReadBody, LenOf, CellOf
  <2>2. c = CellOf(n, l)
    BY <1>2, <2>1
  <2>3. Len(buf) = l + 1 /\ \A k \in 1..(l + 1) : buf[k] = CellOf(n, k - 1)
    <3>1. c \in Cell
      BY <1>1, <2>1, <2>2 DEF Cell, CellOf
    <3> HIDE DEF c
    <3> QED BY <1>3, <1>4, <2>1, <2>2, <3>1
  <2>4. \/ /\ Len(buf) < len /\ Step(r, [d EXCEPT !.buf = buf]) /\ UNCHANGED <<file, stdout>>
        \/ /\ Len(buf) = len /\ ValidEntry(d.hdr, buf)
           /\ Step(r, GetLogSucceeded(d)) /\ WriteLine(d, buf)
        \/ Len(buf) = len /\ ~ValidEntry(d.hdr, buf)
    BY <1>3, <1>7, <2>1 DEF ReadBody
  <2> HIDE DEF buf, l, c
  <2>5. CASE Len(buf) < len /\ Step(r, [d EXCEPT !.buf = buf]) /\ UNCHANGED <<file, stdout>>
    <3> DEFINE next == [d EXCEPT !.buf = buf]
    <3>1. /\ next.pc = "body" /\ next.hdr = d.hdr /\ next.task = d.task /\ next.end = d.end /\ next.i = d.i
          /\ next.mode = d.mode /\ next.at = d.at /\ next.buf = buf /\ next.rangeEnd = d.rangeEnd
          /\ next.loop = d.loop
      BY <1>3, <2>1 DEF Reader
    <3>2. rd' = [rd EXCEPT ![r] = next] /\ WriteMessage(d, next)
      BY <2>5 DEF Step
    <3> HIDE DEF next
    <3>3. Onward(d, next, n)
      BY <1>4, <2>1, <2>3, <2>5, <3>1 DEF Onward, Matches
    <3> QED BY <2>5, <3>2, <3>3
  <2>6. ASSUME Len(buf) = len
        PROVE  ValidEntry(d.hdr, buf) /\ LineOf(buf) = n
    <3>1. buf[1] = CellOf(n, 0) /\ buf[len] = CellOf(n, len - 1) /\ len = l + 1
      <4>1. 1 \in 1..(l + 1) /\ len \in 1..(l + 1) /\ 1 - 1 = 0 /\ len = l + 1
        BY <1>2, <2>1, <2>3, <2>6
      <4> QED BY <2>3, <4>1
    <3>2. d.hdr = CellOf(n, 0)
      BY <1>4, <2>1
    <3>3. ValidEntry(d.hdr, buf)
      BY <1>1, <2>6, <3>1, <3>2 DEF ValidEntry, IsTrailer, IdOf, LenOf, CellOf
    <3>4. LineOf(buf) = n
      BY <2>3, <2>6, <3>1 DEF LineOf, CellOf
    <3> QED BY <3>3, <3>4
  <2>7. CASE Len(buf) = len
    <3> DEFINE next == GetLogSucceeded(d)
    <3>1. Step(r, next) /\ WriteLine(d, buf) /\ LineOf(buf) = n
      BY <2>4, <2>6, <2>7
    <3>2. Accepts(d, next, n)
      BY <2>1, <3>1 DEF Accepts, WriteLine
    <3> HIDE DEF next
    <3>3. rd' = [rd EXCEPT ![r] = next] /\ WriteMessage(d, next)
      BY <3>1 DEF Step
    <3> QED BY <3>2, <3>3
  <2> QED BY <2>4, <2>5, <2>7
<1> QED BY <1>5, <1>6, <1>7 DEF Reading

(* Cells and entries as a reader in the turn that begins at t sees them *)
LEMMA SameTurn ==
    ASSUME NEW t \in Nat, normalize(t) = 0, NEW x \in Nat
    PROVE  normalize(t + x) = normalize(x) /\ getByte(mem, t + x) = getByte(mem, x)
<1>1. normalize(0) = 0 /\ 0 \in Nat
  BY RingSize, BelowSize
<1>2. normalize(t + x) = normalize(0 + x)
  BY <1>1, CellAhead
<1> QED BY <1>2 DEF getByte

LEMMA EntryThere ==
    ASSUME OneProducer, LogInv, TurnRing, NEW n \in 1..Done, head <= entries[n].pos + Size,
           NEW t \in Nat, normalize(t) = 0, NEW at \in Nat, t + at = entries[n].pos
    PROVE  \A k \in 0..(entries[n].len - 1) : getByte(mem, at + k) = CellOf(n, k)
<1>1. n \in 1..Len(entries) /\ head \in Nat
  BY TurnFacts
<1>2. /\ entries[n].pos \in Nat /\ entries[n].len \in Nat
      /\ entries[n].pos + entries[n].len = Edge(entries, head, n)
  BY <1>1, TurnFacts, ChainAt
<1> SUFFICES ASSUME NEW k \in 0..(entries[n].len - 1) PROVE getByte(mem, at + k) = CellOf(n, k)
  OBVIOUS
<1> DEFINE x == entries[n].pos + k
           y == at + k
<1>3. /\ x \in Nat /\ entries[n].pos <= x /\ x < Edge(entries, head, n) /\ head <= x + Size
      /\ x - entries[n].pos = k /\ y \in Nat /\ t + y = x
  <2> DEFINE pos == entries[n].pos
             len == entries[n].len
             edge == Edge(entries, head, n)
  <2>1. /\ pos \in Nat /\ len \in Nat /\ pos + len = edge /\ k \in 0..(len - 1)
        /\ head <= pos + Size /\ t + at = pos /\ k \in Nat
    BY <1>2
  <2> HIDE DEF pos, len, edge
  <2>2. /\ pos + k \in Nat /\ pos <= pos + k /\ pos + k < edge /\ head <= pos + k + Size
        /\ (pos + k) - pos = k /\ y \in Nat /\ t + y = pos + k
    BY <1>1, <2>1, RingSize
  <2> QED BY <2>2 DEF pos, edge
<1> HIDE DEF x, y
<1>4. getByte(mem, x) = CellOf(n, k)
  BY <1>3, CellThere
<1>5. getByte(mem, y) = getByte(mem, x)
  BY <1>3, SameTurn
<1> QED BY <1>4, <1>5 DEF y

(* The edges are in the order of the entries. *)
LEMMA EdgeOrder ==
    ASSUME NEW es \in Seq(Entry), NEW h \in Nat, Chained(es, h), NEW m \in 0..Len(es), NEW n \in 0..Len(es)
    PROVE  /\ Edge(es, h, m) \in Nat /\ Edge(es, h, n) \in Nat /\ Edge(es, h, m) <= h
           /\ m < n <=> Edge(es, h, m) < Edge(es, h, n)
           /\ m <= n <=> Edge(es, h, m) <= Edge(es, h, n)
<1>1. Edge(es, h, m) \in Nat /\ Edge(es, h, n) \in Nat /\ Len(es) \in Nat /\ m \in Nat /\ n \in Nat
  BY EdgeIsNatural
<1>2. /\ m < n => Edge(es, h, m) < Edge(es, h, n)
      /\ n < m => Edge(es, h, n) < Edge(es, h, m)
  BY DEF Chained
<1>3. m = n \/ m < n \/ n < m
  BY <1>1
<1>4. Edge(es, h, m) <= h
  <2>1. CASE m = 0
    <3>1. CASE Len(es) = 0
      BY <2>1, <3>1 DEF Edge
    <3>2. CASE Len(es) # 0
      <4>1. Len(es) \in 1..Len(es) /\ 0 < Len(es) /\ Edge(es, h, Len(es)) = h
        BY <1>1, <3>2 DEF Edge
      <4>2. Edge(es, h, 0) < Edge(es, h, Len(es))
        BY <4>1 DEF Chained
      <4> QED BY <1>1, <2>1, <4>1, <4>2
    <3> QED BY <3>1, <3>2
  <2>2. CASE m # 0
    <3>1. m \in 1..Len(es)
      BY <1>1, <2>2
    <3> QED BY <3>1, ChainAt
  <2> QED BY <2>1, <2>2
<1> QED BY <1>1, <1>2, <1>3, <1>4

(* What is stored stays stored. *)
LEMMA StoredMore ==
    ASSUME NEW es \in Seq(Entry), NEW fs, Grown(es, fs), NEW n \in Int, n <= Len(es),
           NEW lines \in Seq(Nat), NEW more \in Seq(Nat), Grown(lines, more),
           NEW marks, NEW marked, marks \subseteq marked, Stored(n, es, lines, marks)
    PROVE  Stored(n, fs, more, marked)
<1> SUFFICES ASSUME NEW m \in 1..n, ~(Across(fs[m]) /\ "file" \in marked)
             PROVE  \E k \in 1..Len(more) : more[k] = m
  BY DEF Stored
<1>1. m \in 1..n /\ m \in 1..Len(es) /\ Len(es) \in Nat
  OBVIOUS
<1>2. fs[m] = es[m]
  BY <1>1 DEF Grown
<1>3. ~(Across(es[m]) /\ "file" \in marks)
  BY <1>2
<1>4. PICK k \in 1..Len(lines) : lines[k] = m
  BY <1>3 DEF Stored
<1>5. k \in 1..Len(more) /\ more[k] = m
  BY <1>4 DEF Grown
<1> QED BY <1>5

LEMMA StoredNext ==
    ASSUME NEW es, NEW n \in Nat, NEW lines \in Seq(Nat), NEW marks, Stored(n, es, lines, marks)
    PROVE  Stored(n + 1, es, Append(lines, n + 1), marks)
<1> DEFINE more == Append(lines, n + 1)
           L == Len(lines)
<1>1. /\ L \in Nat /\ Len(more) = L + 1 /\ more[L + 1] = n + 1
      /\ \A k \in 1..L : more[k] = lines[k] /\ lines[k] \in Nat
  OBVIOUS
<1> HIDE DEF more, L
<1> SUFFICES ASSUME NEW m \in 1..(n + 1), ~(Across(es[m]) /\ "file" \in marks)
             PROVE  \E k \in 1..(L + 1) : more[k] = m
  BY <1>1 DEF Stored, more
<1>2. CASE m = n + 1
  BY <1>1, <1>2
<1>3. CASE m # n + 1
  <2>1. PICK k \in 1..L : lines[k] = m
    BY <1>3 DEF Stored, L
  <2> QED BY <1>1, <2>1
<1> QED BY <1>2, <1>3

LEMMA OrderedNext ==
    ASSUME NEW n \in Nat, NEW lines \in Seq(Nat), Ordered(lines, n)
    PROVE  Ordered(Append(lines, n + 1), n + 1)
<1> DEFINE more == Append(lines, n + 1)
           L == Len(lines)
<1>1. /\ L \in Nat /\ Len(more) = L + 1 /\ more[L + 1] = n + 1
      /\ \A k \in 1..L : more[k] = lines[k] /\ lines[k] \in Nat
  OBVIOUS
<1> HIDE DEF more, L
<1>2. \A k \in 1..L : lines[k] <= n
  BY DEF Ordered, L
<1>3. \A k \in 1..(L + 1) : more[k] <= n + 1
  BY <1>1, <1>2
<1>4. ASSUME NEW j \in 1..(L + 1), NEW k \in 1..(L + 1), j < k PROVE more[j] < more[k]
  <2>1. j \in 1..L
    BY <1>1, <1>4
  <2>2. CASE k = L + 1
    BY <1>1, <1>2, <2>1, <2>2
  <2>3. CASE k # L + 1
    <3>1. k \in 1..L
      BY <1>1, <2>3
    <3>2. lines[j] < lines[k]
      BY <1>4, <2>1, <3>1 DEF Ordered, L
    <3> QED BY <1>1, <2>1, <3>1, <3>2
  <2> QED BY <2>2, <2>3
<1>5. Ordered(more, n + 1)
  BY <1>1, <1>3, <1>4 DEF Ordered
<1> QED BY <1>5 DEF more

LEMMA StoredStraddler ==
    ASSUME NEW es, NEW n \in Nat \ {0}, NEW lines, NEW marks, "file" \in marks,
           Stored(n - 1, es, lines, marks), Across(es[n])
    PROVE  Stored(n, es, lines, marks)
<1> SUFFICES ASSUME NEW m \in 1..n
             PROVE  (\E k \in 1..Len(lines) : lines[k] = m) \/ (Across(es[m]) /\ "file" \in marks)
  BY DEF Stored
<1>1. m = n \/ m \in 1..(n - 1)
  OBVIOUS
<1> QED BY <1>1 DEF Stored

(* dumpRange()'s loop and its return *)
LEMMA LoopsAt ==
    ASSUME NEW d, NEW i, NEW next, next = LoopAt(d, i)
    PROVE  /\ next.task = d.task /\ next.rangeEnd = d.rangeEnd /\ next.mode = "print"
           /\ i < d.end => next.pc = "hdr" /\ next.end = d.end /\ next.at = i /\ next.i = i
           /\ ~(i < d.end) => next.pc = "ret" /\ next.ret = i
<1>1. CASE i < d.end
  BY <1>1 DEF LoopAt, NoRead
<1>2. CASE ~(i < d.end)
  BY <1>2 DEF LoopAt, Return, NoRead
<1> QED BY <1>1, <1>2

LEMMA ReturnFields ==
    ASSUME NEW d, NEW value, NEW next, next = Return(d, value)
    PROVE  /\ next.task = d.task /\ next.rangeEnd = d.rangeEnd /\ next.mode = "print"
           /\ next.pc = "ret" /\ next.ret = value
  BY DEF Return, NoRead

-----------------------------------------------------------------------------
(* A reader that collects goes on to collect, entry by entry. *)
Advances(d, lo, t, w, g) ==
    \E v \in w..g : /\ Collects(d, lo, t, v, g, entries, head, file', reported')
                    /\ file' = file \/ (v = w + 1 /\ file' = Append(file, w + 1))

LEMMA EndsInside ==
    ASSUME OneProducer, LogInv, TurnRing, AvoidsBoundary, NEW n \in 1..Len(entries)
    PROVE  normalize(Edge(entries, head, n)) # 0
<1>1. /\ entries[n].loc \in Nat /\ entries[n].pos \in Nat /\ entries[n].len \in Nat
      /\ normalize(entries[n].loc) = normalize(entries[n].pos)
      /\ entries[n].pos + entries[n].len = Edge(entries, head, n)
  BY TurnFacts, ChainAt
<1>2. normalize(entries[n].loc + entries[n].len) = normalize(entries[n].pos + entries[n].len)
  BY <1>1, CellAhead
<1>3. normalize(entries[n].loc + entries[n].len) # 0
  BY DEF AvoidsBoundary, EndsAtBoundary, normalize
<1> QED BY <1>1, <1>2, <1>3

LEMMA ShowingReads ==
    ASSUME OneProducer, CollectorInv, TurnRing, AvoidsBoundary, NEW r \in Readers, Reading(r),
           NEW g \in 0..Done, NEW w \in 0..g, NEW t \in Nat, normalize(t) = 0,
           NEW lo \in Nat, head < lo + Size, lo <= t + rd[r].i,
           InRange(rd[r], t, g, entries, head), Showing(rd[r], t, w, entries, head),
           Stored(w, entries, file, reported)
    PROVE  Advances(rd'[r], lo, t, w, g)
<1> DEFINE d == rd[r]
           n == w + 1
           edge == Edge(entries, head, n)
           last == Edge(entries, head, g)
           len == entries[n].len
           x == d.i + len
<1>1. /\ LogInv /\ d \in Reader /\ d.i \in Nat /\ d.end \in Nat /\ d.end <= Size /\ file \in Seq(Nat)
      /\ lo <= t + d.i
  BY RingSize, ReaderFields DEF CollectorInv, ReaderTypes
<1>2. head \in Nat /\ Done \in Nat /\ Done \in 0..Len(entries) /\ Len(entries) \in Nat /\ Size \in Nat
  BY <1>1, TurnFacts, RingSize
<1>3. /\ d.mode = "print" /\ d.pc \in {"hdr", "body"} /\ d.at = d.i /\ d.i < d.end
      /\ t + d.i = Edge(entries, head, w) /\ Matches(d, n)
  BY DEF Showing
<1>4. /\ normalize(d.rangeEnd) = normalize(last)
      /\ d.task = "top" => d.end = Size /\ t + Size < last
      /\ d.task # "top" => d.task \in {"only", "bottom"} /\ t + d.end = last
  BY DEF InRange
<1>5. last \in Nat /\ last <= head /\ w < g
  <2>1. w \in 0..Len(entries) /\ g \in 0..Len(entries)
    BY <1>2
  <2>2. last \in Nat /\ last <= head
    BY <1>1, <1>2, <2>1, TurnFacts, EdgeOrder
  <2>3. Edge(entries, head, w) < last
    <3> DEFINE i == d.i
               end == d.end
               cur == Edge(entries, head, w)
    <3>1. i \in Nat /\ end \in Nat /\ i < end /\ end <= Size /\ t + i = cur /\ Size \in Nat
      BY <1>1, <1>2, <1>3
    <3>2. t + Size < last \/ t + end = last
      BY <1>4
    <3> HIDE DEF i, end, cur, last
    <3>3. cur < last
      BY <2>2, <3>1, <3>2
    <3> QED BY <3>3 DEF cur
  <2> QED BY <1>1, <1>2, <2>1, <2>2, <2>3, TurnFacts, EdgeOrder
<1>6. n \in 1..Done /\ n \in 1..Len(entries) /\ n \in 0..Len(entries) /\ n \in w..g /\ n - 1 = w
  BY <1>2, <1>5
<1>7. /\ entries[n].pos = t + d.i /\ len \in Nat /\ len >= 2 /\ len < Size /\ edge = t + x /\ edge \in Nat
      /\ normalize(entries[n].loc) = normalize(entries[n].pos)
  <2>1. /\ entries[n].pos = Edge(entries, head, n - 1) /\ entries[n].pos + len = edge /\ edge \in Nat
        /\ len \in Nat /\ len >= 2 /\ len < Size /\ normalize(entries[n].loc) = normalize(entries[n].pos)
    BY <1>1, <1>6, TurnFacts, ChainAt
  <2> HIDE DEF n, len, edge, d
  <2> QED BY <1>1, <1>3, <1>6, <2>1
<1>8. edge <= last
  BY <1>1, <1>2, <1>6, TurnFacts, EdgeOrder
<1>9. \A k \in 0..(entries[n].len - 1) : getByte(mem, d.at + k) = CellOf(n, k)
  <2>1. head <= entries[n].pos + Size
    <3> DEFINE pos == entries[n].pos
               i == d.i
    <3>1. i \in Nat /\ pos = t + i /\ lo <= t + i
      BY <1>1, <1>7
    <3> HIDE DEF pos, i
    <3>2. head <= pos + Size
      BY <1>2, <3>1
    <3> QED BY <3>2 DEF pos
  <2> DEFINE at == d.at
  <2>2. LogInv /\ n \in 1..Done /\ at \in Nat /\ t + at = entries[n].pos
    BY <1>1, <1>3, <1>6, <1>7
  <2> HIDE DEF n, at
  <2>3. \A k \in 0..(entries[n].len - 1) : getByte(mem, at + k) = CellOf(n, k)
    BY <2>1, <2>2, EntryThere
  <2> QED BY <2>3 DEF at
<1>10. PICK next : /\ rd' = [rd EXCEPT ![r] = next] /\ WriteMessage(d, next)
                   /\ (Onward(d, next, n) /\ file' = file) \/ Accepts(d, next, n)
  BY <1>3, <1>6, <1>9, ReadsWhole
<1>11. rd'[r] = next /\ reported' = reported
  BY <1>3, <1>10 DEF CollectorInv, ReaderTypes, WriteMessage
<1>12. CASE Onward(d, next, n) /\ file' = file
  <2>1. InRange(next, t, g, entries, head) /\ Showing(next, t, w, entries, head) /\ lo <= t + next.i
    BY <1>3, <1>12 DEF Onward, InRange, Showing
  <2>2. w \in w..g
    BY <1>2
  <2> QED BY <1>11, <1>12, <2>1, <2>2 DEF Advances, Collects, Looks
<1>13. CASE Accepts(d, next, n)
  <2>1. /\ next = Proceed(d, x) /\ Stream(d) = "file"
        /\ file' = IF x <= d.end THEN Append(file, n) ELSE file
    <3>1. d.task # "dump"
      BY <1>4
    <3>2. LenOf(d.hdr) = len /\ next = Proceed(d, d.at + LenOf(d.hdr))
      BY <1>3, <1>13 DEF Accepts, GetLogSucceeded
    <3> QED BY <1>3, <1>13, <3>1, <3>2 DEF Accepts, Stream
  <2>2. x \in Nat /\ lo <= t + x
    <3> DEFINE i == d.i
    <3>1. i \in Nat /\ len \in Nat /\ lo <= t + i
      BY <1>1, <1>7
    <3> HIDE DEF i, len
    <3>2. i + len \in Nat /\ lo <= t + (i + len)
      BY <3>1
    <3> QED BY <3>2 DEF i
  <2> HIDE DEF x, n
  <2>3. CASE x < d.end
    <3>1. next = LoopAt(d, x) /\ file' = Append(file, n)
      <4>1. ~(x > d.end) /\ x <= d.end
        BY <1>1, <2>2, <2>3
      <4> QED BY <2>1, <4>1 DEF Proceed
    <3>2. /\ next.task = d.task /\ next.rangeEnd = d.rangeEnd /\ next.mode = "print"
          /\ next.pc = "hdr" /\ next.end = d.end /\ next.at = x /\ next.i = x
      BY <2>3, <3>1, LoopsAt
    <3>3. InRange(next, t, g, entries, head)
      BY <3>2 DEF InRange
    <3>4. Showing(next, t, n, entries, head)
      BY <1>7, <2>3, <3>2 DEF Showing, Matches
    <3>5. Stored(n, entries, file', reported')
      BY <1>1, <1>2, <1>11, <3>1, StoredNext DEF n
    <3> QED BY <1>6, <1>11, <2>2, <3>1, <3>2, <3>3, <3>4, <3>5 DEF Advances, Collects, Looks, n
  <2>4. CASE x = d.end
    <3>1. d.task # "top"
      <4> SUFFICES ASSUME d.task = "top" PROVE FALSE
        OBVIOUS
      <4>1. edge = t + Size
        BY <1>4, <1>7, <2>4
      <4>2. normalize(edge) = 0
        BY <4>1, CellRound
      <4> QED BY <1>1, <1>6, <4>2, EndsInside
    <3>2. next = LoopAt(d, x) /\ file' = Append(file, n)
      <4>1. ~(x > d.end) /\ x <= d.end
        BY <1>1, <2>4
      <4> QED BY <2>1, <4>1 DEF Proceed
    <3>3. next.task = d.task /\ next.pc = "ret" /\ next.ret = x
      <4>1. ~(x < d.end)
        BY <1>1, <2>4
      <4> QED BY <3>2, <4>1, LoopsAt
    <3>4. edge = last /\ n = g
      <4>1. edge = last
        BY <1>4, <1>7, <2>4, <3>1
      <4>2. n <= g /\ g <= n
        BY <1>1, <1>2, <1>6, <4>1, TurnFacts, EdgeOrder
      <4> QED BY <1>2, <1>6, <4>1, <4>2
    <3>5. AllDone(next, t, n, g, entries, head)
      BY <1>4, <1>7, <3>1, <3>3, <3>4 DEF AllDone, Behind
    <3>6. Stored(n, entries, file', reported')
      BY <1>1, <1>2, <1>11, <3>2, StoredNext DEF n
    <3> QED BY <1>6, <1>11, <2>2, <3>2, <3>3, <3>4, <3>5, <3>6 DEF Advances, Collects, n
  <2>5. CASE x > d.end
    <3>1. d.task = "top" /\ d.end = Size
      <4> SUFFICES ASSUME d.task # "top" PROVE FALSE
        BY <1>4
      <4> HIDE DEF edge, last, d
      <4> QED BY <1>1, <1>4, <1>5, <1>7, <1>8, <2>2, <2>5
    <3>2. next = Return(d, d.i) /\ file' = file
      <4>1. ~(x <= d.end)
        BY <1>1, <2>2, <2>5
      <4> QED BY <2>1, <2>5, <4>1 DEF Proceed
    <3>3. next.task = "top" /\ next.pc = "ret" /\ next.rangeEnd = d.rangeEnd
      BY <3>1, <3>2, ReturnFields
    <3>4. normalize(t + Size) = 0 /\ t + Size \in Nat
      BY <1>2, CellRound
    <3>5. Across(entries[n])
      <4>1. normalize(t + d.i) = d.i
        BY <1>1, <1>3, <3>1, InTurn
      <4> HIDE DEF d
      <4> QED BY <1>1, <1>7, <2>5, <3>1, <4>1 DEF Across, x
    <3>6. InTail(entries, head, n, t + Size)
      <4>1. entries[n].pos < t + Size /\ t + Size < edge
        <5> HIDE DEF d, edge
        <5> QED BY <1>1, <1>2, <1>3, <1>7, <2>2, <2>5, <3>1
      <4> QED BY <1>6, <3>4, <3>5, <4>1 DEF InTail
    <3>7. TopDone(next, t, n, g, entries, head) /\ lo <= t + Size
      <4>1. lo <= t + Size
        <5> HIDE DEF d
        <5> QED BY <1>1, <1>2, <1>3, <3>1
      <4> QED BY <1>4, <3>1, <3>3, <3>6, <4>1 DEF TopDone
    <3> QED BY <1>6, <1>11, <3>2, <3>7 DEF Advances, Collects
  <2>6. x < d.end \/ x = d.end \/ x > d.end
    BY <1>1, <2>2
  <2> QED BY <2>3, <2>4, <2>5, <2>6
<1> QED BY <1>10, <1>12, <1>13

(* The tail of a straddler: no cell of it is a header. *)
LEMMA TailCell ==
    ASSUME OneProducer, LogInv, TurnRing, NEW w \in 1..Done, NEW t \in Nat, NEW at \in Nat,
           InTail(entries, head, w, t), t + at < Edge(entries, head, w), head < t + Size
    PROVE  ~IsHeader(getByte(mem, at))
<1> DEFINE x == t + at
           pos == entries[w].pos
<1>1. head \in Nat /\ w \in 1..Len(entries) /\ w # 0
  BY TurnFacts
<1>2. pos \in Nat /\ pos < t /\ normalize(t) = 0
  BY <1>1, TurnFacts, ChainAt DEF InTail
<1>3. x \in Nat /\ pos <= x /\ x < Edge(entries, head, w) /\ head <= x + Size /\ x - pos # 0
  <2> HIDE DEF pos
  <2> QED BY <1>1, <1>2, RingSize
<1> HIDE DEF x
<1>4. getByte(mem, x) = CellOf(w, x - pos)
  BY <1>3, CellThere
<1>5. getByte(mem, at) = getByte(mem, x)
  BY <1>2, SameTurn DEF x
<1> HIDE DEF pos
<1> QED BY <1>3, <1>4, <1>5 DEF IsHeader, CellOf

(* printAtIndex() fails at the tail of a straddler. *)
LEMMA StumblingReads ==
    ASSUME OneProducer, CollectorInv, TurnRing, NEW r \in Readers, Reading(r),
           NEW g \in 0..Done, NEW w \in 0..g, NEW t \in Nat, normalize(t) = 0,
           NEW lo \in Nat, head < lo + Size, lo <= t + rd[r].i,
           InRange(rd[r], t, g, entries, head), Stumbling(rd[r], t, w, entries, head),
           Stored(w - 1, entries, file, reported)
    PROVE  Advances(rd'[r], lo, t, w, g)
<1> DEFINE d == rd[r]
           next == [d EXCEPT !.pc = "cmp", !.mode = "scan", !.hdr = Blank, !.buf = <<>>]
<1>1. LogInv /\ d \in Reader /\ d.end \in Nat /\ rd \in [Readers -> Reader]
  BY RingSize, ReaderFields DEF CollectorInv, ReaderTypes
<1>2. /\ d.mode = "print" /\ d.pc = "hdr" /\ d.at = 0 /\ d.i = 0 /\ d.task # "top" /\ d.task # "dump"
      /\ InTail(entries, head, w, t) /\ w \in 1..Len(entries) /\ t < Edge(entries, head, w)
  BY DEF Stumbling, InTail, InRange
<1>3. head \in Nat /\ Done \in Nat /\ w \in 1..Done /\ lo <= t /\ head < t + Size /\ w \in w..g
  <2>1. head \in Nat /\ Done \in 0..Len(entries) /\ Done \in Nat /\ Len(entries) \in Nat
    BY <1>1, TurnFacts
  <2>2. lo <= t
    BY <1>2
  <2> QED BY <1>2, <2>1, <2>2, RingSize
<1>4. ~IsHeader(getByte(mem, 0))
  <2> DEFINE at == 0
  <2>1. at \in Nat /\ t + at < Edge(entries, head, w)
    BY <1>2
  <2> HIDE DEF at
  <2>2. ~IsHeader(getByte(mem, at))
    BY <1>1, <1>2, <1>3, <2>1, TailCell
  <2> QED BY <2>2 DEF at
<1>5. /\ rd' = [rd EXCEPT ![r] = next] /\ WriteMessage(d, next) /\ file' = file
  <2>1. GetLogFailed(d) = next
    BY <1>2 DEF GetLogFailed, continueOnFailure
  <2>2. ReadHeader(r)
    BY <1>2 DEF Reading, ReadBody, ComparePattern
  <2> HIDE DEF next
  <2> QED BY <1>2, <1>4, <2>1, <2>2 DEF ReadHeader, Step
<1>6. /\ next.pc = "cmp" /\ next.mode = "scan" /\ next.i = 0 /\ next.at = 0 /\ next.task = d.task
      /\ next.end = d.end /\ next.rangeEnd = d.rangeEnd
  BY <1>1, <1>2 DEF Reader
<1>7. rd'[r] = next /\ reported' = reported
  BY <1>1, <1>2, <1>5 DEF WriteMessage
<1> HIDE DEF next
<1>8. InRange(next, t, g, entries, head)
  BY <1>6 DEF InRange
<1>9. Searching(next, t, w, entries, head)
  <2>1. Edge(entries, head, w) \in Nat
    BY <1>1, <1>2, TurnFacts, ChainAt
  <2>2. IF next.at < next.end
        THEN /\ t + next.at <= Edge(entries, head, w)
             /\ (next.pc # "cmp" => t + next.at = Edge(entries, head, w))
             /\ Matches(next, w + 1)
        ELSE t + next.end <= Edge(entries, head, w)
    <3>1. t + 0 <= Edge(entries, head, w)
      BY <1>2, <2>1
    <3>2. ~(0 < d.end) => d.end = 0
      BY <1>1
    <3> QED BY <1>6, <3>1, <3>2 DEF Matches
  <2> QED BY <1>2, <1>6, <2>2 DEF Searching, Looking
<1>10. lo <= t + next.i
  BY <1>3, <1>6
<1> QED BY <1>3, <1>5, <1>7, <1>8, <1>9, <1>10 DEF Advances, Collects, Looks

(* What any step of a search does: it reads on at its index, it moves on   *)
(* or gives up, or it has found an entry.                                  *)
Searches(d, next) ==
    \/ /\ next.pc \in Looking /\ next.task = d.task /\ next.mode = "scan" /\ next.i = d.i
       /\ next.end = d.end /\ next.at = d.at /\ next.rangeEnd = d.rangeEnd
       /\ \/ next.pc = "body"
          \/ d.pc = "cmp" /\ next.pc = "hdr" /\ IsHeader(getByte(mem, d.at))
    \/ next = SearchOn(d)
    \/ next = Realigned(d, d.at)

LEMMA ScanReads ==
    ASSUME CollectorInv, NEW r \in Readers, Reading(r), rd[r].mode = "scan", rd[r].pc \in Looking
    PROVE  \E next : /\ rd' = [rd EXCEPT ![r] = next] /\ WriteMessage(rd[r], next) /\ file' = file
                     /\ Searches(rd[r], next)
<1> DEFINE d == rd[r]
<1>1. d \in Reader
  BY DEF CollectorInv, ReaderTypes
<1>2. GetLogFailed(d) = SearchOn(d) /\ GetLogSucceeded(d) = Realigned(d, d.at)
  BY DEF GetLogFailed, GetLogSucceeded
<1>3. CASE ReadHeader(r)
  <2> DEFINE c == getByte(mem, d.at)
             more == [d EXCEPT !.pc = "body", !.hdr = c]
  <2>1. file' = file /\ (Step(r, more) \/ Step(r, SearchOn(d)))
    BY <1>2, <1>3 DEF ReadHeader
  <2>2. /\ more.pc = "body" /\ more.task = d.task /\ more.mode = "scan" /\ more.i = d.i
        /\ more.end = d.end /\ more.at = d.at /\ more.rangeEnd = d.rangeEnd
    BY <1>1 DEF Reader
  <2> HIDE DEF more
  <2>3. CASE Step(r, more)
    <3>1. Searches(d, more)
      BY <2>1, <2>2, <2>3 DEF Searches, Looking
    <3> QED BY <2>1, <2>3, <3>1 DEF Step
  <2>4. CASE Step(r, SearchOn(d))
    <3>1. Searches(d, SearchOn(d))
      BY DEF Searches
    <3> QED BY <2>1, <2>4, <3>1 DEF Step
  <2> QED BY <2>1, <2>3, <2>4
<1>4. CASE ReadBody(r)
  <2> DEFINE buf == Append(d.buf, getByte(mem, d.at + Len(d.buf)))
             more == [d EXCEPT !.buf = buf]
  <2>1. /\ file' = file /\ d.pc = "body"
        /\ Step(r, more) \/ Step(r, SearchOn(d)) \/ Step(r, Realigned(d, d.at))
    BY <1>2, <1>4 DEF ReadBody, WriteLine
  <2>2. /\ more.pc = "body" /\ more.task = d.task /\ more.mode = "scan" /\ more.i = d.i
        /\ more.end = d.end /\ more.at = d.at /\ more.rangeEnd = d.rangeEnd
    BY <1>1, <2>1 DEF Reader
  <2> HIDE DEF more
  <2>3. CASE Step(r, more)
    <3>1. Searches(d, more)
      BY <2>1, <2>2, <2>3 DEF Searches, Looking
    <3> QED BY <2>1, <2>3, <3>1 DEF Step
  <2>4. CASE Step(r, SearchOn(d))
    <3>1. Searches(d, SearchOn(d))
      BY DEF Searches
    <3> QED BY <2>1, <2>4, <3>1 DEF Step
  <2>5. CASE Step(r, Realigned(d, d.at))
    <3>1. Searches(d, Realigned(d, d.at))
      BY DEF Searches
    <3> QED BY <2>1, <2>5, <3>1 DEF Step
  <2> QED BY <2>1, <2>3, <2>4, <2>5
<1>5. CASE ComparePattern(r)
  <2> DEFINE more == [d EXCEPT !.pc = "hdr"]
  <2>1. /\ file' = file /\ d.pc = "cmp"
        /\ (Step(r, more) /\ IsHeader(getByte(mem, d.at))) \/ Step(r, SearchOn(d))
    BY <1>5 DEF ComparePattern
  <2>2. /\ more.pc = "hdr" /\ more.task = d.task /\ more.mode = "scan" /\ more.i = d.i
        /\ more.end = d.end /\ more.at = d.at /\ more.rangeEnd = d.rangeEnd
    BY <1>1 DEF Reader
  <2> HIDE DEF more
  <2>3. CASE Step(r, more) /\ IsHeader(getByte(mem, d.at))
    <3>1. Searches(d, more)
      BY <2>1, <2>2, <2>3 DEF Searches, Looking
    <3> QED BY <2>1, <2>3, <3>1 DEF Step
  <2>4. CASE Step(r, SearchOn(d))
    <3>1. Searches(d, SearchOn(d))
      BY DEF Searches
    <3> QED BY <2>1, <2>4, <3>1 DEF Step
  <2> QED BY <2>1, <2>3, <2>4
<1> QED BY <1>3, <1>4, <1>5 DEF Reading

LEMMA SearchesOn ==
    ASSUME NEW d \in Reader, NEW es \in Seq(Entry), NEW h \in Nat, NEW g, NEW t \in Nat, NEW w, NEW edge \in Nat,
           edge = Edge(es, h, w), InRange(d, t, g, es, h), InTail(es, h, w, t),
           d.mode = "scan", d.i = 0, d.task # "top", 0 < d.end,
           d.at < d.end => t + d.at + 1 <= edge,
           ~(d.at < d.end) => t + d.end <= edge,
           NEW next, next = SearchOn(d)
    PROVE  /\ InRange(next, t, g, es, h) /\ next.i = 0
           /\ Searching(next, t, w, es, h) \/ Stumbling(next, t, w, es, h)
<1>1. d.at \in Nat /\ d.end \in Nat
  BY RingSize, ReaderFields
<1>2. d.task \in {"only", "bottom"}
  BY DEF InRange
<1>3. CASE d.loop + 1 > Size
  <2>1. next = LoopAt(d, 0)
    <3>1. ~(0 > d.end)
      BY <1>1
    <3> QED BY <1>2, <1>3, <3>1 DEF SearchOn, Realigned, continueOnFailure, Proceed
  <2>2. /\ next.task = d.task /\ next.rangeEnd = d.rangeEnd /\ next.mode = "print"
        /\ next.pc = "hdr" /\ next.end = d.end /\ next.at = 0 /\ next.i = 0
    BY <2>1, LoopsAt
  <2> QED BY <2>2 DEF InRange, Stumbling
<1>4. CASE ~(d.loop + 1 > Size)
  <2>1. next = [d EXCEPT !.pc = "cmp", !.at = d.at + 1, !.loop = d.loop + 1, !.hdr = Blank, !.buf = <<>>]
    BY <1>4 DEF SearchOn
  <2>2. /\ next.task = d.task /\ next.rangeEnd = d.rangeEnd /\ next.mode = "scan"
        /\ next.pc = "cmp" /\ next.end = d.end /\ next.at = d.at + 1 /\ next.i = 0
    BY <2>1 DEF Reader
  <2>3. /\ d.at + 1 < d.end => t + (d.at + 1) <= edge
        /\ ~(d.at + 1 < d.end) => t + d.end <= edge
    <3> DEFINE at == d.at
               end == d.end
    <3>1. at \in Nat /\ end \in Nat /\ (at < end => t + at + 1 <= edge) /\ (~(at < end) => t + end <= edge)
      BY <1>1
    <3> HIDE DEF at, end
    <3>2. (at + 1 < end => t + (at + 1) <= edge) /\ (~(at + 1 < end) => t + end <= edge)
      BY <3>1
    <3> QED BY <3>2 DEF at, end
  <2>4. IF next.at < next.end
        THEN t + next.at <= edge /\ (next.pc # "cmp" => t + next.at = edge) /\ Matches(next, w + 1)
        ELSE t + next.end <= edge
    BY <2>2, <2>3 DEF Matches
  <2>5. Searching(next, t, w, es, h)
    BY <2>2, <2>4 DEF Searching, Looking
  <2>6. InRange(next, t, g, es, h)
    BY <2>2 DEF InRange
  <2> QED BY <2>2, <2>5, <2>6
<1> QED BY <1>3, <1>4

(* getNextHeader() looks for the entry behind the straddler; beyond the    *)
(* range it may find anything or nothing.                                  *)
LEMMA SearchingReads ==
    ASSUME OneProducer, CollectorInv, TurnRing, NEW r \in Readers, Reading(r),
           NEW g \in 0..Done, NEW w \in 0..g, NEW t \in Nat, normalize(t) = 0,
           NEW lo \in Nat, head < lo + Size, lo <= t + rd[r].i,
           InRange(rd[r], t, g, entries, head), Searching(rd[r], t, w, entries, head),
           Stored(w - 1, entries, file, reported)
    PROVE  Advances(rd'[r], lo, t, w, g)
<1> DEFINE d == rd[r]
           edge == Edge(entries, head, w)
           last == Edge(entries, head, g)
<1>1. /\ LogInv /\ d \in Reader /\ d.end \in Nat /\ d.at \in Nat /\ d.end <= Size /\ rd \in [Readers -> Reader]
      /\ entries \in Seq(Entry) /\ head \in Nat /\ Len(entries) \in Nat
      /\ Done \in Nat /\ Done \in 0..Len(entries) /\ Chained(entries, head)
  <2>1. LogInv /\ d \in Reader /\ rd \in [Readers -> Reader]
    BY DEF CollectorInv, ReaderTypes
  <2>2. d.end \in 0..Size /\ d.at \in Nat
    BY <2>1, ReaderFields
  <2> QED BY <2>1, <2>2, RingSize, TurnFacts
<1>2. /\ d.mode = "scan" /\ d.pc \in Looking /\ d.i = 0 /\ d.task \in {"only", "bottom"} /\ d.task # "top"
      /\ InTail(entries, head, w, t) /\ w \in 1..Len(entries) /\ t < edge /\ Across(entries[w])
      /\ t + d.end = last
      /\ d.at < d.end => /\ t + d.at <= edge /\ (d.pc # "cmp" => t + d.at = edge)
                         /\ Matches(d, w + 1)
      /\ ~(d.at < d.end) => t + d.end <= edge
  BY DEF Searching, InTail, InRange
<1>3. /\ w \in 1..Done /\ w \in 0..Len(entries) /\ g \in 0..Len(entries) /\ w \in Nat \ {0} /\ g \in Nat
      /\ lo <= t /\ head < t + Size /\ w \in w..g
  <2>1. lo <= t
    BY <1>2
  <2> QED BY <1>1, <1>2, <2>1, RingSize
<1>4. edge \in Nat /\ last \in Nat /\ edge <= last /\ 0 < d.end
  <2>1. edge \in Nat /\ last \in Nat /\ edge <= last
    BY <1>1, <1>3, EdgeOrder
  <2> HIDE DEF d, edge, last
  <2> QED BY <1>1, <1>2, <2>1
<1>5. PICK next : /\ rd' = [rd EXCEPT ![r] = next] /\ WriteMessage(d, next) /\ file' = file
                  /\ Searches(d, next)
  BY <1>2, ScanReads
<1>6. /\ rd'[r] = next /\ reported \subseteq reported'
      /\ (next.pc = "ret" \/ next.mode = "print") => "file" \in reported'
  BY <1>1, <1>2, <1>5 DEF WriteMessage, Stream
<1>7. file \in Seq(Nat) /\ Grown(file, file) /\ Grown(entries, entries)
  BY DEF CollectorInv, ReaderTypes, LogInv, RingTypes, Grown
<1>8. Stored(w - 1, entries, file', reported')
  <2> DEFINE n == w - 1
  <2>1. n \in Int /\ n <= Len(entries) /\ Stored(n, entries, file, reported)
    BY <1>1, <1>2
  <2> HIDE DEF n
  <2>2. Stored(n, entries, file, reported')
    BY <1>1, <1>6, <1>7, <2>1, StoredMore
  <2> QED BY <1>5, <2>2 DEF n
<1>9. ASSUME InRange(next, t, g, entries, head), next.i = 0,
             Searching(next, t, w, entries, head) \/ Stumbling(next, t, w, entries, head)
      PROVE  Advances(rd'[r], lo, t, w, g)
  <2>1. lo <= t + next.i
    BY <1>3, <1>9
  <2> QED BY <1>3, <1>5, <1>6, <1>8, <1>9, <2>1 DEF Advances, Collects, Looks
<1>10. ASSUME next = SearchOn(d), d.at < d.end => t + d.at # edge PROVE Advances(rd'[r], lo, t, w, g)
  <2>1. d.at < d.end => t + d.at + 1 <= edge
    <3> DEFINE at == d.at
               end == d.end
    <3>1. at \in Nat /\ end \in Nat /\ edge \in Nat /\ (at < end => t + at # edge /\ t + at <= edge)
      BY <1>1, <1>2, <1>4, <1>10
    <3> HIDE DEF at, end, edge
    <3>2. at < end => t + at + 1 <= edge
      BY <3>1
    <3> QED BY <3>2 DEF at, end
  <2> HIDE DEF d
  <2>2. /\ InRange(next, t, g, entries, head) /\ next.i = 0
        /\ Searching(next, t, w, entries, head) \/ Stumbling(next, t, w, entries, head)
    <3>1. InRange(d, t, g, entries, head)
      BY DEF d
    <3> QED BY <1>1, <1>2, <1>4, <1>10, <2>1, <3>1, SearchesOn
  <2> QED BY <1>9, <2>2
<1>11. CASE d.at < d.end /\ t + d.at = edge
  <2> DEFINE n == w + 1
  <2>1. n \in 1..Done /\ n \in 1..Len(entries) /\ n - 1 = w
    <3>1. edge < last
      <4> HIDE DEF d, edge, last
      <4> QED BY <1>1, <1>2, <1>4, <1>11
    <3>2. w < g
      BY <1>1, <1>3, <3>1, EdgeOrder
    <3> QED BY <1>1, <1>3, <3>2
  <2>2. entries[n].pos = edge /\ entries[n].len \in Nat /\ entries[n].len >= 2
    <3> HIDE DEF n
    <3>1. entries[n].pos = Edge(entries, head, n - 1) /\ entries[n].len \in Nat /\ entries[n].len >= 2
      BY <1>1, <2>1, ChainAt
    <3> QED BY <2>1, <3>1
  <2>3. \A k \in 0..(entries[n].len - 1) : getByte(mem, d.at + k) = CellOf(n, k)
    <3> DEFINE at == d.at
    <3>1. head <= entries[n].pos + Size /\ at \in Nat /\ t + at = entries[n].pos
      <4>1. head <= edge + Size
        <5> HIDE DEF edge
        <5> QED BY <1>1, <1>2, <1>3, <1>4, RingSize
      <4> QED BY <1>1, <1>11, <2>2, <4>1
    <3> HIDE DEF n, at
    <3>2. \A k \in 0..(entries[n].len - 1) : getByte(mem, at + k) = CellOf(n, k)
      BY <1>1, <2>1, <3>1, EntryThere
    <3> QED BY <3>2 DEF at
  <2>4. IsHeader(getByte(mem, d.at))
    <3>1. d.at + 0 = d.at /\ 0 \in 0..(entries[n].len - 1) /\ n # 0
      BY <1>1, <2>1, <2>2, SMTT(30)
    <3> HIDE DEF n
    <3>2. getByte(mem, d.at + 0) = CellOf(n, 0)
      BY <2>3, <3>1
    <3>3. getByte(mem, d.at) = CellOf(n, 0)
      BY <3>1, <3>2
    <3> HIDE DEF d
    <3> QED BY <3>1, <3>3 DEF IsHeader, CellOf
  <2>5. CASE d.pc = "cmp"
    <3>1. Step(r, [d EXCEPT !.pc = "hdr"])
      <4>1. ComparePattern(r)
        BY <2>5 DEF Reading, ReadHeader, ReadBody
      <4> QED BY <2>4, <4>1 DEF ComparePattern
    <3>2. rd'[r] = [d EXCEPT !.pc = "hdr"]
      BY <1>1, <3>1 DEF Step
    <3>3. /\ next.pc = "hdr" /\ next.task = d.task /\ next.mode = "scan" /\ next.i = 0
          /\ next.end = d.end /\ next.at = d.at /\ next.rangeEnd = d.rangeEnd
      BY <1>1, <1>2, <1>6, <3>2 DEF Reader
    <3>4. InRange(next, t, g, entries, head)
      BY <3>3 DEF InRange
    <3>5. Searching(next, t, w, entries, head)
      <4>1. t + next.at <= edge /\ t + next.at = edge /\ next.at < next.end
        BY <1>4, <1>11, <3>3
      <4> QED BY <1>2, <3>3, <4>1 DEF Searching, Matches, Looking
    <3> QED BY <1>9, <3>3, <3>4, <3>5
  <2>6. CASE d.pc # "cmp"
    <3>1. d.pc \in {"hdr", "body"} /\ Matches(d, n)
      BY <1>2, <1>11, <2>6 DEF Looking
    <3> HIDE DEF n
    <3>2. PICK other : /\ rd' = [rd EXCEPT ![r] = other]
                       /\ Onward(d, other, n) \/ Accepts(d, other, n)
      BY <2>1, <2>3, <3>1, ReadsWhole
    <3>3. other = next
      BY <1>1, <1>6, <3>2
    <3>4. CASE Onward(d, next, n)
      <4>1. InRange(next, t, g, entries, head) /\ next.i = 0
        BY <1>2, <3>4 DEF InRange, Onward
      <4>2. /\ next.pc = "body" /\ next.task = d.task /\ next.mode = "scan"
            /\ next.end = d.end /\ next.at = d.at /\ Matches(next, w + 1)
        BY <1>2, <3>4 DEF Onward, n
      <4>3. t + next.at <= edge /\ t + next.at = edge /\ next.at < next.end
        BY <1>4, <1>11, <4>2
      <4>4. Searching(next, t, w, entries, head)
        BY <1>2, <4>1, <4>2, <4>3 DEF Searching, Looking
      <4> QED BY <1>9, <4>1, <4>4
    <3>5. CASE Accepts(d, next, n)
      <4>1. next = LoopAt(d, d.at)
        <5>1. ~(d.at > d.end)
          BY <1>1, <1>11
        <5> QED BY <1>2, <3>5, <5>1 DEF Accepts, GetLogSucceeded, Realigned, continueOnFailure, Proceed
      <4>2. /\ next.task = d.task /\ next.rangeEnd = d.rangeEnd /\ next.mode = "print"
            /\ next.pc = "hdr" /\ next.end = d.end /\ next.at = d.at /\ next.i = d.at
        BY <1>11, <4>1, LoopsAt
      <4>3. InRange(next, t, g, entries, head) /\ Showing(next, t, w, entries, head)
        BY <1>11, <4>2 DEF InRange, Showing, Matches
      <4>4. Stored(w, entries, file', reported')
        BY <1>2, <1>3, <1>6, <1>8, <4>2, StoredStraddler
      <4>5. lo <= t + next.i
        <5> HIDE DEF d
        <5> QED BY <1>1, <1>3, <4>2
      <4> QED BY <1>3, <1>5, <1>6, <4>3, <4>4, <4>5 DEF Advances, Collects, Looks
    <3> QED BY <3>2, <3>3, <3>4, <3>5
  <2> QED BY <2>5, <2>6
<1>12. CASE d.at < d.end /\ t + d.at # edge
  <2>1. d.pc = "cmp" /\ ComparePattern(r)
    BY <1>2, <1>12 DEF Reading, ReadHeader, ReadBody
  <2>2. ~IsHeader(getByte(mem, d.at))
    <3> DEFINE at == d.at
    <3>1. at \in Nat /\ t + at < edge
      <4>1. at \in Nat /\ t + at <= edge /\ t + at # edge
        BY <1>1, <1>2, <1>12
      <4> HIDE DEF at, edge
      <4> QED BY <1>4, <4>1
    <3> HIDE DEF at
    <3>2. ~IsHeader(getByte(mem, at))
      BY <1>1, <1>2, <1>3, <3>1, TailCell
    <3> QED BY <3>2 DEF at
  <2>3. Step(r, SearchOn(d))
    BY <2>1, <2>2 DEF ComparePattern
  <2>4. next = SearchOn(d)
    BY <1>1, <1>6, <2>3 DEF Step
  <2> QED BY <1>10, <1>12, <2>4
<1>13. CASE ~(d.at < d.end)
  <2>1. edge = last /\ w = g
    <3>1. edge = last
      <4> HIDE DEF edge, last, d
      <4> QED BY <1>1, <1>2, <1>4, <1>13
    <3>2. g <= w
      BY <1>1, <1>3, <1>4, <3>1, EdgeOrder
    <3> QED BY <1>3, <3>1, <3>2
  <2>2. CASE next = SearchOn(d)
    BY <1>10, <1>13, <2>2
  <2>3. CASE /\ next.pc \in Looking /\ next.task = d.task /\ next.mode = "scan" /\ next.i = d.i
             /\ next.end = d.end /\ next.at = d.at /\ next.rangeEnd = d.rangeEnd
    <3>1. InRange(next, t, g, entries, head) /\ next.i = 0
      BY <1>2, <2>3 DEF InRange
    <3>2. Searching(next, t, w, entries, head)
      BY <1>2, <1>13, <2>3, <3>1 DEF Searching
    <3> QED BY <1>9, <3>1, <3>2
  <2>4. CASE next = Realigned(d, d.at)
    <3>1. next = Proceed(d, d.at)
      BY <1>2, <2>4 DEF Realigned, continueOnFailure
    <3>2. next.task = d.task /\ next.pc = "ret" /\ (next.ret = 0 \/ next.ret = d.end)
      <4>1. CASE d.at > d.end
        <5>1. next = Return(d, d.i)
          BY <3>1, <4>1 DEF Proceed
        <5> QED BY <1>2, <5>1, ReturnFields
      <4>2. CASE ~(d.at > d.end)
        <5>1. next = LoopAt(d, d.at) /\ d.at = d.end
          BY <1>1, <1>13, <3>1, <4>2 DEF Proceed
        <5> QED BY <1>13, <5>1, LoopsAt
      <4> QED BY <4>1, <4>2
    <3>3. Behind(entries, head, g, t + next.ret) /\ lo <= t + next.ret
      <4>1. CASE next.ret = 0
        BY <1>2, <1>3, <2>1, <4>1 DEF Behind
      <4>2. CASE next.ret = d.end
        BY <1>1, <1>2, <1>3, <4>2 DEF Behind
      <4> QED BY <3>2, <4>1, <4>2
    <3>4. AllDone(next, t, w, g, entries, head)
      BY <1>2, <2>1, <3>2, <3>3 DEF AllDone
    <3>5. Stored(g, entries, file', reported')
      BY <1>2, <1>3, <1>6, <1>8, <2>1, <3>2, StoredStraddler
    <3> QED BY <1>3, <1>5, <1>6, <3>3, <3>4, <3>5 DEF Advances, Collects
  <2> QED BY <1>5, <2>2, <2>3, <2>4 DEF Searches
<1> QED BY <1>11, <1>12, <1>13

LEMMA TurnReads ==
    ASSUME OneProducer, CollectorInv, TurnRing, AvoidsBoundary, NEW r \in Readers, Reading(r),
           NEW g \in 0..Done, NEW w \in 0..g, NEW t \in Nat, NEW lo \in Nat, head < lo + Size,
           Collects(rd[r], lo, t, w, g, entries, head, file, reported)
    PROVE  Advances(rd'[r], lo, t, w, g)
<1>1. rd[r].pc # "ret"
  BY DEF Reading, ReadHeader, ReadBody, ComparePattern
<1>2. /\ normalize(t) = 0 /\ InRange(rd[r], t, g, entries, head)
      /\ Looks(rd[r], t, w, entries, head, file, reported) /\ lo <= t + rd[r].i
  BY <1>1 DEF Collects, TopDone, AllDone
<1>3. CASE Showing(rd[r], t, w, entries, head) /\ Stored(w, entries, file, reported)
  BY <1>2, <1>3, ShowingReads
<1>4. CASE Stumbling(rd[r], t, w, entries, head) /\ Stored(w - 1, entries, file, reported)
  BY <1>2, <1>4, StumblingReads
<1>5. CASE Searching(rd[r], t, w, entries, head) /\ Stored(w - 1, entries, file, reported)
  BY <1>2, <1>5, SearchingReads
<1> QED BY <1>2, <1>3, <1>4, <1>5 DEF Looks

(* A reader that collects is where it was when entries are added behind    *)
(* it, and when another one writes lines.                                  *)
LEMMA TailExtended ==
    ASSUME NEW es \in Seq(Entry), NEW h, NEW fs, NEW k, Extended(es, h, fs, k), NEW n \in 0..Len(es), NEW x
    PROVE  /\ Edge(fs, k, n) = Edge(es, h, n)
           /\ InTail(es, h, n, x) => InTail(fs, k, n, x)
           /\ Behind(es, h, n, x) => Behind(fs, k, n, x)
<1>1. Edge(fs, k, n) = Edge(es, h, n)
  BY DEF Extended
<1>2. ASSUME InTail(es, h, n, x) PROVE InTail(fs, k, n, x)
  <2>1. n \in 1..Len(es) /\ Len(es) \in Nat /\ Len(es) <= Len(fs) /\ fs[n] = es[n]
    BY <1>2 DEF InTail, Extended, Grown
  <2>2. n \in 1..Len(fs)
    BY <2>1 DEF Extended, Grown
  <2> QED BY <1>1, <1>2, <2>1, <2>2 DEF InTail
<1> QED BY <1>1, <1>2 DEF Behind

LEMMA CollectsGrown ==
    ASSUME NEW es \in Seq(Entry), NEW h, NEW fs, NEW k, Extended(es, h, fs, k),
           NEW lines \in Seq(Nat), NEW more \in Seq(Nat), Grown(lines, more),
           NEW marks, NEW marked, marks \subseteq marked,
           NEW g \in 0..Len(es), NEW w \in 0..g, NEW t, NEW lo, NEW d,
           Collects(d, lo, t, w, g, es, h, lines, marks)
    PROVE  Collects(d, lo, t, w, g, fs, k, more, marked)
<1>1. w \in 0..Len(es) /\ w \in Int /\ g \in Int /\ w - 1 \in Int /\ Len(es) \in Nat
      /\ w <= Len(es) /\ w - 1 <= Len(es) /\ g <= Len(es) /\ Grown(es, fs)
  BY DEF Extended
<1>2. Edge(fs, k, w) = Edge(es, h, w) /\ Edge(fs, k, g) = Edge(es, h, g)
  BY <1>1, TailExtended
<1>3. /\ InTail(es, h, w, t) => InTail(fs, k, w, t)
      /\ InTail(es, h, w, t + Size) => InTail(fs, k, w, t + Size)
  BY <1>1, TailExtended
<1>4. /\ Stored(w, es, lines, marks) => Stored(w, fs, more, marked)
      /\ Stored(g, es, lines, marks) => Stored(g, fs, more, marked)
  BY <1>1, StoredMore
<1>5. Stored(w - 1, es, lines, marks) => Stored(w - 1, fs, more, marked)
  <2> DEFINE n == w - 1
  <2>1. n \in Int /\ n <= Len(es)
    BY <1>1
  <2> HIDE DEF n
  <2>2. Stored(n, es, lines, marks) => Stored(n, fs, more, marked)
    BY <1>1, <2>1, StoredMore
  <2> QED BY <2>2 DEF n
<1>6. InRange(d, t, g, es, h) => InRange(d, t, g, fs, k)
  BY <1>2 DEF InRange
<1>7. Looks(d, t, w, es, h, lines, marks) => Looks(d, t, w, fs, k, more, marked)
  <2>1. Showing(d, t, w, es, h) => Showing(d, t, w, fs, k)
    BY <1>2 DEF Showing
  <2>2. Stumbling(d, t, w, es, h) => Stumbling(d, t, w, fs, k)
    BY <1>3 DEF Stumbling
  <2>3. Searching(d, t, w, es, h) => Searching(d, t, w, fs, k)
    BY <1>2, <1>3 DEF Searching
  <2> QED BY <1>4, <1>5, <2>1, <2>2, <2>3 DEF Looks
<1>8. TopDone(d, t, w, g, es, h) => TopDone(d, t, w, g, fs, k)
  BY <1>2, <1>3 DEF TopDone
<1>9. AllDone(d, t, w, g, es, h) => AllDone(d, t, w, g, fs, k)
  <2> DEFINE x == t + d.ret
  <2> HIDE DEF x
  <2>1. Behind(es, h, g, x) => Behind(fs, k, g, x)
    BY TailExtended
  <2> QED BY <2>1 DEF AllDone, x
<1> QED BY <1>4, <1>5, <1>6, <1>7, <1>8, <1>9 DEF Collects

-----------------------------------------------------------------------------
(* collect() *)

(* A bookmark behind the f-th entry, and where the g-th entry ends *)
LEMMA MarkPlace ==
    ASSUME OneProducer, LogInv, TurnRing, NEW g \in 0..Done, NEW f \in 0..g, NEW m \in Nat,
           head < m + Size, Behind(entries, head, f, m)
    PROVE  /\ Edge(entries, head, f) \in Nat /\ Edge(entries, head, g) \in Nat
           /\ m <= Edge(entries, head, f) /\ Edge(entries, head, f) <= Edge(entries, head, g)
           /\ Edge(entries, head, g) <= head /\ Edge(entries, head, g) < m + Size
           /\ normalize(m) = normalize(Edge(entries, head, g)) => m = Edge(entries, head, g) /\ f = g
<1> DEFINE ef == Edge(entries, head, f)
           eg == Edge(entries, head, g)
<1>1. head \in Nat /\ Done \in Nat /\ Done \in 0..Len(entries) /\ Len(entries) \in Nat
  BY TurnFacts
<1>2. f \in 0..Len(entries) /\ g \in 0..Len(entries) /\ f <= g /\ f \in Nat /\ g \in Nat
  BY <1>1
<1>3. ef \in Nat /\ eg \in Nat /\ ef <= eg /\ eg <= head /\ (eg <= ef => g <= f)
  BY <1>1, <1>2, TurnFacts, EdgeOrder
<1>4. m <= ef
  BY <1>3 DEF Behind, InTail
<1> HIDE DEF ef, eg
<1>5. m <= eg /\ eg < m + Size
  BY <1>1, <1>3, <1>4, RingSize
<1>6. ASSUME normalize(m) = normalize(eg) PROVE m = eg /\ f = g
  <2>1. m = eg
    <3> SUFFICES ASSUME m # eg PROVE FALSE
      OBVIOUS
    <3>1. m < eg + Size /\ eg < m + Size
      BY <1>3, <1>5, RingSize
    <3> QED BY <1>3, <1>6, <3>1, CellApart
  <2> QED BY <1>2, <1>3, <1>4, <2>1
<1> QED BY <1>3, <1>4, <1>5, <1>6 DEF ef, eg

(* The last index of a range, and the loop over a range *)
LEMMA DecCell ==
    ASSUME NEW index \in 0..IndexMax, normalize(index) > 0
    PROVE  Dec(index) \in Nat /\ normalize(Dec(index)) + 1 = normalize(index)
<1> DEFINE q == index \div Size
           r == index % Size
           x == index - 1
           y == r - 1
<1>1. index \in Nat /\ r \in 0..(Size - 1) /\ q \in Nat /\ index = Size * q + r /\ r > 0
  BY RingSize, DivMod DEF normalize
<1>2. index # 0
  <2>1. normalize(0) = 0
    BY RingSize, BelowSize
  <2> QED BY <2>1
<1> HIDE DEF q, r
<1>3. x \in Nat /\ y \in Nat /\ y < Size /\ q \in Int /\ x = y + q * Size
  <2>1. Size * q = q * Size /\ q * Size \in Nat
    BY <1>1, RingSize
  <2> QED BY <1>1, <1>2, <2>1, RingSize
<1>4. Dec(index) = x
  BY <1>2 DEF Dec
<1> HIDE DEF x, y
<1>5. x % Size = y % Size /\ y % Size = y
  BY <1>3, RingSize, SameCell, WordReduced
<1>6. y + 1 = r
  BY <1>1 DEF y
<1> QED BY <1>3, <1>4, <1>5, <1>6 DEF normalize, r

LEMMA RangeOf ==
    ASSUME NEW d \in Reader, NEW task \in Tasks, NEW start \in Nat, NEW end \in Nat,
           NEW s \in Nat, s = normalize(start), NEW e \in Nat, e = normalize(end) + 1, s < e,
           NEW next, next = dumpRange([d EXCEPT !.task = task], start, end)
    PROVE  /\ next.task = task /\ next.rangeEnd = d.rangeEnd /\ next.mode = "print"
           /\ next.pc = "hdr" /\ next.end = e /\ next.at = s /\ next.i = s
<1> DEFINE d1 == [d EXCEPT !.task = task]
           d2 == [d1 EXCEPT !.end = e]
<1>1. d1 \in Reader /\ d1.task = task /\ d1.rangeEnd = d.rangeEnd
  BY DEF Reader
<1>2. d2.end = e /\ d2.task = task /\ d2.rangeEnd = d.rangeEnd
  BY <1>1 DEF Reader
<1>3. ~(s > e)
  OBVIOUS
<1> HIDE DEF d1
<1>4. next = LoopAt(d2, s)
  BY <1>3 DEF dumpRange, d1
<1> HIDE DEF d2
<1> QED BY <1>2, <1>4, LoopsAt

(* collect() starts at the bookmark, up to the last written index it read. *)
LEMMA SplitTurn ==
    ASSUME OneProducer, CollectorInv, TurnRing, AvoidsBoundary, NEW r \in Readers, CollectSplit(r),
           NEW g \in 0..Done, NEW f \in 0..g, NEW m \in 0..head, Marked(f, m),
           normalize(rd[r].rangeEnd) = normalize(Edge(entries, head, g))
    PROVE  /\ \E t \in 0..head : Collects(rd'[r], m, t, f, g, entries, head, file, reported)
           /\ UNCHANGED <<logVars, file, stdout, reported, collectVars>>
           /\ \E next : rd' = [rd EXCEPT ![r] = next]
<1> DEFINE d == rd[r]
           b == normalize(bookmark)
           e == normalize(d.rangeEnd)
           eg == Edge(entries, head, g)
           t == m - b
           next == IF b < e THEN dumpRange([d EXCEPT !.task = "only"], bookmark, Dec(d.rangeEnd))
                            ELSE dumpRange([d EXCEPT !.task = "top"], bookmark, Size - 1)
<1>1. /\ LogInv /\ d \in Reader /\ rd \in [Readers -> Reader] /\ d.rangeEnd \in 0..IndexMax
      /\ d.rangeEnd \in Nat /\ bookmark \in Nat /\ head \in Nat /\ m \in Nat /\ m <= head
  <2>1. LogInv /\ d \in Reader /\ rd \in [Readers -> Reader] /\ bookmark \in 0..IndexMax /\ head \in Nat
    BY DEF CollectorInv, ReaderTypes, ThreadTypes, LogInv, RingTypes
  <2> QED BY <2>1, ReaderFields, RingSize
<1>2. /\ b = normalize(m) /\ head < m + Size /\ Behind(entries, head, f, m)
      /\ Stored(f, entries, file, reported) /\ e = normalize(eg)
  BY DEF Marked
<1>3. /\ rd' = [rd EXCEPT ![r] = next] /\ b # e /\ rd'[r] = next
      /\ UNCHANGED <<logVars, file, stdout, reported, collectVars>>
  BY <1>1 DEF CollectSplit
<1>4. /\ eg \in Nat /\ m <= eg /\ eg <= head /\ eg < m + Size
  <2>1. /\ Edge(entries, head, f) \in Nat /\ eg \in Nat /\ m <= Edge(entries, head, f)
        /\ Edge(entries, head, f) <= eg /\ eg <= head /\ eg < m + Size
    BY <1>1, <1>2, MarkPlace
  <2> HIDE DEF eg
  <2> QED BY <1>1, <2>1
<1>5. /\ t \in Nat /\ normalize(t) = 0 /\ b \in Nat /\ b < Size /\ t + b = m /\ t \in 0..head
      /\ e \in Nat /\ e < Size
  <2>1. m - normalize(m) \in Nat /\ normalize(m - normalize(m)) = 0 /\ normalize(m) < Size /\ normalize(m) \in Nat
    BY <1>1, TurnOf, CellIs
  <2>2. e \in Nat /\ e < Size
    BY <1>1, TurnOf, CellIs
  <2> HIDE DEF e
  <2> QED BY <1>1, <1>2, <2>1, <2>2
<1>6. normalize(t + e) = e /\ normalize(t + Size + e) = e /\ t + e \in Nat /\ t + Size + e \in Nat
  <2>1. normalize(t + Size) = 0 /\ t + Size \in Nat
    BY <1>5, CellRound, RingSize
  <2> HIDE DEF t, e
  <2>2. normalize(t + e) = e
    BY <1>5, InTurn
  <2> DEFINE u == t + Size
  <2>3. u \in Nat /\ normalize(u) = 0
    BY <2>1
  <2> HIDE DEF u
  <2>4. normalize(u + e) = e
    BY <1>5, <2>3, InTurn
  <2> QED BY <1>5, <2>1, <2>2, <2>4 DEF u
<1>7. (g \in 1..Len(entries) /\ e # 0) \/ f = g
  <2> SUFFICES ASSUME f # g PROVE g \in 1..Len(entries) /\ e # 0
    OBVIOUS
  <2>1. g \in 1..Len(entries)
    BY <1>1, TurnFacts
  <2> QED BY <1>1, <1>2, <2>1, EndsInside
<1>8. m = Edge(entries, head, f) \/ (InTail(entries, head, f, m) /\ b = 0)
  BY <1>2 DEF Behind, InTail
<1>9. CASE b < e
  <2>1. next = dumpRange([d EXCEPT !.task = "only"], bookmark, Dec(d.rangeEnd))
    BY <1>9
  <2>2. Dec(d.rangeEnd) \in Nat /\ e = normalize(Dec(d.rangeEnd)) + 1 /\ "only" \in Tasks
    <3>1. normalize(d.rangeEnd) > 0
      BY <1>5, <1>9
    <3> QED BY <1>1, <3>1, DecCell DEF Tasks
  <2> HIDE DEF next, d, b, e
  <2>3. /\ next.task = "only" /\ next.rangeEnd = d.rangeEnd /\ next.mode = "print"
        /\ next.pc = "hdr" /\ next.end = e /\ next.at = b /\ next.i = b
    <3>1. b = normalize(bookmark)
      BY DEF b
    <3> DEFINE task == "only"
               last == Dec(d.rangeEnd)
    <3>2. task \in Tasks /\ last \in Nat /\ e = normalize(last) + 1
          /\ next = dumpRange([d EXCEPT !.task = task], bookmark, last)
      BY <2>1, <2>2
    <3> HIDE DEF task, last
    <3>3. /\ next.task = task /\ next.rangeEnd = d.rangeEnd /\ next.mode = "print"
          /\ next.pc = "hdr" /\ next.end = e /\ next.at = b /\ next.i = b
      BY <1>1, <1>5, <1>9, <3>1, <3>2, RangeOf
    <3> QED BY <3>3 DEF task
  <2>4. t + e = eg
    <3> SUFFICES ASSUME t + e # eg PROVE FALSE
      OBVIOUS
    <3> DEFINE x == t + e
    <3>1. x \in Nat /\ x < m + Size /\ m <= x
      BY <1>1, <1>5, <1>9, RingSize
    <3> HIDE DEF x, t, eg
    <3>2. x < eg + Size /\ eg < x + Size
      BY <1>1, <1>4, <3>1, RingSize
    <3>3. normalize(x) # normalize(eg)
      BY <1>4, <3>1, <3>2, CellApart DEF x
    <3> QED BY <1>2, <1>6, <3>3 DEF x
  <2>5. InRange(next, t, g, entries, head)
    BY <1>2, <2>3, <2>4 DEF InRange, e
  <2>6. Looks(next, t, f, entries, head, file, reported)
    <3>1. CASE m = Edge(entries, head, f)
      <4>1. Showing(next, t, f, entries, head)
        BY <1>5, <1>9, <2>3, <3>1 DEF Showing, Matches
      <4> QED BY <1>2, <4>1 DEF Looks
    <3>2. CASE InTail(entries, head, f, m) /\ b = 0
      <4>1. Stumbling(next, t, f, entries, head)
        BY <1>1, <2>3, <3>2 DEF Stumbling
      <4>2. Stored(f - 1, entries, file, reported)
        BY <1>1, <1>2, <3>2, TurnFacts DEF Stored, InTail
      <4> QED BY <4>1, <4>2 DEF Looks
    <3> QED BY <1>8, <3>1, <3>2
  <2>7. m <= t + next.i
    BY <1>1, <1>5, <2>3
  <2> HIDE DEF t
  <2> QED BY <1>3, <1>5, <2>5, <2>6, <2>7 DEF Collects
<1>10. CASE ~(b < e)
  <2>1. b > e /\ next = dumpRange([d EXCEPT !.task = "top"], bookmark, Size - 1)
    BY <1>3, <1>5, <1>10
  <2>2. Size - 1 \in Nat /\ Size = normalize(Size - 1) + 1 /\ "top" \in Tasks /\ Size \in Nat
    <3>1. Size - 1 \in Nat /\ Size - 1 < Size
      BY RingSize
    <3>2. normalize(Size - 1) = Size - 1
      BY <3>1, BelowSize
    <3> QED BY <3>1, <3>2, RingSize DEF Tasks
  <2> HIDE DEF next, d, b, e
  <2>3. /\ next.task = "top" /\ next.rangeEnd = d.rangeEnd /\ next.mode = "print"
        /\ next.pc = "hdr" /\ next.end = Size /\ next.at = b /\ next.i = b
    <3>1. b = normalize(bookmark)
      BY DEF b
    <3> DEFINE task == "top"
               last == Size - 1
    <3>2. task \in Tasks /\ last \in Nat /\ Size = normalize(last) + 1
          /\ next = dumpRange([d EXCEPT !.task = task], bookmark, last)
      BY <2>1, <2>2
    <3> HIDE DEF task, last
    <3>3. /\ next.task = task /\ next.rangeEnd = d.rangeEnd /\ next.mode = "print"
          /\ next.pc = "hdr" /\ next.end = Size /\ next.at = b /\ next.i = b
      BY <1>1, <1>5, <2>2, <3>1, <3>2, RangeOf
    <3> QED BY <3>3 DEF task
  <2>4. t + Size + e = eg
    <3> SUFFICES ASSUME t + Size + e # eg PROVE FALSE
      OBVIOUS
    <3> DEFINE x == t + Size + e
    <3>1. x \in Nat /\ x < m + Size /\ m <= x
      BY <1>1, <1>5, <2>1, RingSize
    <3> HIDE DEF x, t, eg
    <3>2. x < eg + Size /\ eg < x + Size
      BY <1>1, <1>4, <3>1, RingSize
    <3>3. normalize(x) # normalize(eg)
      BY <1>4, <3>1, <3>2, CellApart DEF x
    <3> QED BY <1>2, <1>6, <3>3 DEF x
  <2>5. m = Edge(entries, head, f)
    BY <1>5, <1>8, <2>1
  <2>6. e # 0
    <3> SUFFICES ASSUME f = g PROVE FALSE
      BY <1>7
    <3>1. m = eg
      BY <2>5
    <3> QED BY <1>2, <1>3, <3>1 DEF b, e
  <2>7. InRange(next, t, g, entries, head)
    <3>1. t + Size < eg
      <4> HIDE DEF t, eg
      <4> QED BY <1>5, <2>2, <2>4, <2>6
    <3> QED BY <1>2, <2>3, <3>1 DEF InRange, e
  <2>8. Looks(next, t, f, entries, head, file, reported)
    <3>1. Showing(next, t, f, entries, head)
      BY <1>5, <2>3, <2>5 DEF Showing, Matches
    <3> QED BY <1>2, <3>1 DEF Looks
  <2>9. m <= t + next.i
    BY <1>1, <1>5, <2>3
  <2> HIDE DEF t
  <2> QED BY <1>3, <1>5, <2>7, <2>8, <2>9 DEF Collects
<1> QED BY <1>3, <1>9, <1>10

(* The top of the ring is done: the bottom begins in the tail of the       *)
(* straddler.                                                              *)
LEMMA BottomTurn ==
    ASSUME OneProducer, CollectorInv, TurnRing, NEW r \in Readers, CollectBottom(r),
           NEW g \in 0..Done, NEW w \in 0..g, NEW t \in Nat, NEW lo \in Nat, head < lo + Size,
           Collects(rd[r], lo, t, w, g, entries, head, file, reported)
    PROVE  \E u \in 0..head : Collects(rd'[r], lo, u, w, g, entries, head, file, reported)
<1> DEFINE d == rd[r]
           e == normalize(d.rangeEnd)
           eg == Edge(entries, head, g)
           u == t + Size
           next == dumpRange([d EXCEPT !.task = "bottom"], 0, Dec(d.rangeEnd))
<1>1. /\ LogInv /\ d \in Reader /\ rd \in [Readers -> Reader] /\ d.rangeEnd \in 0..IndexMax
      /\ d.rangeEnd \in Nat /\ head \in Nat
  <2>1. LogInv /\ d \in Reader /\ rd \in [Readers -> Reader] /\ head \in Nat
    BY DEF CollectorInv, ReaderTypes, LogInv, RingTypes
  <2> QED BY <2>1, ReaderFields, RingSize
<1>2. d.pc = "ret" /\ d.task = "top" /\ rd' = [rd EXCEPT ![r] = next] /\ rd'[r] = next
  BY <1>1 DEF CollectBottom
<1>3. /\ normalize(t) = 0 /\ InTail(entries, head, w, u) /\ e = normalize(eg) /\ u < eg /\ lo <= u
      /\ Stored(w - 1, entries, file, reported)
  BY <1>2 DEF Collects, Looks, Showing, Stumbling, Searching, Looking, TopDone, AllDone
<1>4. eg \in Nat /\ eg <= head /\ u \in Nat /\ normalize(u) = 0 /\ Size \in Nat
  <2>1. g \in 0..Len(entries)
    BY <1>1, TurnFacts
  <2>2. eg \in Nat /\ eg <= head
    BY <1>1, <2>1, TurnFacts, EdgeOrder
  <2> QED BY <1>3, <2>2, RingSize, CellRound
<1> HIDE DEF u, eg
<1>5. u \in 0..head /\ eg < u + Size
  BY <1>1, <1>3, <1>4
<1>6. u + e = eg /\ e > 0 /\ e \in Nat
  <2> DEFINE i == eg - u
  <2>1. i \in Nat /\ i < Size /\ u + i = eg /\ i > 0
    BY <1>3, <1>4, <1>5
  <2> HIDE DEF i
  <2>2. normalize(u + i) = i
    BY <1>4, <2>1, InTurn
  <2> HIDE DEF e
  <2> QED BY <1>3, <2>1, <2>2
<1>7. /\ next.task = "bottom" /\ next.rangeEnd = d.rangeEnd /\ next.mode = "print"
      /\ next.pc = "hdr" /\ next.end = e /\ next.at = 0 /\ next.i = 0
  <2> DEFINE task == "bottom"
             last == Dec(d.rangeEnd)
             zero == 0
  <2>1. task \in Tasks /\ last \in Nat /\ e = normalize(last) + 1 /\ zero \in Nat /\ zero = normalize(zero)
        /\ zero < e /\ next = dumpRange([d EXCEPT !.task = task], zero, last)
    <3>1. normalize(0) = 0
      BY RingSize, BelowSize
    <3>2. Dec(d.rangeEnd) \in Nat /\ normalize(Dec(d.rangeEnd)) + 1 = e
      BY <1>1, <1>6, DecCell
    <3> QED BY <1>6, <3>1, <3>2 DEF Tasks
  <2> HIDE DEF task, last, zero, next, e, d
  <2>2. /\ next.task = task /\ next.rangeEnd = d.rangeEnd /\ next.mode = "print"
        /\ next.pc = "hdr" /\ next.end = e /\ next.at = zero /\ next.i = zero
    BY <1>1, <1>6, <2>1, RangeOf
  <2> QED BY <2>2 DEF task, zero
<1> HIDE DEF next
<1>8. InRange(next, u, g, entries, head)
  BY <1>3, <1>6, <1>7 DEF InRange, eg
<1>9. Stumbling(next, u, w, entries, head)
  BY <1>3, <1>7 DEF Stumbling
<1>10. lo <= u + next.i
  BY <1>3, <1>4, <1>7
<1> QED BY <1>2, <1>3, <1>4, <1>5, <1>8, <1>9, <1>10 DEF Collects, Looks

(* collect() ends with the bookmark behind the last entry of its range. *)
LEMMA ReturnTurn ==
    ASSUME OneProducer, CollectorInv, TurnRing, NEW r \in Readers, CollectReturn(r),
           NEW g \in 0..Done, NEW w \in 0..g, NEW t \in Nat, NEW lo \in Nat, head < lo + Size,
           Collects(rd[r], lo, t, w, g, entries, head, file, reported)
    PROVE  /\ w = g
           /\ \E m \in 0..head : /\ normalize(bookmark') = normalize(m) /\ head < m + Size
                                 /\ Behind(entries, head, g, m) /\ Stored(g, entries, file, reported)
<1> DEFINE d == rd[r]
           m == t + d.ret
<1>1. LogInv /\ d \in Reader /\ d.ret \in Nat /\ head \in Nat
  BY ReaderFields DEF CollectorInv, ReaderTypes, LogInv, RingTypes
<1>2. d.pc = "ret" /\ d.task \in {"only", "bottom"} /\ bookmark' = d.ret
  BY DEF CollectReturn, SetBookmark
<1>3. /\ normalize(t) = 0 /\ w = g /\ Behind(entries, head, g, m) /\ lo <= m
      /\ Stored(g, entries, file, reported)
  BY <1>2 DEF Collects, Looks, Showing, Stumbling, Searching, Looking, TopDone, AllDone
<1>4. normalize(bookmark') = normalize(m) /\ m \in Nat
  BY <1>1, <1>2, <1>3, SameTurn
<1> HIDE DEF m
<1>5. head < m + Size
  BY <1>1, <1>3, <1>4, RingSize
<1>6. m <= head
  <2>1. g \in 0..g /\ g \in Nat
    BY <1>1, TurnFacts
  <2>2. Edge(entries, head, g) \in Nat /\ m <= Edge(entries, head, g) /\ Edge(entries, head, g) <= head
    BY <1>1, <1>3, <1>4, <1>5, <2>1, MarkPlace
  <2> QED BY <1>1, <1>4, <2>2
<1> QED BY <1>1, <1>3, <1>4, <1>5, <1>6

LEMMA EmptyTurn ==
    ASSUME OneProducer, CollectorInv, TurnRing, NEW r \in Readers, CollectEmpty(r),
           NEW g \in 0..Done, NEW f \in 0..g, NEW m \in 0..head, Marked(f, m),
           normalize(rd[r].rangeEnd) = normalize(Edge(entries, head, g))
    PROVE  f = g /\ normalize(bookmark') = normalize(m)
<1>1. LogInv /\ m \in Nat
  BY DEF CollectorInv, LogInv, RingTypes
<1>2. /\ normalize(bookmark) = normalize(m) /\ head < m + Size /\ Behind(entries, head, f, m)
      /\ normalize(bookmark) = normalize(rd[r].rangeEnd) /\ bookmark' = rd[r].rangeEnd
  BY DEF Marked, CollectEmpty, SetBookmark
<1> QED BY <1>1, <1>2, MarkPlace

-----------------------------------------------------------------------------
(* The thread that logs stays less than a turn ahead of the bookmark. *)
LEMMA Remainder ==
    ASSUME NEW S \in Nat \ {0}, NEW z \in Int, NEW x \in Nat, x < S, NEW k \in Int, z = x + k * S
    PROVE  z % S = x
<1> DEFINE q == z \div S
           y == z % S
<1>1. y \in 0..(S - 1) /\ q \in Int /\ z = S * q + y
  BY Z3
<1> HIDE DEF q, y
<1>2. x - y = (q - k) * S /\ x - y > 0 - S /\ x - y < S
  <2>1. (q - k) * S = S * q - k * S /\ S * q \in Int /\ k * S \in Int
    BY <1>1
  <2> QED BY <1>1, <2>1
<1>3. q - k = 0
  BY <1>1, <1>2, MultipleIsZero
<1>4. y = x
  BY <1>1, <1>2, <1>3
<1> QED BY <1>4 DEF y

LEMMA LagIs ==
    ASSUME CollectorInv, TurnRing, NEW m \in 0..head, normalize(bookmark) = normalize(m), head < m + Size
    PROVE  Lag = head - m
<1> DEFINE qa == currentIndex \div Size
           qh == head \div Size
           qb == bookmark \div Size
           qm == m \div Size
           ra == currentIndex % Size
           rb == bookmark % Size
           k == (qa - qh) - (qb - qm)
           x == head - m
           z == currentIndex - bookmark
<1>1. /\ currentIndex \in Nat /\ head \in Nat /\ bookmark \in Nat /\ m \in Nat
      /\ normalize(currentIndex) = normalize(head)
  BY RingSize DEF CollectorInv, LogInv, RingTypes, ThreadTypes, TurnRing, Folded
<1>2. ra \in 0..(Size - 1) /\ qa \in Nat /\ currentIndex = Size * qa + ra
  BY <1>1, RingSize, DivMod
<1>3. qh \in Nat /\ head = Size * qh + ra
  BY <1>1, RingSize, DivMod DEF normalize
<1>4. rb \in 0..(Size - 1) /\ qb \in Nat /\ bookmark = Size * qb + rb
  BY <1>1, RingSize, DivMod
<1>5. qm \in Nat /\ m = Size * qm + rb
  BY <1>1, RingSize, DivMod DEF normalize
<1> HIDE DEF qa, qh, qb, qm, ra, rb
<1> DEFINE ta == Size * qa
           th == Size * qh
           tb == Size * qb
           tm == Size * qm
<1>6. /\ k \in Int /\ ta \in Int /\ th \in Int /\ tb \in Int /\ tm \in Int /\ k * Size \in Int
      /\ k * Size = (ta - th) - (tb - tm)
  <2> DEFINE u == qa - qh
             v == qb - qm
  <2>1. u \in Int /\ v \in Int /\ u * Size = ta - th /\ v * Size = tb - tm
    BY <1>2, <1>3, <1>4, <1>5, RingSize
  <2>2. ta \in Int /\ th \in Int /\ tb \in Int /\ tm \in Int
    BY <1>2, <1>3, <1>4, <1>5, RingSize
  <2> HIDE DEF u, v, ta, th, tb, tm
  <2>3. (u - v) * Size = u * Size - v * Size /\ u - v \in Int /\ (u - v) * Size \in Int
    BY <2>1, RingSize
  <2>4. k = u - v
    BY DEF u, v
  <2> QED BY <2>1, <2>2, <2>3, <2>4
<1> HIDE DEF k, ta, th, tb, tm
<1>7. x \in Nat /\ x < Size /\ z \in Int /\ z = x + k * Size
  <2>1. currentIndex = ta + ra /\ head = th + ra /\ bookmark = tb + rb /\ m = tm + rb
    BY <1>2, <1>3, <1>4, <1>5 DEF ta, th, tb, tm
  <2>2. z = x + ((ta - th) - (tb - tm))
    <3>1. ra \in Int /\ rb \in Int
      BY <1>2, <1>4, RingSize
    <3> QED BY <1>6, <2>1, <3>1
  <2> QED BY <1>1, <1>6, <2>2, RingSize
<1> HIDE DEF x, z
<1>8. z % Size = x
  BY <1>6, <1>7, RingSize, Remainder
<1> QED BY <1>8 DEF Lag, x, z

-----------------------------------------------------------------------------
(* Steps that leave the log alone *)
LEMMA TurnKept ==
    ASSUME UNCHANGED logVars
    PROVE  /\ TurnRing => TurnRing'
           /\ TurnLast => TurnLast'
           /\ Done' = Done /\ entries' = entries /\ head' = head /\ mem' = mem /\ published' = published
           /\ AvoidsBoundary' <=> AvoidsBoundary
<1>1. /\ mem' = mem /\ currentIndex' = currentIndex /\ lastWritten' = lastWritten /\ prod' = prod
      /\ entries' = entries /\ published' = published /\ head' = head
  BY DEF logVars
<1>2. Writer' = Writer /\ Done' = Done
  BY <1>1 DEF Writer, Done, DoneOf
<1>3. TurnRing => TurnRing'
  BY <1>1, <1>2 DEF TurnRing
<1>4. TurnLast => TurnLast'
  BY <1>1, <1>2 DEF TurnLast
<1>5. AvoidsBoundary' <=> AvoidsBoundary
  BY <1>1 DEF AvoidsBoundary, EndsAtBoundary
<1> QED BY <1>1, <1>2, <1>3, <1>4, <1>5

LEMMA NothingExtended ==
    ASSUME NEW es \in Seq(Entry), NEW h \in Nat
    PROVE  Extended(es, h, es, h)
  BY DEF Extended, Grown

(* getLog() has ended: the reader is not in the middle of an entry. *)
LEMMA NotInBody ==
    ASSUME NEW d \in Reader
    PROVE  GetLogFailed(d).pc # "body" /\ GetLogSucceeded(d).pc # "body"
<1>1. \A i : LoopAt(d, i).pc # "body"
  BY LoopsAt
<1>2. \A i : Return(d, i).pc # "body"
  BY ReturnFields
<1>3. \A i : Proceed(d, i).pc # "body"
  BY <1>1, <1>2 DEF Proceed
<1>4. \A i : Realigned(d, i).pc # "body"
  BY <1>2, <1>3 DEF Realigned
<1>5. SearchOn(d).pc # "body"
  <2>1. [d EXCEPT !.pc = "cmp", !.at = d.at + 1, !.loop = d.loop + 1, !.hdr = Blank, !.buf = <<>>].pc = "cmp"
    BY DEF Reader
  <2> QED BY <1>2, <1>4, <2>1 DEF SearchOn
<1>6. GetLogFailed(d).pc # "body"
  <2>1. [d EXCEPT !.pc = "hdr", !.tries = d.tries + 1, !.hdr = Blank, !.buf = <<>>].pc = "hdr"
    BY DEF Reader
  <2>2. [d EXCEPT !.pc = "cmp", !.mode = "scan", !.hdr = Blank, !.buf = <<>>].pc = "cmp"
    BY DEF Reader
  <2> QED BY <1>5, <2>1, <2>2 DEF GetLogFailed
<1>7. GetLogSucceeded(d).pc # "body"
  <2>1. d.mode = "print" \/ d.mode = "scan" \/ d.mode = "first"
    BY ReaderFields DEF Modes
  <2> QED BY <1>2, <1>3, <1>4, <2>1 DEF GetLogSucceeded
<1> QED BY <1>6, <1>7

(* A reader of a ring that nobody writes to accepts only whole entries. *)
LEMMA QuietReads ==
    ASSUME OneProducer, CollectorInv, TurnRing, NEW r \in Readers, Reading(r),
           WholeRead(rd[r], entries, mem),
           rd[r].task \notin {"first", "dump"} => Writer.pc # "copy"
    PROVE  /\ WholeRead(rd'[r], entries, mem)
           /\ file' = file \/ (rd[r].task \notin {"first", "dump"} /\ \E n \in 1..Len(entries) : file' = Append(file, n))
<1> DEFINE d == rd[r]
           d1 == rd'[r]
<1>1. LogInv /\ d \in Reader /\ d.at \in Nat /\ rd \in [Readers -> Reader] /\ GoodReader(d, entries)
  BY ReaderFields DEF CollectorInv, ReaderTypes
<1>2. CASE ReadHeader(r)
  <2> DEFINE c == getByte(mem, d.at)
             more == [d EXCEPT !.pc = "body", !.hdr = c]
  <2>1. /\ file' = file /\ d.pc = "hdr"
        /\ rd' = [rd EXCEPT ![r] = IF IsHeader(c) THEN more ELSE GetLogFailed(d)]
    BY <1>2 DEF ReadHeader, Step
  <2>2. CASE ~IsHeader(c)
    <3>1. d1 = GetLogFailed(d)
      BY <1>1, <2>1, <2>2
    <3> QED BY <1>1, <2>1, <3>1, NotInBody DEF WholeRead
  <2>3. CASE IsHeader(c)
    <3>1. d1 = more
      BY <1>1, <2>1, <2>3
    <3>2. more.hdr = c /\ more.task = d.task /\ more.at = d.at /\ more.buf = d.buf
      BY <1>1 DEF Reader
    <3>3. d.buf = <<>>
      BY <1>1, <2>1 DEF GoodReader
    <3> HIDE DEF more, d1
    <3>4. ASSUME d1.task \notin {"first", "dump"} PROVE WholeRead(d1, entries, mem)
      <4> DEFINE n == c.entry
      <4>1. Writer.pc # "copy"
        BY <3>1, <3>2, <3>4
      <4>2. c = CellOf(n, 0) /\ \A k \in 0..(entries[n].len - 1) : mem[normalize(d.at + k)] = CellOf(n, k)
        <5> HIDE DEF d
        <5> QED BY <1>1, <2>3, <4>1, CleanHeader
      <4> HIDE DEF c
      <4> QED BY <3>1, <3>2, <3>3, <4>2 DEF WholeRead, Matches
    <3> QED BY <2>1, <3>4 DEF WholeRead, d1
  <2> QED BY <2>2, <2>3
<1>3. CASE ReadBody(r) /\ ~(d.mode = "print" /\ d.task \notin {"first", "dump"})
  <2> DEFINE buf == Append(d.buf, getByte(mem, d.at + Len(d.buf)))
             more == [d EXCEPT !.buf = buf]
  <2>1. Step(r, more) \/ Step(r, GetLogFailed(d)) \/ Step(r, GetLogSucceeded(d))
    BY <1>3 DEF ReadBody
  <2>2. d1 = more \/ d1 = GetLogFailed(d) \/ d1 = GetLogSucceeded(d)
    BY <1>1, <2>1 DEF Step
  <2>3. more.mode = d.mode /\ more.task = d.task
    BY <1>1 DEF Reader
  <2>4. file' = file
    <3>1. d.mode = "print" => Stream(d) # "file"
      <4>1. d.mode = "print" => d.task # "first"
        BY <1>1, <1>3 DEF GoodReader, ReadBody, Looking
      <4> QED BY <1>3, <4>1 DEF Stream
    <3> QED BY <1>3, <3>1 DEF ReadBody, WriteLine
  <2> HIDE DEF more, d1
  <2>5. WholeRead(d1, entries, mem)
    BY <1>1, <1>3, <2>2, <2>3, NotInBody DEF WholeRead
  <2> QED BY <2>4, <2>5 DEF d1
<1>4. CASE ReadBody(r) /\ d.mode = "print" /\ d.task \notin {"first", "dump"}
  <2> DEFINE n == d.hdr.entry
  <2>1. d.pc = "body" /\ n \in 1..Len(entries)
    BY <1>1, <1>4 DEF ReadBody, GoodReader
  <2>2. Matches(d, n) /\ \A k \in 0..(entries[n].len - 1) : getByte(mem, d.at + k) = CellOf(n, k)
    BY <1>4, <2>1 DEF WholeRead, getByte
  <2> HIDE DEF n
  <2>3. PICK next : /\ rd' = [rd EXCEPT ![r] = next]
                    /\ (Onward(d, next, n) /\ file' = file) \/ Accepts(d, next, n)
    BY <2>1, <2>2, ReadsWhole
  <2>4. d1 = next
    BY <1>1, <2>3
  <2>5. CASE Onward(d, next, n) /\ file' = file
    <3>1. next.hdr.entry = n
      BY <2>5 DEF Onward, Matches, CellOf
    <3>2. WholeRead(next, entries, mem)
      BY <2>2, <2>5, <3>1 DEF WholeRead, Onward, getByte
    <3> QED BY <2>4, <2>5, <3>2
  <2>6. CASE Accepts(d, next, n)
    <3>1. WholeRead(next, entries, mem)
      BY <1>1, <2>6, NotInBody DEF WholeRead, Accepts
    <3> QED BY <1>4, <2>1, <2>4, <2>6, <3>1 DEF Accepts
  <2> QED BY <2>3, <2>5, <2>6
<1>5. CASE ComparePattern(r)
  <2> DEFINE more == [d EXCEPT !.pc = "hdr"]
             on == SearchOn(d)
  <2>1. file' = file /\ d.pc = "cmp" /\ (d1 = more \/ d1 = on)
    BY <1>1, <1>5 DEF ComparePattern, Step
  <2>2. more.pc # "body"
    BY <1>1 DEF Reader
  <2>3. d.mode # "print" => GetLogFailed(d) = on
    BY DEF GetLogFailed
  <2>4. d.mode = "print" => on.pc # "body"
    <3>1. CASE d.loop + 1 > Size
      BY <3>1, ReturnFields DEF SearchOn
    <3>2. CASE ~(d.loop + 1 > Size)
      BY <1>1, <3>2 DEF SearchOn, Reader
    <3> QED BY <3>1, <3>2
  <2> HIDE DEF more, on, d1
  <2>5. d1.pc # "body"
    BY <1>1, <2>1, <2>2, <2>3, <2>4, NotInBody
  <2> QED BY <2>1, <2>5 DEF WholeRead, d1
<1> QED BY <1>2, <1>3, <1>4, <1>5 DEF Reading

-----------------------------------------------------------------------------
(* A reader that collects has nothing but the entry it is at. *)
LEMMA CollectsWhole ==
    ASSUME OneProducer, CollectorInv, TurnRing, NEW r \in Readers,
           NEW g \in 0..Done, NEW w \in 0..g, NEW t \in Nat, NEW lo \in Nat, head < lo + Size,
           Collects(rd[r], lo, t, w, g, entries, head, file, reported)
    PROVE  WholeRead(rd[r], entries, mem)
<1> DEFINE d == rd[r]
           n == w + 1
           last == Edge(entries, head, g)
<1> SUFFICES ASSUME d.pc = "body", d.mode = "print"
             PROVE  /\ Matches(d, d.hdr.entry)
                    /\ \A k \in 0..(entries[d.hdr.entry].len - 1) :
                          mem[normalize(d.at + k)] = CellOf(d.hdr.entry, k)
  BY DEF WholeRead
<1>1. /\ LogInv /\ d \in Reader /\ d.i \in Nat /\ d.end \in Nat /\ d.end <= Size
  BY RingSize, ReaderFields DEF CollectorInv, ReaderTypes
<1>2. head \in Nat /\ Done \in Nat /\ Done \in 0..Len(entries) /\ Len(entries) \in Nat /\ Size \in Nat
  BY <1>1, TurnFacts, RingSize
<1>3. /\ normalize(t) = 0 /\ InRange(d, t, g, entries, head) /\ Showing(d, t, w, entries, head)
      /\ lo <= t + d.i
  BY DEF Collects, Looks, Stumbling, Searching, TopDone, AllDone
<1>4. /\ d.at = d.i /\ d.i < d.end /\ t + d.i = Edge(entries, head, w) /\ Matches(d, n)
  BY <1>3 DEF Showing
<1>5. /\ d.task = "top" => d.end = Size /\ t + Size < last
      /\ d.task # "top" => d.task \in {"only", "bottom"} /\ t + d.end = last
  BY <1>3 DEF InRange
<1>6. last \in Nat /\ w < g
  <2>1. w \in 0..Len(entries) /\ g \in 0..Len(entries)
    BY <1>2
  <2>2. last \in Nat /\ last <= head
    BY <1>1, <1>2, <2>1, TurnFacts, EdgeOrder
  <2>3. Edge(entries, head, w) < last
    <3> HIDE DEF d, last
    <3> QED BY <1>1, <1>2, <1>4, <1>5, <2>2
  <2> QED BY <1>1, <1>2, <2>1, <2>2, <2>3, TurnFacts, EdgeOrder
<1>7. n \in 1..Done /\ n \in 1..Len(entries) /\ n - 1 = w
  BY <1>2, <1>6
<1>8. entries[n].pos = t + d.i
  <2>1. entries[n].pos = Edge(entries, head, n - 1)
    BY <1>1, <1>7, TurnFacts, ChainAt
  <2> QED BY <1>4, <1>7, <2>1
<1>9. head <= entries[n].pos + Size
  <2> DEFINE pos == entries[n].pos
  <2>1. pos = t + d.i
    BY <1>8
  <2> HIDE DEF pos, d
  <2> QED BY <1>1, <1>2, <1>3, <2>1 DEF pos
<1>10. \A k \in 0..(entries[n].len - 1) : getByte(mem, d.at + k) = CellOf(n, k)
  <2> DEFINE at == d.at
  <2>1. LogInv /\ n \in 1..Done /\ at \in Nat /\ t + at = entries[n].pos
    BY <1>1, <1>4, <1>7, <1>8
  <2> HIDE DEF n, at
  <2>2. \A k \in 0..(entries[n].len - 1) : getByte(mem, at + k) = CellOf(n, k)
    BY <1>3, <1>9, <2>1, EntryThere
  <2> QED BY <2>2 DEF at
<1>11. d.hdr.entry = n
  BY <1>4 DEF Matches, CellOf
<1> HIDE DEF n
<1> QED BY <1>4, <1>10, <1>11 DEF getByte

(* The worker is where it was when entries are added that do not lap the   *)
(* bookmark, and when ~Log() writes lines.                                 *)
LEMMA WorkerKept ==
    ASSUME OneProducer, CollectorInv, TurnRing, file' \in Seq(Nat), Done' \in Nat,
           Extended(entries, head, entries', head'), Done <= Done', Grown(file, file'),
           reported \subseteq reported', bookmark' = bookmark, rd'["worker"] = rd["worker"],
           head' \in Nat, NEW f \in 0..Done, NEW m \in 0..head, NEW w \in f..Done,
           Marked(f, m), AtWork(rd["worker"], f, m, w), head' < m + Size
    PROVE  Marked(f, m)' /\ AtWork(rd["worker"], f, m, w)' /\ f \in 0..Done' /\ m \in 0..head' /\ w \in f..Done'
<1> DEFINE d == rd["worker"]
<1>1. /\ LogInv /\ entries \in Seq(Entry) /\ file \in Seq(Nat) /\ head \in Nat /\ Done \in 0..Len(entries)
      /\ Done \in Nat /\ Len(entries) \in Nat
  BY TurnFacts DEF CollectorInv, ReaderTypes
<1>2. f \in 0..Done' /\ m \in 0..head' /\ w \in f..Done' /\ f \in 0..Len(entries) /\ w \in 0..Len(entries)
      /\ f \in Int /\ f <= Len(entries)
  BY <1>1 DEF Extended
<1>3. Marked(f, m)'
  <2>1. Behind(entries', head', f, m)
    BY <1>1, <1>2, TailExtended DEF Marked
  <2>2. Stored(f, entries', file', reported')
    BY <1>1, <1>2, StoredMore DEF Marked, Extended
  <2> QED BY <2>1, <2>2 DEF Marked
<1>4. AtWork(rd["worker"], f, m, w)'
  <2>1. CASE d.pc \in {"idle", "collect"} /\ w = f
    BY <2>1 DEF AtWork
  <2>2. CASE d.pc = "split" /\ w = f /\ \E g \in f..Done : normalize(d.rangeEnd) = normalize(Edge(entries, head, g))
    <3>1. PICK g \in f..Done : normalize(d.rangeEnd) = normalize(Edge(entries, head, g))
      BY <2>2
    <3>2. g \in f..Done' /\ g \in 0..Len(entries)
      BY <1>1
    <3>3. Edge(entries', head', g) = Edge(entries, head, g)
      BY <3>2 DEF Extended
    <3> QED BY <2>2, <3>1, <3>2, <3>3 DEF AtWork
  <2>3. CASE \E g \in w..Done, t \in 0..head : Collects(d, m, t, w, g, entries, head, file, reported)
    <3>1. PICK g \in w..Done, t \in 0..head : Collects(d, m, t, w, g, entries, head, file, reported)
      BY <2>3
    <3>2. g \in w..Done' /\ t \in 0..head' /\ g \in 0..Len(entries) /\ w \in 0..g
      BY <1>1 DEF Extended
    <3>3. Collects(d, m, t, w, g, entries', head', file', reported')
      <4> HIDE DEF d
      <4> QED BY <1>1, <3>1, <3>2, CollectsGrown
    <3> QED BY <3>2, <3>3 DEF AtWork
  <2> QED BY <2>1, <2>2, <2>3 DEF AtWork
<1> QED BY <1>2, <1>3, <1>4

(* So is ~Log(), when the worker writes lines beside it. *)
LEMMA MainKept ==
    ASSUME OneProducer, CollectorInv, TurnRing, UNCHANGED logVars, file' \in Seq(Nat), Grown(file, file'),
           reported \subseteq reported', rd'["main"] = rd["main"], MainAtWork(rd["main"], Len(entries))
    PROVE  MainAtWork(rd["main"], Len(entries))'
<1> DEFINE d == rd["main"]
           g == Len(entries)
<1>1. /\ LogInv /\ entries \in Seq(Entry) /\ file \in Seq(Nat) /\ head \in Nat /\ g \in 0..Len(entries)
      /\ Extended(entries, head, entries, head)
  BY TurnFacts, NothingExtended DEF CollectorInv, ReaderTypes
<1>2. entries' = entries /\ head' = head
  BY TurnKept
<1>3. CASE d.pc \in {"idle", "collect"} \/ (d.pc = "split" /\ normalize(d.rangeEnd) = normalize(head))
  BY <1>2, <1>3 DEF MainAtWork
<1>4. CASE \E w \in 0..g, t \in 0..head, lo \in 0..head :
              head < lo + Size /\ Collects(d, lo, t, w, g, entries, head, file, reported)
  <2>1. PICK w \in 0..g, t \in 0..head, lo \in 0..head :
              head < lo + Size /\ Collects(d, lo, t, w, g, entries, head, file, reported)
    BY <1>4
  <2> HIDE DEF d, g
  <2>2. Collects(d, lo, t, w, g, entries, head, file', reported')
    BY <1>1, <2>1, CollectsGrown
  <2> QED BY <1>2, <2>1, <2>2 DEF MainAtWork, d, g
<1> QED BY <1>3, <1>4 DEF MainAtWork

-----------------------------------------------------------------------------
(* Who changes what *)
LEMMA ReadingWrites ==
    ASSUME CollectorInv, NEW r \in Readers, Reading(r)
    PROVE  /\ \E next : rd' = [rd EXCEPT ![r] = next]
           /\ Grown(file, file') /\ reported \subseteq reported'
           /\ rd[r].pc \in Looking
<1> DEFINE d == rd[r]
<1>1. file \in Seq(Nat)
  BY DEF CollectorInv, ReaderTypes
<1>2. Grown(file, file) /\ \A line : Grown(file, Append(file, line))
  <2> SUFFICES ASSUME NEW line PROVE Grown(file, Append(file, line))
    BY <1>1 DEF Grown
  <2> DEFINE more == Append(file, line)
  <2>1. Len(more) = Len(file) + 1 /\ Len(file) \in Nat /\ \A n \in 1..Len(file) : more[n] = file[n]
    BY <1>1
  <2> HIDE DEF more
  <2>2. Grown(file, more)
    BY <2>1 DEF Grown
  <2> QED BY <2>2 DEF more
<1>3. PICK next : Step(r, next)
  BY DEF Reading, ReadHeader, ReadBody, ComparePattern
<1>4. rd' = [rd EXCEPT ![r] = next] /\ reported \subseteq reported'
  BY <1>3 DEF Step, WriteMessage
<1>5. file' = file \/ \E line : file' = Append(file, line)
  BY DEF Reading, ReadHeader, ReadBody, ComparePattern, WriteLine
<1>6. d.pc \in Looking
  BY DEF Reading, ReadHeader, ReadBody, ComparePattern, Looking
<1> QED BY <1>2, <1>4, <1>5, <1>6

LEMMA OneReaderMoves ==
    ASSUME CollectorInv, NEW r \in Readers, NEW next, rd' = [rd EXCEPT ![r] = next]
    PROVE  /\ rd'[r] = next
           /\ r = "worker" => rd'["main"] = rd["main"]
           /\ r = "main" => rd'["worker"] = rd["worker"]
  BY BothReaders DEF CollectorInv, ReaderTypes

(* A thread that collects has been told to, and is not dumping. *)
LEMMA CollectingTask ==
    ASSUME CollectorInv, NEW r \in Readers, Collecting(r), r = "worker" \/ ctl.main \notin Running
    PROVE  /\ rd[r].pc # "idle" /\ rd[r].task \notin {"first", "dump"}
           /\ r = "worker" => ctl.worker \in {"collecting", "flushing"}
           /\ r = "main" => ctl.main = "flushing"
<1>1. rd[r].pc # "idle"
  BY ReadingWrites DEF Collecting, CollectRead, CollectEmpty, CollectSplit, CollectBottom, CollectReturn, Looking
<1>2. ctl \in Control /\ ctl[r] \in Reads(r)
  BY <1>1 DEF CollectorInv, Closes, ThreadTypes
<1>3. rd[r].task \notin {"first", "dump"}
  <2> SUFFICES ASSUME rd[r].task \in {"first", "dump"} PROVE FALSE
    OBVIOUS
  <2>1. ctl[r] = "dumping"
    BY <1>2 DEF Reads
  <2>2. r = "worker" \/ r = "main"
    BY BothReaders
  <2> QED BY <1>2, <2>1, <2>2, ControlFields DEF WorkerStates, Running
<1>4. ctl[r] \in {"collecting", "flushing"} /\ (r = "main" => ctl.main = "flushing")
  BY <1>1, <1>3, InCollect
<1> QED BY <1>1, <1>2, <1>3, <1>4, ControlFields

(* The control state after a step of collect() *)
LEMMA CollectingControl ==
    ASSUME CollectorInv, NEW r \in Readers, Collecting(r)
    PROVE  UNCHANGED ctl \/ ctl' = [ctl EXCEPT ![r] = IF ctl[r] = "flushing" THEN "sync" ELSE "loop"]
<1>1. ASSUME NEW index, SetBookmark(r, index)
      PROVE  ctl' = [ctl EXCEPT ![r] = IF ctl[r] = "flushing" THEN "sync" ELSE "loop"]
  <2>1. r = "worker" \/ r = "main"
    BY BothReaders
  <2>2. ctl \in Control
    BY DEF CollectorInv, ThreadTypes
  <2>3. r \in DOMAIN ctl
    BY <2>1, <2>2 DEF Control
  <2> QED BY <1>1, <2>3 DEF SetBookmark, AfterCollect
<1>2. CASE CollectEmpty(r) \/ CollectReturn(r)
  BY <1>1, <1>2 DEF CollectEmpty, CollectReturn
<1>3. CASE CollectRead(r) \/ CollectSplit(r) \/ CollectBottom(r) \/ UNCHANGED <<logVars, collectVars>>
  BY <1>3 DEF CollectRead, CollectSplit, CollectBottom, collectVars
<1> QED BY <1>2, <1>3 DEF Collecting

LEMMA WorkerMoves ==
    ASSUME CollectorInv, Worker
    PROVE  /\ UNCHANGED logVars /\ rd'["main"] = rd["main"] /\ ctl'.main = ctl.main
           /\ ctl.worker \notin {"none", "done"} /\ ctl'.worker # "none"
<1>1. UNCHANGED logVars /\ rd'["main"] = rd["main"]
  BY WorkerKeepsDump
<1>2. ctl \in Control /\ ctl["worker"] = ctl.worker /\ ctl["main"] = ctl.main
  BY ControlFields DEF CollectorInv, ThreadTypes
<1>3. ASSUME NEW v \in WorkerStates, ctl' = [ctl EXCEPT !["worker"] = v] PROVE ctl'.worker = v /\ ctl'.main = ctl.main
  BY <1>2, <1>3 DEF Control
<1>4. CASE WorkerCollect \/ WorkerStop
  <2>1. \/ ctl' = [ctl EXCEPT !["worker"] = "collecting"]
        \/ ctl' = [ctl EXCEPT !["worker"] = "flushing"]
    BY <1>4 DEF WorkerCollect, WorkerStop, CallCollect
  <2>2. ctl.worker = "loop"
    BY <1>4 DEF WorkerCollect, WorkerStop
  <2>3. "collecting" \in WorkerStates /\ "flushing" \in WorkerStates
    BY DEF WorkerStates
  <2> QED BY <1>1, <1>3, <2>1, <2>2, <2>3
<1>5. CASE WorkerIdle
  BY <1>1, <1>5 DEF WorkerIdle
<1>6. CASE SyncStream("worker")
  <2>1. ctl.worker = "sync" /\ ctl' = [ctl EXCEPT !["worker"] = "done"] /\ "done" \in WorkerStates
    BY <1>2, <1>6 DEF SyncStream, AfterSync, WorkerStates
  <2> QED BY <1>1, <1>3, <2>1
<1>7. CASE Collecting("worker")
  <2>1. ctl.worker \in {"collecting", "flushing"}
    BY <1>7, BothReaders, CollectingTask
  <2>2. UNCHANGED ctl \/ ctl' = [ctl EXCEPT !["worker"] = IF ctl["worker"] = "flushing" THEN "sync" ELSE "loop"]
    BY <1>7, BothReaders, CollectingControl
  <2>3. "sync" \in WorkerStates /\ "loop" \in WorkerStates
    BY DEF WorkerStates
  <2>4. UNCHANGED ctl \/ ctl' = [ctl EXCEPT !["worker"] = "sync"] \/ ctl' = [ctl EXCEPT !["worker"] = "loop"]
    BY <2>2
  <2> QED BY <1>1, <1>3, <2>1, <2>3, <2>4
<1> QED BY <1>4, <1>5, <1>6, <1>7 DEF Worker

LEMMA MainMoves ==
    ASSUME CollectorInv, Main \/ Dump \/ Destroy
    PROVE  /\ UNCHANGED logVars /\ rd'["worker"] = rd["worker"] /\ ctl'.worker = ctl.worker
           /\ ctl.main \notin {"closed", "crashed"}
           /\ ctl.main \in Running =>
                 \/ ctl'.main \in Running
                 \/ Destroy /\ ctl'.main = IF enable THEN "flushing" ELSE "closing"
           /\ ctl.main = "flushing" => Collecting("main") /\ ctl'.main \in {"flushing", "sync"}
           /\ ctl.main \notin Running \cup {"flushing"} =>
                 /\ UNCHANGED readVars /\ ctl'.main \notin Running \cup {"flushing"}
                 /\ ctl'.main = "closed" => flushed' = Len(file)
<1>1. ctl \in Control /\ ctl["worker"] = ctl.worker /\ ctl["main"] = ctl.main /\ ctl.main \in MainStates
  BY ControlFields DEF CollectorInv, ThreadTypes
<1>2. ASSUME NEW v \in MainStates, ctl' = [ctl EXCEPT !["main"] = v]
      PROVE  ctl'.main = v /\ ctl'.worker = ctl.worker
  BY <1>1, <1>2 DEF Control
<1>3. /\ rd["main"].pc # "idle" => ctl.main \in Reads("main")
      /\ ctl.main \notin {"dumping", "flushing"} => rd["main"].pc = "idle"
  BY <1>1, BothReaders, NotReading DEF CollectorInv, Closes
<1>4. /\ "run" \in MainStates /\ "dumping" \in MainStates /\ "flushing" \in MainStates
      /\ "sync" \in MainStates /\ "disable" \in MainStates /\ "join" \in MainStates
      /\ "closing" \in MainStates /\ "closed" \in MainStates /\ "crashed" \in MainStates
  BY DEF MainStates
<1>5. CASE DumpLines
  <2>1. UNCHANGED <<logVars, ctl>> /\ rd["main"].pc = "ret" /\ rd["main"].task = "first"
    BY <1>5 DEF DumpLines, collectVars
  <2>2. rd'["worker"] = rd["worker"]
    BY <1>5, BothReaders, OneReaderMoves DEF DumpLines
  <2>3. ctl.main = "dumping"
    BY <1>3, <2>1 DEF Reads
  <2> QED BY <2>1, <2>2, <2>3 DEF Running
<1>6. CASE DumpReturn
  <2>1. UNCHANGED logVars /\ rd["main"].pc = "ret" /\ rd["main"].task = "dump"
        /\ ctl' = [ctl EXCEPT !["main"] = "run"]
    BY <1>6 DEF DumpReturn
  <2>2. rd'["worker"] = rd["worker"]
    BY <1>6, BothReaders, OneReaderMoves DEF DumpReturn
  <2>3. ctl.main = "dumping"
    BY <1>3, <2>1 DEF Reads
  <2> QED BY <1>2, <1>4, <2>1, <2>2, <2>3 DEF Running
<1>7. CASE Collecting("main")
  <2>1. UNCHANGED logVars /\ \E next : rd' = [rd EXCEPT !["main"] = next]
    BY <1>7, BothReaders, ReadingWrites
       DEF Collecting, CollectRead, CollectEmpty, CollectSplit, CollectBottom, CollectReturn, SetBookmark
  <2>2. rd'["worker"] = rd["worker"]
    BY <2>1, BothReaders, OneReaderMoves
  <2>3. UNCHANGED ctl \/ ctl' = [ctl EXCEPT !["main"] = IF ctl["main"] = "flushing" THEN "sync" ELSE "loop"]
    BY <1>7, BothReaders, CollectingControl
  <2>4. CASE ctl.main \in Running
    <3>1. UNCHANGED ctl
      <4>1. rd["main"].pc # "idle"
        BY <1>7, BothReaders, ReadingWrites
           DEF Collecting, CollectRead, CollectEmpty, CollectSplit, CollectBottom, CollectReturn, Looking
      <4>2. rd["main"].task \in {"first", "dump"}
        BY <1>1, <2>4, <4>1, BothReaders, InCollect DEF Running
      <4>3. Reading("main") /\ UNCHANGED collectVars
        <5>1. ~CollectRead("main") /\ ~CollectEmpty("main") /\ ~CollectSplit("main")
          <6>1. GoodReader(rd["main"], entries)
            BY BothReaders DEF CollectorInv, ReaderTypes
          <6> QED BY <4>2, <6>1 DEF GoodReader, CollectRead, CollectEmpty, CollectSplit
        <5>2. ~CollectBottom("main") /\ ~CollectReturn("main")
          BY <4>2 DEF CollectBottom, CollectReturn
        <5> QED BY <1>7, <5>1, <5>2 DEF Collecting
      <4> QED BY <4>3 DEF collectVars
    <3> QED BY <2>1, <2>2, <2>4, <3>1 DEF Running
  <2>5. CASE ctl.main \notin Running
    <3>1. ctl.main = "flushing"
      BY <1>7, <2>5, BothReaders, CollectingTask
    <3>2. UNCHANGED ctl \/ ctl' = [ctl EXCEPT !["main"] = "sync"]
      BY <1>1, <2>3, <3>1
    <3> QED BY <1>2, <1>4, <1>7, <2>1, <2>2, <3>1, <3>2 DEF Running
  <2> QED BY <2>4, <2>5
<1>8. CASE SyncStream("main")
  <2>1. UNCHANGED <<logVars, readVars>> /\ ctl.main = "sync" /\ ctl' = [ctl EXCEPT !["main"] = "disable"]
    BY <1>1, <1>8 DEF SyncStream, AfterSync
  <2> QED BY <1>2, <1>4, <2>1 DEF Running, readVars
<1>9. CASE Disable
  <2>1. UNCHANGED <<logVars, readVars>> /\ ctl.main = "disable" /\ ctl' = [ctl EXCEPT !["main"] = "join"]
    BY <1>9 DEF Disable
  <2> QED BY <1>2, <1>4, <2>1 DEF Running, readVars
<1>10. CASE Join
  <2>1. UNCHANGED <<logVars, readVars>> /\ ctl.main = "join"
        /\ (ctl' = [ctl EXCEPT !["main"] = "closing"] \/ ctl' = [ctl EXCEPT !["main"] = "crashed"])
    BY <1>10 DEF Join
  <2> QED BY <1>2, <1>4, <2>1 DEF Running, readVars
<1>11. CASE Close
  <2>1. UNCHANGED <<logVars, readVars>> /\ ctl.main = "closing" /\ ctl' = [ctl EXCEPT !["main"] = "closed"]
        /\ flushed' = Len(file)
    BY <1>11 DEF Close
  <2> QED BY <1>2, <1>4, <2>1 DEF Running, readVars
<1>12. CASE Dump
  <2>1. UNCHANGED logVars /\ ctl.main = "run" /\ ctl' = [ctl EXCEPT !["main"] = "dumping"]
    BY <1>12 DEF Dump
  <2>2. rd'["worker"] = rd["worker"]
    BY <1>12, BothReaders, OneReaderMoves DEF Dump
  <2> QED BY <1>2, <1>4, <2>1, <2>2 DEF Running
<1>13. CASE Destroy
  <2>1. ctl.main = "run"
    BY <1>13 DEF Destroy
  <2>2. CASE enable
    <3>1. CallCollect("main", "flushing")
      BY <1>13, <2>2 DEF Destroy
    <3>2. UNCHANGED logVars /\ ctl' = [ctl EXCEPT !["main"] = "flushing"]
      BY <3>1 DEF CallCollect
    <3>3. rd'["worker"] = rd["worker"]
      BY <3>1, BothReaders, OneReaderMoves DEF CallCollect
    <3> QED BY <1>2, <1>4, <1>13, <2>1, <2>2, <3>2, <3>3 DEF Running
  <2>3. CASE ~enable
    <3>1. UNCHANGED <<logVars, readVars>> /\ ctl' = [ctl EXCEPT !["main"] = "closing"]
      BY <1>13, <2>3 DEF Destroy
    <3> QED BY <1>2, <1>4, <1>13, <2>1, <2>3, <3>1 DEF Running, readVars
  <2> QED BY <2>2, <2>3
<1> QED BY <1>5, <1>6, <1>7, <1>8, <1>9, <1>10, <1>11, <1>12, <1>13 DEF Main

(* A step of the thread that logs keeps the ring, and its distance. *)
LEMMA ProducerTurns ==
    ASSUME OneProducer, MarginCovers, NeverLaps, CollectorInv, TurnRing, TurnLast, NEW p \in Producers,
           TraceStep(p) \/ \E len \in Lens : Trace(p, len)
    PROVE  /\ TurnGrown /\ UNCHANGED <<readVars, collectVars>>
           /\ Quiet => ctl.main \in Running
           /\ \A m \in 0..head : (normalize(bookmark) = normalize(m) /\ head < m + Size) => head' < m + Size
<1> DEFINE t == prod[p]
<1>1. LogInv /\ t \in Thread /\ t.len \in Nat /\ head \in Nat
      /\ currentIndex \in Nat /\ bookmark \in Nat /\ Size \in Nat \ {0} /\ MaxLag \in Nat /\ MaxLag < Size
  BY ThreadFields, RingSize, CollectorAssumption
     DEF CollectorInv, LogInv, ProducerTypes, RingTypes, ThreadTypes, NeverLaps
<1>2. Lag \in Nat
  <2> DEFINE z == currentIndex - bookmark
  <2>1. z \in Int
    BY <1>1
  <2> HIDE DEF z
  <2>2. z % Size \in 0..(Size - 1)
    BY <1>1, <2>1, Z3
  <2> QED BY <1>1, <2>2 DEF Lag, z
<1>3. (Tracing(p) \/ \E len \in Lens : ReadId(p, len)) /\ UNCHANGED <<readVars, collectVars>>
  BY DEF TraceStep, Trace
<1>4. t.pc \in {"alloc", "add"} => Lag + t.len <= MaxLag
  BY DEF TraceStep, Trace, ReadId
<1>5. t.pc \in {"alloc", "add"} => t.len < Size
  BY <1>1, <1>2, <1>4
<1>6. TurnGrown
  BY <1>1, <1>3, <1>5, TurnRingStep
<1>7. head' = head \/ (t.pc \in {"alloc", "add"} /\ head' = head + t.len)
  BY <1>3 DEF Tracing, ReadId, WriteId, FoldIndex, StoreWrapCount, Allocate, CopyCell, ReadIndex, StoreLast
<1>8. ASSUME Quiet PROVE ctl.main \in Running
  <2>1. CASE TraceStep(p)
    <3>1. t.pc # "idle"
      BY <2>1 DEF TraceStep, Tracing, WriteId, FoldIndex, StoreWrapCount, Allocate, CopyCell, ReadIndex, StoreLast
    <3> QED BY <1>8, <3>1 DEF Quiet
  <2>2. CASE \E len \in Lens : Trace(p, len)
    BY <2>2 DEF Trace, Running
  <2> QED BY <2>1, <2>2
<1>9. ASSUME NEW m \in 0..head, normalize(bookmark) = normalize(m), head < m + Size
      PROVE  head' < m + Size
  <2>1. Lag = head - m
    BY <1>9, LagIs
  <2> HIDE DEF t
  <2> QED BY <1>1, <1>4, <1>7, <1>9, <2>1
<1> QED BY <1>3, <1>6, <1>8, <1>9

LEMMA SafeGrown ==
    ASSUME CollectorInv, Extended(entries, head, entries', head'), AvoidsBoundary'
    PROVE  AvoidsBoundary
<1>1. Len(entries) \in Nat
  BY DEF CollectorInv, LogInv, RingTypes
<1>2. \A n \in 1..Len(entries) : n \in 1..Len(entries)' /\ entries'[n] = entries[n]
  BY <1>1 DEF Extended, Grown
<1> QED BY <1>2 DEF AvoidsBoundary, EndsAtBoundary

LEMMA ProducerTurnFile ==
    ASSUME OneProducer, MarginCovers, NeverLaps, CollectorInv, CollectorInv', TurnInv, NEW p \in Producers,
           TraceStep(p) \/ \E len \in Lens : Trace(p, len)
    PROVE  TurnInv'
<1>1. /\ TurnRing /\ TurnLast /\ Quiet /\ AtClose /\ (AvoidsBoundary => TurnFile)
  BY DEF TurnInv
<1>2. /\ TurnRing' /\ TurnLast' /\ Extended(entries, head, entries', head') /\ Done <= Done'
      /\ UNCHANGED <<rd, file, reported, bookmark, ctl, flushed>> /\ ctl.main \in Running
      /\ \A m \in 0..head : (normalize(bookmark) = normalize(m) /\ head < m + Size) => head' < m + Size
  BY <1>1, ProducerTurns DEF TurnGrown, readVars, collectVars
<1>3. Quiet' /\ AtClose'
  BY <1>2 DEF Quiet, AtClose, Running
<1>4. ASSUME AvoidsBoundary' PROVE TurnFile'
  <2>1. TurnFile
    BY <1>1, <1>2, <1>4, SafeGrown
  <2>2. InMiddle' = InMiddle
    BY <1>2 DEF InMiddle
  <2>3. \A k \in 1..Len(file') : file'[k] # Torn
    BY <1>2, <2>1 DEF TurnFile
  <2>4. CASE InMiddle
    <3>1. PICK f \in 0..Done, m \in 0..head : 
                  /\ Marked(f, m)
                  /\ \E w \in f..Done : AtWork(rd["worker"], f, m, w) /\ (ctl.main \in Running => Ordered(file, w))
      BY <2>1, <2>4 DEF TurnFile, WorkerTurn
    <3>2. PICK w \in f..Done : AtWork(rd["worker"], f, m, w) /\ Ordered(file, w)
      BY <1>2, <3>1
    <3>3. file \in Seq(Nat) /\ file' \in Seq(Nat) /\ head' \in Nat /\ Done' \in Nat
      <4>1. file \in Seq(Nat) /\ file' \in Seq(Nat) /\ head' \in Nat /\ LogInv'
        BY DEF CollectorInv, ReaderTypes, LogInv, RingTypes
      <4>2. Done' \in Nat
        <5>1. Len(entries') \in Nat
          BY <4>1 DEF LogInv, RingTypes
        <5>2. Done' \in Int
          BY <5>1 DEF Done, DoneOf
        <5>3. Done \in Nat
          BY <1>1, TurnFacts DEF CollectorInv
        <5> QED BY <1>2, <5>2, <5>3
      <4> QED BY <4>1, <4>2
    <3>4. Grown(file, file') /\ reported \subseteq reported' /\ bookmark' = bookmark /\ rd'["worker"] = rd["worker"]
      BY <1>2, <3>3 DEF Grown
    <3>5. head' < m + Size
      BY <1>2, <3>1 DEF Marked
    <3>6. Marked(f, m)' /\ AtWork(rd["worker"], f, m, w)' /\ f \in 0..Done' /\ m \in 0..head' /\ w \in f..Done'
      BY <1>1, <1>2, <3>1, <3>2, <3>3, <3>4, <3>5, WorkerKept
    <3>7. WorkerTurn'
      BY <1>2, <3>2, <3>6 DEF WorkerTurn
    <3>8. MainTurn'
      BY <1>2 DEF MainTurn, Running
    <3> QED BY <2>2, <2>3, <2>4, <3>7, <3>8 DEF TurnFile
  <2>5. CASE ~InMiddle
    <3>1. ctl.worker = "none" /\ Flushed
      BY <1>2, <2>1, <2>5 DEF InMiddle, TurnFile
    <3>2. \A r \in Readers : WholeRead(rd'[r], entries', mem')
      <4> SUFFICES ASSUME NEW r \in Readers, rd[r].pc = "body", rd[r].task \notin {"first", "dump"} PROVE FALSE
        BY <1>2 DEF WholeRead
      <4> QED BY <1>2, <3>1, BothReaders, InCollect DEF Running
    <3>3. file = <<>>
      BY <1>2, <3>1 DEF Flushed
    <3>4. Flushed'
      BY <1>2, <3>1, <3>2, <3>3 DEF Flushed
    <3> QED BY <2>2, <2>3, <2>5, <3>4 DEF TurnFile
  <2> QED BY <2>4, <2>5
<1> QED BY <1>2, <1>3, <1>4 DEF TurnInv

-----------------------------------------------------------------------------
(* The worker, until ~Log() has collected *)
LEMMA AtWorkIs ==
    ASSUME NEW d, NEW f, NEW m, NEW w, AtWork(d, f, m, w)
    PROVE  /\ d.pc \in {"idle", "collect", "split"} => w = f
           /\ d.pc = "split" => \E g \in f..Done : normalize(d.rangeEnd) = normalize(Edge(entries, head, g))
           /\ d.pc \in Looking \cup {"ret"} =>
                 \E g \in w..Done, t \in 0..head : Collects(d, m, t, w, g, entries, head, file, reported)
<1>1. ASSUME \E g \in w..Done, t \in 0..head : Collects(d, m, t, w, g, entries, head, file, reported)
      PROVE  d.pc \notin {"idle", "collect", "split"}
  BY <1>1 DEF Collects, Looks, Showing, Stumbling, Searching, Looking, TopDone, AllDone
<1> QED BY <1>1 DEF AtWork, Looking

LEMMA WorkerReadsOn ==
    ASSUME OneProducer, CollectorInv, TurnRing, AvoidsBoundary, Reading("worker"),
           UNCHANGED <<logVars, bookmark, ctl>>, file' \in Seq(Nat),
           NEW f \in 0..Done, NEW m \in 0..head, Marked(f, m), NEW w \in f..Done,
           AtWork(rd["worker"], f, m, w), ctl.main \in Running => Ordered(file, w)
    PROVE  /\ WorkerTurn'
           /\ file' = file \/ \E n \in Nat \ {0} : file' = Append(file, n)
<1> DEFINE d == rd["worker"]
<1>1. /\ LogInv /\ file \in Seq(Nat) /\ "worker" \in Readers /\ rd \in [Readers -> Reader]
      /\ entries \in Seq(Entry) /\ head \in Nat /\ Done \in Nat /\ Done \in 0..Len(entries) /\ Len(entries) \in Nat
  BY TurnFacts, BothReaders DEF CollectorInv, ReaderTypes
<1>2. Done' = Done /\ entries' = entries /\ head' = head
  BY TurnKept
<1>3. Grown(file, file') /\ reported \subseteq reported' /\ d.pc \in Looking
  BY <1>1, ReadingWrites
<1>4. head < m + Size /\ m \in Nat /\ w \in Nat /\ f \in Int /\ f <= Len(entries) /\ w \in 0..Done
      /\ Stored(f, entries, file, reported) /\ Behind(entries, head, f, m) /\ normalize(bookmark) = normalize(m)
  BY <1>1 DEF Marked
<1>5. PICK g \in w..Done, t \in 0..head : Collects(d, m, t, w, g, entries, head, file, reported)
  BY <1>3, AtWorkIs
<1>6. Advances(rd'["worker"], m, t, w, g)
  <2>1. g \in 0..Done /\ w \in 0..g /\ t \in Nat
    BY <1>1, <1>4
  <2> QED BY <1>1, <1>4, <1>5, <2>1, TurnReads
<1>7. PICK v \in w..g : /\ Collects(rd'["worker"], m, t, v, g, entries, head, file', reported')
                        /\ file' = file \/ (v = w + 1 /\ file' = Append(file, w + 1))
  BY <1>6 DEF Advances
<1>8. v \in f..Done /\ v \in Nat /\ w <= v /\ g \in v..Done
  BY <1>1, <1>4
<1>9. Marked(f, m)'
  <2>1. Grown(entries, entries)
    BY <1>1 DEF Grown
  <2>2. Stored(f, entries, file', reported')
    BY <1>1, <1>3, <1>4, <2>1, StoredMore
  <2> QED BY <1>2, <1>4, <2>2 DEF Marked
<1>10. AtWork(rd["worker"], f, m, v)'
  BY <1>2, <1>7, <1>8 DEF AtWork
<1>11. ctl.main \in Running => Ordered(file', v)
  <2> SUFFICES ASSUME Ordered(file, w) PROVE Ordered(file', v)
    OBVIOUS
  <2>1. CASE file' = file
    <3>1. \A k \in 1..Len(file) : file[k] \in Nat
      BY <1>1
    <3> QED BY <1>4, <1>8, <2>1, <3>1 DEF Ordered
  <2>2. CASE v = w + 1 /\ file' = Append(file, w + 1)
    BY <1>1, <1>4, <2>2, OrderedNext
  <2> QED BY <1>7, <2>1, <2>2
<1>12. WorkerTurn'
  BY <1>2, <1>8, <1>9, <1>10, <1>11 DEF WorkerTurn
<1>13. w + 1 \in Nat \ {0}
  BY <1>4
<1> QED BY <1>7, <1>12, <1>13

LEMMA WorkerCollectsOn ==
    ASSUME OneProducer, CollectorInv, TurnRing, TurnLast, AvoidsBoundary,
           NEW f \in 0..Done, NEW m \in 0..head, Marked(f, m), NEW w \in f..Done,
           AtWork(rd["worker"], f, m, w), ctl.main \in Running => Ordered(file, w),
           ctl'.main = ctl.main,
           \/ CollectRead("worker") \/ CollectEmpty("worker") \/ CollectSplit("worker")
           \/ CollectBottom("worker") \/ CollectReturn("worker")
    PROVE  WorkerTurn' /\ UNCHANGED <<file, reported>>
<1> DEFINE r == "worker"
           d == rd["worker"]
<1>1. /\ LogInv /\ file \in Seq(Nat) /\ r \in Readers
      /\ entries \in Seq(Entry) /\ head \in Nat /\ Done \in Nat /\ Done \in 0..Len(entries) /\ Len(entries) \in Nat
  BY TurnFacts, BothReaders DEF CollectorInv, ReaderTypes
<1>2. UNCHANGED <<logVars, file, reported>>
  BY DEF CollectRead, CollectEmpty, CollectSplit, CollectBottom, CollectReturn, SetBookmark
<1>3. Done' = Done /\ entries' = entries /\ head' = head
  BY <1>2, TurnKept
<1>4. head < m + Size /\ m \in Nat /\ w \in 0..Done /\ f \in Nat
      /\ Stored(f, entries, file, reported) /\ Behind(entries, head, f, m) /\ normalize(bookmark) = normalize(m)
  BY <1>1 DEF Marked
<1>5. ASSUME NEW f1 \in 0..Done, NEW m1 \in 0..head, NEW w1 \in f1..Done, Marked(f1, m1)',
             AtWork(rd["worker"], f1, m1, w1)', w1 = w
      PROVE  WorkerTurn'
  BY <1>2, <1>3, <1>5 DEF WorkerTurn
<1>6. ASSUME UNCHANGED bookmark PROVE Marked(f, m)'
  BY <1>2, <1>3, <1>6 DEF Marked
<1>7. CASE CollectRead("worker")
  <2> DEFINE next == [NoRead EXCEPT !.pc = "split", !.rangeEnd = lastWritten]
  <2>1. rd' = [rd EXCEPT !["worker"] = next] /\ UNCHANGED bookmark /\ d.pc = "collect"
    BY <1>7 DEF CollectRead, collectVars
  <2> HIDE DEF next
  <2>2. rd'["worker"] = next
    BY <1>1, <2>1, OneReaderMoves
  <2>3. w = f
    BY <2>1, AtWorkIs
  <2>4. rd'["worker"] = [NoRead EXCEPT !.pc = "split", !.rangeEnd = lastWritten] /\ UNCHANGED bookmark /\ w = f
    BY <2>1, <2>2, <2>3 DEF next
  <2>5. rd'["worker"].pc = "split" /\ rd'["worker"].rangeEnd = lastWritten
    BY <2>4 DEF NoRead
  <2>6. normalize(lastWritten) = normalize(Edge(entries, head, Done))
    BY DEF TurnLast
  <2>7. Done \in f..Done
    BY <1>1
  <2>8. AtWork(rd["worker"], f, m, w)'
    BY <1>3, <2>4, <2>5, <2>6, <2>7 DEF AtWork
  <2> QED BY <1>2, <1>5, <1>6, <2>4, <2>8
<1>8. CASE CollectEmpty("worker")
  <2>1. PICK g \in f..Done : normalize(d.rangeEnd) = normalize(Edge(entries, head, g))
    BY <1>8, AtWorkIs DEF CollectEmpty
  <2>2. g \in 0..Done /\ f \in 0..g
    BY <1>1, <1>4
  <2>3. normalize(bookmark') = normalize(m)
    BY <1>1, <1>8, <2>1, <2>2, EmptyTurn
  <2>4. rd'["worker"] = NoRead /\ w = f
    <3>1. rd' = [rd EXCEPT !["worker"] = NoRead] /\ d.pc = "split"
      BY <1>8 DEF CollectEmpty, SetBookmark
    <3>2. rd'["worker"] = NoRead
      BY <1>1, <3>1, OneReaderMoves
    <3>3. w = f
      BY <3>1, AtWorkIs
    <3> QED BY <3>2, <3>3
  <2>5. Marked(f, m)'
    BY <1>2, <1>3, <1>4, <2>3 DEF Marked
  <2>6. AtWork(rd["worker"], f, m, w)'
    BY <2>4 DEF AtWork, NoRead
  <2> QED BY <1>2, <1>5, <2>5, <2>6
<1>9. CASE CollectSplit("worker")
  <2>1. PICK g \in f..Done : normalize(d.rangeEnd) = normalize(Edge(entries, head, g))
    BY <1>9, AtWorkIs DEF CollectSplit
  <2>2. g \in 0..Done /\ f \in 0..g
    BY <1>1, <1>4
  <2>3. PICK t \in 0..head : Collects(rd'["worker"], m, t, f, g, entries, head, file, reported)
    BY <1>1, <1>9, <2>1, <2>2, SplitTurn
  <2>4. UNCHANGED bookmark /\ w = f
    BY <1>9, AtWorkIs DEF CollectSplit, collectVars
  <2>5. AtWork(rd["worker"], f, m, w)'
    BY <1>2, <1>3, <2>3, <2>4 DEF AtWork
  <2> QED BY <1>2, <1>5, <1>6, <2>4, <2>5
<1>10. CASE CollectBottom("worker")
  <2>1. PICK g \in w..Done, t \in 0..head : Collects(d, m, t, w, g, entries, head, file, reported)
    BY <1>10, AtWorkIs DEF CollectBottom
  <2>2. g \in 0..Done /\ w \in 0..g /\ t \in Nat
    BY <1>1, <1>4
  <2>3. PICK u \in 0..head : Collects(rd'["worker"], m, u, w, g, entries, head, file, reported)
    BY <1>1, <1>4, <1>10, <2>1, <2>2, BottomTurn
  <2>4. UNCHANGED bookmark
    BY <1>10 DEF CollectBottom, collectVars
  <2>5. AtWork(rd["worker"], f, m, w)'
    BY <1>2, <1>3, <2>3 DEF AtWork
  <2> QED BY <1>2, <1>5, <1>6, <2>4, <2>5
<1>11. CASE CollectReturn("worker")
  <2>1. PICK g \in w..Done, t \in 0..head : Collects(d, m, t, w, g, entries, head, file, reported)
    BY <1>11, AtWorkIs DEF CollectReturn
  <2>2. g \in 0..Done /\ w \in 0..g /\ t \in Nat
    BY <1>1, <1>4
  <2>3. /\ w = g
        /\ \E x \in 0..head : /\ normalize(bookmark') = normalize(x) /\ head < x + Size
                              /\ Behind(entries, head, g, x) /\ Stored(g, entries, file, reported)
    BY <1>1, <1>4, <1>11, <2>1, <2>2, ReturnTurn
  <2>4. PICK x \in 0..head : /\ normalize(bookmark') = normalize(x) /\ head < x + Size
                             /\ Behind(entries, head, w, x) /\ Stored(w, entries, file, reported)
    BY <2>3
  <2>5. Marked(w, x)'
    BY <1>2, <1>3, <2>4 DEF Marked
  <2>6. rd'["worker"] = NoRead
    BY <1>1, <1>11, OneReaderMoves DEF CollectReturn, SetBookmark
  <2>7. AtWork(rd["worker"], w, x, w)'
    BY <2>6 DEF AtWork, NoRead
  <2>8. w \in w..Done /\ w \in 0..Done
    BY <1>1, <1>4
  <2> QED BY <1>2, <1>5, <2>5, <2>7, <2>8
<1> QED BY <1>2, <1>7, <1>8, <1>9, <1>10, <1>11

LEMMA WorkerInMiddle ==
    ASSUME OneProducer, CollectorInv, CollectorInv', TurnRing, TurnLast, AvoidsBoundary, WorkerTurn, Worker
    PROVE  /\ WorkerTurn' /\ Grown(file, file') /\ reported \subseteq reported'
           /\ file' = file \/ \E n \in Nat \ {0} : file' = Append(file, n)
<1>1. PICK f \in 0..Done, m \in 0..head :
          /\ Marked(f, m)
          /\ \E w \in f..Done : AtWork(rd["worker"], f, m, w) /\ (ctl.main \in Running => Ordered(file, w))
  BY DEF WorkerTurn
<1>2. PICK w \in f..Done : AtWork(rd["worker"], f, m, w) /\ (ctl.main \in Running => Ordered(file, w))
  BY <1>1
<1>3. UNCHANGED logVars /\ ctl'.main = ctl.main
  BY WorkerMoves
<1>4. Done' = Done /\ entries' = entries /\ head' = head
  BY <1>3, TurnKept
<1>5. file \in Seq(Nat) /\ file' \in Seq(Nat) /\ "worker" \in Readers /\ Grown(file, file)
  BY BothReaders DEF CollectorInv, ReaderTypes, Grown
<1>6. CASE WorkerCollect \/ WorkerStop
  <2>1. /\ rd'["worker"] = [NoRead EXCEPT !.pc = "collect"] /\ UNCHANGED <<file, reported, bookmark>>
        /\ rd["worker"].pc = "idle"
    <3>1. CallCollect("worker", "collecting") \/ CallCollect("worker", "flushing")
      BY <1>6 DEF WorkerCollect, WorkerStop
    <3>2. ctl.worker = "loop"
      BY <1>6 DEF WorkerCollect, WorkerStop
    <3> QED BY <1>5, <3>1, <3>2, NotReading, OneReaderMoves DEF CallCollect
  <2>2. w = f
    BY <1>2, <2>1, AtWorkIs
  <2>3. Marked(f, m)'
    BY <1>1, <1>4, <2>1 DEF Marked
  <2>4. rd'["worker"].pc = "collect"
    BY <2>1 DEF NoRead
  <2>5. AtWork(rd["worker"], f, m, w)'
    BY <2>2, <2>4 DEF AtWork
  <2>6. WorkerTurn'
    BY <1>2, <1>3, <1>4, <2>1, <2>3, <2>5 DEF WorkerTurn
  <2> QED BY <1>5, <2>1, <2>6
<1>7. CASE WorkerIdle \/ SyncStream("worker")
  <2>1. UNCHANGED <<rd, file, reported, bookmark>>
    BY <1>7 DEF WorkerIdle, SyncStream, readVars
  <2>2. Marked(f, m)'
    BY <1>1, <1>4, <2>1 DEF Marked
  <2>3. AtWork(rd["worker"], f, m, w)'
    BY <1>2, <1>4, <2>1 DEF AtWork
  <2>4. WorkerTurn'
    BY <1>2, <1>3, <1>4, <2>1, <2>2, <2>3 DEF WorkerTurn
  <2> QED BY <1>5, <2>1, <2>4
<1>8. CASE Reading("worker") /\ UNCHANGED <<logVars, collectVars>>
  <2>1. UNCHANGED <<logVars, bookmark, ctl>>
    BY <1>8 DEF collectVars
  <2>2. WorkerTurn' /\ (file' = file \/ \E n \in Nat \ {0} : file' = Append(file, n))
    BY <1>1, <1>2, <1>5, <1>8, <2>1, WorkerReadsOn
  <2> QED BY <1>5, <1>8, <2>2, ReadingWrites
<1>9. CASE \/ CollectRead("worker") \/ CollectEmpty("worker") \/ CollectSplit("worker")
           \/ CollectBottom("worker") \/ CollectReturn("worker")
  <2>1. WorkerTurn' /\ UNCHANGED <<file, reported>>
    BY <1>1, <1>2, <1>3, <1>9, WorkerCollectsOn
  <2> QED BY <1>5, <2>1
<1> QED BY <1>6, <1>7, <1>8, <1>9 DEF Worker, Collecting

-----------------------------------------------------------------------------
(* A collect() that is not reading has no entry in its hands. *)
LEMMA CollectsAnew ==
    ASSUME CollectorInv, NEW r \in Readers,
           \/ CollectRead(r) \/ CollectEmpty(r) \/ CollectSplit(r)
           \/ CollectBottom(r) \/ CollectReturn(r)
    PROVE  rd'[r].pc # "body" /\ UNCHANGED <<logVars, file, reported>>
<1>1. UNCHANGED <<logVars, file, reported>>
  BY DEF CollectRead, CollectEmpty, CollectSplit, CollectBottom, CollectReturn, SetBookmark
<1>2. PICK next : rd' = [rd EXCEPT ![r] = next] /\ next.pc # "body"
  <2>1. \A d, start, end : dumpRange(d, start, end).pc # "body"
    BY LoopsAt DEF dumpRange
  <2>2. CASE CollectRead(r)
    <3> DEFINE d == [NoRead EXCEPT !.pc = "split", !.rangeEnd = lastWritten]
    <3>1. d.pc # "body"
      BY DEF NoRead
    <3>2. rd' = [rd EXCEPT ![r] = d]
      BY <2>2 DEF CollectRead
    <3> HIDE DEF d
    <3> QED BY <3>1, <3>2
  <2>3. CASE CollectEmpty(r) \/ CollectReturn(r)
    <3>1. NoRead.pc # "body" /\ rd' = [rd EXCEPT ![r] = NoRead]
      BY <2>3 DEF CollectEmpty, CollectReturn, SetBookmark, NoRead
    <3> QED BY <3>1
  <2>4. CASE CollectSplit(r) \/ CollectBottom(r)
    <3>1. PICK d, start, end : rd' = [rd EXCEPT ![r] = dumpRange(d, start, end)]
      BY <2>4 DEF CollectSplit, CollectBottom
    <3> DEFINE e == dumpRange(d, start, end)
    <3>2. e.pc # "body" /\ rd' = [rd EXCEPT ![r] = e]
      BY <2>1, <3>1
    <3> HIDE DEF e
    <3> QED BY <3>2
  <2> QED BY <2>2, <2>3, <2>4
<1> QED BY <1>1, <1>2, OneReaderMoves

LEMMA WholeFile ==
    ASSUME NEW lines \in Seq(Nat), \A k \in 1..Len(lines) : lines[k] # Torn, NEW more,
           more = lines \/ \E n \in Nat \ {0} : more = Append(lines, n)
    PROVE  \A k \in 1..Len(more) : more[k] # Torn
<1> SUFFICES ASSUME NEW n \in Nat \ {0}, more = Append(lines, n)
             PROVE  \A k \in 1..Len(more) : more[k] # Torn
  OBVIOUS
<1>1. Len(lines) \in Nat /\ Len(more) = Len(lines) + 1 /\ more[Len(lines) + 1] = n
      /\ \A k \in 1..Len(lines) : more[k] = lines[k]
  OBVIOUS
<1> HIDE DEF Torn
<1>2. n # Torn
  BY DEF Torn
<1> QED BY <1>1, <1>2

LEMMA Quieted ==
    ASSUME OneProducer, LogInv, Quiet, ctl.main \notin Running
    PROVE  Writer.pc \notin Copying /\ Done = Len(entries)
<1>1. Writer.pc = "idle"
  <2>1. CASE Producers = {}
    BY <2>1, IdleThread DEF Writer
  <2>2. CASE Producers # {}
    <3>1. PICK p \in Producers : TRUE
      BY <2>2
    <3> QED BY <3>1, WriterIs DEF Quiet
  <2> QED BY <2>1, <2>2
<1> QED BY <1>1, WriterFields DEF Copying

(* Once ~Log() has collected, the worker adds whole entries only. *)
LEMMA WorkerAfter ==
    ASSUME OneProducer, CollectorInv, TurnRing, Quiet, ctl.main \notin Running,
           Worker, WholeRead(rd["worker"], entries, mem)
    PROVE  /\ WholeRead(rd'["worker"], entries, mem)
           /\ Grown(file, file') /\ reported \subseteq reported'
           /\ file' = file \/ \E n \in Nat \ {0} : file' = Append(file, n)
<1>1. LogInv /\ file \in Seq(Nat) /\ "worker" \in Readers /\ Grown(file, file) /\ Len(entries) \in Nat
  BY TurnFacts, BothReaders DEF CollectorInv, ReaderTypes, Grown
<1>2. Writer.pc # "copy"
  BY <1>1, Quieted DEF Copying
<1>3. CASE WorkerCollect \/ WorkerStop
  <2> DEFINE next == [NoRead EXCEPT !.pc = "collect"]
  <2>1. rd' = [rd EXCEPT !["worker"] = next] /\ UNCHANGED <<file, reported>>
    BY <1>3 DEF WorkerCollect, WorkerStop, CallCollect
  <2>2. next.pc # "body"
    BY DEF NoRead
  <2> HIDE DEF next
  <2>3. rd'["worker"].pc # "body"
    BY <1>1, <2>1, <2>2, OneReaderMoves
  <2> QED BY <1>1, <2>1, <2>3 DEF WholeRead
<1>4. CASE WorkerIdle \/ SyncStream("worker")
  BY <1>1, <1>4 DEF WorkerIdle, SyncStream, readVars
<1>5. CASE Reading("worker")
  <2>1. /\ WholeRead(rd'["worker"], entries, mem)
        /\ file' = file \/ \E n \in 1..Len(entries) : file' = Append(file, n)
    BY <1>1, <1>2, <1>5, QuietReads
  <2> QED BY <1>1, <1>5, <2>1, ReadingWrites
<1>6. CASE \/ CollectRead("worker") \/ CollectEmpty("worker") \/ CollectSplit("worker")
           \/ CollectBottom("worker") \/ CollectReturn("worker")
  <2>1. rd'["worker"].pc # "body" /\ UNCHANGED <<file, reported>>
    BY <1>1, <1>6, CollectsAnew
  <2> QED BY <1>1, <2>1 DEF WholeRead
<1> QED BY <1>3, <1>4, <1>5, <1>6 DEF Worker, Collecting

LEMMA WorkerTurnFile ==
    ASSUME OneProducer, CollectorInv, CollectorInv', TurnInv, Worker
    PROVE  TurnInv'
<1>1. /\ TurnRing /\ TurnLast /\ Quiet /\ AtClose /\ (AvoidsBoundary => TurnFile)
  BY DEF TurnInv
<1>2. /\ UNCHANGED logVars /\ rd'["main"] = rd["main"] /\ ctl'.main = ctl.main
      /\ ctl.worker \notin {"none", "done"} /\ ctl'.worker # "none"
  BY WorkerMoves
<1>3. TurnRing' /\ TurnLast' /\ entries' = entries /\ head' = head /\ mem' = mem /\ Done' = Done
      /\ (AvoidsBoundary' => AvoidsBoundary)
  BY <1>1, <1>2, TurnKept
<1>4. Quiet'
  BY <1>1, <1>2 DEF Quiet, logVars
<1>5. ctl.main \notin {"closing", "closed"}
  BY <1>2 DEF CollectorInv, Closes
<1>6. AtClose'
  BY <1>2, <1>5 DEF AtClose
<1>7. /\ file \in Seq(Nat) /\ file' \in Seq(Nat) /\ LogInv /\ entries \in Seq(Entry) /\ Grown(entries, entries)
      /\ Len(entries) \in Int
  BY DEF CollectorInv, ReaderTypes, LogInv, RingTypes, Grown
<1>8. ASSUME AvoidsBoundary' PROVE TurnFile'
  <2>1. AvoidsBoundary /\ TurnFile
    BY <1>1, <1>3, <1>8
  <2>2. InMiddle' = InMiddle
    BY <1>2 DEF InMiddle
  <2>3. CASE InMiddle
    <3>1. WorkerTurn /\ MainTurn
      BY <2>1, <2>3 DEF TurnFile
    <3>2. /\ WorkerTurn' /\ Grown(file, file') /\ reported \subseteq reported'
          /\ file' = file \/ \E n \in Nat \ {0} : file' = Append(file, n)
      BY <1>1, <2>1, <3>1, WorkerInMiddle
    <3>3. MainTurn'
      <4> SUFFICES ASSUME ctl.main = "flushing" PROVE MainAtWork(rd["main"], Len(entries))'
        BY <1>2 DEF MainTurn
      <4> QED BY <1>1, <1>2, <1>7, <3>1, <3>2, MainKept DEF MainTurn
    <3>4. \A k \in 1..Len(file') : file'[k] # Torn
      BY <1>7, <2>1, <3>2, WholeFile DEF TurnFile
    <3> QED BY <2>2, <2>3, <3>2, <3>3, <3>4 DEF TurnFile
  <2>4. CASE ~InMiddle
    <3>1. Flushed /\ ctl.main \notin Running
      BY <1>2, <2>1, <2>4 DEF TurnFile, InMiddle
    <3>2. WholeRead(rd["worker"], entries, mem) /\ WholeRead(rd["main"], entries, mem)
      BY <3>1, BothReaders DEF Flushed
    <3>3. /\ WholeRead(rd'["worker"], entries, mem)
          /\ Grown(file, file') /\ reported \subseteq reported'
          /\ file' = file \/ \E n \in Nat \ {0} : file' = Append(file, n)
      BY <1>1, <3>1, <3>2, WorkerAfter
    <3>4. \A k \in 1..Len(file') : file'[k] # Torn
      BY <1>7, <2>1, <3>3, WholeFile DEF TurnFile
    <3>5. Stored(Len(entries), entries, file', reported')
      <4>1. Stored(Len(entries), entries, file, reported)
        BY <1>2, <3>1 DEF Flushed
      <4> DEFINE n == Len(entries)
      <4>2. n \in Int /\ n <= Len(entries)
        BY <1>7
      <4> HIDE DEF n
      <4>3. Stored(n, entries, file', reported')
        BY <1>7, <3>3, <4>1, <4>2, StoredMore DEF n
      <4> QED BY <4>3 DEF n
    <3>6. \A r \in Readers : WholeRead(rd'[r], entries', mem')
      BY <1>2, <1>3, <3>2, <3>3, BothReaders
    <3>7. Flushed'
      BY <1>2, <1>3, <3>1, <3>5, <3>6 DEF Flushed
    <3> QED BY <2>2, <2>4, <3>4, <3>7 DEF TurnFile
  <2> QED BY <2>3, <2>4
<1> QED BY <1>3, <1>4, <1>6, <1>8 DEF TurnInv

-----------------------------------------------------------------------------
(* main adds whole entries only, and none while it dumps. *)
LEMMA MainWrites ==
    ASSUME OneProducer, CollectorInv, Main \/ Dump \/ Destroy
    PROVE  /\ Grown(file, file') /\ reported \subseteq reported'
           /\ (TurnRing /\ Quiet /\ WholeRead(rd["main"], entries, mem)) =>
                 /\ WholeRead(rd'["main"], entries, mem)
                 /\ file' = file \/ \E n \in Nat \ {0} : file' = Append(file, n)
<1> DEFINE d == rd["main"]
<1>1. /\ LogInv /\ file \in Seq(Nat) /\ "main" \in Readers /\ Grown(file, file) /\ Len(entries) \in Nat
      /\ rd \in [Readers -> Reader] /\ d \in Reader
  BY BothReaders DEF CollectorInv, ReaderTypes, LogInv, RingTypes, Grown
<1>2. ASSUME UNCHANGED <<file, reported>>, NEW next, rd' = [rd EXCEPT !["main"] = next], next.pc # "body"
      PROVE  /\ Grown(file, file') /\ reported \subseteq reported'
             /\ WholeRead(rd'["main"], entries, mem) /\ file' = file
  <2>1. rd'["main"].pc # "body"
    BY <1>1, <1>2, OneReaderMoves
  <2> QED BY <1>1, <1>2, <2>1 DEF WholeRead
<1>3. CASE UNCHANGED readVars
  BY <1>1, <1>3 DEF readVars
<1>4. CASE Reading("main")
  <2>1. Grown(file, file') /\ reported \subseteq reported' /\ d.pc \in Looking
    BY <1>1, <1>4, ReadingWrites
  <2>2. ASSUME TurnRing, Quiet, WholeRead(d, entries, mem)
        PROVE  /\ WholeRead(rd'["main"], entries, mem)
               /\ file' = file \/ \E n \in Nat \ {0} : file' = Append(file, n)
    <3>1. d.task \notin {"first", "dump"} => Writer.pc # "copy"
      <4> SUFFICES ASSUME d.task \notin {"first", "dump"} PROVE Writer.pc # "copy"
        OBVIOUS
      <4>1. ctl.main = "flushing"
        BY <1>1, <2>1, InCollect DEF Looking
      <4> QED BY <1>1, <2>2, <4>1, Quieted DEF Running, Copying
    <3>2. /\ WholeRead(rd'["main"], entries, mem)
          /\ file' = file \/ \E n \in 1..Len(entries) : file' = Append(file, n)
      BY <1>1, <1>4, <2>2, <3>1, QuietReads
    <3> QED BY <1>1, <3>2
  <2> QED BY <2>1, <2>2
<1>5. CASE \/ CollectRead("main") \/ CollectEmpty("main") \/ CollectSplit("main")
           \/ CollectBottom("main") \/ CollectReturn("main")
  <2>1. rd'["main"].pc # "body" /\ UNCHANGED <<file, reported>>
    BY <1>1, <1>5, CollectsAnew
  <2> QED BY <1>1, <2>1 DEF WholeRead
<1>6. CASE DumpLines
  <2> DEFINE next == dumpRange([d EXCEPT !.task = "dump"], normalize(d.ret), Dec(normalize(currentIndex)))
  <2>1. rd' = [rd EXCEPT !["main"] = next] /\ UNCHANGED <<file, reported>>
    BY <1>1, <1>6 DEF DumpLines
  <2>2. next.pc # "body"
    BY LoopsAt DEF dumpRange
  <2> HIDE DEF next
  <2> QED BY <1>2, <2>1, <2>2
<1>7. CASE DumpReturn
  <2>1. rd' = [rd EXCEPT !["main"] = NoRead] /\ UNCHANGED <<file, reported>> /\ NoRead.pc # "body"
    BY <1>7 DEF DumpReturn, NoRead
  <2> QED BY <1>2, <2>1
<1>8. CASE Dump
  <2> DEFINE search == [NoRead EXCEPT !.pc = "cmp", !.task = "first", !.mode = "first", !.at = normalize(currentIndex)]
             found == Return([NoRead EXCEPT !.task = "first"], 0)
             next == IF currentIndex >= Size \/ wrapped THEN search ELSE found
  <2>1. rd' = [rd EXCEPT !["main"] = next] /\ UNCHANGED <<file, reported>>
    BY <1>8 DEF Dump
  <2>2. search.pc # "body"
    BY DEF NoRead
  <2>3. found.pc # "body"
    BY ReturnFields
  <2> HIDE DEF search, found
  <2>4. next.pc # "body"
    BY <2>2, <2>3
  <2> HIDE DEF next
  <2> QED BY <1>2, <2>1, <2>4
<1>9. CASE Destroy /\ enable
  <2> DEFINE next == [NoRead EXCEPT !.pc = "collect"]
  <2>1. rd' = [rd EXCEPT !["main"] = next] /\ UNCHANGED <<file, reported>>
    BY <1>9 DEF Destroy, CallCollect
  <2>2. next.pc # "body"
    BY DEF NoRead
  <2> HIDE DEF next
  <2> QED BY <1>2, <2>1, <2>2
<1>10. ASSUME (Destroy /\ ~enable) \/ SyncStream("main") \/ Disable \/ Join \/ Close PROVE UNCHANGED readVars
  BY <1>10 DEF Destroy, SyncStream, Disable, Join, Close
<1> QED BY <1>3, <1>4, <1>5, <1>6, <1>7, <1>8, <1>9, <1>10 DEF Main, Collecting

(* The worker beside a step of main that leaves the bookmark *)
LEMMA WorkerBeside ==
    ASSUME OneProducer, CollectorInv, CollectorInv', TurnRing, WorkerTurn, UNCHANGED <<logVars, bookmark>>,
           rd'["worker"] = rd["worker"], Grown(file, file'), reported \subseteq reported',
           ctl'.main \in Running => ctl.main \in Running /\ file' = file
    PROVE  WorkerTurn'
<1>1. PICK f \in 0..Done, m \in 0..head :
          /\ Marked(f, m)
          /\ \E w \in f..Done : AtWork(rd["worker"], f, m, w) /\ (ctl.main \in Running => Ordered(file, w))
  BY DEF WorkerTurn
<1>2. PICK w \in f..Done : AtWork(rd["worker"], f, m, w) /\ (ctl.main \in Running => Ordered(file, w))
  BY <1>1
<1>3. Done' = Done /\ entries' = entries /\ head' = head
  BY TurnKept
<1>4. /\ file' \in Seq(Nat) /\ entries \in Seq(Entry) /\ head \in Nat /\ Done \in Nat
      /\ Extended(entries, head, entries, head)
  BY TurnFacts, NothingExtended DEF CollectorInv, ReaderTypes
<1>5. head' < m + Size
  BY <1>1, <1>3 DEF Marked
<1>6. Extended(entries, head, entries', head') /\ Done <= Done' /\ Done' \in Nat /\ head' \in Nat
  BY <1>3, <1>4
<1>7. Marked(f, m)' /\ AtWork(rd["worker"], f, m, w)' /\ f \in 0..Done' /\ m \in 0..head' /\ w \in f..Done'
  BY <1>1, <1>2, <1>4, <1>5, <1>6, WorkerKept
<1> QED BY <1>2, <1>7 DEF WorkerTurn

LEMMA WorkerWhole ==
    ASSUME OneProducer, CollectorInv, TurnRing, WorkerTurn
    PROVE  WholeRead(rd["worker"], entries, mem)
<1> SUFFICES ASSUME rd["worker"].pc = "body" PROVE WholeRead(rd["worker"], entries, mem)
  BY DEF WholeRead
<1>1. PICK f \in 0..Done, m \in 0..head : Marked(f, m) /\ \E w \in f..Done : AtWork(rd["worker"], f, m, w)
  BY DEF WorkerTurn
<1>2. PICK w \in f..Done : AtWork(rd["worker"], f, m, w)
  BY <1>1
<1>3. PICK g \in w..Done, t \in 0..head : Collects(rd["worker"], m, t, w, g, entries, head, file, reported)
  BY <1>2, AtWorkIs DEF Looking
<1>4. head \in Nat /\ Done \in Nat /\ "worker" \in Readers
  BY TurnFacts, BothReaders DEF CollectorInv
<1>5. g \in 0..Done /\ w \in 0..g /\ t \in Nat /\ m \in Nat /\ head < m + Size
  BY <1>1, <1>4 DEF Marked
<1> QED BY <1>3, <1>4, <1>5, CollectsWhole

LEMMA MainFlushes ==
    ASSUME OneProducer, CollectorInv, CollectorInv', TurnRing, TurnLast, Quiet, AvoidsBoundary,
           WorkerTurn, MainTurn, ctl.main = "flushing", Collecting("main")
    PROVE  /\ file' = file \/ \E n \in Nat \ {0} : file' = Append(file, n)
           /\ ctl'.main = "flushing" => WorkerTurn' /\ MainTurn'
           /\ ctl'.main # "flushing" => /\ Stored(Len(entries), entries, file', reported')
                                        /\ WholeRead(rd'["main"], entries, mem)
<1> DEFINE d == rd["main"]
           g == Len(entries)
<1>1. /\ UNCHANGED logVars /\ rd'["worker"] = rd["worker"] /\ ctl'.main \in {"flushing", "sync"}
  BY MainMoves DEF Main
<1>2. Done' = Done /\ entries' = entries /\ head' = head
  BY <1>1, TurnKept
<1>3. /\ LogInv /\ "main" \in Readers /\ file \in Seq(Nat) /\ g \in Nat /\ head \in Nat /\ Done = g
      /\ g \in 0..Done /\ Edge(entries, head, g) = head /\ ctl \in Control /\ ctl["main"] = ctl.main
  <2>1. LogInv /\ "main" \in Readers /\ file \in Seq(Nat) /\ ctl \in Control
    BY BothReaders DEF CollectorInv, ReaderTypes, ThreadTypes
  <2>2. Done = g
    BY <2>1, Quieted DEF Running
  <2> QED BY <2>1, <2>2, TurnFacts, ControlFields
<1>4. MainAtWork(d, g)
  BY DEF MainTurn
<1>5. Grown(file, file') /\ reported \subseteq reported'
  BY MainWrites DEF Main
<1>6. ASSUME UNCHANGED bookmark PROVE WorkerTurn'
  BY <1>1, <1>5, <1>6, WorkerBeside DEF Running
<1>7. ASSUME MainAtWork(rd["main"], Len(entries))' PROVE MainTurn'
  BY <1>7 DEF MainTurn
<1>8. /\ d.pc = "split" => normalize(d.rangeEnd) = normalize(Edge(entries, head, g))
      /\ d.pc \in Looking \cup {"ret"} =>
            \E w \in 0..g, t \in 0..head, lo \in 0..head :
                head < lo + Size /\ Collects(d, lo, t, w, g, entries, head, file, reported)
  <2>1. ASSUME NEW w, NEW t, NEW lo, Collects(d, lo, t, w, g, entries, head, file, reported)
        PROVE  d.pc \notin {"idle", "collect", "split"}
    BY <2>1 DEF Collects, Looks, Showing, Stumbling, Searching, Looking, TopDone, AllDone
  <2> QED BY <1>3, <1>4, <2>1 DEF MainAtWork, Looking
<1>9. PICK f \in 0..g, m \in 0..head : Marked(f, m)
  BY <1>3 DEF WorkerTurn
<1>10. ASSUME NEW index, SetBookmark("main", index)
       PROVE  UNCHANGED <<file, reported>> /\ ctl'.main = "sync" /\ WholeRead(rd'["main"], entries, mem)
  <2>1. UNCHANGED <<file, reported>> /\ rd' = [rd EXCEPT !["main"] = NoRead]
        /\ ctl' = [ctl EXCEPT !["main"] = "sync"]
    BY <1>3, <1>10 DEF SetBookmark, AfterCollect, Control
  <2>2. rd'["main"] = NoRead
    BY <1>3, <2>1, OneReaderMoves
  <2>3. NoRead.pc # "body"
    BY DEF NoRead
  <2>4. ctl'.main = "sync"
    BY <1>3, <2>1 DEF Control
  <2> QED BY <2>1, <2>2, <2>3, <2>4 DEF WholeRead
<1>11. CASE CollectRead("main")
  <2> DEFINE next == [NoRead EXCEPT !.pc = "split", !.rangeEnd = lastWritten]
  <2>1. rd' = [rd EXCEPT !["main"] = next] /\ UNCHANGED <<bookmark, file, ctl>>
    BY <1>11 DEF CollectRead, collectVars
  <2>2. next.pc = "split" /\ next.rangeEnd = lastWritten
    BY DEF NoRead
  <2> HIDE DEF next
  <2>3. rd'["main"] = next
    BY <1>3, <2>1, OneReaderMoves
  <2>4. normalize(lastWritten) = normalize(head)
    BY <1>3 DEF TurnLast
  <2>5. MainAtWork(rd["main"], Len(entries))'
    BY <1>2, <2>2, <2>3, <2>4 DEF MainAtWork
  <2> QED BY <1>6, <1>7, <2>1, <2>5
<1>12. CASE CollectEmpty("main")
  <2>1. normalize(d.rangeEnd) = normalize(Edge(entries, head, g)) /\ SetBookmark("main", d.rangeEnd)
    BY <1>8, <1>12 DEF CollectEmpty
  <2> HIDE DEF g
  <2>2. f = g
    BY <1>3, <1>9, <1>12, <2>1, EmptyTurn
  <2>3. Stored(g, entries, file, reported)
    BY <1>9, <2>2 DEF Marked
  <2> QED BY <1>10, <2>1, <2>3 DEF g
<1>13. CASE CollectSplit("main")
  <2>1. normalize(d.rangeEnd) = normalize(Edge(entries, head, g)) /\ UNCHANGED <<bookmark, file, reported, ctl>>
    BY <1>8, <1>13 DEF CollectSplit, collectVars
  <2> HIDE DEF g
  <2>2. PICK t \in 0..head : Collects(rd'["main"], m, t, f, g, entries, head, file, reported)
    BY <1>3, <1>9, <1>13, <2>1, SplitTurn
  <2>3. head < m + Size
    BY <1>9 DEF Marked
  <2>4. MainAtWork(rd["main"], Len(entries))'
    BY <1>2, <2>1, <2>2, <2>3 DEF MainAtWork, g
  <2> QED BY <1>6, <1>7, <2>1, <2>4
<1>14. CASE CollectBottom("main")
  <2>1. d.pc = "ret" /\ UNCHANGED <<bookmark, file, reported, ctl>>
    BY <1>14 DEF CollectBottom, collectVars
  <2>2. PICK w \in 0..g, t \in 0..head, lo \in 0..head :
            head < lo + Size /\ Collects(d, lo, t, w, g, entries, head, file, reported)
    BY <1>8, <2>1
  <2>3. t \in Nat /\ lo \in Nat
    BY <1>3
  <2> HIDE DEF g
  <2>4. PICK u \in 0..head : Collects(rd'["main"], lo, u, w, g, entries, head, file, reported)
    BY <1>3, <1>14, <2>2, <2>3, BottomTurn
  <2>5. MainAtWork(rd["main"], Len(entries))'
    BY <1>2, <2>1, <2>2, <2>4 DEF MainAtWork, g
  <2> QED BY <1>6, <1>7, <2>1, <2>5
<1>15. CASE CollectReturn("main")
  <2>1. d.pc = "ret" /\ SetBookmark("main", d.ret)
    BY <1>15 DEF CollectReturn
  <2>2. PICK w \in 0..g, t \in 0..head, lo \in 0..head :
            head < lo + Size /\ Collects(d, lo, t, w, g, entries, head, file, reported)
    BY <1>8, <2>1
  <2>3. t \in Nat /\ lo \in Nat
    BY <1>3
  <2> HIDE DEF g
  <2>4. Stored(g, entries, file, reported)
    BY <1>3, <1>15, <2>2, <2>3, ReturnTurn
  <2> QED BY <1>10, <2>1, <2>4 DEF g
<1>16. CASE Reading("main") /\ UNCHANGED <<logVars, collectVars>>
  <2>1. UNCHANGED <<bookmark, ctl>> /\ d.pc \in Looking
    BY <1>3, <1>16, ReadingWrites DEF collectVars
  <2>2. PICK w \in 0..g, t \in 0..head, lo \in 0..head :
            head < lo + Size /\ Collects(d, lo, t, w, g, entries, head, file, reported)
    BY <1>8, <2>1
  <2>3. t \in Nat /\ lo \in Nat /\ w \in Nat
    BY <1>3
  <2> HIDE DEF g
  <2>4. Advances(rd'["main"], lo, t, w, g)
    BY <1>3, <1>16, <2>2, <2>3, TurnReads
  <2>5. PICK v \in w..g : /\ Collects(rd'["main"], lo, t, v, g, entries, head, file', reported')
                          /\ file' = file \/ (v = w + 1 /\ file' = Append(file, w + 1))
    BY <2>4 DEF Advances
  <2>6. v \in 0..g /\ w + 1 \in Nat \ {0}
    BY <1>3, <2>3
  <2>7. MainAtWork(rd["main"], Len(entries))'
    BY <1>2, <2>2, <2>5, <2>6 DEF MainAtWork, g
  <2> QED BY <1>6, <1>7, <2>1, <2>5, <2>6, <2>7
<1> QED BY <1>11, <1>12, <1>13, <1>14, <1>15, <1>16 DEF Collecting

LEMMA MainTurnFile ==
    ASSUME OneProducer, CollectorInv, CollectorInv', TurnInv, Main \/ Dump \/ Destroy
    PROVE  TurnInv'
<1>1. /\ TurnRing /\ TurnLast /\ Quiet /\ AtClose /\ (AvoidsBoundary => TurnFile)
  BY DEF TurnInv
<1>2. /\ UNCHANGED logVars /\ rd'["worker"] = rd["worker"] /\ ctl'.worker = ctl.worker
      /\ ctl.main \in Running =>
            \/ ctl'.main \in Running
            \/ Destroy /\ ctl'.main = IF enable THEN "flushing" ELSE "closing"
      /\ ctl.main = "flushing" => Collecting("main") /\ ctl'.main \in {"flushing", "sync"}
      /\ ctl.main \notin Running \cup {"flushing"} =>
            /\ UNCHANGED readVars /\ ctl'.main \notin Running \cup {"flushing"}
            /\ ctl'.main = "closed" => flushed' = Len(file)
  BY MainMoves
<1>3. TurnRing' /\ TurnLast' /\ entries' = entries /\ head' = head /\ mem' = mem
      /\ (AvoidsBoundary' => AvoidsBoundary)
  BY <1>1, <1>2, TurnKept
<1>4. Quiet'
  <2> SUFFICES ASSUME ctl'.main \notin Running, NEW p \in Producers PROVE prod'[p].pc = "idle"
    BY DEF Quiet
  <2>1. prod' = prod
    BY <1>2 DEF logVars
  <2>2. CASE ctl.main \in Running
    BY <1>2, <2>1, <2>2 DEF Destroy
  <2>3. CASE ctl.main \notin Running
    BY <1>1, <2>1, <2>3 DEF Quiet
  <2> QED BY <2>2, <2>3
<1>5. AtClose'
  <2> SUFFICES ASSUME ctl'.main = "closed" PROVE flushed' = Len(file')
    BY DEF AtClose
  <2>1. ctl.main \notin Running \cup {"flushing"}
    BY <1>2 DEF Running
  <2> QED BY <1>2, <2>1 DEF readVars
<1>6. Grown(file, file') /\ reported \subseteq reported'
  BY MainWrites
<1>7. /\ file \in Seq(Nat) /\ file' \in Seq(Nat) /\ LogInv /\ entries \in Seq(Entry) /\ Grown(entries, entries)
      /\ Len(entries) \in Int
  BY DEF CollectorInv, ReaderTypes, LogInv, RingTypes, Grown
<1>8. ASSUME AvoidsBoundary' PROVE TurnFile'
  <2>1. AvoidsBoundary /\ TurnFile
    BY <1>1, <1>3, <1>8
  <2>2. \A k \in 1..Len(file) : file[k] # Torn
    BY <2>1 DEF TurnFile
  <2>3. CASE InMiddle /\ ctl.main \in Running /\ ctl'.main \in Running
    <3>1. UNCHANGED <<file, bookmark>>
      BY <2>3, MainRuns
    <3>2. WorkerTurn'
      BY <1>1, <1>2, <1>6, <2>1, <2>3, <3>1, WorkerBeside DEF TurnFile
    <3>3. MainTurn' /\ InMiddle'
      BY <1>2, <2>3 DEF MainTurn, InMiddle, Running
    <3> QED BY <2>2, <3>1, <3>2, <3>3 DEF TurnFile
  <2>4. CASE InMiddle /\ ctl.main \in Running /\ ctl'.main \notin Running
    <3>1. enable
      <4>1. EnableCollect /\ enable = EnableCollect
        BY <2>4 DEF CollectorInv, Closes, InMiddle, Running
      <4> QED BY <4>1
    <3>2. Destroy /\ ctl'.main = "flushing"
      BY <1>2, <2>4, <3>1
    <3>3. CallCollect("main", "flushing")
      BY <3>1, <3>2 DEF Destroy
    <3> DEFINE next == [NoRead EXCEPT !.pc = "collect"]
    <3>4. rd' = [rd EXCEPT !["main"] = next] /\ UNCHANGED <<file, bookmark>>
      BY <3>3 DEF CallCollect
    <3>5. next.pc = "collect"
      BY DEF NoRead
    <3> HIDE DEF next
    <3>6. rd'["main"].pc = "collect"
      BY <3>4, <3>5, BothReaders, OneReaderMoves
    <3>7. MainTurn'
      BY <3>6 DEF MainTurn, MainAtWork
    <3>8. WorkerTurn'
      BY <1>1, <1>2, <1>6, <2>1, <2>4, <3>4, WorkerBeside DEF TurnFile
    <3>9. InMiddle'
      BY <1>2, <2>4, <3>2 DEF InMiddle
    <3> QED BY <2>2, <3>4, <3>7, <3>8, <3>9 DEF TurnFile
  <2>5. CASE InMiddle /\ ctl.main \notin Running
    <3>1. ctl.main = "flushing" /\ Collecting("main") /\ ctl'.main \in {"flushing", "sync"}
      BY <1>2, <2>5 DEF InMiddle
    <3>2. WorkerTurn /\ MainTurn
      BY <2>1, <2>5 DEF TurnFile
    <3>3. /\ file' = file \/ \E n \in Nat \ {0} : file' = Append(file, n)
          /\ ctl'.main = "flushing" => WorkerTurn' /\ MainTurn'
          /\ ctl'.main # "flushing" => /\ Stored(Len(entries), entries, file', reported')
                                       /\ WholeRead(rd'["main"], entries, mem)
      BY <1>1, <2>1, <3>1, <3>2, MainFlushes
    <3>4. \A k \in 1..Len(file') : file'[k] # Torn
      BY <1>7, <2>2, <3>3, WholeFile
    <3>5. CASE ctl'.main = "flushing"
      <4>1. InMiddle'
        BY <1>2, <2>5, <3>5 DEF InMiddle
      <4> QED BY <3>3, <3>4, <3>5, <4>1 DEF TurnFile
    <3>6. CASE ctl'.main = "sync"
      <4>1. ~InMiddle' /\ ctl'.main \notin Running
        BY <3>6 DEF InMiddle, Running
      <4>2. WholeRead(rd["worker"], entries, mem)
        BY <1>1, <3>2, WorkerWhole
      <4>3. \A r \in Readers : WholeRead(rd'[r], entries', mem')
        BY <1>2, <1>3, <3>3, <3>6, <4>2, BothReaders
      <4>4. Flushed'
        BY <1>3, <3>3, <3>6, <4>1, <4>3 DEF Flushed
      <4> QED BY <3>4, <4>1, <4>4 DEF TurnFile
    <3> QED BY <3>1, <3>5, <3>6
  <2>6. CASE ~InMiddle
    <3>1. Flushed
      BY <2>1, <2>6 DEF TurnFile
    <3>2. WholeRead(rd["worker"], entries, mem) /\ WholeRead(rd["main"], entries, mem)
      BY <3>1, BothReaders DEF Flushed
    <3>3. /\ WholeRead(rd'["main"], entries, mem)
          /\ file' = file \/ \E n \in Nat \ {0} : file' = Append(file, n)
      BY <1>1, <3>2, MainWrites
    <3>4. \A k \in 1..Len(file') : file'[k] # Torn
      BY <1>7, <2>2, <3>3, WholeFile
    <3>5. ~InMiddle'
      BY <1>2, <2>6 DEF InMiddle
    <3>6. \A r \in Readers : WholeRead(rd'[r], entries', mem')
      BY <1>2, <1>3, <3>2, <3>3, BothReaders
    <3>7. ctl.worker # "none" => Stored(Len(entries), entries, file', reported')
      <4> DEFINE n == Len(entries)
      <4>1. n \in Int /\ n <= Len(entries)
        BY <1>7
      <4>2. ctl.worker # "none" => Stored(n, entries, file, reported)
        BY <3>1 DEF Flushed
      <4> HIDE DEF n
      <4>3. ctl.worker # "none" => Stored(n, entries, file', reported')
        BY <1>6, <1>7, <4>1, <4>2, StoredMore
      <4> QED BY <4>3 DEF n
    <3>8. (ctl.worker = "none" /\ ctl'.main \in Running) => file' = <<>>
      <4> SUFFICES ASSUME ctl.worker = "none", ctl'.main \in Running PROVE file' = <<>>
        OBVIOUS
      <4>1. ctl.main \in Running /\ file' = file
        BY MainRuns
      <4> QED BY <3>1, <4>1 DEF Flushed
    <3>9. Flushed'
      BY <1>2, <1>3, <3>6, <3>7, <3>8 DEF Flushed
    <3> QED BY <3>4, <3>5, <3>9 DEF TurnFile
  <2> QED BY <2>3, <2>4, <2>5, <2>6
<1> QED BY <1>3, <1>4, <1>5, <1>8 DEF TurnInv

-----------------------------------------------------------------------------
(* The invariant *)
LEMMA TurnStutters ==
    ASSUME TurnInv, UNCHANGED vars
    PROVE  TurnInv'
<1>1. /\ UNCHANGED logVars /\ UNCHANGED <<rd, file, reported, bookmark, ctl, flushed>>
  BY DEF vars, readVars, collectVars
<1>2. /\ mem' = mem /\ currentIndex' = currentIndex /\ lastWritten' = lastWritten /\ prod' = prod
      /\ entries' = entries /\ published' = published /\ head' = head
  BY <1>1 DEF logVars
<1>3. /\ TurnRing => TurnRing'
      /\ TurnLast => TurnLast'
      /\ Done' = Done /\ (AvoidsBoundary' <=> AvoidsBoundary)
  BY <1>1, TurnKept
<1>4. Quiet' /\ AtClose'
  BY <1>1, <1>2 DEF TurnInv, Quiet, AtClose
<1>5. TurnFile => TurnFile'
  <2>1. WorkerTurn => WorkerTurn'
    BY <1>1, <1>2, <1>3 DEF WorkerTurn, Marked, AtWork
  <2>2. MainTurn => MainTurn'
    BY <1>1, <1>2 DEF MainTurn, MainAtWork
  <2>3. Flushed => Flushed'
    BY <1>1, <1>2 DEF Flushed
  <2>4. InMiddle' <=> InMiddle
    BY <1>1 DEF InMiddle
  <2> QED BY <1>1, <2>1, <2>2, <2>3, <2>4 DEF TurnFile
<1> QED BY <1>3, <1>4, <1>5 DEF TurnInv

LEMMA TurnInvStep ==
    ASSUME OneProducer, MarginCovers, NeverLaps, CollectorInv, TurnInv, [Next]_vars
    PROVE  TurnInv'
<1>1. CollectorInv'
  BY CollectorStep
<1>2. CASE \E p \in Producers : TraceStep(p) \/ \E len \in Lens : Trace(p, len)
  BY <1>1, <1>2, ProducerTurnFile
<1>3. CASE Worker
  BY <1>1, <1>3, WorkerTurnFile
<1>4. CASE Main \/ Dump \/ Destroy
  BY <1>1, <1>4, MainTurnFile
<1>5. CASE UNCHANGED vars
  BY <1>5, TurnStutters
<1> QED BY <1>2, <1>3, <1>4, <1>5 DEF Next

LEMMA RingAtStart ==
    ASSUME Init
    PROVE  TurnRing
<1>1. /\ mem = [c \in RingCells |-> Blank] /\ prod = [p \in Producers |-> Idle] /\ entries = <<>>
      /\ published = {} /\ head = currentIndex
  BY DEF Init, LogInit, RingCells
<1>2. Len(entries) = 0
  BY <1>1
<1>3. Writer = Idle /\ Idle.pc = "idle"
  BY <1>1, IdleThread DEF Writer
<1>4. Done = 0
  BY <1>1, <1>2, IdleThread DEF Done, DoneOf, Copying
<1>5. Chained(entries, head)
  <2>1. Edge(entries, head, 0) = head
    BY <1>2 DEF Edge
  <2> QED BY <1>2, <2>1 DEF Chained
<1>6. Folded(Writer, currentIndex, head)
  BY <1>1, <1>3 DEF Folded
<1>7. HeldBy(Writer, entries, head, mem)
  BY <1>2 DEF HeldBy
<1>8. OwnedBy(Writer, entries, head, mem)
  BY <1>1 DEF OwnedBy
<1>9. Latest(Writer, entries)
  BY <1>3 DEF Latest, Copying
<1>10. published = 1..Done
  BY <1>1, <1>4
<1> QED BY <1>5, <1>6, <1>7, <1>8, <1>9, <1>10 DEF TurnRing

LEMMA TurnInitial ==
    ASSUME EmptyAtStart, Init
    PROVE  TurnInv
<1>1. /\ mem = [c \in RingCells |-> Blank] /\ currentIndex \in InitIndex /\ lastWritten \in InitLast
      /\ prod = [p \in Producers |-> Idle] /\ entries = <<>> /\ published = {} /\ head = currentIndex
      /\ rd = [r \in Readers |-> NoRead] /\ file = <<>>
  BY DEF Init, LogInit, ReadInit, RingCells
<1>2. Len(entries) = 0 /\ head \in Nat /\ Edge(entries, head, 0) = head /\ Size \in Nat \ {0} /\ Len(file) = 0
  BY <1>1, LogAssumption, RingSize DEF Edge
<1>3. Writer = Idle /\ Idle.pc = "idle"
  BY <1>1, IdleThread DEF Writer
<1>4. Done = 0
  BY <1>1, <1>2, IdleThread DEF Done, DoneOf, Copying
<1>5. normalize(lastWritten) = normalize(head)
  BY <1>1 DEF EmptyAtStart
<1>6. TurnRing
  BY RingAtStart
<1>7. TurnLast
  BY <1>2, <1>3, <1>4, <1>5 DEF TurnLast
<1>8. /\ ctl.main = "run" /\ ctl.worker \in {"none", "loop"}
      /\ ctl.worker = "loop" => bookmark = lastWritten
  BY DEF Init, setEnable
<1>9. Quiet /\ AtClose
  BY <1>8 DEF Quiet, AtClose, Running
<1>10. \A r \in Readers : rd[r].pc = "idle"
  BY <1>1 DEF NoRead
<1>11. CASE ctl.worker = "loop"
  <2> DEFINE f == 0
             m == head
  <2>1. f \in 0..Done /\ m \in 0..head /\ f \in f..Done
    BY <1>2, <1>4
  <2>2. Marked(f, m)
    <3>1. Stored(f, entries, file, reported)
      BY DEF Stored
    <3>2. head < m + Size
      BY <1>2
    <3> QED BY <1>2, <1>5, <1>8, <1>11, <3>1, <3>2 DEF Marked, Behind
  <2>3. AtWork(rd["worker"], f, m, f)
    BY <1>10, BothReaders DEF AtWork
  <2>4. Ordered(file, f)
    BY <1>2 DEF Ordered
  <2> HIDE DEF f, m
  <2>5. WorkerTurn
    BY <2>1, <2>2, <2>3, <2>4 DEF WorkerTurn
  <2>6. MainTurn
    BY <1>8 DEF MainTurn
  <2>7. InMiddle
    BY <1>8, <1>11 DEF InMiddle, Running
  <2>8. TurnFile
    BY <1>2, <2>5, <2>6, <2>7 DEF TurnFile
  <2> QED BY <1>6, <1>7, <1>9, <2>8 DEF TurnInv
<1>12. CASE ctl.worker = "none"
  <2>1. Flushed /\ ~InMiddle
    BY <1>1, <1>10, <1>12 DEF Flushed, WholeRead, InMiddle
  <2>2. TurnFile
    BY <1>2, <2>1 DEF TurnFile
  <2> QED BY <1>6, <1>7, <1>9, <2>2 DEF TurnInv
<1> QED BY <1>8, <1>11, <1>12

-----------------------------------------------------------------------------
(* The theorems *)

(* One thread logs, and stays behind the bookmark *)
OneBehind == OneProducer /\ MarginCovers /\ NeverLaps /\ EmptyAtStart

LEMMA OneBehindStays == OneBehind => []OneBehind
<1>1. OneBehind => OneBehind'
  BY DEF OneBehind, OneProducer, MarginCovers, NeverLaps, EmptyAtStart, normalize
<1> QED BY <1>1, PTL

(* The inductive invariant holds of one thread that logs and never laps    *)
(* the bookmark, for any number of turns of the ring.                      *)
THEOREM TurnInvariant == OneBehind /\ Spec => []TurnInv
<1>1. OneBehind /\ Init => TurnInv
  BY TurnInitial DEF OneBehind
<1>2. OneBehind /\ CollectorInv /\ TurnInv /\ [Next]_vars => TurnInv'
  BY TurnInvStep DEF OneBehind
<1> QED BY <1>1, <1>2, OneBehindStays, CollectorInvariant, PTL DEF Spec

(* getLog() never accepts anything but one whole entry, although it only   *)
(* validates header and trailer and the producer writes while it copies:   *)
(* no line of the trace file is a mixture, through any number of turns,    *)
(* rollovers of the index and the two collect() that ~Log() lets run side  *)
(* by side, as long as no entry ends exactly at the end of the ring.       *)
THEOREM LinesAreWhole == OneBehind /\ Spec => []WholeLines
<1>1. TurnInv => WholeLines
  BY DEF TurnInv, TurnFile, WholeLines
<1> QED BY <1>1, TurnInvariant, PTL

(* collect() writes what one thread logs in the order of the calls and     *)
(* each entry at most once, turn after turn, until ~Log() collects beside  *)
(* the worker.                                                             *)
THEOREM TurnsInOrder == OneBehind /\ Spec => []LinesInOrder
<1>1. CollectorInv /\ TurnInv => LinesInOrder
  <2> SUFFICES ASSUME CollectorInv, TurnInv, AvoidsBoundary, ctl.main = "run",
                      NEW j \in 1..Len(file), NEW k \in 1..Len(file), j < k
               PROVE  file[j] < file[k]
    BY DEF LinesInOrder
  <2>1. TurnFile /\ ctl.main \in Running
    BY DEF TurnInv, Running
  <2>2. CASE InMiddle
    <3>1. \E w : Ordered(file, w)
      BY <2>1, <2>2 DEF TurnFile, WorkerTurn
    <3> QED BY <3>1 DEF Ordered
  <2>3. CASE ~InMiddle
    <3>1. file = <<>>
      BY <2>1, <2>3 DEF TurnFile, Flushed, InMiddle
    <3> QED BY <3>1
  <2> QED BY <2>2, <2>3
<1> QED BY <1>1, CollectorInvariant, TurnInvariant, PTL

(* What is in the file is there for good, and what collect() has not       *)
(* written by the time the bookmark has reached the last written index is  *)
(* an entry that straddles the end of the ring, and the file says so: in   *)
(* any turn of the ring, whether ~Log() has begun or not.                  *)
THEOREM StraddlersOnly == OneBehind /\ Spec => [](AvoidsBoundary => OnlyStraddlersLost)
<1>1. OneBehind /\ CollectorInv /\ TurnInv => (AvoidsBoundary => OnlyStraddlersLost)
  <2> SUFFICES ASSUME OneProducer, CollectorInv, TurnInv, AvoidsBoundary, CaughtUp, NEW n \in published
               PROVE  InFile(n) \/ (Straddles(n) /\ "file" \in reported)
    BY DEF OneBehind, OnlyStraddlersLost
  <2>1. /\ TurnRing /\ TurnLast /\ TurnFile /\ LogInv
        /\ ctl.worker = "loop" /\ normalize(bookmark) = normalize(lastWritten)
    BY DEF TurnInv, CollectorInv, CaughtUp
  <2>2. /\ Done \in 0..Len(entries) /\ Done \in Nat /\ head \in Nat /\ Len(entries) \in Nat
        /\ published = 1..Done /\ normalize(lastWritten) = normalize(Edge(entries, head, Done))
    BY <2>1, TurnFacts DEF TurnRing, TurnLast
  <2>3. \E g \in Done..Len(entries) : Stored(g, entries, file, reported)
    <3>1. CASE InMiddle
      <4>1. PICK f \in 0..Done, m \in 0..head : Marked(f, m)
        BY <2>1, <3>1 DEF TurnFile, WorkerTurn
      <4>2. /\ normalize(bookmark) = normalize(m) /\ head < m + Size
            /\ Behind(entries, head, f, m) /\ Stored(f, entries, file, reported)
        BY <4>1 DEF Marked
      <4> DEFINE g == Done
      <4>3. g \in 0..Done /\ f \in 0..g /\ m \in Nat /\ normalize(m) = normalize(Edge(entries, head, g))
        BY <2>1, <2>2, <4>2
      <4> HIDE DEF g
      <4>4. f = g
        BY <2>1, <4>2, <4>3, MarkPlace
      <4> QED BY <2>2, <4>2, <4>4 DEF g
    <3>2. CASE ~InMiddle
      <4>1. Stored(Len(entries), entries, file, reported)
        BY <2>1, <3>2 DEF TurnFile, Flushed
      <4> QED BY <2>2, <4>1
    <3> QED BY <3>1, <3>2
  <2>4. PICK g \in Done..Len(entries) : Stored(g, entries, file, reported)
    BY <2>3
  <2>5. n \in 1..g
    BY <2>2
  <2> QED BY <2>4, <2>5 DEF Stored, InFile, Straddles, Across
<1> QED BY <1>1, OneBehindStays, CollectorInvariant, TurnInvariant, PTL

(* ~Log() leaves nothing behind: when it has closed the file after the     *)
(* worker has ended, every entry whose traceVargs() returned is on disk or *)
(* straddles the end of the ring, although ~Log() and the worker collect   *)
(* side by side and move the same bookmark.                                *)
THEOREM ClosedAndDrained == OneBehind /\ Spec => [](AvoidsBoundary => DrainedAtClose)
<1>1. OneBehind /\ CollectorInv /\ TurnInv => (AvoidsBoundary => DrainedAtClose)
  <2> SUFFICES ASSUME OneProducer, CollectorInv, TurnInv, AvoidsBoundary,
                      ctl.main = "closed", ctl.worker = "done", NEW n \in published
               PROVE  OnDisk(n) \/ Straddles(n)
    BY DEF OneBehind, DrainedAtClose
  <2>1. TurnRing /\ TurnFile /\ LogInv /\ flushed = Len(file)
    BY DEF TurnInv, CollectorInv, AtClose
  <2>2. Done \in 0..Len(entries) /\ Len(entries) \in Nat /\ published = 1..Done
    BY <2>1, TurnFacts DEF TurnRing
  <2>3. Stored(Len(entries), entries, file, reported)
    BY <2>1 DEF TurnFile, Flushed, InMiddle, Running
  <2>4. n \in 1..Len(entries)
    BY <2>2
  <2> QED BY <2>1, <2>3, <2>4 DEF Stored, OnDisk, Straddles, Across
<1> QED BY <1>1, OneBehindStays, CollectorInvariant, TurnInvariant, PTL

-----------------------------------------------------------------------------
(* dump() of a log that nobody writes to meanwhile *)

(* Every entry fits into the ring. *)
ShortEntries == \A len \in Lens : len < Size

(* The wrap count tells whether the index has been folded back. *)
Unfolded == (~wrapped /\ Writer.pc # "wrap") => currentIndex = head

(* The oldest entry whose header is still in the ring *)
Oldest(n) ==
    /\ n \in 1..Len(entries) /\ Retained(n)
    /\ \A m \in 1..Len(entries) : Retained(m) => n <= m

NoHeader(x) == ~IsHeader(getByte(mem, x))

(* The lines are the entries from the oldest one on. *)
Lists(n, lines) == \A k \in 1..Len(lines) : lines[k] = n + (k - 1)

Listed(lines) == lines = <<>> \/ \E n \in 1..Len(entries) : Oldest(n) /\ Lists(n, lines)

(* dump() searches from the current index on and has passed no header, ... *)
Seeking(d) ==
    /\ d.task = "first" /\ d.mode = "first" /\ d.pc \in Looking
    /\ normalize(d.at) = normalize(head + d.loop)
    /\ \A m \in 1..Len(entries) : Retained(m) => head + d.loop <= entries[m].pos + Size
    /\ d.pc # "cmp" => \E n \in 1..Len(entries) : head + d.loop = entries[n].pos + Size /\ Matches(d, n)

(* ... or its search has ended at the oldest entry, if at any, ...         *)
Found(d) ==
    /\ d.task = "first" /\ d.pc = "ret"
    /\ \/ NoHeader(d.ret)
       \/ \E n \in 1..Len(entries) : Oldest(n) /\ normalize(d.ret) = normalize(entries[n].pos)

(* ... or it prints entry after entry, to the end of the ring or the log,  *)
Listing(d, lines) ==
    /\ d.task = "dump" /\ d.mode = "print" /\ d.pc \in {"hdr", "body"} /\ d.at = d.i /\ d.i < d.end
    /\ \E n \in 1..Len(entries), t \in 0..head :
          /\ Oldest(n) /\ Lists(n, lines)
          /\ n + Len(lines) \in 1..Len(entries) /\ t + d.i = entries[n + Len(lines)].pos
          /\ normalize(t) = 0 /\ t + d.end <= head
          /\ Matches(d, n + Len(lines))

(* ... or it has started where no entry starts, and prints nothing.        *)
Lost(d) ==
    /\ d.task = "dump"
    /\ \/ d.mode = "scan" /\ d.pc \in Looking
       \/ d.mode = "print" /\ d.pc = "hdr" /\ NoHeader(d.at)

AtDump(d, lines) ==
    \/ lines = <<>> /\ (Seeking(d) \/ Found(d) \/ Lost(d))
    \/ Listing(d, lines)
    \/ d.pc = "ret" /\ d.task = "dump" /\ Listed(lines)

DumpTurn ==
    (ctl.main \in Running /\ goal = 1..Len(entries)) =>
        IF ctl.main = "run" THEN Listed(stdout) ELSE AtDump(rd["main"], stdout)

OldestInv == TurnRing /\ Unfolded /\ goal \subseteq published /\ DumpTurn

(* All entries are complete when the goal of dump() is all of them. *)
LEMMA NobodyCopies ==
    ASSUME OneProducer, LogInv, TurnRing, goal \subseteq published, goal = 1..Len(entries)
    PROVE  Done = Len(entries) /\ Writer.pc \notin Copying
<1>1. Len(entries) \in Nat /\ Done \in Nat /\ published = 1..Done
  BY TurnFacts DEF TurnRing
<1>2. Writer.pc \notin Copying
  <2> SUFFICES ASSUME Writer.pc \in Copying PROVE FALSE
    OBVIOUS
  <2>1. Len(entries) > 0 /\ Done = Len(entries) - 1
    BY WriterFields DEF TurnRing, Latest
  <2>2. Len(entries) \in 1..Done
    BY <1>1, <2>1
  <2> QED BY <1>1, <2>1, <2>2
<1> QED BY <1>2, WriterFields

(* A header in the ring is that of an entry of the last turn, ... *)
LEMMA OwnHeader ==
    ASSUME OneProducer, LogInv, TurnRing, Writer.pc # "copy", NEW x \in Nat, ~NoHeader(x)
    PROVE  \E n \in 1..Len(entries) : Retained(n) /\ normalize(entries[n].pos) = normalize(x)
<1> DEFINE c == normalize(x)
           cell == mem[c]
           n == cell.entry
<1>1. c \in RingCells /\ cell = getByte(mem, x)
  BY CellIs DEF getByte
<1>2. cell.entry = n /\ cell.part = 0 /\ n # 0
  BY <1>1 DEF NoHeader, IsHeader
<1>3. cell # Blank
  BY <1>2 DEF Blank
<1>4. /\ n \in 1..Len(entries) /\ normalize(entries[n].pos + 0) = c
      /\ head <= entries[n].pos + 0 + Size \/ Overdue(Writer, entries, c)
  BY <1>1, <1>2, <1>3 DEF TurnRing, OwnedBy
<1> HIDE DEF n, c
<1>5. entries[n].pos \in Nat
  BY <1>4, TurnFacts, ChainAt
<1>6. entries[n].pos + 0 = entries[n].pos
  BY <1>5
<1> QED BY <1>4, <1>6 DEF Retained, Overdue, c

(* ... and such an entry is there as a whole.                               *)
LEMMA WholeThere ==
    ASSUME OneProducer, LogInv, TurnRing, Writer.pc # "copy", NEW n \in 1..Len(entries), Retained(n),
           NEW x \in Nat, normalize(x) = normalize(entries[n].pos)
    PROVE  /\ \A k \in 0..(entries[n].len - 1) : getByte(mem, x + k) = CellOf(n, k)
           /\ ~NoHeader(x)
<1>1. entries[n].pos \in Nat /\ entries[n].len \in Nat /\ entries[n].len >= 2 /\ head \in Nat
  BY TurnFacts, ChainAt
<1>2. ASSUME NEW k \in 0..(entries[n].len - 1) PROVE getByte(mem, x + k) = CellOf(n, k)
  <2>1. k \in Nat /\ head <= entries[n].pos + k + Size
    <3> DEFINE pos == entries[n].pos
               len == entries[n].len
    <3>1. pos \in Nat /\ len \in Nat /\ head <= pos + Size /\ k \in 0..(len - 1)
      BY <1>1 DEF Retained
    <3> HIDE DEF pos, len
    <3>2. k \in Nat /\ head <= pos + k + Size
      BY <1>1, <3>1, RingSize
    <3> QED BY <3>2 DEF pos
  <2>2. normalize(x + k) = normalize(entries[n].pos + k)
    BY <1>1, <2>1, CellAhead
  <2>3. ~Pending(Writer, n, k)
    BY DEF Pending
  <2>4. mem[normalize(entries[n].pos + k)] = CellOf(n, k)
    BY <2>1, <2>3 DEF TurnRing, HeldBy
  <2> QED BY <2>2, <2>4 DEF getByte
<1>3. x + 0 = x /\ 0 \in 0..(entries[n].len - 1) /\ n # 0
  BY <1>1, TurnFacts
<1>4. getByte(mem, x) = CellOf(n, 0)
  <2>1. getByte(mem, x + 0) = CellOf(n, 0)
    BY <1>2, <1>3
  <2> QED BY <1>3, <2>1
<1>5. ~NoHeader(x)
  BY <1>3, <1>4 DEF NoHeader, IsHeader, CellOf
<1> QED BY <1>2, <1>5

(* Positions and numbers of entries are in the same order. *)
LEMMA OldestIs ==
    ASSUME OneProducer, LogInv, TurnRing, NEW n \in 1..Len(entries), Retained(n),
           \A m \in 1..Len(entries) : Retained(m) => entries[n].pos <= entries[m].pos
    PROVE  Oldest(n)
<1> SUFFICES ASSUME NEW m \in 1..Len(entries), Retained(m) PROVE n <= m
  BY DEF Oldest
<1>1. entries[n].pos <= entries[m].pos
  OBVIOUS
<1>2. entries[n].pos = Edge(entries, head, n - 1) /\ entries[m].pos = Edge(entries, head, m - 1)
  BY TurnFacts, ChainAt
<1>3. n - 1 \in 0..Len(entries) /\ m - 1 \in 0..Len(entries) /\ n \in Nat /\ m \in Nat
  BY TurnFacts
<1>4. n - 1 <= m - 1
  BY <1>1, <1>2, <1>3, TurnFacts, EdgeOrder
<1> QED BY <1>3, <1>4

(* A header at the cell that the search looks at belongs to the oldest entry. *)
LEMMA SoughtHeader ==
    ASSUME OneProducer, LogInv, TurnRing, Writer.pc # "copy", NEW x \in Nat, NEW loop \in Nat,
           normalize(x) = normalize(head + loop), ~NoHeader(x),
           \A m \in 1..Len(entries) : Retained(m) => head + loop <= entries[m].pos + Size
    PROVE  \E n \in 1..Len(entries) : head + loop = entries[n].pos + Size
<1>1. PICK n \in 1..Len(entries) : Retained(n) /\ normalize(entries[n].pos) = normalize(x)
  BY OwnHeader
<1> DEFINE pos == entries[n].pos
           y == head + loop
           z == pos + Size
<1>2. pos \in Nat /\ head \in Nat /\ pos < head /\ y <= z
  <2>1. /\ pos \in Nat /\ entries[n].len \in Nat /\ entries[n].len >= 2 /\ head \in Nat
        /\ pos + entries[n].len = Edge(entries, head, n) /\ Edge(entries, head, n) <= head
    BY TurnFacts, ChainAt
  <2>2. y <= z
    BY <1>1
  <2> DEFINE len == entries[n].len
             edge == Edge(entries, head, n)
  <2> HIDE DEF pos, len, edge
  <2>3. pos + len = edge /\ len \in Nat /\ len >= 2 /\ edge <= head
    BY <2>1 DEF len, edge
  <2> QED BY <2>1, <2>2, <2>3 DEF pos
<1>3. normalize(z) = normalize(pos)
  BY <1>2, CellRound
<1>4. normalize(y) = normalize(z)
  BY <1>1, <1>3
<1> HIDE DEF pos
<1>5. y \in Nat /\ z \in Nat /\ y < z + Size /\ z < y + Size
  BY <1>2, RingSize
<1> HIDE DEF y, z
<1>6. y = z
  BY <1>4, <1>5, CellApart
<1> QED BY <1>6 DEF y, z, pos

LEMMA NoneRetained ==
    ASSUME OneProducer, LogInv, TurnRing, Writer.pc # "copy", NEW x \in Nat,
           \A m \in 1..Len(entries) : Retained(m) => head + Size <= entries[m].pos + Size
    PROVE  NoHeader(x)
<1> SUFFICES ASSUME ~NoHeader(x) PROVE FALSE
  OBVIOUS
<1>1. PICK n \in 1..Len(entries) : Retained(n)
  BY OwnHeader
<1> DEFINE pos == entries[n].pos
           len == entries[n].len
           edge == Edge(entries, head, n)
<1>2. pos \in Nat /\ len \in Nat /\ len >= 2 /\ pos + len = edge /\ edge <= head /\ head \in Nat
  BY TurnFacts, ChainAt
<1>3. head + Size <= pos + Size
  BY <1>1
<1> HIDE DEF pos, len, edge
<1> QED BY <1>2, <1>3, RingSize

(* getNextHeader() for firstLine() *)
LEMMA SeeksOn ==
    ASSUME OneProducer, LogInv, TurnRing, Writer.pc # "copy", NEW d \in Reader, Seeking(d), NoHeader(d.at),
           NEW next, next = SearchOn(d)
    PROVE  Seeking(next) \/ Found(next)
<1> DEFINE loop == d.loop
           at == d.at
<1>1. at \in Nat /\ loop \in 0..Size /\ loop \in Nat /\ head \in Nat /\ Size \in Nat
  BY ReaderFields, TurnFacts, RingSize
<1>2. /\ d.task = "first" /\ d.mode = "first" /\ normalize(at) = normalize(head + loop)
      /\ \A m \in 1..Len(entries) : Retained(m) => head + loop <= entries[m].pos + Size
  BY DEF Seeking
<1>3. CASE loop + 1 > Size
  <2>1. next = Return(d, 0)
    BY <1>2, <1>3 DEF SearchOn
  <2>2. next.task = "first" /\ next.pc = "ret" /\ next.ret = 0
    BY <1>2, <2>1, ReturnFields
  <2>3. loop = Size
    <3> HIDE DEF loop
    <3> QED BY <1>1, <1>3
  <2>4. NoHeader(0)
    <3>1. \A m \in 1..Len(entries) : Retained(m) => head + Size <= entries[m].pos + Size
      BY <1>2, <2>3
    <3> QED BY <3>1, NoneRetained
  <2> QED BY <2>2, <2>4 DEF Found
<1>4. CASE ~(loop + 1 > Size)
  <2>1. next = [d EXCEPT !.pc = "cmp", !.at = d.at + 1, !.loop = d.loop + 1, !.hdr = Blank, !.buf = <<>>]
    BY <1>4 DEF SearchOn
  <2>2. /\ next.task = "first" /\ next.mode = "first" /\ next.pc = "cmp"
        /\ next.at = at + 1 /\ next.loop = loop + 1
    BY <1>2, <2>1 DEF Reader
  <2> HIDE DEF at, loop
  <2>3. normalize(at + 1) = normalize(head + (loop + 1))
    <3> DEFINE y == head + loop
    <3>1. y \in Nat /\ normalize(at) = normalize(y) /\ y + 1 = head + (loop + 1)
      BY <1>1, <1>2
    <3> HIDE DEF y
    <3>2. normalize(at + 1) = normalize(y + 1)
      BY <1>1, <3>1, CellAhead
    <3> QED BY <3>1, <3>2
  <2>4. ASSUME NEW m \in 1..Len(entries), Retained(m)
        PROVE  head + (loop + 1) <= entries[m].pos + Size
    <3> DEFINE pos == entries[m].pos
               y == head + loop
               z == pos + Size
    <3>1. pos \in Nat /\ y <= z
      BY <1>2, <2>4, TurnFacts, ChainAt
    <3>2. y # z
      <4> SUFFICES ASSUME y = z PROVE FALSE
        OBVIOUS
      <4>1. normalize(z) = normalize(pos)
        BY <3>1, CellRound
      <4>2. normalize(at) = normalize(pos)
        BY <1>2, <4>1
      <4>3. ~NoHeader(at)
        BY <1>1, <2>4, <4>2, WholeThere
      <4> QED BY <4>3 DEF at
    <3> HIDE DEF pos
    <3>3. head + (loop + 1) <= z
      BY <1>1, <3>1, <3>2
    <3> QED BY <3>3 DEF pos
  <2> QED BY <2>2, <2>3, <2>4 DEF Seeking, Looking
<1> QED BY <1>3, <1>4

LEMMA SeekingReads ==
    ASSUME OneProducer, CollectorInv, TurnRing, Writer.pc # "copy",
           Seeking(rd["main"]), stdout = <<>>, Reading("main")
    PROVE  stdout' = <<>> /\ (Seeking(rd'["main"]) \/ Found(rd'["main"]))
<1> DEFINE d == rd["main"]
<1>1. /\ LogInv /\ d \in Reader /\ d.at \in Nat /\ d.loop \in Nat /\ "main" \in Readers /\ d.loop \in 0..Size
      /\ rd \in [Readers -> Reader]
  BY ReaderFields, BothReaders, RingSize DEF CollectorInv, ReaderTypes
<1>2. /\ d.task = "first" /\ d.mode = "first" /\ d.pc \in Looking /\ normalize(d.at) = normalize(head + d.loop)
      /\ \A m \in 1..Len(entries) : Retained(m) => head + d.loop <= entries[m].pos + Size
  BY DEF Seeking
<1>3. CASE d.pc = "cmp"
  <2>1. ComparePattern("main")
    BY <1>3 DEF Reading, ReadHeader, ReadBody
  <2> DEFINE more == [d EXCEPT !.pc = "hdr"]
  <2>2. stdout' = <<>> /\ rd'["main"] = IF NoHeader(d.at) THEN SearchOn(d) ELSE more
    BY <1>1, <2>1 DEF ComparePattern, Step, NoHeader
  <2>3. CASE NoHeader(d.at)
    <3> DEFINE next == SearchOn(d)
    <3>1. Seeking(next) \/ Found(next)
      BY <1>1, <2>3, SeeksOn
    <3> QED BY <2>2, <2>3, <3>1
  <2>4. CASE ~NoHeader(d.at)
    <3>1. \E n \in 1..Len(entries) : head + d.loop = entries[n].pos + Size
      BY <1>1, <1>2, <2>4, SoughtHeader
    <3>2. /\ more.task = d.task /\ more.mode = d.mode /\ more.pc = "hdr" /\ more.at = d.at /\ more.loop = d.loop
      BY <1>1 DEF Reader
    <3> HIDE DEF more
    <3>3. Seeking(more)
      BY <1>2, <3>1, <3>2 DEF Seeking, Looking, Matches
    <3> QED BY <2>2, <2>4, <3>3
  <2> QED BY <2>3, <2>4
<1>4. CASE d.pc # "cmp"
  <2>1. PICK n \in 1..Len(entries) : head + d.loop = entries[n].pos + Size /\ Matches(d, n)
    BY <1>4 DEF Seeking
  <2> DEFINE pos == entries[n].pos
             loop == d.loop
  <2>2. pos \in Nat /\ head \in Nat /\ head + loop = pos + Size /\ loop \in Nat
    BY <1>1, <2>1, TurnFacts, ChainAt
  <2>3. Retained(n) /\ normalize(d.at) = normalize(pos)
    <3>1. normalize(pos + Size) = normalize(pos)
      BY <2>2, CellRound
    <3>2. normalize(d.at) = normalize(pos)
      BY <1>2, <2>2, <3>1
    <3>3. head <= pos + Size
      <4> HIDE DEF pos, loop
      <4> QED BY <2>2, RingSize
    <3> QED BY <3>2, <3>3 DEF Retained
  <2>4. \A k \in 0..(entries[n].len - 1) : getByte(mem, d.at + k) = CellOf(n, k)
    BY <1>1, <2>3, WholeThere
  <2>5. d.pc \in {"hdr", "body"}
    BY <1>2, <1>4 DEF Looking
  <2>6. PICK next : /\ rd' = [rd EXCEPT !["main"] = next]
                    /\ Onward(d, next, n) \/ Accepts(d, next, n)
    BY <1>1, <2>1, <2>4, <2>5, ReadsWhole
  <2>7. rd'["main"] = next
    BY <1>1, <2>6
  <2>8. CASE Onward(d, next, n)
    <3>1. /\ next.pc = "body" /\ next.task = d.task /\ next.mode = d.mode /\ next.at = d.at
          /\ next.loop = d.loop /\ Matches(next, n) /\ stdout' = stdout
      BY <2>8 DEF Onward
    <3>2. Seeking(next)
      BY <1>2, <2>1, <3>1 DEF Seeking, Looking
    <3> QED BY <2>7, <3>1, <3>2
  <2>9. CASE Accepts(d, next, n)
    <3>1. next = Return(d, d.at) /\ stdout' = stdout
      BY <1>2, <2>9 DEF Accepts, GetLogSucceeded
    <3>2. next.task = "first" /\ next.pc = "ret" /\ next.ret = d.at
      BY <1>2, <3>1, ReturnFields
    <3>3. ASSUME NEW m \in 1..Len(entries), Retained(m) PROVE pos <= entries[m].pos
      <4> DEFINE q == entries[m].pos
      <4>1. q \in Nat /\ head + loop <= q + Size
        BY <1>1, <1>2, <3>3, TurnFacts, ChainAt
      <4> HIDE DEF q, pos, loop
      <4>2. pos <= q
        BY <2>2, <4>1, RingSize
      <4> QED BY <4>2 DEF q
    <3>4. Oldest(n)
      BY <1>1, <2>3, <3>3, OldestIs
    <3>5. Found(next)
      BY <2>3, <3>2, <3>4 DEF Found
    <3> QED BY <2>7, <3>1, <3>5
  <2> QED BY <2>6, <2>8, <2>9
<1> QED BY <1>3, <1>4

(* dumpRange() of dump(): the range ends before the log does. *)
LEMMA DumpRange ==
    ASSUME NEW d \in Reader, NEW start \in Nat, NEW end \in Nat, NEW s \in Nat, s = normalize(start),
           NEW e \in Nat, e = IF s > normalize(end) + 1 THEN Size ELSE normalize(end) + 1,
           NEW next, next = dumpRange([d EXCEPT !.task = "dump"], start, end)
    PROVE  /\ next.task = "dump" /\ next.mode = "print"
           /\ s < e => next.pc = "hdr" /\ next.end = e /\ next.at = s /\ next.i = s
           /\ ~(s < e) => next.pc = "ret"
<1> DEFINE d1 == [d EXCEPT !.task = "dump"]
           d2 == [d1 EXCEPT !.end = e]
<1>1. d1 \in Reader /\ d1.task = "dump"
  BY ReaderNames DEF Reader
<1>2. d2.end = e /\ d2.task = "dump"
  BY <1>1 DEF Reader
<1> HIDE DEF d1
<1>3. next = LoopAt(d2, s)
  BY DEF dumpRange, d1
<1> HIDE DEF d2
<1> QED BY <1>2, <1>3, LoopsAt

(* An entry of the turn that begins at t, and the end of its range *)
LEMMA RangeInLog ==
    ASSUME NEW h \in Nat, NEW b \in Nat, b = normalize(h), NEW t \in Nat, normalize(t) = 0, NEW s \in Nat, t + s < h,
           NEW f \in Nat, f <= Size, b > 0 => f = b,
           NEW e \in Nat, e = IF s > f THEN Size ELSE f
    PROVE  t + e <= h
<1>1. Size \in Nat \ {0}
  BY RingSize
<1>2. CASE t + Size <= h
  BY <1>1, <1>2
<1>3. CASE h < t + Size
  <2> DEFINE i == h - t
  <2>1. i \in Nat /\ i < Size /\ t + i = h /\ s < i
    BY <1>1, <1>3
  <2> HIDE DEF i
  <2>2. b = i
    BY <2>1, InTurn
  <2> QED BY <2>1, <2>2
<1> QED BY <1>1, <1>2, <1>3

LEMMA ListingBegins ==
    ASSUME OneProducer, CollectorInv, TurnRing, Found(rd["main"]), DumpLines
    PROVE  AtDump(rd'["main"], <<>>)
<1> DEFINE d == rd["main"]
           start == normalize(d.ret)
           b == normalize(currentIndex)
           end == Dec(b)
           f == normalize(end) + 1
           e == IF start > f THEN Size ELSE f
           next == dumpRange([d EXCEPT !.task = "dump"], start, end)
<1>1. /\ LogInv /\ d \in Reader /\ d.ret \in Nat /\ head \in Nat /\ rd \in [Readers -> Reader] /\ "main" \in Readers
      /\ currentIndex \in Nat /\ Size \in Nat \ {0} /\ Folded(Writer, currentIndex, head)
  <2>1. /\ LogInv /\ d \in Reader /\ rd \in [Readers -> Reader] /\ "main" \in Readers
    BY BothReaders DEF CollectorInv, ReaderTypes
  <2>2. currentIndex \in Nat /\ head \in Nat /\ Folded(Writer, currentIndex, head)
    BY <2>1, TurnFacts, RingSize DEF TurnRing
  <2> QED BY <2>1, <2>2, ReaderFields, RingSize
<1>2. rd'["main"] = next
  BY <1>1 DEF DumpLines
<1>3. /\ start \in Nat /\ start < Size /\ normalize(start) = start
      /\ b \in Nat /\ b < Size /\ b = normalize(head) /\ b \in 0..IndexMax
  <2>1. start \in Nat /\ start < Size /\ b \in Nat /\ b < Size
    BY <1>1, CellIs, TurnOf
  <2>2. b <= IndexMax
    <3> HIDE DEF b
    <3> QED BY <1>1, <2>1, LogAssumption
  <2>3. b \in 0..IndexMax
    <3> HIDE DEF b
    <3> QED BY <2>1, <2>2, RingSize
  <2> QED BY <1>1, <2>1, <2>3, BelowSize DEF Folded
<1> HIDE DEF start, b
<1>4. end \in Nat /\ f \in Nat /\ f <= Size /\ (b > 0 => f = b)
  <2>1. end \in Nat
    BY <1>3, DecIsNatural
  <2> HIDE DEF end
  <2>2. normalize(end) \in Nat /\ normalize(end) < Size
    BY <2>1, CellIs, TurnOf
  <2>3. f \in Nat /\ f <= Size
    BY <1>1, <2>2
  <2>4. ASSUME b > 0 PROVE f = b
    <3>1. b - 1 \in Nat /\ b - 1 < Size
      BY <1>1, <1>3, <2>4
    <3>2. end = b - 1
      BY <1>3, <2>4 DEF end, Dec
    <3>3. normalize(end) = b - 1
      BY <3>1, <3>2, BelowSize
    <3> QED BY <1>3, <3>3
  <2> QED BY <2>1, <2>3, <2>4
<1> HIDE DEF end
<1>5. e \in Nat /\ (e = IF start > f THEN Size ELSE f)
  BY <1>1, <1>4
<1>6. /\ next.task = "dump" /\ next.mode = "print"
      /\ start < e => next.pc = "hdr" /\ next.end = e /\ next.at = start /\ next.i = start
      /\ ~(start < e) => next.pc = "ret"
  <2>1. e = IF start > normalize(end) + 1 THEN Size ELSE normalize(end) + 1
    OBVIOUS
  <2> HIDE DEF e, f
  <2> QED BY <1>1, <1>3, <1>4, <1>5, <2>1, DumpRange
<1> HIDE DEF next, f, e
<1>7. CASE ~(start < e)
  BY <1>2, <1>6, <1>7 DEF AtDump, Listed
<1>8. CASE start < e /\ NoHeader(d.ret)
  <2>1. NoHeader(start)
    BY <1>3, <1>8 DEF NoHeader, getByte, start
  <2> QED BY <1>2, <1>6, <1>8, <2>1 DEF AtDump, Lost
<1>9. CASE start < e /\ ~NoHeader(d.ret)
  <2>1. PICK n \in 1..Len(entries) : Oldest(n) /\ start = normalize(entries[n].pos)
    BY <1>9 DEF Found, start
  <2> DEFINE pos == entries[n].pos
             t == pos - start
  <2>2. pos \in Nat /\ pos < head
    <3> DEFINE len == entries[n].len
               edge == Edge(entries, head, n)
    <3>1. pos \in Nat /\ len \in Nat /\ len >= 2 /\ pos + len = edge /\ edge <= head
      BY <1>1, TurnFacts, ChainAt
    <3> HIDE DEF pos, len, edge
    <3> QED BY <1>1, <3>1
  <2>3. t \in Nat /\ normalize(t) = 0
    BY <2>1, <2>2, TurnOf
  <2>4. t + start = pos /\ t + start < head /\ t \in 0..head
    <3> HIDE DEF pos
    <3> QED BY <1>1, <1>3, <2>2, <2>3
  <2> HIDE DEF t
  <2>5. t + e <= head
    BY <1>1, <1>3, <1>4, <1>5, <2>3, <2>4, RangeInLog
  <2>6. /\ Lists(n, <<>>) /\ n + Len(<<>>) = n /\ n \in 1..Len(entries)
    <3>1. n \in Nat
      BY <1>1, TurnFacts
    <3> QED BY <3>1 DEF Lists
  <2>7. Listing(next, <<>>)
    BY <1>6, <1>9, <2>1, <2>3, <2>4, <2>5, <2>6 DEF Listing, Matches
  <2> QED BY <1>2, <2>7 DEF AtDump
<1> QED BY <1>7, <1>8, <1>9

(* printAtIndex() of dump(), entry after entry *)
LEMMA ListsMore ==
    ASSUME NEW lines \in Seq(Nat), NEW n \in Nat, Lists(n, lines), NEW w, w = n + Len(lines)
    PROVE  Lists(n, Append(lines, w)) /\ n + Len(Append(lines, w)) = w + 1
<1> DEFINE more == Append(lines, w)
<1>1. /\ Len(lines) \in Nat /\ Len(more) = Len(lines) + 1 /\ more[Len(lines) + 1] = w
      /\ \A k \in 1..Len(lines) : more[k] = lines[k]
  OBVIOUS
<1> HIDE DEF more
<1>2. Lists(n, more)
  <2> SUFFICES ASSUME NEW k \in 1..Len(more) PROVE more[k] = n + (k - 1)
    BY DEF Lists
  <2>1. k = Len(lines) + 1 \/ k \in 1..Len(lines)
    BY <1>1
  <2> QED BY <1>1, <2>1 DEF Lists
<1>3. n + Len(more) = w + 1
  BY <1>1
<1> QED BY <1>2, <1>3 DEF more

LEMMA ListingReads ==
    ASSUME OneProducer, CollectorInv, TurnRing, Done = Len(entries), Listing(rd["main"], stdout), Reading("main")
    PROVE  AtDump(rd'["main"], stdout')
<1> DEFINE d == rd["main"]
<1>1. /\ LogInv /\ d \in Reader /\ d.i \in Nat /\ d.end \in Nat /\ "main" \in Readers /\ stdout \in Seq(Nat)
      /\ rd \in [Readers -> Reader] /\ head \in Nat /\ Len(entries) \in Nat
  BY ReaderFields, BothReaders, RingSize, TurnFacts DEF CollectorInv, ReaderTypes
<1>2. /\ d.task = "dump" /\ d.mode = "print" /\ d.pc \in {"hdr", "body"} /\ d.at = d.i /\ d.i < d.end
  BY DEF Listing
<1>3. PICK n \in 1..Len(entries), t \in 0..head :
        /\ Oldest(n) /\ Lists(n, stdout)
        /\ n + Len(stdout) \in 1..Len(entries) /\ t + d.i = entries[n + Len(stdout)].pos
        /\ normalize(t) = 0 /\ t + d.end <= head
        /\ Matches(d, n + Len(stdout))
  BY DEF Listing
<1> DEFINE w == n + Len(stdout)
<1>4. w \in 1..Len(entries) /\ w \in Nat /\ n \in Nat /\ t \in Nat /\ n <= w /\ w = n + Len(stdout)
  BY <1>1, <1>3
<1>5. /\ Oldest(n) /\ Lists(n, stdout) /\ t + d.i = entries[w].pos /\ normalize(t) = 0 /\ t + d.end <= head
      /\ Matches(d, w)
  BY <1>3
<1> HIDE DEF w
<1> DEFINE pos == entries[w].pos
           len == entries[w].len
           x == d.i + len
<1>6. /\ pos \in Nat /\ len \in Nat /\ len >= 2 /\ pos + len = Edge(entries, head, w)
      /\ pos = Edge(entries, head, w - 1)
  BY <1>1, <1>4, TurnFacts, ChainAt
<1>7. head <= pos + Size
  <2> DEFINE q == entries[n].pos
  <2>1. q \in Nat /\ q = Edge(entries, head, n - 1) /\ head <= q + Size
    BY <1>1, <1>5, TurnFacts, ChainAt DEF Oldest, Retained
  <2>2. n - 1 \in 0..Len(entries) /\ w - 1 \in 0..Len(entries) /\ n - 1 <= w - 1
    BY <1>1, <1>4
  <2>3. q <= pos
    <3> DEFINE a == n - 1
               b == w - 1
    <3>1. /\ Chained(entries, head) /\ entries \in Seq(Entry)
          /\ a \in 0..Len(entries) /\ b \in 0..Len(entries) /\ a <= b
      BY <1>1, <2>2, TurnFacts
    <3>2. q = Edge(entries, head, a) /\ pos = Edge(entries, head, b)
      BY <1>6, <2>1
    <3> HIDE DEF a, b
    <3>3. Edge(entries, head, a) <= Edge(entries, head, b)
      BY <1>1, <3>1, EdgeOrder
    <3> QED BY <3>2, <3>3
  <2> HIDE DEF q, pos
  <2> QED BY <1>1, <1>6, <2>1, <2>3, RingSize
<1>8. \A k \in 0..(entries[w].len - 1) : getByte(mem, d.at + k) = CellOf(w, k)
  <2> DEFINE at == d.at
  <2>1. at \in Nat /\ t + at = entries[w].pos /\ w \in 1..Done
    BY <1>1, <1>2, <1>4, <1>5
  <2> HIDE DEF at
  <2>2. \A k \in 0..(entries[w].len - 1) : getByte(mem, at + k) = CellOf(w, k)
    <3>1. /\ LogInv /\ w \in 1..Done /\ head <= entries[w].pos + Size /\ t \in Nat /\ normalize(t) = 0
          /\ at \in Nat /\ t + at = entries[w].pos
      BY <1>1, <1>4, <1>5, <1>7, <2>1
    <3> QED BY <3>1, EntryThere
  <2> QED BY <2>2 DEF at
<1>9. PICK next : /\ rd' = [rd EXCEPT !["main"] = next]
                  /\ Onward(d, next, w) \/ Accepts(d, next, w)
  BY <1>1, <1>2, <1>4, <1>5, <1>8, ReadsWhole
<1>10. rd'["main"] = next
  BY <1>1, <1>9
<1>11. CASE Onward(d, next, w)
  <2>1. /\ next.pc = "body" /\ next.task = d.task /\ next.mode = d.mode /\ next.at = d.at /\ next.i = d.i
        /\ next.end = d.end /\ Matches(next, w) /\ stdout' = stdout
    BY <1>11 DEF Onward
  <2>2. Listing(next, stdout)
    BY <1>2, <1>4, <1>5, <2>1 DEF Listing
  <2> QED BY <1>10, <2>1, <2>2 DEF AtDump
<1>12. CASE Accepts(d, next, w)
  <2>1. /\ next = Proceed(d, x)
        /\ stdout' = IF x <= d.end THEN Append(stdout, w) ELSE stdout
    <3>1. LenOf(d.hdr) = len /\ next = Proceed(d, d.at + LenOf(d.hdr))
      BY <1>2, <1>12 DEF Accepts, GetLogSucceeded
    <3> QED BY <1>2, <1>12, <3>1 DEF Accepts, Stream
  <2>2. x \in Nat /\ t + x = pos + len
    <3> DEFINE i == d.i
    <3>1. i \in Nat /\ t + i = pos
      BY <1>1, <1>5
    <3> HIDE DEF i, pos, len
    <3>2. i + len \in Nat /\ t + (i + len) = pos + len
      BY <1>4, <1>6, <3>1
    <3> QED BY <3>2 DEF i
  <2> HIDE DEF x
  <2>3. CASE x > d.end
    <3>1. ~(x <= d.end)
      BY <1>1, <2>2, <2>3
    <3>2. next = Return(d, d.i) /\ stdout' = stdout
      BY <2>1, <2>3, <3>1 DEF Proceed
    <3>3. next.pc = "ret" /\ next.task = "dump"
      BY <1>2, <3>2, ReturnFields
    <3> QED BY <1>5, <1>10, <3>2, <3>3 DEF AtDump, Listed
  <2>4. CASE ~(x > d.end)
    <3>1. x <= d.end
      BY <1>1, <2>2, <2>4
    <3>2. next = LoopAt(d, x) /\ stdout' = Append(stdout, w)
      BY <2>1, <2>4, <3>1 DEF Proceed
    <3>3. Lists(n, stdout') /\ n + Len(stdout') = w + 1
      BY <1>1, <1>4, <1>5, <3>2, ListsMore
    <3>4. /\ next.task = "dump" /\ next.mode = "print"
          /\ x < d.end => next.pc = "hdr" /\ next.end = d.end /\ next.at = x /\ next.i = x
          /\ ~(x < d.end) => next.pc = "ret"
      BY <1>2, <3>2, LoopsAt
    <3>5. CASE ~(x < d.end)
      BY <1>5, <1>10, <3>3, <3>4, <3>5 DEF AtDump, Listed
    <3>6. CASE x < d.end
      <4>1. Edge(entries, head, w) < head
        <5> DEFINE end == d.end
                   edge == Edge(entries, head, w)
        <5>1. end \in Nat /\ x < end /\ t + end <= head /\ t + x = edge
          BY <1>1, <1>5, <1>6, <2>2, <3>6
        <5> HIDE DEF end, edge
        <5>2. edge < head
          BY <1>1, <1>4, <2>2, <5>1
        <5> QED BY <5>2 DEF edge
      <4>2. w + 1 \in 1..Len(entries) /\ entries[w + 1].pos = t + x
        <5>1. w # Len(entries)
          BY <1>1, <4>1 DEF Edge
        <5>2. w < Len(entries) /\ w + 1 \in 1..Len(entries)
          BY <1>1, <1>4, <5>1
        <5>3. Edge(entries, head, w) = entries[w + 1].pos
          BY <5>2 DEF Edge
        <5> QED BY <1>6, <2>2, <5>2, <5>3
      <4>3. Matches(next, w + 1)
        BY <3>4, <3>6 DEF Matches
      <4>4. Listing(next, stdout')
        BY <1>5, <3>3, <3>4, <3>6, <4>2, <4>3 DEF Listing
      <4> QED BY <1>10, <4>4 DEF AtDump
    <3> QED BY <3>5, <3>6
  <2> QED BY <2>3, <2>4
<1> QED BY <1>9, <1>11, <1>12

(* A search of dumpRange() for dump() ends it. *)
LEMMA LostReads ==
    ASSUME CollectorInv, Lost(rd["main"]), stdout = <<>>, Reading("main")
    PROVE  stdout' = <<>> /\ AtDump(rd'["main"], <<>>)
<1> DEFINE d == rd["main"]
<1>1. d \in Reader /\ d.task = "dump" /\ "main" \in Readers /\ rd \in [Readers -> Reader]
  BY BothReaders DEF CollectorInv, ReaderTypes, Lost
<1>2. ASSUME NEW next, NEW value, next = Return(d, value) PROVE AtDump(next, <<>>)
  BY <1>1, <1>2, ReturnFields DEF AtDump, Listed
<1>3. CASE d.mode = "scan" /\ d.pc \in Looking
  <2>1. stdout' = stdout
    BY <1>3 DEF Reading, ReadHeader, ReadBody, ComparePattern, WriteLine
  <2>2. PICK next : rd' = [rd EXCEPT !["main"] = next] /\ Searches(d, next)
    BY <1>1, <1>3, ScanReads
  <2>3. rd'["main"] = next
    BY <1>1, <2>2
  <2>4. \A x : Realigned(d, x) = Return(d, x)
    BY <1>1 DEF Realigned, continueOnFailure
  <2>5. CASE next.pc \in Looking /\ next.task = d.task /\ next.mode = "scan"
    BY <1>1, <2>1, <2>3, <2>5 DEF AtDump, Lost
  <2>6. CASE next = Realigned(d, d.at)
    <3>1. next = Return(d, d.at)
      BY <2>4, <2>6
    <3> QED BY <1>2, <2>1, <2>3, <3>1
  <2>7. CASE next = SearchOn(d)
    <3>1. CASE d.loop + 1 > Size
      <4>1. next = Return(d, 0)
        BY <1>3, <2>4, <2>7, <3>1 DEF SearchOn
      <4> QED BY <1>2, <2>1, <2>3, <4>1
    <3>2. CASE ~(d.loop + 1 > Size)
      <4>1. next = [d EXCEPT !.pc = "cmp", !.at = d.at + 1, !.loop = d.loop + 1, !.hdr = Blank, !.buf = <<>>]
        BY <2>7, <3>2 DEF SearchOn
      <4>2. next.pc \in Looking /\ next.task = d.task /\ next.mode = "scan"
        BY <1>1, <1>3, <4>1 DEF Reader, Looking
      <4> QED BY <2>5, <4>2
    <3> QED BY <3>1, <3>2
  <2> QED BY <2>2, <2>5, <2>6, <2>7 DEF Searches
<1>4. CASE d.mode = "print" /\ d.pc = "hdr" /\ NoHeader(d.at)
  <2>1. ReadHeader("main")
    BY <1>4 DEF Reading, ReadBody, ComparePattern
  <2> DEFINE next == GetLogFailed(d)
  <2>2. stdout' = stdout /\ rd'["main"] = next
    BY <1>1, <1>4, <2>1 DEF ReadHeader, Step, NoHeader
  <2> DEFINE again == [d EXCEPT !.pc = "hdr", !.tries = d.tries + 1, !.hdr = Blank, !.buf = <<>>]
             scan == [d EXCEPT !.pc = "cmp", !.mode = "scan", !.hdr = Blank, !.buf = <<>>]
  <2>3. next = again \/ next = scan
    BY <1>4 DEF GetLogFailed
  <2>4. /\ again.task = "dump" /\ again.mode = "print" /\ again.pc = "hdr" /\ again.at = d.at
        /\ scan.task = "dump" /\ scan.mode = "scan" /\ scan.pc = "cmp"
    BY <1>1, <1>4 DEF Reader
  <2> HIDE DEF next, again, scan
  <2>5. Lost(next)
    BY <1>4, <2>3, <2>4 DEF Lost, Looking
  <2> QED BY <2>2, <2>5 DEF AtDump
<1> QED BY <1>3, <1>4 DEF Lost

(* A step that leaves the ring alone *)
LEMMA DumpNext ==
    ASSUME entries' = entries, head' = head, mem' = mem
    PROVE  /\ AtDump(rd'["main"], stdout') <=> AtDump(rd["main"], stdout)'
           /\ Listed(stdout') <=> Listed(stdout)'
<1>1. Listed(stdout') <=> Listed(stdout)'
  BY DEF Listed, Oldest, Retained, Lists
<1>2. Seeking(rd'["main"]) <=> Seeking(rd["main"])'
  BY DEF Seeking, Retained, Matches
<1>3. Found(rd'["main"]) <=> Found(rd["main"])'
  BY DEF Found, NoHeader, Oldest, Retained
<1>4. Lost(rd'["main"]) <=> Lost(rd["main"])'
  BY DEF Lost, NoHeader
<1>5. Listing(rd'["main"], stdout') <=> Listing(rd["main"], stdout)'
  BY DEF Listing, Oldest, Retained, Lists, Matches
<1> QED BY <1>1, <1>2, <1>3, <1>4, <1>5 DEF AtDump

LEMMA DumpKept ==
    ASSUME DumpTurn, entries' = entries, head' = head, mem' = mem, rd'["main"] = rd["main"], stdout' = stdout,
           goal' = goal, ctl'.main = ctl.main
    PROVE  DumpTurn'
<1>1. AtDump(rd["main"], stdout)' <=> AtDump(rd["main"], stdout)
  BY DumpNext
<1>2. Listed(stdout)' <=> Listed(stdout)
  BY DumpNext
<1> QED BY <1>1, <1>2 DEF DumpTurn

(* A step of the thread that logs: while every entry is complete it writes *)
(* no cell, and once it has claimed a region the goal is no longer all.    *)
LEMMA OldestProducer ==
    ASSUME OneProducer, MarginCovers, ShortEntries, CollectorInv, OldestInv, NEW p \in Producers,
           TraceStep(p) \/ \E len \in Lens : Trace(p, len)
    PROVE  OldestInv'
<1> DEFINE t == prod[p]
           u == prod'[p]
<1>1. /\ LogInv /\ t \in Thread /\ prod \in [Producers -> Thread] /\ Writer = t /\ Writer' = u
      /\ TurnRing /\ Unfolded /\ DumpTurn /\ goal \subseteq published
  BY WriterIs DEF CollectorInv, LogInv, ProducerTypes, OldestInv
<1>2. Tracing(p) \/ \E len \in Lens : ReadId(p, len)
  BY DEF TraceStep, Trace
<1>3. UNCHANGED <<rd, stdout, ctl, goal>>
  BY DEF TraceStep, Trace, readVars, collectVars
<1>4. t.pc \in {"alloc", "add"} => t.len < Size
  BY <1>1 DEF ShortEntries, LogInv, ProducerTypes
<1>5. TurnRing'
  BY <1>1, <1>2, <1>4, TurnRingStep DEF TurnGrown
<1>6. Unfolded'
  <2>1. CASE Allocate(p)
    <3> DEFINE len == t.len
    <3>1. /\ t.pc \in {"alloc", "add"} /\ (t.pc = "alloc" => ~isIndexRollingOver(currentIndex))
          /\ head' = head + len /\ currentIndex' = (currentIndex + len) % (IndexMax + 1) /\ wrapped' = wrapped
      BY <2>1 DEF Allocate
    <3>2. len \in Lens
      BY <1>1, <3>1 DEF LogInv, ProducerTypes
    <3>3. len \in Nat /\ len <= Margin
      BY <3>2, LogAssumption DEF MarginCovers
    <3>4. currentIndex \in 0..IndexMax /\ head \in Nat /\ (t.pc = "add" => currentIndex < Size)
      BY <1>1, TurnFacts DEF TurnRing, Folded
    <3> HIDE DEF len
    <3>5. currentIndex + len <= IndexMax
      <4>1. CASE t.pc = "add"
        BY <3>3, <3>4, <4>1, RingSize, LogAssumption
      <4>2. CASE t.pc = "alloc"
        BY <3>1, <3>3, <3>4, <4>2, RingSize, LogAssumption DEF isIndexRollingOver
      <4> QED BY <3>1, <4>1, <4>2
    <3>6. currentIndex' = currentIndex + len
      BY <3>1, <3>3, <3>4, <3>5, RingSize, WithinWidth
    <3>7. ~wrapped => currentIndex = head
      BY <1>1, <3>1 DEF Unfolded
    <3> QED BY <3>1, <3>6, <3>7 DEF Unfolded
  <2>2. CASE FoldIndex(p)
    <3>1. u.pc = "wrap"
      BY <1>1, <2>2 DEF FoldIndex, Thread
    <3> QED BY <1>1, <3>1 DEF Unfolded
  <2>3. CASE StoreWrapCount(p)
    BY <2>3 DEF StoreWrapCount, Unfolded
  <2>4. CASE \/ WriteId(p) \/ CopyCell(p) \/ ReadIndex(p) \/ StoreLast(p)
             \/ \E len \in Lens : ReadId(p, len)
    <3>1. UNCHANGED <<wrapped, head, currentIndex>> /\ t.pc # "wrap"
      BY <2>4 DEF WriteId, CopyCell, ReadIndex, StoreLast, ReadId
    <3> QED BY <1>1, <3>1 DEF Unfolded
  <2> QED BY <1>2, <2>1, <2>2, <2>3, <2>4 DEF Tracing
<1>7. published \subseteq published'
  BY <1>2 DEF Tracing, ReadId, WriteId, FoldIndex, StoreWrapCount, Allocate, CopyCell, ReadIndex, StoreLast
<1>8. DumpTurn'
  <2> SUFFICES ASSUME goal' = 1..Len(entries') PROVE DumpTurn'
    BY DEF DumpTurn
  <2>1. /\ Len(entries) \in Nat /\ published \subseteq 1..Len(entries) /\ entries' \in Seq(Entry)
    <3>1. Len(entries) \in Nat /\ Done \in 0..Len(entries) /\ published = 1..Done
      BY <1>1, TurnFacts DEF TurnRing
    <3>2. entries' \in Seq(Entry)
      BY <1>1, <1>2, LogStep DEF LogInv, RingTypes
    <3> QED BY <3>1, <3>2
  <2>2. ~Allocate(p)
    <3> SUFFICES ASSUME Allocate(p) PROVE FALSE
      OBVIOUS
    <3>1. Len(entries') = Len(entries) + 1
      <4>1. \E e : entries' = Append(entries, e)
        BY DEF Allocate
      <4> QED BY <1>1, <4>1, TurnFacts
    <3>2. Len(entries) + 1 \in goal
      BY <1>3, <2>1, <3>1
    <3> QED BY <1>1, <2>1, <3>2
  <2>3. UNCHANGED <<entries, head>>
    BY <1>2, <2>2 DEF Tracing, ReadId, WriteId, FoldIndex, StoreWrapCount, CopyCell, ReadIndex, StoreLast
  <2>4. t.pc # "copy"
    BY <1>1, <1>3, <2>3, NobodyCopies DEF Copying
  <2>5. mem' = mem
    BY <1>2, <2>2, <2>4 DEF Tracing, ReadId, WriteId, FoldIndex, StoreWrapCount, CopyCell, ReadIndex, StoreLast
  <2> QED BY <1>1, <1>3, <2>3, <2>5, DumpKept
<1> QED BY <1>1, <1>3, <1>5, <1>6, <1>7, <1>8 DEF OldestInv

(* dump(): firstLine() begins to search, or knows that the first line is at 0. *)
LEMMA OldestDump ==
    ASSUME OneProducer, CollectorInv, OldestInv, Dump
    PROVE  OldestInv'
<1> DEFINE d == rd'["main"]
           seek == [NoRead EXCEPT !.pc = "cmp", !.task = "first", !.mode = "first", !.at = normalize(currentIndex)]
<1>1. /\ LogInv /\ TurnRing /\ Unfolded /\ rd \in [Readers -> Reader] /\ "main" \in Readers
      /\ ctl \in Control
  BY BothReaders DEF CollectorInv, ReaderTypes, ThreadTypes, OldestInv
<1>2. UNCHANGED logVars /\ stdout' = <<>> /\ goal' = Showable /\ ctl'.main = "dumping"
  BY <1>1 DEF Dump, Control
<1>3. d = IF currentIndex >= Size \/ wrapped THEN seek ELSE Return([NoRead EXCEPT !.task = "first"], 0)
  BY <1>1 DEF Dump
<1>4. /\ entries' = entries /\ mem' = mem /\ published' = published /\ head' = head /\ currentIndex' = currentIndex
      /\ wrapped' = wrapped /\ prod' = prod
  BY <1>2 DEF logVars
<1>5. TurnRing' /\ Unfolded' /\ goal' \subseteq published'
  BY <1>1, <1>2, <1>4, TurnKept DEF Unfolded, Writer, Showable
<1>6. /\ Len(entries) \in Nat /\ head \in Nat /\ currentIndex \in Nat /\ Folded(Writer, currentIndex, head)
      /\ published = 1..Done /\ Done \in 0..Len(entries) /\ Size \in Nat \ {0}
  BY <1>1, TurnFacts, RingSize DEF TurnRing
<1>7. ASSUME goal' = 1..Len(entries) PROVE Seeking(d) \/ Found(d)
  <2>1. CASE currentIndex >= Size \/ wrapped
    <3>1. d = seek
      BY <1>3, <2>1
    <3>2. d.task = "first" /\ d.mode = "first" /\ d.pc = "cmp" /\ d.at = normalize(currentIndex) /\ d.loop = 0
      BY <3>1 DEF NoRead
    <3>3. normalize(normalize(currentIndex)) = normalize(head + 0)
      <4>1. normalize(currentIndex) \in Nat /\ normalize(currentIndex) < Size /\ head + 0 = head
        BY <1>6, CellIs, TurnOf
      <4>2. normalize(normalize(currentIndex)) = normalize(currentIndex)
        BY <4>1, BelowSize
      <4> QED BY <1>6, <4>1, <4>2 DEF Folded
    <3>4. \A m \in 1..Len(entries) : Retained(m) => head + 0 <= entries[m].pos + Size
      <4>1. head + 0 = head
        BY <1>6
      <4> QED BY <4>1 DEF Retained
    <3> HIDE DEF d
    <3> QED BY <3>2, <3>3, <3>4 DEF Seeking, Looking
  <2>2. CASE ~(currentIndex >= Size \/ wrapped)
    <3> DEFINE none == [NoRead EXCEPT !.task = "first"]
    <3>1. none.task = "first" /\ d = Return(none, 0)
      BY <1>3, <2>2 DEF NoRead
    <3> HIDE DEF none
    <3>2. d.task = "first" /\ d.pc = "ret" /\ d.ret = 0
      BY <3>1, ReturnFields
    <3> HIDE DEF d
    <3>3. ASSUME ~NoHeader(0)
          PROVE  \E n \in 1..Len(entries) : Oldest(n) /\ normalize(0) = normalize(entries[n].pos)
      <4>1. Writer.pc # "copy"
        <5> SUFFICES ASSUME Writer.pc = "copy" PROVE FALSE
          OBVIOUS
        <5>1. Len(entries) > 0 /\ Done = Len(entries) - 1
          BY <1>1, WriterFields DEF TurnRing, Latest, Copying
        <5>2. Len(entries) \in goal' /\ goal' \subseteq 1..Done
          BY <1>2, <1>6, <1>7, <5>1 DEF Showable
        <5> QED BY <1>6, <5>1, <5>2
      <4>2. PICK n \in 1..Len(entries) : Retained(n) /\ normalize(entries[n].pos) = normalize(0)
        BY <1>1, <3>3, <4>1, OwnHeader
      <4>3. Writer.pc # "wrap"
        <5> SUFFICES ASSUME Writer.pc = "wrap" PROVE FALSE
          OBVIOUS
        <5>1. Producers # {}
          BY IdleThread DEF Writer
        <5>2. \E p \in Producers : prod[p].pc = "wrap"
          BY <1>1, <5>1, WriterFields
        <5>3. goal' = {}
          BY <1>2, <5>2 DEF Showable
        <5> QED BY <1>7, <4>2, <5>3
      <4> DEFINE pos == entries[n].pos
      <4>4. head < Size
        BY <1>1, <1>6, <2>2, <4>3 DEF Unfolded
      <4>5. pos \in Nat /\ pos < Size
        <5> DEFINE len == entries[n].len
                   edge == Edge(entries, head, n)
        <5>1. pos \in Nat /\ len \in Nat /\ len >= 2 /\ pos + len = edge /\ edge <= head
          BY <1>1, TurnFacts, ChainAt
        <5> HIDE DEF pos, len, edge
        <5> QED BY <1>6, <4>4, <5>1
      <4>6. pos = 0
        <5>1. normalize(pos) = pos /\ normalize(0) = 0
          BY <1>6, <4>5, BelowSize
        <5> QED BY <4>2, <5>1
      <4>7. ASSUME NEW m \in 1..Len(entries) PROVE pos <= entries[m].pos
        <5>1. entries[m].pos \in Nat
          BY <1>1, TurnFacts, ChainAt
        <5> QED BY <4>6, <5>1
      <4>8. Oldest(n)
        BY <1>1, <4>2, <4>7, OldestIs
      <4> QED BY <4>2, <4>8
    <3> QED BY <3>2, <3>3 DEF Found
  <2> QED BY <2>1, <2>2
<1>8. DumpTurn'
  <2> SUFFICES ASSUME goal' = 1..Len(entries) PROVE DumpTurn'
    BY <1>4 DEF DumpTurn
  <2>1. AtDump(rd'["main"], stdout')
    BY <1>2, <1>7 DEF AtDump
  <2>2. AtDump(rd["main"], stdout)'
    BY <1>4, <2>1, DumpNext
  <2> QED BY <1>2, <2>2 DEF DumpTurn
<1> QED BY <1>5, <1>8 DEF OldestInv

(* Nobody logs while main reads a log whose entries are all complete. *)
LEMMA DumpAtRest ==
    ASSUME OneProducer, CollectorInv, OldestInv, goal = 1..Len(entries)
    PROVE  LogInv /\ TurnRing /\ Done = Len(entries) /\ Writer.pc # "copy"
<1>1. LogInv /\ TurnRing /\ goal \subseteq published
  BY DEF CollectorInv, OldestInv
<1> QED BY <1>1, NobodyCopies DEF Copying

(* The other steps of dump() *)
LEMMA OldestReads ==
    ASSUME OneProducer, CollectorInv, OldestInv, ctl.main = "dumping", goal = 1..Len(entries),
           Reading("main")
    PROVE  AtDump(rd'["main"], stdout')
<1> DEFINE d == rd["main"]
<1>1. LogInv /\ TurnRing /\ Done = Len(entries) /\ Writer.pc # "copy"
  BY DumpAtRest
<1>2. AtDump(d, stdout)
  BY DEF OldestInv, DumpTurn, Running
<1>3. d.pc # "ret"
  BY BothReaders, ReadingWrites DEF Looking
<1>4. CASE Listing(d, stdout)
  BY <1>1, <1>4, ListingReads
<1>5. CASE stdout = <<>> /\ Seeking(d)
  BY <1>1, <1>5, SeekingReads DEF AtDump
<1>6. CASE stdout = <<>> /\ Lost(d)
  BY <1>6, LostReads
<1> QED BY <1>2, <1>3, <1>4, <1>5, <1>6 DEF AtDump, Found

LEMMA OldestMain ==
    ASSUME OneProducer, CollectorInv, OldestInv, Main \/ Destroy
    PROVE  OldestInv'
<1> DEFINE d == rd["main"]
<1>1. /\ UNCHANGED logVars /\ ctl \in Control /\ rd \in [Readers -> Reader] /\ "main" \in Readers
      /\ TurnRing /\ Unfolded /\ goal \subseteq published /\ DumpTurn
  BY MainMoves, BothReaders DEF CollectorInv, ReaderTypes, ThreadTypes, OldestInv
<1>2. /\ entries' = entries /\ mem' = mem /\ published' = published /\ head' = head /\ currentIndex' = currentIndex
      /\ wrapped' = wrapped /\ prod' = prod
  BY <1>1 DEF logVars
<1>3. goal' = goal
  BY DEF Main, DumpLines, DumpReturn, Collecting, CollectRead, CollectEmpty, CollectSplit, CollectBottom,
         CollectReturn, SetBookmark, SyncStream, Disable, Join, Close, Destroy, CallCollect, collectVars
<1>4. TurnRing' /\ Unfolded' /\ goal' \subseteq published'
  BY <1>1, <1>2, <1>3, TurnKept DEF Unfolded, Writer
<1>5. ASSUME ctl'.main \in Running, goal = 1..Len(entries)
      PROVE  IF ctl'.main = "run" THEN Listed(stdout') ELSE AtDump(rd'["main"], stdout')
  <2>1. ctl.main \in Running /\ ~Destroy
    <3>1. ctl.main \in Running
      BY <1>5, MainMoves DEF Running
    <3>2. ~Destroy
      BY <1>1, <1>5 DEF Destroy, CallCollect, Control, Running
    <3> QED BY <3>1, <3>2
  <2>2. /\ ctl.main = "run" => Listed(stdout) /\ d.pc = "idle"
        /\ ctl.main = "dumping" => AtDump(d, stdout)
    BY <1>1, <1>5, <2>1, NotReading DEF DumpTurn, Running
  <2>3. CASE DumpLines
    <3>1. d.pc = "ret" /\ d.task = "first" /\ stdout' = stdout /\ ctl' = ctl
      BY <2>3 DEF DumpLines, collectVars
    <3>2. ctl.main = "dumping" /\ AtDump(d, stdout)
      BY <2>1, <2>2, <3>1 DEF Running
    <3>3. stdout = <<>> /\ Found(d)
      BY <3>1, <3>2 DEF AtDump, Seeking, Lost, Listing, Looking
    <3>4. AtDump(rd'["main"], <<>>)
      BY <1>1, <2>3, <3>3, ListingBegins
    <3> QED BY <3>1, <3>2, <3>3, <3>4
  <2>4. CASE DumpReturn
    <3>1. d.pc = "ret" /\ d.task = "dump" /\ stdout' = stdout /\ ctl'.main = "run"
      BY <1>1, <2>4 DEF DumpReturn, Control
    <3>2. AtDump(d, stdout)
      BY <2>1, <2>2, <3>1 DEF Running
    <3>3. Listed(stdout)
      BY <3>1, <3>2 DEF AtDump, Seeking, Found, Lost, Listing, Looking
    <3> QED BY <3>1, <3>3
  <2>5. CASE Collecting("main")
    <3>1. d.pc # "idle"
      BY <2>5, BothReaders, ReadingWrites
         DEF Collecting, CollectRead, CollectEmpty, CollectSplit, CollectBottom, CollectReturn, Looking
    <3>2. ctl.main = "dumping" /\ AtDump(d, stdout)
      BY <2>1, <2>2, <3>1 DEF Running
    <3>3. Reading("main") /\ UNCHANGED collectVars
      <4>1. d.pc \notin {"collect", "split"} /\ d.task \in {"first", "dump"}
        BY <3>2 DEF AtDump, Seeking, Found, Lost, Listing, Looking
      <4> QED BY <2>5, <4>1
           DEF Collecting, CollectRead, CollectEmpty, CollectSplit, CollectBottom, CollectReturn
    <3>4. AtDump(rd'["main"], stdout')
      BY <1>5, <3>2, <3>3, OldestReads
    <3> QED BY <3>2, <3>3, <3>4 DEF collectVars
  <2>6. CASE SyncStream("main") \/ Disable \/ Join \/ Close
    <3>1. ctl["main"] = ctl.main
      BY NotReading
    <3> QED BY <2>1, <2>6, <3>1 DEF SyncStream, Disable, Join, Close, Running
  <2> QED BY <2>1, <2>3, <2>4, <2>5, <2>6 DEF Main
<1>6. DumpTurn'
  BY <1>2, <1>3, <1>5, DumpNext DEF DumpTurn
<1> QED BY <1>4, <1>6 DEF OldestInv

LEMMA OldestStep ==
    ASSUME OneProducer, MarginCovers, ShortEntries, CollectorInv, OldestInv, [Next]_vars
    PROVE  OldestInv'
<1>1. TurnRing /\ Unfolded /\ goal \subseteq published /\ DumpTurn
  BY DEF OldestInv
<1>2. ASSUME UNCHANGED logVars, goal' = goal, rd'["main"] = rd["main"], stdout' = stdout, ctl'.main = ctl.main
      PROVE  OldestInv'
  <2>1. /\ entries' = entries /\ mem' = mem /\ published' = published /\ head' = head
        /\ currentIndex' = currentIndex /\ wrapped' = wrapped /\ prod' = prod
    BY <1>2 DEF logVars
  <2>2. TurnRing' /\ Unfolded' /\ goal' \subseteq published'
    BY <1>1, <1>2, <2>1, TurnKept DEF Unfolded, Writer
  <2>3. DumpTurn'
    BY <1>1, <1>2, <2>1, DumpKept
  <2> QED BY <2>2, <2>3 DEF OldestInv
<1>3. CASE \E p \in Producers : TraceStep(p) \/ \E len \in Lens : Trace(p, len)
  BY <1>3, OldestProducer
<1>4. CASE Worker
  BY <1>2, <1>4, WorkerKeepsDump, WorkerMoves
<1>5. CASE Main \/ Destroy
  BY <1>5, OldestMain
<1>6. CASE Dump
  BY <1>6, OldestDump
<1>7. CASE UNCHANGED vars
  <2>1. UNCHANGED logVars /\ UNCHANGED <<rd, stdout, goal, ctl>>
    BY <1>7 DEF vars, readVars, collectVars
  <2> QED BY <1>2, <2>1
<1> QED BY <1>3, <1>4, <1>5, <1>6, <1>7 DEF Next

LEMMA OldestInitial ==
    ASSUME Init
    PROVE  OldestInv
<1>1. TurnRing
  BY RingAtStart
<1>2. Unfolded
  BY DEF Init, LogInit, Unfolded
<1>3. goal = {} /\ stdout = <<>> /\ ctl.main = "run"
  BY DEF Init, ReadInit, setEnable
<1> QED BY <1>1, <1>2, <1>3 DEF OldestInv, DumpTurn, Listed

(* One thread logs entries that fit into the ring and into the margin. *)
OneShort == OneProducer /\ MarginCovers /\ ShortEntries

(* A dump() of a log that nobody writes to meanwhile starts at the oldest  *)
(* entry whose header is still in the ring and leaves out none between the *)
(* lines it prints, however often the ring has wrapped around and wherever *)
(* the index started: firstLine() searches from the current index on, the  *)
(* first header it meets is that of the oldest entry, and from there on    *)
(* dumpRange() finds entry behind entry.  Where it begins at no entry, as  *)
(* at 0 of a ring whose index started elsewhere, it prints nothing.        *)
THEOREM OldestFirst == OneShort /\ Spec => []DumpFromOldest
<1>1. OneShort /\ Init => OldestInv
  BY OldestInitial
<1>2. OneShort /\ CollectorInv /\ OldestInv /\ [Next]_vars => OldestInv'
  BY OldestStep DEF OneShort
<1>3. CollectorInv /\ OldestInv => DumpFromOldest
  <2> SUFFICES ASSUME CollectorInv, OldestInv, ctl.main = "run", goal = 1..Len(entries), stdout # <<>>
               PROVE  /\ Retained(stdout[1]) /\ \A n \in goal : Retained(n) => n >= stdout[1]
                      /\ \A k \in 2..Len(stdout) : stdout[k] = stdout[k - 1] + 1
    BY DEF DumpFromOldest
  <2>1. Listed(stdout)
    BY DEF OldestInv, DumpTurn, Running
  <2>2. PICK n \in 1..Len(entries) : Oldest(n) /\ Lists(n, stdout)
    BY <2>1 DEF Listed
  <2>3. stdout \in Seq(Nat) /\ Len(stdout) \in Nat /\ Len(stdout) > 0 /\ n \in Nat
    <3>1. stdout \in Seq(Nat) /\ entries \in Seq(Entry)
      BY DEF CollectorInv, ReaderTypes, LogInv, RingTypes
    <3> QED BY <3>1
  <2>4. stdout[1] = n
    BY <2>2, <2>3 DEF Lists
  <2>5. Retained(n) /\ \A m \in goal : Retained(m) => m >= n
    BY <2>2, <2>3 DEF Oldest
  <2>6. ASSUME NEW k \in 2..Len(stdout) PROVE stdout[k] = stdout[k - 1] + 1
    <3>1. k \in 1..Len(stdout) /\ k - 1 \in 1..Len(stdout)
      BY <2>3
    <3>2. stdout[k] = n + (k - 1) /\ stdout[k - 1] = n + ((k - 1) - 1)
      BY <2>2, <3>1 DEF Lists
    <3> QED BY <2>3, <3>2
  <2> QED BY <2>4, <2>5, <2>6
<1>4. OneShort => []OneShort
  <2>1. OneShort => OneShort'
    BY DEF OneShort, OneProducer, MarginCovers, ShortEntries
  <2> QED BY <2>1, PTL
<1> QED BY <1>1, <1>2, <1>3, <1>4, CollectorInvariant, PTL DEF Spec
=============================================================================
