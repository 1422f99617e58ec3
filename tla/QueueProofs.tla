---------------------------- MODULE QueueProofs -----------------------------
(***************************************************************************)
(* Proofs about what the trace file and dump() show, for one thread that   *)
(* logs and a ring that its entries have not yet filled: every entry that  *)
(* was logged, once and in order.  TurnProofs goes on beyond the first     *)
(* turn of the ring.                                                       *)
(***************************************************************************)
EXTENDS CollectorProofs

(* The program logs from one thread. *)
OneProducer == \A p, q \in Producers : p = q

(* currentIndex_ starts at the start of the ring, or beyond its first turn; *)
(* bufLastWrittenIndex_ starts at 0, like a constructor would set them.     *)
IndexAtStart == \A index \in InitIndex : index = 0 \/ index >= Size
LastAtStart == \A last \in InitLast : last = 0

-----------------------------------------------------------------------------
(* Where the n-th entry ends, and the next one begins *)
Bound(es, n) == IF n = 0 THEN 0 ELSE es[n].loc + es[n].len

CellOf(n, k) == [entry |-> n, part |-> k]

Copying == {"copy", "index", "last"}

(* How many entries are complete, in the ring and recorded *)
DoneOf(threads, es) == IF \E p \in Producers : threads[p].pc \in Copying THEN Len(es) - 1 ELSE Len(es)
Done == DoneOf(prod, entries)

(* The inductive invariant of the first turn, part by part: the entries    *)
(* lie one behind the other from 0 on, ...                                 *)
Laid(es) ==
    /\ \A n \in 1..Len(es) : es[n].loc = Bound(es, n - 1)
    /\ \A m, n \in 0..Len(es) : m < n => Bound(es, m) < Bound(es, n)

Indexed == head = Bound(entries, Len(entries)) /\ currentIndex = head

(* ... the cells of an entry that is not being copied are all there, ...   *)
Whole(n, es, ring) == \A k \in 0..(es[n].len - 1) : ring[es[n].loc + k] = CellOf(n, k)

Wrote(t, es, ring) ==
    LET n == Len(es)
    IN  /\ t.pc \notin {"wrap", "add"}
        /\ t.pc \in Copying => t.entry = n /\ n > 0
        /\ t.pc = "copy" => /\ t.todo \subseteq 0..(es[n].len - 1)
                            /\ \A k \in (0..(es[n].len - 1)) \ t.todo : ring[es[n].loc + k] = CellOf(n, k)
        /\ t.pc \in {"index", "last"} => Whole(n, es, ring)

Written ==
    /\ \A n \in 1..Done : Whole(n, entries, mem)
    /\ \A p \in Producers : Wrote(prod[p], entries, mem)

RingInv == head < Size => Laid(entries) /\ Indexed /\ Written /\ published = 1..Done

(* ... and the last written index is where the last complete entry ends.   *)
LastInv ==
    head < Size =>
        /\ lastWritten = Bound(entries, Done)
        /\ \A p \in Producers : prod[p].pc = "last" => prod[p].index = head

(* A reader that is at the n-th entry has read nothing but that entry. *)
AtEntry(d, n, es) ==
    /\ d.mode = "print" /\ d.at = Bound(es, n - 1)
    /\ d.pc = "body" => /\ d.hdr = CellOf(n, 0)
                        /\ \A k \in 1..Len(d.buf) : d.buf[k] = CellOf(n, k - 1)

(* The file holds the first entries, and the worker is behind the last of  *)
(* them: with its bookmark, or with the position of its dumpRange().       *)
WorkerAt(d, f, es, mark, done) ==
    /\ d.pc # "cmp"
    /\ d.pc \in {"idle", "collect", "split"} => mark = Bound(es, f)
    /\ d.pc = "split" => \E g \in f..done : d.rangeEnd = Bound(es, g)
    /\ d.pc \in {"hdr", "body"} => /\ d.task = "only" /\ AtEntry(d, f + 1, es)
                                   /\ \E g \in (f + 1)..done : d.end = Bound(es, g)
    /\ d.pc = "ret" => d.task = "only" /\ d.ret = Bound(es, f)

Running == {"run", "dumping"}

FileInv ==
    (head < Size /\ ctl.main \in Running) =>
        /\ Len(file) <= Done
        /\ \A k \in 1..Len(file) : file[k] = k
        /\ ctl.worker # "none" => WorkerAt(rd["worker"], Len(file), entries, bookmark, Done)

(* dump() has shown the entries of its goal, or is on its way to them. *)
Shown(g, lines) == \A n \in 1..g : \E k \in 1..Len(lines) : lines[k] = n

Underway(g, d, es, lines) ==
    /\ Len(lines) < g
    /\ \A k \in 1..Len(lines) : lines[k] = k
    /\ \/ d.pc = "ret" /\ d.task = "first" /\ d.ret = 0 /\ lines = <<>>
       \/ /\ d.pc \in {"hdr", "body"} /\ d.task = "dump"
          /\ AtEntry(d, Len(lines) + 1, es)
          /\ Bound(es, g) <= d.end

DumpInv ==
    (head < Size /\ ~wrapped) =>
        \E g \in 0..Done : goal = 1..g /\ (Shown(g, stdout) \/ Underway(g, rd["main"], entries, stdout))

-----------------------------------------------------------------------------
LEMMA DoneIs ==
    ASSUME OneProducer, NEW p \in Producers, NEW threads, NEW es
    PROVE  DoneOf(threads, es) = IF threads[p].pc \in Copying THEN Len(es) - 1 ELSE Len(es)
  BY DEF DoneOf, OneProducer

LEMMA BelowSize ==
    ASSUME NEW x \in Nat, x < Size
    PROVE  normalize(x) = x
  BY RingSize, WordReduced DEF normalize

LEMMA CellWritten ==
    ASSUME NEW buffer \in [RingCells -> Cell], NEW index \in Nat, index < Size, NEW v
    PROVE  set(buffer, index, <<v>>) = [buffer EXCEPT ![index] = v]
<1>1. normalize(index) = index
  BY BelowSize
<1>2. set(buffer, index, <<v>>) = [buffer EXCEPT ![normalize(index)] = v]
  BY SetOneCell
<1> QED BY <1>1, <1>2

LEMMA BoundIsNatural ==
    ASSUME NEW es \in Seq(Entry), NEW n \in 0..Len(es)
    PROVE  Bound(es, n) \in Nat
<1>1. CASE n = 0
  BY <1>1 DEF Bound
<1>2. CASE n # 0
  <2>1. es[n] \in Entry
    BY <1>2
  <2>2. es[n].loc \in Nat /\ es[n].len \in Lens
    BY <2>1 DEF Entry
  <2>3. es[n].len \in Nat
    BY <2>2, LogAssumption
  <2> QED BY <1>2, <2>2, <2>3 DEF Bound
<1> QED BY <1>1, <1>2

LEMMA BoundGrown ==
    ASSUME NEW es \in Seq(Entry), NEW fs, Grown(es, fs), NEW n \in 0..Len(es)
    PROVE  Bound(fs, n) = Bound(es, n)
  BY DEF Bound, Grown

LEMMA LaidAppend ==
    ASSUME NEW es \in Seq(Entry), NEW e \in Entry, Laid(es), e.loc = Bound(es, Len(es))
    PROVE  Laid(Append(es, e)) /\ Bound(Append(es, e), Len(es) + 1) = e.loc + e.len
<1> DEFINE fs == Append(es, e)
           L == Len(es)
<1>1. L \in Nat /\ Len(fs) = L + 1 /\ fs[L + 1] = e /\ Grown(es, fs)
  BY DEF Grown
<1>2. e.len \in Nat /\ e.len >= 2 /\ e.loc \in Nat
  <2>1. e.len \in Lens /\ e.loc \in Nat
    BY DEF Entry
  <2>2. \A len \in Lens : len \in Nat /\ len >= 2
    BY LogAssumption
  <2> QED BY <2>1, <2>2
<1> HIDE DEF fs
<1>3. \A n \in 0..L : Bound(fs, n) = Bound(es, n) /\ Bound(es, n) \in Nat
  BY <1>1, BoundGrown, BoundIsNatural
<1>4. Bound(fs, L + 1) = e.loc + e.len
  BY <1>1 DEF Bound
<1> HIDE DEF L
<1>5. \A n \in 1..Len(fs) : fs[n].loc = Bound(fs, n - 1)
  <2> SUFFICES ASSUME NEW n \in 1..Len(fs) PROVE fs[n].loc = Bound(fs, n - 1)
    OBVIOUS
  <2>1. CASE n = L + 1
    <3>1. n - 1 = L /\ L \in 0..L
      BY <1>1, <2>1
    <3> QED BY <1>1, <1>3, <2>1, <3>1 DEF L
  <2>2. CASE n # L + 1
    <3>1. n \in 1..L /\ n - 1 \in 0..L
      BY <1>1, <2>2
    <3>2. fs[n] = es[n] /\ es[n].loc = Bound(es, n - 1)
      BY <1>1, <3>1 DEF Grown, Laid, L
    <3> QED BY <1>3, <3>1, <3>2
  <2> QED BY <2>1, <2>2
<1>6. \A m, n \in 0..Len(fs) : m < n => Bound(fs, m) < Bound(fs, n)
  <2> SUFFICES ASSUME NEW m \in 0..Len(fs), NEW n \in 0..Len(fs), m < n PROVE Bound(fs, m) < Bound(fs, n)
    OBVIOUS
  <2>1. m \in 0..L
    BY <1>1
  <2>2. \A k \in 0..L : k < L => Bound(es, k) < Bound(es, L)
    BY <1>1 DEF Laid, L
  <2>3. CASE n = L + 1
    <3>1. Bound(es, m) <= Bound(es, L) /\ Bound(es, L) = e.loc /\ Bound(es, m) \in Nat
      BY <1>1, <1>3, <2>1, <2>2 DEF L
    <3>2. Bound(fs, m) = Bound(es, m) /\ Bound(fs, n) = e.loc + e.len
      BY <1>3, <1>4, <2>1, <2>3
    <3> QED BY <1>2, <3>1, <3>2
  <2>4. CASE n # L + 1
    <3>1. n \in 0..L
      BY <1>1, <2>4
    <3>2. Bound(es, m) < Bound(es, n)
      BY <2>1, <3>1 DEF Laid, L
    <3> QED BY <1>3, <2>1, <3>1, <3>2
  <2> QED BY <2>3, <2>4
<1> QED BY <1>4, <1>5, <1>6 DEF Laid, fs, L

-----------------------------------------------------------------------------
(* What the first turn of the ring gives: *)
LEMMA FirstTurn ==
    ASSUME LogInv, RingInv, head < Size
    PROVE  /\ Laid(entries) /\ Indexed /\ Written /\ published = 1..Done
           /\ entries \in Seq(Entry) /\ Len(entries) \in Nat
           /\ head \in Nat /\ Bound(entries, Len(entries)) = head
           /\ \A n \in 0..Len(entries) : Bound(entries, n) \in Nat /\ Bound(entries, n) <= head
<1>1. /\ Laid(entries) /\ Indexed /\ Written /\ published = 1..Done
      /\ entries \in Seq(Entry) /\ Len(entries) \in Nat /\ head \in Nat
  BY DEF RingInv, LogInv, RingTypes
<1>2. Bound(entries, Len(entries)) = head
  BY <1>1 DEF Indexed
<1>3. \A n \in 0..Len(entries) : Bound(entries, n) \in Nat
  BY <1>1, BoundIsNatural
<1>4. \A n \in 0..Len(entries) : n < Len(entries) => Bound(entries, n) < Bound(entries, Len(entries))
  BY <1>1 DEF Laid
<1> QED BY <1>1, <1>2, <1>3, <1>4

(* An entry lies between the end of the one before it and its own end. *)
LEMMA EntryAt ==
    ASSUME LogInv, RingInv, head < Size, NEW n \in 1..Len(entries)
    PROVE  /\ entries[n].len \in Nat /\ entries[n].len >= 2
           /\ entries[n].loc = Bound(entries, n - 1) /\ entries[n].loc \in Nat
           /\ Bound(entries, n) = entries[n].loc + entries[n].len
           /\ entries[n].loc + entries[n].len <= head
<1>1. Laid(entries) /\ Len(entries) \in Nat /\ \A m \in 0..Len(entries) : Bound(entries, m) \in Nat /\ Bound(entries, m) <= head
  BY FirstTurn
<1>2. n \in 0..Len(entries) /\ n - 1 \in 0..Len(entries) /\ n # 0
  BY <1>1
<1>3. entries[n].len \in Nat /\ entries[n].len >= 2
  BY EntryLength
<1>4. entries[n].loc = Bound(entries, n - 1)
  BY <1>1 DEF Laid
<1>5. Bound(entries, n) = entries[n].loc + entries[n].len
  BY <1>2 DEF Bound
<1>6. Bound(entries, n - 1) \in Nat /\ Bound(entries, n) <= head
  BY <1>1, <1>2
<1> QED BY <1>3, <1>4, <1>5, <1>6

LEMMA RingStep ==
    ASSUME OneProducer, LogInv, RingInv, NEW p \in Producers,
           Tracing(p) \/ \E len \in Lens : ReadId(p, len), head' < Size
    PROVE  /\ head < Size
           /\ RingInv'
           /\ Done' = IF StoreLast(p) THEN Done + 1 ELSE Done
           /\ ~StoreLast(p) => published' = published
           /\ StoreLast(p) => published' = published \cup {Done + 1} /\ prod[p].pc = "last"
<1>1. prod[p] \in Thread /\ prod \in [Producers -> Thread] /\ \A q \in Producers : q = p
  BY DEF LogInv, ProducerTypes, OneProducer
<1>2. head \in Nat /\ head < Size
  <2>1. head \in Nat /\ (prod[p].pc \in {"alloc", "add"} => prod[p].len \in Nat)
    BY <1>1, ThreadFields DEF LogInv, RingTypes
  <2>2. head' = head \/ (prod[p].pc \in {"alloc", "add"} /\ head' = head + prod[p].len)
    BY DEF Tracing, ReadId, WriteId, FoldIndex, StoreWrapCount, Allocate, CopyCell, ReadIndex, StoreLast
  <2> QED BY <2>1, <2>2, RingSize
<1>3. /\ Laid(entries) /\ Indexed /\ Written /\ published = 1..Done
      /\ entries \in Seq(Entry) /\ Len(entries) \in Nat
      /\ Bound(entries, Len(entries)) = head /\ currentIndex = head
  BY <1>2, FirstTurn DEF Indexed
<1> DEFINE L == Len(entries)
           D == IF prod[p].pc \in Copying THEN L - 1 ELSE L
           D1 == IF prod'[p].pc \in Copying THEN Len(entries') - 1 ELSE Len(entries')
<1>4. Done = D /\ Done' = D1
  BY DoneIs DEF Done
<1>5. (\A n \in 1..D : Whole(n, entries, mem)) /\ Wrote(prod[p], entries, mem)
  BY <1>3, <1>4 DEF Written
<1>6. ASSUME Laid(entries'), Indexed', \A n \in 1..D1 : Whole(n, entries', mem'),
             Wrote(prod'[p], entries', mem'), published' = 1..D1
      PROVE  RingInv'
  <2>1. Written'
    BY <1>1, <1>4, <1>6 DEF Written
  <2> QED BY <1>4, <1>6, <2>1 DEF RingInv
<1>7. ASSUME UNCHANGED <<entries, mem, head, currentIndex, published>>,
             prod[p].pc \in {"idle", "id"}, prod'[p].pc \in {"id", "alloc"}
      PROVE  RingInv' /\ Done' = Done
  <2>1. D = L /\ D1 = L
    BY <1>7 DEF Copying
  <2>2. Wrote(prod'[p], entries', mem')
    BY <1>7 DEF Wrote, Copying
  <2> QED BY <1>3, <1>4, <1>5, <1>6, <1>7, <2>1, <2>2 DEF Indexed
<1>8. ASSUME NEW len \in Lens, ReadId(p, len)
      PROVE  RingInv' /\ Done' = Done /\ published' = published /\ ~StoreLast(p)
  <2>1. prod[p].pc = "idle" /\ prod'[p].pc = "id" /\ UNCHANGED <<entries, mem, head, currentIndex, published>>
    BY <1>1, <1>8 DEF ReadId, Idle
  <2> QED BY <1>7, <2>1 DEF StoreLast
<1>9. ASSUME WriteId(p)
      PROVE  RingInv' /\ Done' = Done /\ published' = published /\ ~StoreLast(p)
  <2>1. prod[p].pc = "id" /\ prod'[p].pc = "alloc" /\ UNCHANGED <<entries, mem, head, currentIndex, published>>
    BY <1>1, <1>9 DEF WriteId, Thread
  <2> QED BY <1>7, <2>1 DEF StoreLast
<1>10. ~FoldIndex(p) /\ ~StoreWrapCount(p)
  <2>1. ~(currentIndex > IndexMax - Margin)
    BY <1>2, <1>3, RingSize, LogAssumption
  <2> QED BY <1>5, <2>1 DEF FoldIndex, StoreWrapCount, isIndexRollingOver, Wrote
<1>11. ASSUME Allocate(p)
       PROVE  RingInv' /\ Done' = Done /\ published' = published /\ ~StoreLast(p)
  <2> DEFINE e == [loc |-> currentIndex, pos |-> head, len |-> prod[p].len, id |-> prod[p].id]
             len == prod[p].len
  <2>1. /\ prod[p].pc = "alloc" /\ entries' = Append(entries, e) /\ head' = head + len
        /\ currentIndex' = (currentIndex + len) % (IndexMax + 1)
        /\ mem' = mem /\ published' = published
    BY <1>5, <1>11 DEF Allocate, Wrote
  <2>2. len \in Lens /\ len \in Nat /\ e \in Entry /\ e.loc = head /\ e.len = len
    <3>1. len \in Lens /\ len \in Nat /\ prod[p].id \in Nat
      BY <1>1, <2>1, ThreadFields DEF LogInv, ProducerTypes
    <3>2. e \in Entry
      BY <3>1 DEF Entry, LogInv, RingTypes
    <3> QED BY <1>3, <3>1, <3>2
  <2>3. /\ prod'[p].pc = "copy" /\ prod'[p].entry = L + 1 /\ prod'[p].todo = 0..(len - 1)
    BY <1>1, <1>11 DEF Allocate, Thread
  <2> HIDE DEF e, len
  <2>4. Len(entries') = L + 1 /\ entries'[L + 1] = e /\ Grown(entries, entries')
    BY <1>3, <2>1, <2>2 DEF Grown
  <2>5. D = L /\ D1 = L
    BY <1>3, <2>1, <2>3, <2>4 DEF Copying
  <2>6. Laid(entries') /\ Bound(entries', L + 1) = head'
    BY <1>3, <2>1, <2>2, LaidAppend
  <2>7. currentIndex' = head'
    <3>1. head + len <= IndexMax
      BY <1>2, <2>1, <2>2, RingSize
    <3>2. (head + len) % (IndexMax + 1) = head + len
      BY <1>2, <2>2, <3>1, RingSize, WithinWidth
    <3> QED BY <1>3, <2>1, <3>2
  <2>8. \A n \in 1..D1 : Whole(n, entries', mem')
    BY <1>5, <2>1, <2>4, <2>5 DEF Whole, Grown
  <2>9. Wrote(prod'[p], entries', mem')
    BY <1>3, <2>2, <2>3, <2>4 DEF Wrote, Copying
  <2>10. published' = 1..D1
    BY <1>3, <1>4, <2>1, <2>5
  <2>11. Indexed'
    BY <2>4, <2>6, <2>7 DEF Indexed
  <2>12. RingInv' /\ Done' = Done
    BY <1>4, <1>6, <2>5, <2>6, <2>8, <2>9, <2>10, <2>11
  <2> QED BY <2>1, <2>12 DEF StoreLast
<1>12. ASSUME CopyCell(p)
       PROVE  RingInv' /\ Done' = Done /\ published' = published /\ ~StoreLast(p)
  <2>1. PICK k \in prod[p].todo :
          /\ mem' = set(mem, entries[prod[p].entry].loc + k, <<[entry |-> prod[p].entry, part |-> k]>>)
          /\ prod' = [prod EXCEPT ![p].todo = @ \ {k},
                                  ![p].pc = IF prod[p].todo = {k} THEN "index" ELSE "copy"]
    BY <1>12 DEF CopyCell
  <2>2. /\ prod[p].pc = "copy" /\ UNCHANGED <<entries, head, currentIndex, published>>
        /\ prod'[p].todo = prod[p].todo \ {k} /\ prod'[p].entry = prod[p].entry
        /\ prod'[p].pc = IF prod[p].todo = {k} THEN "index" ELSE "copy"
    BY <1>1, <1>12, <2>1 DEF CopyCell, Thread
  <2>3. /\ prod[p].entry = L /\ L > 0 /\ prod[p].todo \subseteq 0..(entries[L].len - 1)
        /\ \A j \in (0..(entries[L].len - 1)) \ prod[p].todo : mem[entries[L].loc + j] = CellOf(L, j)
    BY <1>5, <2>2 DEF Wrote, Copying
  <2>4. L \in 1..L /\ D = L - 1 /\ D1 = L - 1
    BY <1>3, <2>2, <2>3 DEF Copying
  <2> DEFINE loc == entries[L].loc
             len == entries[L].len
  <2>5. /\ loc \in Nat /\ len \in Nat /\ loc = Bound(entries, L - 1) /\ loc + len <= head
    BY <1>2, <2>4, EntryAt
  <2>6. k \in 0..(len - 1) /\ loc + k \in Nat /\ loc + k < Size
    BY <1>2, <2>3, <2>5, RingSize
  <2>7. mem \in [RingCells -> Cell]
    BY DEF LogInv, RingTypes
  <2> DEFINE at == loc + k
             v == CellOf(L, k)
  <2>8. mem' = [mem EXCEPT ![at] = v] /\ at \in RingCells
    <3>1. mem' = set(mem, at, <<v>>)
      BY <2>1, <2>3 DEF CellOf
    <3>2. at \in RingCells /\ at \in Nat /\ at < Size
      BY <2>6, RingSize DEF RingCells
    <3> HIDE DEF at, v
    <3> QED BY <2>7, <3>1, <3>2, CellWritten
  <2>9. \A c \in RingCells : mem'[c] = IF c = at THEN v ELSE mem[c]
    <3> HIDE DEF at, v
    <3> QED BY <2>7, <2>8
  <2>10. \A n \in 1..D1 : Whole(n, entries', mem')
    <3> SUFFICES ASSUME NEW n \in 1..(L - 1), NEW j \in 0..(entries[n].len - 1)
                 PROVE  mem'[entries[n].loc + j] = CellOf(n, j)
      BY <2>2, <2>4 DEF Whole
    <3>1. n \in 1..L /\ n \in 0..L /\ L - 1 \in 0..L
      BY <1>3, <2>4
    <3>2. /\ entries[n].loc \in Nat /\ entries[n].len \in Nat
          /\ Bound(entries, n) = entries[n].loc + entries[n].len
      BY <1>2, <3>1, EntryAt
    <3>3. Bound(entries, n) <= loc
      <4>1. n < L - 1 => Bound(entries, n) < Bound(entries, L - 1)
        BY <1>3, <3>1 DEF Laid
      <4>2. Bound(entries, n) \in Nat /\ (n = L - 1 \/ n < L - 1)
        BY <1>3, <3>2
      <4> QED BY <2>5, <4>1, <4>2
    <3>4. entries[n].loc + j < at /\ entries[n].loc + j \in RingCells
      <4> DEFINE x == entries[n].loc + j
      <4>1. x \in Nat /\ x < Bound(entries, n) /\ Bound(entries, n) \in Nat
        <5> DEFINE from == entries[n].loc
                   size == entries[n].len
                   bound == Bound(entries, n)
        <5>1. from \in Nat /\ size \in Nat /\ bound = from + size /\ j \in 0..(size - 1)
          BY <3>2
        <5> HIDE DEF from, size, bound
        <5>2. from + j \in Nat /\ from + j < bound /\ bound \in Nat
          BY <5>1
        <5> QED BY <5>2 DEF from, bound
      <4>2. loc \in Nat /\ k \in Nat /\ at < Size
        BY <2>5, <2>6
      <4> HIDE DEF x, loc
      <4>3. x < loc + k /\ x < Size
        BY <3>3, <4>1, <4>2, RingSize
      <4> QED BY <4>1, <4>3, RingSize DEF x, loc, RingCells
    <3>5. mem[entries[n].loc + j] = CellOf(n, j)
      BY <1>5, <2>4 DEF Whole
    <3>6. entries[n].loc + j # at
      BY <2>5, <2>6, <3>2, <3>4
    <3> QED BY <2>9, <3>4, <3>5, <3>6
  <2>11. \A j \in (0..(len - 1)) \ (prod[p].todo \ {k}) : mem'[loc + j] = CellOf(L, j)
    <3> SUFFICES ASSUME NEW j \in (0..(len - 1)) \ (prod[p].todo \ {k}) PROVE mem'[loc + j] = CellOf(L, j)
      OBVIOUS
    <3>1. loc + j \in RingCells
      BY <1>2, <2>5, RingSize DEF RingCells
    <3>2. CASE j = k
      BY <2>9, <3>1, <3>2
    <3>3. CASE j # k
      <4>1. loc + j # at /\ j \in (0..(len - 1)) \ prod[p].todo
        BY <2>5, <2>6, <3>3
      <4>2. mem[loc + j] = CellOf(L, j)
        BY <2>3, <4>1
      <4> QED BY <2>9, <3>1, <4>1, <4>2
    <3> QED BY <3>2, <3>3
  <2>12. Wrote(prod'[p], entries', mem')
    <3>1. CASE prod[p].todo = {k}
      <4>1. prod'[p].pc = "index" /\ prod[p].todo \ {k} = {}
        BY <2>2, <3>1
      <4>2. Whole(L, entries', mem')
        BY <2>2, <2>11, <4>1 DEF Whole
      <4> QED BY <2>2, <2>3, <4>1, <4>2 DEF Wrote, Copying
    <3>2. CASE prod[p].todo # {k}
      <4>1. prod'[p].pc = "copy"
        BY <2>2, <3>2
      <4> QED BY <2>2, <2>3, <2>11, <4>1 DEF Wrote, Copying
    <3> QED BY <3>1, <3>2
  <2>13. RingInv' /\ Done' = Done
    <3> HIDE DEF D, D1
    <3>1. published' = 1..D1 /\ Laid(entries') /\ Indexed'
      BY <1>3, <1>4, <2>2, <2>4 DEF Indexed
    <3> QED BY <1>4, <1>6, <2>4, <2>10, <2>12, <3>1
  <2> QED BY <2>2, <2>13 DEF StoreLast
<1>13. ASSUME ReadIndex(p)
       PROVE  RingInv' /\ Done' = Done /\ published' = published /\ ~StoreLast(p)
  <2>1. /\ prod[p].pc = "index" /\ prod'[p].pc = "last" /\ prod'[p].entry = prod[p].entry
        /\ UNCHANGED <<entries, mem, head, currentIndex, published>>
    BY <1>1, <1>13 DEF ReadIndex, Thread
  <2>2. D = L - 1 /\ D1 = L - 1
    BY <2>1 DEF Copying
  <2>3. Wrote(prod'[p], entries', mem')
    BY <1>5, <2>1 DEF Wrote, Copying
  <2>4. RingInv' /\ Done' = Done
    BY <1>3, <1>4, <1>5, <1>6, <2>1, <2>2, <2>3 DEF Indexed
  <2> QED BY <2>1, <2>4 DEF StoreLast
<1>14. ASSUME StoreLast(p)
       PROVE  RingInv' /\ Done' = Done + 1 /\ published' = published \cup {Done + 1} /\ prod[p].pc = "last"
  <2>1. /\ prod[p].pc = "last" /\ prod'[p] = Idle /\ published' = published \cup {prod[p].entry}
        /\ UNCHANGED <<entries, mem, head, currentIndex>>
    BY <1>1, <1>14 DEF StoreLast
  <2>2. prod'[p].pc = "idle"
    BY <2>1 DEF Idle
  <2>3. prod[p].entry = L /\ L > 0 /\ Whole(L, entries, mem)
    BY <1>5, <2>1 DEF Wrote, Copying
  <2>4. D = L - 1 /\ D1 = L /\ L = (L - 1) + 1
    BY <1>3, <2>1, <2>2 DEF Copying
  <2>5. published' = 1..L
    <3>1. published' = (1..(L - 1)) \cup {L}
      BY <1>3, <1>4, <2>1, <2>3, <2>4
    <3>2. (1..(L - 1)) \cup {L} = 1..L
      <4> HIDE DEF L
      <4>1. L \in Nat /\ L > 0
        BY <1>3, <2>3 DEF L
      <4> QED BY <4>1
    <3> QED BY <3>1, <3>2
  <2>6. \A n \in 1..D1 : Whole(n, entries', mem')
    <3>1. \A n \in 1..L : n \in 1..(L - 1) \/ n = L
      BY <1>3
    <3> QED BY <1>5, <2>1, <2>3, <2>4, <3>1
  <2>7. Wrote(prod'[p], entries', mem')
    BY <2>2 DEF Wrote, Copying
  <2>8. RingInv'
    BY <1>3, <1>6, <2>1, <2>4, <2>5, <2>6, <2>7 DEF Indexed
  <2> QED BY <1>4, <2>1, <2>3, <2>4, <2>8
<1> QED
  BY <1>2, <1>8, <1>9, <1>10, <1>11, <1>12, <1>13, <1>14 DEF Tracing

(* What is complete is a number of entries. *)
LEMMA DoneIsCount ==
    ASSUME LogInv, RingInv, head < Size
    PROVE  Done \in 0..Len(entries) /\ Done \in Nat
<1>1. Len(entries) \in Nat /\ Written
  BY FirstTurn
<1>2. CASE \E p \in Producers : prod[p].pc \in Copying
  <2>1. Done = Len(entries) - 1
    BY <1>2 DEF Done, DoneOf
  <2>2. Len(entries) > 0
    BY <1>1, <1>2 DEF Written, Wrote
  <2> QED BY <1>1, <2>1, <2>2
<1>3. CASE ~\E p \in Producers : prod[p].pc \in Copying
  BY <1>1, <1>3 DEF Done, DoneOf
<1> QED BY <1>2, <1>3

LEMMA LastStep ==
    ASSUME OneProducer, LogInv, RingInv, LastInv, NEW p \in Producers,
           Tracing(p) \/ \E len \in Lens : ReadId(p, len), head' < Size
    PROVE  LastInv'
<1>1. /\ prod[p] \in Thread /\ prod \in [Producers -> Thread] /\ \A q \in Producers : q = p
      /\ entries \in Seq(Entry) /\ Len(entries) \in Nat
  BY DEF LogInv, ProducerTypes, RingTypes, OneProducer
<1>2. /\ head < Size /\ RingInv' /\ LogInv' /\ Grown(entries, entries')
      /\ Done' = IF StoreLast(p) THEN Done + 1 ELSE Done
  BY RingStep, LogStep
<1>3. /\ currentIndex = head /\ lastWritten = Bound(entries, Done)
      /\ prod[p].pc = "last" => prod[p].index = head
      /\ Bound(entries, Len(entries)) = head
  BY <1>2, FirstTurn DEF LastInv, Indexed
<1>4. Done \in 0..Len(entries)
  BY <1>2, DoneIsCount
<1>5. ASSUME ~StoreLast(p), lastWritten' = lastWritten, prod'[p].pc = "last" => prod'[p].index = head'
      PROVE  LastInv'
  <2>1. Done' = Done /\ Bound(entries', Done) = Bound(entries, Done)
    BY <1>1, <1>2, <1>4, <1>5, BoundGrown
  <2> QED BY <1>1, <1>3, <1>5, <2>1 DEF LastInv
<1>6. ASSUME NEW len \in Lens, ReadId(p, len) PROVE LastInv'
  <2>1. prod[p].pc = "idle" /\ prod'[p].pc = "id" /\ lastWritten' = lastWritten
    BY <1>1, <1>6 DEF ReadId, Idle
  <2> QED BY <1>5, <2>1 DEF StoreLast
<1>7. CASE WriteId(p)
  <2>1. prod[p].pc = "id" /\ prod'[p].pc = "alloc" /\ lastWritten' = lastWritten
    BY <1>1, <1>7 DEF WriteId, Thread
  <2> QED BY <1>5, <2>1 DEF StoreLast
<1>8. CASE FoldIndex(p)
  <2>1. prod[p].pc = "alloc" /\ prod'[p].pc = "wrap" /\ lastWritten' = lastWritten
    BY <1>1, <1>8 DEF FoldIndex, Thread
  <2> QED BY <1>5, <2>1 DEF StoreLast
<1>9. CASE StoreWrapCount(p)
  <2>1. prod[p].pc = "wrap" /\ prod'[p].pc = "add" /\ lastWritten' = lastWritten
    BY <1>1, <1>9 DEF StoreWrapCount, Thread
  <2> QED BY <1>5, <2>1 DEF StoreLast
<1>10. CASE Allocate(p)
  <2>1. prod[p].pc \in {"alloc", "add"} /\ prod'[p].pc = "copy" /\ lastWritten' = lastWritten
    BY <1>1, <1>10 DEF Allocate, Thread
  <2> QED BY <1>5, <2>1 DEF StoreLast
<1>11. CASE CopyCell(p)
  <2>1. prod[p].pc = "copy" /\ prod'[p].pc \in {"index", "copy"} /\ lastWritten' = lastWritten
    BY <1>1, <1>11 DEF CopyCell, Thread
  <2> QED BY <1>5, <2>1 DEF StoreLast
<1>12. CASE ReadIndex(p)
  <2>1. prod[p].pc = "index" /\ prod'[p].index = currentIndex /\ head' = head /\ lastWritten' = lastWritten
    BY <1>1, <1>12 DEF ReadIndex, Thread
  <2> QED BY <1>3, <1>5, <2>1 DEF StoreLast
<1>13. CASE StoreLast(p)
  <2>1. /\ prod[p].pc = "last" /\ lastWritten' = prod[p].index /\ prod'[p].pc = "idle"
        /\ UNCHANGED <<entries, head>>
    BY <1>1, <1>13 DEF StoreLast, Idle
  <2>2. Done' = Len(entries)
    BY <2>1, DoneIs DEF Done, Copying
  <2> QED BY <1>1, <1>3, <2>1, <2>2 DEF LastInv
<1> QED BY <1>6, <1>7, <1>8, <1>9, <1>10, <1>11, <1>12, <1>13 DEF Tracing

(* Who does not log leaves the ring alone. *)
LEMMA RingKept ==
    ASSUME UNCHANGED logVars
    PROVE  /\ RingInv => RingInv'
           /\ LastInv => LastInv'
           /\ Done' = Done
<1>1. Done' = Done
  BY DEF Done, DoneOf, logVars
<1> QED BY <1>1 DEF RingInv, LastInv, Indexed, Written, logVars

LEMMA RingInitial ==
    ASSUME IndexAtStart, Init
    PROVE  RingInv /\ (LastAtStart => LastInv) /\ Done = 0 /\ entries = <<>>
<1>1. /\ entries = <<>> /\ published = {} /\ currentIndex \in InitIndex /\ head = currentIndex
      /\ lastWritten \in InitLast /\ \A p \in Producers : prod[p].pc = "idle"
  BY DEF Init, LogInit, Idle
<1>2. Len(entries) = 0 /\ Done = 0
  BY <1>1 DEF Done, DoneOf, Copying
<1>3. head < Size => head = 0
  <2>1. currentIndex \in Nat /\ (currentIndex = 0 \/ currentIndex >= Size)
    BY <1>1, LogAssumption DEF IndexAtStart
  <2> QED BY <1>1, <2>1, RingSize
<1>4. Laid(entries)
  BY <1>2 DEF Laid
<1>5. Written
  BY <1>1, <1>2 DEF Written, Wrote, Copying
<1>6. head < Size => Indexed
  BY <1>1, <1>2, <1>3 DEF Indexed, Bound
<1>7. published = 1..Done
  BY <1>1, <1>2
<1>8. RingInv
  BY <1>4, <1>5, <1>6, <1>7 DEF RingInv
<1>9. LastAtStart => LastInv
  BY <1>1, <1>2 DEF LastAtStart, LastInv, Bound
<1> QED BY <1>1, <1>2, <1>8, <1>9

-----------------------------------------------------------------------------
(* The readers *)

(* A cell of a complete entry is read as it was written. *)
LEMMA EntryCell ==
    ASSUME LogInv, RingInv, head < Size, NEW n \in 1..Done, NEW k \in 0..(entries[n].len - 1)
    PROVE  getByte(mem, Bound(entries, n - 1) + k) = CellOf(n, k)
<1>1. n \in 1..Len(entries) /\ Written
  BY DoneIsCount, FirstTurn
<1>2. /\ entries[n].len \in Nat /\ entries[n].loc = Bound(entries, n - 1) /\ entries[n].loc \in Nat
      /\ entries[n].loc + entries[n].len <= head
  BY <1>1, EntryAt
<1>3. head \in Nat
  BY DEF LogInv, RingTypes
<1> DEFINE at == entries[n].loc + k
<1>4. at \in Nat /\ at < Size
  BY <1>2, <1>3, RingSize
<1>5. mem[at] = CellOf(n, k)
  BY <1>1 DEF Written, Whole
<1> HIDE DEF at
<1>6. getByte(mem, at) = CellOf(n, k)
  BY <1>4, <1>5, BelowSize DEF getByte
<1> QED BY <1>2, <1>6 DEF at

(* What a reader does at a complete entry that ends within its range: it   *)
(* goes on reading it, or it prints it and proceeds to the end of it.      *)
ReadsOn(d, next, n, es) ==
    /\ next.pc = "body" /\ next.task = d.task /\ next.end = d.end
    /\ AtEntry(next, n, es)

Prints(d, n) ==
    /\ file' = IF Stream(d) = "file" THEN Append(file, n) ELSE file
    /\ stdout' = IF Stream(d) = "stdout" THEN Append(stdout, n) ELSE stdout

LEMMA ReadsEntry ==
    ASSUME LogInv, RingInv, head < Size, NEW r \in Readers, rd \in [Readers -> Reader],
           GoodReader(rd[r], entries), NEW n \in 1..Done,
           rd[r].pc \in {"hdr", "body"}, AtEntry(rd[r], n, entries), Bound(entries, n) <= rd[r].end,
           Reading(r)
    PROVE  \E next :
              /\ rd' = [rd EXCEPT ![r] = next]
              /\ \/ ReadsOn(rd[r], next, n, entries) /\ UNCHANGED <<file, stdout>>
                 \/ next = Proceed(rd[r], Bound(entries, n)) /\ Prints(rd[r], n)
<1> DEFINE d == rd[r]
           len == entries[n].len
           at == Bound(entries, n - 1)
<1>1. n \in 1..Len(entries) /\ n # 0 /\ n \in Nat
  BY DoneIsCount
<1>2. len \in Nat /\ len >= 2 /\ at \in Nat /\ Bound(entries, n) = at + len
  BY <1>1, EntryAt
<1>3. d \in Reader /\ d.at = at /\ d.mode = "print" /\ d.buf \in Seq(Cell)
  BY ReaderFields DEF AtEntry, GoodReader
<1>4. /\ d.pc = "hdr" => d.buf = <<>>
      /\ d.pc = "body" => /\ d.hdr = CellOf(n, 0)
                          /\ \A k \in 1..Len(d.buf) : d.buf[k] = CellOf(n, k - 1)
                          /\ Len(d.buf) < len
  BY DEF AtEntry, GoodReader, CellOf
<1>5. \A k \in 0..(len - 1) : getByte(mem, at + k) = CellOf(n, k)
  BY EntryCell
<1>6. ~ComparePattern(r)
  BY DEF ComparePattern
<1>7. CASE ReadHeader(r)
  <2> DEFINE c == getByte(mem, at)
             next == [d EXCEPT !.pc = "body", !.hdr = c]
  <2>1. c = CellOf(n, 0)
    <3>1. at + 0 = at /\ 0 \in 0..(len - 1)
      BY <1>2
    <3> QED BY <1>5, <3>1
  <2>2. IsHeader(c)
    BY <1>1, <2>1 DEF IsHeader, CellOf
  <2>3. rd' = [rd EXCEPT ![r] = next] /\ UNCHANGED <<file, stdout>> /\ d.pc = "hdr"
    BY <1>3, <1>7, <2>2 DEF ReadHeader, Step
  <2>4. /\ next.pc = "body" /\ next.hdr = c /\ next.task = d.task /\ next.end = d.end
        /\ next.mode = d.mode /\ next.at = d.at /\ next.buf = d.buf
    BY <1>3 DEF Reader
  <2> HIDE DEF next, c
  <2>5. ReadsOn(d, next, n, entries)
    BY <1>3, <1>4, <2>1, <2>3, <2>4 DEF ReadsOn, AtEntry
  <2> QED BY <2>3, <2>5
<1>8. CASE ReadBody(r)
  <2> DEFINE c == getByte(mem, at + Len(d.buf))
             buf == Append(d.buf, c)
             l == Len(d.buf)
  <2>1. d.pc = "body" /\ LenOf(d.hdr) = len /\ l \in Nat /\ l < len
    BY <1>3, <1>4, <1>8 DEF ReadBody, LenOf, CellOf
  <2>2. c = CellOf(n, l)
    BY <1>2, <1>5, <2>1
  <2>3. Len(buf) = l + 1 /\ \A k \in 1..(l + 1) : buf[k] = CellOf(n, k - 1)
    <3>1. c \in Cell
      BY <1>1, <2>1, <2>2 DEF Cell, CellOf
    <3> HIDE DEF c
    <3> QED BY <1>3, <1>4, <2>1, <2>2, <3>1
  <2>4. \/ /\ Len(buf) < len /\ Step(r, [d EXCEPT !.buf = buf]) /\ UNCHANGED <<file, stdout>>
        \/ /\ Len(buf) = len /\ ValidEntry(d.hdr, buf)
           /\ Step(r, GetLogSucceeded(d)) /\ WriteLine(d, buf)
        \/ Len(buf) = len /\ ~ValidEntry(d.hdr, buf)
    BY <1>3, <1>8, <2>1 DEF ReadBody
  <2> HIDE DEF buf, l, c
  <2>5. CASE Len(buf) < len /\ Step(r, [d EXCEPT !.buf = buf]) /\ UNCHANGED <<file, stdout>>
    <3> DEFINE next == [d EXCEPT !.buf = buf]
    <3>1. /\ next.pc = "body" /\ next.hdr = d.hdr /\ next.task = d.task /\ next.end = d.end
          /\ next.mode = d.mode /\ next.at = d.at /\ next.buf = buf
      BY <1>3, <2>1 DEF Reader
    <3>2. rd' = [rd EXCEPT ![r] = next]
      BY <2>5 DEF Step
    <3> HIDE DEF next
    <3>3. ReadsOn(d, next, n, entries)
      BY <1>3, <1>4, <2>1, <2>3, <3>1 DEF ReadsOn, AtEntry
    <3> QED BY <2>5, <3>2, <3>3
  <2>6. ASSUME Len(buf) = len
        PROVE  ValidEntry(d.hdr, buf) /\ LineOf(buf) = n
    <3>1. buf[1] = CellOf(n, 0) /\ buf[len] = CellOf(n, len - 1) /\ len = l + 1
      <4>1. 1 \in 1..(l + 1) /\ len \in 1..(l + 1) /\ 1 - 1 = 0 /\ len = l + 1
        BY <1>2, <2>1, <2>3, <2>6
      <4> QED BY <2>3, <4>1
    <3>2. d.hdr = CellOf(n, 0)
      BY <1>4, <2>1
    <3>3. ValidEntry(d.hdr, buf)
      BY <1>1, <2>6, <3>1, <3>2 DEF ValidEntry, IsTrailer, IdOf, LenOf, CellOf
    <3>4. LineOf(buf) = n
      BY <2>3, <2>6, <3>1 DEF LineOf, CellOf
    <3> QED BY <3>3, <3>4
  <2>7. CASE Len(buf) = len
    <3> DEFINE next == Proceed(d, Bound(entries, n))
    <3>1. Step(r, GetLogSucceeded(d)) /\ WriteLine(d, buf) /\ LineOf(buf) = n
      BY <2>4, <2>6, <2>7
    <3>2. GetLogSucceeded(d) = next
      BY <1>2, <1>3, <2>1 DEF GetLogSucceeded
    <3>3. rd' = [rd EXCEPT ![r] = next]
      BY <3>1, <3>2 DEF Step
    <3>4. d.at + LenOf(d.hdr) <= d.end
      BY <1>2, <1>3, <2>1
    <3>5. Prints(d, n)
      BY <1>3, <3>1, <3>4 DEF WriteLine, Prints
    <3> HIDE DEF next
    <3>6. next = Proceed(d, Bound(entries, n))
      BY DEF next
    <3> QED BY <3>3, <3>5, <3>6
  <2> QED BY <2>4, <2>5, <2>7
<1> QED BY <1>6, <1>7, <1>8 DEF Reading

(* dumpRange()'s loop goes on to the next entry, or returns at its limit.  *)
LEMMA LoopFields ==
    ASSUME NEW d, NEW i, NEW next, next = LoopAt(d, i)
    PROVE  /\ i < d.end => /\ next.pc = "hdr" /\ next.task = d.task /\ next.end = d.end
                           /\ next.mode = "print" /\ next.at = i
           /\ ~(i < d.end) => next.pc = "ret" /\ next.task = d.task /\ next.ret = i
<1>1. CASE i < d.end
  BY <1>1 DEF LoopAt, NoRead
<1>2. CASE ~(i < d.end)
  BY <1>2 DEF LoopAt, Return, NoRead
<1> QED BY <1>1, <1>2

(* A range of the first turn is taken as it is. *)
LEMMA RangeFrom ==
    ASSUME NEW d \in Reader, NEW task \in Tasks, NEW start \in Nat, NEW end \in Nat,
           start < end, end < Size,
           NEW next, next = dumpRange([d EXCEPT !.task = task], start, Dec(end))
    PROVE  /\ next.pc = "hdr" /\ next.task = task /\ next.end = end
           /\ next.mode = "print" /\ next.at = start
<1> DEFINE d1 == [d EXCEPT !.task = task]
           d2 == [d1 EXCEPT !.end = end]
<1>1. Dec(end) = end - 1 /\ end - 1 \in Nat /\ end - 1 < Size /\ start < Size
  BY RingSize DEF Dec
<1>2. normalize(start) = start /\ normalize(Dec(end)) + 1 = end
  <2>1. normalize(end - 1) = end - 1
    BY <1>1, BelowSize
  <2> QED BY <1>1, <2>1, BelowSize
<1>3. d1 \in Reader /\ d1.task = task
  BY DEF Reader
<1>4. d2.end = end /\ d2.task = task
  BY <1>3 DEF Reader
<1>5. ~(start > end)
  OBVIOUS
<1> HIDE DEF d1
<1>6. next = LoopAt(d2, start)
  BY <1>2, <1>5 DEF dumpRange, d1
<1> HIDE DEF d2
<1> QED BY <1>4, <1>6, LoopFields

LEMMA ProceedsTo ==
    ASSUME NEW d, NEW i \in Nat, d.end \in Nat, i <= d.end, NEW next, next = Proceed(d, i)
    PROVE  /\ i < d.end => /\ next.pc = "hdr" /\ next.task = d.task /\ next.end = d.end
                           /\ next.mode = "print" /\ next.at = i
           /\ i = d.end => next.pc = "ret" /\ next.task = d.task /\ next.ret = i
<1>1. next = LoopAt(d, i)
  BY DEF Proceed
<1> QED BY <1>1, LoopFields

(* Entries are where they were when more are added behind them. *)
LEMMA AtEntryGrown ==
    ASSUME NEW es \in Seq(Entry), NEW fs, Grown(es, fs), NEW n \in 1..Len(es), NEW d, AtEntry(d, n, es)
    PROVE  AtEntry(d, n, fs)
<1>1. n - 1 \in 0..Len(es)
  OBVIOUS
<1>2. Bound(fs, n - 1) = Bound(es, n - 1)
  BY <1>1, BoundGrown
<1> QED BY <1>2 DEF AtEntry

LEMMA WorkerAtGrown ==
    ASSUME NEW es \in Seq(Entry), NEW fs, Grown(es, fs), NEW done \in 0..Len(es), NEW more \in Nat, done <= more,
           NEW f \in 0..done, NEW d, NEW mark, WorkerAt(d, f, es, mark, done)
    PROVE  WorkerAt(d, f, fs, mark, more)
<1>1. Len(es) \in Nat
  OBVIOUS
<1>2. \A g \in 0..done : Bound(fs, g) = Bound(es, g)
  BY <1>1, BoundGrown
<1>3. d.pc = "split" => \E g \in f..more : d.rangeEnd = Bound(fs, g)
  <2>1. \A g \in f..done : g \in f..more /\ g \in 0..done
    BY <1>1
  <2> QED BY <1>2, <2>1 DEF WorkerAt
<1>4. CASE d.pc \in {"hdr", "body"}
  <2>1. PICK g \in (f + 1)..done : d.end = Bound(es, g)
    BY <1>4 DEF WorkerAt
  <2>2. g \in (f + 1)..more /\ g \in 0..done /\ f + 1 \in 1..Len(es)
    BY <1>1
  <2>3. d.task = "only" /\ AtEntry(d, f + 1, fs)
    BY <1>4, <2>2, AtEntryGrown DEF WorkerAt
  <2> QED BY <1>2, <1>4, <2>1, <2>2, <2>3 DEF WorkerAt
<1>5. CASE d.pc \notin {"hdr", "body"}
  BY <1>2, <1>3, <1>5 DEF WorkerAt
<1> QED BY <1>4, <1>5

-----------------------------------------------------------------------------
(* The trace file *)

(* What a step may do to the file: nothing, or add the next entry *)
Delivers ==
    \/ file' = file
    \/ /\ file' = Append(file, Len(file) + 1)
       /\ Len(file) + 1 \in 1..Done

LEMMA WorkerReads ==
    ASSUME CollectorInv, RingInv, head < Size, NEW f \in 0..Done, f = Len(file),
           \A k \in 1..f : file[k] = k,
           WorkerAt(rd["worker"], f, entries, bookmark, Done),
           Reading("worker"), UNCHANGED <<logVars, collectVars>>
    PROVE  /\ Len(file') <= Done /\ \A k \in 1..Len(file') : file'[k] = k
           /\ WorkerAt(rd'["worker"], Len(file'), entries, bookmark, Done)
           /\ Delivers
<1> DEFINE d == rd["worker"]
           n == f + 1
           b == Bound(entries, n)
<1>1. /\ rd \in [Readers -> Reader] /\ GoodReader(d, entries) /\ LogInv /\ file \in Seq(Nat)
      /\ "worker" \in Readers /\ d.end \in Nat /\ Done \in Nat /\ Done <= Len(entries) /\ Len(entries) \in Nat
  <2>1. rd \in [Readers -> Reader] /\ GoodReader(d, entries) /\ LogInv /\ file \in Seq(Nat) /\ "worker" \in Readers
    BY BothReaders DEF CollectorInv, ReaderTypes
  <2>2. d.end \in 0..Size
    BY <2>1, ReaderFields
  <2>3. Done \in 0..Len(entries) /\ Len(entries) \in Nat
    BY <2>1, DoneIsCount, FirstTurn
  <2> QED BY <2>1, <2>2, <2>3, RingSize
<1>2. d.pc \in {"hdr", "body"}
  BY DEF Reading, ReadHeader, ReadBody, ComparePattern, WorkerAt
<1>3. PICK g \in n..Done : d.end = Bound(entries, g)
  BY <1>2 DEF WorkerAt
<1>4. d.task = "only" /\ AtEntry(d, n, entries) /\ Stream(d) = "file"
  BY <1>2 DEF WorkerAt, Stream
<1>5. n \in 1..Done /\ n \in 0..Len(entries) /\ g \in 0..Len(entries) /\ n <= g
  BY <1>1, <1>3
<1>6. b \in Nat /\ b <= d.end /\ (n < g => b < d.end)
  <2>1. b \in Nat /\ Laid(entries)
    BY <1>1, <1>5, FirstTurn
  <2>2. n < g => b < Bound(entries, g)
    BY <1>5, <2>1 DEF Laid
  <2>3. n < g \/ n = g
    BY <1>5
  <2> QED BY <1>1, <1>3, <2>1, <2>2, <2>3
<1>7. PICK next :
        /\ rd' = [rd EXCEPT !["worker"] = next]
        /\ \/ ReadsOn(d, next, n, entries) /\ UNCHANGED <<file, stdout>>
           \/ next = Proceed(d, b) /\ Prints(d, n)
  BY <1>1, <1>2, <1>4, <1>5, <1>6, ReadsEntry
<1>8. rd'["worker"] = next
  BY <1>1, <1>7
<1>9. CASE ReadsOn(d, next, n, entries) /\ UNCHANGED <<file, stdout>>
  <2>1. WorkerAt(next, f, entries, bookmark, Done)
    BY <1>3, <1>4, <1>9 DEF WorkerAt, ReadsOn
  <2> QED BY <1>1, <1>8, <1>9, <2>1 DEF Delivers
<1>10. CASE next = Proceed(d, b) /\ Prints(d, n)
  <2>1. file' = Append(file, n)
    BY <1>4, <1>10 DEF Prints
  <2>2. Len(file') = n /\ \A k \in 1..n : file'[k] = k
    BY <1>1, <1>5, <2>1
  <2>3. WorkerAt(next, n, entries, bookmark, Done)
    <3>1. CASE b < d.end
      <4>1. /\ next.pc = "hdr" /\ next.task = "only" /\ next.end = d.end
            /\ next.mode = "print" /\ next.at = b
        BY <1>1, <1>4, <1>6, <1>10, <3>1, ProceedsTo
      <4>2. AtEntry(next, n + 1, entries)
        <5>1. (n + 1) - 1 = n
          BY <1>5
        <5> QED BY <4>1, <5>1 DEF AtEntry
      <4>3. g \in (n + 1)..Done
        <5>1. n # g
          BY <1>3, <1>6, <3>1
        <5> QED BY <1>1, <1>5, <5>1
      <4> QED BY <1>3, <4>1, <4>2, <4>3 DEF WorkerAt
    <3>2. CASE ~(b < d.end)
      <4>1. b = d.end
        BY <1>1, <1>6, <3>2
      <4>2. next.pc = "ret" /\ next.task = "only" /\ next.ret = b
        BY <1>1, <1>4, <1>6, <1>10, <4>1, ProceedsTo
      <4> QED BY <4>2 DEF WorkerAt
    <3> QED BY <3>1, <3>2
  <2> QED BY <1>5, <1>8, <2>1, <2>2, <2>3 DEF Delivers
<1> QED BY <1>7, <1>9, <1>10

LEMMA WorkerCollects ==
    ASSUME CollectorInv, RingInv, LastInv, head < Size, NEW f \in 0..Done, f = Len(file),
           WorkerAt(rd["worker"], f, entries, bookmark, Done),
           Collecting("worker"), ~Reading("worker")
    PROVE  WorkerAt(rd'["worker"], f, entries, bookmark', Done) /\ UNCHANGED <<logVars, file>>
<1> DEFINE d == rd["worker"]
           w == "worker"
<1>1. /\ rd \in [Readers -> Reader] /\ d \in Reader /\ LogInv /\ w \in Readers
      /\ Done \in Nat /\ Done <= Len(entries) /\ Len(entries) \in Nat /\ head \in Nat
  <2>1. rd \in [Readers -> Reader] /\ d \in Reader /\ LogInv /\ w \in Readers
    BY BothReaders DEF CollectorInv, ReaderTypes
  <2>2. Done \in 0..Len(entries) /\ Len(entries) \in Nat /\ head \in Nat
    BY <2>1, DoneIsCount, FirstTurn
  <2> QED BY <2>1, <2>2
<1>2. \A g \in 0..Done : Bound(entries, g) \in Nat /\ Bound(entries, g) < Size
  <2>1. \A g \in 0..Len(entries) : Bound(entries, g) \in Nat /\ Bound(entries, g) <= head
    BY <1>1, FirstTurn
  <2> QED BY <1>1, <2>1, RingSize
<1>3. ASSUME rd' = [rd EXCEPT ![w] = NoRead], bookmark' = Bound(entries, f)
      PROVE  WorkerAt(rd'[w], f, entries, bookmark', Done)
  <2>1. rd'[w].pc = "idle"
    BY <1>1, <1>3 DEF NoRead
  <2> QED BY <1>3, <2>1 DEF WorkerAt
<1>4. CASE CollectRead(w)
  <2>1. rd'[w].pc = "split" /\ rd'[w].rangeEnd = lastWritten /\ UNCHANGED bookmark /\ d.pc = "collect"
    BY <1>1, <1>4 DEF CollectRead, NoRead, collectVars
  <2>2. lastWritten = Bound(entries, Done) /\ Done \in f..Done
    BY <1>1 DEF LastInv
  <2> QED BY <1>4, <2>1, <2>2 DEF WorkerAt, CollectRead
<1>5. CASE CollectEmpty(w)
  <2>1. d.pc = "split" /\ bookmark = Bound(entries, f)
    BY <1>5 DEF CollectEmpty, WorkerAt
  <2>2. PICK g \in f..Done : d.rangeEnd = Bound(entries, g)
    BY <2>1 DEF WorkerAt
  <2>3. bookmark \in Nat /\ bookmark < Size /\ d.rangeEnd \in Nat /\ d.rangeEnd < Size
    BY <1>1, <1>2, <2>1, <2>2
  <2>4. d.rangeEnd = bookmark
    BY <1>5, <2>3, BelowSize DEF CollectEmpty
  <2>5. rd' = [rd EXCEPT ![w] = NoRead] /\ bookmark' = Bound(entries, f) /\ UNCHANGED <<logVars, file>>
    BY <1>5, <2>1, <2>4 DEF CollectEmpty, SetBookmark
  <2> QED BY <1>3, <2>5
<1>6. CASE CollectSplit(w)
  <2> DEFINE end == d.rangeEnd
             next == dumpRange([d EXCEPT !.task = "only"], bookmark, Dec(end))
  <2>1. d.pc = "split" /\ bookmark = Bound(entries, f)
    BY <1>6 DEF CollectSplit, WorkerAt
  <2>2. PICK g \in f..Done : end = Bound(entries, g)
    BY <2>1 DEF WorkerAt
  <2>3. bookmark \in Nat /\ bookmark < Size /\ end \in Nat /\ end < Size
    BY <1>1, <1>2, <2>1, <2>2
  <2>4. normalize(bookmark) = bookmark /\ normalize(end) = end
    BY <2>3, BelowSize
  <2>5. bookmark # end /\ UNCHANGED <<logVars, file, collectVars>>
    BY <1>6, <2>4 DEF CollectSplit
  <2>6. f < g /\ bookmark < end
    <3>1. f < g
      BY <1>1, <2>1, <2>2, <2>5
    <3>2. Bound(entries, f) < Bound(entries, g)
      <4>1. Laid(entries) /\ f \in 0..Len(entries) /\ g \in 0..Len(entries)
        BY <1>1, FirstTurn
      <4> QED BY <3>1, <4>1 DEF Laid
    <3> QED BY <2>1, <2>2, <3>1, <3>2
  <2>7. rd' = [rd EXCEPT ![w] = next]
    BY <1>6, <2>4, <2>6 DEF CollectSplit
  <2>8. /\ next.pc = "hdr" /\ next.task = "only" /\ next.end = end
        /\ next.mode = "print" /\ next.at = bookmark
    BY <1>1, <2>3, <2>6, RangeFrom, ReaderNames
  <2>9. rd'[w] = next
    BY <1>1, <2>7
  <2> HIDE DEF next
  <2>10. AtEntry(next, f + 1, entries)
    <3>1. (f + 1) - 1 = f
      BY <1>1
    <3> QED BY <2>1, <2>8, <3>1 DEF AtEntry
  <2>11. g \in (f + 1)..Done
    BY <1>1, <2>6
  <2>12. WorkerAt(next, f, entries, bookmark', Done)
    BY <2>2, <2>8, <2>10, <2>11 DEF WorkerAt
  <2> QED BY <2>5, <2>9, <2>12
<1>7. CASE CollectBottom(w)
  BY <1>7 DEF CollectBottom, WorkerAt
<1>8. CASE CollectReturn(w)
  <2>1. d.pc = "ret" /\ d.ret = Bound(entries, f)
    BY <1>8 DEF CollectReturn, WorkerAt
  <2>2. rd' = [rd EXCEPT ![w] = NoRead] /\ bookmark' = Bound(entries, f) /\ UNCHANGED <<logVars, file>>
    BY <1>8, <2>1 DEF CollectReturn, SetBookmark
  <2> QED BY <1>3, <2>2
<1> QED BY <1>4, <1>5, <1>6, <1>7, <1>8 DEF Collecting

(* Until the Log is destroyed, the main thread leaves the file, the        *)
(* bookmark and the worker alone.                                          *)
LEMMA MainReads ==
    ASSUME CollectorInv, ctl.main \in Running, Reading("main")
    PROVE  file' = file /\ rd'["worker"] = rd["worker"] /\ rd["main"].task \in {"first", "dump"}
<1> DEFINE d == rd["main"]
<1>1. rd \in [Readers -> Reader] /\ GoodReader(d, entries) /\ "worker" \in Readers /\ "main" \in Readers
  BY BothReaders DEF CollectorInv, ReaderTypes
<1>2. d.pc \in Looking /\ d.pc # "idle"
  BY DEF Reading, ReadHeader, ReadBody, ComparePattern, Looking
<1>3. d.task \in {"first", "dump"}
  <2>1. ctl["main"] = ctl.main
    BY ControlFields DEF CollectorInv, ThreadTypes
  <2> QED BY <1>1, <1>2, <2>1 DEF CollectorInv, Closes, Reads, Running
<1>4. d.task = "first" => d.mode = "first"
  BY <1>1, <1>2 DEF GoodReader
<1>5. file' = file
  BY <1>3, <1>4 DEF Reading, ReadHeader, ReadBody, ComparePattern, WriteLine, Stream
<1>6. \E next : rd' = [rd EXCEPT !["main"] = next]
  BY DEF Reading, ReadHeader, ReadBody, ComparePattern, Step
<1> QED BY <1>1, <1>3, <1>5, <1>6

LEMMA MainRuns ==
    ASSUME CollectorInv, Main \/ Dump \/ Destroy \/ UNCHANGED vars, ctl'.main \in Running
    PROVE  /\ ctl.main \in Running /\ UNCHANGED <<logVars, file, bookmark>>
           /\ rd'["worker"] = rd["worker"] /\ ctl'.worker = ctl.worker
           /\ ~Collecting("main") \/ Reading("main")
<1> DEFINE d == rd["main"]
<1>1. /\ rd \in [Readers -> Reader] /\ GoodReader(d, entries)
      /\ "worker" \in Readers /\ "main" \in Readers /\ ctl \in Control /\ ctl["main"] = ctl.main
  <2>1. ctl \in Control
    BY DEF CollectorInv, ThreadTypes
  <2> QED BY <2>1, BothReaders, ControlFields DEF CollectorInv, ReaderTypes
<1>2. ASSUME NEW v, ctl' = [ctl EXCEPT !["main"] = v] PROVE ctl'.main = v /\ ctl'.worker = ctl.worker
  BY <1>1, <1>2 DEF Control
<1>3. ASSUME NEW next, rd' = [rd EXCEPT !["main"] = next] PROVE rd'["worker"] = rd["worker"]
  BY <1>1, <1>3
<1>4. ASSUME Collecting("main"), ~Reading("main") PROVE FALSE
  <2>1. d.pc \in {"collect", "split"} \/ (d.pc = "ret" /\ d.task \in {"only", "top", "bottom"})
    BY <1>4 DEF Collecting, CollectRead, CollectEmpty, CollectSplit, CollectBottom, CollectReturn
  <2>2. d.pc # "idle" /\ d.task \notin {"first", "dump"}
    BY <1>1, <2>1 DEF GoodReader
  <2>3. ctl.main = "flushing"
    BY <1>1, <2>2, InCollect
  <2>4. ctl'.main = ctl.main \/ ctl'.main = "sync"
    <3>1. ctl' = ctl \/ ctl' = [ctl EXCEPT !["main"] = AfterCollect(ctl["main"])]
      BY <1>4 DEF Collecting, CollectRead, CollectEmpty, CollectSplit, CollectBottom, CollectReturn,
                  SetBookmark, collectVars
    <3>2. AfterCollect(ctl["main"]) = "sync"
      BY <1>1, <2>3 DEF AfterCollect
    <3> QED BY <1>2, <3>1, <3>2
  <2> QED BY <2>3, <2>4 DEF Running
<1>5. CASE DumpLines
  <2>1. d.pc = "ret" /\ d.task = "first"
    BY <1>5 DEF DumpLines
  <2>2. ctl.main = "dumping"
    BY <1>1, <2>1 DEF CollectorInv, Closes, Reads
  <2>3. \E next : rd' = [rd EXCEPT !["main"] = next]
    BY <1>5 DEF DumpLines
  <2>4. UNCHANGED <<logVars, file, bookmark, ctl>>
    BY <1>5 DEF DumpLines, collectVars
  <2> QED BY <1>3, <1>4, <2>2, <2>3, <2>4 DEF Running
<1>6. CASE DumpReturn
  <2>1. d.pc = "ret" /\ d.task = "dump" /\ UNCHANGED <<logVars, file, bookmark>>
    BY <1>6 DEF DumpReturn
  <2>2. ctl.main = "dumping"
    BY <1>1, <2>1 DEF CollectorInv, Closes, Reads
  <2>3. rd'["worker"] = rd["worker"] /\ ctl'.worker = ctl.worker
    BY <1>2, <1>3, <1>6 DEF DumpReturn
  <2> QED BY <1>4, <2>1, <2>2, <2>3 DEF Running
<1>7. CASE Collecting("main")
  <2>1. Reading("main") /\ UNCHANGED <<logVars, collectVars>>
    BY <1>4, <1>7 DEF Collecting, Reading, ReadHeader, ReadBody, ComparePattern, CollectRead, CollectEmpty,
                      CollectSplit, CollectBottom, CollectReturn
  <2>2. UNCHANGED <<logVars, bookmark, ctl>>
    BY <2>1 DEF collectVars
  <2> QED BY <2>1, <2>2, MainReads
<1>8. CASE SyncStream("main")
  <2>1. ctl'.main = "disable"
    BY <1>2, <1>8 DEF SyncStream, AfterSync
  <2> QED BY <2>1 DEF Running
<1>9. CASE Disable
  <2>1. ctl'.main = "join"
    BY <1>2, <1>9 DEF Disable
  <2> QED BY <2>1 DEF Running
<1>10. CASE Join
  <2>1. ctl'.main \in {"closing", "crashed"}
    BY <1>2, <1>10 DEF Join
  <2> QED BY <2>1 DEF Running
<1>11. CASE Close
  <2>1. ctl'.main = "closed"
    BY <1>2, <1>11 DEF Close
  <2> QED BY <2>1 DEF Running
<1>12. CASE Dump
  <2>1. ctl.main = "run" /\ UNCHANGED <<logVars, file, bookmark>>
    BY <1>12 DEF Dump
  <2>2. rd'["worker"] = rd["worker"] /\ ctl'.worker = ctl.worker
    BY <1>2, <1>3, <1>12 DEF Dump
  <2> QED BY <1>4, <2>1, <2>2 DEF Running
<1>13. CASE Destroy
  <2>1. ctl'.main \in {"flushing", "closing"}
    BY <1>2, <1>13 DEF Destroy, CallCollect
  <2> QED BY <2>1 DEF Running
<1>14. CASE UNCHANGED vars
  <2>1. UNCHANGED <<logVars, file, bookmark, ctl, rd>>
    BY <1>14 DEF vars, readVars, collectVars
  <2> QED BY <1>4, <2>1
<1> QED BY <1>5, <1>6, <1>7, <1>8, <1>9, <1>10, <1>11, <1>12, <1>13, <1>14 DEF Main

(* The inductive invariant of the trace file, and what a step of the       *)
(* program does to the file and to the entries that are published          *)
QueueInv == RingInv /\ LastInv /\ FileInv

Publishes == published' = published \cup {Done + 1}

LEMMA FileStep ==
    ASSUME OneProducer, CollectorInv, QueueInv, [Next]_vars, head' < Size, ctl'.main \in Running
    PROVE  /\ FileInv' /\ head < Size /\ ctl.main \in Running
           /\ \/ file' = file /\ (published' = published \/ Publishes)
              \/ Delivers /\ published' = published
<1> DEFINE f == Len(file)
           w == "worker"
<1>1. LogInv /\ RingInv /\ LastInv /\ FileInv /\ file \in Seq(Nat) /\ f \in Nat
  BY DEF CollectorInv, QueueInv, ReaderTypes
<1>2. ASSUME head < Size, ctl.main \in Running
      PROVE  /\ f <= Done /\ \A k \in 1..f : file[k] = k
             /\ ctl.worker # "none" => WorkerAt(rd[w], f, entries, bookmark, Done)
             /\ Done \in Nat /\ Done \in 0..Len(entries) /\ f \in 0..Done
  <2>1. Done \in Nat /\ Done \in 0..Len(entries)
    BY <1>1, <1>2, DoneIsCount
  <2>2. /\ f <= Done /\ \A k \in 1..f : file[k] = k
        /\ ctl.worker # "none" => WorkerAt(rd[w], f, entries, bookmark, Done)
    BY <1>1, <1>2 DEF FileInv
  <2> QED BY <1>1, <2>1, <2>2
<1>3. ASSUME NEW p \in Producers, Tracing(p) \/ \E len \in Lens : ReadId(p, len), UNCHANGED <<readVars, collectVars>>
      PROVE  /\ FileInv' /\ head < Size /\ ctl.main \in Running
             /\ file' = file /\ (published' = published \/ Publishes)
  <2>1. /\ head < Size /\ RingInv'
        /\ Done' = (IF StoreLast(p) THEN Done + 1 ELSE Done)
        /\ ~StoreLast(p) => published' = published
        /\ StoreLast(p) => Publishes
    BY <1>1, <1>3, RingStep DEF Publishes
  <2>2. LogInv' /\ Grown(entries, entries') /\ entries \in Seq(Entry)
    BY <1>1, <1>3, LogStep DEF LogInv, RingTypes
  <2>3. UNCHANGED <<rd, file, ctl, bookmark>> /\ ctl.main \in Running
    BY <1>3 DEF readVars, collectVars
  <2>4. Done' \in Nat /\ Done <= Done' /\ f <= Done'
    BY <1>1, <1>2, <2>1, <2>3
  <2>5. ctl.worker # "none" => WorkerAt(rd[w], f, entries', bookmark, Done')
    BY <1>2, <2>1, <2>2, <2>3, <2>4, WorkerAtGrown
  <2>6. FileInv'
    BY <1>2, <2>1, <2>3, <2>4, <2>5 DEF FileInv
  <2> QED BY <2>1, <2>3, <2>6
<1>4. ASSUME UNCHANGED <<logVars, ctl>>, Delivers, head < Size, ctl.main \in Running,
             Len(file') <= Done, \A k \in 1..Len(file') : file'[k] = k,
             WorkerAt(rd'[w], Len(file'), entries, bookmark', Done)
      PROVE  FileInv' /\ Delivers /\ published' = published
  <2>1. Done' = Done /\ entries' = entries /\ published' = published
    BY <1>4, RingKept DEF logVars
  <2> QED BY <1>4, <2>1 DEF FileInv
<1>5. ASSUME UNCHANGED <<logVars, file>>, head < Size, ctl.main \in Running,
             ctl'.worker # "none" => WorkerAt(rd'[w], f, entries, bookmark', Done)
      PROVE  FileInv' /\ file' = file /\ published' = published
  <2>1. Done' = Done /\ entries' = entries /\ published' = published
    BY <1>5, RingKept DEF logVars
  <2> QED BY <1>2, <1>5, <2>1 DEF FileInv
<1>6. CASE Worker
  <2>1. /\ UNCHANGED logVars /\ head < Size /\ ctl.main \in Running
        /\ rd \in [Readers -> Reader] /\ w \in Readers /\ ctl \in Control /\ ctl[w] = ctl.worker
    <3>1. UNCHANGED logVars
      BY <1>6 DEF Worker, WorkerCollect, WorkerIdle, WorkerStop, Collecting, SyncStream, CallCollect,
                  CollectRead, CollectEmpty, CollectSplit, CollectBottom, CollectReturn, SetBookmark
    <3>2. ctl \in Control
      BY DEF CollectorInv, ThreadTypes
    <3>3. ctl' = ctl \/ \E v : ctl' = [ctl EXCEPT !["worker"] = v]
      BY <1>6 DEF Worker, WorkerCollect, WorkerIdle, WorkerStop, Collecting, SyncStream, CallCollect,
                  CollectRead, CollectEmpty, CollectSplit, CollectBottom, CollectReturn, SetBookmark, collectVars
    <3>4. ctl'.main = ctl.main
      BY <3>2, <3>3 DEF Control
    <3> QED BY <3>1, <3>2, <3>4, BothReaders, ControlFields DEF logVars, CollectorInv, ReaderTypes
  <2>2. f \in 0..Done /\ Done \in Nat /\ f <= Done /\ (\A k \in 1..f : file[k] = k)
        /\ (ctl.worker # "none" => WorkerAt(rd[w], f, entries, bookmark, Done))
    BY <1>2, <2>1
  <2>3. CASE WorkerIdle \/ SyncStream(w)
    <3>1. UNCHANGED <<logVars, file, rd, bookmark>> /\ ctl.worker # "none"
      BY <2>1, <2>3 DEF WorkerIdle, SyncStream, readVars
    <3> QED BY <1>5, <2>1, <2>2, <3>1
  <2>4. CASE WorkerCollect \/ WorkerStop
    <3>1. ctl.worker = "loop" /\ rd' = [rd EXCEPT ![w] = [NoRead EXCEPT !.pc = "collect"]]
          /\ UNCHANGED <<logVars, file, bookmark>>
      BY <2>4 DEF WorkerCollect, WorkerStop, CallCollect
    <3>2. rd[w].pc = "idle"
      BY <3>1, NotReading
    <3>3. bookmark = Bound(entries, f)
      BY <2>2, <3>1, <3>2 DEF WorkerAt
    <3>4. rd'[w].pc = "collect"
      BY <2>1, <3>1 DEF NoRead
    <3>5. WorkerAt(rd'[w], f, entries, bookmark', Done)
      BY <3>1, <3>3, <3>4 DEF WorkerAt
    <3> QED BY <1>5, <2>1, <3>1, <3>5
  <2>5. CASE Collecting(w)
    <3>1. rd[w].pc # "idle"
      BY <2>5 DEF Collecting, CollectRead, CollectEmpty, CollectSplit, CollectBottom, CollectReturn,
                  Reading, ReadHeader, ReadBody, ComparePattern
    <3>2. ctl.worker # "none"
      BY <3>1, NotReading
    <3>3. WorkerAt(rd[w], f, entries, bookmark, Done)
      BY <2>2, <3>2
    <3>4. CASE Reading(w)
      <4>1. UNCHANGED <<logVars, collectVars>>
        BY <2>5, <3>4 DEF Collecting, CollectRead, CollectEmpty, CollectSplit, CollectBottom, CollectReturn,
                          Reading, ReadHeader, ReadBody, ComparePattern
      <4>2. UNCHANGED <<logVars, ctl, bookmark>>
        BY <4>1 DEF collectVars
      <4>3. /\ Len(file') <= Done /\ \A k \in 1..Len(file') : file'[k] = k
            /\ WorkerAt(rd'[w], Len(file'), entries, bookmark, Done)
            /\ Delivers
        BY <1>1, <2>1, <2>2, <3>3, <3>4, <4>1, WorkerReads
      <4> QED BY <1>4, <2>1, <4>2, <4>3
    <3>5. CASE ~Reading(w)
      <4>1. WorkerAt(rd'[w], f, entries, bookmark', Done) /\ UNCHANGED <<logVars, file>>
        BY <1>1, <2>1, <2>2, <2>5, <3>3, <3>5, WorkerCollects
      <4> QED BY <1>5, <2>1, <4>1
    <3> QED BY <2>1, <3>4, <3>5
  <2> QED BY <1>6, <2>1, <2>3, <2>4, <2>5 DEF Worker
<1>7. CASE Main \/ Dump \/ Destroy \/ UNCHANGED vars
  <2>1. /\ ctl.main \in Running /\ UNCHANGED <<logVars, file, bookmark>>
        /\ rd'[w] = rd[w] /\ ctl'.worker = ctl.worker
    BY <1>7, MainRuns
  <2>2. head < Size
    BY <2>1 DEF logVars
  <2> QED BY <1>2, <1>5, <2>1, <2>2
<1> QED BY <1>3, <1>6, <1>7 DEF Next, TraceStep, Trace

LEMMA QueueInitial ==
    ASSUME IndexAtStart, LastAtStart, Init
    PROVE  QueueInv /\ file = <<>> /\ published = {}
<1>1. RingInv /\ LastInv /\ Done = 0 /\ entries = <<>>
  BY RingInitial
<1>2. file = <<>> /\ published = {} /\ lastWritten = 0 /\ rd = [r \in Readers |-> NoRead]
  BY DEF Init, LogInit, ReadInit, LastAtStart
<1>3. ctl.worker # "none" => bookmark = 0
  BY <1>2 DEF Init, setEnable
<1>4. ctl.worker # "none" => WorkerAt(rd["worker"], 0, entries, bookmark, Done)
  BY <1>2, <1>3, BothReaders DEF WorkerAt, NoRead, Bound
<1>5. Len(file) = 0
  BY <1>2
<1>6. FileInv
  BY <1>1, <1>4, <1>5 DEF FileInv
<1> QED BY <1>1, <1>2, <1>6 DEF QueueInv

LEMMA RingInvStep ==
    ASSUME OneProducer, CollectorInv, RingInv, [Next]_vars
    PROVE  RingInv' /\ (LastInv => LastInv')
<1>1. CASE ~(head' < Size)
  BY <1>1 DEF RingInv, LastInv
<1>2. ASSUME head' < Size, NEW p \in Producers, Tracing(p) \/ \E len \in Lens : ReadId(p, len)
      PROVE  RingInv' /\ (LastInv => LastInv')
  BY <1>2, RingStep, LastStep DEF CollectorInv
<1>3. CASE Worker
  <2>1. UNCHANGED logVars
    BY <1>3 DEF Worker, WorkerCollect, WorkerIdle, WorkerStop, Collecting, SyncStream, CallCollect,
                CollectRead, CollectEmpty, CollectSplit, CollectBottom, CollectReturn, SetBookmark
  <2> QED BY <2>1, RingKept
<1>4. CASE Main
  <2>1. UNCHANGED logVars
    BY <1>4 DEF Main, DumpLines, DumpReturn, Collecting, SyncStream, Disable, Join, Close,
                CollectRead, CollectEmpty, CollectSplit, CollectBottom, CollectReturn, SetBookmark
  <2> QED BY <2>1, RingKept
<1>5. CASE Dump \/ Destroy \/ UNCHANGED vars
  <2>1. UNCHANGED logVars
    BY <1>5 DEF Dump, Destroy, CallCollect, vars
  <2> QED BY <2>1, RingKept
<1> QED BY <1>1, <1>2, <1>3, <1>4, <1>5 DEF Next, TraceStep, Trace

LEMMA QueueStep ==
    ASSUME OneProducer, CollectorInv, QueueInv, [Next]_vars
    PROVE  QueueInv'
<1>1. RingInv' /\ LastInv'
  BY RingInvStep DEF QueueInv
<1>2. CASE head' < Size /\ ctl'.main \in Running
  BY <1>1, <1>2, FileStep DEF QueueInv
<1>3. CASE ~(head' < Size /\ ctl'.main \in Running)
  BY <1>1, <1>3 DEF QueueInv, FileInv
<1> QED BY <1>2, <1>3

(* A Log that is never destroyed: main runs, or it dumps. *)
LEMMA StaysRunning ==
    ASSUME CollectorInv, ~Destroys, ctl.main \in Running, [Next]_vars
    PROVE  ctl'.main \in Running
<1>1. ctl \in Control /\ ctl["main"] = ctl.main
  BY ControlFields DEF CollectorInv, ThreadTypes
<1>2. ASSUME NEW v, ctl' = [ctl EXCEPT !["worker"] = v] PROVE ctl'.main = ctl.main
  BY <1>1, <1>2 DEF Control
<1>3. ASSUME NEW v, ctl' = [ctl EXCEPT !["main"] = v] PROVE ctl'.main = v
  BY <1>1, <1>3 DEF Control
<1>4. CASE \E p \in Producers : TraceStep(p) \/ \E len \in Lens : Trace(p, len)
  BY <1>4 DEF TraceStep, Trace, collectVars
<1>5. CASE Worker
  <2>1. ctl' = ctl \/ \E v : ctl' = [ctl EXCEPT !["worker"] = v]
    BY <1>5 DEF Worker, WorkerCollect, WorkerIdle, WorkerStop, Collecting, SyncStream, CallCollect,
                CollectRead, CollectEmpty, CollectSplit, CollectBottom, CollectReturn, SetBookmark, collectVars
  <2> QED BY <1>2, <2>1
<1>6. CASE Collecting("main")
  <2>1. CASE UNCHANGED ctl
    BY <2>1
  <2>2. CASE CollectEmpty("main") \/ CollectReturn("main")
    <3>1. rd["main"].pc = "split" \/ (rd["main"].pc = "ret" /\ rd["main"].task \in {"only", "bottom"})
      BY <2>2 DEF CollectEmpty, CollectReturn
    <3>2. rd["main"].pc # "idle" /\ rd["main"].task \notin {"first", "dump"}
      BY <3>1, BothReaders DEF CollectorInv, ReaderTypes, GoodReader
    <3>3. ctl.main = "flushing"
      BY <3>2, BothReaders, InCollect
    <3> QED BY <3>3 DEF Running
  <2> QED BY <1>6, <2>1, <2>2 DEF Collecting, CollectRead, CollectSplit, CollectBottom, collectVars
<1>7. CASE Main /\ ~Collecting("main")
  <2>1. ctl' = ctl \/ ctl' = [ctl EXCEPT !["main"] = "run"]
    BY <1>1, <1>7 DEF Main, DumpLines, DumpReturn, SyncStream, Disable, Join, Close, Running, collectVars
  <2> QED BY <1>3, <2>1 DEF Running
<1>8. CASE Dump
  BY <1>3, <1>8 DEF Dump, Running
<1>9. CASE UNCHANGED vars
  BY <1>9 DEF vars, collectVars
<1> QED BY <1>4, <1>5, <1>6, <1>7, <1>8, <1>9 DEF Next, Destroy

(* One thread logs, from fields that start at 0, or beyond the first turn. *)
OneThread == OneProducer /\ IndexAtStart /\ LastAtStart

LEMMA OneThreadStays == OneThread => []OneThread
<1>1. OneThread => OneThread'
  BY DEF OneThread, OneProducer, IndexAtStart, LastAtStart
<1> QED BY <1>1, PTL

(* The inductive invariant of the trace file holds of one thread that logs. *)
THEOREM QueueInvariant == OneThread /\ Spec => []QueueInv
<1>1. OneThread /\ Init => QueueInv
  BY QueueInitial DEF OneThread
<1>2. OneThread /\ CollectorInv /\ QueueInv /\ [Next]_vars => QueueInv'
  BY QueueStep DEF OneThread
<1> QED BY <1>1, <1>2, OneThreadStays, CollectorInvariant, PTL DEF Spec

(* Before the ring wraps around, what one thread logs is in the trace file *)
(* in the order of the calls and each entry once: collect() picks up where *)
(* it stopped, whatever the producer writes meanwhile.                     *)
THEOREM TraceFileInOrder == OneThread /\ Spec /\ [](head < Size) => []LinesInOrder
<1>1. CollectorInv /\ QueueInv /\ (head < Size) => LinesInOrder
  <2> SUFFICES ASSUME CollectorInv, QueueInv, head < Size, ctl.main = "run" PROVE LinesInOrder
    BY DEF LinesInOrder
  <2>1. \A k \in 1..Len(file) : file[k] = k
    BY DEF QueueInv, FileInv, Running
  <2> QED BY <2>1 DEF LinesInOrder
<1> QED BY <1>1, CollectorInvariant, QueueInvariant, PTL

(* Before the ring wraps around, nothing that one thread has logged is     *)
(* lost: once the bookmark has reached the last written index, collect()   *)
(* has written every entry whose traceVargs() returned.                    *)
THEOREM NothingLost == ~Destroys /\ OneThread /\ Spec /\ [](head < Size) => []OnlyStraddlersLost
<1>1. CollectorInv /\ QueueInv /\ ctl.main \in Running /\ (head < Size) => OnlyStraddlersLost
  <2> SUFFICES ASSUME CollectorInv, QueueInv, ctl.main \in Running, head < Size, CaughtUp,
                      NEW n \in published
               PROVE  InFile(n)
    BY DEF OnlyStraddlersLost
  <2>1. LogInv /\ RingInv /\ LastInv /\ FileInv
    BY DEF CollectorInv, QueueInv
  <2>2. Done \in 0..Len(entries) /\ Len(file) \in Nat /\ published = 1..Done /\ Laid(entries)
    BY <2>1, DoneIsCount, FirstTurn DEF CollectorInv, ReaderTypes
  <2>3. Len(file) <= Done /\ \A k \in 1..Len(file) : file[k] = k
    BY <2>1 DEF FileInv
  <2>4. ctl.worker = "loop" /\ rd["worker"].pc = "idle"
    BY NotReading DEF CaughtUp
  <2>5. bookmark = Bound(entries, Len(file)) /\ lastWritten = Bound(entries, Done)
    BY <2>1, <2>4 DEF FileInv, WorkerAt, LastInv
  <2>6. bookmark = lastWritten
    <3>1. head \in Nat /\ \A m \in 0..Len(entries) : Bound(entries, m) \in Nat /\ Bound(entries, m) <= head
      BY <2>1, FirstTurn
    <3>2. bookmark \in Nat /\ bookmark < Size /\ lastWritten \in Nat /\ lastWritten < Size
      <4>1. Len(file) \in 0..Len(entries)
        BY <2>2, <2>3
      <4> QED BY <2>2, <2>5, <3>1, <4>1, RingSize
    <3> QED BY <3>2, BelowSize DEF CaughtUp
  <2>7. Len(file) = Done
    <3>1. Len(file) \in 0..Len(entries)
      BY <2>2, <2>3
    <3>2. Len(file) < Done => Bound(entries, Len(file)) < Bound(entries, Done)
      BY <2>2, <3>1 DEF Laid
    <3>3. Bound(entries, Done) \in Nat
      BY <2>1, <2>2, FirstTurn
    <3> QED BY <2>2, <2>3, <2>5, <2>6, <3>2, <3>3
  <2> QED BY <2>2, <2>3, <2>7 DEF InFile
<1>2. Init => ctl.main \in Running
  BY DEF Init, setEnable, Running
<1>3. ~Destroys /\ CollectorInv /\ ctl.main \in Running /\ [Next]_vars => (ctl.main \in Running)'
  BY StaysRunning
<1>4. ~Destroys => []~Destroys
  <2>1. ~Destroys => (~Destroys)'
    OBVIOUS
  <2> QED BY <2>1, PTL
<1> QED BY <1>1, <1>2, <1>3, <1>4, CollectorInvariant, QueueInvariant, PTL DEF Spec

(* Before the ring wraps around, the trace file is the queue that LogQueue *)
(* describes: no entry before its traceVargs() has returned, none skipped, *)
(* none twice.                                                             *)
THEOREM TraceFileIsQueue == ~Destroys /\ OneThread /\ Spec /\ [](head < Size) => ImplementsLogQueue
<1>1. OneThread /\ Init => Queue!Init
  BY QueueInitial DEF OneThread, Queue!Init
<1>2. ASSUME OneThread, CollectorInv, QueueInv, ctl'.main \in Running, [Next]_vars, head' < Size
      PROVE  [Queue!Publish \/ Queue!Deliver]_<<published, file>>
  <2>1. /\ head < Size
        /\ \/ file' = file /\ (published' = published \/ Publishes)
           \/ Delivers /\ published' = published
    BY <1>2, FileStep DEF OneThread
  <2>2. published = 1..Done /\ Done \in Nat
    BY <1>2, <2>1, FirstTurn, DoneIsCount DEF CollectorInv, QueueInv
  <2>3. CASE file' = file /\ Publishes
    <3>1. Done + 1 \notin published /\ Done + 1 \in published'
      BY <2>2, <2>3 DEF Publishes
    <3> QED BY <2>3, <3>1 DEF Publishes, Queue!Publish
  <2>4. CASE Delivers /\ published' = published
    BY <2>2, <2>4 DEF Delivers, Queue!Deliver
  <2> QED BY <2>1, <2>3, <2>4
<1>3. Init => ctl.main \in Running
  BY DEF Init, setEnable, Running
<1>4. ~Destroys /\ CollectorInv /\ ctl.main \in Running /\ [Next]_vars => (ctl.main \in Running)'
  BY StaysRunning
<1>5. ~Destroys => []~Destroys
  <2>1. ~Destroys => (~Destroys)'
    OBVIOUS
  <2> QED BY <2>1, PTL
<1>6. OneThread /\ CollectorInv /\ QueueInv /\ (ctl.main \in Running)' /\ [Next]_vars /\ (head < Size)'
        => [Queue!Publish \/ Queue!Deliver]_<<published, file>>
  BY <1>2
<1> QED BY <1>1, <1>3, <1>4, <1>5, <1>6, OneThreadStays, CollectorInvariant, QueueInvariant, PTL
        DEF Spec, ImplementsLogQueue, Queue!Spec

-----------------------------------------------------------------------------
(* dump() *)

LEMMA UnderwayGrown ==
    ASSUME NEW es \in Seq(Entry), NEW fs, Grown(es, fs), NEW g \in 0..Len(es), NEW d, NEW lines \in Seq(Nat),
           Underway(g, d, es, lines)
    PROVE  Underway(g, d, fs, lines)
<1>1. Len(lines) + 1 \in 1..Len(es) /\ Bound(fs, g) = Bound(es, g)
  BY BoundGrown DEF Underway
<1>2. AtEntry(d, Len(lines) + 1, es) => AtEntry(d, Len(lines) + 1, fs)
  BY <1>1, AtEntryGrown
<1> QED BY <1>1, <1>2 DEF Underway

LEMMA ShownMore ==
    ASSUME NEW lines \in Seq(Nat), NEW g \in Nat, NEW line \in Nat
    PROVE  /\ Shown(g, lines) => Shown(g, Append(lines, line))
           /\ (g = Len(lines) + 1 /\ line = g /\ \A k \in 1..Len(lines) : lines[k] = k)
                 => Shown(g, Append(lines, line))
<1> DEFINE more == Append(lines, line)
<1>1. /\ Len(lines) \in Nat /\ Len(more) = Len(lines) + 1 /\ more[Len(lines) + 1] = line
      /\ \A k \in 1..Len(lines) : more[k] = lines[k] /\ k \in 1..Len(more)
  OBVIOUS
<1> HIDE DEF more
<1>2. Shown(g, lines) => Shown(g, more)
  BY <1>1 DEF Shown
<1>3. ASSUME g = Len(lines) + 1, line = g, \A k \in 1..Len(lines) : lines[k] = k
      PROVE  Shown(g, more)
  <2> SUFFICES ASSUME NEW n \in 1..g PROVE more[n] = n /\ n \in 1..Len(more)
    BY DEF Shown
  <2>1. n = g \/ n \in 1..Len(lines)
    BY <1>1, <1>3
  <2> QED BY <1>1, <1>3, <2>1
<1> QED BY <1>2, <1>3 DEF more

(* The worker does not write to stdout, and leaves main's reader alone. *)
LEMMA WorkerKeepsDump ==
    ASSUME CollectorInv, Worker
    PROVE  UNCHANGED logVars /\ UNCHANGED <<stdout, goal>> /\ rd'["main"] = rd["main"]
<1> DEFINE d == rd["worker"]
<1>1. rd \in [Readers -> Reader] /\ "worker" \in Readers /\ "main" \in Readers
  BY BothReaders DEF CollectorInv, ReaderTypes
<1>2. UNCHANGED logVars
  BY DEF Worker, WorkerCollect, WorkerIdle, WorkerStop, Collecting, SyncStream, CallCollect,
         CollectRead, CollectEmpty, CollectSplit, CollectBottom, CollectReturn, SetBookmark
<1>3. goal' = goal
  BY DEF Worker, WorkerCollect, WorkerIdle, WorkerStop, Collecting, SyncStream, CallCollect,
         CollectRead, CollectEmpty, CollectSplit, CollectBottom, CollectReturn, SetBookmark, collectVars
<1>4. rd' = rd \/ \E next : rd' = [rd EXCEPT !["worker"] = next]
  BY DEF Worker, WorkerCollect, WorkerIdle, WorkerStop, Collecting, SyncStream, CallCollect,
         CollectRead, CollectEmpty, CollectSplit, CollectBottom, CollectReturn, SetBookmark,
         Reading, ReadHeader, ReadBody, ComparePattern, Step, readVars
<1>5. CASE Reading("worker")
  <2>1. d.pc # "idle"
    BY <1>5 DEF Reading, ReadHeader, ReadBody, ComparePattern
  <2>2. d.task # "dump"
    <3>1. ctl["worker"] = ctl.worker /\ ctl.worker \in WorkerStates
      BY NotReading, ControlFields DEF CollectorInv, ThreadTypes
    <3> QED BY <1>1, <2>1, <3>1 DEF CollectorInv, Closes, Reads, WorkerStates
  <2>3. stdout' = stdout
    BY <1>5, <2>2 DEF Reading, ReadHeader, ReadBody, ComparePattern, WriteLine, Stream
  <2> QED BY <1>1, <1>2, <1>3, <1>4, <2>3
<1>6. CASE ~Reading("worker")
  <2>1. stdout' = stdout
    BY <1>6 DEF Worker, WorkerCollect, WorkerIdle, WorkerStop, Collecting, SyncStream, CallCollect,
                CollectRead, CollectEmpty, CollectSplit, CollectBottom, CollectReturn, SetBookmark, readVars
  <2> QED BY <1>1, <1>2, <1>3, <1>4, <2>1
<1> QED BY <1>5, <1>6

LEMMA DumpReads ==
    ASSUME CollectorInv, RingInv, head < Size, NEW g \in 0..Done,
           Shown(g, stdout) \/ Underway(g, rd["main"], entries, stdout), Reading("main")
    PROVE  Shown(g, stdout') \/ Underway(g, rd'["main"], entries, stdout')
<1> DEFINE d == rd["main"]
           n == Len(stdout) + 1
           b == Bound(entries, n)
<1>1. /\ rd \in [Readers -> Reader] /\ GoodReader(d, entries) /\ LogInv /\ stdout \in Seq(Nat)
      /\ "main" \in Readers /\ d.end \in Nat /\ Done \in Nat /\ Done <= Len(entries) /\ Len(entries) \in Nat
      /\ d.at \in Nat /\ d.buf \in Seq(Cell)
  <2>1. rd \in [Readers -> Reader] /\ GoodReader(d, entries) /\ LogInv /\ stdout \in Seq(Nat) /\ "main" \in Readers
    BY BothReaders DEF CollectorInv, ReaderTypes
  <2>2. d.end \in 0..Size /\ d.at \in Nat /\ d.buf \in Seq(Cell)
    BY <2>1, ReaderFields
  <2>3. Done \in 0..Len(entries) /\ Len(entries) \in Nat
    BY <2>1, DoneIsCount, FirstTurn
  <2> QED BY <2>1, <2>2, <2>3, RingSize
<1>2. CASE Shown(g, stdout)
  <2>1. stdout' = stdout \/ \E line \in Nat : stdout' = Append(stdout, line)
    <3> DEFINE buf == Append(d.buf, getByte(mem, d.at + Len(d.buf)))
    <3>1. LineOf(buf) \in Nat
      <4>1. getByte(mem, d.at + Len(d.buf)) \in Cell
        BY <1>1, CellRead
      <4>2. buf \in Seq(Cell) /\ Len(buf) > 0
        BY <1>1, <4>1
      <4> HIDE DEF buf
      <4> QED BY <4>2, LineIsNumber
    <3>2. stdout' = stdout \/ stdout' = Append(stdout, LineOf(buf))
      BY DEF Reading, ReadHeader, ReadBody, ComparePattern, WriteLine
    <3> HIDE DEF buf
    <3> QED BY <3>1, <3>2
  <2>2. g \in Nat
    BY <1>1
  <2>3. Shown(g, stdout')
    <3>1. ASSUME NEW line \in Nat, stdout' = Append(stdout, line) PROVE Shown(g, stdout')
      BY <1>1, <1>2, <2>2, <3>1, ShownMore
    <3> QED BY <1>2, <2>1, <3>1
  <2> QED BY <2>3
<1>3. CASE Underway(g, d, entries, stdout)
  <2>1. /\ n <= g /\ \A k \in 1..Len(stdout) : stdout[k] = k
        /\ d.pc \in {"hdr", "body"} /\ d.task = "dump" /\ AtEntry(d, n, entries) /\ Bound(entries, g) <= d.end
    <3>1. d.pc # "ret"
      BY DEF Reading, ReadHeader, ReadBody, ComparePattern
    <3> QED BY <1>1, <1>3, <3>1 DEF Underway
  <2>2. n \in 1..Done /\ n \in 0..Len(entries) /\ g \in 0..Len(entries)
    BY <1>1, <2>1
  <2>3. b \in Nat /\ b <= d.end /\ (n < g => b < d.end)
    <3>1. b \in Nat /\ Bound(entries, g) \in Nat /\ Laid(entries)
      BY <1>1, <2>2, FirstTurn
    <3>2. n < g => b < Bound(entries, g)
      BY <2>2, <3>1 DEF Laid
    <3>3. n < g \/ n = g
      BY <2>1, <2>2
    <3> QED BY <1>1, <2>1, <3>1, <3>2, <3>3
  <2>4. PICK next :
          /\ rd' = [rd EXCEPT !["main"] = next]
          /\ \/ ReadsOn(d, next, n, entries) /\ UNCHANGED <<file, stdout>>
             \/ next = Proceed(d, b) /\ Prints(d, n)
    BY <1>1, <2>1, <2>2, <2>3, ReadsEntry
  <2>5. rd'["main"] = next
    BY <1>1, <2>4
  <2>6. CASE ReadsOn(d, next, n, entries) /\ UNCHANGED <<file, stdout>>
    BY <1>3, <2>1, <2>5, <2>6 DEF ReadsOn, Underway
  <2>7. CASE next = Proceed(d, b) /\ Prints(d, n)
    <3>1. stdout' = Append(stdout, n)
      BY <2>1, <2>7 DEF Prints, Stream
    <3>2. CASE n = g
      BY <1>1, <2>1, <2>2, <3>1, <3>2, ShownMore
    <3>3. CASE n # g
      <4>1. n < g
        BY <2>1, <2>2, <3>3
      <4>2. /\ next.pc = "hdr" /\ next.task = "dump" /\ next.end = d.end
            /\ next.mode = "print" /\ next.at = b
        BY <1>1, <2>1, <2>3, <2>7, <4>1, ProceedsTo
      <4>3. AtEntry(next, n + 1, entries)
        <5>1. (n + 1) - 1 = n
          BY <2>2
        <5> QED BY <4>2, <5>1 DEF AtEntry
      <4>4. Len(stdout') = n /\ \A k \in 1..Len(stdout') : stdout'[k] = k
        BY <1>1, <2>1, <2>2, <3>1
      <4> QED BY <2>1, <2>5, <4>1, <4>2, <4>3, <4>4 DEF Underway
    <3> QED BY <3>2, <3>3
  <2> QED BY <2>4, <2>6, <2>7
<1> QED BY <1>2, <1>3

(* What dump() had to show stays on stdout, and dump() returns only when   *)
(* it has shown it.                                                        *)
LEMMA DumpInvStep ==
    ASSUME OneProducer, CollectorInv, RingInv, DumpInv, [Next]_vars
    PROVE  DumpInv'
<1> SUFFICES ASSUME head' < Size, ~wrapped' PROVE DumpInv'
  BY DEF DumpInv
<1> DEFINE d == rd["main"]
<1>1. /\ LogInv /\ rd \in [Readers -> Reader] /\ GoodReader(d, entries) /\ d \in Reader
      /\ "main" \in Readers /\ stdout \in Seq(Nat)
  BY BothReaders DEF CollectorInv, ReaderTypes
<1>2. ASSUME head < Size, ~wrapped
      PROVE  /\ Done \in 0..Len(entries) /\ Done \in Nat
             /\ \E g \in 0..Done : goal = 1..g /\ (Shown(g, stdout) \/ Underway(g, d, entries, stdout))
  BY <1>1, <1>2, DoneIsCount DEF DumpInv
<1>3. ASSUME NEW p \in Producers, Tracing(p) \/ \E len \in Lens : ReadId(p, len), UNCHANGED <<readVars, collectVars>>
      PROVE  DumpInv'
  <2>1. head < Size /\ Done' = IF StoreLast(p) THEN Done + 1 ELSE Done
    BY <1>1, <1>3, RingStep
  <2>2. Grown(entries, entries') /\ entries \in Seq(Entry)
    BY <1>1, <1>3, LogStep DEF LogInv, RingTypes
  <2>3. UNCHANGED <<rd, stdout, goal>>
    BY <1>3 DEF readVars, collectVars
  <2>4. ~wrapped
    BY <1>3 DEF Tracing, ReadId, WriteId, FoldIndex, StoreWrapCount, Allocate, CopyCell, ReadIndex, StoreLast
  <2>5. PICK g \in 0..Done : goal = 1..g /\ (Shown(g, stdout) \/ Underway(g, d, entries, stdout))
    BY <1>2, <2>1, <2>4
  <2>6. Done \in 0..Len(entries) /\ Done \in Nat
    BY <1>2, <2>1, <2>4
  <2>7. g \in 0..Done' /\ g \in 0..Len(entries)
    BY <2>1, <2>6
  <2>8. Underway(g, d, entries, stdout) => Underway(g, d, entries', stdout)
    BY <1>1, <2>2, <2>7, UnderwayGrown
  <2> QED BY <2>3, <2>5, <2>7, <2>8 DEF DumpInv
<1>4. ASSUME UNCHANGED logVars, goal' = goal,
             \A g \in 0..Done : Shown(g, stdout) \/ Underway(g, d, entries, stdout)
                                   => Shown(g, stdout') \/ Underway(g, rd'["main"], entries, stdout')
      PROVE  DumpInv'
  <2>1. Done' = Done /\ entries' = entries /\ head < Size /\ ~wrapped
    BY <1>4, RingKept DEF logVars
  <2> QED BY <1>2, <1>4, <2>1 DEF DumpInv
(* A main thread that is not under way has shown what it had to show. *)
<1>5. ASSUME UNCHANGED logVars, goal' = goal, stdout' = stdout,
             \A g \in 0..Done : ~Underway(g, d, entries, stdout)
      PROVE  DumpInv'
  BY <1>4, <1>5
<1>6. CASE Worker
  <2>1. UNCHANGED logVars /\ UNCHANGED <<stdout, goal>> /\ rd'["main"] = rd["main"]
    BY <1>6, WorkerKeepsDump
  <2> QED BY <1>4, <2>1
<1>7. CASE Dump
  <2>1. UNCHANGED logVars /\ goal' = Showable /\ stdout' = <<>> /\ head < Size /\ ~wrapped
    BY <1>7 DEF Dump, logVars
  <2>2. /\ published = 1..Done /\ currentIndex = head /\ Done \in Nat /\ Done' = Done
        /\ \A p \in Producers : prod[p].pc # "wrap"
    <3>1. Indexed /\ Written /\ published = 1..Done
      BY <1>1, <2>1, FirstTurn
    <3> QED BY <1>2, <2>1, <3>1, RingKept DEF Indexed, Written, Wrote
  <2>3. ~(currentIndex >= Size)
    <3>1. head \in Nat
      BY <1>1 DEF LogInv, RingTypes
    <3> QED BY <2>1, <2>2, <3>1, RingSize
  <2>4. rd'["main"] = Return([NoRead EXCEPT !.task = "first"], 0)
    BY <1>1, <1>7, <2>1, <2>3 DEF Dump
  <2>5. rd'["main"].pc = "ret" /\ rd'["main"].task = "first" /\ rd'["main"].ret = 0
    BY <2>4 DEF Return, NoRead
  <2>6. goal' = 1..Done
    BY <2>1, <2>2 DEF Showable
  <2>7. Len(stdout') = 0
    BY <2>1
  <2>8. Shown(Done, stdout') \/ Underway(Done, rd'["main"], entries', stdout')
    <3>1. CASE Done = 0
      BY <3>1 DEF Shown
    <3>2. CASE Done # 0
      <4>1. Len(stdout') < Done
        BY <2>2, <2>7, <3>2
      <4> QED BY <2>1, <2>5, <2>7, <4>1 DEF Underway
    <3> QED BY <3>1, <3>2
  <2> QED BY <2>2, <2>6, <2>8 DEF DumpInv
<1>8. CASE DumpLines
  <2> DEFINE next == dumpRange([d EXCEPT !.task = "dump"], normalize(d.ret), Dec(normalize(currentIndex)))
  <2>1. /\ UNCHANGED <<logVars, stdout>> /\ goal' = goal
        /\ d.pc = "ret" /\ rd' = [rd EXCEPT !["main"] = next]
    BY <1>8 DEF DumpLines, collectVars
  <2>2. head < Size /\ rd'["main"] = next
    BY <1>1, <2>1 DEF logVars
  <2>3. ASSUME NEW g \in 0..Done, Underway(g, d, entries, stdout)
        PROVE  Underway(g, next, entries, stdout)
    <3>1. d.ret = 0 /\ stdout = <<>> /\ 0 < g
      BY <2>1, <2>3 DEF Underway
    <3>2. /\ Done \in 0..Len(entries) /\ Len(entries) \in Nat /\ Laid(entries) /\ currentIndex = head /\ head \in Nat
          /\ Bound(entries, g) \in Nat /\ Bound(entries, g) <= head
      <4>1. Done \in 0..Len(entries) /\ Len(entries) \in Nat
        BY <1>1, <2>2, DoneIsCount, FirstTurn
      <4>2. g \in 0..Len(entries)
        BY <4>1
      <4> QED BY <1>1, <2>2, <4>1, <4>2, FirstTurn DEF Indexed
    <3>3. 0 < head
      <4>1. 0 \in 0..Len(entries) /\ g \in 0..Len(entries)
        BY <3>2
      <4>2. Bound(entries, 0) < Bound(entries, g)
        BY <3>1, <3>2, <4>1 DEF Laid
      <4> QED BY <3>2, <4>2 DEF Bound
    <3>4. normalize(d.ret) = 0 /\ normalize(currentIndex) = head
      BY <2>2, <3>1, <3>2, BelowSize, RingSize
    <3>5. /\ next.pc = "hdr" /\ next.task = "dump" /\ next.end = head
          /\ next.mode = "print" /\ next.at = 0
      BY <1>1, <2>2, <3>2, <3>3, <3>4, RangeFrom, ReaderNames, SMTT(40)
    <3> HIDE DEF next
    <3>6. AtEntry(next, Len(stdout) + 1, entries)
      <4>1. (Len(stdout) + 1) - 1 = 0
        BY <3>1
      <4> QED BY <3>5, <4>1 DEF AtEntry, Bound
    <3> QED BY <2>3, <3>2, <3>5, <3>6 DEF Underway
  <2> HIDE DEF next
  <2> QED BY <1>4, <2>1, <2>2, <2>3
<1>9. CASE DumpReturn
  <2>1. /\ UNCHANGED logVars /\ UNCHANGED <<stdout, goal>>
        /\ d.pc = "ret" /\ d.task = "dump"
    BY <1>9 DEF DumpReturn
  <2> QED BY <1>5, <2>1 DEF Underway
<1>10. CASE Collecting("main")
  <2>1. CASE Reading("main")
    <3>1. UNCHANGED <<logVars, collectVars>>
      BY <1>10, <2>1 DEF Collecting, CollectRead, CollectEmpty, CollectSplit, CollectBottom, CollectReturn,
                         Reading, ReadHeader, ReadBody, ComparePattern
    <3>2. UNCHANGED logVars /\ goal' = goal /\ head < Size
      BY <3>1 DEF collectVars, logVars
    <3> QED BY <1>4, <2>1, <3>2, DumpReads
  <2>2. CASE ~Reading("main")
    <3>1. UNCHANGED logVars /\ UNCHANGED <<stdout, goal>>
      BY <1>10, <2>2 DEF Collecting, CollectRead, CollectEmpty, CollectSplit, CollectBottom, CollectReturn,
                         SetBookmark, collectVars
    <3>2. d.pc \in {"collect", "split"} \/ (d.pc = "ret" /\ d.task \in {"only", "top", "bottom"})
      BY <1>10, <2>2 DEF Collecting, CollectRead, CollectEmpty, CollectSplit, CollectBottom, CollectReturn
    <3> QED BY <1>5, <3>1, <3>2 DEF Underway
  <2> QED BY <2>1, <2>2
<1>11. CASE SyncStream("main") \/ Disable \/ Join \/ Close \/ UNCHANGED vars
  <2>1. UNCHANGED logVars /\ UNCHANGED <<rd, stdout, goal>>
    BY <1>11 DEF SyncStream, Disable, Join, Close, readVars, collectVars, vars
  <2> QED BY <1>4, <2>1
<1>12. CASE Destroy
  <2>1. UNCHANGED logVars /\ UNCHANGED <<stdout, goal>> /\ ctl.main = "run"
    BY <1>12 DEF Destroy, CallCollect, readVars
  <2>2. d.pc = "idle"
    BY <2>1, NotReading
  <2> QED BY <1>5, <2>1, <2>2 DEF Underway
<1> QED
  BY <1>3, <1>6, <1>7, <1>8, <1>9, <1>10, <1>11, <1>12 DEF Next, Main, TraceStep, Trace

LEMMA DumpInitial ==
    ASSUME IndexAtStart, Init
    PROVE  RingInv /\ DumpInv
<1>1. RingInv /\ Done = 0
  BY RingInitial
<1>2. goal = 1..0 /\ Shown(0, stdout)
  BY DEF Init, Shown
<1> QED BY <1>1, <1>2 DEF DumpInv

(* A dump() beside the one thread that logs shows every entry that was     *)
(* complete when it was called, as long as the ring has not wrapped: the   *)
(* entries it meets are whole, so printAtIndex() never fails on the way to *)
(* the last of them, and the range it took is long enough.                 *)
THEOREM DumpsComplete == OneProducer /\ IndexAtStart /\ Spec => []DumpComplete
<1>1. IndexAtStart /\ Init => RingInv /\ DumpInv
  BY DumpInitial
<1>2. OneProducer /\ CollectorInv /\ RingInv /\ DumpInv /\ [Next]_vars => RingInv' /\ DumpInv'
  BY RingInvStep, DumpInvStep
<1>3. CollectorInv /\ DumpInv => DumpComplete
  <2> SUFFICES ASSUME CollectorInv, DumpInv, ctl.main = "run", head < Size, ~wrapped, NEW n \in goal
               PROVE  \E k \in 1..Len(stdout) : stdout[k] = n
    BY DEF DumpComplete
  <2>1. PICK g \in 0..Done : goal = 1..g /\ (Shown(g, stdout) \/ Underway(g, rd["main"], entries, stdout))
    BY DEF DumpInv
  <2>2. rd["main"].pc = "idle"
    BY NotReading
  <2>3. Shown(g, stdout)
    BY <2>1, <2>2 DEF Underway
  <2> QED BY <2>1, <2>3 DEF Shown
<1>4. OneProducer => []OneProducer
  <2>1. OneProducer => OneProducer'
    BY DEF OneProducer
  <2> QED BY <2>1, PTL
<1> QED BY <1>1, <1>2, <1>3, <1>4, CollectorInvariant, PTL DEF Spec
=============================================================================
