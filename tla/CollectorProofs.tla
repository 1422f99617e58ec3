-------------------------- MODULE CollectorProofs ---------------------------
(***************************************************************************)
(* Proofs about the collector, the readers and the producers together, for *)
(* every ring size, any number of producers, any start of the fields that  *)
(* no constructor sets, with and without a wrap around, with readers that  *)
(* are lapped or not.                                                      *)
(***************************************************************************)
EXTENDS Collector, ModularArithmetic, SequenceTheorems, TLAPS

RingCells == 0..(Size - 1)
Cell == [entry : Nat, part : Nat]
Entry == [loc : 0..IndexMax, pos : Nat, len : Lens, id : Nat]

-----------------------------------------------------------------------------
(* The inductive invariant, part by part: what the variables of the ring   *)
(* and the producers hold, ...                                             *)
RingTypes ==
    /\ mem \in [RingCells -> Cell]
    /\ \A c \in RingCells : mem[c].entry <= Len(entries)
    /\ entries \in Seq(Entry)
    /\ currentIndex \in 0..IndexMax
    /\ lastWritten \in 0..IndexMax
    /\ globalId \in Nat
    /\ head \in Nat

Stages == {"idle", "id", "alloc", "wrap", "add", "copy", "index", "last"}

Thread == [pc : Stages,
           len : Nat, id : Nat, entry : Nat, todo : SUBSET Nat, index : 0..IndexMax, head : Nat]

ProducerTypes ==
    /\ prod \in [Producers -> Thread]
    /\ \A p \in Producers :
          /\ prod[p].pc \in {"id", "alloc", "wrap", "add"} => prod[p].len \in Lens
          /\ prod[p].pc = "copy" => prod[p].entry \in 1..Len(entries)

(* ... what the readers hold: a search is never further from the position  *)
(* it began at than the number of its turns, a header is kept only while   *)
(* the entry is copied, and what dumpRange() returns to collect() lies in  *)
(* the ring, ...                                                           *)
Places == {"idle", "collect", "split", "cmp", "hdr", "body", "ret"}
Tasks == {"none", "only", "top", "bottom", "first", "dump"}
Modes == {"print", "scan", "first"}

Reader == [pc : Places, task : Tasks, mode : Modes,
           i : 0..Size, end : 0..Size, at : Nat, hdr : Cell, buf : Seq(Cell),
           loop : 0..Size, tries : 0..Spins, ret : Nat, rangeEnd : 0..IndexMax]

Looking == {"cmp", "hdr", "body"}

GoodReader(d, es) ==
    /\ d \in Reader
    /\ d.at + 1 <= Size + d.loop
    /\ d.mode = "first" => d.task = "first"
    /\ d.pc \in Looking /\ d.task = "first" => d.mode = "first"
    /\ d.pc \in {"collect", "split"} => d.task = "none"
    /\ d.task # "first" /\ d.task # "dump" => d.ret <= Size
    /\ d.pc # "body" => d.hdr = Blank /\ d.buf = <<>>
    /\ d.pc = "body" => d.hdr.entry \in 1..Len(es) /\ Len(d.buf) < es[d.hdr.entry].len

ReaderTypes ==
    /\ rd \in [Readers -> Reader]
    /\ \A r \in Readers : GoodReader(rd[r], entries)
    /\ file \in Seq(Nat)
    /\ stdout \in Seq(Nat)

(* ... what the two threads hold, ...                                      *)
WorkerStates == {"none", "loop", "collecting", "flushing", "sync", "done"}
MainStates == {"run", "dumping", "flushing", "sync", "disable", "join", "closing", "closed", "crashed"}
Control == [worker : WorkerStates, main : MainStates]

ThreadTypes ==
    /\ bookmark \in 0..IndexMax
    /\ enable \in BOOLEAN
    /\ flushed \in 0..Len(file)
    /\ ticks \in 0..FlushTicks
    /\ ctl \in Control

(* ... and how the threads stay out of each other's way: a thread reads    *)
(* the ring only where its control says so, a collector that is off has no *)
(* worker, and ~Log() goes on to close the file only without one.          *)
Reads(r) == IF rd[r].task \in {"first", "dump"} THEN {"dumping"} ELSE {"collecting", "flushing"}

Closes ==
    /\ \A r \in Readers : rd[r].pc # "idle" => ctl[r] \in Reads(r)
    /\ ctl.main \in {"run", "dumping", "flushing", "sync", "disable"} => enable = EnableCollect
    /\ ~EnableCollect => ctl.worker = "none"
    /\ ctl.main \in {"closing", "closed"} => ctl.worker \in {"none", "done"}

LogInv == RingTypes /\ ProducerTypes
CollectorInv == LogInv /\ ReaderTypes /\ ThreadTypes /\ Closes
Grown(es, fs) == Len(es) <= Len(fs) /\ \A n \in 1..Len(es) : fs[n] = es[n]

-----------------------------------------------------------------------------
(* What the constants give *)
LEMMA RingSize ==
    Size \in Nat \ {0} /\ IndexMax \in Nat /\ Size <= IndexMax /\ Spins \in Nat
  BY SizeAssumption, LogAssumption, ReaderAssumption

LEMMA Normalized ==
    ASSUME NEW index \in Nat
    PROVE  normalize(index) \in RingCells /\ normalize(index) \in 0..Size
<1>1. index % Size \in 0..(Size - 1)
  BY RingSize, DivMod
<1>2. \A x \in 0..(Size - 1) : x \in 0..Size
  BY RingSize
<1> QED BY <1>1, <1>2 DEF normalize, RingCells

(* What the places, tasks and modes of a reader are called *)
LEMMA ReaderNames ==
    /\ {"idle", "collect", "split", "cmp", "hdr", "body", "ret"} \subseteq Places
    /\ {"none", "only", "top", "bottom", "first", "dump"} \subseteq Tasks
    /\ {"print", "scan", "first"} \subseteq Modes
    /\ Blank \in Cell /\ <<>> \in Seq(Cell)
    /\ 0 \in 0..Size /\ 0 \in 0..Spins /\ 0 \in 0..IndexMax
  BY RingSize DEF Places, Tasks, Modes, Blank, Cell

LEMMA ReaderFields ==
    ASSUME NEW d \in Reader
    PROVE  /\ d.pc \in Places /\ d.task \in Tasks /\ d.mode \in Modes
           /\ d.i \in 0..Size /\ d.end \in 0..Size /\ d.at \in Nat
           /\ d.hdr \in Cell /\ d.buf \in Seq(Cell) /\ d.loop \in 0..Size
           /\ d.tries \in 0..Spins /\ d.ret \in Nat /\ d.rangeEnd \in 0..IndexMax
  BY DEF Reader

(* A reader that has nothing to do *)
LEMMA NoReadGood ==
    ASSUME NEW es
    PROVE  NoRead \in Reader /\ GoodReader(NoRead, es)
<1>1. NoRead \in Reader
  BY ReaderNames DEF Reader, NoRead
<1>2. /\ NoRead.pc = "idle" /\ NoRead.task = "none" /\ NoRead.mode = "print" /\ NoRead.at = 0
      /\ NoRead.loop = 0 /\ NoRead.ret = 0 /\ NoRead.hdr = Blank /\ NoRead.buf = <<>>
  BY DEF NoRead
<1> QED BY <1>1, <1>2, RingSize DEF GoodReader

(* The steps of dumpRange() and below keep a reader in the ring, do not    *)
(* change what it was called for and do not end its call.                  *)
Kept(d, next, es) == GoodReader(next, es) /\ next.task = d.task /\ next.pc # "idle"

LEMMA ReturnGood ==
    ASSUME NEW es, NEW d \in Reader, NEW value \in Nat,
           d.task # "first" /\ d.task # "dump" => value <= Size
    PROVE  Kept(d, Return(d, value), es)
<1> DEFINE next == Return(d, value)
<1>1. next \in Reader
  BY NoReadGood, ReaderNames DEF Reader, Return
<1>2. /\ next.pc = "ret" /\ next.task = d.task /\ next.at = 0 /\ next.loop = 0 /\ next.mode = "print"
      /\ next.ret = value /\ next.hdr = Blank /\ next.buf = <<>>
  BY DEF Return, NoRead
<1> HIDE DEF next
<1>3. Kept(d, next, es)
  BY <1>1, <1>2, RingSize DEF Kept, GoodReader, Looking
<1> QED BY <1>3 DEF next

LEMMA LoopAtGood ==
    ASSUME NEW es, NEW d \in Reader, NEW i \in 0..Size, d.task # "first"
    PROVE  Kept(d, LoopAt(d, i), es)
<1> DEFINE next == LoopAt(d, i)
<1>1. CASE i < d.end
  <2>1. d.end \in 0..Size /\ i \in Nat
    BY RingSize DEF Reader
  <2>2. next \in Reader
    BY <1>1, <2>1, NoReadGood, ReaderNames DEF Reader, LoopAt
  <2>3. /\ next.pc = "hdr" /\ next.task = d.task /\ next.at = i /\ next.loop = 0 /\ next.mode = "print"
        /\ next.ret = 0 /\ next.hdr = Blank /\ next.buf = <<>>
    BY <1>1 DEF LoopAt, NoRead
  <2> HIDE DEF next
  <2>4. Kept(d, next, es)
    BY <1>1, <2>1, <2>2, <2>3, RingSize DEF Kept, GoodReader
  <2> QED BY <2>4 DEF next
<1>2. CASE ~(i < d.end)
  BY <1>2, RingSize, ReturnGood DEF LoopAt
<1> QED BY <1>1, <1>2

LEMMA DumpRangeGood ==
    ASSUME NEW es, NEW d \in Reader, NEW start \in Nat, NEW end \in Nat, d.task # "first"
    PROVE  Kept(d, dumpRange(d, start, end), es)
<1> DEFINE s == normalize(start)
           e == normalize(end) + 1
           limit == IF s > e THEN Size ELSE e
           d1 == [d EXCEPT !.end = limit]
<1>1. s \in 0..Size /\ limit \in 0..Size
  BY RingSize, Normalized DEF RingCells
<1> HIDE DEF s, e, limit
<1>2. d1 \in Reader /\ d1.task = d.task
  BY <1>1 DEF Reader
<1> HIDE DEF d1
<1>3. Kept(d1, LoopAt(d1, s), es)
  BY <1>1, <1>2, LoopAtGood
<1>4. dumpRange(d, start, end) = LoopAt(d1, s)
  BY DEF dumpRange, d1, s, e, limit
<1> QED BY <1>2, <1>3, <1>4 DEF Kept

LEMMA ProceedGood ==
    ASSUME NEW es, NEW d \in Reader, NEW newI \in Nat, d.task # "first"
    PROVE  Kept(d, Proceed(d, newI), es)
<1>1. CASE newI > d.end
  <2>1. d.i \in Nat /\ d.i <= Size
    BY RingSize DEF Reader
  <2> QED BY <1>1, <2>1, ReturnGood DEF Proceed
<1>2. CASE ~(newI > d.end)
  <2>1. newI \in 0..Size
    BY <1>2, RingSize DEF Reader
  <2> QED BY <1>2, <2>1, LoopAtGood DEF Proceed
<1> QED BY <1>1, <1>2

LEMMA RealignedGood ==
    ASSUME NEW es, NEW d \in Reader, NEW newI \in Nat, d.task # "first"
    PROVE  Kept(d, Realigned(d, newI), es)
<1>1. CASE continueOnFailure(d)
  BY <1>1, ProceedGood DEF Realigned
<1>2. CASE ~continueOnFailure(d)
  BY <1>2, ReturnGood DEF Realigned, continueOnFailure
<1> QED BY <1>1, <1>2

LEMMA SearchOnGood ==
    ASSUME NEW es, NEW d, GoodReader(d, es), d.pc \in Looking
    PROVE  Kept(d, SearchOn(d), es)
<1>1. d \in Reader
  BY DEF GoodReader
<1>2. CASE d.loop + 1 > Size
  <2>1. Kept(d, Return(d, 0), es)
    BY <1>1, RingSize, ReturnGood
  <2>2. d.mode = "scan" => Kept(d, Realigned(d, 0), es)
    BY <1>1, RealignedGood DEF GoodReader
  <2> QED BY <1>2, <2>1, <2>2 DEF SearchOn
<1>3. CASE ~(d.loop + 1 > Size)
  <2> DEFINE next == SearchOn(d)
  <2>1. d.loop + 1 \in 0..Size /\ d.at + 1 \in Nat
    <3>1. d.loop \in 0..Size /\ d.at \in Nat
      BY <1>1, ReaderFields
    <3> DEFINE l == d.loop
    <3> HIDE DEF l
    <3>2. l \in 0..Size /\ ~(l + 1 > Size) => l + 1 \in 0..Size
      BY RingSize
    <3> QED BY <1>3, <3>1, <3>2 DEF l
  <2>2. next = [d EXCEPT !.pc = "cmp", !.at = d.at + 1, !.loop = d.loop + 1, !.hdr = Blank, !.buf = <<>>]
    BY <1>3 DEF SearchOn
  <2>3. next \in Reader
    BY <1>1, <2>1, <2>2, ReaderNames DEF Reader
  <2>4. /\ next.pc = "cmp" /\ next.at = d.at + 1 /\ next.loop = d.loop + 1 /\ next.hdr = Blank
        /\ next.buf = <<>> /\ next.task = d.task /\ next.mode = d.mode /\ next.ret = d.ret
    BY <1>1, <2>2 DEF Reader
  <2> HIDE DEF next
  <2>5. next.at + 1 <= Size + next.loop
    <3>1. d.at + 1 <= Size + d.loop /\ d.at \in Nat /\ d.loop \in Nat
      BY <1>1, RingSize, ReaderFields DEF GoodReader
    <3> QED BY <2>4, <3>1, RingSize
  <2>6. Kept(d, next, es)
    <3>1. next.mode = "first" => next.task = "first"
      BY <2>4 DEF GoodReader
    <3>2. next.task # "first" /\ next.task # "dump" => next.ret <= Size
      BY <2>4 DEF GoodReader
    <3> QED BY <2>3, <2>4, <2>5, <3>1, <3>2 DEF Kept, GoodReader
  <2> QED BY <2>6 DEF next
<1> QED BY <1>2, <1>3

LEMMA GetLogFailedGood ==
    ASSUME NEW es, NEW d, GoodReader(d, es), d.pc \in Looking
    PROVE  Kept(d, GetLogFailed(d), es)
<1>1. d \in Reader
  BY DEF GoodReader
<1>2. CASE d.mode # "print"
  BY <1>2, SearchOnGood DEF GetLogFailed
<1>3. CASE d.mode = "print" /\ ~continueOnFailure(d) /\ d.tries + 1 < Spins
  <2> DEFINE next == GetLogFailed(d)
  <2>1. next = [d EXCEPT !.pc = "hdr", !.tries = d.tries + 1, !.hdr = Blank, !.buf = <<>>]
    BY <1>3 DEF GetLogFailed
  <2>2. d.tries + 1 \in 0..Spins
    <3>1. d.tries \in 0..Spins
      BY <1>1, ReaderFields
    <3> QED BY <1>3, <3>1, RingSize
  <2>3. next \in Reader
    BY <1>1, <2>1, <2>2, ReaderNames DEF Reader
  <2>4. /\ next.pc = "hdr" /\ next.at = d.at /\ next.loop = d.loop /\ next.hdr = Blank
        /\ next.buf = <<>> /\ next.task = d.task /\ next.mode = d.mode /\ next.ret = d.ret
    BY <1>1, <2>1 DEF Reader
  <2> HIDE DEF next
  <2>5. Kept(d, next, es)
    BY <1>3, <2>3, <2>4 DEF Kept, GoodReader
  <2> QED BY <2>5 DEF next
<1>4. CASE d.mode = "print" /\ ~(~continueOnFailure(d) /\ d.tries + 1 < Spins)
  <2> DEFINE next == GetLogFailed(d)
  <2>1. next = [d EXCEPT !.pc = "cmp", !.mode = "scan", !.hdr = Blank, !.buf = <<>>]
    BY <1>4 DEF GetLogFailed
  <2>3. next \in Reader
    BY <1>1, <2>1, ReaderNames DEF Reader
  <2>4. /\ next.pc = "cmp" /\ next.at = d.at /\ next.loop = d.loop /\ next.hdr = Blank
        /\ next.buf = <<>> /\ next.task = d.task /\ next.mode = "scan" /\ next.ret = d.ret
    BY <1>1, <2>1 DEF Reader
  <2> HIDE DEF next
  <2>5. Kept(d, next, es)
    BY <1>4, <2>3, <2>4 DEF Kept, GoodReader
  <2> QED BY <2>5 DEF next
<1> QED BY <1>2, <1>3, <1>4

LEMMA GetLogSucceededGood ==
    ASSUME NEW d, GoodReader(d, entries), LenOf(d.hdr) \in Nat, d.pc \in Looking
    PROVE  Kept(d, GetLogSucceeded(d), entries)
<1>1. d \in Reader /\ d.at \in Nat
  BY DEF GoodReader, Reader
<1>2. CASE d.mode = "print"
  <2>1. d.at + LenOf(d.hdr) \in Nat
    BY <1>1
  <2>2. Kept(d, Proceed(d, d.at + LenOf(d.hdr)), entries)
    <3>1. d.task # "first"
      BY <1>2 DEF GoodReader
    <3> QED BY <1>1, <2>1, <3>1, ProceedGood
  <2> QED BY <1>2, <2>2 DEF GetLogSucceeded
<1>3. CASE d.mode = "scan"
  <2>1. d.task # "first"
    BY <1>3 DEF GoodReader
  <2> QED BY <1>1, <1>3, <2>1, RealignedGood DEF GetLogSucceeded
<1>4. CASE d.mode = "first"
  BY <1>1, <1>4, ReturnGood DEF GetLogSucceeded, GoodReader
<1> QED BY <1>1, <1>2, <1>3, <1>4 DEF Reader, Modes

-----------------------------------------------------------------------------
(* The producers *)

(* A set() of one cell writes that cell. *)
LEMMA SetOneCell ==
    ASSUME NEW buffer \in [RingCells -> Cell], NEW index \in Nat, NEW v
    PROVE  set(buffer, index, <<v>>) = [buffer EXCEPT ![normalize(index)] = v]
<1> DEFINE r == normalize(index)
<1>1. Size \in Nat \ {0} /\ r \in RingCells
  BY RingSize, Normalized
<1>2. r + Len(<<v>>) <= Size /\ Len(<<v>>) = 1
  <2> HIDE DEF r
  <2> QED BY <1>1 DEF RingCells
<1>3. set(buffer, index, <<v>>) = memcpyTo(buffer, r, <<v>>)
  BY <1>2 DEF set
<1> HIDE DEF r
<1>4. memcpyTo(buffer, r, <<v>>) = [c \in RingCells |-> IF c = r THEN v ELSE buffer[c]]
  <2>1. memcpyTo(buffer, r, <<v>>) = [c \in RingCells |-> IF c \in r..(r + 1 - 1) THEN <<v>>[c - r + 1] ELSE buffer[c]]
    BY <1>2 DEF memcpyTo
  <2>2. \A c \in RingCells : c \in r..(r + 1 - 1) <=> c = r
    BY <1>1 DEF RingCells
  <2>3. \A c \in RingCells : c = r => <<v>>[c - r + 1] = v
    BY <1>1 DEF RingCells
  <2> QED BY <2>1, <2>2, <2>3
<1>5. [buffer EXCEPT ![r] = v] = [c \in RingCells |-> IF c = r THEN v ELSE buffer[c]]
  BY <1>1
<1> QED BY <1>3, <1>4, <1>5 DEF r

LEMMA ThreadFields ==
    ASSUME NEW t \in Thread
    PROVE  /\ t.len \in Nat /\ t.id \in Nat /\ t.entry \in Nat
           /\ t.todo \in SUBSET Nat /\ t.index \in 0..IndexMax /\ t.head \in Nat
  BY DEF Thread

LEMMA IdleThread == Idle \in Thread /\ Idle.pc = "idle"
  BY RingSize DEF Idle, Thread, Stages

LEMMA LogStep ==
    ASSUME LogInv, NEW p \in Producers, Tracing(p) \/ \E len \in Lens : ReadId(p, len)
    PROVE  LogInv' /\ Grown(entries, entries')
<1> USE RingSize
<1>0. prod[p] \in Thread /\ prod \in [Producers -> Thread]
  BY DEF LogInv, ProducerTypes
<1>u. entries' = entries => Grown(entries, entries')
  BY DEF LogInv, RingTypes, Grown
<1>1. ASSUME NEW len \in Lens, ReadId(p, len)
      PROVE  LogInv' /\ entries' = entries
  <2> DEFINE t == [Idle EXCEPT !.pc = "id", !.len = len, !.id = globalId]
  <2>1. t \in Thread /\ t.len \in Lens /\ t.pc = "id"
    <3>1. len \in Nat /\ globalId \in Nat /\ "id" \in Stages
      BY LogAssumption DEF LogInv, RingTypes, Stages
    <3>2. Idle \in Thread
      BY IdleThread
    <3>3. t \in Thread
      BY <3>1, <3>2 DEF Thread
    <3> QED BY <3>3 DEF Idle
  <2> HIDE DEF t
  <2>2. prod' = [prod EXCEPT ![p] = t] /\ RingTypes' /\ entries' = entries
    BY <1>1 DEF ReadId, t, LogInv, RingTypes
  <2>3. ProducerTypes'
    BY <1>0, <2>1, <2>2 DEF LogInv, ProducerTypes
  <2> QED BY <2>2, <2>3 DEF LogInv
<1>2. ASSUME WriteId(p)
      PROVE  LogInv' /\ entries' = entries
  <2>1. PICK g \in {prod[p].id, globalId} : globalId' = NextId(g)
    BY <1>2 DEF WriteId
  <2>2. g \in Nat
    BY <1>0, <2>1, ThreadFields DEF LogInv, RingTypes
  <2>3. globalId' \in Nat
    BY <2>1, <2>2 DEF NextId
  <2>4. RingTypes' /\ entries' = entries
    BY <1>2, <2>3 DEF WriteId, LogInv, RingTypes
  <2>5. ProducerTypes'
    BY <1>0, <1>2 DEF WriteId, LogInv, ProducerTypes, Thread, Stages
  <2> QED BY <2>4, <2>5 DEF LogInv
<1>3. ASSUME FoldIndex(p)
      PROVE  LogInv' /\ entries' = entries
  <2>1. currentIndex' \in 0..IndexMax
    <3>1. currentIndex \in Nat
      BY DEF LogInv, RingTypes
    <3>2. currentIndex' \in 0..Size
      BY <1>3, <3>1, Normalized DEF FoldIndex
    <3> QED BY <3>2
  <2>2. RingTypes' /\ entries' = entries
    BY <1>3, <2>1 DEF FoldIndex, LogInv, RingTypes
  <2>3. ProducerTypes'
    BY <1>0, <1>3 DEF FoldIndex, LogInv, ProducerTypes, Thread, Stages
  <2> QED BY <2>2, <2>3 DEF LogInv
<1>4. ASSUME StoreWrapCount(p)
      PROVE  LogInv' /\ entries' = entries
  <2>2. RingTypes' /\ entries' = entries
    BY <1>4 DEF StoreWrapCount, LogInv, RingTypes
  <2>3. ProducerTypes'
    BY <1>0, <1>4 DEF StoreWrapCount, LogInv, ProducerTypes, Thread, Stages
  <2> QED BY <2>2, <2>3 DEF LogInv
<1>5. ASSUME Allocate(p)
      PROVE  LogInv' /\ Grown(entries, entries')
  <2> DEFINE e == [loc |-> currentIndex, pos |-> head, len |-> prod[p].len, id |-> prod[p].id]
  <2>1. prod[p].len \in Lens /\ prod[p].len \in Nat /\ prod[p].id \in Nat
    BY <1>0, <1>5, ThreadFields DEF Allocate, LogInv, ProducerTypes
  <2>2. e \in Entry
    BY <2>1 DEF Entry, LogInv, RingTypes
  <2>3. entries' = Append(entries, e) /\ entries \in Seq(Entry)
    BY <1>5 DEF Allocate, LogInv, RingTypes
  <2> HIDE DEF e
  <2>4. entries' \in Seq(Entry) /\ Len(entries') = Len(entries) + 1 /\ Grown(entries, entries')
    BY <2>2, <2>3 DEF Grown
  <2>5. currentIndex' \in 0..IndexMax /\ head' \in Nat
    <3> DEFINE x == currentIndex + prod[p].len
    <3>1. x \in Nat /\ IndexMax + 1 \in Nat \ {0}
      BY <2>1 DEF LogInv, RingTypes
    <3>2. currentIndex' = x % (IndexMax + 1)
      BY <1>5 DEF Allocate
    <3> HIDE DEF x
    <3>3. x % (IndexMax + 1) \in 0..(IndexMax + 1 - 1)
      BY <3>1, DivMod
    <3>4. IndexMax + 1 - 1 = IndexMax
      OBVIOUS
    <3>5. head' \in Nat
      <4>1. head' = head + prod[p].len
        BY <1>5 DEF Allocate
      <4>2. head \in Nat
        BY DEF LogInv, RingTypes
      <4> QED BY <2>1, <4>1, <4>2
    <3> QED BY <3>2, <3>3, <3>4, <3>5
  <2>6. RingTypes'
    <3>1. mem' = mem /\ lastWritten' = lastWritten /\ globalId' = globalId
      BY <1>5 DEF Allocate
    <3>2. \A c \in RingCells : mem[c].entry \in Nat /\ mem[c].entry <= Len(entries)
      BY DEF LogInv, RingTypes, Cell
    <3>3. \A c \in RingCells : mem[c].entry <= Len(entries')
      BY <2>3, <2>4, <3>2
    <3> QED BY <2>4, <2>5, <3>1, <3>3 DEF LogInv, RingTypes
  <2>7. ProducerTypes'
    <3>0. Len(entries) + 1 \in Nat /\ 0..(prod[p].len - 1) \in SUBSET Nat /\ Len(entries) + 1 \in 1..Len(entries')
      BY <2>1, <2>3, <2>4
    <3>1. prod' = [prod EXCEPT ![p].pc = "copy", ![p].entry = Len(entries) + 1,
                               ![p].todo = 0..(prod[p].len - 1)]
      BY <1>5 DEF Allocate
    <3>2. prod' \in [Producers -> Thread]
      BY <1>0, <3>0, <3>1 DEF Thread, Stages
    <3>3. prod'[p].pc = "copy" /\ prod'[p].entry = Len(entries) + 1
      BY <1>0, <3>1 DEF Thread
    <3>4. \A q \in Producers \ {p} : prod'[q] = prod[q]
      BY <1>0, <3>1
    <3>5. \A q \in Producers : prod[q].entry \in 1..Len(entries) => prod[q].entry \in 1..Len(entries')
      BY <2>3, <2>4
    <3> QED BY <3>0, <3>2, <3>3, <3>4, <3>5 DEF LogInv, ProducerTypes
  <2> QED BY <2>4, <2>6, <2>7 DEF LogInv
<1>6. ASSUME CopyCell(p)
      PROVE  LogInv' /\ entries' = entries
  <2>1. PICK k \in prod[p].todo :
          /\ mem' = set(mem, entries[prod[p].entry].loc + k, <<[entry |-> prod[p].entry, part |-> k]>>)
          /\ prod' = [prod EXCEPT ![p].todo = @ \ {k},
                                  ![p].pc = IF prod[p].todo = {k} THEN "index" ELSE "copy"]
    BY <1>6 DEF CopyCell
  <2> DEFINE n == prod[p].entry
             v == [entry |-> n, part |-> k]
             index == entries[n].loc + k
  <2>2. n \in 1..Len(entries) /\ k \in Nat /\ entries \in Seq(Entry) /\ mem \in [RingCells -> Cell]
    BY <1>0, <1>6, <2>1, ThreadFields DEF CopyCell, LogInv, ProducerTypes, RingTypes
  <2>3. index \in Nat /\ n \in Nat /\ v \in Cell /\ v.entry = n
    <3>1. entries[n] \in Entry
      BY <2>2
    <3>2. entries[n].loc \in Nat
      BY <3>1 DEF Entry
    <3> QED BY <2>2, <3>2 DEF Cell
  <2>4. mem' = [mem EXCEPT ![normalize(index)] = v]
    <3> HIDE DEF index, v
    <3> QED BY <2>1, <2>2, <2>3, SetOneCell DEF index, v
  <2>5. UNCHANGED <<currentIndex, globalId, lastWritten, entries, head>>
    BY <1>6 DEF CopyCell
  <2> HIDE DEF n, v, index
  <2>6. RingTypes'
    <3>1. mem' \in [RingCells -> Cell]
      BY <2>2, <2>3, <2>4
    <3>2. \A c \in RingCells : mem'[c].entry <= Len(entries)
      <4>1. n <= Len(entries) /\ \A c \in RingCells : mem[c].entry <= Len(entries)
        BY <2>2 DEF LogInv, RingTypes
      <4> QED BY <2>2, <2>3, <2>4, <4>1
    <3> QED BY <2>5, <3>1, <3>2 DEF LogInv, RingTypes
  <2>7. ProducerTypes'
    BY <1>0, <1>6, <2>1, <2>5 DEF CopyCell, LogInv, ProducerTypes, Thread, Stages
  <2> QED BY <2>5, <2>6, <2>7 DEF LogInv
<1>7. ASSUME ReadIndex(p)
      PROVE  LogInv' /\ entries' = entries
  <2>2. RingTypes' /\ entries' = entries
    BY <1>7 DEF ReadIndex, LogInv, RingTypes
  <2>3. ProducerTypes'
    BY <1>0, <1>7 DEF ReadIndex, LogInv, ProducerTypes, Thread, Stages, RingTypes
  <2> QED BY <2>2, <2>3 DEF LogInv
<1>8. ASSUME StoreLast(p)
      PROVE  LogInv' /\ entries' = entries
  <2>1. Idle \in Thread /\ Idle.pc = "idle"
    BY IdleThread
  <2>2. RingTypes' /\ entries' = entries
    BY <1>0, <1>8, ThreadFields DEF StoreLast, LogInv, RingTypes
  <2>3. ProducerTypes'
    BY <1>0, <1>8, <2>1 DEF StoreLast, LogInv, ProducerTypes
  <2> QED BY <2>2, <2>3 DEF LogInv
<1> QED
  BY <1>u, <1>1, <1>2, <1>3, <1>4, <1>5, <1>6, <1>7, <1>8 DEF Tracing

-----------------------------------------------------------------------------
(* The readers and the two threads *)

(* A header that is being read stays what it is when entries are added. *)
LEMMA GrownReader ==
    ASSUME NEW es \in Seq(Entry), NEW fs \in Seq(Entry), Grown(es, fs), NEW d, GoodReader(d, es)
    PROVE  GoodReader(d, fs)
<1>1. d.hdr.entry \in 1..Len(es) => d.hdr.entry \in 1..Len(fs) /\ fs[d.hdr.entry] = es[d.hdr.entry]
  BY DEF Grown
<1> QED BY <1>1 DEF GoodReader

LEMMA ControlFields ==
    ASSUME NEW c \in Control
    PROVE  /\ c.worker \in WorkerStates /\ c.main \in MainStates
           /\ c["worker"] = c.worker /\ c["main"] = c.main
  BY DEF Control

LEMMA ControlWorker ==
    ASSUME NEW c \in Control, NEW v \in WorkerStates, NEW next, next = [c EXCEPT !["worker"] = v]
    PROVE  next \in Control /\ next.worker = v /\ next.main = c.main
  BY DEF Control

LEMMA ControlMain ==
    ASSUME NEW c \in Control, NEW v \in MainStates, NEW next, next = [c EXCEPT !["main"] = v]
    PROVE  next \in Control /\ next.main = v /\ next.worker = c.worker
  BY DEF Control

LEMMA BothReaders == Readers = {"worker", "main"} /\ "worker" \in Readers /\ "main" \in Readers
  BY CollectorAssumption

(* A step inside dumpRange(), collect() or dump(): the thread goes on with *)
(* the call it is in.                                                      *)
LEMMA QuietStep ==
    ASSUME CollectorInv, NEW r \in Readers, NEW next,
           rd' = [rd EXCEPT ![r] = next], GoodReader(next, entries), rd[r].pc # "idle",
           next.task \in {"first", "dump"} <=> rd[r].task \in {"first", "dump"},
           UNCHANGED <<logVars, collectVars>>,
           file' \in Seq(Nat), stdout' \in Seq(Nat), Len(file) <= Len(file')
    PROVE  CollectorInv'
<1>1. LogInv'
  BY DEF CollectorInv, LogInv, RingTypes, ProducerTypes, logVars
<1>2. entries' = entries /\ UNCHANGED collectVars
  BY DEF logVars
<1>3. next \in Reader
  BY DEF GoodReader
<1>4. ReaderTypes'
  BY <1>2, <1>3 DEF CollectorInv, ReaderTypes
<1>5. ThreadTypes'
  <2>1. flushed' \in 0..Len(file')
    BY <1>2 DEF CollectorInv, ThreadTypes, ReaderTypes, collectVars
  <2> QED BY <1>2, <2>1 DEF CollectorInv, ThreadTypes, collectVars
<1>6. Closes'
  <2>1. \A q \in Readers : rd'[q].pc # "idle" => rd[q].pc # "idle" /\ Reads(q)' = Reads(q)
    <3>1. rd'[r] = next /\ \A q \in Readers \ {r} : rd'[q] = rd[q]
      BY DEF CollectorInv, ReaderTypes
    <3> QED BY <3>1 DEF Reads
  <2>2. ctl' = ctl /\ enable' = enable
    BY <1>2 DEF collectVars
  <2> QED BY <2>1, <2>2 DEF CollectorInv, Closes
<1> QED BY <1>1, <1>4, <1>5, <1>6 DEF CollectorInv

(* A cell of the ring, and the entry a header names *)
LEMMA CellRead ==
    ASSUME LogInv, NEW index \in Nat
    PROVE  getByte(mem, index) \in Cell /\ getByte(mem, index).entry <= Len(entries)
  BY Normalized DEF LogInv, RingTypes, getByte

LEMMA EntryLength ==
    ASSUME LogInv, NEW n \in 1..Len(entries)
    PROVE  entries[n].len \in Nat /\ entries[n].len >= 2
<1>1. entries[n] \in Entry
  BY DEF LogInv, RingTypes
<1>2. entries[n].len \in Lens
  BY <1>1 DEF Entry
<1>3. \A len \in Lens : len \in Nat /\ len >= 2
  BY LogAssumption
<1> QED BY <1>2, <1>3

LEMMA LineIsNumber ==
    ASSUME NEW buf \in Seq(Cell), Len(buf) > 0
    PROVE  LineOf(buf) \in Nat
<1>1. buf[1] \in Cell
  OBVIOUS
<1>2. buf[1].entry \in Nat
  BY <1>1 DEF Cell
<1> QED BY <1>2 DEF LineOf, Torn

LEMMA ReadingStep ==
    ASSUME CollectorInv, NEW r \in Readers, Reading(r), UNCHANGED <<logVars, collectVars>>
    PROVE  CollectorInv'
<1> DEFINE d == rd[r]
<1>1. d \in Reader /\ GoodReader(d, entries) /\ LogInv /\ file \in Seq(Nat) /\ stdout \in Seq(Nat)
  BY DEF CollectorInv, ReaderTypes
<1>2. d.at \in Nat /\ d.buf \in Seq(Cell) /\ d.hdr \in Cell
  BY <1>1, ReaderFields
<1>3. ASSUME NEW next, Step(r, next), Kept(d, next, entries), d.pc # "idle",
             file' \in Seq(Nat), stdout' \in Seq(Nat), Len(file) <= Len(file')
      PROVE  CollectorInv'
  BY <1>3, QuietStep DEF Step, Kept
<1>4. ASSUME ReadHeader(r) PROVE CollectorInv'
  <2> DEFINE c == getByte(mem, d.at)
             read == [d EXCEPT !.pc = "body", !.hdr = c]
  <2>0. d.pc = "hdr" /\ d.pc # "idle" /\ file' = file /\ stdout' = stdout
        /\ Step(r, IF IsHeader(c) THEN read ELSE GetLogFailed(d))
    BY <1>4 DEF ReadHeader
  <2>3. d.pc \in Looking
    BY <2>0 DEF Looking
  <2>1. CASE IsHeader(c)
    <3>1. c \in Cell /\ c.entry \in 1..Len(entries)
      <4> HIDE DEF c
      <4>1. c \in Cell /\ c.entry <= Len(entries) /\ entries \in Seq(Entry)
        BY <1>1, <1>2, CellRead DEF c, LogInv, RingTypes
      <4>2. c.entry \in Nat
        BY <4>1 DEF Cell
      <4> QED BY <2>1, <4>1, <4>2 DEF IsHeader
    <3> HIDE DEF c
    <3>2. read \in Reader
      BY <1>1, <3>1, ReaderNames DEF Reader
    <3>3. /\ read.pc = "body" /\ read.hdr = c /\ read.buf = d.buf /\ read.at = d.at /\ read.loop = d.loop
          /\ read.mode = d.mode /\ read.task = d.task /\ read.ret = d.ret
      BY <1>1 DEF Reader
    <3>4. d.buf = <<>> /\ Len(<<>>) < entries[c.entry].len
      BY <1>1, <2>0, <3>1, EntryLength DEF GoodReader
    <3>5. Kept(d, read, entries)
      <4> HIDE DEF read, d
      <4> QED BY <1>1, <2>3, <3>1, <3>2, <3>3, <3>4 DEF Kept, GoodReader
    <3> QED BY <1>1, <1>3, <2>0, <2>1, <3>5
  <2>2. CASE ~IsHeader(c)
    <3>1. Kept(d, GetLogFailed(d), entries)
      BY <1>1, <2>3, GetLogFailedGood
    <3> QED BY <1>1, <1>3, <2>0, <2>2, <3>1
  <2> QED BY <2>1, <2>2
<1>5. ASSUME ReadBody(r) PROVE CollectorInv'
  <2> DEFINE c == getByte(mem, d.at + Len(d.buf))
             buf == Append(d.buf, c)
             more == [d EXCEPT !.buf = buf]
  <2>0. d.pc = "body" /\ d.pc # "idle"
    BY <1>5 DEF ReadBody
  <2>7. d.pc \in Looking
    BY <2>0 DEF Looking
  <2>1. c \in Cell
    <3>1. d.at + Len(d.buf) \in Nat
      BY <1>2
    <3> QED BY <1>1, <3>1, CellRead
  <2>2. buf \in Seq(Cell) /\ Len(buf) > 0 /\ Len(buf) \in Nat
    <3> HIDE DEF c, d
    <3> QED BY <1>2, <2>1
  <2>3. d.hdr.entry \in 1..Len(entries) /\ LenOf(d.hdr) \in Nat /\ LenOf(d.hdr) = entries[d.hdr.entry].len
    BY <1>1, <2>0, EntryLength DEF GoodReader, LenOf
  <2>4. CASE Len(buf) < LenOf(d.hdr) /\ Step(r, more) /\ UNCHANGED <<file, stdout>>
    <3> HIDE DEF buf
    <3>1. more \in Reader
      BY <1>1, <2>2 DEF Reader
    <3>2. /\ more.pc = d.pc /\ more.hdr = d.hdr /\ more.buf = buf /\ more.at = d.at /\ more.loop = d.loop
          /\ more.mode = d.mode /\ more.task = d.task /\ more.ret = d.ret
      BY <1>1 DEF Reader
    <3>3. Kept(d, more, entries)
      <4> HIDE DEF more, d
      <4> QED BY <1>1, <2>0, <2>3, <2>4, <3>1, <3>2 DEF Kept, GoodReader
    <3> QED BY <1>1, <1>3, <2>0, <2>4, <3>3
  <2>5. CASE Step(r, GetLogSucceeded(d)) /\ WriteLine(d, buf)
    <3>1. Kept(d, GetLogSucceeded(d), entries)
      BY <1>1, <2>3, <2>7, GetLogSucceededGood
    <3>2. file' \in Seq(Nat) /\ stdout' \in Seq(Nat) /\ Len(file) <= Len(file')
      <4> HIDE DEF buf, d
      <4>1. LineOf(buf) \in Nat
        BY <2>2, LineIsNumber
      <4> DEFINE line == LineOf(buf)
      <4>2. /\ file' = file \/ file' = Append(file, line)
            /\ stdout' = stdout \/ stdout' = Append(stdout, line)
        BY <2>5 DEF WriteLine
      <4> HIDE DEF line
      <4>3. line \in Nat
        BY <4>1 DEF line
      <4>4. Append(file, line) \in Seq(Nat) /\ Append(stdout, line) \in Seq(Nat)
            /\ Len(file) \in Nat /\ Len(Append(file, line)) = Len(file) + 1
        BY <1>1, <4>3
      <4>5. file' \in Seq(Nat) /\ stdout' \in Seq(Nat)
        BY <1>1, <4>2, <4>4
      <4>6. Len(file') = Len(file) \/ Len(file') = Len(file) + 1
        BY <4>2, <4>4
      <4> QED BY <4>4, <4>5, <4>6
    <3> QED BY <1>3, <2>0, <2>5, <3>1, <3>2
  <2>6. CASE Step(r, GetLogFailed(d)) /\ UNCHANGED <<file, stdout>>
    <3>1. Kept(d, GetLogFailed(d), entries)
      BY <1>1, <2>7, GetLogFailedGood
    <3> QED BY <1>1, <1>3, <2>0, <2>6, <3>1
  <2> QED BY <1>5, <2>4, <2>5, <2>6 DEF ReadBody
<1>6. ASSUME ComparePattern(r) PROVE CollectorInv'
  <2> DEFINE look == [d EXCEPT !.pc = "hdr"]
  <2>0. d.pc = "cmp" /\ d.pc # "idle" /\ file' = file /\ stdout' = stdout
        /\ (Step(r, look) \/ Step(r, SearchOn(d)))
    BY <1>6 DEF ComparePattern
  <2>3. d.pc \in Looking
    BY <2>0 DEF Looking
  <2>1. CASE Step(r, look)
    <3>1. look \in Reader
      BY <1>1, ReaderNames DEF Reader
    <3>2. /\ look.pc = "hdr" /\ look.hdr = d.hdr /\ look.buf = d.buf /\ look.at = d.at /\ look.loop = d.loop
          /\ look.mode = d.mode /\ look.task = d.task /\ look.ret = d.ret
      BY <1>1 DEF Reader
    <3>3. Kept(d, look, entries)
      <4> HIDE DEF look, d
      <4> QED BY <1>1, <2>0, <2>3, <3>1, <3>2 DEF Kept, GoodReader
    <3> QED BY <1>1, <1>3, <2>0, <2>1, <3>3
  <2>2. CASE Step(r, SearchOn(d))
    <3>1. Kept(d, SearchOn(d), entries)
      BY <1>1, <2>3, SearchOnGood
    <3> QED BY <1>1, <1>3, <2>0, <2>2, <3>1
  <2> QED BY <2>0, <2>1, <2>2
<1> QED
  BY <1>4, <1>5, <1>6 DEF Reading

(* A step by which thread r goes from one part of its work to another *)
LEMMA TurnStep ==
    ASSUME CollectorInv, NEW r \in Readers, NEW next, NEW v,
           rd' = [rd EXCEPT ![r] = next], GoodReader(next, entries),
           ctl' = [ctl EXCEPT ![r] = v],
           v \in IF r = "worker" THEN WorkerStates ELSE MainStates,
           next.pc # "idle" => v \in IF next.task \in {"first", "dump"}
                                     THEN {"dumping"} ELSE {"collecting", "flushing"},
           r = "worker" => /\ enable' = enable /\ ctl.worker # "none"
                           /\ ctl.main \in {"closing", "closed"} => v = "done",
           r = "main" => /\ v \in {"run", "dumping", "flushing", "sync", "disable"} => enable' = EnableCollect
                         /\ v \in {"closing", "closed"} => ctl.worker \in {"none", "done"},
           UNCHANGED logVars, UNCHANGED file, stdout' \in Seq(Nat), enable' \in BOOLEAN,
           bookmark' \in 0..IndexMax, flushed' \in 0..Len(file), ticks' \in 0..FlushTicks
    PROVE  CollectorInv'
<1>1. LogInv' /\ entries' = entries
  BY DEF CollectorInv, LogInv, RingTypes, ProducerTypes, logVars
<1>2. next \in Reader
  BY DEF GoodReader
<1>3. ReaderTypes'
  BY <1>1, <1>2 DEF CollectorInv, ReaderTypes
<1>4. /\ rd'[r] = next /\ \A q \in Readers \ {r} : rd'[q] = rd[q]
  BY DEF CollectorInv, ReaderTypes
<1>5. ctl \in Control
  BY DEF CollectorInv, ThreadTypes
<1>8. flushed' \in 0..Len(file')
  OBVIOUS
<1>6. CASE r = "worker"
  <2>1. ctl' \in Control /\ ctl'.worker = v /\ ctl'.main = ctl.main
    <3>1. v \in WorkerStates /\ ctl' = [ctl EXCEPT !["worker"] = v]
      BY <1>6
    <3> QED BY <1>5, <3>1, ControlWorker, ZenonT(60)
  <2>2. ctl'["worker"] = v /\ ctl'["main"] = ctl["main"]
    BY <1>5, <2>1, ControlFields
  <2>3. ThreadTypes'
    BY <1>8, <2>1 DEF ThreadTypes
  <2>4. rd'["worker"] = next /\ rd'["main"] = rd["main"]
    BY <1>4, <1>6, BothReaders
  <2>5. \A q \in Readers : rd'[q].pc # "idle" => ctl'[q] \in Reads(q)'
    BY <1>6, <2>2, <2>4, BothReaders DEF CollectorInv, Closes, Reads
  <2>6. EnableCollect
    BY <1>6, CollectorAssumption DEF CollectorInv, Closes
  <2>7. Closes'
    BY <1>6, <2>1, <2>5, <2>6 DEF CollectorInv, Closes
  <2> QED BY <1>1, <1>3, <2>3, <2>7 DEF CollectorInv
<1>7. CASE r = "main"
  <2>1. ctl' \in Control /\ ctl'.main = v /\ ctl'.worker = ctl.worker
    <3>1. v \in MainStates /\ ctl' = [ctl EXCEPT !["main"] = v]
      BY <1>7
    <3> QED BY <1>5, <3>1, ControlMain, ZenonT(60)
  <2>2. ctl'["main"] = v /\ ctl'["worker"] = ctl["worker"]
    BY <1>5, <2>1, ControlFields
  <2>3. ThreadTypes'
    BY <1>8, <2>1 DEF ThreadTypes
  <2>4. rd'["main"] = next /\ rd'["worker"] = rd["worker"]
    BY <1>4, <1>7, BothReaders
  <2>5. \A q \in Readers : rd'[q].pc # "idle" => ctl'[q] \in Reads(q)'
    BY <1>7, <2>2, <2>4, BothReaders DEF CollectorInv, Closes, Reads
  <2>6. Closes'
    BY <1>7, <2>1, <2>5 DEF CollectorInv, Closes
  <2> QED BY <1>1, <1>3, <2>3, <2>6 DEF CollectorInv
<1> QED BY <1>6, <1>7, BothReaders

(* The steps of a producer beside the readers *)
LEMMA ProducerStep ==
    ASSUME CollectorInv, NEW p \in Producers, Tracing(p) \/ \E len \in Lens : ReadId(p, len),
           UNCHANGED <<readVars, collectVars>>
    PROVE  CollectorInv'
<1>1. LogInv' /\ Grown(entries, entries')
  BY LogStep DEF CollectorInv
<1>2. entries \in Seq(Entry) /\ entries' \in Seq(Entry)
  BY <1>1 DEF CollectorInv, LogInv, RingTypes
<1>3. \A r \in Readers : GoodReader(rd[r], entries')
  BY <1>1, <1>2, GrownReader DEF CollectorInv, ReaderTypes
<1>4. ReaderTypes'
  BY <1>3 DEF CollectorInv, ReaderTypes, readVars
<1>5. ThreadTypes' /\ Closes'
  BY DEF CollectorInv, ThreadTypes, Closes, Reads, readVars, collectVars
<1> QED BY <1>1, <1>4, <1>5 DEF CollectorInv

(* What a thread that is inside collect() is doing *)
LEMMA InCollect ==
    ASSUME CollectorInv, NEW r \in Readers, rd[r].pc # "idle", rd[r].task \notin {"first", "dump"}
    PROVE  /\ ctl[r] \in {"collecting", "flushing"}
           /\ r = "worker" => ctl.worker # "none" /\ ctl.main \notin {"closing", "closed"}
           /\ r = "main" => ctl.main = "flushing"
<1>1. ctl[r] \in {"collecting", "flushing"}
  BY DEF CollectorInv, Closes, Reads
<1>2. ctl \in Control
  BY DEF CollectorInv, ThreadTypes
<1>3. ctl["worker"] = ctl.worker /\ ctl["main"] = ctl.main /\ ctl.main \in MainStates
  BY <1>2, ControlFields
<1> QED BY <1>1, <1>3, BothReaders DEF CollectorInv, Closes, MainStates

(* collect() has stored the bookmark and returns. *)
LEMMA SetBookmarkStep ==
    ASSUME CollectorInv, NEW r \in Readers, rd[r].pc # "idle", rd[r].task \notin {"first", "dump"},
           NEW index \in 0..IndexMax, SetBookmark(r, index)
    PROVE  CollectorInv'
<1> DEFINE v == AfterCollect(ctl[r])
<1>1. /\ rd' = [rd EXCEPT ![r] = NoRead] /\ ctl' = [ctl EXCEPT ![r] = v] /\ bookmark' = index
      /\ UNCHANGED logVars /\ UNCHANGED <<file, stdout, enable, ticks, flushed>>
  BY DEF SetBookmark
<1>2. /\ ctl[r] \in {"collecting", "flushing"}
      /\ r = "worker" => ctl.worker # "none" /\ ctl.main \notin {"closing", "closed"}
      /\ r = "main" => ctl.main = "flushing"
  BY InCollect
<1>3. ctl["main"] = ctl.main
  BY ControlFields DEF CollectorInv, ThreadTypes
<1>4. v \in IF r = "worker" THEN WorkerStates ELSE MainStates
  BY <1>2, <1>3, BothReaders DEF AfterCollect, WorkerStates, MainStates
<1>5. r = "main" => v = "sync" /\ enable' = EnableCollect
  BY <1>1, <1>2, <1>3 DEF AfterCollect, CollectorInv, Closes
<1>6. GoodReader(NoRead, entries) /\ NoRead.pc = "idle"
  BY NoReadGood DEF NoRead
<1>7. /\ stdout' \in Seq(Nat) /\ enable' \in BOOLEAN /\ flushed' \in 0..Len(file)
      /\ ticks' \in 0..FlushTicks /\ bookmark' \in 0..IndexMax
  BY <1>1 DEF CollectorInv, ReaderTypes, ThreadTypes
<1> HIDE DEF v
<1> QED BY <1>1, <1>2, <1>4, <1>5, <1>6, <1>7, TurnStep

(* A thread calls collect(). *)
LEMMA CallCollectStep ==
    ASSUME CollectorInv, NEW r \in Readers, NEW caller \in {"collecting", "flushing"}, CallCollect(r, caller),
           r = "worker" => ctl.worker = "loop",
           r = "main" => ctl.main = "run" /\ caller = "flushing"
    PROVE  CollectorInv'
<1> DEFINE next == [NoRead EXCEPT !.pc = "collect"]
<1>1. /\ rd' = [rd EXCEPT ![r] = next] /\ ctl' = [ctl EXCEPT ![r] = caller]
      /\ UNCHANGED logVars /\ UNCHANGED <<file, stdout, enable, ticks, flushed, bookmark>>
  BY DEF CallCollect
<1>2. GoodReader(next, entries) /\ next.pc = "collect" /\ next.task = "none"
  <2>1. NoRead \in Reader
    BY NoReadGood
  <2>2. next \in Reader
    BY <2>1, ReaderNames DEF Reader
  <2>3. /\ next.pc = "collect" /\ next.task = "none" /\ next.mode = "print" /\ next.at = 0
        /\ next.loop = 0 /\ next.ret = 0 /\ next.hdr = Blank /\ next.buf = <<>>
    BY DEF NoRead
  <2> HIDE DEF next
  <2> QED BY <2>2, <2>3, RingSize DEF GoodReader
<1> HIDE DEF next
<1>3. caller \in IF r = "worker" THEN WorkerStates ELSE MainStates
  BY BothReaders DEF WorkerStates, MainStates
<1>4. r = "worker" => ctl.worker # "none" /\ ctl.main \notin {"closing", "closed"}
  BY DEF CollectorInv, Closes
<1>5. r = "main" => enable' = EnableCollect
  BY <1>1 DEF CollectorInv, Closes
<1>6. /\ stdout' \in Seq(Nat) /\ enable' \in BOOLEAN /\ flushed' \in 0..Len(file)
      /\ ticks' \in 0..FlushTicks /\ bookmark' \in 0..IndexMax
  BY <1>1 DEF CollectorInv, ReaderTypes, ThreadTypes
<1> QED BY <1>1, <1>2, <1>3, <1>4, <1>5, <1>6, TurnStep

LEMMA DecIsNatural ==
    ASSUME NEW index \in 0..IndexMax
    PROVE  Dec(index) \in Nat
  BY RingSize DEF Dec

(* dumpRange() called by collect() or dump() for another task *)
LEMMA RangeFor ==
    ASSUME NEW d \in Reader, NEW task \in Tasks \ {"first"}, NEW start \in Nat, NEW end \in Nat, NEW es,
           NEW next, next = dumpRange([d EXCEPT !.task = task], start, end)
    PROVE  GoodReader(next, es) /\ next.task = task
<1> DEFINE d1 == [d EXCEPT !.task = task]
<1>1. d1 \in Reader /\ d1.task = task
  BY DEF Reader
<1> HIDE DEF d1
<1>2. Kept(d1, dumpRange(d1, start, end), es)
  BY <1>1, DumpRangeGood
<1> QED BY <1>1, <1>2 DEF d1, Kept

LEMMA CollectingStep ==
    ASSUME CollectorInv, NEW r \in Readers, Collecting(r)
    PROVE  CollectorInv'
<1> DEFINE d == rd[r]
<1>1. /\ d \in Reader /\ GoodReader(d, entries) /\ d.rangeEnd \in 0..IndexMax
      /\ bookmark \in Nat /\ file \in Seq(Nat) /\ stdout \in Seq(Nat) /\ lastWritten \in 0..IndexMax
  BY ReaderFields DEF CollectorInv, ReaderTypes, ThreadTypes, LogInv, RingTypes
<1>2. Dec(d.rangeEnd) \in Nat
  BY <1>1, DecIsNatural
<1>3. ASSUME NEW next, rd' = [rd EXCEPT ![r] = next], GoodReader(next, entries), d.pc # "idle",
             d.task \notin {"first", "dump"}, next.task \notin {"first", "dump"},
             UNCHANGED <<logVars, file, stdout, reported, collectVars>>
      PROVE  CollectorInv'
  <2>1. /\ UNCHANGED <<logVars, collectVars>>
        /\ file' \in Seq(Nat) /\ stdout' \in Seq(Nat) /\ Len(file) <= Len(file')
    BY <1>1, <1>3
  <2> QED BY <1>3, <2>1, QuietStep
<1>4. ASSUME CollectRead(r) PROVE CollectorInv'
  <2> DEFINE next == [NoRead EXCEPT !.pc = "split", !.rangeEnd = lastWritten]
  <2>1. /\ d.pc = "collect" /\ rd' = [rd EXCEPT ![r] = next]
        /\ UNCHANGED <<logVars, file, stdout, reported, collectVars>>
    BY <1>4 DEF CollectRead
  <2>2. d.task = "none"
    BY <1>1, <2>1 DEF GoodReader
  <2>3. next \in Reader
    BY <1>1, NoReadGood, ReaderNames DEF Reader
  <2>4. /\ next.pc = "split" /\ next.task = "none" /\ next.mode = "print" /\ next.at = 0
        /\ next.loop = 0 /\ next.ret = 0 /\ next.hdr = Blank /\ next.buf = <<>>
    BY DEF NoRead
  <2> HIDE DEF next
  <2>5. GoodReader(next, entries)
    BY <2>3, <2>4, RingSize DEF GoodReader
  <2> QED BY <1>3, <2>1, <2>2, <2>4, <2>5
<1>5. ASSUME CollectEmpty(r) PROVE CollectorInv'
  <2>1. d.pc = "split" /\ SetBookmark(r, d.rangeEnd)
    BY <1>5 DEF CollectEmpty
  <2>2. d.task = "none"
    BY <1>1, <2>1 DEF GoodReader
  <2> QED BY <1>1, <2>1, <2>2, SetBookmarkStep
<1>6. ASSUME CollectSplit(r) PROVE CollectorInv'
  <2> DEFINE only == dumpRange([d EXCEPT !.task = "only"], bookmark, Dec(d.rangeEnd))
             top == dumpRange([d EXCEPT !.task = "top"], bookmark, Size - 1)
  <2>1. /\ d.pc = "split" /\ (rd' = [rd EXCEPT ![r] = only] \/ rd' = [rd EXCEPT ![r] = top])
        /\ UNCHANGED <<logVars, file, stdout, reported, collectVars>>
    BY <1>6 DEF CollectSplit
  <2>2. d.task = "none"
    BY <1>1, <2>1 DEF GoodReader
  <2>3. GoodReader(only, entries) /\ only.task = "only"
    <3>1. "only" \in Tasks \ {"first"}
      BY ReaderNames
    <3> HIDE DEF d
    <3> QED BY <1>1, <1>2, <3>1, RangeFor, SMTT(40)
  <2>4. GoodReader(top, entries) /\ top.task = "top"
    <3>1. "top" \in Tasks \ {"first"} /\ Size - 1 \in Nat
      BY ReaderNames, RingSize
    <3> HIDE DEF d
    <3> QED BY <1>1, <3>1, RangeFor, SMTT(40)
  <2> HIDE DEF only, top
  <2> QED BY <1>3, <2>1, <2>2, <2>3, <2>4
<1>7. ASSUME CollectBottom(r) PROVE CollectorInv'
  <2> DEFINE end == Dec(d.rangeEnd)
             next == dumpRange([d EXCEPT !.task = "bottom"], 0, end)
  <2>1. /\ d.pc = "ret" /\ d.task = "top" /\ rd' = [rd EXCEPT ![r] = next]
        /\ UNCHANGED <<logVars, file, stdout, reported, collectVars>>
    BY <1>7 DEF CollectBottom
  <2>2. end \in Nat /\ "bottom" \in Tasks
    BY <1>2, ReaderNames
  <2> HIDE DEF end
  <2>3. GoodReader(next, entries) /\ next.task = "bottom"
    <3> DEFINE d1 == [d EXCEPT !.task = "bottom"]
    <3>1. d1 \in Reader /\ d1.task = "bottom"
      BY <1>1, <2>2 DEF Reader
    <3> HIDE DEF d1
    <3>2. Kept(d1, dumpRange(d1, 0, end), entries)
      BY <2>2, <3>1, DumpRangeGood
    <3> QED BY <3>1, <3>2 DEF d1, Kept
  <2> HIDE DEF next
  <2> QED BY <1>3, <2>1, <2>3
<1>8. ASSUME CollectReturn(r) PROVE CollectorInv'
  <2>1. d.pc = "ret" /\ d.task \in {"only", "bottom"} /\ SetBookmark(r, d.ret)
    BY <1>8 DEF CollectReturn
  <2>2. d.ret \in 0..IndexMax
    <3>1. d.ret \in Nat /\ d.ret <= Size
      BY <1>1, <2>1, ReaderFields DEF GoodReader
    <3> QED BY <3>1, RingSize
  <2> QED BY <2>1, <2>2, SetBookmarkStep
<1>9. ASSUME Reading(r), UNCHANGED <<logVars, collectVars>> PROVE CollectorInv'
  BY <1>9, ReadingStep
<1> QED
  BY <1>4, <1>5, <1>6, <1>7, <1>8, <1>9 DEF Collecting

(* A step that leaves the readers and the ring alone and moves the control  *)
(* of a thread that is not inside a call                                    *)
LEMMA ControlStep ==
    ASSUME CollectorInv, NEW r \in Readers, NEW v, ctl' = [ctl EXCEPT ![r] = v],
           v \in (IF r = "worker" THEN WorkerStates ELSE MainStates) \ {"dumping", "collecting", "flushing"},
           rd[r].pc = "idle",
           r = "worker" => /\ enable' = enable /\ ctl.worker # "none"
                           /\ ctl.main \in {"closing", "closed"} => v = "done",
           r = "main" => /\ v \in {"run", "dumping", "flushing", "sync", "disable"} => enable' = EnableCollect
                         /\ v \in {"closing", "closed"} => ctl.worker \in {"none", "done"},
           UNCHANGED <<logVars, readVars, bookmark>>, enable' \in BOOLEAN,
           flushed' \in 0..Len(file), ticks' \in 0..FlushTicks
    PROVE  CollectorInv'
<1> DEFINE next == rd[r]
<1>1. GoodReader(next, entries)
  BY DEF CollectorInv, ReaderTypes
<1>2. rd' = [rd EXCEPT ![r] = next]
  BY DEF CollectorInv, ReaderTypes, readVars
<1>3. /\ UNCHANGED logVars /\ UNCHANGED file /\ stdout' \in Seq(Nat) /\ bookmark' \in 0..IndexMax
  BY DEF CollectorInv, ReaderTypes, ThreadTypes, readVars
<1>4. v \in IF r = "worker" THEN WorkerStates ELSE MainStates
  OBVIOUS
<1>5. next.pc = "idle"
  OBVIOUS
<1> HIDE DEF next
<1> QED BY <1>1, <1>2, <1>3, <1>4, <1>5, TurnStep

(* A thread whose control says it is in no call *)
LEMMA NotReading ==
    ASSUME CollectorInv
    PROVE  /\ ctl["worker"] = ctl.worker /\ ctl["main"] = ctl.main
           /\ ctl.worker \notin {"collecting", "flushing"} => rd["worker"].pc = "idle"
           /\ ctl.main \notin {"dumping", "flushing"} => rd["main"].pc = "idle"
<1>1. ctl["worker"] = ctl.worker /\ ctl["main"] = ctl.main /\ ctl.worker \in WorkerStates /\ ctl.main \in MainStates
  BY ControlFields DEF CollectorInv, ThreadTypes
<1> QED BY <1>1, BothReaders DEF CollectorInv, Closes, Reads, WorkerStates, MainStates

LEMMA SyncStep ==
    ASSUME CollectorInv, NEW r \in Readers, SyncStream(r)
    PROVE  CollectorInv'
<1> DEFINE v == AfterSync(r)
<1>1. /\ ctl[r] = "sync" /\ flushed' = Len(file) /\ ctl' = [ctl EXCEPT ![r] = v]
      /\ UNCHANGED <<logVars, readVars, bookmark, enable, ticks>>
  BY DEF SyncStream
<1>2. flushed' \in 0..Len(file)
  BY <1>1 DEF CollectorInv, ReaderTypes
<1>3. enable' \in BOOLEAN /\ ticks' \in 0..FlushTicks /\ enable' = enable
  BY <1>1 DEF CollectorInv, ThreadTypes
<1>4. rd[r].pc = "idle"
  BY <1>1, NotReading, BothReaders
<1>5. r = "worker" => ctl.worker = "sync" /\ v = "done"
  BY <1>1, NotReading DEF AfterSync
<1>6. r = "main" => v = "disable" /\ enable = EnableCollect
  BY <1>1, NotReading DEF AfterSync, CollectorInv, Closes
<1>7. v \in (IF r = "worker" THEN WorkerStates ELSE MainStates) \ {"dumping", "collecting", "flushing"}
  BY <1>5, <1>6, BothReaders DEF WorkerStates, MainStates
<1> HIDE DEF v
<1> QED BY <1>1, <1>2, <1>3, <1>4, <1>5, <1>6, <1>7, ControlStep

LEMMA WorkerStep ==
    ASSUME CollectorInv, Worker
    PROVE  CollectorInv'
<1>1. CASE WorkerCollect
  BY <1>1, BothReaders, CallCollectStep DEF WorkerCollect
<1>2. CASE WorkerIdle
  <2>1. /\ flushed' = flushed \/ flushed' = Len(file)
        /\ ticks' = 0 \/ (~(ticks + 1 > FlushTicks) /\ ticks' = ticks + 1)
        /\ UNCHANGED <<logVars, readVars, bookmark, enable, ctl>>
    BY <1>2 DEF WorkerIdle
  <2>2. LogInv' /\ ReaderTypes'
    BY <2>1 DEF CollectorInv, LogInv, RingTypes, ProducerTypes, ReaderTypes, logVars, readVars
  <2>3. Closes'
    BY <2>1 DEF CollectorInv, Closes, Reads, readVars
  <2>4. flushed' \in 0..Len(file')
    <3>1. Len(file) \in Nat /\ flushed \in 0..Len(file) /\ file' = file
      BY <2>1 DEF CollectorInv, ReaderTypes, ThreadTypes, readVars
    <3> QED BY <2>1, <3>1
  <2>5. ticks' \in 0..FlushTicks
    <3>1. ticks \in 0..FlushTicks /\ FlushTicks \in Nat
      BY CollectorAssumption DEF CollectorInv, ThreadTypes
    <3> QED BY <2>1, <3>1
  <2> QED BY <2>1, <2>2, <2>3, <2>4, <2>5 DEF CollectorInv, ThreadTypes
<1>3. CASE WorkerStop
  BY <1>3, BothReaders, CallCollectStep DEF WorkerStop
<1>4. CASE Collecting("worker")
  BY <1>4, BothReaders, CollectingStep
<1>5. CASE SyncStream("worker")
  BY <1>5, BothReaders, SyncStep
<1> QED BY <1>1, <1>2, <1>3, <1>4, <1>5 DEF Worker

LEMMA DumpStep ==
    ASSUME CollectorInv, Dump
    PROVE  CollectorInv'
<1> DEFINE r == "main"
           search == [NoRead EXCEPT !.pc = "cmp", !.task = "first", !.mode = "first",
                                    !.at = normalize(currentIndex)]
           first == Return([NoRead EXCEPT !.task = "first"], 0)
<1>1. /\ ctl.main = "run" /\ ctl' = [ctl EXCEPT !["main"] = "dumping"] /\ stdout' = <<>>
      /\ rd' = [rd EXCEPT !["main"] = search] \/ rd' = [rd EXCEPT !["main"] = first]
      /\ UNCHANGED logVars /\ UNCHANGED <<file, bookmark, enable, ticks, flushed>>
  BY DEF Dump
<1>2. NoRead \in Reader
  BY NoReadGood
<1>3. GoodReader(search, entries) /\ search.task = "first"
  <2>1. currentIndex \in Nat
    BY DEF CollectorInv, LogInv, RingTypes
  <2> DEFINE x == normalize(currentIndex)
  <2>2. x \in Nat /\ x + 1 <= Size
    BY <2>1, Normalized, RingSize DEF RingCells
  <2> HIDE DEF x
  <2>3. search \in Reader
    BY <1>2, <2>2, ReaderNames DEF Reader, x
  <2>4. /\ search.pc = "cmp" /\ search.task = "first" /\ search.mode = "first" /\ search.at = x
        /\ search.loop = 0 /\ search.ret = 0 /\ search.hdr = Blank /\ search.buf = <<>>
    BY DEF NoRead, x
  <2> HIDE DEF search
  <2> QED BY <2>2, <2>3, <2>4, RingSize DEF GoodReader
<1>4. GoodReader(first, entries) /\ first.task = "first"
  <2> DEFINE d1 == [NoRead EXCEPT !.task = "first"]
  <2>1. d1 \in Reader /\ d1.task = "first"
    BY <1>2, ReaderNames DEF Reader
  <2> HIDE DEF d1
  <2>2. Kept(d1, Return(d1, 0), entries)
    BY <2>1, ReturnGood
  <2> QED BY <2>1, <2>2 DEF d1, Kept
<1>5. /\ stdout' \in Seq(Nat) /\ enable' \in BOOLEAN /\ flushed' \in 0..Len(file)
      /\ ticks' \in 0..FlushTicks /\ bookmark' \in 0..IndexMax
  BY <1>1 DEF CollectorInv, ThreadTypes
<1>6. enable' = EnableCollect
  BY <1>1 DEF CollectorInv, Closes
<1>7. "dumping" \in IF r = "worker" THEN WorkerStates ELSE MainStates
  BY DEF MainStates
<1> HIDE DEF search, first
<1> QED BY <1>1, <1>3, <1>4, <1>5, <1>6, <1>7, BothReaders, TurnStep

LEMMA DestroyStep ==
    ASSUME CollectorInv, Destroy
    PROVE  CollectorInv'
<1>1. CASE enable
  BY <1>1, BothReaders, CallCollectStep DEF Destroy
<1>2. CASE ~enable
  <2>1. /\ ctl.main = "run" /\ ctl' = [ctl EXCEPT !["main"] = "closing"]
        /\ UNCHANGED <<logVars, readVars, bookmark, enable, ticks, flushed>>
    BY <1>2 DEF Destroy
  <2>2. rd["main"].pc = "idle"
    BY <2>1, NotReading
  <2>3. ctl.worker = "none"
    BY <1>2, <2>1 DEF CollectorInv, Closes
  <2>4. enable' \in BOOLEAN /\ ticks' \in 0..FlushTicks /\ flushed' \in 0..Len(file)
    BY <2>1 DEF CollectorInv, ThreadTypes
  <2>5. "closing" \in MainStates
    BY DEF MainStates
  <2> QED BY <2>1, <2>2, <2>3, <2>4, <2>5, BothReaders, ControlStep
<1> QED BY <1>1, <1>2

LEMMA MainStep ==
    ASSUME CollectorInv, Main
    PROVE  CollectorInv'
<1> DEFINE d == rd["main"]
<1>1. CASE DumpLines
  <2> DEFINE start == normalize(d.ret)
             end == Dec(normalize(currentIndex))
             d1 == [d EXCEPT !.task = "dump"]
             next == dumpRange(d1, start, end)
  <2>1. /\ d.pc = "ret" /\ d.task = "first" /\ rd' = [rd EXCEPT !["main"] = next]
        /\ UNCHANGED <<logVars, file, stdout, reported, collectVars>>
    BY <1>1 DEF DumpLines
  <2>2. d \in Reader /\ currentIndex \in Nat /\ file \in Seq(Nat) /\ stdout \in Seq(Nat)
    BY BothReaders DEF CollectorInv, ReaderTypes, LogInv, RingTypes
  <2>3. start \in Nat /\ end \in Nat
    <3>1. d.ret \in Nat
      BY <2>2, ReaderFields
    <3>2. normalize(d.ret) \in Nat /\ normalize(currentIndex) \in 0..IndexMax
      <4>1. normalize(d.ret) \in 0..Size /\ normalize(currentIndex) \in 0..Size
        BY <2>2, <3>1, Normalized
      <4> QED BY <4>1, RingSize
    <3> QED BY <3>2, DecIsNatural
  <2>4. d1 \in Reader /\ d1.task = "dump"
    BY <2>2, ReaderNames DEF Reader
  <2> HIDE DEF start, end, d1
  <2>5. Kept(d1, next, entries)
    BY <2>3, <2>4, DumpRangeGood
  <2> HIDE DEF next, d
  <2>6. GoodReader(next, entries) /\ next.task = "dump" /\ rd["main"].pc # "idle" /\ rd["main"].task = "first"
    BY <2>1, <2>4, <2>5 DEF Kept, d
  <2>7. /\ UNCHANGED <<logVars, collectVars>>
        /\ file' \in Seq(Nat) /\ stdout' \in Seq(Nat) /\ Len(file) <= Len(file')
    BY <2>1, <2>2
  <2> QED BY <2>1, <2>6, <2>7, BothReaders, QuietStep
<1>2. CASE DumpReturn
  <2>1. /\ d.pc = "ret" /\ d.task = "dump" /\ rd' = [rd EXCEPT !["main"] = NoRead]
        /\ ctl' = [ctl EXCEPT !["main"] = "run"]
        /\ UNCHANGED logVars /\ UNCHANGED <<file, stdout, bookmark, enable, ticks, flushed>>
    BY <1>2 DEF DumpReturn
  <2>2. ctl.main = "dumping"
    BY <2>1, NotReading, BothReaders DEF CollectorInv, Closes, Reads
  <2>3. /\ stdout' \in Seq(Nat) /\ enable' \in BOOLEAN /\ flushed' \in 0..Len(file)
        /\ ticks' \in 0..FlushTicks /\ bookmark' \in 0..IndexMax
    BY <2>1 DEF CollectorInv, ThreadTypes, ReaderTypes
  <2>4. enable' = EnableCollect
    BY <2>1, <2>2 DEF CollectorInv, Closes
  <2>5. GoodReader(NoRead, entries) /\ NoRead.pc = "idle" /\ "run" \in MainStates
    BY NoReadGood DEF NoRead, MainStates
  <2> QED BY <2>1, <2>3, <2>4, <2>5, BothReaders, TurnStep
<1>3. CASE Collecting("main")
  BY <1>3, BothReaders, CollectingStep
<1>4. CASE SyncStream("main")
  BY <1>4, BothReaders, SyncStep
<1>5. CASE Disable
  <2>1. /\ ctl.main = "disable" /\ enable' = FALSE /\ ctl' = [ctl EXCEPT !["main"] = "join"]
        /\ UNCHANGED <<logVars, readVars, bookmark, ticks, flushed>>
    BY <1>5 DEF Disable
  <2>2. rd["main"].pc = "idle"
    BY <2>1, NotReading
  <2>3. enable' \in BOOLEAN /\ ticks' \in 0..FlushTicks /\ flushed' \in 0..Len(file) /\ "join" \in MainStates
    BY <2>1 DEF CollectorInv, ThreadTypes, MainStates
  <2> QED BY <2>1, <2>2, <2>3, BothReaders, ControlStep
<1>6. CASE Join
  <2>1. PICK v \in {"closing", "crashed"} :
          /\ ctl.main = "join" /\ ctl.worker \in {"none", "done"} /\ ctl' = [ctl EXCEPT !["main"] = v]
          /\ UNCHANGED <<logVars, readVars, bookmark, enable, ticks, flushed>>
    BY <1>6 DEF Join
  <2>2. rd["main"].pc = "idle"
    BY <2>1, NotReading
  <2>3. enable' \in BOOLEAN /\ ticks' \in 0..FlushTicks /\ flushed' \in 0..Len(file) /\ v \in MainStates
    BY <2>1 DEF CollectorInv, ThreadTypes, MainStates
  <2> QED BY <2>1, <2>2, <2>3, BothReaders, ControlStep
<1>7. CASE Close
  <2>1. /\ ctl.main = "closing" /\ flushed' = Len(file) /\ ctl' = [ctl EXCEPT !["main"] = "closed"]
        /\ UNCHANGED <<logVars, readVars, bookmark, enable, ticks>>
    BY <1>7 DEF Close
  <2>2. rd["main"].pc = "idle" /\ ctl.worker \in {"none", "done"}
    BY <2>1, NotReading DEF CollectorInv, Closes
  <2>3. flushed' \in 0..Len(file)
    BY <2>1 DEF CollectorInv, ReaderTypes
  <2>4. enable' \in BOOLEAN /\ ticks' \in 0..FlushTicks /\ "closed" \in MainStates
    BY <2>1 DEF CollectorInv, ThreadTypes, MainStates
  <2> QED BY <2>1, <2>2, <2>3, <2>4, BothReaders, ControlStep
<1> QED BY <1>1, <1>2, <1>3, <1>4, <1>5, <1>6, <1>7 DEF Main

-----------------------------------------------------------------------------
LEMMA CollectorInitial == Init => CollectorInv
<1> SUFFICES ASSUME Init PROVE CollectorInv
  OBVIOUS
<1>1. RingTypes
  <2>1. mem = [c \in RingCells |-> Blank] /\ Blank \in Cell /\ Blank.entry = 0
    BY ReaderNames DEF Init, LogInit, RingCells, Blank
  <2>2. currentIndex \in 0..IndexMax /\ lastWritten \in 0..IndexMax /\ head = currentIndex
        /\ globalId = 0 /\ entries = <<>>
    BY LogAssumption DEF Init, LogInit
  <2> QED BY <2>1, <2>2 DEF RingTypes
<1>2. ProducerTypes
  BY IdleThread DEF Init, LogInit, ProducerTypes
<1>3. ReaderTypes
  BY NoReadGood DEF Init, ReadInit, ReaderTypes
<1>4. PICK was \in InitEnable :
        /\ enable = EnableCollect
        /\ IF was = EnableCollect THEN bookmark \in InitBookmark ELSE bookmark = lastWritten
        /\ ctl = [worker |-> IF was = EnableCollect THEN "none" ELSE "loop", main |-> "run"]
  BY DEF Init, setEnable
<1>5. bookmark \in 0..IndexMax
  BY <1>1, <1>4, CollectorAssumption DEF RingTypes
<1>6. ctl \in Control /\ ctl.main = "run" /\ (~EnableCollect => ctl.worker = "none")
  <2>1. ~EnableCollect => was = EnableCollect
    BY CollectorAssumption
  <2> QED BY <1>4, <2>1 DEF Control, WorkerStates, MainStates
<1>7. ThreadTypes
  <2>1. enable \in BOOLEAN
    BY <1>4, CollectorAssumption
  <2>2. flushed \in 0..Len(file) /\ ticks \in 0..FlushTicks
    BY CollectorAssumption DEF Init, ReadInit
  <2> QED BY <1>5, <1>6, <2>1, <2>2 DEF ThreadTypes
<1>8. Closes
  <2>1. \A r \in Readers : rd[r].pc = "idle"
    BY DEF Init, ReadInit, NoRead
  <2> QED BY <1>4, <1>6, <2>1 DEF Closes
<1> QED BY <1>1, <1>2, <1>3, <1>7, <1>8 DEF CollectorInv, LogInv

LEMMA CollectorStep ==
    ASSUME CollectorInv, [Next]_vars
    PROVE  CollectorInv'
<1>1. ASSUME NEW p \in Producers, TraceStep(p) PROVE CollectorInv'
  BY <1>1, ProducerStep DEF TraceStep
<1>2. ASSUME NEW p \in Producers, NEW len \in Lens, Trace(p, len) PROVE CollectorInv'
  BY <1>2, ProducerStep DEF Trace
<1>3. CASE UNCHANGED vars
  <2>1. LogInv' /\ ReaderTypes'
    BY <1>3 DEF CollectorInv, LogInv, RingTypes, ProducerTypes, ReaderTypes, logVars, readVars, vars
  <2>2. ThreadTypes' /\ Closes'
    BY <1>3 DEF CollectorInv, ThreadTypes, Closes, Reads, readVars, collectVars, vars
  <2> QED BY <2>1, <2>2 DEF CollectorInv
<1> QED
  BY <1>1, <1>2, <1>3, WorkerStep, MainStep, DumpStep, DestroyStep DEF Next

(* Every step of the producers, the worker and main keeps the inductive    *)
(* invariant: the variables of traceVargs(), dumpRange(), collect() and    *)
(* ~Log() have the values the code can give them, and a thread reads the   *)
(* ring only where its control says so.                                    *)
THEOREM CollectorInvariant == Spec => []CollectorInv
  BY CollectorInitial, CollectorStep, PTL DEF Spec

(* Whatever producers do meanwhile, and whatever they have overwritten,    *)
(* dumpRange() stays within the ring, a search of getNextHeader() ends     *)
(* after one turn, getLog() never copies beyond the length in the header   *)
(* and collect() only ever stores an index as the bookmark.                *)
THEOREM ReadersInRing == Spec => []TypeOK
<1>1. CollectorInv => TypeOK
  <2> SUFFICES ASSUME CollectorInv PROVE TypeOK
    OBVIOUS
  <2>1. /\ bookmark \in 0..IndexMax /\ lastWritten \in 0..IndexMax
        /\ flushed \in 0..Len(file) /\ ticks \in 0..FlushTicks
    BY DEF CollectorInv, ThreadTypes, LogInv, RingTypes
  <2>2. ASSUME NEW r \in Readers
        PROVE  /\ rd[r].i \in 0..Size /\ rd[r].end \in 0..Size
               /\ rd[r].loop \in 0..Size /\ rd[r].tries \in 0..Spins
               /\ rd[r].at \in 0..(2 * Size)
               /\ rd[r].hdr # Blank => Len(rd[r].buf) < LenOf(rd[r].hdr)
    <3> DEFINE d == rd[r]
    <3>1. d \in Reader /\ GoodReader(d, entries)
      BY DEF CollectorInv, ReaderTypes
    <3> HIDE DEF d
    <3>2. d.i \in 0..Size /\ d.end \in 0..Size /\ d.loop \in 0..Size /\ d.tries \in 0..Spins /\ d.at \in Nat
      BY <3>1, ReaderFields
    <3>3. d.at + 1 <= Size + d.loop
      BY <3>1 DEF GoodReader
    <3>4. d.at \in 0..(2 * Size)
      BY <3>2, <3>3, RingSize
    <3>5. d.hdr # Blank => Len(d.buf) < LenOf(d.hdr)
      BY <3>1 DEF GoodReader, LenOf
    <3> QED BY <3>2, <3>4, <3>5 DEF d
  <2> QED BY <2>1, <2>2 DEF TypeOK
<1> QED BY <1>1, CollectorInvariant, PTL

(* ~Log() closes the file only when nobody can write to it any more: its   *)
(* own collect() is over and the worker has ended, or there never was one. *)
THEOREM ClosedFileUntouched == Spec => NoWriteAfterClose
<1>1. ASSUME CollectorInv, [Next]_vars
      PROVE  [ctl.main = "closed" => UNCHANGED <<file, reported>>]_vars
  <2> SUFFICES ASSUME ctl.main = "closed", Next PROVE UNCHANGED <<file, reported>>
    BY <1>1
  <2>1. rd["worker"].pc = "idle" /\ rd["main"].pc = "idle"
    BY <1>1, NotReading DEF CollectorInv, Closes
  <2>2. ASSUME NEW r \in Readers, Collecting(r) PROVE UNCHANGED <<file, reported>>
    <3>1. rd[r].pc = "idle"
      BY <2>1, BothReaders
    <3>2. ~Reading(r)
      BY <3>1 DEF Reading, ReadHeader, ReadBody, ComparePattern
    <3> QED BY <2>2, <3>2 DEF Collecting, CollectRead, CollectEmpty, CollectSplit, CollectBottom,
                              CollectReturn, SetBookmark
  <2>3. CASE \E p \in Producers : TraceStep(p) \/ \E len \in Lens : Trace(p, len)
    BY <2>3 DEF TraceStep, Trace, readVars
  <2>4. CASE Worker
    BY <2>2, <2>4, BothReaders DEF Worker, WorkerCollect, WorkerIdle, WorkerStop, CallCollect, SyncStream, readVars
  <2>5. CASE Main
    BY <2>2, <2>5, BothReaders DEF Main, DumpLines, DumpReturn, SyncStream, Disable, Join, Close, readVars
  <2>6. CASE Dump \/ Destroy
    BY <2>6 DEF Dump, Destroy, CallCollect, readVars
  <2> QED BY <2>3, <2>4, <2>5, <2>6 DEF Next
<1> QED BY <1>1, CollectorInvariant, PTL DEF Spec, NoWriteAfterClose
=============================================================================
