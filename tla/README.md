# Verification of memlog (asynclog)

TLA+ models of the library in `src/src/lib`, the TLC runs that check them on
small instances, and TLAPS proofs, for every value of the constants, about the
allocation of regions in the ring, the copies, the atomic counters, the ids, the
streams, and about producers, collector and readers together. Run a model with
`tlc -config <file>.cfg <MC module>`, a proof with `tlapm <module>.tla` (the
modules whose name ends in `Proofs`, and `ModularArithmetic`); `PROJECT.json`
lists runs, mutants, the map from definitions to source lines, findings, hazards
and theorems.

## 1. Inventory

| Part | State | Operations | Talks to |
|---|---|---|---|
| `RingBuffer` (ringbuffer.cpp/.h) | `buffer_`, `size_`, 32-bit `currentIndex_`, `stats_.indexWrapAroundCount` | `allocate`, `get*`, `set`, `compare`, `getString`, `hasWrappedAround` | called by every logging thread and by the readers, without locks |
| `Log`, producing (log.cpp) | `globalId_`, `bufLastWrittenIndex_` | `traceVargs`, `allocateId`, `setHeader`, `setLastWrittenIndex` | writes an entry (header, arguments, trailer) into a claimed region |
| `Log`, reading | debug counters | `getLog`, `getNextHeader`, `printAtIndex`, `dumpRange`, `firstLine`, `dump` | reads the ring while producers write it |
| `Log::Collect` (collector.cpp) | `collectorBookmark_`, `enable_`, `lastFlushCounter_` | `setEnable`, worker thread, `shallCollect`, `collect`, `idle`, `flush` | moves entries from bookmark to last written index to the trace file |
| `StringFormat` | none | `encodeToArgsBuffer`, `decodeFromArgsBuffer` | encoder runs in `traceVargs`, decoder in `printAtIndex` |
| `Stream`, `StreamBuffered` (stream.cpp/.h) | `FILE *`, a buffer and its fill, error counters | `create`, `write`, `flush`, destructor | the trace file, stdout; `Log` creates unbuffered ones |
| `Atomic32`, `Atomic64` (atomic.cpp/.h) | one word, two words | `addAndGet` | no caller in the library |
| `cmpHeader` (log.cpp) | none | | no caller in the library |

What is hard here: no operation takes a lock. Only the fetch-and-add (and the
compare-and-swap that folds the index back) are atomic; ids, the last written
index, the wrap count and the bookmark are plain fields written by several
threads. A reader validates only the header and the trailer of what it copies.
Indices count bytes modulo 2^32 and cells modulo the size of the ring, and the
two are mixed. Several fields are read before anything has initialised them.

What makes the parts correct:
- allocation: two threads never write the same byte unless one is a whole turn
  of the ring behind; the index never overflows; a call that does not get on is
  overtaken by others that do;
- copies: read and write the cells modulo the size, whichever side of the end
  of the ring they lie;
- format: the decoder reads exactly the items the encoder stored, byte for byte,
  and ends where the trailer starts;
- counters: an addition happens once and atomically; no carry is lost;
- ids: unique and never a marker pattern once threads no longer race; their
  order is the order of the entries;
- streams: bytes in order, once; a loss is counted by the next call that looks;
- trace file: a queue of the entries; losses only where the design admits them,
  and never silent; everything reaches the disk; the worker comes to rest;
- shutdown: what was logged is on disk when the file is closed, nobody writes
  afterwards, the destructor returns;
- `dump()`: prints what was logged before the call and is still in the ring.

`PROJECT.json` lists the hazards at their lines.

## 2. Modules

| Module | Models | Kind |
|---|---|---|
| `RingAlloc` | what `allocate()` promises: one atomic reservation | abstract specification |
| `RingBuffer` | `allocate()`, one step per access to a shared field, both values of `threadSafe_` | component, extends `RingMemory`, proved |
| `ModularArithmetic` | | lemmas about `%` |
| `RingBufferProofs`, `AtomicProofs`, `EntryIdProofs`, `ComponentProofs` | | proofs about one component each (`ComponentProofs`: the copies and the streams) |
| `CollectorProofs` | | proofs about `Collector` in general |
| `QueueProofs` | | proofs about `Collector` before the ring wraps around |
| `TurnProofs` | | proofs about `Collector` for any number of turns of the ring |
| `RingMemory` | `get`, `getByte`, `set`, `compare`, `getString` | operators, copies proved |
| `StringFormat` | the two parsers of a format, the bytes of the arguments | operators |
| `AtomicCounter` | what `addAndGet()` promises: one atomic addition | abstract specification |
| `Atomic` | `Atomic32` and `Atomic64`, one step per access | component, proved |
| `EntryId` | `allocateId()`, one step per access, and `cmpHeader()` | component, proved |
| `Stream` | `Stream`, `StreamBuffered`, the closing of the file, over a FILE that may fail | component, proved |
| `Log` | `traceVargs` as several threads run it | component |
| `LogReader` | `getLog`, `getNextHeader`, `printAtIndex`, `dumpRange` | component, extends `Log` |
| `LogQueue` | what the trace file promises | abstract specification |
| `Collector` | `Collect`, `dump()`, `~Log()`, composed with producers and readers | composition, extends `LogReader`, proved in part |
| `MCRingBuffer`, `MCCollector` | instances | for TLC |
| `MCRingMemory`, `MCStringFormat`, `MCComponents` | reference definitions; the parts that share no state, side by side | for TLC |

Definitions with a suffix (`CompareAndSwap_plainStore`) are mutants: plausible
bugs that show that a property can fail. No specification uses them.

### RingBuffer
`pc[t]` walks through `allocate()`: `check` (line 46), `count` (49), `loop`
(50), `load` (51), `cas` (53), `stats` (55), `add` (65), `claimed` (between the
return and the end of `set()` in `traceVargs`). `currentIndex` is an integer
modulo `IndexMax + 1`. The constructor initialises neither the index nor the
wrap count, so `Init` starts from any index and from the counts in `Garbage`.
`head` and `start` are history variables: the same positions without wrapping.

### Log, LogReader, Collector
The unit is a cell instead of a byte: an entry of length n is one header cell,
n - 2 argument cells and one trailer cell. A cell holds the number of its entry
and its part; the patterns, the id and the length that the code would read from
it are looked up in the history of entries. The copy of `set()` is one step per
cell in any order (a `memcpy` that races with its reader promises no order),
and the reader copies cell by cell, so an entry is read while it is written.
The claim of `allocate()` is one step here, which is what `RingAlloc` and the
refinement proof justify. At the rollover of the index, folding it back, storing
the wrap count and claiming are three steps (`FoldIndex`, `StoreWrapCount`,
`Allocate`), because `firstLine()` and the collector look at the index and the
wrap count in between; `head`, `lastHead` and `pos` are the unwrapped positions.

`prod[p]` holds the locals of a thread in `traceVargs`; the store of the last
written index is two steps, the read of the current index and the store.
`allocateId()` is two steps, so ids may repeat. `rd[r]` holds the locals of a
reader; `mode` says which function called `getLog()`, `task` for which range
`dumpRange()` was called. `ctl` says what the worker and the main thread are
doing; its worker is `none` when the constructor found an `enable_` that happened
to be true, created no thread and left a garbage bookmark (`setEnable`), and the
join in `~Log()` then may return or crash. A `pthread_create` that fails throws
out of the constructor (collector.cpp:48-50): there is no `Log` then, and no
behaviour of the model. `file` and `stdout` are the lines written (an entry's number, or `Torn`
for cells that are not one entry), `flushed` how many of the file's lines
`fflush` has passed on, `reported` whether a "Logs are discarded" message was
written. The stream's `write` and `flush` are steps on these variables; stdio
locks each `fwrite`, so lines of two threads do not mix.

Abstractions to know: a header is one cell, so a half-copied header (which
`getLog()` catches by reading it twice) is not distinguished, and the length
test of `getLog()` always holds; the next index comes from the header's length,
which equals what the decoder consumes exactly when the formats agree
(`StringFormat`); several reads of the same field within one test
(`shallCollect`, the three-way test of `collect`) are one step.

### StringFormat
A format is a sequence of character classes. Encoder and decoder are recursive
functions over positions, as the loops of the code; each yields the kinds of
items it stores or reads, the decoder also the `tempFormat` it hands to
`sprintf`. `memSet` gives the bytes of an argument (which argument, which of its
bytes), `readArguments` follows the running index through them, with the limit
on strings and the early return. The reference, `Arguments` in `MCStringFormat`,
is printf's grammar. It takes a long for `%ld` and `%lx`; `Kept` is the 32 bits
the code stores of it (stringformat.cpp:137).

### Atomic
`apc[t]` walks through `addAndGet()`: `load` (atomic.cpp:59), `cas` (61) and
`got` for `Atomic32`, `low` (33), `high` (35) and `got64` for `Atomic64`, whose
argument loses its high word on the way (48). `total` is the sum the two words
should hold.

### EntryId
Every mention of `globalId_` in `allocateId()` is a load or the value still in a
register, as the build may have it, and an increment is a load and a later
store. `issued` is the history of ids since calls last overlapped.

### Stream
Bytes are numbered in the order they are written. The FILE is external: `fwrite`
accepts all bytes or, with `ferror` set from then on, some of them; `fflush`
moves all or, with `ferror` set, some of them, and then stdio may keep the others
for later or drop them, which C leaves open; it may write back at any time, and
fail in the same ways. `fileHandle` may be null, since
`createTracefile` does not look at what `fopen` returned. `bufferSize` is one of
`BufferSizes`, since no constructor sets it, and `Usable` is what
`new char(LOG_STREAM_BUFFER_SIZE)` gives. An uncaught exception, a write through
a null handle or beyond the memory ends the behaviour (`dead`).

## 3. Runs

Passing runs:

| Run | Instance | Shows |
|---|---|---|
| `components` | the parts that share no state, one at a time: `part` names the one that runs | see below |
| `file_queue` | 1 producer, 4 entries, ring not full | `ImplementsLogQueue`, `EventuallyOnDisk`, `CatchesUp` |
| `file_wrap` | 1 producer, 4 entries of 2 or 3 cells in a ring of 7, across the rollover of the index, never lapping the bookmark, with a worker or (garbage `enable_`) without, then `~Log()` | `TypeOK`, `WholeLines`, `OnlyStraddlersLost`, `LinesInOrder`, `ReadersReturnIfLogged`; `DrainedAtClose`, `NoWriteAfterClose`, `CloseReturns` |
| `threads` | 2 producers, 3 entries, no wrap | `LossReported` |
| `dump` | 1 producer, 5 entries in a ring of 7, from index 0 or shortly before the rollover, any first wrap count, collector off, two dumps, then `~Log()` | `DumpComplete`, `DumpFromOldest` |

In `components`:

| Part | Instance | Shows |
|---|---|---|
| ring | 2 threads, or taking turns with `threadSafe = false`, size 5, index of 4 bits, margin 2.5 entries as in the code, every initial index | `IndInv`, `ClaimsDisjoint`, `NoSilentOverflow`, `WrapRemembered`, `ImplementsRingAlloc`, `LockFree` |
| copies | any sequence of `set()` calls, all indices of two turns, all lengths | `CopiesGoRound`, `ScansGoRound` |
| formats | all short formats over 13 classes, some behind a string or a flag and a width; strings of several lengths | `ArgumentsRoundTrip`, `ValuesRoundTrip`, `SprintfAgrees` |
| atomic | 2 threads, words of 2 bits, arguments up to two words | `ImplementsCounter32`, `ImplementsCounter64Low`, `CarriesAccounted` |
| ids | 2 threads, ids of 3 bits from every first value | `SerialIds` |
| stream | both kinds, every failure of `fwrite`, `fflush` and write-backs, bytes kept or dropped, a null handle, good and bad buffer sizes | `DamageCounted`, `PlainNeverRepeats`, `BufferInBounds`, `CompleteAtEnd` |

Violations, each a disagreement between the code and what the repository says
of it (`findings` quotes the line):

| Run | What TLC finds |
|---|---|
| `ring_margin` | three threads past the check overflow the index; two get overlapping bytes |
| `dump_newest` | `dump()` of a filled ring leaves out the newest entries; at an exact multiple of the size `end - 1` wraps |
| `dump_threads` | a region claimed and not yet copied by one thread ends the dump before the complete entry of another |
| `ids_order` | the ids wrap around between two entries; `cmpHeader()` answers 0 for different ids, or a positive number both ways round |
| `file_realign` | an entry across the end of the ring is skipped; if it is the last one, the bookmark does not move and the worker never rests (nor flushes) |
| `threads_lost` | a slow thread sets the last written index back; a complete entry is not on disk after `~Log()` |
| `file_full` | entries that fill the ring exactly before the worker looks: `collect()` takes the ring for empty and the file is closed without them |

The properties of the passing runs carry the conditions the code needs, each
found by TLC when it was left out:
- *no entry ends exactly at the end of the ring* (`AvoidsBoundary`). Otherwise
  the second range of `collect()` (collector.cpp:94) is the whole ring: entries
  are printed again, and an old entry whose arguments the producer is just
  overwriting passes `getLog()`, which validates only header and trailer.
- *straddling entries excepted* (`OnlyStraddlersLost`, `DrainedAtClose`). Such
  an entry belongs to neither of the two ranges of `collect()`.
- *until the destructor runs* (`LinesInOrder`). It collects beside the worker,
  and both may print the same entries.
- *producers do not lap* (`MaxLag`). Two producers that lap each other may leave
  no valid entry in the ring; `getNextHeader()` then answers 0, which
  `dumpRange()` takes for an index, and goes round for ever.
- *at most one flag in a conversion* (`ArgumentsRoundTrip`). For `"%+-d"` the
  encoder stores four bytes (stringformat.cpp:153), the decoder reads none
  (stringformat.cpp:228) and leaves an index inside the entry.
- *the last written index starts at 0* (`InitLast`). No constructor sets it; if
  it holds the end of the first entry, that entry is not written.
- *something was logged* (`ReadersReturnIfLogged`, `CloseReturns`). In
  an empty ring, with the garbage bookmark of a garbage `enable_`,
  `getNextHeader()` answers 0 and `dumpRange()` starts again at 0, for ever,
  inside `~Log()` (log.cpp:471), although log.cpp:474 says "bail out".
- *a worker ran* (`DrainedAtClose`). With a garbage `enable_` there is none, and
  the garbage bookmark may lie behind what was logged.
- *the ring and the wrap count say the same* (`DumpComplete`). A garbage wrap
  count makes `dump()` of a fresh log search from the current index, where it
  finds a later entry first. Run `dump` also has *one producer*; `dump_threads`
  is the same property with two. It also leaves out *a garbage index inside the
  first turn*: no constructor sets `currentIndex_` (ringbuffer.cpp:25), the first
  entry then lies there, and `dump()`, which starts at 0, prints nothing.
- *no `%ld` or `%lx`* (`SprintfAgrees`). The decoder passes the `uint32_t` it has
  where `sprintf` takes a long (stringformat.cpp:374-376), so what is printed
  depends on the calling convention. Nothing in the repository uses or promises
  these conversions; that both sides keep the same 32 bits is checked.
- *a later call that looks* (`DamageCounted`). `Stream::flush()` ignores the
  result of `fflush`, so what a failed flush dropped is counted by the next
  `write()`, which sees the error flag of the FILE, and never if there is none.
- *`enable_` is false when the collector is not wanted* (`CollectorAssumption`).
  Otherwise `setEnable(false)` in the constructor collects and joins before the
  `Log` is complete.
- *a `bufferSize` the memory has* (`BufferInBounds`), and *no error counted yet*:
  after one `StreamBuffered` writes the same bytes again and never empties.

### Bounds
`MaxBytes`, `MaxEntries`, `MaxDumps`, `MaxMore`, `MaxAdds`, `MaxIds` and
`MaxCalls` bound how long a run goes on. The ring takes 5 to 13 cells: entries
of 2 and 3 cells end before, at and beyond the end of a ring of 7, four of them
pass it, and the bookmark can be in front of and behind the last written index.
`MaxLag` keeps a producer from lapping the collector in the runs about a
collector that keeps up (`Size - 1`); elsewhere it is out of reach. `Spins` is 2
instead of 10, `FlushTicks` 0 or 1 instead of 100. `IndexMax` in the collector
runs is 255 where the rollover is out of reach and 18, with a margin of 8, where
it happens within the four or five entries of the run; neither is a multiple of
the size minus one, as `UINT32_MAX` is not for the default size. The ring
allocation has index 0..15, size 5 and margin 5 for entries of at most 2: the
code's ratio of margin to longest entry (10240 : 4096). `MaxBytes` lets
the index roll over from every start. It hides no counterexample of `LockFree`,
in which the other threads are handed finitely many regions.

Words of two bits and two threads make `Atomic64` carry several times, with two
carries pending at once. Ids of three bits let both patterns, the half of the
range and the wrap-around occur within the calls of a run. Passing runs of the
collector start with a last written index of 0, what a fresh page of memory
holds; bookmark, `enable_`, index and wrap count start from garbage as the
cfgs say.

`MCComponents` puts the parts of `components` side by side in one state; the
parts that do not run stay in an initial state, so their states add up and do
not multiply.

### Fairness
Weak fairness of each thread: of a producer inside `traceVargs`, of the worker,
of the main thread inside a call. A program is never obliged to log, dump or
destroy. `LockFree` asks no more of a schedule: a thread in its loop may be
overtaken for ever, a fold of the index after each of its loads, but only by
threads that are handed regions: the loop is lock-free, not wait-free. No step
in the code waits except `pthread_join`; the scheduler of the operating system
runs every thread that is ready, which is all that is assumed.
In `MaxLag` runs a producer that would lap the collector waits; that is a bound,
the code does not wait. Symmetry of threads is used only where no liveness is
checked. Deadlock checking is off where the program may stop.

## 4. Proofs

`RingBufferProofs`, for every set of threads, size, width, margin and lengths,
under `RingBufferAssumption`, `SizeAssumption` and `MarginCovers` (threads times longest entry is
at most the margin; `ring_margin` shows that this is needed, and the code
itself meets it for two threads only):

- `AllocateInvariant`: `IndInv` is an invariant;
- `NeverOverflows`: `NoSilentOverflow`;
- `RegionsDisjoint`: `ClaimsDisjoint`;
- `AllocateRefines`: `ImplementsRingAlloc`;
- `WrapsRemembered`: `WrapRemembered`, as long as the wrap count, which starts
  with garbage and has the width of the index, has not reached its own maximum.

Disjointness is not inductive by itself: it has to be known that ring positions
follow the unwrapped positions. `IndInv` adds to the types: `IndexFollowsHead`
(the index differs from the bytes handed out by whole turns), which folding and
adding preserve only while nothing overflows; `Headroom` (an index with k
threads past the check still has room for all k additions), which the check
establishes with the margin and every addition preserves because it removes one
thread from the k; `ClaimFollowsHead` and `ClaimsInOrder` (regions lie one after
the other). Then regions less than a turn apart are different cells by
`DifferentCells` of `ModularArithmetic`. TLC checks `IndInv` in `components`.

`AtomicProofs`, for every set of threads, width and arguments, under
`AtomicAssumption`:

- `Counter32Refines`: `ImplementsCounter32`. The compare-and-swap that succeeds
  is the addition; the mapped call is pending from the call to that step and done
  until the return; load, failed compare-and-swap and all of `Atomic64` stutter.
- `CarriesInvariant`: `CarriesAccounted`, which is inductive together with the
  types: the carry test is exactly the overflow of the low word (`LowCarries`),
  an increment of the high word takes one pending carry, and its own overflow is
  a multiple of the 64-bit width (`HighCarries`).

- `Counter64LowRefines`: `ImplementsCounter64Low`. The fetch-and-add of the low
  word is the addition of what is left of the argument; the call returns the low
  word it got although the high word is still to come (`LowKept`).

`ComponentProofs`, for every size of the ring and every set of bytes:

- `CopiesExact`: `CopiesGoRound`. Whether `get()` and `set()` copy in one part
  or in two, cell k of the caller is the cell of the ring at index + k modulo
  the size (`CellSplit`), and each cell is met once (`CellOnce`).

`EntryIdProofs`, for every width, set of threads and first value, under
`EntryIdAssumption`; it says that no pattern follows the other directly, which
holds of the two constants in log.h:35-36 and is needed, since `allocateId()`
skips one value only:

- `IdsSerial`: `SerialIds`. The inductive invariant says of a call that meets no
  other what it has loaded, stored and still has to do (`Progress`), and that
  the ids issued since the last overlap rise, or have wrapped around once and
  stay below the first (`Rising`, `Follows`).

`ComponentProofs`, for every buffer size, every length and every failure of the
FILE, with bytes kept or dropped, under `StreamAssumption`:
`StreamDamageCounted`, `StreamNeverRepeats`, `StreamInBounds` and
`StreamCompleteAtEnd` prove the four properties of `Stream`. `DamageCounted`, an
action property, rests on `DamageMarked`: a live stream whose FILE has no error
flag has every byte in its place, so a call that tests the flag counts or has
nothing to count. `PlainNeverRepeats` needs that no byte on its way is later than the
last one given (`Ascending`); the others need which handle belongs to which
stage of the stream's life (`Stages`).

`CollectorProofs`, for every ring, any number of producers, lapping or not, with
and without rollover, for every garbage first value, destroyed or not:

- `CollectorInvariant`: the inductive invariant `CollectorInv`;
- `ReadersInRing`: `TypeOK`. A search has gone no further from its start than
  the number of its turns; a header is kept only while its entry is copied, and
  its entry exists; what `dumpRange()` returns to `collect()` lies in the ring
  (`GoodReader`).
- `ClosedFileUntouched`: `NoWriteAfterClose`. A thread reads the ring only where
  its control says so; a collector that is off has no worker; `~Log()` passes
  the join only when the worker is done or never was (`Closes`).

`QueueProofs`, for every ring, length of entries, width and number of calls, for
one thread that logs (`OneProducer`) and fields that start at 0, or an index
beyond the first turn (`IndexAtStart`, `LastAtStart`; section 3 says why a
garbage start is excluded):

- `DumpsComplete`: `DumpComplete`, which itself speaks of the first turn only;
- `TraceFileInOrder`: `LinesInOrder`, as long as the ring is not full
  (`[](head < Size)`);
- `NothingLost`: `OnlyStraddlersLost`, likewise, of a Log that is not destroyed;
- `TraceFileIsQueue`: `ImplementsLogQueue`, likewise. `StoreLast` is Publish, the
  last cell that `getLog()` copies is Deliver, all other steps stutter.

The condition on the ring is the one of run `file_queue`; beyond it the
properties need the exceptions of section 3 (`TurnProofs`), and the queue is not
implemented.
The argument: entries lie one behind the other from 0 on and the index is where
the last one ends (`Laid`, `Indexed`); all but the one being copied are whole in
the ring, cell by cell (`Written`), so a reader at the start of a whole entry
reads it and nothing else and neither the retry nor the search of `dumpRange()`
is ever taken (`ReadsEntry`); the last written index is where the last whole
entry ends (`LastInv`), so no range that `collect()` takes ends within an entry;
the file holds the entries 1 to f and bookmark or position is where entry f ends
(`FileInv`, `WorkerAt`). For `dump()` the goal is on stdout, or what is there
is a prefix of the goal and the reader is behind it with a range that covers
the rest (`DumpInv`, `Underway`). Each conjunct was checked with TLC, on the
instances of `file_queue` (with a dump and `~Log()` added) and `dump`, before it
was proved.

`TurnProofs`, for every ring, width and number of calls, any number of turns of
the ring and of rollovers of the index, with and without `~Log()`, for any
garbage bookmark and `enable_`. The conditions are those of run `file_wrap`
(`OneBehind`): one thread logs (`OneProducer`), no entry is longer than the margin
of the rollover (`MarginCovers`; 4096 and 10240 in the code), the producer stays
behind the bookmark (`NeverLaps`: `MaxLag` is below the size), and the last
written index starts in the cell the current index starts in (`EmptyAtStart`):

- `LinesAreWhole`: `WholeLines`;
- `TurnsInOrder`: `LinesInOrder`;
- `StraddlersOnly`: `OnlyStraddlersLost`, as long as no entry ends exactly at the
  end of the ring (`AvoidsBoundary`, which the first two contain themselves);
- `ClosedAndDrained`: `DrainedAtClose`, likewise.

None of them is inductive, since `getLog()` trusts what it finds in the ring. The
invariant `TurnInv` (`TurnInvariant`) says what that can be and where the readers
are. *The ring*, `TurnRing`: entries follow each other in an endless ring
(`Chained`, `Edge`) into which the index is folded (`Folded`); every cell of the
last turn holds its entry unless it is still to be copied (`HeldBy`), and a cell
holds something older only if its successor is still to be copied (`OwnedBy`). So
what lies between the bookmark and the head is either whole, or of the one entry
being copied. `TurnLast`: the last written index is where the last complete entry
ends. *The worker*, `TurnFile`: while it has the file for itself, all of the
entries 1 to f that do not straddle are in the file, in order, any loss is
reported, and bookmark or position is within the stretch behind entry f (`Marked`,
`AtWork`); a position is at the start of an entry it will show (`Showing`), at a
straddling one that it cannot (`Stumbling`), or on the search for the next header
(`Searching`), and the range of `collect()` ends where an entry ends or at the end
of the ring (`Collects`). That the guard of the producer keeps the head within a
turn of the bookmark, although it compares folded indices, is `LagIs`. *`~Log()`*:
its `collect()` starts from a bookmark the worker may be about to move
(`MainAtWork`); once it is through, everything is in the file (`WholeRead`,
`Flushed`), the worker's last `collect()` adds only whole entries to it, and the
file is flushed when it is closed (`Quiet`, `AtClose`). TLC checked `TurnInv` on
the instance of `file_wrap` before it was proved.

The last theorem of `TurnProofs` is about `dump()`:

- `OldestFirst`: `DumpFromOldest`. It needs less (`OneShort`): `OneProducer`,
  `MarginCovers` and entries shorter than the ring (`ShortEntries`, as section 5
  assumes); the producer may lap the bookmark, and index, wrap count, last written
  index and bookmark start with anything.

The property is of the state after a dump; the invariant `OldestInv` follows the
dump. On top of `TurnRing` it says that the index has been folded back only if
the wrap count shows it (`Unfolded`), so a dump that starts at 0 does so in the
first turn; and that nobody copies while the goal is all entries (`NobodyCopies`:
a complete log has no entry under way, and a region claimed meanwhile ends the
case). The search of `firstLine()` is at the head or beyond it by `loop` cells,
and no header that is left lies between (`Seeking`), so the first one it finds is
the oldest (`SoughtHeader`, `OldestIs`, `Found`); from there the lines are
consecutive and the position is where the next entry starts, in a range that does
not go beyond the head (`Listing`), or the dump started where no entry does, then
it searches, reports and returns without a line (`Lost`). TLC checked `OldestInv`
on the instance of `dump`, with an index that starts in the middle of the ring
added, before it was proved.

The assumptions on constants (`LogAssumption`, `ReaderAssumption`,
`CollectorAssumption` and those above) are evaluated by TLC in the runs.

Only model-checked:
- liveness (`LockFree`, `EventuallyOnDisk`, `CatchesUp`,
  `ReadersReturnIfLogged`, `CloseReturns`): the prover does not reach fairness;
- `ScansGoRound` and the three properties of the formats: what the recursive
  functions of `RingMemory` and `StringFormat` compute takes an induction over
  data, which the prover cannot instantiate;
- `LossReported`: several threads that finish in any order need an invariant of
  their own;
- `OnlyStraddlersLost` and `DrainedAtClose` where an entry ends exactly at the end
  of the ring, and `DrainedAtClose` from a last written index elsewhere.

## 5. Not modelled

- `CompressedBuffered`: nothing creates it, and it has no operation.
- `Stream::getStdoutStream()`: its unsynchronised creation on first use is a
  data race on a `shared_ptr`, of which nothing can be said afterwards.
- `dumpState`, `printState`, `getTime`, the debug counters and the text of
  `detail = true`: formatting only. `freopen` of stdout and stderr.
- The text `sprintf` produces, and the 32 characters of `tempFormat`, which a
  longer conversion overruns.
- An entry longer than the ring is excluded by assumption: the code would write
  beyond the buffer.
- A header copied in part: it is one cell in `Log`; `getLog()` reads it twice.
- The memory order of the machine: the copy of an entry is in any order, but a
  store is seen by everyone at once.
- The test program.

## 6. Plan

1. Done: `RingAlloc`, `RingBuffer`, proofs; `RingMemory`; `StringFormat`;
   `Log` with the rollover, `LogReader`, `Collector` with garbage first values;
   `Atomic` and its proofs; `EntryId`; `Stream`.
   Proofs of `WrapRemembered`, `ImplementsCounter64Low`, the ids, the streams,
   the copies, the types of `Collector`, `NoWriteAfterClose`, of the queue and of
   `DumpComplete` before the ring wraps around, and of the trace file,
   `~Log()` and `DumpFromOldest` for any number of turns.
2. Proofs: `LossReported` for several threads.
3. `Log` with headers of two cells (half-copied headers).
