----------------------------- MODULE Collector ------------------------------
(***************************************************************************)
(* Log::Collect (src/src/lib/collector.cpp), Log::dump() and the           *)
(* destructor of Log (src/src/lib/log.cpp), composed with the producers    *)
(* and the reader: the worker thread that moves the ring to the trace file *)
(* behind the producers, and a main thread that may dump the ring and, at  *)
(* the end, stops the worker and closes the file.                          *)
(***************************************************************************)
EXTENDS LogReader

CONSTANTS EnableCollect,  \* enableCollect of Log's constructor
          ThresholdPct,   \* bufferThresholdPct_, DEFAULT_BUFFER_THRESHOLD_PCT
          FlushTicks,     \* FLUSH_IN_SEC * 1000000 / SLEEP_USEC
          InitEnable,     \* what the never initialised enable_ may hold
          InitBookmark,   \* what the never initialised collectorBookmark_ may hold
          MaxLag,         \* bound: cells a producer may be ahead of the bookmark
          MaxDumps,       \* bound: calls of dump()
          Destroys        \* does main destroy the Log

ASSUME CollectorAssumption ==
    /\ EnableCollect \in BOOLEAN /\ Destroys \in BOOLEAN
    /\ ThresholdPct \in Nat /\ FlushTicks \in Nat /\ MaxLag \in Nat /\ MaxDumps \in Nat
    /\ Readers = {"worker", "main"}
    /\ InitEnable \subseteq BOOLEAN
    /\ EnableCollect \/ InitEnable = {FALSE}
    /\ InitBookmark \subseteq 0..IndexMax

VARIABLES bookmark,  \* collectorBookmark_
          enable,    \* enable_
          ticks,     \* lastFlushCounter_
          ctl,       \* what each of the two threads is doing
          flushed,   \* lines of file that fflush has handed to the system
          dumps,     \* history: calls of dump() so far
          goal       \* history: what dump() had to show when it was called

collectVars == <<bookmark, enable, ticks, ctl, flushed, dumps, goal>>
vars == <<logVars, readVars, collectVars>>

U32(x) == x % (IndexMax + 1)

-----------------------------------------------------------------------------
(* setEnable() as the constructor of Collect calls it: an enable_ that     *)
(* happens to hold the argument is left alone, with whatever bookmark and  *)
(* without a thread; otherwise resetBookmark() and pthread_create(). Where *)
(* that fails the constructor throws, and there is no Log to speak of.     *)
setEnable ==
    \E was \in InitEnable :
        /\ enable = EnableCollect
        /\ IF was = EnableCollect THEN bookmark \in InitBookmark ELSE bookmark = lastWritten
        /\ ctl = [worker |-> IF was = EnableCollect THEN "none" ELSE "loop", main |-> "run"]

Init ==
    /\ LogInit
    /\ ReadInit
    /\ setEnable
    /\ ticks = 0
    /\ flushed = 0
    /\ dumps = 0
    /\ goal = {}

-----------------------------------------------------------------------------
(* The producers. A Log that is being destroyed is no longer called.        *)
Trace(p, len) ==
    /\ ctl.main \in {"run", "dumping"}
    /\ ReadId(p, len)
    /\ UNCHANGED <<readVars, collectVars>>

(* Cells between the bookmark and the end of what has been claimed *)
Lag == (currentIndex - bookmark) % Size

TraceStep(p) ==
    /\ Tracing(p)
    /\ prod[p].pc \in {"alloc", "add"} => Lag + prod[p].len <= MaxLag
    /\ UNCHANGED <<readVars, collectVars>>

-----------------------------------------------------------------------------
(* collect() *)

(* bookmarkEnd = log_->getLastWrittenIndex() *)
CollectRead(r) ==
    /\ rd[r].pc = "collect"
    /\ rd' = [rd EXCEPT ![r] = [NoRead EXCEPT !.pc = "split", !.rangeEnd = lastWritten]]
    /\ UNCHANGED <<logVars, file, stdout, reported, collectVars>>

(* What follows when collect() has returned to its caller *)
AfterCollect(where) == IF where = "flushing" THEN "sync" ELSE "loop"

(* Mutant: the bookmark stays where it is *)
SetBookmark_kept(r, index) ==
    /\ rd' = [rd EXCEPT ![r] = NoRead]
    /\ ctl' = [ctl EXCEPT ![r] = AfterCollect(@)]
    /\ UNCHANGED <<logVars, file, stdout, reported, bookmark, enable, ticks, flushed, dumps, goal>>

SetBookmark(r, index) ==
    /\ bookmark' = index
    /\ rd' = [rd EXCEPT ![r] = NoRead]
    /\ ctl' = [ctl EXCEPT ![r] = AfterCollect(@)]
    /\ UNCHANGED <<logVars, file, stdout, reported, enable, ticks, flushed, dumps, goal>>

(* Nothing new: the three-way test of collect() finds the indices equal. *)
CollectEmpty(r) ==
    /\ rd[r].pc = "split"
    /\ normalize(bookmark) = normalize(rd[r].rangeEnd)
    /\ SetBookmark(r, rd[r].rangeEnd)

(* One range, or the top of the ring when the range wraps around *)
CollectSplit(r) ==
    LET d == rd[r]
        b == normalize(bookmark)
        e == normalize(d.rangeEnd)
    IN  /\ d.pc = "split"
        /\ b # e
        /\ rd' = [rd EXCEPT ![r] = IF b < e
                                   THEN dumpRange([d EXCEPT !.task = "only"], bookmark, Dec(d.rangeEnd))
                                   ELSE dumpRange([d EXCEPT !.task = "top"], bookmark, Size - 1)]
        /\ UNCHANGED <<logVars, file, stdout, reported, collectVars>>

(* Mutant: the bottom of the ring is taken as collected *)
CollectBottom_skipped(r) ==
    /\ rd[r].pc = "ret" /\ rd[r].task = "top"
    /\ rd' = [rd EXCEPT ![r] = Return([@ EXCEPT !.task = "bottom"], @.rangeEnd)]
    /\ UNCHANGED <<logVars, file, stdout, reported, collectVars>>

(* The top is done: the bottom of the ring, from index 0 *)
CollectBottom(r) ==
    LET d == rd[r]
    IN  /\ d.pc = "ret" /\ d.task = "top"
        /\ rd' = [rd EXCEPT ![r] = dumpRange([d EXCEPT !.task = "bottom"], 0, Dec(d.rangeEnd))]
        /\ UNCHANGED <<logVars, file, stdout, reported, collectVars>>

(* collectorBookmark_ = bookmarkEnd *)
CollectReturn(r) ==
    /\ rd[r].pc = "ret" /\ rd[r].task \in {"only", "bottom"}
    /\ SetBookmark(r, rd[r].ret)

Collecting(r) ==
    \/ CollectRead(r)
    \/ CollectEmpty(r)
    \/ CollectSplit(r)
    \/ CollectBottom(r)
    \/ CollectReturn(r)
    \/ Reading(r) /\ UNCHANGED <<logVars, collectVars>>

(* flush(): after collect(), fflush of the stream *)
AfterSync(r) == IF r = "worker" THEN "done" ELSE "disable"

SyncStream(r) ==
    /\ ctl[r] = "sync"
    /\ flushed' = Len(file)
    /\ ctl' = [ctl EXCEPT ![r] = AfterSync(r)]
    /\ UNCHANGED <<logVars, readVars, bookmark, enable, ticks, dumps, goal>>

CallCollect(r, caller) ==
    /\ rd' = [rd EXCEPT ![r] = [NoRead EXCEPT !.pc = "collect"]]
    /\ ctl' = [ctl EXCEPT ![r] = caller]
    /\ UNCHANGED <<logVars, file, stdout, reported, bookmark, enable, ticks, flushed, dumps, goal>>

-----------------------------------------------------------------------------
(* The worker thread *)

getBufferThreshold == (ThresholdPct * Size) \div 100

(* Mutant: a few cells are left uncollected *)
shallCollect_few == U32(normalize(lastWritten) - normalize(bookmark)) > 2

shallCollect ==
    LET last == normalize(lastWritten)
        mark == normalize(bookmark)
    IN  /\ last # mark
        /\ \/ U32(last - mark) > getBufferThreshold
           \/ U32((normalize(IndexMax) - mark) + last) > getBufferThreshold

WorkerCollect ==
    /\ ctl.worker = "loop" /\ enable /\ shallCollect
    /\ CallCollect("worker", "collecting")

(* Mutant: the counter starts again without a flush *)
WorkerIdle_noFlush ==
    /\ ctl.worker = "loop" /\ enable /\ ~shallCollect
    /\ ticks' = IF ticks + 1 > FlushTicks THEN 0 ELSE ticks + 1
    /\ UNCHANGED <<logVars, readVars, bookmark, enable, ctl, flushed, dumps, goal>>

(* idle(): sleep, count, and flush the stream once in a while *)
WorkerIdle ==
    /\ ctl.worker = "loop" /\ enable /\ ~shallCollect
    /\ IF ticks + 1 > FlushTicks
       THEN ticks' = 0 /\ flushed' = Len(file)
       ELSE ticks' = ticks + 1 /\ UNCHANGED flushed
    /\ UNCHANGED <<logVars, readVars, bookmark, enable, ctl, dumps, goal>>

(* The loop ends; the worker's own flush() *)
WorkerStop ==
    /\ ctl.worker = "loop" /\ ~enable
    /\ CallCollect("worker", "flushing")

Worker ==
    \/ WorkerCollect
    \/ WorkerIdle
    \/ WorkerStop
    \/ Collecting("worker")
    \/ SyncStream("worker")

-----------------------------------------------------------------------------
(* All that has been published, unless a thread has folded the index back  *)
(* and not yet stored the wrap count                                       *)
Showable == IF \E p \in Producers : prod[p].pc = "wrap" THEN {} ELSE published

(* Mutant: an index that has been folded back is taken for a new one *)
Dump_noWrapCount ==
    /\ ctl.main = "run" /\ dumps < MaxDumps
    /\ ctl' = [ctl EXCEPT !.main = "dumping"]
    /\ dumps' = dumps + 1
    /\ goal' = Showable
    /\ stdout' = <<>>
    /\ rd' = [rd EXCEPT !["main"] =
                  IF currentIndex >= Size
                  THEN [NoRead EXCEPT !.pc = "cmp", !.task = "first", !.mode = "first",
                                      !.at = normalize(currentIndex)]
                  ELSE Return([NoRead EXCEPT !.task = "first"], 0)]
    /\ UNCHANGED <<logVars, file, reported, bookmark, enable, ticks, flushed>>

(* dump(): firstLine() reads currentIndex_ and the wrap count. Once the    *)
(* index has passed the size, or has been folded back, the search for a    *)
(* header begins at the index, else the first line is at 0.                *)
Dump ==
    /\ ctl.main = "run" /\ dumps < MaxDumps
    /\ ctl' = [ctl EXCEPT !.main = "dumping"]
    /\ dumps' = dumps + 1
    /\ goal' = Showable
    /\ stdout' = <<>>
    /\ rd' = [rd EXCEPT !["main"] =
                  IF currentIndex >= Size \/ wrapped
                  THEN [NoRead EXCEPT !.pc = "cmp", !.task = "first", !.mode = "first",
                                      !.at = normalize(currentIndex)]
                  ELSE Return([NoRead EXCEPT !.task = "first"], 0)]
    /\ UNCHANGED <<logVars, file, reported, bookmark, enable, ticks, flushed>>

(* end = normalize(getCurrentIndex()); dumpRange(i, end - 1, false, stream) *)
DumpLines ==
    /\ rd["main"].pc = "ret" /\ rd["main"].task = "first"
    /\ rd' = [rd EXCEPT !["main"] = dumpRange([@ EXCEPT !.task = "dump"], normalize(@.ret),
                                              Dec(normalize(currentIndex)))]
    /\ UNCHANGED <<logVars, file, stdout, reported, collectVars>>

DumpReturn ==
    /\ rd["main"].pc = "ret" /\ rd["main"].task = "dump"
    /\ rd' = [rd EXCEPT !["main"] = NoRead]
    /\ ctl' = [ctl EXCEPT !.main = "run"]
    /\ UNCHANGED <<logVars, file, stdout, reported, bookmark, enable, ticks, flushed, dumps, goal>>

-----------------------------------------------------------------------------
(* ~Log(): setEnable(false) flushes, clears enable_ and joins the worker;  *)
(* when the collector is not enabled it returns at once.                   *)
Destroy ==
    /\ Destroys /\ ctl.main = "run"
    /\ \A p \in Producers : prod[p].pc = "idle"
    /\ IF enable
       THEN CallCollect("main", "flushing")
       ELSE /\ ctl' = [ctl EXCEPT !.main = "closing"]
            /\ UNCHANGED <<logVars, readVars, bookmark, enable, ticks, flushed, dumps, goal>>

(* Mutant: enable_ is not cleared *)
Disable_forgotten ==
    /\ ctl.main = "disable"
    /\ ctl' = [ctl EXCEPT !.main = "join"]
    /\ UNCHANGED <<logVars, readVars, bookmark, enable, ticks, flushed, dumps, goal>>

Disable ==
    /\ ctl.main = "disable"
    /\ enable' = FALSE
    /\ ctl' = [ctl EXCEPT !.main = "join"]
    /\ UNCHANGED <<logVars, readVars, bookmark, ticks, flushed, dumps, goal>>

(* Mutant: ~Log() does not wait for the worker *)
Join_noWait ==
    /\ ctl.main = "join"
    /\ ctl' = [ctl EXCEPT !.main = "closing"]
    /\ UNCHANGED <<logVars, readVars, bookmark, enable, ticks, flushed, dumps, goal>>

(* pthread_join(collectorThread_, nullptr); of a thread that was never     *)
(* created it fails or crashes.                                            *)
Join ==
    /\ ctl.main = "join"
    /\ \/ ctl.worker = "done" /\ ctl' = [ctl EXCEPT !.main = "closing"]
       \/ ctl.worker = "none" /\ \E after \in {"closing", "crashed"} : ctl' = [ctl EXCEPT !.main = after]
    /\ UNCHANGED <<logVars, readVars, bookmark, enable, ticks, flushed, dumps, goal>>

(* fflush(fileHandle_); fclose(fileHandle_) *)
Close ==
    /\ ctl.main = "closing"
    /\ flushed' = Len(file)
    /\ ctl' = [ctl EXCEPT !.main = "closed"]
    /\ UNCHANGED <<logVars, readVars, bookmark, enable, ticks, dumps, goal>>

Main ==
    \/ DumpLines
    \/ DumpReturn
    \/ Collecting("main")
    \/ SyncStream("main")
    \/ Disable
    \/ Join
    \/ Close

Next ==
    \/ \E p \in Producers : TraceStep(p) \/ \E len \in Lens : Trace(p, len)
    \/ Worker
    \/ Main
    \/ Dump
    \/ Destroy

Spec == Init /\ [][Next]_vars

(* The operating system lets every thread run. No program has to log, dump *)
(* or destroy; a call once made goes on.                                   *)
Fairness ==
    /\ \A p \in Producers : WF_vars(TraceStep(p))
    /\ WF_vars(Worker)
    /\ WF_vars(Main)

FairSpec == Spec /\ Fairness

-----------------------------------------------------------------------------
(* Properties *)

Straddles(n) == normalize(entries[n].loc) + entries[n].len > Size
Retained(n) == head <= entries[n].pos + Size
EndsAtBoundary(n) == (entries[n].loc + entries[n].len) % Size = 0
AvoidsBoundary == \A n \in 1..Len(entries) : ~EndsAtBoundary(n)
InFile(n) == \E k \in 1..Len(file) : file[k] = n
OnDisk(n) == \E k \in 1..flushed : file[k] = n
CaughtUp == ctl.worker = "loop" /\ normalize(bookmark) = normalize(lastWritten)

(* Where a reader of the ring may be: dumpRange()'s position and limit     *)
(* never leave the buffer, a search never goes further than one turn, and  *)
(* the bookmark is an index collect() may subtract from.                   *)
TypeOK ==
    /\ bookmark \in 0..IndexMax /\ lastWritten \in 0..IndexMax
    /\ flushed \in 0..Len(file) /\ ticks \in 0..FlushTicks
    /\ \A r \in Readers :
          /\ rd[r].i \in 0..Size /\ rd[r].end \in 0..Size
          /\ rd[r].loop \in 0..Size /\ rd[r].tries \in 0..Spins
          /\ rd[r].at \in 0..(2 * Size)
          /\ rd[r].hdr # Blank => Len(rd[r].buf) < LenOf(rd[r].hdr)

(* What getLog() accepts and dumpRange() prints is one entry, never a      *)
(* mixture of two or of an entry and cells its writer has not copied yet,  *)
(* although only header and trailer are validated: as long as producers do *)
(* not lap the collector and no entry ends exactly at the end of the ring. *)
WholeLines == AvoidsBoundary => \A k \in 1..Len(file) : file[k] # Torn

(* collect() loses nothing but entries that straddle the end of the ring,  *)
(* and says so: once the bookmark has reached the last written index,      *)
(* every entry whose traceVargs() returned is in the file or straddles.    *)
OnlyStraddlersLost ==
    CaughtUp => \A n \in published : InFile(n) \/ (Straddles(n) /\ "file" \in reported)

(* collect() writes the entries in the order of their regions and each of  *)
(* them once, until the destructor collects beside the worker, as long as  *)
(* no entry ends exactly at the end of the ring.                           *)
LinesInOrder ==
    (AvoidsBoundary /\ ctl.main = "run") =>
        \A j, k \in 1..Len(file) : j < k => file[j] < file[k]

(* No silent loss while several threads log: once the bookmark has reached *)
(* the last written index, an entry below that index that is not in the    *)
(* file has left a "Logs are discarded" message or a garbled line.         *)
LossReported ==
    CaughtUp => \A n \in published :
        entries[n].pos + entries[n].len <= lastHead
            => InFile(n) \/ InFile(Torn) \/ "file" \in reported

(* The trace file implements the abstract queue: entry after entry, none   *)
(* skipped, none repeated, none before its traceVargs() has returned.      *)
Queue == INSTANCE LogQueue WITH delivered <- file
ImplementsLogQueue == Queue!Spec

(* What has been logged reaches the disk, without any further call: the    *)
(* worker collects it and idle() flushes it.                               *)
EventuallyOnDisk == \A n \in 1..MaxEntries : n \in published ~> OnDisk(n)

(* Every call of dumpRange() ends: neither a search nor the loop that      *)
(* realigns goes round the ring for ever, whatever the bookmark, once      *)
(* something has been written to the ring. In an empty one getNextHeader() *)
(* has nothing to find and dumpRange() takes its 0 for an index.           *)
ReadersReturnIfLogged ==
    \A r \in Readers : rd[r].pc # "idle" ~> (rd[r].pc = "idle" \/ entries = <<>>)

(* The collector catches up: whenever the program stops logging, collect() *)
(* moves the bookmark to the last written index and the worker can sleep.  *)
CatchesUp == []<>CaughtUp

(* ~Log() leaves nothing behind: what was published is on disk when the    *)
(* file is closed, except entries that straddle the end of the ring.       *)
DrainedAtClose ==
    (ctl.main = "closed" /\ ctl.worker = "done") => \A n \in published : OnDisk(n) \/ Straddles(n)

(* Nobody writes to the file handle that ~Log() has closed.                *)
NoWriteAfterClose == [][ctl.main = "closed" => UNCHANGED <<file, reported>>]_vars

(* ~Log() returns: its own collect(), the worker's last one and the join.  *)
CloseReturns ==
    ctl.main \in {"flushing", "closing"} ~> ctl.main \in {"closed", "crashed"} \/ entries = <<>>

(* dump() shows everything that had been logged when it was called, while  *)
(* logging goes on, as long as the ring has not wrapped and the wrap       *)
(* count, which no constructor sets, does not say it has. One thread that  *)
(* logs gets this, if the index happened to start at 0. A second thread,   *)
(* whose region is claimed and not yet copied, or an index that started    *)
(* inside the ring makes dumpRange() return before it reaches the entry.   *)
DumpComplete ==
    (ctl.main = "run" /\ head < Size /\ ~wrapped) =>
        \A n \in goal : \E k \in 1..Len(stdout) : stdout[k] = n

(* dump() of a log that nobody writes to meanwhile starts at the oldest    *)
(* entry still in the ring, also when the ring has wrapped around, and     *)
(* leaves out none between the lines it prints.                            *)
DumpFromOldest ==
    (ctl.main = "run" /\ dumps > 0 /\ goal = 1..Len(entries) /\ stdout # <<>>) =>
        /\ Retained(stdout[1]) /\ \A n \in goal : Retained(n) => n >= stdout[1]
        /\ \A k \in 2..Len(stdout) : stdout[k] = stdout[k - 1] + 1

(* dump() of a log that nobody writes to meanwhile spills the whole        *)
(* buffer: every entry that is still in the ring.                          *)
DumpSpillsBuffer ==
    (ctl.main = "run" /\ dumps > 0 /\ goal = 1..Len(entries)) =>
        \A n \in goal : Retained(n) => \E k \in 1..Len(stdout) : stdout[k] = n
=============================================================================
