----------------------------- MODULE LogReader ------------------------------
(***************************************************************************)
(* Reading the ring back (src/src/lib/log.cpp): getLog() validates one     *)
(* entry, getNextHeader() searches for the next valid one, printAtIndex()  *)
(* and dumpRange() write a range of entries to a stream.  A reader runs    *)
(* while producers write, so every cell it looks at is a step of its own.  *)
(*                                                                         *)
(* What is written to a stream is a sequence of lines: the number of the   *)
(* entry printed, or Torn when the cells getLog() accepted are not one     *)
(* entry.  "Logs are discarded" messages only leave a mark in reported.    *)
(***************************************************************************)
EXTENDS Log

CONSTANTS Readers,  \* threads that read the ring
          Spins     \* Collect::SPINS

ASSUME ReaderAssumption == Spins \in Nat

VARIABLES rd,       \* the locals of each reader in dumpRange() and below
          file,     \* lines written to the trace file's stream
          stdout,   \* lines written to stdout by dump()
          reported  \* streams that got a "Logs are discarded" message

readVars == <<rd, file, stdout, reported>>

Torn == 0

(* pc      idle, collect, split (both in Collector), cmp, hdr, body or ret  *)
(* task    what dumpRange or the search was called for                      *)
(* mode    who called getLog: print (printAtIndex), scan (getNextHeader     *)
(*         from dumpRange) or first (getNextHeader from firstLine)          *)
(* i, end  dumpRange's position and limit; at: the index looked at          *)
NoRead == [pc |-> "idle", task |-> "none", mode |-> "print", i |-> 0, end |-> 0, at |-> 0,
           hdr |-> Blank, buf |-> <<>>, loop |-> 0, tries |-> 0, ret |-> 0, rangeEnd |-> 0]

ReadInit ==
    /\ rd = [r \in Readers |-> NoRead]
    /\ file = <<>>
    /\ stdout = <<>>
    /\ reported = {}

(* dump() passes continueOnFailure = false, collect() passes true. *)
continueOnFailure(d) == d.task # "dump"

Stream(d) == IF d.task = "dump" THEN "stdout" ELSE "file"

(* index - 1 on a uint32_t *)
Dec(index) == IF index = 0 THEN IndexMax ELSE index - 1

Return(d, value) ==
    [NoRead EXCEPT !.pc = "ret", !.task = d.task, !.rangeEnd = d.rangeEnd, !.ret = value]

(* The head of dumpRange's loop: while (i < end) printAtIndex(i, ...) *)
LoopAt(d, i) ==
    IF i < d.end
    THEN [NoRead EXCEPT !.pc = "hdr", !.task = d.task, !.rangeEnd = d.rangeEnd,
                        !.end = d.end, !.i = i, !.at = i]
    ELSE Return(d, i)

(* Mutant: the end of the range is not normalised *)
dumpRange_rawEnd(d, start, end) ==
    LET s == normalize(start)
    IN  LoopAt([d EXCEPT !.end = IF s > end + 1 THEN Size ELSE end + 1], s)

(* Mutant: the end of the range is taken as exclusive *)
dumpRange_exclusive(d, start, end) ==
    LET s == normalize(start)
        e == normalize(end)
    IN  LoopAt([d EXCEPT !.end = IF s > e THEN Size ELSE e], s)

(* dumpRange(start, end, ...) up to its loop *)
dumpRange(d, start, end) ==
    LET s == normalize(start)
        e == normalize(end) + 1
    IN  LoopAt([d EXCEPT !.end = IF s > e THEN Size ELSE e], s)

(* Mutant: continue instead of break *)
Proceed_continue(d, newI) == IF newI > d.end THEN LoopAt(d, d.i) ELSE LoopAt(d, newI)

(* if (new_i > end) break; i = new_i *)
Proceed(d, newI) == IF newI > d.end THEN Return(d, d.i) ELSE LoopAt(d, newI)

(* dumpRange has realigned to newI after a print failure and said so. *)
Realigned(d, newI) == IF continueOnFailure(d) THEN Proceed(d, newI) ELSE Return(d, newI)

(* getNextHeader moves on by one index and gives up (0) after one turn. *)
SearchOn(d) ==
    IF d.loop + 1 > Size
    THEN IF d.mode = "scan" THEN Realigned(d, 0) ELSE Return(d, 0)
    ELSE [d EXCEPT !.pc = "cmp", !.at = d.at + 1, !.loop = d.loop + 1, !.hdr = Blank, !.buf = <<>>]

(* getLog() returned false. printAtIndex retries when dump() asked for it,  *)
(* then dumpRange searches from i on.                                       *)
GetLogFailed(d) ==
    IF d.mode # "print" THEN SearchOn(d)
    ELSE IF ~continueOnFailure(d) /\ d.tries + 1 < Spins
         THEN [d EXCEPT !.pc = "hdr", !.tries = d.tries + 1, !.hdr = Blank, !.buf = <<>>]
         ELSE [d EXCEPT !.pc = "cmp", !.mode = "scan", !.hdr = Blank, !.buf = <<>>]

(* getLog() returned true. *)
GetLogSucceeded(d) ==
    CASE d.mode = "print" -> Proceed(d, d.at + LenOf(d.hdr))
      [] d.mode = "scan"  -> Realigned(d, d.at)
      [] d.mode = "first" -> Return(d, d.at)

(* The validations of getLog(): the header read twice, pattern and id of the trailer *)
ValidEntry(hdr, buf) ==
    /\ buf[1] = hdr
    /\ IsTrailer(buf[Len(buf)])
    /\ IdOf(buf[Len(buf)]) = IdOf(hdr)

LineOf(buf) ==
    IF \A k \in 1..Len(buf) : buf[k] = [entry |-> buf[1].entry, part |-> k - 1]
    THEN buf[1].entry ELSE Torn

(* stream->write() of the line printAtIndex decoded, unless it ends beyond the range *)
WriteLine(d, buf) ==
    LET printed == d.mode = "print" /\ d.at + LenOf(d.hdr) <= d.end
    IN  /\ file' = IF printed /\ Stream(d) = "file" THEN Append(file, LineOf(buf)) ELSE file
        /\ stdout' = IF printed /\ Stream(d) = "stdout" THEN Append(stdout, LineOf(buf)) ELSE stdout

(* Mutant: the realignment is silent *)
WriteMessage_silent(d, next) == UNCHANGED reported

(* The message is written when a search started by dumpRange ends. *)
WriteMessage(d, next) ==
    reported' = IF d.mode = "scan" /\ (next.pc = "ret" \/ next.mode = "print")
                THEN reported \cup {Stream(d)} ELSE reported

Step(r, next) ==
    /\ rd' = [rd EXCEPT ![r] = next]
    /\ WriteMessage(rd[r], next)

-----------------------------------------------------------------------------
(* getLog(): copy the header and validate its pattern *)
ReadHeader(r) ==
    LET d == rd[r]
        c == getByte(mem, d.at)
    IN  /\ d.pc = "hdr"
        /\ Step(r, IF IsHeader(c) THEN [d EXCEPT !.pc = "body", !.hdr = c] ELSE GetLogFailed(d))
        /\ UNCHANGED <<file, stdout>>

(* getLog(): copy the whole entry, cell by cell; after the last one validate it *)
ReadBody(r) ==
    LET d == rd[r]
        buf == Append(d.buf, getByte(mem, d.at + Len(d.buf)))
    IN  /\ d.pc = "body"
        /\ \/ /\ Len(buf) < LenOf(d.hdr)
              /\ Step(r, [d EXCEPT !.buf = buf])
              /\ UNCHANGED <<file, stdout>>
           \/ /\ Len(buf) = LenOf(d.hdr)
              /\ ValidEntry(d.hdr, buf)
              /\ Step(r, GetLogSucceeded(d))
              /\ WriteLine(d, buf)
           \/ /\ Len(buf) = LenOf(d.hdr)
              /\ ~ValidEntry(d.hdr, buf)
              /\ Step(r, GetLogFailed(d))
              /\ UNCHANGED <<file, stdout>>

(* getNextHeader(): compare the start pattern at the index *)
ComparePattern(r) ==
    LET d == rd[r]
    IN  /\ d.pc = "cmp"
        /\ Step(r, IF IsHeader(getByte(mem, d.at)) THEN [d EXCEPT !.pc = "hdr"] ELSE SearchOn(d))
        /\ UNCHANGED <<file, stdout>>

Reading(r) == ReadHeader(r) \/ ReadBody(r) \/ ComparePattern(r)
=============================================================================
