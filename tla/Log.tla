-------------------------------- MODULE Log ---------------------------------
(***************************************************************************)
(* Log::traceVargs (src/src/lib/log.cpp) as several threads run it: take   *)
(* an id, claim a region of the ring, copy the entry into it and record    *)
(* how far the log has been written.  Nothing but the claim is atomic.     *)
(*                                                                         *)
(* The unit of the ring is a cell, not a byte: an entry of length n is a   *)
(* header cell (part 0), n - 2 argument cells and a trailer cell           *)
(* (part n - 1).  A cell remembers which entry it belongs to; what the     *)
(* code stores in a header (pattern, id, length, ...) and in a trailer     *)
(* (pattern, id) is looked up in the history variable entries.             *)
(* RingBuffer::allocate() is one step, as RingAlloc promises, but for the  *)
(* rollover of the index: firstLine() may see the index folded back and    *)
(* the wrap count not yet stored, so these are steps of their own.         *)
(***************************************************************************)
EXTENDS RingMemory, FiniteSets

CONSTANTS Producers,   \* threads that log
          Lens,        \* entry lengths, in cells
          MaxEntries,  \* bound: calls of traceVargs
          IndexMax,    \* UINT32_MAX
          Patterns,    \* START_PATTERN and END_PATTERN, as ids
          Margin,      \* the 10240 of isIndexRollingOver
          \* What fields that no constructor initialises may hold:
          InitIndex,   \* currentIndex_
          InitWrapped, \* stats_.indexWrapAroundCount, as hasWrappedAround() sees it
          InitLast     \* bufLastWrittenIndex_

ASSUME LogAssumption ==
    /\ Lens \subseteq Nat \ {0, 1}
    /\ MaxEntries \in Nat
    /\ IndexMax \in Nat
    /\ Patterns \subseteq Nat
    /\ Margin \in Nat /\ Size + Margin <= IndexMax
    /\ InitIndex \subseteq 0..IndexMax
    /\ InitWrapped \subseteq BOOLEAN
    /\ InitLast \subseteq 0..IndexMax

VARIABLES mem,          \* buffer_
          currentIndex, \* currentIndex_
          wrapped,      \* hasWrappedAround()
          globalId,     \* globalId_
          lastWritten,  \* bufLastWrittenIndex_
          prod,         \* the locals of each thread in traceVargs
          entries,      \* history: the entries in the order of their claims
          published,    \* history: the entries whose traceVargs has returned
          head,         \* history: currentIndex_ as if it had never been folded back
          lastHead      \* history: head as bufLastWrittenIndex_ knows it

logVars == <<mem, currentIndex, wrapped, globalId, lastWritten, prod, entries, published,
             head, lastHead>>

Blank == [entry |-> 0, part |-> 0]   \* the zeros the constructor fills the ring with

IsHeader(c) == c.entry # 0 /\ c.part = 0
LenOf(c) == entries[c.entry].len
IdOf(c) == entries[c.entry].id
IsTrailer(c) == c.entry # 0 /\ c.part = LenOf(c) - 1

Idle == [pc |-> "idle", len |-> 0, id |-> 0, entry |-> 0, todo |-> {}, index |-> 0, head |-> 0]

-----------------------------------------------------------------------------
LogInit ==
    /\ mem = [c \in 0..(Size - 1) |-> Blank]
    /\ currentIndex \in InitIndex
    /\ wrapped \in InitWrapped
    /\ globalId = 0
    /\ lastWritten \in InitLast
    /\ prod = [p \in Producers |-> Idle]
    /\ entries = <<>>
    /\ published = {}
    /\ head = currentIndex
    /\ lastHead = lastWritten

isIndexRollingOver(index) == index > IndexMax - Margin

(* globalId_++ in allocateId(), with the second increment past a pattern *)
NextId(id) == IF id + 1 \in Patterns THEN id + 2 ELSE id + 1

Calls == Len(entries) + Cardinality({p \in Producers : prod[p].pc \in {"id", "alloc", "wrap", "add"}})

(* traceVargs encodes the arguments, and allocateId() reads globalId_. *)
ReadId(p, len) ==
    /\ prod[p].pc = "idle"
    /\ Calls < MaxEntries
    /\ prod' = [prod EXCEPT ![p] = [Idle EXCEPT !.pc = "id", !.len = len, !.id = globalId]]
    /\ UNCHANGED <<mem, currentIndex, wrapped, globalId, lastWritten, entries, published, head, lastHead>>

(* allocateId() stores the next id; the increment works on the value read  *)
(* for id or on a value read again, as the build happens to compile it.    *)
WriteId(p) ==
    /\ prod[p].pc = "id"
    /\ \E g \in {prod[p].id, globalId} : globalId' = NextId(g)
    /\ prod' = [prod EXCEPT ![p].pc = "alloc"]
    /\ UNCHANGED <<mem, currentIndex, wrapped, lastWritten, entries, published, head, lastHead>>

(* Mutant: the index starts again at 0 *)
FoldIndex_zero(p) ==
    /\ prod[p].pc = "alloc" /\ isIndexRollingOver(currentIndex)
    /\ currentIndex' = 0
    /\ prod' = [prod EXCEPT ![p].pc = "wrap"]
    /\ UNCHANGED <<mem, wrapped, globalId, lastWritten, entries, published, head, lastHead>>

(* allocate(): the compare-and-swap that folds the index back ... *)
FoldIndex(p) ==
    /\ prod[p].pc = "alloc" /\ isIndexRollingOver(currentIndex)
    /\ currentIndex' = normalize(currentIndex)
    /\ prod' = [prod EXCEPT ![p].pc = "wrap"]
    /\ UNCHANGED <<mem, wrapped, globalId, lastWritten, entries, published, head, lastHead>>

(* ... the store of the wrap count ... *)
StoreWrapCount(p) ==
    /\ prod[p].pc = "wrap"
    /\ wrapped' = TRUE
    /\ prod' = [prod EXCEPT ![p].pc = "add"]
    /\ UNCHANGED <<mem, currentIndex, globalId, lastWritten, entries, published, head, lastHead>>

(* Mutant: the index is recorded as written when the region is claimed *)
Allocate_recorded(p) ==
    /\ prod[p].pc = "add" \/ (prod[p].pc = "alloc" /\ ~isIndexRollingOver(currentIndex))
    /\ entries' = Append(entries, [loc |-> currentIndex, pos |-> head, len |-> prod[p].len, id |-> prod[p].id])
    /\ currentIndex' = (currentIndex + prod[p].len) % (IndexMax + 1)
    /\ head' = head + prod[p].len
    /\ lastWritten' = currentIndex'
    /\ lastHead' = head'
    /\ prod' = [prod EXCEPT ![p].pc = "copy", ![p].entry = Len(entries) + 1,
                            ![p].todo = 0..(prod[p].len - 1)]
    /\ UNCHANGED <<mem, wrapped, globalId, published>>

(* ... and location = the fetch-and-add; then setHeader(...) *)
Allocate(p) ==
    /\ prod[p].pc = "add" \/ (prod[p].pc = "alloc" /\ ~isIndexRollingOver(currentIndex))
    /\ entries' = Append(entries, [loc |-> currentIndex, pos |-> head, len |-> prod[p].len, id |-> prod[p].id])
    /\ currentIndex' = (currentIndex + prod[p].len) % (IndexMax + 1)
    /\ head' = head + prod[p].len
    /\ prod' = [prod EXCEPT ![p].pc = "copy", ![p].entry = Len(entries) + 1,
                            ![p].todo = 0..(prod[p].len - 1)]
    /\ UNCHANGED <<mem, wrapped, globalId, lastWritten, published, lastHead>>

(* ringBuffer_->set(...): the memcpy stores the cells in no particular order. *)
CopyCell(p) ==
    /\ prod[p].pc = "copy"
    /\ \E k \in prod[p].todo :
          /\ mem' = set(mem, entries[prod[p].entry].loc + k, <<[entry |-> prod[p].entry, part |-> k]>>)
          /\ prod' = [prod EXCEPT ![p].todo = @ \ {k},
                                  ![p].pc = IF prod[p].todo = {k} THEN "index" ELSE "copy"]
    /\ UNCHANGED <<currentIndex, wrapped, globalId, lastWritten, entries, published, head, lastHead>>

(* setLastWrittenIndex(ringBuffer_->getCurrentIndex()): the read ... *)
ReadIndex(p) ==
    /\ prod[p].pc = "index"
    /\ prod' = [prod EXCEPT ![p].pc = "last", ![p].index = currentIndex, ![p].head = head]
    /\ UNCHANGED <<mem, currentIndex, wrapped, globalId, lastWritten, entries, published, head, lastHead>>

(* ... and the store. *)
StoreLast(p) ==
    /\ prod[p].pc = "last"
    /\ lastWritten' = prod[p].index
    /\ lastHead' = prod[p].head
    /\ published' = published \cup {prod[p].entry}
    /\ prod' = [prod EXCEPT ![p] = Idle]
    /\ UNCHANGED <<mem, currentIndex, wrapped, globalId, entries, head>>

(* The steps of a traceVargs call that is under way. *)
Tracing(p) ==
    \/ WriteId(p)
    \/ FoldIndex(p)
    \/ StoreWrapCount(p)
    \/ Allocate(p)
    \/ CopyCell(p)
    \/ ReadIndex(p)
    \/ StoreLast(p)
=============================================================================
