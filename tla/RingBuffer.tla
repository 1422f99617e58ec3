----------------------------- MODULE RingBuffer -----------------------------
(***************************************************************************)
(* RingBuffer::allocate() (src/src/lib/ringbuffer.cpp) as concurrent       *)
(* callers execute it: the unsynchronised look at currentIndex_, the       *)
(* compare-and-swap loop that folds the index back into the ring before it *)
(* runs over its 32 bits, and the fetch-and-add that claims the region.    *)
(* Every access to a shared field is a step of its own.                    *)
(*                                                                         *)
(* head and start are history variables: the bytes handed out since the    *)
(* buffer was built, as an unbounded number, and its value when a region   *)
(* was claimed.                                                            *)
(***************************************************************************)
EXTENDS RingMemory, FiniteSets

CONSTANTS Threads,     \* the threads that call Log::traceVargs
          IndexMax,    \* UINT32_MAX
          Margin,      \* the 10240 of isIndexRollingOver
          Lens,        \* the lengths traceVargs asks for
          MaxLen,      \* LOG_MAX_LOG_TRACE_LINE, asserted before the call
          Garbage,     \* what the never initialised indexWrapAroundCount may hold
          MaxBytes     \* bound: no allocation starts beyond this many bytes

ASSUME RingBufferAssumption ==
    /\ IndexMax \in Nat
    /\ Margin \in Nat
    /\ Size + Margin <= IndexMax
    /\ MaxLen \in Nat \ {0}
    /\ Lens \subseteq 1..MaxLen
    /\ Garbage \subseteq 0..IndexMax
    /\ MaxBytes \in Nat
    /\ IsFiniteSet(Threads)

VARIABLES threadSafe,            \* threadSafe_, set by the constructor; TRUE in Log's buffer
          currentIndex,          \* currentIndex_
          indexWrapAroundCount,  \* stats_.indexWrapAroundCount
          pc,                    \* where in allocate() each thread is
          bufferLen,             \* allocate()'s parameter
          newWrapCount,          \* local new_wrap_count
          seen,                  \* local currentIndex of the loop
          ret,                   \* allocate()'s result
          head,                  \* history: bytes handed out, unbounded
          start                  \* history: head when t's region was claimed

locals == <<bufferLen, newWrapCount, seen>>
vars == <<threadSafe, currentIndex, indexWrapAroundCount, pc, locals, ret, head, start>>

(* Mutant: a margin of one entry, forgetting the other threads past the check *)
isIndexRollingOver_oneEntry(index) == index > IndexMax - MaxLen

isIndexRollingOver(index) == index > IndexMax - Margin

hasWrappedAround == indexWrapAroundCount > 0

Goto(t, from, to) == /\ pc[t] = from
                     /\ pc' = [pc EXCEPT ![t] = to]
                     /\ UNCHANGED threadSafe

-----------------------------------------------------------------------------
(* The constructor sets neither currentIndex_ nor stats_: both start with  *)
(* whatever the memory held.                                               *)
Init ==
    /\ threadSafe \in BOOLEAN
    /\ currentIndex \in 0..IndexMax
    /\ indexWrapAroundCount \in Garbage
    /\ pc = [t \in Threads |-> "idle"]
    /\ bufferLen = [t \in Threads |-> 0]
    /\ newWrapCount = [t \in Threads |-> 0]
    /\ seen = [t \in Threads |-> 0]
    /\ ret = [t \in Threads |-> 0]
    /\ head = currentIndex
    /\ start = [t \in Threads |-> 0]

(* A thread calls allocate(len). *)
Allocate(t, len) ==
    /\ threadSafe
    /\ head + len <= MaxBytes
    /\ Goto(t, "idle", "check")
    /\ bufferLen' = [bufferLen EXCEPT ![t] = len]
    /\ UNCHANGED <<currentIndex, indexWrapAroundCount, newWrapCount, seen, ret, head, start>>

(* if (isIndexRollingOver(currentIndex_)) *)
CheckRollingOver(t) ==
    /\ Goto(t, "check", IF isIndexRollingOver(currentIndex) THEN "count" ELSE "add")
    /\ UNCHANGED <<currentIndex, indexWrapAroundCount, locals, ret, head, start>>

(* new_wrap_count = stats_.indexWrapAroundCount + 1 *)
ReadWrapCount(t) ==
    /\ Goto(t, "count", "loop")
    /\ newWrapCount' = [newWrapCount EXCEPT ![t] = (indexWrapAroundCount + 1) % (IndexMax + 1)]
    /\ UNCHANGED <<currentIndex, indexWrapAroundCount, bufferLen, seen, ret, head, start>>

(* while (isIndexRollingOver(currentIndex_) && !writeSuccess), not yet successful *)
LoopTest(t) ==
    /\ Goto(t, "loop", IF isIndexRollingOver(currentIndex) THEN "load" ELSE "add")
    /\ UNCHANGED <<currentIndex, indexWrapAroundCount, locals, ret, head, start>>

(* uint32_t currentIndex = currentIndex_ *)
LoadIndex(t) ==
    /\ Goto(t, "load", "cas")
    /\ seen' = [seen EXCEPT ![t] = currentIndex]
    /\ UNCHANGED <<currentIndex, indexWrapAroundCount, bufferLen, newWrapCount, ret, head, start>>

(* Mutant: a plain store instead of the compare-and-swap *)
CompareAndSwap_plainStore(t) ==
    /\ Goto(t, "cas", "stats")
    /\ currentIndex' = normalize(seen[t])
    /\ UNCHANGED <<indexWrapAroundCount, locals, ret, head, start>>

(* Mutant: a failed swap is tried again without a new load of the index *)
CompareAndSwap_stale(t) ==
    /\ Goto(t, "cas", IF currentIndex = seen[t] THEN "stats" ELSE "cas")
    /\ currentIndex' = IF currentIndex = seen[t] THEN normalize(seen[t]) ELSE currentIndex
    /\ UNCHANGED <<indexWrapAroundCount, locals, ret, head, start>>

(* writeSuccess = __sync_bool_compare_and_swap(&currentIndex_, currentIndex, ...) *)
CompareAndSwap(t) ==
    /\ Goto(t, "cas", IF currentIndex = seen[t] THEN "stats" ELSE "loop")
    /\ currentIndex' = IF currentIndex = seen[t] THEN normalize(seen[t]) ELSE currentIndex
    /\ UNCHANGED <<indexWrapAroundCount, locals, ret, head, start>>

(* Mutant: the count is not stored *)
StoreWrapCount_dropped(t) ==
    /\ Goto(t, "stats", "add")
    /\ UNCHANGED <<currentIndex, indexWrapAroundCount, locals, ret, head, start>>

(* stats_.indexWrapAroundCount = new_wrap_count; the loop then ends *)
StoreWrapCount(t) ==
    /\ Goto(t, "stats", "add")
    /\ indexWrapAroundCount' = newWrapCount[t]
    /\ UNCHANGED <<currentIndex, locals, ret, head, start>>

(* ret = __sync_fetch_and_add(&currentIndex_, bufferLen); return ret. The  *)
(* loop's locals are gone (0).                                             *)
FetchAndAdd(t) ==
    /\ Goto(t, "add", "claimed")
    /\ ret' = [ret EXCEPT ![t] = currentIndex]
    /\ currentIndex' = (currentIndex + bufferLen[t]) % (IndexMax + 1)
    /\ start' = [start EXCEPT ![t] = head]
    /\ head' = head + bufferLen[t]
    /\ newWrapCount' = [newWrapCount EXCEPT ![t] = 0]
    /\ seen' = [seen EXCEPT ![t] = 0]
    /\ UNCHANGED <<indexWrapAroundCount, bufferLen>>

(* The threads that share a buffer built with threadSafe = false take turns. *)
Alone(t) == \A u \in Threads : u # t => pc[u] = "idle"

(* Mutant: the branch without threads lets the index run over its width *)
AllocateUnsafe_unfolded(t, len) ==
    /\ ~threadSafe /\ Alone(t)
    /\ head + len <= MaxBytes
    /\ Goto(t, "idle", "claimed")
    /\ ret' = [ret EXCEPT ![t] = currentIndex]
    /\ currentIndex' = (currentIndex + len) % (IndexMax + 1)
    /\ bufferLen' = [bufferLen EXCEPT ![t] = len]
    /\ start' = [start EXCEPT ![t] = head]
    /\ head' = head + len
    /\ UNCHANGED <<indexWrapAroundCount, newWrapCount, seen>>

(* allocate(len) of a buffer built with threadSafe = false: its caller runs *)
(* it without interference.                                                 *)
AllocateUnsafe(t, len) ==
    LET rolling == isIndexRollingOver(currentIndex)
        index == IF rolling THEN normalize(currentIndex) ELSE currentIndex
    IN  /\ ~threadSafe /\ Alone(t)
        /\ head + len <= MaxBytes
        /\ Goto(t, "idle", "claimed")
        /\ indexWrapAroundCount' = IF rolling THEN (indexWrapAroundCount + 1) % (IndexMax + 1)
                                              ELSE indexWrapAroundCount
        /\ ret' = [ret EXCEPT ![t] = index]
        /\ currentIndex' = (index + len) % (IndexMax + 1)
        /\ bufferLen' = [bufferLen EXCEPT ![t] = len]
        /\ start' = [start EXCEPT ![t] = head]
        /\ head' = head + len
        /\ UNCHANGED <<newWrapCount, seen>>

(* The caller has filled its region: Log::traceVargs is past set() and     *)
(* does not use the location again (0).                                    *)
Filled(t) ==
    /\ Goto(t, "claimed", "idle")
    /\ bufferLen' = [bufferLen EXCEPT ![t] = 0]
    /\ ret' = [ret EXCEPT ![t] = 0]
    /\ start' = [start EXCEPT ![t] = 0]
    /\ UNCHANGED <<currentIndex, indexWrapAroundCount, newWrapCount, seen, head>>

Allocating(t) ==
    \/ CheckRollingOver(t)
    \/ ReadWrapCount(t)
    \/ LoopTest(t)
    \/ LoadIndex(t)
    \/ CompareAndSwap(t)
    \/ StoreWrapCount(t)
    \/ FetchAndAdd(t)

Next ==
    \E t \in Threads :
        \/ Allocating(t)
        \/ Filled(t)
        \/ \E len \in Lens : Allocate(t, len) \/ AllocateUnsafe(t, len)

Spec == Init /\ [][Next]_vars

(* A thread inside allocate() is never blocked, so the scheduler runs it on. *)
FairSpec == Spec /\ \A t \in Threads : WF_vars(Allocating(t))

-----------------------------------------------------------------------------
TypeOK ==
    /\ threadSafe \in BOOLEAN
    /\ currentIndex \in 0..IndexMax
    /\ indexWrapAroundCount \in 0..IndexMax
    /\ pc \in [Threads -> {"idle", "check", "count", "loop", "load", "cas",
                           "stats", "add", "claimed"}]
    /\ bufferLen \in [Threads -> 0..MaxLen]
    /\ newWrapCount \in [Threads -> 0..IndexMax]
    /\ seen \in [Threads -> 0..IndexMax]
    /\ ret \in [Threads -> 0..IndexMax]
    /\ head \in Nat
    /\ start \in [Threads -> Nat]

(* The threads that will add their length without looking at the index again. *)
Committed == {t \in Threads : pc[t] \in {"stats", "add"}}

(* The margin is wide enough for every thread to be past the check at once. *)
MarginCovers == Cardinality(Threads) * MaxLen <= Margin

Claimed == {t \in Threads : pc[t] = "claimed"}

(* The ring cells t will write with RingBuffer::set(). *)
Cells(t) == {normalize(ret[t] + k) : k \in 0..(bufferLen[t] - 1)}

(***************************************************************************)
(* allocate() hands two threads that are both still writing no common      *)
(* byte of the ring, as long as less than one turn of the ring lies        *)
(* between the start of the older and the end of the newer region.         *)
(***************************************************************************)
ClaimsDisjoint ==
    \A t, u \in Claimed :
        /\ t # u
        /\ start[t] <= start[u]
        /\ start[u] + bufferLen[u] - start[t] <= Size
        => Cells(t) \cap Cells(u) = {}

(***************************************************************************)
(* The margin of isIndexRollingOver holds back every thread: whatever the  *)
(* threads past the check still add, the fetch-and-add of allocate() never *)
(* runs over the 32 bits of currentIndex_.                                 *)
(***************************************************************************)
NoSilentOverflow ==
    \A t \in Threads : pc[t] = "add" => currentIndex + bufferLen[t] <= IndexMax

(***************************************************************************)
(* Log::firstLine() can tell that the ring has been filled once: after the *)
(* index passed Size, either it still is at least Size, or the wrap count  *)
(* is positive, or a thread is between its compare-and-swap and its store  *)
(* of the count.                                                           *)
(***************************************************************************)
WrapRemembered ==
    head >= Size => \/ currentIndex >= Size
                    \/ hasWrappedAround
                    \/ \E t \in Threads : pc[t] = "stats"

(***************************************************************************)
(* "Completely non-blocking" (README): allocate() is lock-free. A thread   *)
(* in its compare-and-swap loop gets out, unless others overtake it again  *)
(* and again with regions of their own; a failed swap is always some       *)
(* other thread's progress, and no thread waits for one that has stopped.  *)
(* A behaviour that breaks this has finitely many allocations, so MaxBytes *)
(* hides none.                                                             *)
(***************************************************************************)
LockFree ==
    \A t \in Threads :
        \/ []<>(pc[t] \in {"idle", "claimed"})
        \/ []<><<\E u \in Threads \ {t} : FetchAndAdd(u)>>_vars

(***************************************************************************)
(* allocate() implements RingAlloc: its many steps look like one atomic    *)
(* reservation of the next region of the ring.                             *)
(***************************************************************************)
Abstract == INSTANCE RingAlloc WITH
    claim <- [t \in Threads |-> IF pc[t] = "claimed"
                                THEN [start |-> start[t], loc |-> normalize(ret[t]),
                                      len |-> bufferLen[t]]
                                ELSE [start |-> 0, loc |-> 0, len |-> 0]]

ImplementsRingAlloc == Abstract!Spec

-----------------------------------------------------------------------------
(* The inductive invariant behind the safety properties. *)
Headroom ==
    Committed # {} =>
        currentIndex + MaxLen * Cardinality(Committed)
            <= (IndexMax - Margin) + MaxLen * Cardinality(Threads)

IndexFollowsHead == \E k \in 0..head : head = currentIndex + k * Size

ClaimFollowsHead ==
    \A t \in Claimed : /\ \E k \in 0..start[t] : start[t] = ret[t] + k * Size
                       /\ start[t] + bufferLen[t] <= head

ClaimsInOrder ==
    \A t, u \in Claimed : t # u => \/ start[t] + bufferLen[t] <= start[u]
                                   \/ start[u] + bufferLen[u] <= start[t]

LenInLens == \A t \in Threads : pc[t] # "idle" => bufferLen[t] \in Lens

(* A fold is not forgotten: it has been counted or is about to be, and a   *)
(* thread never counts it as the 0th.                                      *)
FoldNoted ==
    /\ head = currentIndex \/ hasWrappedAround \/ \E t \in Threads : pc[t] = "stats"
    /\ \A t \in Threads : pc[t] \in {"loop", "load", "cas", "stats"} => newWrapCount[t] > 0

UnsafeUndivided == ~threadSafe => \A t \in Threads : pc[t] \in {"idle", "claimed"}

IndInv ==
    /\ TypeOK
    /\ LenInLens
    /\ UnsafeUndivided
    /\ Headroom
    /\ IndexFollowsHead
    /\ ClaimFollowsHead
    /\ ClaimsInOrder
=============================================================================
