------------------------------ MODULE EntryId -------------------------------
(***************************************************************************)
(* The ids of the entries (src/src/lib/log.cpp): allocateId(), which any   *)
(* number of threads run without a lock, and cmpHeader(), which is to tell *)
(* from two ids which entry is the older one.                              *)
(*                                                                         *)
(* globalId_ is an ordinary field: wherever allocateId() names it, the     *)
(* build may load it again or use the value it still has in a register,    *)
(* and an increment is a load and a later store.                           *)
(***************************************************************************)
EXTENDS Integers, Sequences

CONSTANTS Callers,       \* threads in traceVargs
          IdMax,         \* UINT32_MAX
          StartPattern,  \* START_PATTERN
          EndPattern,    \* END_PATTERN
          MaxIds         \* bound: calls of allocateId

ASSUME EntryIdAssumption ==
    /\ IdMax \in Nat
    /\ {StartPattern, EndPattern} \subseteq 0..IdMax
    /\ \A p, q \in {StartPattern, EndPattern} : p # (q + 1) % (IdMax + 1)
    /\ MaxIds \in 0..(IdMax - 1)

VARIABLES globalId,  \* globalId_
          ipc,       \* where in allocateId() each thread is
          id,        \* local id
          reg,       \* the register that holds globalId_
          ids,       \* calls so far
          raced,     \* history: a call now under way overlaps or has overlapped others
          issued     \* history: the ids of the calls since the last that overlapped

idVars == <<globalId, ipc, id, reg, ids, raced, issued>>

U(n) == n % (IdMax + 1)

(* What naming globalId_ may give t: a new load or the register *)
Seen(t) == {globalId, reg[t]}

-----------------------------------------------------------------------------
(* No constructor sets globalId_. *)
IdInit ==
    /\ globalId \in 0..IdMax
    /\ ipc = [t \in Callers |-> "idle"]
    /\ id = [t \in Callers |-> 0]
    /\ reg = [t \in Callers |-> 0]
    /\ ids = 0
    /\ raced = FALSE
    /\ issued = <<>>

Inside == {t \in Callers : ipc[t] # "idle"}

(* id = globalId_ *)
LoadId(t) ==
    /\ ipc[t] = "idle"
    /\ ids < MaxIds
    /\ ids' = ids + 1
    /\ ipc' = [ipc EXCEPT ![t] = "inc"]
    /\ id' = [id EXCEPT ![t] = globalId]
    /\ reg' = [reg EXCEPT ![t] = globalId]
    /\ raced' = (raced \/ Inside # {})
    /\ UNCHANGED <<globalId, issued>>

(* globalId_++, its load and addition; so for the second one *)
IncId(t) ==
    /\ ipc[t] \in {"inc", "inc2"}
    /\ \E g \in Seen(t) : reg' = [reg EXCEPT ![t] = U(g + 1)]
    /\ ipc' = [ipc EXCEPT ![t] = IF @ = "inc" THEN "store" ELSE "store2"]
    /\ UNCHANGED <<globalId, id, ids, raced, issued>>

(* globalId_++, its store *)
StoreId(t) ==
    /\ ipc[t] = "store"
    /\ globalId' = reg[t]
    /\ ipc' = [ipc EXCEPT ![t] = "start"]
    /\ UNCHANGED <<id, reg, ids, raced, issued>>

(* globalId_ == START_PATTERN || ... *)
TestStart(t) ==
    /\ ipc[t] = "start"
    /\ \E g \in Seen(t) :
          /\ ipc' = [ipc EXCEPT ![t] = IF g = StartPattern THEN "inc2" ELSE "end"]
          /\ reg' = [reg EXCEPT ![t] = g]
    /\ UNCHANGED <<globalId, id, ids, raced, issued>>

Returned(t) ==
    /\ ipc' = [ipc EXCEPT ![t] = "idle"]
    /\ id' = [id EXCEPT ![t] = 0]
    /\ reg' = [reg EXCEPT ![t] = 0]
    /\ raced' = (raced /\ Inside # {t})
    /\ issued' = IF raced THEN <<>> ELSE Append(issued, id[t])
    /\ UNCHANGED ids

(* Mutant: only the start pattern is avoided *)
TestEnd_skipped(t) ==
    /\ ipc[t] = "end"
    /\ Returned(t)
    /\ UNCHANGED globalId

(* ... globalId_ == END_PATTERN; otherwise return id *)
TestEnd(t) ==
    /\ ipc[t] = "end"
    /\ \E g \in Seen(t) :
          \/ /\ g = EndPattern
             /\ ipc' = [ipc EXCEPT ![t] = "inc2"]
             /\ reg' = [reg EXCEPT ![t] = g]
             /\ UNCHANGED <<id, ids, raced, issued>>
          \/ /\ g # EndPattern
             /\ Returned(t)
    /\ UNCHANGED globalId

(* The store of the second globalId_++; return id *)
StoreSkipped(t) ==
    /\ ipc[t] = "store2"
    /\ globalId' = reg[t]
    /\ Returned(t)

IdNext ==
    \E t \in Callers :
        \/ LoadId(t)
        \/ IncId(t)
        \/ StoreId(t)
        \/ TestStart(t)
        \/ TestEnd(t)
        \/ StoreSkipped(t)

IdSpec == IdInit /\ [][IdNext]_idVars

-----------------------------------------------------------------------------
Half == IdMax \div 2   \* 0x7FFFFFFF

(* The int a uint32_t is returned as *)
Signed(u) == IF u > Half THEN u - (IdMax + 1) ELSE u

(* cmpHeader() of two entries with these ids: the difference, or, when the *)
(* ids are more than half of their range apart, what is left of the range. *)
cmpHeader(id1, id2) ==
    LET older == IF id1 < id2 THEN id1 ELSE id2
        newer == IF id1 < id2 THEN id2 ELSE id1
    IN  IF newer - older > Half THEN Signed(U((IdMax - newer) + older)) ELSE Signed(U(id1 - id2))

(* The races of allocateId() heal: of the calls that follow the last ones  *)
(* that overlapped, no two get the same id and, but for the first, none    *)
(* gets a pattern as its id, whatever value the races, or the memory       *)
(* before the first call, left in globalId_.                               *)
SerialIds ==
    \A j, k \in 1..Len(issued) : j < k =>
        /\ issued[j] # issued[k]
        /\ issued[k] \notin {StartPattern, EndPattern}

(* "Return < 0 if entry1 is less than entry2" (log.cpp:297): the order of  *)
(* cmpHeader() is the order of the calls, in both directions, for calls    *)
(* that did not overlap and whose ids are at most half of the range apart, *)
(* "32bit wraparound" (log.cpp:306) between them included.                 *)
CmpOrders ==
    \A j, k \in 1..Len(issued) :
        (j < k /\ U(issued[k] - issued[j]) <= Half) =>
            cmpHeader(issued[j], issued[k]) < 0 /\ cmpHeader(issued[k], issued[j]) > 0
=============================================================================
