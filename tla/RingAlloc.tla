----------------------------- MODULE RingAlloc -----------------------------
(***************************************************************************)
(* What RingBuffer::allocate() promises its callers: a region handed out   *)
(* starts, in the ring, exactly where the previously handed out one ends.  *)
(* The whole allocation is one atomic step here; RingBuffer.tla has the    *)
(* steps of the code and implements this module.                           *)
(***************************************************************************)
EXTENDS Integers

CONSTANTS Threads,  \* the threads that call Log::traceVargs
          Size,     \* RingBuffer::size_
          Lens      \* the lengths a caller may ask for

VARIABLES head,     \* bytes handed out since the start, never wrapped
          claim     \* claim[t]: the region t holds but has not yet filled

\* A region: its absolute start, its start in the ring and its length.
NoClaim == [start |-> 0, loc |-> 0, len |-> 0]

Init == /\ head \in Nat
        /\ claim = [t \in Threads |-> NoClaim]

(* allocate() returned to t. *)
Reserve(t, len) ==
    /\ claim[t] = NoClaim
    /\ claim' = [claim EXCEPT ![t] = [start |-> head, loc |-> head % Size, len |-> len]]
    /\ head' = head + len

(* t has copied its entry with RingBuffer::set() and forgets the region. *)
Release(t) ==
    /\ claim[t] # NoClaim
    /\ claim' = [claim EXCEPT ![t] = NoClaim]
    /\ UNCHANGED head

Next == \E t \in Threads : Release(t) \/ \E len \in Lens : Reserve(t, len)

Spec == Init /\ [][Next]_<<head, claim>>
=============================================================================
