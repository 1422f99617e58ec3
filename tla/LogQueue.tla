------------------------------ MODULE LogQueue ------------------------------
(***************************************************************************)
(* What the asynchronous trace file promises a program: every entry whose  *)
(* call returned may be delivered, once, in the order of the entries.      *)
(***************************************************************************)
EXTENDS Integers, Sequences

VARIABLES published,  \* entries whose traceVargs has returned
          delivered   \* lines of the trace file

Init == published = {} /\ delivered = <<>>

Publish ==
    /\ \E n \in published' : n \notin published /\ published' = published \cup {n}
    /\ UNCHANGED delivered

Deliver ==
    /\ Len(delivered) + 1 \in published
    /\ delivered' = Append(delivered, Len(delivered) + 1)
    /\ UNCHANGED published

Spec == Init /\ [][Publish \/ Deliver]_<<published, delivered>>
=============================================================================
