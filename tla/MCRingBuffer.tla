---------------------------- MODULE MCRingBuffer ----------------------------
(* RingBuffer with the ratio of the code's constants kept: the margin       *)
(* (10240) is two and a half times the longest entry (4096), and the number *)
(* of index values is no multiple of the ring size.                         *)
EXTENDS RingBuffer, TLC

ThreadSymmetry == Permutations(Threads)
=============================================================================
