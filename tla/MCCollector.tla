---------------------------- MODULE MCCollector -----------------------------
(* Collector with threads that are model values; the producers all run the *)
(* same code, so they may be permuted where no liveness is checked.        *)
EXTENDS Collector, TLC

CONSTANTS p1, p2

ProducerSymmetry == Permutations(Producers)
=============================================================================
