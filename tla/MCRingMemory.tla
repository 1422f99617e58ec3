---------------------------- MODULE MCRingMemory ----------------------------
(***************************************************************************)
(* RingMemory on a small ring: any sequence of set() calls, with every     *)
(* start index up to the second turn and every length that fits the ring,  *)
(* and in every state reached all reads, compared with what they mean.     *)
(***************************************************************************)
EXTENDS RingMemory

CONSTANT Values   \* bytes, the terminating 0 among them

VARIABLES ring,    \* buffer_
          cells    \* what each cell should hold, written one by one

copyVars == <<ring, cells>>

Indices == 0..(2 * Size)
Blocks == UNION {[1..n -> Values] : n \in 1..Size}

CopyInit ==
    /\ ring = [c \in 0..(Size - 1) |-> 0]
    /\ cells = ring

Set(index, src) ==
    /\ ring' = set(ring, index, src)
    /\ cells' = [c \in DOMAIN cells |->
                    IF \E k \in 1..Len(src) : CellAt(index, k - 1) = c
                    THEN src[CHOOSE k \in 1..Len(src) : CellAt(index, k - 1) = c]
                    ELSE cells[c]]

CopyNext == \E index \in Indices, src \in Blocks : Set(index, src)

CopySpec == CopyInit /\ [][CopyNext]_copyVars

(* set() writes the bytes round the end of the ring, each to its cell, and *)
(* touches no other cell, whichever of its two memcpy calls writes it.     *)
SetGoesRound == ring = cells

(* get() returns the bytes in the order of the cells, also when the second *)
(* memcpy fetches the rest from the start of the ring.                     *)
GetGoesRound ==
    \A index \in Indices, n \in 1..Size :
        get(ring, index, n) = [k \in 1..n |-> ring[CellAt(index, k - 1)]]

(* compare() is 0 exactly when get() of the same bytes would return p.     *)
CompareIsEquality ==
    \A index \in Indices, n \in 1..Size :
        \A p \in {get(ring, i, n) : i \in Indices} :
            compare(ring, index, p) = 0 <=> get(ring, index, n) = p

(* getString() stops at the first 0 after the index and, in a ring without *)
(* one, after exactly one turn.                                            *)
GetStringEnds ==
    \A index \in Indices :
        LET s == getString(ring, index, 0)
        IN  /\ \A k \in 1..Len(s) : s[k] = getByte(ring, index + k - 1) /\ s[k] # 0
            /\ Len(s) <= Size
            /\ Len(s) < Size => getByte(ring, index + Len(s)) = 0
=============================================================================
