----------------------------- MODULE RingMemory -----------------------------
(***************************************************************************)
(* The copies in and out of the ring (src/src/lib/ringbuffer.cpp): get(),  *)
(* set(), compare() and getString(), each written as the code does it, with *)
(* one memcpy up to the end of the buffer and a second one from its start, *)
(* or with an index normalised after every byte.  A ring is a function on  *)
(* 0..Size-1; what a caller copies is a sequence.                          *)
(***************************************************************************)
EXTENDS Integers, Sequences

CONSTANT Size   \* size_, the number of cells

ASSUME SizeAssumption == Size \in Nat \ {0}

normalize(index) == index % Size

(* memcpy(dst, &buffer_[from], length) *)
memcpyFrom(buffer, from, length) == [k \in 1..length |-> buffer[from + k - 1]]

(* memcpy(&buffer_[to], src, Len(src)) *)
memcpyTo(buffer, to, src) ==
    [c \in DOMAIN buffer |-> IF c \in to..(to + Len(src) - 1) THEN src[c - to + 1] ELSE buffer[c]]

get(buffer, srcIndex, length) ==
    LET src == normalize(srcIndex)
        copyLength == Size - src
    IN  IF src + length <= Size
        THEN memcpyFrom(buffer, src, length)
        ELSE memcpyFrom(buffer, src, copyLength) \o memcpyFrom(buffer, 0, length - copyLength)

getByte(buffer, dstIndex) == buffer[normalize(dstIndex)]

(* Mutant: the second memcpy starts again at the first byte of src *)
set_restart(buffer, dstIndex, src) ==
    LET dst == normalize(dstIndex)
        copyLength == Size - dst
    IN  IF dst + Len(src) <= Size
        THEN memcpyTo(buffer, dst, src)
        ELSE memcpyTo(memcpyTo(buffer, dst, SubSeq(src, 1, copyLength)),
                      0, SubSeq(src, 1, Len(src) - copyLength))

set(buffer, dstIndex, src) ==
    LET dst == normalize(dstIndex)
        copyLength == Size - dst
    IN  IF dst + Len(src) <= Size
        THEN memcpyTo(buffer, dst, src)
        ELSE memcpyTo(memcpyTo(buffer, dst, SubSeq(src, 1, copyLength)),
                      0, SubSeq(src, copyLength + 1, Len(src)))

(* Mutant: only the last byte decides *)
compare_last(buffer, bufferIndex, p) ==
    IF getByte(buffer, bufferIndex + Len(p) - 1) # p[Len(p)] THEN -1 ELSE 0

(* compare() walks the bytes and stops at the first that differs. *)
compare(buffer, bufferIndex, p) ==
    LET walk[di \in 1..(Len(p) + 1)] ==
            IF di > Len(p) THEN 0
            ELSE IF buffer[normalize(normalize(bufferIndex) + di - 1)] # p[di] THEN -1
            ELSE walk[di + 1]
    IN  walk[1]

(* getString() copies up to the terminating zero, or one whole turn. *)
getString(buffer, bufferIndex, zero) ==
    LET walk[di \in 0..Size] ==
            LET c == buffer[normalize(normalize(bufferIndex) + di)]
            IN  IF c = zero \/ di = Size THEN <<>> ELSE <<c>> \o walk[di + 1]
    IN  walk[0]

(***************************************************************************)
(* The cell that is k cells after index, going round the ring: what every  *)
(* operation above means, whatever its copies and normalisations do.       *)
(***************************************************************************)
CellAt(index, k) == (index + k) % Size
=============================================================================
