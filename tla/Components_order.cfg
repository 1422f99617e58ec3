\* The ids alone: two that lie on both sides of the wrap around.
CONSTANTS
    Parts = {"ids"}
    \* Five cells: a block can end before, at and after the end of the ring.
    Size = 5
    Values = {0, 1, 2}
    \* Two writers, the largest number the margin covers.
    t1 = t1
    t2 = t2
    Threads = {t1, t2}
    IndexMax = 15
    Margin = 5
    Lens = {1, 2}
    MaxLen = 2
    Garbage = {0, 2}
    MaxBytes = 26
    \* c and p are left to their like, s and f.
    Characters = {"%", "+", "0", "1", ".", "h", "l", "d", "x", "o", "f", "s", "A"}
    MaxMore = 4
    StringLens = {0, 1, 6}
    \* Two-bit words; 6 does not fit one.
    a1 = a1
    a2 = a2
    Adders = {a1, a2}
    WordMax = 3
    Adds = {1, 3, 6}
    MaxAdds = 3
    \* Three-bit ids: six of them pass both patterns and the wrap around.
    Callers = {"t1", "t2"}
    IdMax = 7
    StartPattern = 2
    EndPattern = 5
    MaxIds = 6
    \* A bufferSize of 0, one the memory has and one it has not.
    WriteLens = {1, 2}
    BufferSizes = {0, 3, 5}
    Usable = 4
    MaxCalls = 4
SPECIFICATION AllSpec
INVARIANTS
    CmpOrders
CHECK_DEADLOCK FALSE
