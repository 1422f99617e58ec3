\* dump() of a ring that has been filled.
CONSTANTS
    p1 = p1
    p2 = p2
    Producers = {p1}
    Size = 7
    Lens = {2, 3}
    MaxEntries = 4
    IndexMax = 255
    Patterns = {2}
    Margin = 8
    InitIndex = {0}
    InitWrapped = {FALSE}
    InitLast = {0}
    Readers = {"worker", "main"}
    Spins = 2
    EnableCollect = FALSE
    ThresholdPct = 0
    FlushTicks = 0
    InitEnable = {FALSE}
    InitBookmark = {0}
    MaxLag = 255
    MaxDumps = 1
    Destroys = FALSE
SPECIFICATION Spec
INVARIANTS
    DumpSpillsBuffer
CHECK_DEADLOCK FALSE
