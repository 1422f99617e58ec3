\* dump() beside a producer, before and after the ring wraps; the collector is off.
CONSTANTS
    p1 = p1
    p2 = p2
    Producers = {p1}
    Size = 7
    Lens = {2, 3}
    MaxEntries = 5
    IndexMax = 18
    Patterns = {2}
    Margin = 8
    InitIndex = {0, 9}
    InitWrapped = {FALSE, TRUE}
    InitLast = {0}
    Readers = {"worker", "main"}
    Spins = 2
    EnableCollect = FALSE
    ThresholdPct = 0
    FlushTicks = 0
    InitEnable = {FALSE}
    InitBookmark = {0}
    MaxLag = 255
    MaxDumps = 2
    Destroys = TRUE
SPECIFICATION Spec
INVARIANTS
    DumpComplete
    DumpFromOldest
CHECK_DEADLOCK FALSE
