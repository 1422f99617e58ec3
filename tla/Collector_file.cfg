\* One producer, ring never full: the trace file as a queue.
CONSTANTS
    p1 = p1
    p2 = p2
    Producers = {p1}
    Size = 13
    Lens = {2, 3}
    MaxEntries = 4
    IndexMax = 255
    Patterns = {2}
    Margin = 8
    InitIndex = {0}
    InitWrapped = {FALSE}
    InitLast = {0}
    Readers = {"worker", "main"}
    Spins = 2
    EnableCollect = TRUE
    ThresholdPct = 0
    FlushTicks = 1
    InitEnable = {FALSE}
    InitBookmark = {0}
    MaxLag = 255
    MaxDumps = 0
    Destroys = FALSE
SPECIFICATION FairSpec
PROPERTIES
    ImplementsLogQueue
    EventuallyOnDisk
    CatchesUp
CHECK_DEADLOCK FALSE
