\* The straddling entry is the last one logged.
CONSTANTS
    p1 = p1
    p2 = p2
    Producers = {p1}
    Size = 7
    Lens = {2}
    MaxEntries = 4
    IndexMax = 255
    Patterns = {2}
    Margin = 8
    InitIndex = {0}
    InitWrapped = {FALSE}
    InitLast = {0}
    Readers = {"worker", "main"}
    Spins = 2
    EnableCollect = TRUE
    ThresholdPct = 0
    FlushTicks = 0
    InitEnable = {FALSE}
    InitBookmark = {0}
    MaxLag = 6
    MaxDumps = 0
    Destroys = FALSE
SPECIFICATION FairSpec
PROPERTIES
    CatchesUp
CHECK_DEADLOCK FALSE
