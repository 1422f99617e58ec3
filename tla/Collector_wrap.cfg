\* One producer around the ring, never lapping the collector, then ~Log().
CONSTANTS
    p1 = p1
    p2 = p2
    Producers = {p1}
    Size = 7
    Lens = {2, 3}
    MaxEntries = 4
    IndexMax = 18
    Patterns = {2}
    Margin = 8
    InitIndex = {7}
    InitWrapped = {FALSE}
    InitLast = {0}
    Readers = {"worker", "main"}
    Spins = 2
    EnableCollect = TRUE
    ThresholdPct = 0
    FlushTicks = 0
    InitEnable = {FALSE, TRUE}
    InitBookmark = {0, 4}
    MaxLag = 6
    MaxDumps = 0
    Destroys = TRUE
SPECIFICATION FairSpec
INVARIANTS
    TypeOK
    WholeLines
    OnlyStraddlersLost
    LinesInOrder
    DrainedAtClose
PROPERTIES
    ReadersReturnIfLogged
    NoWriteAfterClose
    CloseReturns
CHECK_DEADLOCK FALSE
