\* Two producers sharing a ring that never wraps.
CONSTANTS
    p1 = p1
    p2 = p2
    Producers = {p1, p2}
    Size = 10
    Lens = {2, 3}
    MaxEntries = 3
    IndexMax = 255
    Patterns = {2}
    Margin = 8
    InitIndex = {0}
    InitWrapped = {FALSE}
    InitLast = {0}
    Readers = {"worker", "main"}
    Spins = 2
    EnableCollect = TRUE
    ThresholdPct = 0
    FlushTicks = 0
    InitEnable = {FALSE}
    InitBookmark = {0}
    MaxLag = 255
    MaxDumps = 0
    Destroys = FALSE
SPECIFICATION Spec
SYMMETRY ProducerSymmetry
INVARIANTS
    LossReported
CHECK_DEADLOCK FALSE
