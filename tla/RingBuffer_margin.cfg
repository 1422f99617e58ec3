\* A third writer: three entries of the longest length no longer fit the margin.
CONSTANTS
    t1 = t1
    t2 = t2
    t3 = t3
    Threads = {t1, t2, t3}
    Size = 5
    IndexMax = 15
    Margin = 5
    Lens = {1, 2}
    MaxLen = 2
    Garbage = {0, 2}
    MaxBytes = 34
SPECIFICATION Spec
SYMMETRY ThreadSymmetry
INVARIANTS
    ClaimsDisjoint
CHECK_DEADLOCK FALSE
