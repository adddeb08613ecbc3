SPECIFICATION FairSpec
CONSTANTS
    Callbacks = {c1}
    MaxWait = 2
    Callers = {t1, t2}
    Intervals = {i1}
    Names = {n1}
    Paths = {p1, p2}
    None = None
INVARIANTS
    LoopReleases
PROPERTY
    CallEnds
