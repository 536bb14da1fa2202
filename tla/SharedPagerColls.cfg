CONSTANTS
    Procs = {p1, p2}
    NoProc = NoProc
    Hole = Hole
    NumColls = 2
    Keys = {k1, k2}
    MaxTxns = 2
    MaxOpens = 3
    MaxCrashes = 2
    MaxAborts = 0
    MaxReplayErrors = 1
    ResetMayFail = FALSE
SPECIFICATION Spec
SYMMETRY Symmetry
PROPERTIES PagesImmutable BuildsOnLatest
