CONSTANTS
    Procs = {p1, p2, p3}
    NoProc = NoProc
    Hole = Hole
    NumColls = 1
    Keys = {k1}
    MaxTxns = 4
    MaxOpens = 3
    MaxCrashes = 0
    MaxAborts = 0
    MaxReplayErrors = 0
    ResetMayFail = FALSE
SPECIFICATION Spec
SYMMETRY Symmetry
INVARIANTS CommittedKept
