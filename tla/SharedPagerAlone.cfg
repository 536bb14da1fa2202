CONSTANTS
    Procs = {p1}
    NoProc = NoProc
    Hole = Hole
    NumColls = 2
    Keys = {k1}
    MaxTxns = 3
    MaxOpens = 3
    MaxCrashes = 2
    MaxAborts = 1
    MaxReplayErrors = 1
    ResetMayFail = TRUE
SPECIFICATION Spec
SYMMETRY Symmetry
INVARIANTS TypeOK KeptUntilReplayFails
