CONSTANTS
    Threads = {t1, t2, t3}
    NoThread = NoThread
    MaxLsn = 4
    FsyncIsBarrier = TRUE
    ResetMayFail = FALSE
SPECIFICATION Spec
SYMMETRY Symmetry
INVARIANTS AckedDurable
