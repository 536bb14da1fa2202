CONSTANTS
    Threads = {t1, t2, t3}
    NoThread = NoThread
    MaxLsn = 3
    FsyncIsBarrier = FALSE
    ResetMayFail = TRUE
SPECIFICATION FairSpec
INVARIANTS TypeOK LeaderToken NoLostWakeup LeaderCoversSelf LeaderCommitDurable
PROPERTIES CheckpointCreditsDurable DurabilityIsStable SyncReturns
