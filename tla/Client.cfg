CONSTANTS
    Threads = {t1, t2}
    NoThread = NoThread
    Batch = 2
    MaxAttempts = 2
    MaxCalls = 3
    MaxFailures = 1
    MaxInterrupts = 1
SPECIFICATION FairSpec
INVARIANTS TypeOK LockFollowsBlock EffectsExact OutcomeTruth HandleFreedOnce
PROPERTIES CallsEnd
CHECK_DEADLOCK FALSE
