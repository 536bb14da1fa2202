CONSTANTS
    Tabs = {p, q}
    NoTab = NoTab
    Requests <- MCRequests
    Stored <- MCStored
    FirstId = 4
    Blank = "blank"
    NoTag = NoTag
    MaxAttempts = 2
    MaxRequests = 3
    MaxFailures = 1
    MaxClock = 1
SPECIFICATION FairSpec
INVARIANTS TypeOK PublishedIsReady
PROPERTIES DeletedStaysDeleted Refinement EveryRequestAnswered
CHECK_DEADLOCK FALSE
