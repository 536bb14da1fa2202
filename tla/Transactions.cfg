CONSTANTS
    Threads = {t1, t2}
    NoThread = NoThread
    Optimistic = {t1}
    NumColls = 2
    Docs = {1, 2}
    MaxId = 2
    Universe <- MCUniverse
    MaxOps = 2
    MaxFailures = 1
    OneCollection = TRUE
SPECIFICATION Spec
INVARIANTS TypeOK
PROPERTIES Serialisable NoLostUpdate ConflictMeansChange CommitPublishesAll
