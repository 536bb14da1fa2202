CONSTANTS
    Procs = {p, q}
    NoProc = NoProc
    Docs <- MCDocs
    Defs <- MCDefs
    IdLists <- MCIdLists
    EncodeDoc <- Encode
    DecodeDoc <- Decoded
    EntriesFor <- MCEntriesFor
    ByteBase = 16
    IntBytes = 1
    LenBytes = 2
    VarintGroups = 2
    IdBytes = 1
    MaxKey = 13
    MaxValue = 40
    MinCap = 10
    PerDoc = 5
    MaxPasses = 2
    SortedScan = 4
    MaxDocs = 2
    MaxCalls = 5
SPECIFICATION Spec
INVARIANTS TypeOK DocsReadBack IndexExact FindOneAnswers RangeAnswers GetManyConverges
PROPERTIES GetManyAnswers
SYMMETRY Symm
CHECK_DEADLOCK FALSE
