CONSTANTS
    Trees = {1}
    NumKeys = 8
    Values <- MCValues
    KeySize <- MCKeySize
    SlotSize = 2
    LeafCap = 18
    NodeCap = 16
    MaxHeight = 4
    MaxOps = 2
    AnyOrder = FALSE
SPECIFICATION Spec
INVARIANTS TypeOK GetIsLookup WalkIsSorted
