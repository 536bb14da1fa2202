CONSTANTS
    Trees = {1}
    NumKeys = 6
    Values <- MCValues
    KeySize <- MCKeySize
    SlotSize = 2
    LeafCap = 18
    NodeCap = 16
    MaxHeight = 4
    MaxOps = 2
    AnyOrder = TRUE
SPECIFICATION Spec
INVARIANTS GetIsLookup
