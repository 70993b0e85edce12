CONSTANTS
    PageSize = 32
    LeafHeader = 6
    SlotSize = 1
    RecHeader = 2
    IntHeader = 14
    ChildSize = 2
    EndSize = 1
    KeyLen <- MCKeyLen
    ValueLen <- MCValueLen
    MaxTxn = 4
    MaxPid = 12
SPECIFICATION Spec
INVARIANTS RegionsDisjoint RecordsIntact SearchExact HeaderKept SplitKeepsVersionsTogether
PROPERTY HighKeyClear
CHECK_DEADLOCK FALSE
