SPECIFICATION Spec
CONSTANTS
    MaxPid = 6
    MaxTxn = 3
    LeafCap = 2
    Chunks = 2
    Plans <- AbortPlans
CHECK_DEADLOCK FALSE
INVARIANT DeletersJudged
