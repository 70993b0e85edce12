SPECIFICATION Spec
CONSTANTS
    MaxPid = 6
    MaxTxn = 3
    LeafCap = 2
    Chunks = 2
    Plans <- MCPlans
CHECK_DEADLOCK FALSE
INVARIANTS
    TypeOK
    AckedSurvives
    CreatorsJudged
    TxnIdsFresh
    PagesHaveOneOwner
    ChainsWhole
    PagesMatchLog
