SPECIFICATION Spec
CONSTANTS
    MaxTxn = 3
    Reader = {r1}
    Key = {k1}
    VersionId = {v1, v2}
SYMMETRY Symmetry
CONSTRAINT FewSnapshots
INVARIANTS
    PresumedCommitSound
    HorizonSafe
    AbortedCreatorsSwept
PROPERTIES
    VerdictsStable
    GlobalXminMonotone
    RepeatableReads
    ImplementsStore
