SPECIFICATION Spec
CONSTANTS
    Client = {t}
    Flusher = {c}
    NumFrames = 1
    NumPages = 1
    OldPages = 1
    MaxLsn = 2
    PinModulus = 8
INVARIANT BelowRedoIsSynced
