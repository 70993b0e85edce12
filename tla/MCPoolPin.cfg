SPECIFICATION Spec
CONSTANTS
    Client = {t1, t2}
    Flusher = {t1}
    NumFrames = 1
    NumPages = 2
    OldPages = 1
    MaxLsn = 3
    PinModulus = 8
INVARIANT PinnedFrameStays
